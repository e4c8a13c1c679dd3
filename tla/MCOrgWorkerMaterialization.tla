--------------------- MODULE MCOrgWorkerMaterialization ---------------------
(***************************************************************************)
(* Small instances of OrgWorkerMaterialization.                            *)
(***************************************************************************)
EXTENDS OrgWorkerMaterialization
=============================================================================
