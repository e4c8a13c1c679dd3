-------------------------- MODULE StoredCredential --------------------------
(***************************************************************************)
(* The credential of the signed-in user and the commands that use it:      *)
(* login and logout (cli/commands/auth), and every command that refreshes  *)
(* an access token (cli/core/auth/resolve-token.ts).                       *)
(*                                                                         *)
(* The credential is a file encrypted under a key of the platform keychain *)
(* (cli/core/secret-store.ts); no lock covers the two, and the file is     *)
(* replaced by rename.  The authorization server is external: a session is *)
(* opened by a login, its refresh token is replaced at every refresh, and  *)
(* only the newest one is honoured until it is revoked.  The credential of *)
(* generation n carries the n-th refresh token of its session.             *)
(***************************************************************************)
EXTENDS Naturals, Sequences

CONSTANTS
  Command,       \* invocations of drwn; a login opens the session of its name
  None,          \* no file, no key, nothing held
  Held,          \* the session and the key of an earlier sign-in
  Ops            \* what the commands may be asked to do

Login == "login"
Refresh == "refresh"
Logout == "logout"
StrictLogout == "logout --require-remote-revoke"

ASSUME CredentialAssumption ==
  /\ Ops \subseteq {Login, Refresh, Logout, StrictLogout}
  /\ None \notin Command \cup {Held}
  /\ Held \notin Command

Session == Command \cup {Held}
Key == Session
Credential == [session : Session, gen : Nat]
Envelope == [key : Key, cred : Credential]

ASSUME AbsenceAssumption == None \notin Credential \cup Envelope

VARIABLES
  envelope,      \* credentials.json
  keychain,      \* the scoped key in the platform keychain
  live,          \* server: the generation each session honours, 0 for none
  revoked,       \* history: the credentials whose revocation was confirmed
  overlapped,    \* history: a command began while another was under way
  pc,            \* where each command is
  op,            \* what it does
  read,          \* the envelope it read
  next,          \* the credential it is to store
  key,           \* the key it encrypts under
  failed         \* it stopped before its end

store == <<envelope, keychain>>
server == <<live, revoked>>
command == <<pc, op, read, next, key, failed>>
vars == <<store, server, overlapped, command>>

Steps == {"idle", "decrypt", "request", "load", "store", "install", "unlink",
          "delete", "done"}

Init ==
  /\ envelope \in {None, [key |-> Held, cred |-> [session |-> Held, gen |-> 1]]}
  /\ keychain = IF envelope = None THEN None ELSE Held
  /\ live = [s \in Session |-> IF s = Held /\ envelope # None THEN 1 ELSE 0]
  /\ revoked = {}
  /\ overlapped = FALSE
  /\ pc = [c \in Command |-> "idle"]
  /\ op = [c \in Command |-> None]
  /\ read = [c \in Command |-> None]
  /\ next = [c \in Command |-> None]
  /\ key = [c \in Command |-> None]
  /\ failed = [c \in Command |-> FALSE]

Active == {c \in Command : pc[c] \notin {"idle", "done"}}
Begin(c) ==
  /\ pc[c] = "idle"
  /\ overlapped' = (overlapped \/ Active # {})

Goto(c, step) == pc' = [pc EXCEPT ![c] = step]
Honoured(cred) == live[cred.session] = cred.gen

\* runDeviceFlow: the user approves, the server opens a session, and the
\* command holds the first credential of it.
SignIn(c) ==
  /\ Begin(c)
  /\ Login \in Ops
  /\ op' = [op EXCEPT ![c] = Login]
  /\ live' = [live EXCEPT ![c] = 1]
  /\ next' = [next EXCEPT ![c] = [session |-> c, gen |-> 1]]
  /\ Goto(c, "load")
  /\ UNCHANGED <<store, revoked, read, key, failed>>

\* readCredentials, the file: without one the command has nothing to do.
Read(c) ==
  /\ Begin(c)
  /\ \E o \in Ops \ {Login} : op' = [op EXCEPT ![c] = o]
  /\ read' = [read EXCEPT ![c] = envelope]
  /\ Goto(c, IF envelope = None THEN "done" ELSE "decrypt")
  /\ UNCHANGED <<store, server, next, key, failed>>

\* readCredentials, the key: a missing or another key is an integrity error.
Readable(e) == e.key = keychain
Decrypt(c) ==
  /\ pc[c] = "decrypt"
  /\ Goto(c, IF Readable(read[c]) THEN "request" ELSE "done")
  /\ failed' = [failed EXCEPT ![c] = ~Readable(read[c])]
  /\ UNCHANGED <<store, server, overlapped, op, read, next, key>>

\* A token that is fresh enough is used as it is.
UseFresh(c) ==
  /\ pc[c] = "request"
  /\ op[c] = Refresh
  /\ Goto(c, "done")
  /\ UNCHANGED <<store, server, overlapped, op, read, next, key, failed>>

\* refreshStoredCredentialTransaction: the server answers with the next
\* refresh token of the session, or with 4xx to a token it no longer honours.
OldTokenKept(cred) == cred
Refreshed(cred) == [cred EXCEPT !.gen = @ + 1]
CurrentIsStoredAgain(c) == Goto(c, "load") /\ next' = [next EXCEPT ![c] = read[c].cred]
AfterRejection(c) == Goto(c, "done") /\ next' = next
Exchange(c) ==
  LET cred == read[c].cred IN
  /\ pc[c] = "request"
  /\ op[c] = Refresh
  /\ \/ /\ Honoured(cred)
        /\ live' = [live EXCEPT ![cred.session] = cred.gen + 1]
        /\ next' = [next EXCEPT ![c] = Refreshed(cred)]
        /\ Goto(c, "load")
        /\ failed' = failed
     \/ /\ ~Honoured(cred)
        /\ AfterRejection(c)
        /\ failed' = [failed EXCEPT ![c] = TRUE]
        /\ live' = live
  /\ UNCHANGED <<store, revoked, overlapped, op, read, key>>

\* The server carries the refresh out and its answer is lost or refused.
LoseAnswer(c) ==
  LET cred == read[c].cred IN
  /\ pc[c] = "request"
  /\ op[c] = Refresh
  /\ Honoured(cred)
  /\ live' = [live EXCEPT ![cred.session] = cred.gen + 1]
  /\ next' = [next EXCEPT ![c] = Refreshed(cred)]
  /\ failed' = [failed EXCEPT ![c] = TRUE]
  /\ Goto(c, "done")
  /\ UNCHANGED <<store, revoked, overlapped, op, read, key>>

\* clear: the file first, then its key.
KeyFirst == <<"delete", "unlink">>
ClearSteps == <<"unlink", "delete">>
AfterClearing(step) == IF step = ClearSteps[1] THEN ClearSteps[2] ELSE "done"

\* revokeToken: confirmed, or rejected or indeterminate with or without effect.
\* An ordinary logout deletes in any case, a strict one only when confirmed.
DeletesAfter(o, confirmed) == o = Logout \/ confirmed
Revoke(c) ==
  LET cred == read[c].cred IN
  /\ pc[c] = "request"
  /\ op[c] \in {Logout, StrictLogout}
  /\ \E confirmed, effect \in BOOLEAN :
       /\ confirmed /\ Honoured(cred) => effect
       /\ live' = IF effect /\ Honoured(cred) THEN [live EXCEPT ![cred.session] = 0]
                                              ELSE live
       /\ revoked' = IF confirmed THEN revoked \cup {cred} ELSE revoked
       /\ Goto(c, IF DeletesAfter(op[c], confirmed) THEN ClearSteps[1] ELSE "done")
       /\ failed' = [failed EXCEPT ![c] = ~DeletesAfter(op[c], confirmed)]
  /\ UNCHANGED <<store, overlapped, op, read, next, key>>

\* encryptToDisk: the key in the keychain, or a new one when there is none.
LoadKey(c) ==
  /\ pc[c] = "load"
  /\ key' = [key EXCEPT ![c] = keychain]
  /\ Goto(c, IF keychain = None THEN "store" ELSE "install")
  /\ UNCHANGED <<store, server, overlapped, op, read, next, failed>>

KeyNotStored(c) == keychain
StoredKey(c) == c
StoreKey(c) ==
  /\ pc[c] = "store"
  /\ keychain' = StoredKey(c)
  /\ key' = [key EXCEPT ![c] = c]
  /\ Goto(c, "install")
  /\ UNCHANGED <<envelope, server, overlapped, op, read, next, failed>>

\* writeRestricted: the rename that replaces the file, and the restriction of
\* its mode, which may fail after it.
Install(c) ==
  /\ pc[c] = "install"
  /\ envelope' = [key |-> key[c], cred |-> next[c]]
  /\ Goto(c, "done")
  /\ failed' \in {failed, [failed EXCEPT ![c] = TRUE]}
  /\ UNCHANGED <<keychain, server, overlapped, op, read, next, key>>

Unlink(c) ==
  /\ pc[c] = "unlink"
  /\ envelope' = None
  /\ Goto(c, AfterClearing("unlink"))
  /\ UNCHANGED <<keychain, server, overlapped, op, read, next, key, failed>>

\* Deleting a key that is gone is an error on some platforms.
DeleteKey(c) ==
  /\ pc[c] = "delete"
  /\ keychain' = None
  /\ Goto(c, AfterClearing("delete"))
  /\ \E reported \in BOOLEAN :
       failed' = [failed EXCEPT ![c] = reported /\ keychain = None]
  /\ UNCHANGED <<envelope, server, overlapped, op, read, next, key>>

\* An error or the end of the process at any step.
Stop(c) ==
  /\ c \in Active
  /\ failed' = [failed EXCEPT ![c] = TRUE]
  /\ Goto(c, "done")
  /\ UNCHANGED <<store, server, overlapped, op, read, next, key>>

Finished == Active = {} /\ (\A c \in Command : pc[c] = "done") /\ UNCHANGED vars

Step(c) ==
  \/ Decrypt(c) \/ UseFresh(c) \/ Exchange(c) \/ LoseAnswer(c) \/ Revoke(c)
  \/ LoadKey(c) \/ StoreKey(c) \/ Install(c) \/ Unlink(c) \/ DeleteKey(c)

Next ==
  \/ \E c \in Command : SignIn(c) \/ Read(c) \/ Step(c) \/ Stop(c)
  \/ Finished

Spec == Init /\ [][Next]_vars

\* A process that is not stopped runs on.
Fairness == \A c \in Command : WF_vars(Step(c))
FairSpec == Spec /\ Fairness

-----------------------------------------------------------------------------
TypeOK ==
  /\ envelope \in Envelope \cup {None}
  /\ keychain \in Key \cup {None}
  /\ live \in [Session -> Nat]
  /\ revoked \subseteq Credential
  /\ overlapped \in BOOLEAN
  /\ pc \in [Command -> Steps]
  /\ op \in [Command -> Ops \cup {None}]
  /\ read \in [Command -> Envelope \cup {None}]
  /\ next \in [Command -> Credential \cup {None}]
  /\ key \in [Command -> Key \cup {None}]
  /\ failed \in [Command -> BOOLEAN]

\* A credential that was issued and is not yet the stored one.
Pending(c) == pc[c] \in {"load", "store", "install"}
Carries(c, s, g) == next[c] = [session |-> s, gen |-> g]

\* The stored credential of a session goes forward only: a refresh that
\* finishes late never puts an older refresh token back
\* (refreshStoredCredentialTransaction writes what the server answered).
GenerationNeverFalls ==
  [][envelope # None /\ envelope' # None
       /\ envelope'.cred.session = envelope.cred.session
     => envelope'.cred.gen >= envelope.cred.gen]_vars

\* The stored refresh token is the one the server honours, unless its session
\* was revoked, the newer one is on its way to the disk, or the command that
\* obtained it failed ("remote credentials may have rotated").
StaleTokenIsExplained ==
  envelope # None =>
    LET s == envelope.cred.session IN
    \/ live[s] \in {0, envelope.cred.gen}
    \/ \E c \in Command : Carries(c, s, live[s]) /\ (Pending(c) \/ failed[c])

\* As long as commands run one after the other, the file can be decrypted with
\* the key in the keychain, wherever earlier commands stopped (clear removes
\* the file before the key).
CustodyIsReadable == envelope # None => Readable(envelope)
SequentialCustodyIsReadable == ~overlapped => CustodyIsReadable

\* The same once every command has ended: two logins that both succeeded must
\* not leave a file that the key of the other cannot open
\* (docs-docusaurus/docs/reference/cli/login.md:51).
QuietCustodyIsReadable ==
  Active = {} /\ (\A c \in Command : ~failed[c]) => CustodyIsReadable

\* A strict logout deletes only a credential whose revocation the server has
\* confirmed (docs-docusaurus/docs/reference/cli/logout.md:27).
StrictDeletesRevoked ==
  [][\A c \in Command :
       op[c] = StrictLogout /\ pc[c] = "unlink" /\ envelope # None /\ envelope' = None
         => envelope.cred \in revoked]_vars

\* Only a login stores a credential where there is none; a refresh reports
\* missing custody (docs-docusaurus/docs/reference/cli/refresh.md:21).
OnlyLoginEstablishesCustody ==
  [][\A c \in Command :
       pc[c] = "install" /\ envelope = None /\ envelope' # None => op[c] = Login]_vars

\* Whatever the others left behind, a login that runs to its end alone leaves
\* a credential that can be read and whose token is honoured ("run `drwn
\* login` again").
Usable == envelope # None /\ CustodyIsReadable /\ Honoured(envelope.cred)
LastLogin(c) ==
  /\ op[c] = Login
  /\ pc[c] = "load"
  /\ \A d \in Command \ {c} : pc[d] = "done"
LoginRepairs == \A c \in Command : LastLogin(c) ~> Usable \/ failed[c]
=============================================================================
