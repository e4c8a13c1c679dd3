----------------------- MODULE StoredCredentialProofs -----------------------
(***************************************************************************)
(* Proofs about what a machine does with the cloud.                        *)
(*                                                                         *)
(* StoredCredential: for any number of overlapping commands, stopped       *)
(* anywhere, the stored generation of a session never falls and a stale    *)
(* token has an explanation.  Neither is inductive.  That a late write     *)
(* cannot put an older token back rests on the server honouring one token  *)
(* per session: whoever obtained the newest one holds it alone until it is *)
(* stored, and everything that was read from the disk before is older.     *)
(*                                                                         *)
(* DeviceFlow and ManagementRequest, which MCCloud composes with it: a     *)
(* login and a request report what happened, however the hub and the       *)
(* service answer.                                                         *)
(*                                                                         *)
(* StagingCeremony: a ceremony that fails leaves nothing behind.  Where it *)
(* is tells which files can be its own and what the adapter holds for it.  *)
(***************************************************************************)
EXTENDS MCCloud, TLAPS

(* An envelope that was on the disk is behind the server and behind every *)
(* credential of its session that is still to be stored.                  *)
Old(e) == e # None =>
  /\ e.cred.gen >= 1
  /\ live[e.cred.session] = 0 \/ e.cred.gen <= live[e.cred.session]
  /\ e.cred.session \in Command => pc[e.cred.session] # "idle"
  /\ \A c \in Command : Pending(c) /\ next[c].session = e.cred.session
                          => e.cred.gen < next[c].gen

(* A credential that is to be stored is the newest of its session, and only *)
(* one command holds it.                                                    *)
Issued(c) == Pending(c) =>
  /\ next[c] # None
  /\ next[c].gen >= 1
  /\ live[next[c].session] \in {0, next[c].gen}
  /\ next[c].session \in Command => pc[next[c].session] # "idle"
  /\ \A d \in Command \ {c} : Pending(d) => next[d].session # next[c].session

(* What a command has at its steps. *)
Knows(c) ==
  /\ pc[c] = "idle" => live[c] = 0
  /\ pc[c] \in {"decrypt", "request"} => read[c] # None
  /\ pc[c] = "install" => key[c] # None
  /\ failed[c] => pc[c] = "done"

IInv ==
  /\ TypeOK
  /\ StaleTokenIsExplained
  /\ Old(envelope)
  /\ \A c \in Command : Old(read[c]) /\ Issued(c) /\ Knows(c)

LEMMA InitIInv == Init => IInv
  <1> SUFFICES ASSUME Init PROVE IInv
    OBVIOUS
  <1>1. TypeOK
    <2>1. envelope \in Envelope \cup {None} /\ keychain \in Key \cup {None}
      BY DEF Init, Envelope, Credential, Key, Session
    <2>2. live \in [Session -> Nat] /\ pc \in [Command -> Steps]
      BY DEF Init, Steps
    <2>3. QED BY <2>1, <2>2 DEF Init, TypeOK
  <1>2. StaleTokenIsExplained /\ Old(envelope)
    BY CredentialAssumption, AbsenceAssumption DEF Init, StaleTokenIsExplained, Old, Pending, Session
  <1>3. ASSUME NEW c \in Command PROVE Old(read[c]) /\ Issued(c) /\ Knows(c)
    BY CredentialAssumption DEF Init, Old, Issued, Knows, Pending, Session
  <1>4. QED BY <1>1, <1>2, <1>3 DEF IInv

LEMMA SignInIInv == ASSUME IInv, NEW c \in Command, SignIn(c) PROVE IInv'
  <1> USE CredentialAssumption, AbsenceAssumption
  <1>1. TypeOK'
    BY DEF IInv, TypeOK, SignIn, Begin, Goto, store, Credential, Session, Steps
  <1>2. StaleTokenIsExplained'
    BY DEF IInv, TypeOK, SignIn, Begin, Goto, store, Credential, Envelope, Session, Steps, Old, Knows,
           StaleTokenIsExplained, Carries, Pending
  <1>3. Old(envelope)'
    BY DEF IInv, TypeOK, SignIn, Begin, Goto, store, Credential, Envelope, Session, Steps, Old, Knows, Pending
  <1>4. ASSUME NEW d \in Command PROVE Old(read[d])' /\ Issued(d)' /\ Knows(d)'
    <2>1. Old(read[d])'
      BY DEF IInv, TypeOK, SignIn, Begin, Goto, store, Credential, Envelope, Session, Steps, Old, Knows, Pending
    <2>2. Issued(d)'
      BY DEF IInv, TypeOK, SignIn, Begin, Goto, store, Credential, Envelope, Session, Steps, Issued, Knows, Pending
    <2>3. Knows(d)'
      BY DEF IInv, TypeOK, SignIn, Begin, Goto, store, Session, Steps, Knows
    <2>4. QED BY <2>1, <2>2, <2>3
  <1>5. QED BY <1>1, <1>2, <1>3, <1>4 DEF IInv

(* The steps that change neither the file nor the server nor what is to be *)
(* stored: they only move a command on.                                    *)
LEMMA QuietIInv ==
  ASSUME IInv, NEW c \in Command, TypeOK',
         pc[c] # "done",
         UNCHANGED <<envelope, live, next>>,
         \E target \in Steps \ {"idle"} : pc' = [pc EXCEPT ![c] = target],
         pc'[c] \in {"load", "store", "install"} => Pending(c),
         \A d \in Command : read'[d] = read[d] \/ read'[d] = envelope,
         Knows(c)',
         \A d \in Command \ {c} : failed'[d] = failed[d] /\ key'[d] = key[d] /\ read'[d] = read[d],
         Pending(c) => Pending(c)' \/ failed'[c]
  PROVE  IInv'
  <1> USE CredentialAssumption, AbsenceAssumption
  <1>1. PICK target \in Steps \ {"idle"} : pc' = [pc EXCEPT ![c] = target]
    OBVIOUS
  <1>2. \A d \in Command : (Pending(d)' => Pending(d)) /\ (d # c => (Pending(d)' <=> Pending(d)))
    BY <1>1 DEF IInv, TypeOK, Pending
  <1>3. \A d \in Command : pc[d] # "idle" => pc'[d] # "idle"
    BY <1>1 DEF IInv, TypeOK
  <1>4. StaleTokenIsExplained'
    BY <1>2 DEF IInv, StaleTokenIsExplained, Carries, Knows
  <1>5. Old(envelope)' /\ \A d \in Command : Old(read[d])'
    <2>1. \A e : Old(e) => (e # None =>
             /\ e.cred.gen >= 1
             /\ live'[e.cred.session] = 0 \/ e.cred.gen <= live'[e.cred.session]
             /\ e.cred.session \in Command => pc'[e.cred.session] # "idle"
             /\ \A a \in Command : Pending(a)' /\ next'[a].session = e.cred.session
                          => e.cred.gen < next'[a].gen)
      BY <1>2, <1>3 DEF Old
    <2>2. QED BY <2>1 DEF IInv, Old
  <1>6. ASSUME NEW d \in Command PROVE Issued(d)' /\ Knows(d)'
    <2>1. Issued(d)'
      BY <1>2, <1>3 DEF IInv, Issued
    <2>2. Knows(d)'
      BY <1>1 DEF IInv, TypeOK, Knows
    <2>3. QED BY <2>1, <2>2
  <1>7. QED BY <1>4, <1>5, <1>6 DEF IInv

(* What a refresh obtains is the next credential of the session it read. *)
LEMMA NextOfSession ==
  ASSUME TypeOK, NEW c \in Command, read[c] # None
  PROVE  /\ read[c].cred \in Credential
         /\ Refreshed(read[c].cred)
              = [session |-> read[c].cred.session, gen |-> read[c].cred.gen + 1]
         /\ Refreshed(read[c].cred) \in Credential
  BY DEF TypeOK, Envelope, Credential, Refreshed

(* Every step keeps the types. *)
LEMMA TypeStep == IInv /\ [Next]_vars => TypeOK'
  <1> SUFFICES ASSUME IInv, [Next]_vars PROVE TypeOK'
    OBVIOUS
  <1> USE CredentialAssumption, AbsenceAssumption
  <1>0. TypeOK /\ \A c \in Command : Knows(c) /\ Issued(c)
    BY DEF IInv
  <1>1. CASE UNCHANGED vars
    BY <1>0, <1>1 DEF TypeOK, vars, store, server, command
  <1>2. CASE Finished
    BY <1>0, <1>2 DEF Finished, TypeOK, vars, store, server, command
  <1>3. ASSUME NEW c \in Command, SignIn(c) \/ Read(c) \/ Stop(c) PROVE TypeOK'
    <2>1. CASE SignIn(c)
      BY <1>0, <2>1 DEF TypeOK, SignIn, Begin, Goto, store, Credential, Session, Steps
    <2>2. CASE Read(c)
      BY <1>0, <2>2 DEF TypeOK, Read, Begin, Goto, store, server, Steps
    <2>3. CASE Stop(c)
      BY <1>0, <2>3 DEF TypeOK, Stop, Goto, store, server, Steps
    <2>4. QED BY <1>3, <2>1, <2>2, <2>3
  <1>4. ASSUME NEW c \in Command, Step(c) PROVE TypeOK'
    <2>1. CASE Decrypt(c)
      BY <1>0, <2>1 DEF TypeOK, Decrypt, Readable, Goto, store, server, Steps
    <2>2. CASE UseFresh(c)
      BY <1>0, <2>2 DEF TypeOK, UseFresh, Goto, store, server, Steps
    <2>3. CASE Exchange(c)
      <3>1. /\ read[c].cred \in Credential /\ Refreshed(read[c].cred) \in Credential
            /\ read[c].cred.session \in Session /\ read[c].cred.gen + 1 \in Nat
        <4>1. read[c] # None
          BY <1>0, <2>3 DEF Knows, Exchange
        <4>2. read[c].cred \in Credential /\ Refreshed(read[c].cred) \in Credential
          BY <1>0, <4>1, NextOfSession
        <4>3. QED BY <4>2 DEF Credential
      <3>2. live' \in [Session -> Nat]
        BY <1>0, <2>3, <3>1 DEF TypeOK, Exchange
      <3>3. next' \in [Command -> Credential \cup {None}]
        BY <1>0, <2>3, <3>1 DEF TypeOK, Exchange, AfterRejection
      <3>4. pc' \in [Command -> Steps] /\ failed' \in [Command -> BOOLEAN]
        BY <1>0, <2>3 DEF TypeOK, Exchange, AfterRejection, Goto, Steps
      <3>5. UNCHANGED <<store, revoked, overlapped, op, read, key>>
        BY <2>3 DEF Exchange
      <3>6. QED BY <1>0, <3>2, <3>3, <3>4, <3>5 DEF TypeOK, store
    <2>4. CASE LoseAnswer(c)
      <3>1. /\ read[c].cred \in Credential /\ Refreshed(read[c].cred) \in Credential
            /\ read[c].cred.session \in Session /\ read[c].cred.gen + 1 \in Nat
        <4>1. read[c] # None
          BY <1>0, <2>4 DEF Knows, LoseAnswer
        <4>2. read[c].cred \in Credential /\ Refreshed(read[c].cred) \in Credential
          BY <1>0, <4>1, NextOfSession
        <4>3. QED BY <4>2 DEF Credential
      <3>2. live' \in [Session -> Nat]
        BY <1>0, <2>4, <3>1 DEF TypeOK, LoseAnswer
      <3>3. next' \in [Command -> Credential \cup {None}]
        BY <1>0, <2>4, <3>1 DEF TypeOK, LoseAnswer
      <3>4. pc' \in [Command -> Steps] /\ failed' \in [Command -> BOOLEAN]
        BY <1>0, <2>4 DEF TypeOK, LoseAnswer, Goto, Steps
      <3>5. UNCHANGED <<store, revoked, overlapped, op, read, key>>
        BY <2>4 DEF LoseAnswer
      <3>6. QED BY <1>0, <3>2, <3>3, <3>4, <3>5 DEF TypeOK, store
    <2>5. CASE Revoke(c)
      <3>1. read[c].cred \in Credential /\ read[c].cred.session \in Session
        BY <1>0, <2>5, NextOfSession DEF Knows, Revoke, Credential
      <3>2. live' \in [Session -> Nat]
        BY <1>0, <2>5, <3>1 DEF TypeOK, Revoke
      <3>3. revoked' \subseteq Credential
        BY <1>0, <2>5, <3>1 DEF TypeOK, Revoke
      <3>4. pc' \in [Command -> Steps] /\ failed' \in [Command -> BOOLEAN]
        BY <1>0, <2>5 DEF TypeOK, Revoke, Goto, Steps, ClearSteps, DeletesAfter
      <3>5. UNCHANGED <<store, overlapped, op, read, next, key>>
        BY <2>5 DEF Revoke
      <3>6. QED BY <1>0, <3>2, <3>3, <3>4, <3>5 DEF TypeOK, store
    <2>6. CASE LoadKey(c)
      BY <1>0, <2>6 DEF TypeOK, LoadKey, Goto, store, server, Steps
    <2>7. CASE StoreKey(c)
      BY <1>0, <2>7 DEF TypeOK, StoreKey, StoredKey, Goto, server, Key, Session, Steps
    <2>8. CASE Install(c)
      BY <1>0, <2>8, ZenonT(60) DEF Knows, Issued, Pending, Envelope, TypeOK, Install, Goto, server, Steps
    <2>9. CASE Unlink(c)
      BY <1>0, <2>9 DEF TypeOK, Unlink, AfterClearing, ClearSteps, Goto, server, Steps
    <2>10. CASE DeleteKey(c)
      BY <1>0, <2>10 DEF TypeOK, DeleteKey, AfterClearing, ClearSteps, Goto, server, Steps
    <2>11. QED
      BY <1>4, <2>1, <2>2, <2>3, <2>4, <2>5, <2>6, <2>7, <2>8, <2>9, <2>10 DEF Step
  <1>5. QED BY <1>1, <1>2, <1>3, <1>4 DEF Next

(* The steps of QuietIInv. *)
LEMMA QuietSteps ==
  ASSUME IInv, TypeOK', NEW c \in Command,
         \/ Read(c) \/ Stop(c) \/ Decrypt(c) \/ UseFresh(c) \/ LoadKey(c)
         \/ StoreKey(c) \/ DeleteKey(c)
  PROVE  IInv'
  <1> DEFINE Quiet ==
        /\ pc[c] # "done"
        /\ UNCHANGED <<envelope, live, next>>
        /\ \E target \in Steps \ {"idle"} : pc' = [pc EXCEPT ![c] = target]
        /\ pc'[c] \in {"load", "store", "install"} => Pending(c)
        /\ \A d \in Command : read'[d] = read[d] \/ read'[d] = envelope
        /\ Knows(c)'
        /\ \A d \in Command \ {c} :
             failed'[d] = failed[d] /\ key'[d] = key[d] /\ read'[d] = read[d]
        /\ Pending(c) => Pending(c)' \/ failed'[c]
  <1> USE CredentialAssumption, AbsenceAssumption
  <1>0. TypeOK /\ Knows(c) /\ Issued(c)
    BY DEF IInv
  <1>1. CASE Read(c)
    <2>1. Quiet
      BY <1>0, <1>1 DEF Read, Begin, TypeOK, Knows, Pending, Goto, store, server, Steps
    <2>2. QED BY <2>1, QuietIInv
  <1>2. CASE Stop(c)
    <2>1. Quiet
      BY <1>0, <1>2 DEF Stop, Active, TypeOK, Knows, Pending, Goto, store, server, Steps
    <2>2. QED BY <2>1, QuietIInv
  <1>3. CASE Decrypt(c)
    <2>1. Quiet
      BY <1>0, <1>3 DEF Decrypt, Readable, TypeOK, Knows, Pending, Goto, store, server, Steps
    <2>2. QED BY <2>1, QuietIInv
  <1>4. CASE UseFresh(c)
    <2>1. Quiet
      BY <1>0, <1>4 DEF UseFresh, TypeOK, Knows, Pending, Goto, store, server, Steps
    <2>2. QED BY <2>1, QuietIInv
  <1>5. CASE LoadKey(c)
    <2>1. Quiet
      BY <1>0, <1>5 DEF LoadKey, TypeOK, Knows, Pending, Goto, store, server, Steps
    <2>2. QED BY <2>1, QuietIInv
  <1>6. CASE StoreKey(c)
    <2>1. Quiet
      BY <1>0, <1>6 DEF StoreKey, TypeOK, Knows, Pending, Goto, server, Steps
    <2>2. QED BY <2>1, QuietIInv
  <1>7. CASE DeleteKey(c)
    <2>1. Quiet
      BY <1>0, <1>7 DEF DeleteKey, AfterClearing, ClearSteps, TypeOK, Knows, Pending, Goto, server, Steps
    <2>2. QED BY <2>1, QuietIInv
  <1>8. QED BY <1>1, <1>2, <1>3, <1>4, <1>5, <1>6, <1>7

(* A refresh that the server carries out: the server honours the token that *)
(* was read, so no other command has a newer one of its session to store.   *)
LEMMA RotationIInv ==
  ASSUME IInv, TypeOK', NEW c \in Command, NEW target \in {"load", "done"},
         pc[c] = "request", Honoured(read[c].cred),
         live' = [live EXCEPT ![read[c].cred.session] = read[c].cred.gen + 1],
         next' = [next EXCEPT ![c] = Refreshed(read[c].cred)],
         pc' = [pc EXCEPT ![c] = target],
         UNCHANGED <<envelope, read, key>>,
         failed' = [failed EXCEPT ![c] = (target = "done")]
  PROVE  IInv'
  <1> USE CredentialAssumption, AbsenceAssumption
  <1> DEFINE s == read[c].cred.session
             g == read[c].cred.gen
  <1>1. /\ TypeOK /\ Old(read[c]) /\ Issued(c) /\ Knows(c) /\ Old(envelope)
        /\ read[c] # None
        /\ ~Pending(c) /\ ~failed[c]
    BY DEF IInv, Knows, Pending
  <1>2. /\ s \in Session /\ g \in Nat /\ g >= 1
        /\ live[s] = g /\ live'[s] = g + 1
        /\ \A t \in Session \ {s} : live'[t] = live[t]
        /\ next'[c] = [session |-> s, gen |-> g + 1] /\ next'[c] # None
        /\ \A d \in Command \ {c} : /\ next'[d] = next[d] /\ pc'[d] = pc[d]
                                    /\ failed'[d] = failed[d]
                                    /\ Pending(d)' <=> Pending(d)
        /\ s \in Command => pc[s] # "idle"
        /\ Pending(c)' \/ failed'[c]
    <2>1. s \in Session /\ g \in Nat /\ g >= 1 /\ live[s] = g /\ (s \in Command => pc[s] # "idle")
      BY <1>1, NextOfSession DEF Old, Honoured, Credential
    <2>2. live'[s] = g + 1 /\ \A t \in Session \ {s} : live'[t] = live[t]
      BY <1>1, <2>1 DEF TypeOK
    <2>3. next'[c] = [session |-> s, gen |-> g + 1] /\ next'[c] # None
      <3>1. next'[c] = Refreshed(read[c].cred)
        BY <1>1 DEF TypeOK
      <3>2. QED BY <1>1, <3>1, NextOfSession
    <2>4. \A d \in Command \ {c} : /\ next'[d] = next[d] /\ pc'[d] = pc[d]
                                    /\ failed'[d] = failed[d]
      BY <1>1 DEF TypeOK
    <2>5. pc'[c] = target /\ failed'[c] = (target = "done")
      BY <1>1 DEF TypeOK
    <2>6. QED BY <2>1, <2>2, <2>3, <2>4, <2>5 DEF Pending
  <1>3. \A d \in Command \ {c} : Pending(d) => next[d].session # s
    BY <1>1, <1>2, SMTT(30) DEF IInv, Old, Issued, TypeOK, Credential
  <1>4. \A d \in Command : pc[d] # "idle" => pc'[d] # "idle"
    BY <1>1 DEF TypeOK
  <1>5. StaleTokenIsExplained'
    <2>1. CASE envelope # None /\ envelope.cred.session = s
      BY <1>1, <1>2, <2>1 DEF StaleTokenIsExplained, Carries
    <2>2. CASE envelope # None /\ envelope.cred.session # s
      BY <1>1, <1>2, <2>2 DEF IInv, StaleTokenIsExplained, Carries, TypeOK, Envelope, Credential
    <2>3. QED BY <2>1, <2>2 DEF StaleTokenIsExplained
  <1>6. ASSUME NEW e \in Envelope, Old(e)
        PROVE  /\ e.cred.gen >= 1
               /\ live'[e.cred.session] = 0 \/ e.cred.gen <= live'[e.cred.session]
               /\ e.cred.session \in Command => pc'[e.cred.session] # "idle"
               /\ \A d \in Command : Pending(d)' /\ next'[d].session = e.cred.session
                          => e.cred.gen < next'[d].gen
    <2>1. e.cred.session \in Session /\ e.cred.gen \in Nat /\ e # None
      BY DEF Envelope, Credential
    <2>2. CASE e.cred.session = s
      BY <1>2, <1>3, <1>4, <1>6, <2>1, <2>2, SMTT(30) DEF Old
    <2>3. CASE e.cred.session # s
      BY <1>2, <1>4, <1>6, <2>1, <2>3 DEF Old
    <2>4. QED BY <2>2, <2>3
  <1>7. Old(envelope)' /\ \A d \in Command : Old(read[d])'
    <2>1. \A e \in Envelope \cup {None} : Old(e) => e = None \/
            (/\ e.cred.gen >= 1
             /\ live'[e.cred.session] = 0 \/ e.cred.gen <= live'[e.cred.session]
             /\ e.cred.session \in Command => pc'[e.cred.session] # "idle"
             /\ \A d \in Command : Pending(d)' /\ next'[d].session = e.cred.session
                          => e.cred.gen < next'[d].gen)
      BY <1>6
    <2>2. QED BY <1>1, <2>1 DEF IInv, Old, TypeOK
  <1>8. ASSUME NEW d \in Command PROVE Issued(d)' /\ Knows(d)'
    <2>1. Issued(d)'
      <3>1. CASE d = c
        BY <1>2, <1>3, <1>4, <3>1 DEF Issued
      <3>2. CASE d # c
        <4>1. Pending(d) => next[d] # None /\ next[d].session \in Session
          BY <1>1 DEF IInv, Issued, TypeOK, Credential
        <4>2. QED BY <1>2, <1>3, <1>4, <3>2, <4>1 DEF IInv, Issued
      <3>3. QED BY <3>1, <3>2
    <2>2. Knows(d)'
      BY <1>1, <1>2, <1>4 DEF IInv, Knows, TypeOK, Session
    <2>3. QED BY <2>1, <2>2
  <1>9. QED BY <1>5, <1>7, <1>8 DEF IInv

(* The rename that stores a credential: nothing newer of its session is on *)
(* its way, so what is stored is what the server honours.                  *)
LEMMA InstallIInv == ASSUME IInv, TypeOK', NEW c \in Command, Install(c) PROVE IInv'
  <1> USE CredentialAssumption, AbsenceAssumption
  <1> DEFINE s == next[c].session
  <1>1. /\ TypeOK /\ Issued(c) /\ Knows(c) /\ pc[c] = "install"
        /\ Pending(c) /\ ~Pending(c)'
        /\ envelope' # None /\ envelope' \in Envelope
        /\ envelope'.cred = next[c]
        /\ s \in Session /\ next[c].gen \in Nat
    <2>1. TypeOK /\ Issued(c) /\ Knows(c) /\ pc[c] = "install" /\ Pending(c)
      BY DEF IInv, Install, Pending
    <2>2. next[c] \in Credential /\ key[c] \in Key
      BY <2>1 DEF Issued, Knows, TypeOK
    <2>3. envelope' \in Envelope /\ envelope'.cred = next[c]
      BY <2>2 DEF Install, Envelope
    <2>4. ~Pending(c)'
      BY <2>1 DEF TypeOK, Install, Goto, Pending
    <2>5. QED BY <2>1, <2>2, <2>3, <2>4 DEF Credential
  <1>2. \A d \in Command \ {c} : /\ pc'[d] = pc[d] /\ failed'[d] = failed[d]
                                 /\ Pending(d)' <=> Pending(d)
    BY <1>1 DEF TypeOK, Install, Goto, Pending
  <1>3. UNCHANGED <<keychain, live, revoked, op, read, next, key>>
    BY DEF Install, server
  <1>4. pc'[c] = "done" /\ \A d \in Command : pc[d] # "idle" => pc'[d] # "idle"
    BY <1>1, <1>2 DEF TypeOK, Install, Goto
  <1>5. StaleTokenIsExplained'
    BY <1>1, <1>3 DEF StaleTokenIsExplained, Issued
  <1>6. Old(envelope)'
    BY <1>1, <1>2, <1>3, <1>4 DEF Issued, Old
  <1>7. ASSUME NEW d \in Command PROVE Old(read[d])' /\ Issued(d)' /\ Knows(d)'
    <2>1. Old(read[d]) /\ Issued(d) /\ Knows(d)
      BY DEF IInv
    <2>2. Old(read[d])'
      BY <1>1, <1>2, <1>3, <1>4, <2>1 DEF Old
    <2>3. Issued(d)'
      BY <1>1, <1>2, <1>3, <1>4, <2>1 DEF Issued
    <2>4. Knows(d)'
      BY <1>2, <1>3, <1>4, <2>1 DEF Knows
    <2>5. QED BY <2>2, <2>3, <2>4
  <1>8. QED BY <1>5, <1>6, <1>7 DEF IInv

(* Revocation and the removal of the file only take away what a stale token *)
(* would have to be compared with.                                          *)
LEMMA RemovalIInv ==
  ASSUME IInv, TypeOK', NEW c \in Command, Revoke(c) \/ Unlink(c)
  PROVE  IInv'
  <1> USE CredentialAssumption, AbsenceAssumption
  <1>1. TypeOK /\ Knows(c) /\ ~Pending(c) /\ ~failed[c]
    BY DEF IInv, Knows, Pending, Revoke, Unlink
  <1>2. /\ UNCHANGED <<read, next, key>>
        /\ envelope' \in {None, envelope}
        /\ \A t \in Session : live'[t] \in {0, live[t]}
    BY <1>1 DEF Revoke, Unlink, TypeOK, store, server
  <1>3. pc'[c] \in {"unlink", "delete", "done"} /\ (failed'[c] => pc'[c] = "done")
    BY <1>1 DEF Revoke, Unlink, TypeOK, Goto, ClearSteps, AfterClearing
  <1>4. \A d \in Command \ {c} : pc'[d] = pc[d] /\ failed'[d] = failed[d]
    BY <1>1 DEF Revoke, Unlink, TypeOK, Goto
  <1>5. \A d \in Command : /\ Pending(d)' <=> Pending(d)
                           /\ failed[d] => failed'[d]
                           /\ pc[d] # "idle" => pc'[d] # "idle"
                           /\ pc'[d] = "idle" => pc[d] = "idle"
    BY <1>1, <1>3, <1>4 DEF Pending
  <1>6. \A e \in Envelope : e # None /\ e.cred.session \in Session /\ e.cred.gen \in Nat
    BY DEF Envelope, Credential
  <1>7. StaleTokenIsExplained'
    BY <1>1, <1>2, <1>5, <1>6 DEF IInv, StaleTokenIsExplained, Carries, TypeOK
  <1>8. ASSUME NEW e \in Envelope, Old(e)
        PROVE  /\ e.cred.gen >= 1
               /\ live'[e.cred.session] = 0 \/ e.cred.gen <= live'[e.cred.session]
               /\ e.cred.session \in Command => pc'[e.cred.session] # "idle"
               /\ \A d \in Command : Pending(d)' /\ next'[d].session = e.cred.session
                          => e.cred.gen < next'[d].gen
    BY <1>2, <1>5, <1>6, <1>8 DEF Old
  <1>9. Old(envelope)' /\ \A d \in Command : Old(read[d])'
    <2>1. \A e \in Envelope \cup {None} : Old(e) => e = None \/
            (/\ e.cred.gen >= 1
             /\ live'[e.cred.session] = 0 \/ e.cred.gen <= live'[e.cred.session]
             /\ e.cred.session \in Command => pc'[e.cred.session] # "idle"
             /\ \A d \in Command : Pending(d)' /\ next'[d].session = e.cred.session
                          => e.cred.gen < next'[d].gen)
      BY <1>8
    <2>2. QED BY <1>1, <1>2, <2>1 DEF IInv, Old, TypeOK
  <1>10. ASSUME NEW d \in Command PROVE Issued(d)' /\ Knows(d)'
    <2>1. Issued(d) /\ Knows(d) /\ (Pending(d) => next[d].session \in Session)
      BY <1>1 DEF IInv, Issued, TypeOK, Credential
    <2>2. Issued(d)'
      BY <1>2, <1>5, <2>1 DEF Issued
    <2>3. d \in Session /\ live[d] \in Nat
      BY <1>1 DEF TypeOK, Session
    <2>4. Knows(d)'
      <3>1. CASE d = c
        BY <1>2, <1>3, <3>1 DEF Knows
      <3>2. CASE d # c
        BY <1>2, <1>4, <2>1, <2>3, <3>2 DEF Knows
      <3>3. QED BY <3>1, <3>2
    <2>5. QED BY <2>2, <2>4
  <1>11. QED BY <1>7, <1>9, <1>10 DEF IInv

LEMMA NextIInv == IInv /\ [Next]_vars => IInv'
  <1> SUFFICES ASSUME IInv, [Next]_vars PROVE IInv'
    OBVIOUS
  <1>0. TypeOK'
    BY TypeStep
  <1>1. CASE UNCHANGED vars
    BY <1>0, <1>1 DEF vars, store, server, command, IInv, StaleTokenIsExplained, Carries, Old,
                      Issued, Knows, Pending
  <1>2. ASSUME NEW c \in Command, SignIn(c) \/ Read(c) \/ Step(c) \/ Stop(c) PROVE IInv'
    <2>1. CASE SignIn(c)
      BY <2>1, SignInIInv
    <2>2. CASE Exchange(c)
      <3>1. CASE Honoured(read[c].cred)
        <4>1. failed[c] = FALSE
          BY <2>2 DEF IInv, TypeOK, Knows, Exchange
        <4>2. failed' = [failed EXCEPT ![c] = ("load" = "done")]
          BY <2>2, <3>1, <4>1 DEF IInv, TypeOK, Exchange
        <4>3. QED
          BY <1>0, <2>2, <3>1, <4>2, RotationIInv DEF Exchange, Goto, store
      <3>2. CASE ~Honoured(read[c].cred)
        <4>1. /\ pc[c] = "request" /\ pc' = [pc EXCEPT ![c] = "done"]
              /\ UNCHANGED <<envelope, live, next, read, key>>
              /\ failed' = [failed EXCEPT ![c] = TRUE]
          BY <2>2, <3>2 DEF Exchange, AfterRejection, Goto, store
        <4>2. pc'[c] = "done" /\ Knows(c)' /\ ~Pending(c)
          BY <4>1 DEF IInv, TypeOK, Knows, Pending
        <4>3. \A d \in Command \ {c} : failed'[d] = failed[d]
          BY <4>1 DEF IInv, TypeOK
        <4>4. QED BY <1>0, <4>1, <4>2, <4>3, QuietIInv DEF Steps
      <3>3. QED BY <3>1, <3>2
    <2>3. CASE LoseAnswer(c)
      BY <1>0, <2>3, RotationIInv DEF LoseAnswer, Goto, store
    <2>4. CASE Install(c)
      BY <1>0, <2>4, InstallIInv
    <2>5. CASE Revoke(c) \/ Unlink(c)
      BY <1>0, <2>5, RemovalIInv
    <2>6. CASE \/ Read(c) \/ Stop(c) \/ Decrypt(c) \/ UseFresh(c) \/ LoadKey(c)
               \/ StoreKey(c) \/ DeleteKey(c)
      BY <1>0, <2>6, QuietSteps
    <2>7. QED BY <1>2, <2>1, <2>2, <2>3, <2>4, <2>5, <2>6 DEF Step
  <1>3. QED BY <1>1, <1>2 DEF Next, Finished

LEMMA Invariance == Spec => []IInv
  <1>1. Init => IInv
    BY InitIInv
  <1>2. IInv /\ [Next]_vars => IInv'
    BY NextIInv
  <1>3. QED BY <1>1, <1>2, PTL DEF Spec

(* Whatever the commands do and wherever they stop, the file, the key, the   *)
(* server and what each command holds have their types.                      *)
THEOREM TypeCorrect == Spec => []TypeOK
  <1>1. IInv => TypeOK
    BY DEF IInv
  <1>2. QED BY <1>1, Invariance, PTL

(* A stored refresh token that the server no longer honours was replaced by  *)
(* one that is on its way to the disk, or by one whose command failed, or    *)
(* its session was revoked (cli/core/auth/resolve-token.ts).                 *)
THEOREM StaleOnlyWithCause == Spec => []StaleTokenIsExplained
  <1>1. IInv => StaleTokenIsExplained
    BY DEF IInv
  <1>2. QED BY <1>1, Invariance, PTL

(* Only Install writes a credential, and it writes one newer than any of the *)
(* same session that was ever on the disk.                                   *)
LEMMA StepForward ==
  ASSUME IInv, [Next]_vars, envelope # None, envelope' # None,
         envelope'.cred.session = envelope.cred.session
  PROVE  envelope'.cred.gen >= envelope.cred.gen
  <1> USE CredentialAssumption, AbsenceAssumption
  <1>1. envelope \in Envelope /\ envelope.cred.gen \in Nat
    BY DEF IInv, TypeOK, Envelope, Credential
  <1>2. CASE envelope' = envelope
    BY <1>1, <1>2
  <1>3. ASSUME NEW c \in Command, Install(c)
        PROVE  envelope'.cred.gen >= envelope.cred.gen
    <2>1. envelope'.cred = next[c] /\ Pending(c)
      BY <1>3 DEF Install, Pending
    <2>2. next[c].gen \in Nat
      BY <2>1 DEF IInv, Issued, TypeOK, Credential
    <2>3. QED BY <1>1, <2>1, <2>2 DEF IInv, Old
  <1>4. envelope' = envelope \/ envelope' = None \/ \E c \in Command : Install(c)
    BY DEF Next, Step, SignIn, Read, Decrypt, UseFresh, Exchange, LoseAnswer, Revoke, LoadKey,
           StoreKey, Unlink, DeleteKey, Stop, Finished, vars, store, server
  <1>5. QED BY <1>2, <1>3, <1>4

(* A late write never replaces the stored refresh token of a session by an   *)
(* older one, though no lock orders the commands that write it.              *)
THEOREM ForwardOnly == Spec => GenerationNeverFalls
  <1>1. IInv /\ [Next]_vars =>
          [envelope # None /\ envelope' # None
             /\ envelope'.cred.session = envelope.cred.session
           => envelope'.cred.gen >= envelope.cred.gen]_vars
    BY StepForward
  <1>2. QED BY <1>1, Invariance, PTL DEF Spec, GenerationNeverFalls

-----------------------------------------------------------------------------
(* Custody of commands that run one after the other.  What a command at its *)
(* steps relies on: the key it encrypts under is the one in the keychain,   *)
(* a key is made only where there is none, and a key is deleted only when   *)
(* the file is gone.  None of it survives a second command.                 *)
RunsAlone(c) ==
  /\ \A d \in Active : d = c
  /\ pc[c] = "store" => keychain = None
  /\ pc[c] = "install" => key[c] = keychain
  /\ pc[c] = "delete" => envelope = None

Alone == ~overlapped => CustodyIsReadable /\ \A c \in Active : RunsAlone(c)

LEMMA InitAlone == Init => Alone
  BY CredentialAssumption, AbsenceAssumption
  DEF Init, Alone, CustodyIsReadable, Readable, Active

(* The first step of a command: if it overlaps none, no other is active. *)
LEMMA BeginAlone ==
  ASSUME IInv, Alone, NEW c \in Command, Begin(c), UNCHANGED store,
         pc' = [pc EXCEPT ![c] = pc'[c]],
         pc'[c] \notin {"store", "install", "delete"}
  PROVE  Alone'
  <1> SUFFICES ASSUME ~overlapped' PROVE CustodyIsReadable' /\ \A d \in Active' : RunsAlone(d)'
    BY DEF Alone
  <1>1. ~overlapped /\ Active = {}
    BY DEF Begin
  <1>2. CustodyIsReadable'
    BY <1>1 DEF Alone, CustodyIsReadable, Readable, store
  <1>3. Active' \subseteq {c}
    BY <1>1 DEF Active, IInv, TypeOK
  <1>4. QED BY <1>2, <1>3 DEF RunsAlone

(* A later step of a command that runs alone keeps custody readable if it  *)
(* leaves the command with what its next step relies on.                   *)
LEMMA StepAlone ==
  ASSUME IInv, Alone, NEW c \in Command, pc[c] \notin {"idle", "done"},
         overlapped' = overlapped,
         pc' = [pc EXCEPT ![c] = pc'[c]],
         ~overlapped /\ CustodyIsReadable /\ RunsAlone(c)
           => /\ CustodyIsReadable'
              /\ (pc[c] = "store" => keychain = None)'
              /\ (pc[c] = "install" => key[c] = keychain)'
              /\ (pc[c] = "delete" => envelope = None)'
  PROVE  Alone'
  <1> SUFFICES ASSUME ~overlapped' PROVE CustodyIsReadable' /\ \A d \in Active' : RunsAlone(d)'
    BY DEF Alone
  <1>1. ~overlapped /\ c \in Active
    BY DEF Active
  <1>2. CustodyIsReadable /\ RunsAlone(c)
    BY <1>1 DEF Alone
  <1>3. Active' \subseteq Active
    BY <1>1 DEF Active, IInv, TypeOK
  <1>4. \A d \in Active' : d = c
    BY <1>2, <1>3 DEF RunsAlone
  <1>5. QED BY <1>1, <1>2, <1>4 DEF RunsAlone

LEMMA NextAlone == ASSUME IInv, Alone, [Next]_vars PROVE Alone'
  <1> USE CredentialAssumption, AbsenceAssumption
  <1>1. ASSUME UNCHANGED vars PROVE Alone'
    BY <1>1 DEF Alone, CustodyIsReadable, Readable, Active, RunsAlone, vars, store, command
  <1>2. ASSUME NEW c \in Command, SignIn(c) \/ Read(c) PROVE Alone'
    <2>1. Begin(c) /\ UNCHANGED store
      BY <1>2 DEF SignIn, Read, Begin, store
    <2>2. pc' = [pc EXCEPT ![c] = pc'[c]] /\ pc'[c] \in {"load", "done", "decrypt"}
      BY <1>2 DEF SignIn, Read, Goto, IInv, TypeOK
    <2>3. QED BY <2>1, <2>2, BeginAlone
  <1>3. ASSUME NEW c \in Command, Step(c) \/ Stop(c) PROVE Alone'
    <2>1. pc[c] \notin {"idle", "done"} /\ overlapped' = overlapped
      BY <1>3 DEF Step, Stop, Active, Decrypt, UseFresh, Exchange, LoseAnswer, Revoke, LoadKey,
                  StoreKey, Install, Unlink, DeleteKey
    <2>2. pc' = [pc EXCEPT ![c] = pc'[c]] /\ pc'[c] \in Steps
      BY <1>3 DEF Step, Stop, Decrypt, UseFresh, Exchange, LoseAnswer, Revoke, LoadKey, StoreKey,
                  Install, Unlink, DeleteKey, Goto, AfterRejection, IInv, TypeOK, Steps,
                  ClearSteps, AfterClearing
    <2>3. CASE Decrypt(c) \/ UseFresh(c) \/ Exchange(c) \/ LoseAnswer(c) \/ Revoke(c) \/ Stop(c)
      <3>1. pc'[c] \notin {"store", "install", "delete"} /\ UNCHANGED store
        BY <2>3 DEF Decrypt, UseFresh, Exchange, LoseAnswer, Revoke, Stop, Goto, AfterRejection,
                    ClearSteps, IInv, TypeOK
      <3>2. CustodyIsReadable => CustodyIsReadable'
        BY <3>1 DEF CustodyIsReadable, Readable, store
      <3>3. QED BY <2>1, <2>2, <3>1, <3>2, StepAlone
    <2>4. CASE LoadKey(c)
      <3>1. UNCHANGED store /\ key'[c] = keychain
        BY <2>4 DEF LoadKey, IInv, TypeOK
      <3>2. pc'[c] = IF keychain = None THEN "store" ELSE "install"
        BY <2>4 DEF LoadKey, Goto, IInv, TypeOK
      <3>3. CustodyIsReadable => CustodyIsReadable'
        BY <3>1 DEF CustodyIsReadable, Readable, store
      <3>4. QED BY <2>1, <2>2, <3>1, <3>2, <3>3, StepAlone DEF store
    <2>5. CASE StoreKey(c)
      <3>1. pc[c] = "store" /\ pc'[c] = "install" /\ key'[c] = keychain' /\ envelope' = envelope
        BY <2>5 DEF StoreKey, StoredKey, Goto, IInv, TypeOK
      <3>2. ASSUME CustodyIsReadable, keychain = None PROVE envelope = None
        BY <3>2 DEF CustodyIsReadable, Readable, IInv, TypeOK, Envelope, Key, Session
      <3>3. CustodyIsReadable /\ RunsAlone(c) => CustodyIsReadable'
        BY <3>1, <3>2 DEF RunsAlone, CustodyIsReadable
      <3>4. QED BY <2>1, <2>2, <3>1, <3>3, StepAlone
    <2>6. CASE Install(c)
      <3>1. /\ pc[c] = "install" /\ pc'[c] = "done" /\ keychain' = keychain
            /\ envelope' = [key |-> key[c], cred |-> next[c]]
        BY <2>6 DEF Install, Goto, IInv, TypeOK
      <3>2. RunsAlone(c) => CustodyIsReadable'
        BY <3>1 DEF RunsAlone, CustodyIsReadable, Readable
      <3>3. QED BY <2>1, <2>2, <3>1, <3>2, StepAlone
    <2>7. CASE Unlink(c)
      <3>1. pc'[c] = "delete" /\ envelope' = None
        BY <2>7 DEF Unlink, Goto, AfterClearing, ClearSteps, IInv, TypeOK
      <3>2. QED BY <2>1, <2>2, <3>1, StepAlone DEF CustodyIsReadable
    <2>8. CASE DeleteKey(c)
      <3>1. pc[c] = "delete" /\ pc'[c] = "done" /\ envelope' = envelope
        BY <2>8 DEF DeleteKey, Goto, AfterClearing, ClearSteps, IInv, TypeOK
      <3>2. RunsAlone(c) => CustodyIsReadable'
        BY <3>1 DEF RunsAlone, CustodyIsReadable
      <3>3. QED BY <2>1, <2>2, <3>1, <3>2, StepAlone
    <2>9. QED BY <1>3, <2>3, <2>4, <2>5, <2>6, <2>7, <2>8 DEF Step
  <1>4. QED BY <1>1, <1>2, <1>3 DEF Next, Finished

(* While commands run one after the other, the file can be decrypted with    *)
(* the key in the keychain, wherever earlier ones stopped: clear removes the *)
(* file before the key (cli/core/secret-store.ts).                           *)
THEOREM ReadableInSequence == Spec => []SequentialCustodyIsReadable
  <1>1. Init => Alone
    BY InitAlone
  <1>2. IInv /\ Alone /\ [Next]_vars => Alone'
    BY NextAlone
  <1>3. Alone => SequentialCustodyIsReadable
    BY DEF Alone, SequentialCustodyIsReadable
  <1>4. QED BY <1>1, <1>2, <1>3, Invariance, PTL DEF Spec

-----------------------------------------------------------------------------
(* The login that earns a credential (DeviceFlow).                         *)

(* The interval it keeps is the one it was asked for; it sleeps that long   *)
(* after a poll; a session is that of an approved code, and nothing is kept *)
(* of tokens before they have come.                                         *)
FlowInv ==
  /\ {clock, interval, expiresAt, wake, lastPoll, asked} \subseteq Nat
  /\ asked = interval /\ approval \in {"pending", "approved", "denied"}
  /\ stage \in {"start", "sleep", "poll", "authorize", "consent", "token", "check", "done"}
  /\ stage = "start" => lastPoll = 0
  /\ stage = "sleep" => wake >= lastPoll + asked
  /\ stage = "poll" => clock >= lastPoll + asked
  /\ stage \in {"start", "sleep", "poll"} => ~ session
  /\ stage \in {"authorize", "consent", "token", "check"} => session /\ approval = "approved"
  /\ stage # "done" => result = "none"
  /\ stage \notin {"check", "done"} => tokens = "none"
  /\ stage = "check" => minted
  /\ Flow!OutcomeIsTrue

LEMMA FlowStart == Flow!Init => FlowInv
  BY FlowAssumption
  DEF Flow!FlowAssumption, Flow!Init, FlowInv, Flow!OutcomeIsTrue, Flow!CredentialIsEarned,
      Flow!StageIsTold

LEMMA FlowStep == ASSUME FlowInv, [Flow!Next]_Flow!vars PROVE FlowInv'
  <1> USE FlowAssumption
      DEF Flow!FlowAssumption, Flow!OutcomeIsTrue, Flow!CredentialIsEarned, Flow!StageIsTold
  <1>1. CASE Flow!Start
    <2>1. CASE Flow!End("device_authorization_failed") /\ UNCHANGED <<Flow!times, asked>>
      BY <1>1, <2>1 DEF FlowInv, Flow!Start, Flow!End, Flow!times, Flow!hub
    <2>2. ASSUME NEW lifetime \in 0..MaxLifetime + 1, NEW span \in 0..MaxInterval + 1,
                 Flow!Valid(lifetime, span),
                 LET first == IF span = 0 THEN DefaultInterval ELSE span IN
                   interval' = first /\ asked' = first /\ Flow!Sleep(first),
                 expiresAt' = clock + lifetime, UNCHANGED result
          PROVE  FlowInv'
      BY <1>1, <2>2 DEF FlowInv, Flow!Start, Flow!Sleep, Flow!Valid, Flow!hub
    <2>3. QED BY <1>1, <2>1, <2>2 DEF Flow!Start
  <1>2. CASE Flow!Wake
    BY <1>2 DEF FlowInv, Flow!Wake, Flow!End, Flow!times, Flow!hub
  <1>3. CASE Flow!Poll
    <2>1. PICK answer \in Flow!Answers :
            \/ /\ answer \in {"authorization_pending", "slow_down"}
               /\ interval' = Flow!NextInterval(answer)
               /\ asked' = (IF answer = "slow_down" THEN 2 * asked ELSE asked)
               /\ Flow!Sleep(interval')
               /\ UNCHANGED <<session, result>>
            \/ /\ answer = "access_token"
               /\ session' = TRUE /\ stage' = "authorize"
               /\ UNCHANGED <<interval, wake, asked, result>>
            \/ /\ answer \in {"access_denied", "expired_token", "other"}
               /\ Flow!End("device_authorization_failed")
               /\ UNCHANGED <<interval, wake, asked, session>>
      BY <1>3 DEF Flow!Poll
    <2>2. answer = "access_token" => approval = "approved"
      BY DEF FlowInv, Flow!Answers
    <2>3. /\ stage = "poll" /\ lastPoll' = clock
          /\ UNCHANGED <<clock, expiresAt, approval, minted, tokens>>
      BY <1>3 DEF Flow!Poll
    <2>4. QED BY <2>1, <2>2, <2>3 DEF FlowInv, Flow!NextInterval, Flow!Sleep, Flow!End
  <1>4. CASE Flow!Authorize \/ Flow!Consent
    BY <1>4 DEF FlowInv, Flow!Authorize, Flow!Consent, Flow!End, Flow!times, Flow!hub
  <1>5. CASE Flow!Token
    BY <1>5 DEF FlowInv, Flow!Token, Flow!End, Flow!times
  <1>6. CASE Flow!Check
    BY <1>6 DEF FlowInv, Flow!Check, Flow!Accepted, Flow!End, Flow!times, Flow!hub
  <1>7. CASE Flow!Tick \/ Flow!Decide
    BY <1>7 DEF FlowInv, Flow!Tick, Flow!Decide, Flow!times, Flow!hub
  <1>8. CASE UNCHANGED Flow!vars
    BY <1>8 DEF FlowInv, Flow!vars, Flow!times, Flow!hub
  <1>9. QED
    BY <1>1, <1>2, <1>3, <1>4, <1>5, <1>6, <1>7, <1>8 DEF Flow!Next, Flow!Act

-----------------------------------------------------------------------------
(* The request that shows a credential (ManagementRequest).                *)

(* A request has been sent once, and once more for each retry and for its   *)
(* refresh; a bearer that was turned down is only replaced or given up.     *)
RequestInv ==
  /\ at \in {"resolve", "send", "refresh", "wait", "done"}
  /\ retries \in 0..Request!MaxTypedRetries /\ sends \in Nat
  /\ attempt \in 0..(MaxAttempts - 1)
  /\ sends <= retries + 2
  /\ ~ refreshed \/ at \in {"send", "wait"} => sends <= retries + 1
  /\ ~ refreshed /\ at \in {"send", "wait"} => sends <= retries
  /\ at = "refresh" => ~ refreshed
  /\ at \notin {"refresh", "done"} => ~ rejected
  /\ at # "done" => outcome = Request!NoOutcome
  /\ Request!OutcomeIsHonest

(* The kinds of outcome.                                                    *)
LEMMA Kinds ==
  /\ Request!NoOutcome.kind = "none"
  /\ Request!Indeterminate.kind = "indeterminate"
  /\ Request!Thrown.kind = "thrown"
  /\ Request!Invalid.kind = "refused" /\ ~ Request!Invalid.retryable
  /\ \A end : Request!Succeeded(end).kind = "succeeded" /\ Request!Succeeded(end).terminal = end
  BY DEF Request!NoOutcome, Request!Indeterminate, Request!Thrown, Request!Succeeded,
         Request!Refused, Request!Invalid

(* A denial is final. *)
Denied(r) == r.kind = "refused" /\ r.code = "authorization_denied" /\ ~ r.retryable

LEMMA Denial ==
  /\ Denied(Request!Refused("authorization_denied", FALSE))
  /\ "authorization_denied" \notin Request!Retryable
  BY DEF Denied, Request!Refused, Request!Retryable

LEMMA RequestStart == Request!Init => RequestInv
  <1> SUFFICES ASSUME Request!Init PROVE RequestInv
    OBVIOUS
  <1>1. Request!OutcomeIsHonest
    BY Kinds DEF Request!Init, Request!OutcomeIsHonest
  <1>2. attempt \in 0..(MaxAttempts - 1) /\ retries \in 0..Request!MaxTypedRetries
    BY RequestAssumption DEF Request!RequestAssumption, Request!Init, Request!MaxTypedRetries
  <1>3. QED BY <1>1, <1>2 DEF Request!Init, RequestInv

(* A success is an answer to this request, an error may be tried again only  *)
(* if it says so, and what came with a 401 says nothing.                    *)
LEMMA JudgedFairly ==
  ASSUME NEW a \in Request!Answers
  PROVE  LET r == Request!Judge(a) IN
         /\ r.kind \in {"succeeded", "refused"}
         /\ r.kind = "succeeded" =>
              r = Request!Succeeded(ended') /\ a.status = 200 /\ a.body = "success" /\ a.sameId
         /\ r.kind = "refused" => (r.retryable <=> r.code \in Request!Retryable)
         /\ a.status = 401 => r = Request!Invalid
  <1>1. a.status = 401 => a.body = "unreadable"
    <2> DEFINE Rejected == [status : {401}, body : {"unreadable"}, sameId : {FALSE},
                            retryAfter : {FALSE}]
               Untyped == [status : {200, 500}, body : {"success", "otherRun", "unreadable"},
                           sameId : BOOLEAN, retryAfter : {FALSE}]
               Typed == [status : {200, 404, 410, 426, 429, 503}, body : Request!Wire,
                         sameId : BOOLEAN, retryAfter : BOOLEAN]
    <2>1. a \in Rejected \cup Untyped \cup Typed
      <3>1. Request!Answers = Rejected \cup Untyped \cup Typed
        BY Zenon DEF Request!Answers
      <3> HIDE DEF Rejected, Untyped, Typed
      <3>2. QED BY <3>1
    <2>2. a \in Rejected => a.body = "unreadable"
      OBVIOUS
    <2>3. a \in Untyped => a.status \in {200, 500}
      OBVIOUS
    <2>4. a \in Typed => a.status \in {200, 404, 410, 426, 429, 503}
      OBVIOUS
    <2> HIDE DEF Rejected, Untyped, Typed
    <2>5. QED BY <2>1, <2>2, <2>3, <2>4
  <1>2. /\ "unreadable" \notin Request!Wire
        /\ {"mind_contract_removed", "client_protocol_unsupported"} \subseteq Request!Wire
    BY DEF Request!Wire, Request!Status
  <1>3. {"resource_unavailable", "server_response_invalid"} \cap Request!Retryable = {}
    BY DEF Request!Retryable
  <1>4. Request!IsPublicError(a) => a.status # 401
    BY <1>1, <1>2 DEF Request!IsPublicError
  <1>5. CASE a.status = 200 /\ Request!IsSuccess(a) /\ a.body = "success"
    BY <1>5 DEF Request!Judge, Request!IsSuccess, Request!Succeeded
  <1>6. CASE a.status = 200 /\ Request!IsSuccess(a) /\ a.body # "success"
    BY <1>3, <1>6 DEF Request!Judge, Request!IsSuccess, Request!Refused
  <1>7. CASE a.status # 200 /\ Request!IsPublicError(a)
    BY <1>4, <1>7 DEF Request!Judge, Request!Refused
  <1>8. CASE /\ ~ (a.status = 200 /\ Request!IsSuccess(a))
             /\ ~ (a.status # 200 /\ Request!IsPublicError(a))
    BY <1>3, <1>8 DEF Request!Judge, Request!Invalid, Request!Refused
  <1>9. QED BY <1>5, <1>6, <1>7, <1>8

LEMMA RequestStep == ASSUME RequestInv, [Request!Next]_Request!vars PROVE RequestInv'
  <1> USE RequestAssumption DEF Request!RequestAssumption, Request!MaxTypedRetries
  <1>1. CASE Request!Resolve
    <2>1. outcome' = Request!NoOutcome \/ outcome' = Request!Thrown \/ Denied(outcome')
      BY <1>1, Denial DEF RequestInv, Request!Resolve, Request!Report
    <2>2. Request!OutcomeIsHonest'
      BY <2>1, Kinds, Denial DEF Request!OutcomeIsHonest, Denied
    <2>3. ~ rejected /\ outcome = Request!NoOutcome
      BY <1>1 DEF RequestInv, Request!Resolve
    <2>4. retries' = 0 /\ sends' = 0 /\ attempt' = attempt
      BY <1>1 DEF Request!Resolve
    <2>5. at' = "send" => outcome' = Request!NoOutcome
      BY <1>1, <2>3 DEF Request!Resolve, Request!Report
    <2>6. at' \in {"send", "done"}
      BY <1>1 DEF Request!Resolve, Request!Report
    <2>7. ~ refreshed'
      BY <1>1 DEF Request!Resolve
    <2>8. ~ rejected'
      BY <1>1, <2>3, Zenon DEF Request!Resolve
    <2>9. QED BY <2>2, <2>4, <2>5, <2>6, <2>7, <2>8 DEF RequestInv
  <1>2. CASE Request!Send
    <2>1. /\ at = "send" /\ sends' = sends + 1 /\ ~ rejected /\ outcome = Request!NoOutcome
          /\ UNCHANGED <<shown, accepted, refreshed, expiries>>
      BY <1>2 DEF Request!Send, RequestInv
    <2>2. CASE /\ answered' = FALSE
               /\ Request!Report(Request!Indeterminate)
               /\ UNCHANGED <<step, attempt, rejected, retries>>
      <3>1. Request!OutcomeIsHonest'
        BY <2>2, Kinds DEF Request!Report, Request!OutcomeIsHonest
      <3>2. QED BY <2>1, <2>2, <3>1 DEF RequestInv, Request!Report
    <2>3. ASSUME NEW a \in Request!Answers,
             answered' = TRUE, rejected' = (rejected \/ a.status = 401),
             Request!MayRefresh(a), at' = "refresh", UNCHANGED <<step, attempt, retries, outcome>>
          PROVE RequestInv'
      <3>1. ~ refreshed
        BY <2>3 DEF Request!MayRefresh
      <3>2. Request!OutcomeIsHonest'
        BY <2>1, <2>3, Kinds DEF Request!OutcomeIsHonest
      <3>3. QED BY <2>1, <2>3, <3>1, <3>2 DEF RequestInv
    <2>4. ASSUME NEW a \in Request!Answers,
             answered' = TRUE, rejected' = (rejected \/ a.status = 401),
             Request!Judge(a).kind = "refused", Request!Judge(a).retryable,
             retries < Request!MaxTypedRetries,
             retries' = retries + 1, at' = "wait", UNCHANGED <<step, attempt, outcome>>
          PROVE RequestInv'
      <3>1. a.status # 401
        <4>1. a.status = 401 => Request!Judge(a) = Request!Invalid
          BY JudgedFairly
        <4>2. QED BY <2>4, <4>1, Kinds
      <3>2. Request!OutcomeIsHonest'
        BY <2>1, <2>4, Kinds DEF Request!OutcomeIsHonest
      <3>3. /\ at' = "wait" /\ ~ rejected' /\ outcome' = Request!NoOutcome
            /\ retries < 2 /\ retries' = retries + 1 /\ attempt' = attempt
        BY <2>1, <2>4, <3>1
      <3>4. QED BY <2>1, <3>2, <3>3 DEF RequestInv
    <2>5. ASSUME NEW a \in Request!Answers,
             a.status = 200 /\ a.body \in {"success", "otherRun"} /\ a.sameId
               => accepted /\ applied',
             answered' = TRUE, rejected' = (rejected \/ a.status = 401),
             ~ (/\ Request!Judge(a).kind = "refused" /\ Request!Judge(a).retryable
                /\ retries < Request!MaxTypedRetries),
             Request!Continue(Request!Judge(a)), UNCHANGED retries
          PROVE RequestInv'
      <3> DEFINE r == Request!Judge(a)
      <3>1. /\ r.kind \in {"succeeded", "refused"}
            /\ r.kind = "succeeded" => r = Request!Succeeded(ended') /\ applied'
            /\ r.kind = "refused" => (r.retryable <=> r.code \in Request!Retryable)
            /\ a.status = 401 => r = Request!Invalid
        BY <2>5, JudgedFairly
      <3>2. r.kind = "succeeded" => r.terminal = ended' /\ a.status # 401
        BY <3>1, Kinds
      <3> HIDE DEF r
      <3>3. CASE /\ r.kind = "succeeded" /\ at' = "resolve"
                 /\ attempt' \in 0..(MaxAttempts - 1) /\ outcome' = outcome
        <4>1. ~ rejected'
          BY <2>1, <2>5, <3>2, <3>3
        <4>2. Request!OutcomeIsHonest'
          BY <2>1, <3>3, Kinds DEF Request!OutcomeIsHonest
        <4>3. QED BY <2>1, <2>5, <3>3, <4>1, <4>2 DEF RequestInv
      <3>4. CASE Request!Report(r) /\ UNCHANGED <<step, attempt>>
                 /\ (r.kind = "succeeded" /\ ~ r.terminal => attempt + 1 >= MaxAttempts)
        <4>1. Request!OutcomeIsHonest'
          <5>1. outcome' = r /\ retries' = retries /\ attempt' = attempt /\ answered' = TRUE
            BY <2>5, <3>4 DEF Request!Report
          <5>2. attempt \in 0..(MaxAttempts - 1) /\ retries \in 0..2
            BY DEF RequestInv
          <5>3. r.kind = "succeeded" /\ ~ r.terminal => attempt + 1 = MaxAttempts
            BY <3>4, <5>2
          <5>4. r.kind = "refused" /\ r.retryable => retries = 2
            BY <2>5, <5>2 DEF r
          <5>5. QED BY <3>1, <3>2, <5>1, <5>3, <5>4 DEF Request!OutcomeIsHonest
        <4>2. QED BY <2>1, <2>5, <3>4, <4>1 DEF RequestInv, Request!Report
      <3>5. QED BY <2>5, <3>1, <3>3, <3>4 DEF Request!Continue, r, RequestInv
    <2>6. QED BY <1>2, <2>2, <2>3, <2>4, <2>5 DEF Request!Send
  <1>3. CASE Request!Refresh
    <2>1. outcome' = Request!NoOutcome \/ Denied(outcome')
      BY <1>3, Denial DEF RequestInv, Request!Refresh, Request!Report
    <2>2. Request!OutcomeIsHonest'
      BY <2>1, Kinds, Denial DEF Request!OutcomeIsHonest, Denied
    <2>3. QED BY <1>3, <2>2 DEF RequestInv, Request!Refresh, Request!Report
  <1>4. CASE Request!Sleep \/ Request!Expire
    BY <1>4 DEF RequestInv, Request!Sleep, Request!Expire, Request!OutcomeIsHonest,
                Request!request, Request!service
  <1>5. CASE UNCHANGED Request!vars
    BY <1>5 DEF RequestInv, Request!vars, Request!OutcomeIsHonest, Request!request,
                Request!service
  <1>6. QED BY <1>1, <1>2, <1>3, <1>4, <1>5 DEF Request!Next, Request!Act

-----------------------------------------------------------------------------
(* A behaviour of the machine's cloud is one of each of its parts. *)
LEMMA PartsAsSpecified == CloudSpec => Spec /\ Flow!Spec /\ Request!Spec
  <1>1. CloudInit => Init /\ Flow!Init /\ Request!Init
    BY DEF CloudInit
  <1>2. [CloudNext]_all => [Next]_vars
    BY DEF CloudNext, all
  <1>3. [CloudNext]_all => [Flow!Next]_Flow!vars
    BY DEF CloudNext, all, flow, Flow!vars, Flow!times, Flow!hub
  <1>4. [CloudNext]_all => [Request!Next]_Request!vars
    BY DEF CloudNext, all, request, Request!vars, Request!request, Request!service
  <1>5. QED BY <1>1, <1>2, <1>3, <1>4, PTL DEF CloudSpec, Spec, Flow!Spec, Request!Spec

(* However the answers of the hub and of the service, the refreshes, the     *)
(* retries and the clock fall, the hub is polled no faster than it asks and  *)
(* no longer than the code lives, a login ends with a credential only if one *)
(* was earned, and a request is sent as often as it may be and reported as   *)
(* it went (cli/core/auth/device-flow.ts, cli/core/management/transport.ts). *)
THEOREM CloudStaysHonest == CloudSpec => CloudIsHonest
  <1>1. Flow!Spec => []FlowInv
    BY FlowStart, FlowStep, PTL DEF Flow!Spec
  <1>2. FlowInv => /\ Flow!OutcomeIsTrue
                   /\ Flow!Poll => clock >= lastPoll + asked
                   /\ Flow!Wake /\ stage' = "poll" => clock <= expiresAt
    BY DEF FlowInv, Flow!Poll, Flow!Wake, Flow!Expired, Flow!End
  <1>3. Flow!Spec => Flow!FlowIsHonest
    BY <1>1, <1>2, PTL
    DEF Flow!FlowIsHonest, Flow!PollsArePaced, Flow!PollsEndWithTheCode, Flow!Spec
  <1>4. Request!Spec => []RequestInv
    BY RequestStart, RequestStep, PTL DEF Request!Spec
  <1>5. RequestInv => Request!RequestIsHonest
    BY DEF RequestInv, Request!RequestIsHonest, Request!SendsAreBounded, Request!MaxTypedRetries
  <1>6. QED BY PartsAsSpecified, <1>3, <1>4, <1>5, PTL DEF CloudIsHonest

-----------------------------------------------------------------------------
(* StagingCeremony.  Where a ceremony is tells which files can be its own,  *)
(* and the receipts it has linked are there until somebody removes one.     *)
Before == {"start", "noticePath", "flow", "linkNotice", "verifyNotice", "approval",
           "checkNotice", "unlinkNotice", "noticeGone"}
Noticing == {"verifyNotice", "approval", "checkNotice", "unlinkNotice"}
After == {"project", "prepare", "linkReadiness", "linkCommunity", "verifyReadiness",
          "verifyCommunity", "done"}
Linked(p) ==
  {"verifyReadiness", "verifyCommunity", "done"}
    \cup IF p = "readiness" THEN {"linkCommunity"} ELSE {}
Phases == Before \cup After \cup {"checks", "cleanup", "undo", "failed", "dead"}

InPlace(c, p) == files[p] = c \/ p \in freed

(* What a ceremony that has failed may have left at the places. *)
Excused(c) ==
  \A p \in Ceremony!Places : files[p] = c =>
    p \in stuck[c] \/ (p = "notice" /\ blamed[c] = "normal_cleanup_failed")

Owning(c) ==
  /\ files["notice"] = c =>
       /\ phase[c] \in Noticing \cup {"undo", "failed", "dead"}
       /\ passed[c] = 0 /\ cleanups[c] = 0
  /\ \A p \in Ceremony!Outputs :
       files[p] = c => phase[c] \in Linked(p) \cup {"undo", "failed", "dead"}
  /\ phase[c] = "undo" =>
       \A p \in Ceremony!Places : files[p] = c => p \in undo[c] \cup armed[c] \cup stuck[c]
  /\ phase[c] = "failed" => Excused(c)
  /\ \A p \in Ceremony!Outputs : phase[c] \in Linked(p) => InPlace(c, p)

(* Whatever it will unlink is its own, or a file was removed there.         *)
Unlinking(c) ==
  /\ \A p \in armed[c] : InPlace(c, p)
  /\ phase[c] = "unlinkNotice" => InPlace(c, "notice")
  /\ undo[c] # {} \/ armed[c] # {} => phase[c] \in {"undo", "dead"}
  /\ phase[c] \in (Before \ {"linkNotice", "verifyNotice"})
                    \cup {"checks", "cleanup", "project", "prepare"} => temps[c] = {}
  /\ phase[c] = "failed" => temps[c] \subseteq strays[c]

(* What the adapter still holds for it, and whether it was asked to clean up. *)
Cleaning(c) ==
  /\ phase[c] \in Before =>
       passed[c] = 0 /\ cleanups[c] = 0 /\ ~ grants[c] /\ late[c] = "no"
  /\ phase[c] = "checks" =>
       /\ cleanups[c] = 0 /\ late[c] = "no" /\ passed[c] < NumChecks
       /\ passed[c] = 0 => ~ grants[c]
  /\ phase[c] = "cleanup" =>
       /\ cleanups[c] = 0
       /\ blamed[c] = Ceremony!Nothing => passed[c] = NumChecks /\ late[c] = "no"
  /\ phase[c] \in After =>
       passed[c] = NumChecks /\ cleanups[c] = 1 /\ ~ grants[c] /\ late[c] = "no"
  /\ phase[c] = "undo" =>
       /\ ~ grants[c] /\ late[c] = "no"
       /\ cleanups[c] = 1 \/ (passed[c] = 0 /\ cleanups[c] = 0)
  /\ phase[c] = "failed" =>
       /\ passed[c] > 0 \/ grants[c] \/ late[c] # "no" => cleanups[c] = 1
       /\ blamed[c] # "normal_cleanup_failed" /\ late[c] # "served" => ~ grants[c]

CeremonyTyped == Ceremony!TypeOK /\ phase \in [Ceremonies -> Phases]
Sound(c) == Owning(c) /\ Unlinking(c) /\ Cleaning(c)
CeremonyInv == CeremonyTyped /\ \A c \in Ceremonies : Sound(c)

LEMMA CeremonyConstants ==
  /\ NumChecks \in Nat /\ NumChecks > 0 /\ MaxActs \in Nat /\ MaxFaults \in Nat
  /\ \A c \in Ceremonies : c # "none" /\ c # "other"
  BY CeremonyAssumption DEF Ceremony!CeremonyAssumption, Ceremony!Nothing, Ceremony!Other

LEMMA CeremonyStart == Ceremony!Init => CeremonyInv
  <1> SUFFICES ASSUME Ceremony!Init PROVE CeremonyInv
    OBVIOUS
  <1>1. CeremonyTyped
    BY CeremonyConstants
    DEF Ceremony!Init, Ceremony!TypeOK, CeremonyTyped, Phases, Before, Ceremony!Nothing
  <1>2. ASSUME NEW c \in Ceremonies PROVE Sound(c)
    BY CeremonyConstants
    DEF Ceremony!Init, Sound, Owning, Excused, Unlinking, Cleaning, Before, After, Noticing, Linked,
        Ceremony!Nothing, Ceremony!Outputs, Ceremony!Places
  <1>3. QED BY <1>1, <1>2 DEF CeremonyInv

(* What happens to others leaves a ceremony sound. *)
Same(c) ==
  /\ phase'[c] = phase[c] /\ blamed'[c] = blamed[c] /\ temps'[c] = temps[c]
  /\ undo'[c] = undo[c] /\ armed'[c] = armed[c] /\ passed'[c] = passed[c]
  /\ stuck'[c] = stuck[c] /\ strays'[c] = strays[c]
  /\ grants'[c] = grants[c] /\ late'[c] = late[c] /\ cleanups'[c] = cleanups[c]

LEMMA OtherStaysSound ==
  ASSUME CeremonyTyped, NEW d \in Ceremonies, Sound(d), Same(d), freed \subseteq freed',
         \A p \in Ceremony!Places :
           files'[p] = files[p] \/ (files'[p] # d /\ (files[p] = d => p \in freed'))
  PROVE  Sound(d)'
  <1>1. \A p \in Ceremony!Places : files'[p] = d => files[p] = d
    OBVIOUS
  <1>2. \A p \in Ceremony!Places : InPlace(d, p) => InPlace(d, p)'
    BY DEF InPlace
  <1>3. {"notice"} \cup Ceremony!Outputs = Ceremony!Places /\ armed[d] \subseteq Ceremony!Places
    BY DEF Ceremony!Places, CeremonyTyped, Ceremony!TypeOK
  <1>4. Owning(d)'
    BY <1>1, <1>2, <1>3 DEF Same, Sound, Owning, Excused
  <1>5. Unlinking(d)'
    BY <1>1, <1>2, <1>3 DEF Same, Sound, Unlinking
  <1>6. Cleaning(d)'
    BY DEF Same, Sound, Cleaning
  <1>7. QED BY <1>4, <1>5, <1>6 DEF Sound

(* A step of one ceremony puts only its own file anywhere, and takes only  *)
(* its own away, unless somebody has removed one there.                    *)
LEMMA OneMoves ==
  ASSUME CeremonyInv, NEW c \in Ceremonies, CeremonyTyped', Sound(c)', freed' = freed,
         \A d \in Ceremonies \ {c} : Same(d),
         \A p \in Ceremony!Places :
           \/ files'[p] = files[p]
           \/ files'[p] \in {c, "none"} /\ (files[p] \in {c, "none"} \/ p \in freed)
  PROVE  CeremonyInv'
  <1>1. ASSUME NEW d \in Ceremonies, d # c PROVE Sound(d)'
    <2>1. \A p \in Ceremony!Places :
            files'[p] = files[p] \/ (files'[p] # d /\ (files[p] = d => p \in freed'))
      BY <1>1, CeremonyConstants
    <2>2. QED BY <1>1, <2>1, OtherStaysSound DEF CeremonyInv
  <1>2. QED BY <1>1 DEF CeremonyInv

(* Steps that only move on. *)
LEMMA MoveKeeps ==
  ASSUME CeremonyInv, NEW c \in Ceremonies, NEW place \in Phases,
         NEW why \in Ceremony!Stages \cup {"none"},
         phase' = [phase EXCEPT ![c] = place], blamed' = [blamed EXCEPT ![c] = why],
         faults' \in 0..MaxFaults,
         UNCHANGED <<Ceremony!fileVars, Ceremony!adapterVars>>,
         Sound(c)'
  PROVE  CeremonyInv'
  <1>1. CeremonyTyped'
    BY DEF CeremonyInv, CeremonyTyped, Ceremony!TypeOK, Ceremony!fileVars, Ceremony!adapterVars,
           Ceremony!Nothing
  <1>2. \A d \in Ceremonies \ {c} : Same(d)
    BY DEF Same, CeremonyInv, CeremonyTyped, Ceremony!TypeOK, Ceremony!fileVars,
           Ceremony!adapterVars
  <1>3. QED BY <1>1, <1>2, OneMoves DEF Ceremony!fileVars

LEMMA QuietMoves ==
  ASSUME CeremonyInv, NEW c \in Ceremonies,
         \/ Ceremony!PreflightOutputs(c) \/ Ceremony!PreflightNotice(c) \/ Ceremony!FlowFails(c)
         \/ Ceremony!Approval(c) \/ Ceremony!CheckNotice(c) \/ Ceremony!NoticeGone(c)
         \/ Ceremony!NoPort(c) \/ Ceremony!Project(c) \/ Ceremony!Dies(c)
  PROVE  CeremonyInv'
  <1> USE DEF Ceremony!Go, Ceremony!Refuse, Ceremony!Blame, Ceremony!NoticeWithdrawn,
              Ceremony!FlowStages, Ceremony!Stages, Ceremony!Nothing, Ceremony!Fault
  <1>1. /\ faults' \in 0..MaxFaults
        /\ UNCHANGED <<Ceremony!fileVars, Ceremony!adapterVars>>
    BY CeremonyConstants
    DEF Ceremony!PreflightOutputs, Ceremony!PreflightNotice, Ceremony!FlowFails, Ceremony!Approval,
        Ceremony!CheckNotice, Ceremony!NoticeGone, Ceremony!NoPort, Ceremony!Project, Ceremony!Dies,
        CeremonyInv, CeremonyTyped, Ceremony!TypeOK
  <1>2. PICK place \in Phases, why \in Ceremony!Stages \cup {"none"} :
          /\ phase' = [phase EXCEPT ![c] = place] /\ blamed' = [blamed EXCEPT ![c] = why]
    BY DEF Ceremony!PreflightOutputs, Ceremony!PreflightNotice, Ceremony!FlowFails,
           Ceremony!Approval, Ceremony!CheckNotice, Ceremony!NoticeGone, Ceremony!NoPort,
           Ceremony!Project, Ceremony!Dies,
           CeremonyInv, CeremonyTyped, Ceremony!TypeOK, Phases, Before, After
  <1>3. /\ phase'[c] = place /\ blamed'[c] = why /\ files' = files /\ freed' = freed
        /\ temps'[c] = temps[c] /\ undo'[c] = undo[c] /\ armed'[c] = armed[c]
        /\ stuck'[c] = stuck[c] /\ strays'[c] = strays[c]
        /\ passed'[c] = passed[c] /\ grants'[c] = grants[c]
        /\ late'[c] = late[c] /\ cleanups'[c] = cleanups[c]
    BY <1>1, <1>2 DEF CeremonyInv, CeremonyTyped, Ceremony!TypeOK, Ceremony!fileVars,
                      Ceremony!adapterVars
  <1>4. CeremonyTyped /\ Sound(c)
    BY DEF CeremonyInv
  <1> USE DEF Sound, Owning, Excused, Unlinking, Cleaning, Before, After, Noticing, Linked, InPlace,
              Ceremony!Outputs, Ceremony!Places, Ceremony!Ends
  <1>5. CASE Ceremony!PreflightOutputs(c)
    <2>1. Sound(c)'
      BY <1>1, <1>2, <1>3, <1>4, <1>5, CeremonyConstants DEF Ceremony!PreflightOutputs
    <2>2. QED BY <1>1, <1>2, <2>1, MoveKeeps
  <1>6. CASE Ceremony!PreflightNotice(c)
    <2>1. Sound(c)'
      BY <1>1, <1>2, <1>3, <1>4, <1>6, CeremonyConstants DEF Ceremony!PreflightNotice
    <2>2. QED BY <1>1, <1>2, <2>1, MoveKeeps
  <1>7. CASE Ceremony!FlowFails(c)
    <2>1. Sound(c)'
      BY <1>1, <1>2, <1>3, <1>4, <1>7, CeremonyConstants DEF Ceremony!FlowFails
    <2>2. QED BY <1>1, <1>2, <2>1, MoveKeeps
  <1>8. CASE Ceremony!Approval(c)
    <2>1. Sound(c)'
      BY <1>1, <1>2, <1>3, <1>4, <1>8, CeremonyConstants DEF Ceremony!Approval
    <2>2. QED BY <1>1, <1>2, <2>1, MoveKeeps
  <1>9. CASE Ceremony!CheckNotice(c)
    <2>1. Sound(c)'
      BY <1>1, <1>2, <1>3, <1>4, <1>9, CeremonyConstants DEF Ceremony!CheckNotice
    <2>2. QED BY <1>1, <1>2, <2>1, MoveKeeps
  <1>10. CASE Ceremony!NoticeGone(c)
    <2>1. Sound(c)'
      BY <1>1, <1>2, <1>3, <1>4, <1>10, CeremonyConstants DEF Ceremony!NoticeGone
    <2>2. QED BY <1>1, <1>2, <2>1, MoveKeeps
  <1>11. CASE Ceremony!NoPort(c)
    <2>1. Sound(c)'
      BY <1>1, <1>2, <1>3, <1>4, <1>11, CeremonyConstants DEF Ceremony!NoPort
    <2>2. QED BY <1>1, <1>2, <2>1, MoveKeeps
  <1>12. CASE Ceremony!Project(c)
    <2>1. Sound(c)'
      BY <1>1, <1>2, <1>3, <1>4, <1>12, CeremonyConstants DEF Ceremony!Project
    <2>2. QED BY <1>1, <1>2, <2>1, MoveKeeps
  <1>13. CASE Ceremony!Dies(c)
    <2>1. Sound(c)'
      BY <1>1, <1>2, <1>3, <1>4, <1>13, CeremonyConstants DEF Ceremony!Dies
    <2>2. QED BY <1>1, <1>2, <2>1, MoveKeeps
  <1>14. QED BY <1>5, <1>6, <1>7, <1>8, <1>9, <1>10, <1>11, <1>12, <1>13

LEMMA CommitStaysClean ==
  ASSUME NEW c \in Ceremonies, CeremonyTyped, Sound(c),
         phase[c] \in {"linkNotice", "verifyNotice", "linkReadiness", "linkCommunity",
                       "verifyReadiness", "verifyCommunity"},
         phase'[c] \in {"linkCommunity", "verifyReadiness", "verifyCommunity", "done", "undo"},
         phase'[c] # "undo" => phase[c] \in After,
         passed' = passed, grants' = grants, late' = late, cleanups' = cleanups
  PROVE  Cleaning(c)'
  <1>1. CASE phase[c] \in After
    <2>1. passed[c] = NumChecks /\ cleanups[c] = 1 /\ ~ grants[c] /\ late[c] = "no"
      BY <1>1 DEF Sound, Cleaning
    <2>2. phase'[c] \notin Before \cup {"checks", "cleanup", "failed"}
      BY DEF Before
    <2>3. passed'[c] = NumChecks /\ cleanups'[c] = 1 /\ ~ grants'[c] /\ late'[c] = "no"
      BY <2>1
    <2>4. phase'[c] \notin Before /\ phase'[c] # "checks" /\ phase'[c] # "cleanup"
          /\ phase'[c] # "failed"
      BY <2>2
    <2>5. QED BY <2>3, <2>4 DEF Cleaning
  <1>2. CASE phase[c] \in Before
    <2>1. passed[c] = 0 /\ cleanups[c] = 0 /\ ~ grants[c] /\ late[c] = "no"
      BY <1>2 DEF Sound, Cleaning
    <2>2. phase'[c] = "undo"
      BY <1>2 DEF Before, After
    <2>3. phase'[c] \notin Before \cup After \cup {"checks", "cleanup", "failed"}
      BY <2>2 DEF Before, After
    <2>4. QED BY <2>1, <2>2, <2>3 DEF Cleaning
  <1>3. QED BY <1>1, <1>2 DEF Before, After

(* Steps that make, look at or remove the ceremony's files. *)
LEMMA FileSteps ==
  ASSUME CeremonyInv, NEW c \in Ceremonies,
         \/ Ceremony!PrepareNotice(c) \/ Ceremony!LinkNotice(c) \/ Ceremony!VerifyNotice(c)
         \/ Ceremony!UnlinkNotice(c) \/ Ceremony!PrepareOutputs(c) \/ Ceremony!LinkReadiness(c)
         \/ Ceremony!LinkCommunity(c) \/ Ceremony!UndoEnds(c) \/ Ceremony!Errs(c)
  PROVE  CeremonyInv'
  <1> USE CeremonyConstants
      DEF CeremonyTyped, Ceremony!TypeOK, Ceremony!fileVars, Ceremony!adapterVars,
          Ceremony!Go, Ceremony!Refuse, Ceremony!Blame, Ceremony!Links, Ceremony!TakeBack,
          Ceremony!Fault, Ceremony!NoticeWithdrawn, Ceremony!Nothing, Ceremony!Other,
          Ceremony!Outputs, Ceremony!Places, Ceremony!FlowStages, Ceremony!Stages, Same,
          Before, After, Noticing, Linked
  <1>1. CeremonyTyped /\ Sound(c)
    BY DEF CeremonyInv
  <1>2. CASE Ceremony!PrepareNotice(c)
    <2>1. CeremonyTyped'
      BY <1>1, <1>2 DEF Ceremony!PrepareNotice, Phases, Sound, Unlinking, Cleaning
    <2>2. \A d \in Ceremonies \ {c} : Same(d)
      BY <1>1, <1>2 DEF Ceremony!PrepareNotice
    <2>3. \A p \in Ceremony!Places :
            \/ files'[p] = files[p]
            \/ files'[p] \in {c, "none"} /\ (files[p] \in {c, "none"} \/ p \in freed)
      BY <1>1, <1>2 DEF Ceremony!PrepareNotice, Sound, Unlinking, InPlace
    <2>4. Sound(c)'
      BY <1>1, <1>2 DEF Ceremony!PrepareNotice, Sound, Owning, Excused, Unlinking, Cleaning, InPlace
    <2>5. QED BY <1>2, <2>1, <2>2, <2>3, <2>4, OneMoves DEF Ceremony!PrepareNotice
  <1>3. CASE Ceremony!LinkNotice(c)
    <2>1. CeremonyTyped'
      BY <1>1, <1>3 DEF Ceremony!LinkNotice, Phases, Sound, Unlinking, Cleaning
    <2>2. \A d \in Ceremonies \ {c} : Same(d)
      BY <1>1, <1>3 DEF Ceremony!LinkNotice
    <2>3. \A p \in Ceremony!Places :
            \/ files'[p] = files[p]
            \/ files'[p] \in {c, "none"} /\ (files[p] \in {c, "none"} \/ p \in freed)
      BY <1>1, <1>3 DEF Ceremony!LinkNotice, Sound, Unlinking, InPlace
    <2>4. Sound(c)'
      BY <1>1, <1>3 DEF Ceremony!LinkNotice, Sound, Owning, Excused, Unlinking, Cleaning, InPlace
    <2>5. QED BY <1>3, <2>1, <2>2, <2>3, <2>4, OneMoves DEF Ceremony!LinkNotice
  <1>4. CASE Ceremony!VerifyNotice(c)
    <2>1. CeremonyTyped'
      BY <1>1, <1>4 DEF Ceremony!VerifyNotice, Phases, Sound, Unlinking, Cleaning
    <2>2. \A d \in Ceremonies \ {c} : Same(d)
      BY <1>1, <1>4 DEF Ceremony!VerifyNotice
    <2>3. \A p \in Ceremony!Places :
            \/ files'[p] = files[p]
            \/ files'[p] \in {c, "none"} /\ (files[p] \in {c, "none"} \/ p \in freed)
      BY <1>1, <1>4 DEF Ceremony!VerifyNotice, Sound, Unlinking, InPlace
    <2>4. Sound(c)'
      BY <1>1, <1>4 DEF Ceremony!VerifyNotice, Sound, Owning, Excused, Unlinking, Cleaning, InPlace
    <2>5. QED BY <1>4, <2>1, <2>2, <2>3, <2>4, OneMoves DEF Ceremony!VerifyNotice
  <1>5. CASE Ceremony!UnlinkNotice(c)
    <2>1. CeremonyTyped'
      BY <1>1, <1>5 DEF Ceremony!UnlinkNotice, Phases, Sound, Unlinking, Cleaning
    <2>2. \A d \in Ceremonies \ {c} : Same(d)
      BY <1>1, <1>5 DEF Ceremony!UnlinkNotice
    <2>3. \A p \in Ceremony!Places :
            \/ files'[p] = files[p]
            \/ files'[p] \in {c, "none"} /\ (files[p] \in {c, "none"} \/ p \in freed)
      BY <1>1, <1>5 DEF Ceremony!UnlinkNotice, Sound, Unlinking, InPlace
    <2>4. Sound(c)'
      BY <1>1, <1>5 DEF Ceremony!UnlinkNotice, Sound, Owning, Excused, Unlinking, Cleaning, InPlace
    <2>5. QED BY <1>5, <2>1, <2>2, <2>3, <2>4, OneMoves DEF Ceremony!UnlinkNotice
  <1>6. CASE Ceremony!PrepareOutputs(c)
    <2>1. CeremonyTyped'
      BY <1>1, <1>6 DEF Ceremony!PrepareOutputs, Phases, Sound, Unlinking, Cleaning
    <2>2. \A d \in Ceremonies \ {c} : Same(d)
      BY <1>1, <1>6 DEF Ceremony!PrepareOutputs
    <2>3. \A p \in Ceremony!Places :
            \/ files'[p] = files[p]
            \/ files'[p] \in {c, "none"} /\ (files[p] \in {c, "none"} \/ p \in freed)
      BY <1>1, <1>6 DEF Ceremony!PrepareOutputs, Sound, Unlinking, InPlace
    <2>4. Sound(c)'
      BY <1>1, <1>6 DEF Ceremony!PrepareOutputs, Sound, Owning, Excused, Unlinking, Cleaning, InPlace
    <2>5. QED BY <1>6, <2>1, <2>2, <2>3, <2>4, OneMoves DEF Ceremony!PrepareOutputs
  <1>7. CASE Ceremony!LinkReadiness(c)
    <2>1. CeremonyTyped'
      BY <1>1, <1>7 DEF Ceremony!LinkReadiness, Phases, Sound, Unlinking, Cleaning
    <2>2. \A d \in Ceremonies \ {c} : Same(d)
      BY <1>1, <1>7 DEF Ceremony!LinkReadiness
    <2>3. \A p \in Ceremony!Places :
            \/ files'[p] = files[p]
            \/ files'[p] \in {c, "none"} /\ (files[p] \in {c, "none"} \/ p \in freed)
      BY <1>1, <1>7 DEF Ceremony!LinkReadiness, Sound, Unlinking, InPlace
    <2>4. Sound(c)'
      <3>1. Owning(c)'
        BY <1>1, <1>7 DEF Ceremony!LinkReadiness, Sound, Owning, Excused, Unlinking, InPlace
      <3>2. Unlinking(c)'
        BY <1>1, <1>7 DEF Ceremony!LinkReadiness, Sound, Owning, Excused, Unlinking, InPlace
      <3>3. Cleaning(c)'
        <4>1. /\ phase'[c] \in {"linkCommunity", "undo"}
              /\ phase[c] \in {"linkReadiness"}
              /\ passed' = passed /\ grants' = grants /\ late' = late /\ cleanups' = cleanups
          BY <1>1, <1>7 DEF Ceremony!LinkReadiness
        <4>2. QED BY <1>1, <4>1, CommitStaysClean
      <3>4. QED BY <3>1, <3>2, <3>3 DEF Sound
    <2>5. QED BY <1>7, <2>1, <2>2, <2>3, <2>4, OneMoves DEF Ceremony!LinkReadiness
  <1>8. CASE Ceremony!LinkCommunity(c)
    <2>1. CeremonyTyped'
      BY <1>1, <1>8 DEF Ceremony!LinkCommunity, Phases, Sound, Unlinking, Cleaning
    <2>2. \A d \in Ceremonies \ {c} : Same(d)
      BY <1>1, <1>8 DEF Ceremony!LinkCommunity
    <2>3. \A p \in Ceremony!Places :
            \/ files'[p] = files[p]
            \/ files'[p] \in {c, "none"} /\ (files[p] \in {c, "none"} \/ p \in freed)
      BY <1>1, <1>8 DEF Ceremony!LinkCommunity, Sound, Unlinking, InPlace
    <2>4. Sound(c)'
      <3>1. Owning(c)'
        BY <1>1, <1>8 DEF Ceremony!LinkCommunity, Sound, Owning, Excused, Unlinking, InPlace
      <3>2. Unlinking(c)'
        BY <1>1, <1>8 DEF Ceremony!LinkCommunity, Sound, Owning, Excused, Unlinking, InPlace
      <3>3. Cleaning(c)'
        <4>1. /\ phase'[c] \in {"verifyReadiness", "undo"}
              /\ phase[c] \in {"linkCommunity"}
              /\ passed' = passed /\ grants' = grants /\ late' = late /\ cleanups' = cleanups
          BY <1>1, <1>8 DEF Ceremony!LinkCommunity
        <4>2. QED BY <1>1, <4>1, CommitStaysClean
      <3>4. QED BY <3>1, <3>2, <3>3 DEF Sound
    <2>5. QED BY <1>8, <2>1, <2>2, <2>3, <2>4, OneMoves DEF Ceremony!LinkCommunity
  <1>9. CASE Ceremony!UndoEnds(c)
    <2>1. CeremonyTyped'
      BY <1>1, <1>9 DEF Ceremony!UndoEnds, Phases, Sound, Unlinking, Cleaning
    <2>2. \A d \in Ceremonies \ {c} : Same(d)
      BY <1>1, <1>9 DEF Ceremony!UndoEnds
    <2>3. \A p \in Ceremony!Places :
            \/ files'[p] = files[p]
            \/ files'[p] \in {c, "none"} /\ (files[p] \in {c, "none"} \/ p \in freed)
      BY <1>1, <1>9 DEF Ceremony!UndoEnds, Sound, Unlinking, InPlace
    <2>4. Sound(c)'
      BY <1>1, <1>9 DEF Ceremony!UndoEnds, Sound, Owning, Excused, Unlinking, Cleaning, InPlace
    <2>5. QED BY <1>9, <2>1, <2>2, <2>3, <2>4, OneMoves DEF Ceremony!UndoEnds
  <1>10. CASE Ceremony!Errs(c)
    <2>1. CeremonyTyped'
      BY <1>1, <1>10 DEF Ceremony!Errs, Phases, Sound, Unlinking, Cleaning
    <2>2. \A d \in Ceremonies \ {c} : Same(d)
      BY <1>1, <1>10 DEF Ceremony!Errs
    <2>3. \A p \in Ceremony!Places :
            \/ files'[p] = files[p]
            \/ files'[p] \in {c, "none"} /\ (files[p] \in {c, "none"} \/ p \in freed)
      BY <1>1, <1>10 DEF Ceremony!Errs, Sound, Unlinking, InPlace
    <2>4. Sound(c)'
      <3>1. Owning(c)'
        BY <1>1, <1>10 DEF Ceremony!Errs, Sound, Owning, Excused, Unlinking, InPlace
      <3>2. Unlinking(c)'
        BY <1>1, <1>10 DEF Ceremony!Errs, Sound, Owning, Excused, Unlinking, InPlace
      <3>3. Cleaning(c)'
        <4>1. /\ passed' = passed /\ grants' = grants /\ late' = late /\ cleanups' = cleanups
              /\ \/ /\ phase'[c] \in {"undo"}
                    /\ phase[c] \in {"linkNotice", "verifyNotice", "linkReadiness",
                                  "linkCommunity", "verifyReadiness", "verifyCommunity"}
                 \/ /\ phase'[c] = "failed"
                    /\ phase[c] \in {"checkNotice", "unlinkNotice", "noticeGone"}
          BY <1>1, <1>10 DEF Ceremony!Errs
        <4>2. CASE phase'[c] = "failed"
          <5>1. passed[c] = 0 /\ cleanups[c] = 0 /\ ~ grants[c] /\ late[c] = "no"
            BY <1>1, <4>1, <4>2 DEF Sound, Cleaning
          <5>2. QED BY <4>1, <4>2, <5>1 DEF Cleaning
        <4>3. CASE phase'[c] \in {"undo"}
          BY <1>1, <4>1, <4>3, CommitStaysClean
        <4>4. QED BY <4>1, <4>2, <4>3
      <3>4. QED BY <3>1, <3>2, <3>3 DEF Sound
    <2>5. QED BY <1>10, <2>1, <2>2, <2>3, <2>4, OneMoves DEF Ceremony!Errs
  <1>11. QED BY <1>2, <1>3, <1>4, <1>5, <1>6, <1>7, <1>8, <1>9, <1>10

(* Steps at the adapter. *)
LEMMA AdapterSteps ==
  ASSUME CeremonyInv, NEW c \in Ceremonies,
         \/ Ceremony!CheckPasses(c) \/ Ceremony!CheckFails(c) \/ Ceremony!ServedLate(c)
         \/ Ceremony!CleanupPasses(c) \/ Ceremony!CleanupFails(c)
  PROVE  CeremonyInv'
  <1> USE CeremonyConstants
      DEF CeremonyTyped, Ceremony!TypeOK, Ceremony!fileVars, Ceremony!adapterVars,
          Ceremony!Go, Ceremony!Refuse, Ceremony!Blame, Ceremony!Links, Ceremony!TakeBack,
          Ceremony!Fault, Ceremony!NoticeWithdrawn, Ceremony!Nothing, Ceremony!Other,
          Ceremony!Outputs, Ceremony!Places, Ceremony!FlowStages, Ceremony!Stages, Same,
          Before, After, Noticing, Linked
  <1>1. CeremonyTyped /\ Sound(c)
    BY DEF CeremonyInv
  <1>2. CASE Ceremony!CheckPasses(c)
    <2>1. CeremonyTyped'
      BY <1>1, <1>2 DEF Ceremony!CheckPasses, Phases, Sound, Unlinking, Cleaning
    <2>2. \A d \in Ceremonies \ {c} : Same(d)
      BY <1>1, <1>2 DEF Ceremony!CheckPasses
    <2>3. \A p \in Ceremony!Places :
            \/ files'[p] = files[p]
            \/ files'[p] \in {c, "none"} /\ (files[p] \in {c, "none"} \/ p \in freed)
      BY <1>1, <1>2 DEF Ceremony!CheckPasses, Sound, Unlinking, InPlace
    <2>4. Sound(c)'
      BY <1>1, <1>2 DEF Ceremony!CheckPasses, Sound, Owning, Excused, Unlinking, Cleaning, InPlace
    <2>5. QED BY <1>2, <2>1, <2>2, <2>3, <2>4, OneMoves DEF Ceremony!CheckPasses
  <1>3. CASE Ceremony!CheckFails(c)
    <2>1. CeremonyTyped'
      BY <1>1, <1>3 DEF Ceremony!CheckFails, Phases, Sound, Unlinking, Cleaning
    <2>2. \A d \in Ceremonies \ {c} : Same(d)
      BY <1>1, <1>3 DEF Ceremony!CheckFails
    <2>3. \A p \in Ceremony!Places :
            \/ files'[p] = files[p]
            \/ files'[p] \in {c, "none"} /\ (files[p] \in {c, "none"} \/ p \in freed)
      BY <1>1, <1>3 DEF Ceremony!CheckFails, Sound, Unlinking, InPlace
    <2>4. Sound(c)'
      BY <1>1, <1>3 DEF Ceremony!CheckFails, Sound, Owning, Excused, Unlinking, Cleaning, InPlace
    <2>5. QED BY <1>3, <2>1, <2>2, <2>3, <2>4, OneMoves DEF Ceremony!CheckFails
  <1>4. CASE Ceremony!ServedLate(c)
    <2>1. CeremonyTyped'
      BY <1>1, <1>4 DEF Ceremony!ServedLate, Phases, Sound, Unlinking, Cleaning
    <2>2. \A d \in Ceremonies \ {c} : Same(d)
      BY <1>1, <1>4 DEF Ceremony!ServedLate
    <2>3. \A p \in Ceremony!Places :
            \/ files'[p] = files[p]
            \/ files'[p] \in {c, "none"} /\ (files[p] \in {c, "none"} \/ p \in freed)
      BY <1>1, <1>4 DEF Ceremony!ServedLate, Sound, Unlinking, InPlace
    <2>4. Sound(c)'
      BY <1>1, <1>4 DEF Ceremony!ServedLate, Sound, Owning, Excused, Unlinking, Cleaning, InPlace
    <2>5. QED BY <1>4, <2>1, <2>2, <2>3, <2>4, OneMoves DEF Ceremony!ServedLate
  <1>5. CASE Ceremony!CleanupPasses(c)
    <2>1. CeremonyTyped'
      BY <1>1, <1>5 DEF Ceremony!CleanupPasses, Phases, Sound, Unlinking, Cleaning
    <2>2. \A d \in Ceremonies \ {c} : Same(d)
      BY <1>1, <1>5 DEF Ceremony!CleanupPasses
    <2>3. \A p \in Ceremony!Places :
            \/ files'[p] = files[p]
            \/ files'[p] \in {c, "none"} /\ (files[p] \in {c, "none"} \/ p \in freed)
      BY <1>1, <1>5 DEF Ceremony!CleanupPasses, Sound, Unlinking, InPlace
    <2>4. Sound(c)'
      BY <1>1, <1>5 DEF Ceremony!CleanupPasses, Sound, Owning, Excused, Unlinking, Cleaning, InPlace
    <2>5. QED BY <1>5, <2>1, <2>2, <2>3, <2>4, OneMoves DEF Ceremony!CleanupPasses
  <1>6. CASE Ceremony!CleanupFails(c)
    <2>1. CeremonyTyped'
      BY <1>1, <1>6 DEF Ceremony!CleanupFails, Phases, Sound, Unlinking, Cleaning
    <2>2. \A d \in Ceremonies \ {c} : Same(d)
      BY <1>1, <1>6 DEF Ceremony!CleanupFails
    <2>3. \A p \in Ceremony!Places :
            \/ files'[p] = files[p]
            \/ files'[p] \in {c, "none"} /\ (files[p] \in {c, "none"} \/ p \in freed)
      BY <1>1, <1>6 DEF Ceremony!CleanupFails, Sound, Unlinking, InPlace
    <2>4. Sound(c)'
      BY <1>1, <1>6 DEF Ceremony!CleanupFails, Sound, Owning, Excused, Unlinking, Cleaning, InPlace
    <2>5. QED BY <1>6, <2>1, <2>2, <2>3, <2>4, OneMoves DEF Ceremony!CleanupFails
  <1>7. QED BY <1>2, <1>3, <1>4, <1>5, <1>6

(* One of the two receipts, or one place that is taken back. *)
LEMMA PlaceSteps ==
  ASSUME CeremonyInv, NEW c \in Ceremonies, NEW p \in Ceremony!Places,
         \/ Ceremony!VerifyOutputs(c) \/ Ceremony!UndoCheck(c, p) \/ Ceremony!UndoUnlink(c, p)
         \/ Ceremony!UndoTemp(c, p)
  PROVE  CeremonyInv'
  <1> USE CeremonyConstants
      DEF CeremonyTyped, Ceremony!TypeOK, Ceremony!fileVars, Ceremony!adapterVars,
          Ceremony!Go, Ceremony!Blame, Ceremony!TakeBack, Ceremony!Nothing, Ceremony!Other,
          Ceremony!Fault, Ceremony!Sticks, Ceremony!Outputs, Ceremony!Places, Ceremony!Stages, Same,
          Before, After, Noticing, Linked
  <1>1. CeremonyTyped /\ Sound(c)
    BY DEF CeremonyInv
  <1>2. ASSUME NEW q, NEW here, NEW next0,
               \/ q = "readiness" /\ here = "verifyReadiness" /\ next0 = "verifyCommunity"
               \/ q = "community" /\ here = "verifyCommunity" /\ next0 = "done",
               Ceremony!VerifyOutput(c, q, here, next0)
        PROVE  CeremonyInv'
    <2>1. CeremonyTyped'
      BY <1>1, <1>2 DEF Ceremony!VerifyOutput, Phases
    <2>2. \A d \in Ceremonies \ {c} : Same(d)
      BY <1>1, <1>2 DEF Ceremony!VerifyOutput
    <2>3. files' = files /\ freed' = freed
      BY <1>2 DEF Ceremony!VerifyOutput
    <2>4. Sound(c)'
      <3>1. Owning(c)'
        BY <1>1, <1>2 DEF Ceremony!VerifyOutput, Sound, Owning, Excused, Unlinking, InPlace
      <3>2. Unlinking(c)'
        BY <1>1, <1>2 DEF Ceremony!VerifyOutput, Sound, Unlinking, InPlace
      <3>3. Cleaning(c)'
        <4>1. /\ phase'[c] \in {"verifyCommunity", "done", "undo"}
              /\ phase[c] \in {"verifyReadiness", "verifyCommunity"}
              /\ passed' = passed /\ grants' = grants /\ late' = late /\ cleanups' = cleanups
          BY <1>1, <1>2 DEF Ceremony!VerifyOutput
        <4>2. QED BY <1>1, <4>1, CommitStaysClean
      <3>4. QED BY <3>1, <3>2, <3>3 DEF Sound
    <2>5. QED BY <2>1, <2>2, <2>3, <2>4, OneMoves
  <1>3. CASE Ceremony!UndoCheck(c, p)
    <2>1. CeremonyTyped'
      BY <1>1, <1>3 DEF Ceremony!UndoCheck
    <2>2. \A d \in Ceremonies \ {c} : Same(d)
      BY <1>1, <1>3 DEF Ceremony!UndoCheck
    <2>3. files' = files /\ freed' = freed
      BY <1>3 DEF Ceremony!UndoCheck
    <2>4. Sound(c)'
      BY <1>1, <1>3 DEF Ceremony!UndoCheck, Sound, Owning, Excused, Unlinking, Cleaning, InPlace
    <2>5. QED BY <2>1, <2>2, <2>3, <2>4, OneMoves
  <1>4. CASE Ceremony!UndoUnlink(c, p)
    <2>1. CeremonyTyped'
      BY <1>1, <1>4 DEF Ceremony!UndoUnlink
    <2>2. \A d \in Ceremonies \ {c} : Same(d)
      BY <1>1, <1>4 DEF Ceremony!UndoUnlink
    <2>3. /\ freed' = freed
          /\ \A q \in Ceremony!Places :
               \/ files'[q] = files[q]
               \/ files'[q] \in {c, "none"} /\ (files[q] \in {c, "none"} \/ q \in freed)
      BY <1>1, <1>4 DEF Ceremony!UndoUnlink, Sound, Unlinking, InPlace
    <2>4. Sound(c)'
      BY <1>1, <1>4 DEF Ceremony!UndoUnlink, Sound, Owning, Excused, Unlinking, Cleaning, InPlace
    <2>5. QED BY <2>1, <2>2, <2>3, <2>4, OneMoves
  <1>5. CASE Ceremony!UndoTemp(c, p)
    <2>1. CeremonyTyped'
      BY <1>1, <1>5 DEF Ceremony!UndoTemp
    <2>2. \A d \in Ceremonies \ {c} : Same(d)
      BY <1>1, <1>5 DEF Ceremony!UndoTemp
    <2>3. files' = files /\ freed' = freed
      BY <1>5 DEF Ceremony!UndoTemp
    <2>4. Sound(c)'
      BY <1>1, <1>5
      DEF Ceremony!UndoTemp, Sound, Owning, Excused, Unlinking, Cleaning, InPlace
    <2>5. QED BY <2>1, <2>2, <2>3, <2>4, OneMoves
  <1>6. QED BY <1>2, <1>3, <1>4, <1>5 DEF Ceremony!VerifyOutputs

(* The others at a place. *)
LEMMA OthersKeep ==
  ASSUME CeremonyInv, NEW p \in Ceremony!Places,
         Ceremony!OtherCreates(p) \/ Ceremony!OtherRemoves(p)
  PROVE  CeremonyInv'
  <1> USE CeremonyConstants
      DEF CeremonyInv, CeremonyTyped, Ceremony!TypeOK, Ceremony!adapterVars, Ceremony!Nothing,
          Ceremony!Other, Ceremony!OtherCreates, Ceremony!OtherRemoves
  <1>1. CeremonyTyped'
    OBVIOUS
  <1>2. ASSUME NEW d \in Ceremonies PROVE Sound(d)'
    <2>1. Same(d) /\ freed \subseteq freed'
      BY DEF Same
    <2>2. \A q \in Ceremony!Places :
            files'[q] = files[q] \/ (files'[q] # d /\ (files[q] = d => q \in freed'))
      OBVIOUS
    <2>3. QED BY <2>1, <2>2, OtherStaysSound
  <1>3. QED BY <1>1, <1>2

LEMMA CeremonyStep == CeremonyInv /\ [Ceremony!Next]_Ceremony!vars => CeremonyInv'
  <1> SUFFICES ASSUME CeremonyInv, [Ceremony!Next]_Ceremony!vars PROVE CeremonyInv'
    OBVIOUS
  <1>1. ASSUME NEW c \in Ceremonies,
               Ceremony!Step(c) \/ Ceremony!ServedLate(c) \/ Ceremony!Dies(c) \/ Ceremony!Errs(c)
        PROVE  CeremonyInv'
    <2>1. "notice" \in Ceremony!Places
      BY DEF Ceremony!Places
    <2>2. QED BY <1>1, <2>1, QuietMoves, FileSteps, AdapterSteps, PlaceSteps DEF Ceremony!Step
  <1>2. ASSUME NEW p \in Ceremony!Places, Ceremony!OtherCreates(p) \/ Ceremony!OtherRemoves(p)
        PROVE  CeremonyInv'
    BY <1>2, OthersKeep
  <1>3. CASE UNCHANGED Ceremony!vars
    BY <1>3 DEF CeremonyInv, CeremonyTyped, Ceremony!TypeOK, Sound, Owning, Excused, Unlinking, Cleaning,
                InPlace, Ceremony!vars, Ceremony!fileVars, Ceremony!adapterVars
  <1>4. QED BY <1>1, <1>2, <1>3 DEF Ceremony!Next

(* A file disappears only by its owner, or where somebody has removed one. *)
LEMMA NobodyElseRemoves ==
  ASSUME CeremonyInv, [Ceremony!Next]_Ceremony!vars
  PROVE  Ceremony!OthersAreSpared
  <1> USE CeremonyConstants DEF Ceremony!Nothing, Ceremony!Other
  <1>1. CeremonyTyped
    BY DEF CeremonyInv
  <1>2. ASSUME NEW p \in Ceremony!Places, files[p] # "none", files'[p] # files[p],
               NEW c \in Ceremonies,
               Ceremony!Step(c) \/ Ceremony!ServedLate(c) \/ Ceremony!Dies(c) \/ Ceremony!Errs(c)
        PROVE  \/ p \in freed
               \/ files[p] = c /\ armed'[c] # armed[c]
               \/ files[p] = c /\ phase[c] = "unlinkNotice" /\ phase'[c] # "unlinkNotice"
    <2>1. Unlinking(c)
      BY DEF CeremonyInv, Sound
    <2>2. CASE \E q \in Ceremony!Places : Ceremony!UndoUnlink(c, q)
      <3>1. PICK q \in Ceremony!Places : Ceremony!UndoUnlink(c, q)
        BY <2>2
      <3>2. p = q /\ p \in armed[c] /\ armed'[c] = armed[c] \ {p}
        BY <1>1, <1>2, <3>1 DEF Ceremony!UndoUnlink, CeremonyTyped, Ceremony!TypeOK
      <3>3. QED BY <2>1, <3>2 DEF Unlinking, InPlace
    <2>3. CASE Ceremony!UnlinkNotice(c)
      <3>1. p = "notice" /\ phase[c] = "unlinkNotice" /\ phase'[c] # "unlinkNotice"
        BY <1>1, <1>2, <2>3
        DEF Ceremony!UnlinkNotice, Ceremony!Go, Ceremony!Refuse, CeremonyTyped, Ceremony!TypeOK
      <3>2. QED BY <2>1, <3>1 DEF Unlinking, InPlace
    <2>4. files' = files \/ (\E q : files[q] = "none" /\ files' = [files EXCEPT ![q] = c])
            \/ Ceremony!UnlinkNotice(c) \/ \E q \in Ceremony!Places : Ceremony!UndoUnlink(c, q)
      <3> USE DEF Ceremony!fileVars, Ceremony!Links
      <3>1. CASE Ceremony!Step(c)
        BY <3>1
        DEF Ceremony!Step, Ceremony!PreflightOutputs, Ceremony!PreflightNotice, Ceremony!FlowFails,
            Ceremony!PrepareNotice, Ceremony!LinkNotice, Ceremony!VerifyNotice, Ceremony!Approval,
            Ceremony!CheckNotice, Ceremony!NoticeGone, Ceremony!NoPort, Ceremony!CheckPasses,
            Ceremony!CheckFails, Ceremony!CleanupPasses, Ceremony!CleanupFails, Ceremony!Project,
            Ceremony!PrepareOutputs, Ceremony!LinkReadiness, Ceremony!LinkCommunity,
            Ceremony!VerifyOutputs, Ceremony!VerifyOutput, Ceremony!UndoEnds, Ceremony!UndoCheck,
            Ceremony!UndoTemp
      <3>2. CASE Ceremony!ServedLate(c) \/ Ceremony!Dies(c) \/ Ceremony!Errs(c)
        BY <3>2 DEF Ceremony!ServedLate, Ceremony!Dies, Ceremony!Errs
      <3>3. QED BY <1>2, <3>1, <3>2
    <2>5. QED BY <1>1, <1>2, <2>2, <2>3, <2>4 DEF CeremonyTyped, Ceremony!TypeOK
  <1>3. ASSUME NEW q \in Ceremony!Places, Ceremony!OtherCreates(q) \/ Ceremony!OtherRemoves(q)
        PROVE  acts' # acts
    BY <1>1, <1>3 DEF Ceremony!OtherCreates, Ceremony!OtherRemoves, CeremonyTyped, Ceremony!TypeOK
  <1>4. CASE UNCHANGED Ceremony!vars
    BY <1>4 DEF Ceremony!vars, Ceremony!fileVars, Ceremony!OthersAreSpared
  <1>5. QED BY <1>2, <1>3, <1>4 DEF Ceremony!Next, Ceremony!OthersAreSpared

(* What the invariant says of a ceremony that has ended. *)
CeremonyFacts ==
  /\ Ceremony!NothingIsLeft /\ Ceremony!NoticeIsWithdrawn /\ Ceremony!AdapterIsClean
  /\ \A c \in Ceremonies : phase[c] = "done" =>
       /\ passed[c] = NumChecks /\ cleanups[c] = 1 /\ late[c] = "no"
       /\ \A p \in Ceremony!Outputs : files[p] = c \/ p \in freed

LEMMA CeremonyGoals == CeremonyInv => CeremonyFacts
  <1> SUFFICES ASSUME CeremonyInv PROVE CeremonyFacts
    OBVIOUS
  <1>1. ASSUME NEW c \in Ceremonies
        PROVE  /\ phase[c] = "failed" => temps[c] \subseteq strays[c] /\ Excused(c)
               /\ passed[c] > 0 \/ cleanups[c] > 0 \/ phase[c] \in {"checks", "done"}
                    => files["notice"] # c
               /\ phase[c] = "done" =>
                    /\ passed[c] = NumChecks /\ cleanups[c] = 1 /\ late[c] = "no" /\ ~ grants[c]
                    /\ \A p \in Ceremony!Outputs : files[p] = c \/ p \in freed
    BY CeremonyConstants
    DEF CeremonyInv, Sound, Owning, Excused, Unlinking, Cleaning, InPlace, Noticing, Linked, After,
        Ceremony!Outputs
  <1>2. Ceremony!AdapterIsClean
    BY <1>1 DEF CeremonyInv, Sound, Cleaning, Ceremony!AdapterIsClean
  <1>3. QED BY <1>1, <1>2 DEF CeremonyFacts, Ceremony!NothingIsLeft, Ceremony!NoticeIsWithdrawn,
                           Ceremony!Refused, Excused

(* Whatever the people, the adapter, the other ceremonies and the other      *)
(* users of the runner's directory do, and wherever ceremonies die, a        *)
(* refused one leaves no file of its own and no session it does not report,  *)
(* the notice is withdrawn before the credential is used, success means two  *)
(* receipts in place, and nobody takes away what is not its own              *)
(* (cli/core/management/phase-a-ceremony.ts, phase-a-output.ts).             *)
THEOREM CeremonyStaysFailClosed == CloudSpec => CeremonyIsFailClosed
  <1>1. CloudInit => CeremonyInv
    BY CeremonyStart DEF CloudInit
  <1>2. [CloudNext]_all => [Ceremony!Next]_Ceremony!vars
    BY DEF CloudNext, all, ceremony, Ceremony!vars, Ceremony!fileVars, Ceremony!adapterVars
  <1>3. CloudSpec => []CeremonyInv
    BY <1>1, <1>2, CeremonyStep, PTL DEF CloudSpec
  <1>4. CeremonyInv => CeremonyFacts
    BY CeremonyGoals
  <1>5. CeremonyInv' => CeremonyFacts'
    BY <1>4, PTL
  <1>6. CeremonyInv /\ CeremonyInv' /\ [Ceremony!Next]_Ceremony!vars =>
          /\ Ceremony!NothingIsLeft' /\ Ceremony!NoticeIsWithdrawn' /\ Ceremony!AdapterIsClean'
          /\ Ceremony!SuccessIsEarned /\ Ceremony!OthersAreSpared
    BY <1>5, NobodyElseRemoves DEF CeremonyFacts, Ceremony!SuccessIsEarned
  <1>7. CeremonyInv =>
          Ceremony!NothingIsLeft /\ Ceremony!NoticeIsWithdrawn /\ Ceremony!AdapterIsClean
    BY <1>4 DEF CeremonyFacts
  <1>8. QED BY <1>2, <1>3, <1>6, <1>7, PTL
        DEF CeremonyIsFailClosed, Ceremony!CeremonyIsFailClosed, CloudSpec
=============================================================================
