--------------------------- MODULE LongRunningProofs ---------------------------
(***************************************************************************)
(* Proofs about MCLongRunning, the two processes that stay up: for any     *)
(* commands, rules, calls, deaths and failed appends, the command bridge   *)
(* runs nothing that its log does not announce, and breaks the chain of    *)
(* its log only where one append overlaps another.                         *)
(*                                                                         *)
(* What is logged is not lost but to a torn line, after which nothing is   *)
(* readable any more.  The invariant says for each step of a call what its *)
(* predecessors have made sure of (Follows), and that as long as appends   *)
(* have not overlapped, who is about to append has read the last record    *)
(* (AppendsInTurn).                                                        *)
(***************************************************************************)
EXTENDS MCLongRunning, TLAPS

CallType ==
  [id : 0..MaxCalls, req : Request \cup {None}, last : Line \cup {None},
   how : Outcomes \cup {"none"}, child : Child \cup {"none"}, late : BOOLEAN, approved : BOOLEAN]

Typed ==
  /\ {up, overlapped} \subseteq BOOLEAN
  /\ calls \in 0..MaxCalls /\ faults \in 0..MaxFaults
  /\ log \in Seq(Line \cup {Torn})
  /\ pc \in [Slot -> Steps] /\ call \in [Slot -> CallType]
  /\ answer \in [Slot -> Outcomes \cup {"none", "error", "lost"}]

Announced == {"check", "consent", "spawn", "run", "outcome", "log outcome"}
Ending == {"outcome", "log outcome"}

Permitted(c) == \E i \in DOMAIN Allow : Applies(Allow[i], call[c].req)
Consented(c) == call[c].req.shell \/ Decide(call[c].req) = "consent" => call[c].approved

(* How a call ends is known at the end only, and says whether it ran.       *)
ResultFits(c) ==
  /\ pc[c] \notin Ending \cup {"idle"} => call[c].how = "none"
  /\ pc[c] \in Ending => call[c].how \in Outcomes
  /\ pc[c] \in Ending /\ call[c].how = "completed" => call[c].child = "short" /\ ~ call[c].late
  /\ pc[c] \in Ending /\ call[c].how \in Denials => ~ Started(c)

Follows(c) ==
  /\ ResultFits(c)
  /\ pc[c] \in Announced \/ Started(c) => Logged("attempt", call[c].id, "none")
  /\ pc[c] = "consent" => Permitted(c)
  /\ pc[c] \in {"spawn", "run"} \/ Started(c) => Permitted(c) /\ Consented(c)
  /\ Started(c) => pc[c] \in {"run", "idle"} \cup Ending
  /\ pc[c] # "idle" => answer[c] = "none"
  /\ answer[c] \in Outcomes => Logged("outcome", call[c].id, answer[c])
  /\ answer[c] = "completed" => call[c].child = "short" /\ ~ call[c].late
  /\ answer[c] \in Denials => ~ Started(c)

(* Until two appends overlap, one at a time follows the last record.        *)
AppendsInTurn ==
  ~ overlapped =>
    /\ \A i \in DOMAIN log : Verifies(i) \/ (log[i] = Torn /\ i = Len(log))
    /\ \A c \in Slot : Appending(c) =>
         /\ Readable /\ call[c].last = LastRecord
         /\ \A d \in Slot : Appending(d) => c = d

BridgeInv == Typed /\ AppendsInTurn /\ \A c \in Slot : Follows(c)

-----------------------------------------------------------------------------
(* The log. *)
Grown ==
  \/ log' = log
  \/ Readable /\ \E e \in Line \cup {Torn} : log' = Append(log, e)

LEMMA Constants ==
  ASSUME BridgeAssumption
  PROVE  /\ None \notin Line /\ Torn \notin Line /\ None # Torn
         /\ MaxCalls \in Nat /\ MaxFaults \in Nat
  BY DEF BridgeAssumption

LEMMA LinesAreLines ==
  ASSUME BridgeAssumption, NEW e \in Line
  PROVE  e # Torn /\ e # None
  BY Constants

LEMMA FieldsOfLine ==
  ASSUME NEW e \in Line
  PROVE  e.type \in Types /\ e.id \in 0..MaxCalls /\ e.seq \in Nat
  BY DEF Line

LEMMA FieldsOfCall ==
  ASSUME NEW m \in CallType
  PROVE  /\ m.id \in 0..MaxCalls /\ m.req \in Request \cup {None} /\ m.last \in Line \cup {None}
         /\ m.how \in Outcomes \cup {"none"} /\ m.child \in Child \cup {"none"}
         /\ m.late \in BOOLEAN /\ m.approved \in BOOLEAN
  BY DEF CallType

LEMMA NewLine ==
  ASSUME NEW s \in Seq(Line \cup {Torn}), NEW e \in Line \cup {Torn}
  PROVE  /\ Append(s, e) \in Seq(Line \cup {Torn})
         /\ DOMAIN s = 1..Len(s) /\ DOMAIN Append(s, e) = 1..(Len(s) + 1) /\ Len(s) \in Nat
         /\ Len(Append(s, e)) = Len(s) + 1
         /\ \A i \in DOMAIN s : Append(s, e)[i] = s[i] /\ s[i] \in Line \cup {Torn}
         /\ Append(s, e)[Len(s) + 1] = e
  OBVIOUS

LEMMA ElementsAre ==
  ASSUME NEW s \in Seq(Line \cup {Torn}), NEW i \in DOMAIN s
  PROVE  s[i] \in Line \cup {Torn}
  OBVIOUS

LEMMA LastIndex ==
  ASSUME NEW s \in Seq(Line \cup {Torn})
  PROVE  /\ s = <<>> => Len(s) = 0
         /\ s # <<>> => Len(s) \in DOMAIN s /\ Len(s) # 0
  OBVIOUS

(* What is logged stays logged, or nothing can be read any more. *)
Tells(lines, type, id, how) ==
  \E i \in DOMAIN lines :
    lines[i] = Torn \/ (lines[i].type = type /\ lines[i].id = id /\ lines[i].how = how)

LEMMA LoggedIsTold ==
  ASSUME NEW c \in Slot
  PROVE  /\ Logged("attempt", call[c].id, "none") <=> Tells(log, "attempt", call[c].id, "none")
         /\ Logged("outcome", call[c].id, answer[c]) <=>
            Tells(log, "outcome", call[c].id, answer[c])
         /\ Logged("attempt", call[c].id, "none")' <=> Tells(log', "attempt", call'[c].id, "none")
         /\ Logged("outcome", call[c].id, answer[c])' <=>
            Tells(log', "outcome", call'[c].id, answer'[c])
  BY DEF Logged, Readable, Records, Tells

LEMMA LoggedStays ==
  ASSUME Typed, Grown
  PROVE  \A type, id, how : Tells(log, type, id, how) => Tells(log', type, id, how)
  <1>1. SUFFICES ASSUME NEW type, NEW id, NEW how, Tells(log, type, id, how)
                 PROVE  Tells(log', type, id, how)
    OBVIOUS
  <1>2. ASSUME NEW e \in Line \cup {Torn}, log' = Append(log, e) PROVE Tells(log', type, id, how)
    <2>1. \A i \in DOMAIN log : i \in DOMAIN log' /\ log'[i] = log[i]
      BY <1>2, NewLine DEF Typed
    <2>2. QED BY <1>1, <2>1 DEF Tells
  <1>3. QED BY <1>1, <1>2 DEF Grown

LEMMA OthersFollow ==
  ASSUME Typed, Grown, NEW d \in Slot, Follows(d),
         pc'[d] = pc[d], call'[d] = call[d], answer'[d] = answer[d]
  PROVE  Follows(d)'
  <1>1. \A type, id, how : Tells(log, type, id, how) => Tells(log', type, id, how)
    BY LoggedStays
  <1>2. Logged("attempt", call[d].id, "none") => Logged("attempt", call[d].id, "none")'
    BY <1>1, LoggedIsTold
  <1>3. Logged("outcome", call[d].id, answer[d]) => Logged("outcome", call[d].id, answer[d])'
    BY <1>1, LoggedIsTold
  <1> HIDE DEF Grown
  <1>4. Started(d)' <=> Started(d)
    BY DEF Started
  <1>5. Permitted(d)' <=> Permitted(d)
    BY DEF Permitted
  <1>6. Consented(d)' <=> Consented(d)
    BY DEF Consented
  <1>7. ResultFits(d)'
    BY <1>4 DEF ResultFits, Follows
  <1>8. QED BY <1>2, <1>3, <1>4, <1>5, <1>6, <1>7 DEF Follows

-----------------------------------------------------------------------------
(* What a step keeps of a call: one field changes, all others stay. *)
SameBut(c, fields) ==
  /\ \A d \in Slot \ {c} : call'[d] = call[d]
  /\ "id" \notin fields => call'[c].id = call[c].id
  /\ "req" \notin fields => call'[c].req = call[c].req
  /\ "last" \notin fields => call'[c].last = call[c].last
  /\ "how" \notin fields => call'[c].how = call[c].how
  /\ "child" \notin fields => call'[c].child = call[c].child
  /\ "late" \notin fields => call'[c].late = call[c].late
  /\ "approved" \notin fields => call'[c].approved = call[c].approved

LEMMA KeepLast ==
  ASSUME Typed, NEW c \in Slot, NEW value \in Line \cup {None}, Keep(c, "last", value)
  PROVE  /\ call' \in [Slot -> CallType] /\ call'[c].last = value /\ SameBut(c, {"last"})
  <1> DEFINE m == [call[c] EXCEPT !.last = value]
  <1>1. call \in [Slot -> CallType] /\ call[c] \in CallType
    BY DEF Typed
  <1>2. m \in CallType /\ \A d \in Slot : call'[d] = IF d = c THEN m ELSE call[d]
    <2>1. m \in CallType
      BY <1>1 DEF CallType
    <2>2. QED BY <1>1, <2>1 DEF Keep
  <1>3. call' \in [Slot -> CallType]
    <2> HIDE DEF m
    <2>1. QED BY <1>1, <1>2 DEF Keep
  <1>4. SameBut(c, {"last"}) /\ call'[c].last = value
    BY <1>1, <1>2 DEF SameBut, CallType
  <1>5. QED BY <1>3, <1>4

LEMMA KeepHow ==
  ASSUME Typed, NEW c \in Slot, NEW value \in Outcomes \cup {"none"}, Keep(c, "how", value)
  PROVE  /\ call' \in [Slot -> CallType] /\ call'[c].how = value /\ SameBut(c, {"how"})
  <1> DEFINE m == [call[c] EXCEPT !.how = value]
  <1>1. call \in [Slot -> CallType] /\ call[c] \in CallType
    BY DEF Typed
  <1>2. m \in CallType /\ \A d \in Slot : call'[d] = IF d = c THEN m ELSE call[d]
    <2>1. m \in CallType
      BY <1>1 DEF CallType
    <2>2. QED BY <1>1, <2>1 DEF Keep
  <1>3. call' \in [Slot -> CallType]
    <2> HIDE DEF m
    <2>1. QED BY <1>1, <1>2 DEF Keep
  <1>4. SameBut(c, {"how"}) /\ call'[c].how = value
    BY <1>1, <1>2 DEF SameBut, CallType
  <1>5. QED BY <1>3, <1>4

LEMMA KeepChild ==
  ASSUME Typed, NEW c \in Slot, NEW value \in Child \cup {"none"}, Keep(c, "child", value)
  PROVE  /\ call' \in [Slot -> CallType] /\ call'[c].child = value /\ SameBut(c, {"child"})
  <1> DEFINE m == [call[c] EXCEPT !.child = value]
  <1>1. call \in [Slot -> CallType] /\ call[c] \in CallType
    BY DEF Typed
  <1>2. m \in CallType /\ \A d \in Slot : call'[d] = IF d = c THEN m ELSE call[d]
    <2>1. m \in CallType
      BY <1>1 DEF CallType
    <2>2. QED BY <1>1, <2>1 DEF Keep
  <1>3. call' \in [Slot -> CallType]
    <2> HIDE DEF m
    <2>1. QED BY <1>1, <1>2 DEF Keep
  <1>4. SameBut(c, {"child"}) /\ call'[c].child = value
    BY <1>1, <1>2 DEF SameBut, CallType
  <1>5. QED BY <1>3, <1>4

LEMMA KeepLate ==
  ASSUME Typed, NEW c \in Slot, NEW value \in BOOLEAN, Keep(c, "late", value)
  PROVE  /\ call' \in [Slot -> CallType] /\ call'[c].late = value /\ SameBut(c, {"late"})
  <1> DEFINE m == [call[c] EXCEPT !.late = value]
  <1>1. call \in [Slot -> CallType] /\ call[c] \in CallType
    BY DEF Typed
  <1>2. m \in CallType /\ \A d \in Slot : call'[d] = IF d = c THEN m ELSE call[d]
    <2>1. m \in CallType
      BY <1>1 DEF CallType
    <2>2. QED BY <1>1, <2>1 DEF Keep
  <1>3. call' \in [Slot -> CallType]
    <2> HIDE DEF m
    <2>1. QED BY <1>1, <1>2 DEF Keep
  <1>4. SameBut(c, {"late"}) /\ call'[c].late = value
    BY <1>1, <1>2 DEF SameBut, CallType
  <1>5. QED BY <1>3, <1>4

LEMMA KeepApproved ==
  ASSUME Typed, NEW c \in Slot, NEW value \in BOOLEAN, Keep(c, "approved", value)
  PROVE  /\ call' \in [Slot -> CallType] /\ call'[c].approved = value /\ SameBut(c, {"approved"})
  <1> DEFINE m == [call[c] EXCEPT !.approved = value]
  <1>1. call \in [Slot -> CallType] /\ call[c] \in CallType
    BY DEF Typed
  <1>2. m \in CallType /\ \A d \in Slot : call'[d] = IF d = c THEN m ELSE call[d]
    <2>1. m \in CallType
      BY <1>1 DEF CallType
    <2>2. QED BY <1>1, <2>1 DEF Keep
  <1>3. call' \in [Slot -> CallType]
    <2> HIDE DEF m
    <2>1. QED BY <1>1, <1>2 DEF Keep
  <1>4. SameBut(c, {"approved"}) /\ call'[c].approved = value
    BY <1>1, <1>2 DEF SameBut, CallType
  <1>5. QED BY <1>3, <1>4

-----------------------------------------------------------------------------
(* The steps that leave the log alone. *)
LEMMA QuietStep ==
  ASSUME BridgeInv, NEW c \in Slot, log' = log, overlapped => overlapped', Typed',
         \A d \in Slot \ {c} : pc'[d] = pc[d] /\ call'[d] = call[d] /\ answer'[d] = answer[d],
         pc'[c] \notin {"log attempt", "log outcome"}, Follows(c)'
  PROVE  BridgeInv'
  <1>1. \A d \in Slot \ {c} : Follows(d)'
    BY OthersFollow DEF BridgeInv, Grown
  <1>2. AppendsInTurn'
    <2>1. Readable' <=> Readable
      BY DEF Readable
    <2>2. LastRecord' = LastRecord /\ \A i \in DOMAIN log : Verifies(i)' <=> Verifies(i)
      BY DEF LastRecord, Verifies
    <2>3. \A d \in Slot : Appending(d)' => d # c /\ Appending(d) /\ call'[d] = call[d]
      BY DEF Appending
    <2>4. QED BY <2>1, <2>2, <2>3 DEF BridgeInv, AppendsInTurn
  <1>3. QED BY <1>1, <1>2 DEF BridgeInv

LEMMA StillLogged ==
  ASSUME NEW c \in Slot, log' = log, call'[c].id = call[c].id
  PROVE  /\ Logged("attempt", call[c].id, "none") => Logged("attempt", call[c].id, "none")'
         /\ answer'[c] = answer[c] /\ Logged("outcome", call[c].id, answer[c])
            => Logged("outcome", call[c].id, answer[c])'
  BY LoggedIsTold

LEMMA BeginKeeps == ASSUME BridgeAssumption, BridgeInv, NEW c \in Slot, Begin(c) PROVE BridgeInv'
  <1>1. PICK r \in Request :
          call' = [call EXCEPT ![c] = [NoCall EXCEPT !.id = calls + 1, !.req = r]]
    BY DEF Begin
  <1>2. calls + 1 \in 0..MaxCalls
    BY Constants DEF Begin, BridgeInv, Typed
  <1>3. [NoCall EXCEPT !.id = calls + 1, !.req = r] \in CallType
    BY <1>2 DEF NoCall, CallType
  <1>4. call' \in [Slot -> CallType] /\ call'[c].child = "none" /\ call'[c].how = "none"
    BY <1>1, <1>3 DEF BridgeInv, Typed, NoCall
  <1>5. Typed'
    BY <1>2, <1>4 DEF Begin, Goto, Answer, BridgeInv, Typed, Steps
  <1>6. pc'[c] = "attempt" /\ answer'[c] = "none"
    BY DEF Begin, Goto, Answer, BridgeInv, Typed
  <1>7. Follows(c)'
    BY <1>4, <1>6 DEF Follows, ResultFits, Started, Announced, Ending, Outcomes, Denials
  <1>8. QED BY <1>1, <1>5, <1>6, <1>7, QuietStep DEF Begin, Goto, Answer, BridgeInv, Typed

(* However a call comes to its end, the end fits what became of it. *)
LEMMA FinishKeeps ==
  ASSUME BridgeInv, NEW c \in Slot, NEW how \in Outcomes, Finish(c, how),
         pc[c] \in {"check", "consent", "spawn", "run"},
         how = "completed" => call[c].child = "short" /\ ~ call[c].late,
         how \in Denials => ~ Started(c),
         UNCHANGED <<up, log, answer, calls, faults, overlapped>>
  PROVE  BridgeInv'
  <1>1. Follows(c) /\ Typed /\ Logged("attempt", call[c].id, "none") /\ answer[c] = "none"
    BY DEF BridgeInv, Follows, Announced, Ending
  <1>2. Keep(c, "how", how)
    BY DEF Finish
  <1>3. call' \in [Slot -> CallType] /\ call'[c].how = how /\ SameBut(c, {"how"})
    BY <1>1, <1>2, KeepHow
  <1>4. pc' = [pc EXCEPT ![c] = "outcome"]
    BY DEF Finish, Goto
  <1>5. Typed'
    BY <1>1, <1>3, <1>4 DEF Typed, Steps
  <1>6. /\ pc'[c] = "outcome" /\ answer'[c] = "none"
        /\ call'[c].id = call[c].id /\ call'[c].child = call[c].child
           /\ call'[c].late = call[c].late
        /\ call'[c].req = call[c].req /\ call'[c].approved = call[c].approved
    BY <1>1, <1>3, <1>4 DEF Typed, SameBut
  <1>7. Logged("attempt", call[c].id, "none")'
    BY <1>1, <1>6, StillLogged
  <1>8. Started(c)' => Permitted(c)' /\ Consented(c)'
    BY <1>1, <1>6 DEF Follows, Started, Permitted, Consented
  <1>9. ResultFits(c)'
    BY <1>3, <1>6 DEF ResultFits, Started, Ending
  <1>10. Follows(c)'
    BY <1>6, <1>7, <1>8, <1>9 DEF Follows, Ending, Outcomes, Denials
  <1>11. QED BY <1>1, <1>3, <1>4, <1>5, <1>6, <1>10, QuietStep DEF SameBut, Typed

(* Syntax, paths, policy: what gets past them is permitted, and goes to the *)
(* dialog if it needs a consent. *)
LEMMA CheckKeeps == ASSUME BridgeInv, NEW c \in Slot, Check(c) PROVE BridgeInv'
  <1>1. /\ pc[c] = "check" /\ Follows(c) /\ Typed
        /\ Logged("attempt", call[c].id, "none") /\ ~ Started(c) /\ answer[c] = "none"
    BY DEF Check, At, BridgeInv, Follows, Announced, Ending
  <1>2. UNCHANGED <<up, log, answer, calls, faults, overlapped>>
    BY DEF Check
  <1>3. ASSUME NEW how \in Denials, Finish(c, how) PROVE BridgeInv'
    BY <1>1, <1>2, <1>3, FinishKeeps DEF Outcomes, Denials
  <1>4. ASSUME Permitted(c), Goto(c, IF Decide(call[c].req) = "consent" \/ call[c].req.shell
                                    THEN "consent" ELSE "spawn"), UNCHANGED call
        PROVE  BridgeInv'
    <2>1. /\ pc'[c] \in {"consent", "spawn"} /\ answer'[c] = "none" /\ call'[c] = call[c]
          /\ pc'[c] = "spawn" => Decide(call[c].req) # "consent" /\ ~ call[c].req.shell
      BY <1>1, <1>2, <1>4 DEF Goto, Typed
    <2>2. Typed'
      BY <1>1, <1>2, <1>4 DEF Goto, Typed, Steps
    <2>3. Logged("attempt", call[c].id, "none")'
      BY <1>1, <1>2, <2>1, StillLogged
    <2>4. Permitted(c)' /\ ~ Started(c)' /\ (pc'[c] = "spawn" => Consented(c)')
      BY <1>1, <1>4, <2>1 DEF Permitted, Started, Consented
    <2>5. Follows(c)'
      BY <1>1, <2>1, <2>3, <2>4 DEF Follows, ResultFits, Ending, Outcomes, Denials
    <2>6. QED BY <1>1, <1>2, <1>4, <2>1, <2>2, <2>5, QuietStep DEF Goto, Typed
  <1>5. Decide(call[c].req) # "deny" => Permitted(c)
    BY DEF Decide, Matching, Permitted
  <1>6. QED BY <1>3, <1>4, <1>5 DEF Check, Denials

LEMMA ConsentKeeps == ASSUME BridgeInv, NEW c \in Slot, Consent(c) PROVE BridgeInv'
  <1>1. /\ pc[c] = "consent" /\ Follows(c) /\ Typed /\ Permitted(c)
        /\ Logged("attempt", call[c].id, "none") /\ ~ Started(c) /\ answer[c] = "none"
    BY DEF Consent, At, BridgeInv, Follows, Announced, Ending
  <1>2. UNCHANGED <<up, log, answer, calls, faults, overlapped>>
    BY DEF Consent
  <1>3. ASSUME Keep(c, "approved", TRUE), Goto(c, "spawn") PROVE BridgeInv'
    <2>1. call' \in [Slot -> CallType] /\ call'[c].approved = TRUE /\ SameBut(c, {"approved"})
      BY <1>1, <1>3, KeepApproved
    <2>2. /\ pc'[c] = "spawn" /\ answer'[c] = "none" /\ call'[c].id = call[c].id
          /\ call'[c].how = "none" /\ call'[c].child = call[c].child /\ call'[c].req = call[c].req
      BY <1>1, <1>2, <1>3, <2>1 DEF Goto, Typed, SameBut, Follows, ResultFits, Ending
    <2>3. Typed'
      BY <1>1, <1>2, <1>3, <2>1 DEF Goto, Typed, Steps
    <2>4. Logged("attempt", call[c].id, "none")'
      BY <1>1, <1>2, <2>2, StillLogged
    <2>5. Permitted(c)' /\ ~ Started(c)' /\ Consented(c)'
      BY <1>1, <2>1, <2>2 DEF Permitted, Started, Consented
    <2>6. Follows(c)'
      BY <2>2, <2>4, <2>5 DEF Follows, ResultFits, Ending, Outcomes, Denials
    <2>7. QED BY <1>1, <1>2, <1>3, <2>1, <2>2, <2>3, <2>6, QuietStep DEF Goto, Typed, SameBut
  <1>4. ASSUME Finish(c, "consent_denied") PROVE BridgeInv'
    BY <1>1, <1>2, <1>4, FinishKeeps DEF Outcomes, Denials
  <1>5. QED BY <1>3, <1>4 DEF Consent

LEMMA SpawnKeeps == ASSUME BridgeInv, NEW c \in Slot, Spawn(c) PROVE BridgeInv'
  <1>1. /\ pc[c] = "spawn" /\ Follows(c) /\ Typed /\ Permitted(c) /\ Consented(c)
        /\ Logged("attempt", call[c].id, "none") /\ ~ Started(c) /\ answer[c] = "none"
    BY DEF Spawn, At, BridgeInv, Follows, Announced, Ending
  <1>2. UNCHANGED <<up, log, answer, calls, faults, overlapped>>
    BY DEF Spawn
  <1>3. ASSUME NEW how \in {"policy_denied", "sandbox_unavailable", "spawn_error"}, Finish(c, how)
        PROVE  BridgeInv'
    BY <1>1, <1>2, <1>3, FinishKeeps DEF Outcomes, Denials
  <1>4. ASSUME NEW k \in Child, Keep(c, "child", k), Goto(c, "run") PROVE BridgeInv'
    <2>1. call' \in [Slot -> CallType] /\ call'[c].child = k /\ SameBut(c, {"child"})
      BY <1>1, <1>4, KeepChild
    <2>2. /\ pc'[c] = "run" /\ answer'[c] = "none" /\ call'[c].id = call[c].id
          /\ call'[c].how = "none" /\ call'[c].approved = call[c].approved
             /\ call'[c].req = call[c].req
      BY <1>1, <1>2, <1>4, <2>1 DEF Goto, Typed, SameBut, Follows, ResultFits, Ending
    <2>3. Typed'
      BY <1>1, <1>2, <1>4, <2>1 DEF Goto, Typed, Steps
    <2>4. Logged("attempt", call[c].id, "none")'
      BY <1>1, <1>2, <2>2, StillLogged
    <2>5. Permitted(c)' /\ Consented(c)'
      BY <1>1, <2>2 DEF Permitted, Consented
    <2>6. Follows(c)'
      BY <2>2, <2>4, <2>5 DEF Follows, ResultFits, Ending, Outcomes, Denials
    <2>7. QED BY <1>1, <1>2, <1>4, <2>1, <2>2, <2>3, <2>6, QuietStep DEF Goto, Typed, SameBut
  <1>5. QED BY <1>3, <1>4 DEF Spawn

LEMMA SpawnThrowsKeeps == ASSUME BridgeInv, NEW c \in Slot, SpawnThrows(c) PROVE BridgeInv'
  <1>1. /\ pc[c] = "spawn" /\ Follows(c) /\ Typed /\ ~ Started(c) /\ call[c].how = "none"
        /\ Logged("attempt", call[c].id, "none")
    BY DEF SpawnThrows, At, BridgeInv, Follows, ResultFits, Announced, Ending
  <1>2. Throw(c) /\ UNCHANGED <<up, log, call, calls, faults, overlapped>>
    BY DEF SpawnThrows
  <1>3. Typed'
    BY <1>1, <1>2 DEF Throw, Goto, Answer, Typed, Steps
  <1>4. /\ pc'[c] = "idle" /\ answer'[c] = "error" /\ call'[c] = call[c]
        /\ \A d \in Slot \ {c} : pc'[d] = pc[d] /\ call'[d] = call[d] /\ answer'[d] = answer[d]
    BY <1>1, <1>2 DEF Throw, Goto, Answer, Typed
  <1>5. Logged("attempt", call[c].id, "none")'
    BY <1>1, <1>2, <1>4, StillLogged
  <1>6. ~ Started(c)'
    BY <1>1, <1>4 DEF Started
  <1>7. Follows(c)'
    BY <1>1, <1>4, <1>5, <1>6 DEF Follows, ResultFits, Announced, Ending, Outcomes, Denials
  <1>8. QED BY <1>2, <1>3, <1>4, <1>7, QuietStep

LEMMA TimeoutKeeps == ASSUME BridgeInv, NEW c \in Slot, Timeout(c) PROVE BridgeInv'
  <1>1. /\ pc[c] = "run" /\ Follows(c) /\ Typed /\ Permitted(c) /\ Consented(c)
        /\ Logged("attempt", call[c].id, "none") /\ answer[c] = "none" /\ call[c].how = "none"
    BY DEF Timeout, At, BridgeInv, Follows, ResultFits, Announced, Ending
  <1>2. UNCHANGED <<up, log, pc, answer, calls, faults, overlapped>> /\ Keep(c, "late", TRUE)
    BY DEF Timeout
  <1>3. call' \in [Slot -> CallType] /\ call'[c].late = TRUE /\ SameBut(c, {"late"})
    BY <1>1, <1>2, KeepLate
  <1>4. /\ call'[c].id = call[c].id /\ call'[c].how = "none" /\ call'[c].req = call[c].req
        /\ call'[c].approved = call[c].approved
    BY <1>1, <1>3 DEF SameBut
  <1>5. Typed'
    BY <1>1, <1>2, <1>3 DEF Typed
  <1>6. Logged("attempt", call[c].id, "none")'
    BY <1>1, <1>2, <1>4, StillLogged
  <1>7. Permitted(c)' /\ Consented(c)'
    BY <1>1, <1>4 DEF Permitted, Consented
  <1>8. Follows(c)'
    BY <1>1, <1>2, <1>4, <1>6, <1>7 DEF Follows, ResultFits, Ending, Outcomes, Denials
  <1>9. QED BY <1>1, <1>2, <1>3, <1>5, <1>8, QuietStep DEF SameBut

LEMMA CloseKeeps == ASSUME BridgeInv, NEW c \in Slot, Close(c) PROVE BridgeInv'
  <1>1. pc[c] = "run" /\ Ends(c) /\ Typed
    BY DEF Close, At, BridgeInv
  <1>2. Finish(c, Result(c)) /\ UNCHANGED <<up, log, answer, calls, faults, overlapped>>
    BY DEF Close
  <1>3. /\ Result(c) \in Outcomes \ Denials
        /\ Result(c) = "completed" => call[c].child = "short" /\ ~ call[c].late
    BY <1>1 DEF Result, Ends, Outcomes, Denials
  <1>4. QED BY <1>1, <1>2, <1>3, FinishKeeps

-----------------------------------------------------------------------------
(* The steps that read the log and add to it. *)
LEMMA ReadLogKeeps ==
  ASSUME BridgeInv, NEW c \in Slot, NEW step \in {"attempt", "outcome"}, NEW next \in Steps,
         step = "attempt" => next = "log attempt", step = "outcome" => next = "log outcome",
         ReadLog(c, step, next)
  PROVE  BridgeInv'
  <1>1. pc[c] = step /\ Follows(c) /\ Typed /\ answer[c] = "none" /\ AppendsInTurn
    BY DEF ReadLog, At, BridgeInv, Follows
  <1>2. /\ UNCHANGED <<up, log, calls, faults>>
        /\ overlapped' = (overlapped \/ \E d \in Slot \ {c} : Appending(d))
    BY DEF ReadLog
  <1>3. ASSUME Readable, Keep(c, "last", LastRecord), Goto(c, next), UNCHANGED answer
        PROVE  BridgeInv'
    <2>1. LastRecord \in Line \cup {None}
      <3>1. ASSUME log # <<>> PROVE log[Len(log)] \in Line
        <4>1. log \in Seq(Line \cup {Torn})
          BY <1>1 DEF Typed
        <4>2. Len(log) \in DOMAIN log
          BY <3>1, <4>1, LastIndex
        <4>3. log[Len(log)] \in Line \cup {Torn}
          BY <4>1, <4>2, ElementsAre
        <4>4. QED BY <1>3, <4>2, <4>3 DEF Readable
      <3>2. QED BY <3>1 DEF LastRecord
    <2>2. call' \in [Slot -> CallType] /\ call'[c].last = LastRecord /\ SameBut(c, {"last"})
      BY <1>1, <1>3, <2>1, KeepLast
    <2>3. /\ pc'[c] = next /\ answer'[c] = "none" /\ call'[c].id = call[c].id
          /\ call'[c].how = call[c].how /\ call'[c].child = call[c].child
             /\ call'[c].late = call[c].late
          /\ call'[c].req = call[c].req /\ call'[c].approved = call[c].approved
      BY <1>1, <1>3, <2>2 DEF Goto, Typed, SameBut
    <2>4. \A d \in Slot \ {c} : pc'[d] = pc[d] /\ call'[d] = call[d] /\ answer'[d] = answer[d]
      BY <1>1, <1>3, <2>2 DEF Goto, Typed, SameBut
    <2>5. Typed'
      BY <1>1, <1>2, <1>3, <2>2 DEF Goto, Typed
    <2>6. Logged("attempt", call[c].id, "none") => Logged("attempt", call[c].id, "none")'
      BY <1>2, <2>3, StillLogged
    <2>7. Started(c)' => Started(c) /\ Permitted(c)' /\ Consented(c)'
      BY <1>1, <2>3 DEF Follows, Started, Permitted, Consented
    <2>8. ResultFits(c)'
      BY <1>1, <2>3 DEF Follows, ResultFits, Ending, Started
    <2>9. Follows(c)'
      BY <1>1, <2>3, <2>6, <2>7, <2>8 DEF Follows, Announced, Ending, Outcomes, Denials
    <2>10. \A d \in Slot \ {c} : Follows(d)'
      BY <1>1, <1>2, <2>4, OthersFollow DEF BridgeInv, Grown
    <2>11. AppendsInTurn'
      <3>1. SUFFICES ASSUME ~ overlapped' PROVE AppendsInTurn'
        BY DEF AppendsInTurn
      <3>2. \A d \in Slot \ {c} : ~ Appending(d)'
        BY <1>2, <2>4, <3>1 DEF Appending
      <3>3. Readable' /\ LastRecord' = LastRecord
        BY <1>2, <1>3 DEF Readable, LastRecord
      <3>4. \A i \in DOMAIN log' : Verifies(i)' \/ (log'[i] = Torn /\ i = Len(log'))
        BY <1>1, <1>2, <3>1 DEF AppendsInTurn, Verifies
      <3>5. QED BY <2>2, <3>2, <3>3, <3>4 DEF AppendsInTurn
    <2>12. QED BY <2>5, <2>9, <2>10, <2>11 DEF BridgeInv
  <1>4. ASSUME Throw(c), UNCHANGED call PROVE BridgeInv'
    <2>1. /\ pc'[c] = "idle" /\ answer'[c] = "error" /\ call'[c] = call[c]
          /\ \A d \in Slot \ {c} : pc'[d] = pc[d] /\ call'[d] = call[d] /\ answer'[d] = answer[d]
      BY <1>1, <1>4 DEF Throw, Goto, Answer, Typed
    <2>2. Typed'
      BY <1>1, <1>2, <1>4 DEF Throw, Goto, Answer, Typed, Steps
    <2>3. Logged("attempt", call[c].id, "none") => Logged("attempt", call[c].id, "none")'
      BY <1>2, <2>1, StillLogged
    <2>4. Started(c)' => Started(c) /\ Permitted(c)' /\ Consented(c)'
      BY <1>1, <2>1 DEF Follows, Started, Permitted, Consented
    <2>5. Follows(c)'
      BY <1>1, <2>1, <2>3, <2>4 DEF Follows, ResultFits, Announced, Ending, Outcomes, Denials
    <2>6. QED BY <1>2, <2>1, <2>2, <2>5, QuietStep
  <1>5. QED BY <1>3, <1>4 DEF ReadLog

LEMMA RecordIsLine ==
  ASSUME Typed, NEW c \in Slot, NEW type \in Types
  PROVE  NewRecord(c, type) \in Line
  <1>1. /\ call[c].id \in 0..MaxCalls /\ call[c].last \in Line \cup {None}
        /\ call[c].how \in Outcomes \cup {"none"}
    BY FieldsOfCall DEF Typed
  <1>2. call[c].last # None => /\ call[c].last.seq + 1 \in Nat
                               /\ Hash(call[c].last) \in Types \X (0..MaxCalls)
    BY <1>1, FieldsOfLine DEF Hash
  <1>3. QED BY <1>1, <1>2 DEF NewRecord, Line

(* A record that is added is logged, and verifies if its writer has read    *)
(* the last one. *)
LEMMA AppendingAdds ==
  ASSUME BridgeAssumption, BridgeInv, NEW c \in Slot, Appending(c), NEW type \in Types,
         log' = Written(c, type), overlapped' = overlapped, ~ Appending(c)',
         \A d \in Slot \ {c} : pc'[d] = pc[d] /\ call'[d] = call[d]
  PROVE  /\ Grown /\ log' \in Seq(Line \cup {Torn}) /\ AppendsInTurn'
         /\ Tells(log', type, call[c].id, call[c].how)
  <1> DEFINE r == NewRecord(c, type)
  <1>1. Typed /\ AppendsInTurn /\ r \in Line
    BY RecordIsLine DEF BridgeInv
  <1>2. r.type = type /\ r.id = call[c].id /\ r.how = call[c].how
        /\ r.seq = (IF call[c].last = None THEN 1 ELSE call[c].last.seq + 1)
        /\ r.prev = (IF call[c].last = None THEN None ELSE Hash(call[c].last))
    BY DEF NewRecord
  <1>3. log' = IF Readable THEN Append(log, r) ELSE log
    BY DEF Written, Extended
  <1> HIDE DEF r
  <1>a. PICK n \in Nat : n = Len(log) + 1
    BY <1>1, NewLine DEF Typed
  <1>4. Grown /\ log' \in Seq(Line \cup {Torn})
    BY <1>1, <1>3, NewLine DEF Grown, Typed
  <1>5. Tells(log', type, call[c].id, call[c].how)
    <2>1. CASE Readable
      <3>1. n \in DOMAIN log' /\ log'[n] = r
        BY <1>a, <1>1, <1>3, <2>1, NewLine DEF Typed
      <3>2. QED BY <1>2, <3>1 DEF Tells
    <2>2. CASE ~ Readable
      BY <1>3, <2>2 DEF Tells, Readable
    <2>3. QED BY <2>1, <2>2
  <1>6. AppendsInTurn'
    <2>1. SUFFICES ASSUME ~ overlapped' PROVE AppendsInTurn'
      BY DEF AppendsInTurn
    <2>2. Readable /\ call[c].last = LastRecord /\ \A d \in Slot \ {c} : ~ Appending(d)
      BY <1>1, <2>1 DEF AppendsInTurn
    <2>3. \A d \in Slot : ~ Appending(d)'
      BY <2>2 DEF Appending
    <2>4. /\ log' = Append(log, r) /\ Len(log) \in Nat /\ DOMAIN log = 1..Len(log)
          /\ DOMAIN log' = 1..n /\ log'[n] = r
          /\ \A i \in DOMAIN log : log'[i] = log[i] /\ log[i] \in Line
      BY <1>a, <1>1, <1>3, <2>2, NewLine DEF Typed, Readable
    <2>5. \A i \in DOMAIN log : Verifies(i)
      BY <1>1, <2>1, <2>2 DEF AppendsInTurn, Readable
    <2>6. ASSUME NEW i \in DOMAIN log PROVE Verifies(i)'
      <3>1. i # 1 => i - 1 \in DOMAIN log
        BY <2>4
      <3>2. QED BY <2>4, <2>5, <3>1 DEF Verifies
    <2>7. Verifies(n)'
      <3>1. CASE log = <<>>
        <4>1. n = 1 /\ call[c].last = None
          BY <1>a, <1>1, <2>2, <3>1, LastIndex DEF Typed, LastRecord
        <4>2. r.seq = 1 /\ r.prev = None /\ r # Torn
          <5>1. r.seq = 1 /\ r.prev = None
            BY <1>2, <4>1
          <5>2. QED BY <1>1, <5>1, LinesAreLines
        <4>3. QED BY <2>4, <4>1, <4>2 DEF Verifies
      <3>2. CASE log # <<>>
        <4>1. Len(log) \in DOMAIN log /\ n # 1 /\ n - 1 = Len(log) /\ log'[n - 1] = log[Len(log)]
          <5>1. Len(log) \in DOMAIN log /\ Len(log) # 0
            BY <1>1, <3>2, LastIndex DEF Typed
          <5>2. log'[Len(log)] = log[Len(log)] /\ n - 1 = Len(log) /\ n # 1
            BY <1>a, <2>4, <5>1
          <5>3. QED BY <5>1, <5>2
        <4>2. call[c].last = log[Len(log)] /\ call[c].last # None /\ log[Len(log)].seq = Len(log)
          BY <2>2, <2>4, <2>5, <3>2, <4>1, Constants DEF LastRecord, Verifies
        <4>3. r.seq = n /\ r.prev = Hash(log'[n - 1]) /\ r # Torn
          <5>1. r.seq = Len(log) + 1 /\ r.prev = Hash(log[Len(log)])
            BY <1>2, <4>2
          <5>2. r.seq = n /\ r.prev = Hash(log'[n - 1])
            BY <1>a, <4>1, <5>1
          <5>3. QED BY <1>1, <5>2, LinesAreLines
        <4>4. QED BY <2>4, <4>1, <4>3 DEF Verifies
      <3>3. QED BY <3>1, <3>2
    <2>8. \A i \in DOMAIN log' : Verifies(i)'
      <3>1. SUFFICES ASSUME NEW i \in 1..n PROVE Verifies(i)'
        BY <2>4
      <3>2. i \in 1..Len(log) \/ i = n
        BY <1>a, <2>4
      <3>3. QED BY <2>4, <2>6, <2>7, <3>2
    <2>9. QED BY <2>3, <2>8 DEF AppendsInTurn
  <1>7. QED BY <1>4, <1>5, <1>6

LEMMA WritingStep ==
  ASSUME BridgeInv, NEW c \in Slot, Grown, Typed', AppendsInTurn', Follows(c)',
         \A d \in Slot \ {c} : pc'[d] = pc[d] /\ call'[d] = call[d] /\ answer'[d] = answer[d]
  PROVE  BridgeInv'
  <1>1. \A d \in Slot \ {c} : Follows(d)'
    BY OthersFollow DEF BridgeInv
  <1>2. QED BY <1>1 DEF BridgeInv

LEMMA LogAttemptKeeps ==
  ASSUME BridgeAssumption, BridgeInv, NEW c \in Slot, LogAttempt(c) PROVE BridgeInv'
  <1>1. /\ pc[c] = "log attempt" /\ Follows(c) /\ Typed /\ Appending(c)
        /\ ~ Started(c) /\ answer[c] = "none" /\ call[c].how = "none"
    BY DEF LogAttempt, At, BridgeInv, Follows, ResultFits, Ending, Appending
  <1>2. /\ log' = Written(c, "attempt") /\ Keep(c, "last", None) /\ Goto(c, "check")
        /\ UNCHANGED <<up, answer, calls, faults, overlapped>>
    BY DEF LogAttempt
  <1>3. call' \in [Slot -> CallType] /\ SameBut(c, {"last"})
    BY <1>1, <1>2, KeepLast
  <1>4. /\ pc'[c] = "check" /\ answer'[c] = "none" /\ call'[c].id = call[c].id
        /\ call'[c].how = "none" /\ call'[c].child = call[c].child
        /\ \A d \in Slot \ {c} : pc'[d] = pc[d] /\ call'[d] = call[d] /\ answer'[d] = answer[d]
    BY <1>1, <1>2, <1>3 DEF Goto, Typed, SameBut
  <1>5. ~ Appending(c)'
    BY <1>4 DEF Appending
  <1>6. /\ Grown /\ log' \in Seq(Line \cup {Torn}) /\ AppendsInTurn'
        /\ Tells(log', "attempt", call[c].id, call[c].how)
    BY <1>1, <1>2, <1>4, <1>5, AppendingAdds DEF Types
  <1>7. Typed'
    BY <1>1, <1>2, <1>3, <1>6 DEF Goto, Typed, Steps
  <1>8. Logged("attempt", call[c].id, "none")'
    BY <1>1, <1>4, <1>6, LoggedIsTold
  <1>9. Follows(c)'
    BY <1>1, <1>4, <1>8 DEF Follows, ResultFits, Started, Ending, Outcomes, Denials
  <1>10. QED BY <1>4, <1>6, <1>7, <1>9, WritingStep

(* The answer is what the outcome's record says. *)
LEMMA LogOutcomeKeeps ==
  ASSUME BridgeAssumption, BridgeInv, NEW c \in Slot, LogOutcome(c) PROVE BridgeInv'
  <1>1. /\ pc[c] = "log outcome" /\ Follows(c) /\ Typed /\ Appending(c)
        /\ ResultFits(c) /\ call[c].how \in Outcomes /\ Logged("attempt", call[c].id, "none")
    BY DEF LogOutcome, At, BridgeInv, Follows, ResultFits, Ending, Announced, Appending
  <1>2. /\ log' = Written(c, "outcome") /\ Keep(c, "last", None) /\ Goto(c, "idle")
        /\ Answer(c, call[c].how) /\ UNCHANGED <<up, calls, faults, overlapped>>
    BY DEF LogOutcome
  <1>3. call' \in [Slot -> CallType] /\ SameBut(c, {"last"})
    BY <1>1, <1>2, KeepLast
  <1>4. /\ pc'[c] = "idle" /\ answer'[c] = call[c].how /\ call'[c].id = call[c].id
        /\ call'[c].child = call[c].child /\ call'[c].late = call[c].late
        /\ call'[c].req = call[c].req /\ call'[c].approved = call[c].approved
        /\ \A d \in Slot \ {c} : pc'[d] = pc[d] /\ call'[d] = call[d] /\ answer'[d] = answer[d]
    BY <1>1, <1>2, <1>3 DEF Goto, Answer, Typed, SameBut
  <1>5. ~ Appending(c)'
    BY <1>4 DEF Appending
  <1>6. /\ Grown /\ log' \in Seq(Line \cup {Torn}) /\ AppendsInTurn'
        /\ Tells(log', "outcome", call[c].id, call[c].how)
    BY <1>1, <1>2, <1>4, <1>5, AppendingAdds DEF Types
  <1>7. Typed'
    BY <1>1, <1>2, <1>3, <1>6 DEF Goto, Answer, Typed, Steps
  <1>8. Tells(log', "attempt", call[c].id, "none")
    BY <1>1, <1>6, LoggedIsTold, LoggedStays
  <1>9. Logged("attempt", call[c].id, "none")' /\ Logged("outcome", call[c].id, answer[c])'
    BY <1>4, <1>6, <1>8, LoggedIsTold
  <1>10. Started(c)' => Started(c) /\ Permitted(c)' /\ Consented(c)'
    BY <1>1, <1>4 DEF Follows, Started, Permitted, Consented
  <1>11. Follows(c)'
    BY <1>1, <1>4, <1>9, <1>10 DEF Follows, ResultFits, Started, Ending
  <1>12. QED BY <1>4, <1>6, <1>7, <1>11, WritingStep

-----------------------------------------------------------------------------
(* Faults: a torn line can only be the last. *)
LEMMA TornIsLast ==
  ASSUME Typed, AppendsInTurn, Readable, log' = Append(log, Torn), ~ overlapped
  PROVE  \A i \in DOMAIN log' : Verifies(i)' \/ (log'[i] = Torn /\ i = Len(log'))
  <1>1. /\ Len(log) \in Nat /\ DOMAIN log = 1..Len(log) /\ DOMAIN log' = 1..(Len(log) + 1)
        /\ Len(log') = Len(log) + 1 /\ log'[Len(log) + 1] = Torn
        /\ \A i \in DOMAIN log : log'[i] = log[i]
    BY NewLine DEF Typed
  <1>2. \A i \in DOMAIN log : Verifies(i)
    BY DEF AppendsInTurn, Readable
  <1>3. ASSUME NEW i \in DOMAIN log PROVE Verifies(i)'
    <2>1. i # 1 => i - 1 \in DOMAIN log
      BY <1>1
    <2>2. QED BY <1>1, <1>2, <2>1 DEF Verifies
  <1>4. SUFFICES ASSUME NEW i \in 1..(Len(log) + 1)
                 PROVE  Verifies(i)' \/ (log'[i] = Torn /\ i = Len(log'))
    BY <1>1
  <1>5. i \in 1..Len(log) \/ i = Len(log) + 1
    BY <1>1
  <1>6. QED BY <1>1, <1>3, <1>5

LEMMA FaultyLog ==
  ASSUME Typed, AppendsInTurn, Grown, log' # log => log' = Append(log, Torn),
         overlapped' = overlapped,
         ~ overlapped => \A d \in Slot : ~ Appending(d)'
  PROVE  AppendsInTurn' /\ log' \in Seq(Line \cup {Torn})
  <1>1. log' \in Seq(Line \cup {Torn})
    BY NewLine DEF Typed, Grown
  <1>2. SUFFICES ASSUME ~ overlapped' PROVE AppendsInTurn'
    BY <1>1 DEF AppendsInTurn
  <1>3. CASE log' = log
    BY <1>2, <1>3 DEF AppendsInTurn, Verifies
  <1>4. CASE log' # log
    <2>1. Readable
      BY <1>4 DEF Grown
    <2>2. QED BY <1>2, <1>4, <2>1, TornIsLast DEF AppendsInTurn
  <1>5. QED BY <1>3, <1>4

LEMMA AppendFailsKeeps ==
  ASSUME BridgeAssumption, BridgeInv, NEW c \in Slot, AppendFails(c) PROVE BridgeInv'
  <1>1. /\ Appending(c) /\ Follows(c) /\ Typed /\ AppendsInTurn /\ answer[c] = "none"
        /\ pc[c] \in {"log attempt", "log outcome"}
    BY DEF AppendFails, BridgeInv, Follows, Appending
  <1>2. /\ faults < MaxFaults /\ faults' = faults + 1 /\ Throw(c)
        /\ log' \in {log, IF Readable THEN Append(log, Torn) ELSE log}
        /\ UNCHANGED <<up, call, calls, overlapped>>
    BY DEF AppendFails
  <1>3. Grown /\ (log' # log => log' = Append(log, Torn))
    BY <1>2 DEF Grown
  <1>4. /\ pc'[c] = "idle" /\ answer'[c] = "error" /\ call'[c] = call[c]
        /\ \A d \in Slot \ {c} : pc'[d] = pc[d] /\ call'[d] = call[d] /\ answer'[d] = answer[d]
    BY <1>1, <1>2 DEF Throw, Goto, Answer, Typed
  <1>5. ~ overlapped => \A d \in Slot : ~ Appending(d)'
    BY <1>1, <1>4 DEF AppendsInTurn, Appending
  <1>6. AppendsInTurn' /\ log' \in Seq(Line \cup {Torn})
    BY <1>1, <1>2, <1>3, <1>5, FaultyLog
  <1>7. Typed'
    <2>1. faults' \in 0..MaxFaults
      <3>1. faults < MaxFaults /\ faults' = faults + 1
        BY <1>2
      <3>2. faults \in 0..MaxFaults /\ MaxFaults \in Nat
        BY <1>1, Constants DEF Typed
      <3>3. QED BY <3>1, <3>2
    <2>2. QED BY <1>1, <1>2, <1>6, <2>1 DEF Throw, Goto, Answer, Typed, Steps
  <1>8. Logged("attempt", call[c].id, "none") => Logged("attempt", call[c].id, "none")'
    BY <1>1, <1>3, <1>4, LoggedIsTold, LoggedStays
  <1>9. Started(c)' => Started(c) /\ Permitted(c)' /\ Consented(c)'
    BY <1>1, <1>4 DEF Follows, Started, Permitted, Consented
  <1>10. Follows(c)'
    BY <1>1, <1>4, <1>8, <1>9 DEF Follows, ResultFits, Announced, Ending, Outcomes, Denials
  <1>11. QED BY <1>3, <1>4, <1>6, <1>7, <1>10, WritingStep

LEMMA DieKeeps == ASSUME BridgeAssumption, BridgeInv, Die PROVE BridgeInv'
  <1>1. Typed /\ AppendsInTurn /\ \A c \in Slot : Follows(c)
    BY DEF BridgeInv
  <1>2. Grown /\ (log' # log => log' = Append(log, Torn))
    BY DEF Die, Grown
  <1>3. \A c \in Slot : /\ pc'[c] = "idle"
                        /\ pc[c] = "idle" => call'[c] = call[c] /\ answer'[c] = answer[c]
                        /\ pc[c] # "idle" => call'[c] = NoCall /\ answer'[c] = "lost"
    BY DEF Die
  <1>4. \A c \in Slot : ~ Appending(c)'
    BY <1>3 DEF Appending
  <1>5. AppendsInTurn' /\ log' \in Seq(Line \cup {Torn})
    BY <1>1, <1>2, <1>4, FaultyLog DEF Die
  <1>6. NoCall \in CallType
    <2>1. 0 \in 0..MaxCalls
      BY Constants
    <2>2. QED BY <2>1 DEF NoCall, CallType
  <1>7. Typed'
    <2>1. call' \in [Slot -> CallType]
      BY <1>1, <1>6 DEF Die, Typed
    <2>2. faults' \in 0..MaxFaults
      BY <1>1, Constants DEF Die, Typed
    <2>3. pc' \in [Slot -> Steps] /\ answer' \in [Slot -> Outcomes \cup {"none", "error", "lost"}]
      BY <1>1 DEF Die, Typed, Steps
    <2>4. QED BY <1>1, <1>5, <2>1, <2>2, <2>3 DEF Die, Typed
  <1>8. ASSUME NEW c \in Slot PROVE Follows(c)'
    <2>1. CASE pc[c] = "idle"
      BY <1>1, <1>2, <1>3, <2>1, OthersFollow
    <2>2. CASE pc[c] # "idle"
      <3>1. pc'[c] = "idle" /\ call'[c].child = "none" /\ answer'[c] = "lost"
        BY <1>3, <2>2 DEF NoCall
      <3>2. QED BY <3>1 DEF Follows, ResultFits, Started, Announced, Ending, Outcomes, Denials
    <2>3. QED BY <2>1, <2>2
  <1>9. QED BY <1>5, <1>7, <1>8 DEF BridgeInv

LEMMA StillKeeps ==
  ASSUME BridgeInv, UNCHANGED <<log, pc, call, answer, calls, faults, overlapped>>, up' \in BOOLEAN
  PROVE  BridgeInv'
  <1>1. Typed'
    BY DEF BridgeInv, Typed
  <1>2. \A d \in Slot : Follows(d)'
    BY OthersFollow DEF BridgeInv, Grown
  <1>3. AppendsInTurn'
    BY DEF BridgeInv, AppendsInTurn, Verifies, Appending, Readable, LastRecord
  <1>4. QED BY <1>1, <1>2, <1>3 DEF BridgeInv

LEMMA BridgeStarts == ASSUME BridgeAssumption, Init PROVE BridgeInv
  <1>1. NoCall \in CallType /\ 0 \in 0..MaxCalls /\ 0 \in 0..MaxFaults
    BY Constants DEF NoCall, CallType
  <1>2. Typed
    <2>1. log \in Seq(Line \cup {Torn}) /\ calls \in 0..MaxCalls /\ faults \in 0..MaxFaults
      BY <1>1 DEF Init
    <2>2. /\ pc \in [Slot -> Steps] /\ call \in [Slot -> CallType]
          /\ answer \in [Slot -> Outcomes \cup {"none", "error", "lost"}]
      BY <1>1 DEF Init, Steps
    <2>3. QED BY <2>1, <2>2 DEF Init, Typed
  <1>3. AppendsInTurn
    BY DEF Init, AppendsInTurn, Appending
  <1>4. \A c \in Slot : Follows(c)
    BY DEF Init, Follows, ResultFits, Started, NoCall, Announced, Ending, Outcomes, Denials
  <1>5. QED BY <1>2, <1>3, <1>4 DEF BridgeInv

LEMMA BridgeKeeps == ASSUME BridgeAssumption, BridgeInv, [Next]_vars PROVE BridgeInv'
  <1>1. ASSUME NEW c \in Slot, Step(c) PROVE BridgeInv'
    <2>1. CASE BeginAttempt(c)
      BY <2>1, ReadLogKeeps DEF BeginAttempt, Steps
    <2>2. CASE FinishAudit(c)
      BY <2>2, ReadLogKeeps DEF FinishAudit, Steps
    <2>3. QED BY <1>1, <2>1, <2>2, LogAttemptKeeps, CheckKeeps, ConsentKeeps, SpawnKeeps,
                 SpawnThrowsKeeps, TimeoutKeeps, CloseKeeps, LogOutcomeKeeps DEF Step
  <1>2. CASE Restart \/ UNCHANGED vars
    <2>1. up' \in BOOLEAN /\ UNCHANGED <<log, pc, call, answer, calls, faults, overlapped>>
      BY <1>2 DEF Restart, vars, BridgeInv, Typed
    <2>2. QED BY <2>1, StillKeeps
  <1>3. QED BY <1>1, <1>2, BeginKeeps, AppendFailsKeeps, DieKeeps DEF Next

-----------------------------------------------------------------------------
(* The composition that TLC runs: the watch leaves the bridge alone, and    *)
(* the bridge the watch. *)
LEMMA BridgeIsAPart == LongSpec => Spec
  <1>1. LongInit => Init
    BY DEF LongInit
  <1>2. [LongNext]_both => [Next]_vars
    BY DEF LongNext, both, vars
  <1>3. QED BY <1>1, <1>2, PTL DEF LongSpec, Spec

LEMMA WatchIsAPart == LongSpec => Watch!Spec
  <1>1. LongInit => Watch!Init
    BY DEF LongInit
  <1>2. [LongNext]_both => [Watch!Next]_(Watch!vars)
    BY DEF LongNext, both, watch, Watch!vars, Watch!polls, Watch!loop, Watch!start, Watch!history
  <1>3. QED BY <1>1, <1>2, PTL DEF LongSpec, Watch!Spec

(* server.ts, audit/log.ts: nothing runs that the log does not announce or  *)
(* that wanted a consent that nobody gave, the client is told what the log  *)
(* says, and the chain of the log breaks only where appends overlap.        *)
THEOREM BridgeIsAudited == Spec => []CommandsAreAudited
  <1>1. Init => BridgeInv
    BY BridgeAssumption, BridgeStarts
  <1>2. BridgeInv /\ [Next]_vars => BridgeInv'
    BY BridgeAssumption, BridgeKeeps
  <1>3. BridgeInv => TypeOK
    <2>1. SUFFICES ASSUME BridgeInv PROVE TypeOK
      OBVIOUS
    <2>2. \A c \in Slot : call[c] \in CallType
      BY <2>1 DEF BridgeInv, Typed
    <2>3. \A c \in Slot : /\ call[c].id \in 0..MaxCalls /\ call[c].req \in Request \cup {None}
                          /\ call[c].child \in Child \cup {"none"}
      BY <2>2, FieldsOfCall
    <2>4. QED BY <2>1, <2>3 DEF BridgeInv, Typed, TypeOK
  <1>4. BridgeInv => ChainBreaksOnlyByOverlap
    BY DEF BridgeInv, AppendsInTurn, ChainBreaksOnlyByOverlap
  <1>5. BridgeInv => NothingRunsUnannounced
    BY DEF BridgeInv, Follows, Permitted, Consented, NothingRunsUnannounced
  <1>6. BridgeInv => CommandsAreAudited
    BY <1>3, <1>4, <1>5 DEF CommandsAreAudited
  <1>7. QED BY <1>1, <1>2, <1>6, PTL DEF Spec

LEMMA LinksAreRoots ==
  ASSUME Watch!WatchAssumption
  PROVE  \A l : Watch!Links(l) \subseteq Root
  BY DEF Watch!Links, Watch!WatchAssumption

LEMMA WatchTypesKeep ==
  ASSUME Watch!WatchAssumption, Watch!TypeOK, [Watch!Next]_(Watch!vars)
  PROVE  Watch!TypeOK'
  <1> USE DEF Watch!File, Watch!Polled, Watch!Own
  <1>1. CASE Watch!Stop
    BY <1>1 DEF Watch!TypeOK, Watch!Stop, Watch!Die
  <1>2. ASSUME NEW f \in Watch!File, Watch!Edit(f) PROVE Watch!TypeOK'
    <2>1. edits' \in 0..MaxEdits
      BY <1>2 DEF Watch!TypeOK, Watch!Edit, Watch!WatchAssumption
    <2>2. link' \in Root \cup {NoRoot, Invalid} /\ unread' \subseteq Watch!File
          /\ events' \subseteq Watch!File \cup Watch!Own
      BY <1>2 DEF Watch!TypeOK, Watch!Edit
    <2>3. unpolled' \subseteq Watch!Polled /\ unseen' \subseteq unpolled'
      BY <1>2 DEF Watch!TypeOK, Watch!Edit, Watch!Changed
    <2>4. late' \subseteq Watch!File /\ dropped' \subseteq Watch!File
      BY <1>2 DEF Watch!TypeOK, Watch!Edit
    <2>5. QED BY <1>2, <2>1, <2>2, <2>3, <2>4
              DEF Watch!TypeOK, Watch!Edit, Watch!loop, Watch!start
  <1>3. ASSUME NEW f \in Watch!File, Watch!Drop(f) PROVE Watch!TypeOK'
    BY <1>3 DEF Watch!TypeOK, Watch!Drop, Watch!polls, Watch!loop, Watch!start
  <1>4. ASSUME NEW f \in Watch!Polled, Watch!Poll(f) PROVE Watch!TypeOK'
    BY <1>4 DEF Watch!TypeOK, Watch!Poll, Watch!IsNews, Watch!start, Watch!history
  <1>5. ASSUME NEW burst \in Watch!Bursts, Watch!Deliver(burst) PROVE Watch!TypeOK'
    BY <1>5 DEF Watch!TypeOK, Watch!Deliver, Watch!polls, Watch!start, Watch!history
  <1>6. CASE Watch!Fire
    BY <1>6 DEF Watch!TypeOK, Watch!Fire, Watch!polls, Watch!start, Watch!history
  <1>7. CASE Watch!Load
    BY <1>7, LinksAreRoots DEF Watch!TypeOK, Watch!Load, Watch!Die, Watch!polls, Watch!start,
                               Watch!history
  <1>8. CASE Watch!Apply
    BY <1>8 DEF Watch!TypeOK, Watch!Apply, Watch!polls, Watch!start
  <1>9. CASE Watch!Read
    BY <1>9 DEF Watch!TypeOK, Watch!Read, Watch!polls, Watch!start
  <1>10. CASE Watch!Fail
    BY <1>10 DEF Watch!TypeOK, Watch!Fail, Watch!Die, Watch!polls, Watch!start
  <1>11. CASE Watch!Render
    BY <1>11 DEF Watch!TypeOK, Watch!Render, Watch!Changed, Watch!polls, Watch!start, Watch!history
  <1>12. CASE Watch!Observe
    BY <1>12 DEF Watch!TypeOK, Watch!Observe, Watch!NextPhase, Watch!start, Watch!history
  <1>13. CASE Watch!FirstLoad
    BY <1>13, LinksAreRoots DEF Watch!TypeOK, Watch!FirstLoad, Watch!Die, Watch!polls, Watch!loop,
                                Watch!history
  <1>14. CASE Watch!FirstApply
    BY <1>14 DEF Watch!TypeOK, Watch!FirstApply, Watch!polls, Watch!loop
  <1>15. CASE UNCHANGED Watch!vars
    BY <1>15 DEF Watch!TypeOK, Watch!vars, Watch!polls, Watch!loop, Watch!start, Watch!history
  <1>16. QED
    BY <1>1, <1>2, <1>3, <1>4, <1>5, <1>6, <1>7, <1>8, <1>9, <1>10, <1>11, <1>12, <1>13, <1>14,
         <1>15
    DEF Watch!Next, Watch!Trigger

(* The invariant of the run: the bridge is audited, and the watch is typed. *)
THEOREM LongRunningIsAudited == LongSpec => []AuditedAndTyped
  <1>1. Watch!Init => Watch!TypeOK
    <2>1. 0 \in 0..MaxEdits
      BY WatchAssumptionHolds DEF Watch!WatchAssumption
    <2>2. QED BY <2>1 DEF Watch!Init, Watch!TypeOK
  <1>2. Watch!TypeOK /\ [Watch!Next]_(Watch!vars) => Watch!TypeOK'
    BY WatchAssumptionHolds, WatchTypesKeep
  <1>3. Watch!Spec => []Watch!TypeOK
    BY <1>1, <1>2, PTL DEF Watch!Spec
  <1>4. QED BY <1>3, BridgeIsAPart, WatchIsAPart, BridgeIsAudited, PTL DEF AuditedAndTyped
=============================================================================
