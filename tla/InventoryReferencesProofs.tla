---------------------- MODULE InventoryReferencesProofs ----------------------
(***************************************************************************)
(* Proofs about InventoryReferences: what the commands check under the     *)
(* inventory lock still holds when they act on it, for any number of       *)
(* commands, projects, packages and skills.                                *)
(*                                                                         *)
(* The properties are about steps; what makes the steps right is what a    *)
(* command knows between its check and its effect.  Nobody but the holder  *)
(* of the lock changes what is installed or adds a reference, and until a  *)
(* prune has rewritten the index nobody else changes the registry: so the  *)
(* knowledge stays true while the command holds the lock.                  *)
(*                                                                         *)
(* The second and the third part are about how the inventory lies on disk, *)
(* and how it gets to another machine, the other parts of the composition  *)
(* that TLC runs.                                                          *)
(***************************************************************************)
EXTENDS MCInventory, TLAPS

(* Each step belongs to some of the commands, which come with arguments.    *)
Shape(t) == LET c == call[t] IN
  /\ pc[t] = "lock" => c.op \in {"register", "unregister", "include", "install", "update", "uninstall"}
  /\ pc[t] = "stat" => c.op = "prune"
  /\ pc[t] = "check" => c.op = "register"
  /\ pc[t] \in {"inspect", "recheck"} => c.op = "unregister"
  /\ pc[t] \in {"load", "write"} => c.op \in {"register", "unregister", "prune"}
  /\ pc[t] = "validate" => c.op = "include"
  /\ pc[t] = "include" => c.op \in {"include", "install"} /\ c.p \in Project
  /\ pc[t] = "names" => c.op \in {"install", "update"}
  /\ pc[t] \in {"list", "scan"} => c.op \in {"update", "uninstall"}
  /\ pc[t] = "commit" => c.op \in {"install", "update", "uninstall"}
  /\ c.op \in {"register", "unregister", "include"} => c.p \in Project
  /\ c.op \in {"include", "install", "update", "uninstall"} => c.q \in Package
  /\ c.op \in {"install", "update"} => c.v \in DOMAIN Exports[c.q]
  /\ c.op \in {"update", "uninstall"} => c.p = None
  /\ c.op = "install" => c.want = Exports[c.q][c.v]
  /\ c.op = "uninstall" => c.v = Absent

(* What a command has found out and not acted on yet.                       *)
Knows(t) == LET c == call[t] IN
  /\ Shape(t)
  /\ pc[t] \in {"load", "write"} /\ c.op = "prune" => rewritten
  /\ pc[t] = "write" /\ c.op # "prune" => rewritten \/ c.index = registry
  /\ pc[t] \in {"load", "write"} /\ c.op = "unregister" => c.gone \/ refs[c.p] \cap Installed = {}
  /\ pc[t] = "include" => c.want \subseteq ExportedBy(c.q)
  /\ pc[t] \in {"list", "scan", "commit"} /\ c.op \in {"install", "update"} => ~ Collides(t)
  /\ pc[t] = "commit" /\ c.op = "install" => live[c.q] = Absent
  /\ pc[t] = "scan" => rewritten \/ \A p \in registry \ c.todo : refs[p] \cap c.ids \subseteq c.found
  /\ pc[t] = "commit" /\ c.op # "install" =>
       rewritten \/ \A p \in registry : refs[p] \cap c.ids \subseteq c.found

IInv == TypeOK /\ \A t \in Task : Knows(t)

AtWork(step, op) == step \in Locked \/ (step \in {"load", "write"} /\ op # "prune")

-----------------------------------------------------------------------------
LEMMA NoCallIsTyped == NoCall \in Call
  BY DEF NoCall, Call

(* A step of a command that leaves the files well typed.                    *)
LEMMA StepIsTyped ==
  ASSUME TypeOK, NEW t \in Task, NEW step \in Unlocked \cup Locked \cup {"load", "write"}, NEW c \in Call,
         pc' = [pc EXCEPT ![t] = step], call' = [call EXCEPT ![t] = c],
         step = "idle" <=> c.op = "none",
         \/ lock' = lock /\ (AtWork(step, c.op) <=> AtWork(pc[t], call[t].op))
         \/ lock = None /\ lock' = t /\ AtWork(step, c.op)
         \/ lock' = (IF lock = t THEN None ELSE lock) /\ ~ AtWork(step, c.op),
         live' \in [Package -> Version \cup {Absent}],
         \A q \in Package : live'[q] \in DOMAIN Exports[q] \cup {Absent},
         registry' \in SUBSET Project, presence' \in [Project -> {"present", "bare", "gone"}],
         refs' \in [Project -> SUBSET Skill], rewritten' \in BOOLEAN, started' \in 0 .. MaxCommands
  PROVE  TypeOK'
  <1>1. lock' \in Task \cup {None} /\ pc' \in [Task -> Unlocked \cup Locked \cup {"load", "write"}]
        /\ call' \in [Task -> Call]
    BY DEF TypeOK
  <1>2. \A s \in Task : pc'[s] = "idle" <=> call'[s].op = "none"
    BY DEF TypeOK
  <1>3. ASSUME NEW s \in Task PROVE lock' = s <=> AtWork(pc'[s], call'[s].op)
    <2>1. lock = s <=> AtWork(pc[s], call[s].op)
      BY DEF TypeOK, AtWork
    <2>2. lock = t <=> AtWork(pc[t], call[t].op)
      BY DEF TypeOK, AtWork
    <2>3. s # None /\ t # None
      BY ReferencesAssumption
    <2>4. CASE s = t
      BY <2>2, <2>3, <2>4 DEF TypeOK
    <2>5. CASE s # t
      <3>1. pc'[s] = pc[s] /\ call'[s] = call[s]
        BY <2>5 DEF TypeOK
      <3>2. QED BY <2>1, <2>2, <2>3, <2>5, <3>1
    <2>6. QED BY <2>4, <2>5
  <1>4. QED BY <1>1, <1>2, <1>3 DEF TypeOK, AtWork

(* What a command knows outlasts the steps of the others: the holder of the *)
(* lock finds the files as they were, but for references that users take    *)
(* out and for what a prune writes.                                         *)
LEMMA OthersKnow ==
  ASSUME IInv, NEW s \in Task, pc'[s] = pc[s], call'[s] = call[s],
         rewritten => rewritten', rewritten' \in BOOLEAN,
         lock = s => /\ live' = live
                     /\ registry' = registry \/ rewritten'
                     /\ \A p \in Project : refs'[p] \subseteq refs[p]
  PROVE  Knows(s)'
  <1> DEFINE c == call[s]
  <1>1. Shape(s)'
    BY DEF IInv, Knows, Shape
  <1>2. CASE lock # s
    <2>1. pc[s] \notin Locked /\ (pc[s] \in {"load", "write"} => call[s].op = "prune")
      BY <1>2 DEF IInv, TypeOK
    <2>2. QED BY <1>1, <2>1 DEF IInv, Knows, Locked
  <1>3. CASE lock = s
    <2>1. /\ live' = live /\ (registry' = registry \/ rewritten')
          /\ \A p \in Project : refs'[p] \subseteq refs[p]
      BY <1>3
    <2>2. Installed' = Installed /\ \A q \in Package : ExportedBy(q)' = ExportedBy(q)
      BY <2>1 DEF Installed, ExportedBy
    <2>3. Collides(s)' <=> Collides(s)
      BY <2>1 DEF Collides, OwnerAsSeen, Owners, ExportedBy
    <2>4. pc[s] \in {"load", "write"} /\ c.op = "unregister" => c.gone \/ refs'[c.p] \cap Installed' = {}
      BY <2>1, <2>2 DEF IInv, Knows, Shape
    <2>5. pc[s] = "include" => c.want \subseteq ExportedBy(c.q)'
      BY <2>2 DEF IInv, Knows, Shape
    <2>6. pc[s] = "write" /\ c.op # "prune" => rewritten' \/ c.index = registry'
      BY <2>1 DEF IInv, Knows
    <2>7. /\ pc[s] = "scan" => rewritten' \/ \A p \in registry' \ c.todo : refs'[p] \cap c.ids \subseteq c.found
          /\ pc[s] = "commit" /\ c.op # "install" =>
               rewritten' \/ \A p \in registry' : refs'[p] \cap c.ids \subseteq c.found
      BY <2>1 DEF IInv, TypeOK, Knows
    <2>8. QED BY <1>1, <2>1, <2>3, <2>4, <2>5, <2>6, <2>7 DEF IInv, Knows
  <1>4. QED BY <1>2, <1>3

-----------------------------------------------------------------------------
(* A command begins with nothing found out.                                 *)
LEMMA BeginKeeps ==
  ASSUME IInv, NEW t \in Task, NEW op, NEW step \in {"lock", "stat"}, NEW how \in Call,
         op # "none", step = "stat" => op = "prune",
         Begin(t, op, step, how), Shape(t)'
  PROVE  IInv'
  <1> DEFINE c == [how EXCEPT !.op = op]
  <1>1. c \in Call /\ c.op = op
    BY DEF Begin, Call
  <1> HIDE DEF c
  <1>2. /\ pc[t] = "idle" /\ pc' = [pc EXCEPT ![t] = step] /\ call' = [call EXCEPT ![t] = c]
        /\ started' \in 0 .. MaxCommands
        /\ UNCHANGED <<live, registry, presence, refs, lock, rewritten>>
    BY ReferencesAssumption DEF Begin, Goto, IInv, TypeOK, files, c
  <1>3. call[t].op = "none"
    BY <1>2 DEF IInv, TypeOK
  <1>4. TypeOK'
    <2>1. step # "idle" /\ ~ AtWork(step, c.op) /\ ~ AtWork(pc[t], call[t].op)
      BY <1>2 DEF AtWork, Locked
    <2>2. step \in Unlocked
      BY DEF Unlocked
    <2>3. QED BY <1>1, <1>2, <2>1, <2>2, StepIsTyped DEF IInv, TypeOK
  <1>5. ASSUME NEW s \in Task PROVE Knows(s)'
    <2>1. CASE s = t
      BY <1>2, <2>1 DEF IInv, TypeOK, Knows
    <2>2. CASE s # t
      BY <1>2, <2>2, OthersKnow DEF IInv, TypeOK
    <2>3. QED BY <2>1, <2>2
  <1>6. QED BY <1>4, <1>5 DEF IInv

LEMMA StartRegisterIInv == ASSUME IInv, NEW t \in Task, StartRegister(t) PROVE IInv'
  <1>1. PICK p \in Project : Begin(t, "register", "lock", [NoCall EXCEPT !.p = p])
    BY DEF StartRegister
  <1> DEFINE how == [NoCall EXCEPT !.p = p]
  <1>2. how \in Call /\ how.p = p
    BY NoCallIsTyped DEF Call
  <1> HIDE DEF how
  <1>3. pc'[t] = "lock" /\ call'[t].op = "register" /\ call'[t].p = p
    BY <1>1, <1>2 DEF Begin, Goto, IInv, TypeOK, Call, how
  <1>4. Shape(t)'
    BY <1>3 DEF Shape
  <1>5. QED BY <1>1, <1>2, <1>4, BeginKeeps DEF how

LEMMA StartUnregisterIInv == ASSUME IInv, NEW t \in Task, StartUnregister(t) PROVE IInv'
  <1>1. PICK p \in Project : Begin(t, "unregister", "lock", [NoCall EXCEPT !.p = p])
    BY DEF StartUnregister
  <1> DEFINE how == [NoCall EXCEPT !.p = p]
  <1>2. how \in Call /\ how.p = p
    BY NoCallIsTyped DEF Call
  <1> HIDE DEF how
  <1>3. pc'[t] = "lock" /\ call'[t].op = "unregister" /\ call'[t].p = p
    BY <1>1, <1>2 DEF Begin, Goto, IInv, TypeOK, Call, how
  <1>4. Shape(t)'
    BY <1>3 DEF Shape
  <1>5. QED BY <1>1, <1>2, <1>4, BeginKeeps DEF how

LEMMA StartPruneIInv == ASSUME IInv, NEW t \in Task, StartPrune(t) PROVE IInv'
  <1> DEFINE how == [NoCall EXCEPT !.todo = registry]
  <1>1. Begin(t, "prune", "stat", how)
    BY DEF StartPrune
  <1>2. how \in Call
    BY NoCallIsTyped DEF Call, IInv, TypeOK
  <1> HIDE DEF how
  <1>3. pc'[t] = "stat" /\ call'[t].op = "prune"
    BY <1>1, <1>2 DEF Begin, Goto, IInv, TypeOK, Call
  <1>4. Shape(t)'
    BY <1>3 DEF Shape
  <1>5. QED BY <1>1, <1>2, <1>4, BeginKeeps

LEMMA StartIncludeIInv == ASSUME IInv, NEW t \in Task, StartInclude(t) PROVE IInv'
  <1>1. PICK p \in Project, o \in Owners :
          Begin(t, "include", "lock", [NoCall EXCEPT !.p = p, !.q = o[2], !.want = {o[1]}])
    BY DEF StartInclude
  <1>2. o[1] \in Skill /\ o[2] \in Package
    BY DEF Owners
  <1> DEFINE how == [NoCall EXCEPT !.p = p, !.q = o[2], !.want = {o[1]}]
  <1>3. how \in Call /\ how.p = p /\ how.q = o[2]
    BY <1>2, NoCallIsTyped DEF Call
  <1> HIDE DEF how
  <1>4. pc'[t] = "lock" /\ call'[t].op = "include" /\ call'[t].p = p /\ call'[t].q = o[2]
    BY <1>1, <1>3 DEF Begin, Goto, IInv, TypeOK, Call, how
  <1>5. Shape(t)'
    BY <1>2, <1>4 DEF Shape
  <1>6. QED BY <1>1, <1>3, <1>5, BeginKeeps DEF how

LEMMA StartInstallIInv == ASSUME IInv, NEW t \in Task, StartInstall(t) PROVE IInv'
  <1>0. PICK q \in Package, p \in Project \cup {None} : \E v \in DOMAIN Exports[q] :
          Begin(t, "install", "lock",
            [NoCall EXCEPT !.q = q, !.v = v, !.p = p, !.want = Exports[q][v], !.seen = Owners])
    BY DEF StartInstall
  <1>1. PICK v \in DOMAIN Exports[q] :
          Begin(t, "install", "lock",
            [NoCall EXCEPT !.q = q, !.v = v, !.p = p, !.want = Exports[q][v], !.seen = Owners])
    BY <1>0
  <1>2. v \in Version /\ Exports[q][v] \in SUBSET Skill /\ Owners \in SUBSET (Skill \X Package)
    BY ReferencesAssumption DEF Owners
  <1> DEFINE how == [NoCall EXCEPT !.q = q, !.v = v, !.p = p, !.want = Exports[q][v], !.seen = Owners]
  <1>3. how \in Call /\ how.q = q /\ how.v = v /\ how.want = Exports[q][v]
    BY <1>2, NoCallIsTyped DEF Call
  <1> HIDE DEF how
  <1>4. pc'[t] = "lock" /\ call'[t].op = "install" /\ call'[t].q = q /\ call'[t].v = v
        /\ call'[t].want = Exports[q][v]
    BY <1>1, <1>3 DEF Begin, Goto, IInv, TypeOK, Call, how
  <1>5. Shape(t)'
    BY <1>4 DEF Shape
  <1>6. QED BY <1>1, <1>3, <1>5, BeginKeeps DEF how

LEMMA StartUpdateIInv == ASSUME IInv, NEW t \in Task, StartUpdate(t) PROVE IInv'
  <1>0. PICK q \in Package : \E v \in DOMAIN Exports[q] :
          Begin(t, "update", "lock", [NoCall EXCEPT !.q = q, !.v = v, !.seen = Owners])
    BY DEF StartUpdate
  <1>1. PICK v \in DOMAIN Exports[q] :
          Begin(t, "update", "lock", [NoCall EXCEPT !.q = q, !.v = v, !.seen = Owners])
    BY <1>0
  <1>2. v \in Version /\ Owners \in SUBSET (Skill \X Package)
    BY ReferencesAssumption DEF Owners
  <1> DEFINE how == [NoCall EXCEPT !.q = q, !.v = v, !.seen = Owners]
  <1>3. how \in Call /\ how.q = q /\ how.v = v /\ how.p = None
    BY <1>2, NoCallIsTyped DEF Call, NoCall
  <1> HIDE DEF how
  <1>4. pc'[t] = "lock" /\ call'[t].op = "update" /\ call'[t].q = q /\ call'[t].v = v
        /\ call'[t].p = None
    BY <1>1, <1>3 DEF Begin, Goto, IInv, TypeOK, Call, how
  <1>5. Shape(t)'
    BY <1>4 DEF Shape
  <1>6. QED BY <1>1, <1>3, <1>5, BeginKeeps DEF how

LEMMA StartUninstallIInv == ASSUME IInv, NEW t \in Task, StartUninstall(t) PROVE IInv'
  <1>1. PICK q \in Package :
          /\ live[q] # Absent
          /\ Begin(t, "uninstall", "lock", [NoCall EXCEPT !.q = q, !.ids = ExportedBy(q)])
    BY DEF StartUninstall
  <1>2. ExportedBy(q) \in SUBSET Skill
    BY ReferencesAssumption DEF ExportedBy, IInv, TypeOK
  <1> DEFINE how == [NoCall EXCEPT !.q = q, !.ids = ExportedBy(q)]
  <1>3. how \in Call /\ how.q = q /\ how.p = None /\ how.v = Absent
    BY <1>2, NoCallIsTyped DEF Call, NoCall
  <1> HIDE DEF how
  <1>4. pc'[t] = "lock" /\ call'[t].op = "uninstall" /\ call'[t].q = q /\ call'[t].v = Absent
        /\ call'[t].p = None
    BY <1>1, <1>3 DEF Begin, Goto, IInv, TypeOK, Call, how
  <1>5. Shape(t)'
    BY <1>4 DEF Shape
  <1>6. QED BY <1>1, <1>3, <1>5, BeginKeeps DEF how

-----------------------------------------------------------------------------
(* A step in which a command learns something and no file changes.          *)
LEMMA LearnKeeps ==
  ASSUME IInv, NEW t \in Task, NEW step \in Unlocked \cup Locked \cup {"load", "write"}, NEW c \in Call,
         pc' = [pc EXCEPT ![t] = step], call' = [call EXCEPT ![t] = c],
         step = "idle" <=> c.op = "none",
         \/ lock' = lock /\ (AtWork(step, c.op) <=> AtWork(pc[t], call[t].op))
         \/ lock = None /\ lock' = t /\ AtWork(step, c.op)
         \/ lock' = (IF lock = t THEN None ELSE lock) /\ ~ AtWork(step, c.op),
         UNCHANGED <<live, registry, presence, refs, started>>,
         rewritten => rewritten', rewritten' \in BOOLEAN,
         Knows(t)'
  PROVE  IInv'
  <1>1. TypeOK'
    BY StepIsTyped DEF IInv, TypeOK
  <1>2. ASSUME NEW s \in Task, s # t PROVE Knows(s)'
    BY <1>2, OthersKnow DEF IInv, TypeOK
  <1>3. QED BY <1>1, <1>2 DEF IInv

(* A command that ends, or dies, knows nothing.                             *)
LEMMA EndKeeps ==
  ASSUME IInv, NEW t \in Task, End(t), lock' = (IF lock = t THEN None ELSE lock),
         UNCHANGED <<live, registry, presence, refs, started, rewritten>>
  PROVE  IInv'
  <1>1. pc' = [pc EXCEPT ![t] = "idle"] /\ call' = [call EXCEPT ![t] = NoCall] /\ NoCall.op = "none"
    BY DEF End, Goto, NoCall
  <1>2. ~ AtWork("idle", NoCall.op) /\ "idle" \in Unlocked
    BY DEF AtWork, Locked, Unlocked
  <1>3. Knows(t)'
    BY <1>1 DEF IInv, TypeOK, Knows, Shape
  <1>4. QED BY <1>1, <1>2, <1>3, NoCallIsTyped, LearnKeeps DEF IInv, TypeOK

LEMMA FirstSteps ==
  /\ FirstStep["register"] = "check" /\ FirstStep["unregister"] = "inspect"
  /\ FirstStep["include"] = "validate" /\ FirstStep["install"] = "names"
  /\ FirstStep["update"] = "names" /\ FirstStep["uninstall"] = "list"
  BY DEF FirstStep

LEMMA EnterLockIInv == ASSUME IInv, NEW t \in Task, EnterLock(t) PROVE IInv'
  <1>1. CASE End(t) /\ UNCHANGED lock
    <2>1. lock # t
      BY DEF EnterLock, IInv, TypeOK, Locked
    <2>2. QED BY <1>1, <2>1, EndKeeps DEF EnterLock, files
  <1>2. CASE lock = None /\ lock' = t /\ Goto(t, FirstStep[call[t].op]) /\ UNCHANGED call
    <2> DEFINE c == call[t]
               step == FirstStep[c.op]
    <2>1. pc[t] = "lock" /\ UNCHANGED <<live, registry, presence, refs, started, rewritten>>
      BY DEF EnterLock, files
    <2>2. Shape(t)
      BY DEF IInv, Knows
    <2>3. \/ c.op = "register" /\ step = "check"
          \/ c.op = "unregister" /\ step = "inspect"
          \/ c.op = "include" /\ step = "validate"
          \/ c.op \in {"install", "update"} /\ step = "names"
          \/ c.op = "uninstall" /\ step = "list"
      BY <2>1, <2>2, FirstSteps DEF Shape
    <2>4. c \in Call /\ call' = [call EXCEPT ![t] = c] /\ pc' = [pc EXCEPT ![t] = step]
      BY <1>2 DEF Goto, IInv, TypeOK
    <2> HIDE DEF step
    <2>5. step \in Locked /\ step # "idle" /\ AtWork(step, c.op) /\ c.op # "none"
      BY <2>3 DEF Locked, AtWork
    <2>6. pc'[t] = step /\ call'[t] = c
      BY <2>4 DEF IInv, TypeOK
    <2>7. Shape(t)'
      BY <2>2, <2>3, <2>6 DEF Shape
    <2>8. Collides(t)' <=> Collides(t)
      BY <2>1, <2>6 DEF Collides, OwnerAsSeen, Owners, ExportedBy
    <2>9. Knows(t)'
      <3>1. pc'[t] \in {"check", "inspect", "validate", "names", "list"}
            /\ (pc'[t] = "list" => call'[t].op = "uninstall")
        BY <2>3, <2>6
      <3>2. QED BY <2>7, <3>1 DEF Knows
    <2>10. QED BY <1>2, <2>1, <2>4, <2>5, <2>9, LearnKeeps DEF IInv, TypeOK
  <1>3. QED BY <1>1, <1>2 DEF EnterLock, Held

LEMMA LeaveLockIInv == ASSUME IInv, NEW t \in Task, LeaveLock(t) PROVE IInv'
  BY EndKeeps DEF LeaveLock, files

LEMMA CrashIInv == ASSUME IInv, NEW t \in Task, Crash(t) PROVE IInv'
  BY EndKeeps DEF Crash, files

(* A step under the lock: on, or out of it.                                 *)
LEMMA ProceedKeeps ==
  ASSUME IInv, NEW t \in Task, NEW condition \in BOOLEAN, NEW step \in Locked \cup {"load"}, NEW c \in Call,
         Proceed(t, condition, step), call' = [call EXCEPT ![t] = c],
         pc[t] \in Locked, c.op = call[t].op,
         step = "load" => c.op # "prune",
         Shape(t)', condition => Knows(t)'
  PROVE  IInv'
  <1> DEFINE to == IF condition THEN step ELSE "unlock"
  <1>1. /\ to \in Locked \cup {"load"} /\ pc' = [pc EXCEPT ![t] = to]
        /\ UNCHANGED <<live, registry, presence, refs, lock, rewritten, started>>
    BY DEF Proceed, Goto, files, Locked
  <1>2. pc'[t] = to /\ call'[t] = c
    BY <1>1 DEF IInv, TypeOK
  <1>3. Knows(t)'
    <2>1. CASE condition
      BY <2>1
    <2>2. CASE ~ condition
      <3>1. pc'[t] = "unlock"
        BY <1>2, <2>2
      <3>2. QED BY <3>1 DEF Knows
    <2>3. QED BY <2>1, <2>2
  <1>4. to # "idle" /\ c.op # "none" /\ AtWork(to, c.op) /\ AtWork(pc[t], call[t].op)
    BY DEF AtWork, Locked, IInv, TypeOK
  <1> HIDE DEF to
  <1>5. QED BY <1>1, <1>3, <1>4, LearnKeeps DEF IInv, TypeOK

LEMMA CheckRootIInv == ASSUME IInv, NEW t \in Task, CheckRoot(t) PROVE IInv'
  <1>1. /\ pc[t] = "check" /\ call' = call
        /\ Proceed(t, presence[call[t].p] = "present", "load")
    BY DEF CheckRoot
  <1>2. call[t] \in Call /\ call' = [call EXCEPT ![t] = call[t]] /\ call[t].op = "register"
    BY <1>1 DEF IInv, TypeOK, Knows, Shape
  <1>3. pc'[t] \in {"load", "unlock"}
    BY <1>1 DEF Proceed, Goto, IInv, TypeOK
  <1>4. Shape(t)' /\ Knows(t)'
    BY <1>1, <1>2, <1>3 DEF IInv, Knows, Shape
  <1>5. QED BY <1>1, <1>2, <1>4, ProceedKeeps DEF Locked

LEMMA InspectIInv == ASSUME IInv, NEW t \in Task, Inspect(t) PROVE IInv'
  <1>1. pc[t] = "inspect" /\ call[t] \in Call /\ call[t].op = "unregister" /\ Shape(t)
    BY DEF Inspect, IInv, TypeOK, Knows, Shape
  <1>2. CASE Proceed(t, TRUE, "load") /\ call' = [call EXCEPT ![t].gone = TRUE]
    <2> DEFINE c == [call[t] EXCEPT !.gone = TRUE]
    <2>1. c \in Call /\ c.op = "unregister" /\ c.p = call[t].p /\ c.gone = TRUE
      BY <1>1 DEF Call
    <2>2. call' = [call EXCEPT ![t] = c]
      BY <1>2 DEF IInv, TypeOK
    <2> HIDE DEF c
    <2>3. pc'[t] = "load" /\ call'[t] = c
      BY <1>2, <2>2 DEF Proceed, Goto, IInv, TypeOK
    <2>4. Shape(t)' /\ Knows(t)'
      BY <1>1, <2>1, <2>3 DEF Knows, Shape
    <2>5. QED BY <1>1, <1>2, <2>1, <2>2, <2>4, ProceedKeeps DEF Locked
  <1>3. CASE /\ Proceed(t, call[t].p \in registry /\ Unreferenced(call[t].p), "recheck")
             /\ UNCHANGED call
    <2>1. call' = [call EXCEPT ![t] = call[t]] /\ call'[t] = call[t]
      BY <1>3 DEF IInv, TypeOK
    <2>2. pc'[t] \in {"recheck", "unlock"}
      BY <1>3 DEF Proceed, Goto, IInv, TypeOK
    <2>3. Shape(t)' /\ Knows(t)'
      BY <1>1, <2>1, <2>2 DEF Knows, Shape
    <2>4. (call[t].p \in registry /\ Unreferenced(call[t].p)) \in BOOLEAN
      BY DEF Unreferenced
    <2>5. QED BY <1>1, <1>3, <2>1, <2>3, <2>4, ProceedKeeps DEF Locked
  <1>4. QED BY <1>2, <1>3 DEF Inspect

(* What the second inspection has seen is what the unregistration rests on. *)
LEMMA RecheckIInv == ASSUME IInv, NEW t \in Task, Recheck(t) PROVE IInv'
  <1>1. /\ pc[t] = "recheck" /\ call[t] \in Call /\ call[t].op = "unregister" /\ Shape(t)
        /\ Proceed(t, Unreferenced(call[t].p), "load") /\ UNCHANGED call
    BY DEF Recheck, IInv, TypeOK, Knows, Shape
  <1>2. call' = [call EXCEPT ![t] = call[t]] /\ call'[t] = call[t]
    BY <1>1 DEF IInv, TypeOK
  <1>3. pc'[t] \in {"load", "unlock"}
    BY <1>1 DEF Proceed, Goto, IInv, TypeOK
  <1>4. Shape(t)'
    BY <1>1, <1>2, <1>3 DEF Shape
  <1>5. ASSUME Unreferenced(call[t].p) PROVE Knows(t)'
    <2>1. refs'[call[t].p] \cap Installed' = {}
      BY <1>1, <1>5 DEF Proceed, files, Unreferenced, Installed, ExportedBy
    <2>2. QED BY <1>1, <1>2, <1>3, <1>4, <2>1 DEF Knows
  <1>6. Unreferenced(call[t].p) \in BOOLEAN
    BY DEF Unreferenced
  <1>7. QED BY <1>1, <1>2, <1>4, <1>5, <1>6, ProceedKeeps DEF Locked

(* A prune works outside the lock; once it has found a stale root, what the *)
(* registry holds rests on nobody's knowledge.                              *)
LEMMA StatIInv == ASSUME IInv, NEW t \in Task, Stat(t) PROVE IInv'
  <1>1. /\ pc[t] = "stat" /\ call[t] \in Call /\ call[t].op = "prune" /\ lock # t
        /\ UNCHANGED <<live, registry, presence, refs, lock>>
    BY DEF Stat, IInv, TypeOK, Knows, Shape, files, Locked
  <1>2. ASSUME NEW p \in call[t].todo, UNCHANGED <<pc, rewritten, started>>,
               call' = [call EXCEPT ![t].todo = @ \ {p},
                          ![t].stale = IF presence[p] = "present" THEN @ ELSE @ \cup {p}]
        PROVE  IInv'
    <2> DEFINE less == [call[t] EXCEPT !.todo = @ \ {p}]
               c == [less EXCEPT !.stale = IF presence[p] = "present" THEN @ ELSE @ \cup {p}]
    <2>1. p \in Project /\ less \in Call /\ less.op = "prune"
      BY <1>1 DEF Call
    <2>2. call' = [call EXCEPT ![t] = c]
      BY <1>1, <1>2, ZenonT(60) DEF IInv, TypeOK
    <2> HIDE DEF less
    <2>3. c \in Call /\ c.op = "prune"
      BY <2>1 DEF Call
    <2> HIDE DEF c
    <2>4. UNCHANGED <<pc, rewritten, started>>
      BY <1>2
    <2>5. pc' = [pc EXCEPT ![t] = "stat"] /\ pc'[t] = "stat"
      BY <1>1, <2>4 DEF IInv, TypeOK
    <2>6. call'[t] = c
      BY <2>2 DEF IInv, TypeOK
    <2>7. Knows(t)'
      BY <2>3, <2>5, <2>6 DEF Knows, Shape
    <2>8. ~ AtWork("stat", "prune") /\ "stat" \in Unlocked
      BY DEF AtWork, Locked, Unlocked
    <2>9. QED BY <1>1, <2>2, <2>3, <2>4, <2>5, <2>7, <2>8, LearnKeeps, ZenonT(60) DEF IInv, TypeOK
  <1>3. CASE End(t) /\ UNCHANGED <<rewritten, started>>
    BY <1>1, <1>3, EndKeeps
  <1>4. CASE Goto(t, "load") /\ rewritten' = TRUE /\ UNCHANGED <<call, started>>
    <2>1. pc' = [pc EXCEPT ![t] = "load"] /\ call' = [call EXCEPT ![t] = call[t]]
          /\ pc'[t] = "load" /\ call'[t] = call[t]
      BY <1>4 DEF Goto, IInv, TypeOK
    <2>2. Knows(t)'
      BY <1>1, <1>4, <2>1 DEF IInv, Knows, Shape
    <2>3. ~ AtWork("load", "prune") /\ ~ AtWork("stat", "prune")
      BY DEF AtWork, Locked
    <2>4. QED BY <1>1, <1>4, <2>1, <2>2, <2>3, LearnKeeps, ZenonT(60) DEF IInv, TypeOK
  <1>5. QED BY <1>2, <1>3, <1>4 DEF Stat

LEMMA LoadIndexIInv == ASSUME IInv, NEW t \in Task, LoadIndex(t) PROVE IInv'
  <1>1. /\ pc[t] = "load" /\ call[t] \in Call /\ call[t].op \in {"register", "unregister", "prune"} /\ Shape(t)
        /\ UNCHANGED <<live, registry, presence, refs, lock, rewritten, started>>
    BY DEF LoadIndex, IInv, TypeOK, Knows, Shape, files
  <1> DEFINE c == [call[t] EXCEPT !.index = registry]
  <1>2. /\ c \in Call /\ c.op = call[t].op /\ c.p = call[t].p /\ c.q = call[t].q
        /\ c.index = registry /\ c.gone = call[t].gone
    BY <1>1 DEF Call, IInv, TypeOK
  <1>3. call' = [call EXCEPT ![t] = c] /\ pc' = [pc EXCEPT ![t] = "write"]
    BY DEF LoadIndex, Goto, IInv, TypeOK
  <1> HIDE DEF c
  <1>4. pc'[t] = "write" /\ call'[t] = c
    BY <1>3 DEF IInv, TypeOK
  <1>5. Shape(t)'
    BY <1>1, <1>2, <1>4 DEF Shape
  <1>6. call[t].op = "unregister" => call[t].gone \/ refs'[call[t].p] \cap Installed' = {}
    BY <1>1 DEF IInv, Knows, Installed, ExportedBy
  <1>7. Knows(t)'
    BY <1>1, <1>2, <1>4, <1>5, <1>6 DEF IInv, Knows
  <1>8. AtWork("write", c.op) <=> AtWork("load", call[t].op)
    BY <1>2 DEF AtWork, Locked
  <1>9. c.op # "none"
    BY <1>1, <1>2
  <1>10. QED BY <1>1, <1>2, <1>3, <1>7, <1>8, <1>9, LearnKeeps DEF IInv, TypeOK

(* Writing the index under the lock spares what others know, for no other   *)
(* holds the lock; a prune that writes has found a stale root.              *)
LEMMA WriteIndexIInv == ASSUME IInv, NEW t \in Task, WriteIndex(t) PROVE IInv'
  <1>1. /\ pc[t] = "write" /\ call[t] \in Call /\ call[t].op \in {"register", "unregister", "prune"}
        /\ call[t].op = "prune" => rewritten
        /\ UNCHANGED <<live, presence, refs, lock, rewritten, started>>
    BY DEF WriteIndex, IInv, TypeOK, Knows, Shape
  <1>2. call[t].op = "register" => call[t].p \in Project
    BY DEF IInv, Knows, Shape
  <1>3. Wanted(t) \in SUBSET Project
    <2>1. call[t].index \in SUBSET Project
      BY <1>1 DEF Call
    <2>2. QED BY <1>1, <1>2, <2>1 DEF Wanted
  <1>4. registry' \in SUBSET Project
    BY <1>3 DEF WriteIndex, IInv, TypeOK
  <1>5. ASSUME NEW s \in Task, s # t PROVE Knows(s)'
    <2>1. pc'[s] = pc[s] /\ call'[s] = call[s]
      BY <1>5 DEF WriteIndex, End, Goto, IInv, TypeOK
    <2>2. call[t].op # "prune" => lock # s
      BY <1>1, <1>5 DEF IInv, TypeOK
    <2>3. rewritten' \in BOOLEAN /\ live' = live /\ \A p \in Project : refs'[p] \subseteq refs[p]
      BY <1>1 DEF IInv, TypeOK
    <2>4. lock = s => rewritten'
      BY <1>1, <2>2
    <2>5. QED BY <1>1, <2>1, <2>3, <2>4, OthersKnow
  <1>6. CASE call[t].op = "prune"
    <2>1. pc' = [pc EXCEPT ![t] = "idle"] /\ call' = [call EXCEPT ![t] = NoCall] /\ NoCall.op = "none"
      BY <1>6 DEF WriteIndex, End, Goto, NoCall
    <2>2. "idle" \in Unlocked /\ ~ AtWork("idle", "none") /\ ~ AtWork("write", "prune")
      BY DEF AtWork, Locked, Unlocked
    <2>3. TypeOK'
      BY <1>1, <1>4, <1>6, <2>1, <2>2, NoCallIsTyped, StepIsTyped DEF IInv, TypeOK
    <2>4. Knows(t)'
      BY <2>1 DEF IInv, TypeOK, Knows, Shape
    <2>5. QED BY <1>5, <2>3, <2>4 DEF IInv
  <1>7. CASE call[t].op # "prune"
    <2>1. pc' = [pc EXCEPT ![t] = "unlock"] /\ call' = [call EXCEPT ![t] = call[t]] /\ call'[t] = call[t]
      BY <1>7 DEF WriteIndex, Goto, IInv, TypeOK
    <2>2. "unlock" \in Locked /\ AtWork("unlock", call[t].op) /\ AtWork("write", call[t].op)
      BY <1>7 DEF AtWork, Locked
    <2>3. TypeOK'
      BY <1>1, <1>4, <2>1, <2>2, StepIsTyped DEF IInv, TypeOK
    <2>4. pc'[t] = "unlock"
      BY <2>1 DEF IInv, TypeOK
    <2>5. Knows(t)'
      BY <1>1, <2>1, <2>4 DEF IInv, Knows, Shape
    <2>6. QED BY <1>5, <2>3, <2>5 DEF IInv
  <1>8. QED BY <1>6, <1>7

LEMMA ValidateIInv == ASSUME IInv, NEW t \in Task, Validate(t) PROVE IInv'
  <1>1. /\ pc[t] = "validate" /\ call[t] \in Call /\ call[t].op = "include" /\ Shape(t)
        /\ Proceed(t, StillExported(t), "include") /\ UNCHANGED call
    BY DEF Validate, IInv, TypeOK, Knows, Shape
  <1>2. call' = [call EXCEPT ![t] = call[t]] /\ call'[t] = call[t]
    BY <1>1 DEF IInv, TypeOK
  <1>3. pc'[t] \in {"include", "unlock"}
    BY <1>1 DEF Proceed, Goto, IInv, TypeOK
  <1>4. Shape(t)'
    BY <1>1, <1>2, <1>3 DEF Shape
  <1>5. ASSUME StillExported(t) PROVE Knows(t)'
    <2>1. (call[t].want \subseteq ExportedBy(call[t].q))'
      BY <1>1, <1>2, <1>5 DEF Proceed, files, StillExported, ExportedBy
    <2>2. QED BY <1>1, <1>2, <1>3, <1>4, <2>1 DEF Knows
  <1>6. StillExported(t) \in BOOLEAN
    BY DEF StillExported
  <1>7. QED BY <1>1, <1>2, <1>4, <1>5, <1>6, ProceedKeeps DEF Locked

LEMMA IncludeIInv == ASSUME IInv, NEW t \in Task, Include(t) PROVE IInv'
  <1>1. /\ pc[t] = "include" /\ call[t] \in Call /\ call[t].op \in {"include", "install"}
        /\ call[t].p \in Project /\ lock = t
        /\ UNCHANGED <<lock, live, registry, call, rewritten, started>>
    BY DEF Include, IInv, TypeOK, Knows, Shape, Locked
  <1>2. presence' \in [Project -> {"present", "bare", "gone"}] /\ refs' \in [Project -> SUBSET Skill]
    <2>1. call[t].want \in SUBSET Skill
      BY <1>1 DEF Call
    <2>2. QED BY <1>1, <2>1 DEF Include, IInv, TypeOK
  <1>3. /\ pc' = [pc EXCEPT ![t] = "unlock"] /\ pc'[t] = "unlock"
        /\ call' = [call EXCEPT ![t] = call[t]] /\ call'[t] = call[t]
    BY <1>1 DEF Include, Goto, IInv, TypeOK
  <1>4. "unlock" \in Locked /\ AtWork("unlock", call[t].op) /\ AtWork("include", call[t].op)
    BY DEF AtWork, Locked
  <1>5. TypeOK'
    BY <1>1, <1>2, <1>3, <1>4, StepIsTyped DEF IInv, TypeOK
  <1>6. ASSUME NEW s \in Task PROVE Knows(s)'
    <2>1. CASE s = t
      BY <1>1, <1>3, <2>1 DEF IInv, Knows, Shape
    <2>2. CASE s # t
      <3>1. pc'[s] = pc[s] /\ call'[s] = call[s] /\ lock # s
        BY <1>1, <1>3, <2>2 DEF IInv, TypeOK
      <3>2. rewritten' = rewritten /\ rewritten' \in BOOLEAN
        BY <1>1 DEF IInv, TypeOK
      <3>3. QED BY <3>1, <3>2, OthersKnow
    <2>3. QED BY <2>1, <2>2
  <1>7. QED BY <1>5, <1>6 DEF IInv

LEMMA CheckNamesIInv == ASSUME IInv, NEW t \in Task, CheckNames(t) PROVE IInv'
  <1> DEFINE condition == (call[t].op = "install" <=> live[call[t].q] = Absent) /\ ~ Collides(t)
             step == IF call[t].op = "install" THEN "commit" ELSE "list"
             c == [call[t] EXCEPT !.ids = ExportedBy(call[t].q)]
  <1>1. /\ pc[t] = "names" /\ call[t] \in Call /\ call[t].op \in {"install", "update"} /\ Shape(t)
        /\ call[t].q \in Package /\ Proceed(t, condition, step)
    BY DEF CheckNames, IInv, TypeOK, Knows, Shape
  <1>2. ExportedBy(call[t].q) \in SUBSET Skill
    BY <1>1, ReferencesAssumption DEF ExportedBy, IInv, TypeOK
  <1>3. /\ c \in Call /\ c.op = call[t].op /\ c.p = call[t].p /\ c.q = call[t].q /\ c.v = call[t].v
        /\ c.want = call[t].want /\ c.seen = call[t].seen
    BY <1>1, <1>2 DEF Call
  <1>4. call' = [call EXCEPT ![t] = c]
    BY DEF CheckNames, IInv, TypeOK
  <1> HIDE DEF c
  <1>5. call'[t] = c /\ pc'[t] = (IF condition THEN step ELSE "unlock") /\ live' = live
    BY <1>1, <1>4 DEF Proceed, Goto, files, IInv, TypeOK
  <1>6. Shape(t)'
    BY <1>1, <1>3, <1>5 DEF Shape
  <1>7. Collides(t)' <=> Collides(t)
    BY <1>3, <1>5, SMTT(30) DEF Collides, OwnerAsSeen, Owners, ExportedBy
  <1>8. condition => Knows(t)'
    BY <1>1, <1>3, <1>5, <1>6, <1>7 DEF Knows
  <1>9. condition \in BOOLEAN
    BY DEF Collides
  <1>10. step \in Locked
    BY DEF Locked
  <1> HIDE DEF condition, step
  <1>11. QED BY <1>1, <1>3, <1>4, <1>6, <1>8, <1>9, <1>10, ProceedKeeps DEF Locked

LEMMA ListRootsIInv == ASSUME IInv, NEW t \in Task, ListRoots(t) PROVE IInv'
  <1> DEFINE c == [call[t] EXCEPT !.todo = registry]
  <1>1. /\ pc[t] = "list" /\ call[t] \in Call /\ call[t].op \in {"update", "uninstall"} /\ Shape(t)
        /\ Proceed(t, TRUE, "scan")
    BY DEF ListRoots, IInv, TypeOK, Knows, Shape
  <1>2. /\ c \in Call /\ c.op = call[t].op /\ c.p = call[t].p /\ c.q = call[t].q /\ c.v = call[t].v
        /\ c.want = call[t].want /\ c.seen = call[t].seen /\ c.todo = registry
    BY <1>1 DEF Call, IInv, TypeOK
  <1>3. call' = [call EXCEPT ![t] = c]
    BY DEF ListRoots, IInv, TypeOK
  <1> HIDE DEF c
  <1>4. call'[t] = c /\ pc'[t] = "scan" /\ UNCHANGED <<live, registry>>
    BY <1>1, <1>3 DEF Proceed, Goto, files, IInv, TypeOK
  <1>5. Shape(t)'
    BY <1>1, <1>2, <1>4 DEF Shape
  <1>6. Collides(t)' <=> Collides(t)
    BY <1>2, <1>4 DEF Collides, OwnerAsSeen, Owners, ExportedBy
  <1>7. Knows(t)'
    BY <1>1, <1>2, <1>4, <1>5, <1>6 DEF IInv, Knows
  <1>8. QED BY <1>1, <1>2, <1>3, <1>5, <1>7, ProceedKeeps DEF Locked

(* The roots that are scanned have given up what they name.                 *)
LEMMA ScanIInv == ASSUME IInv, NEW t \in Task, Scan(t) PROVE IInv'
  <1>1. pc[t] = "scan" /\ call[t] \in Call /\ call[t].op \in {"update", "uninstall"} /\ Shape(t)
    BY DEF Scan, IInv, TypeOK, Knows, Shape
  <1>2. CASE call[t].todo = {} /\ Proceed(t, TRUE, "commit") /\ UNCHANGED call
    <2>1. call' = [call EXCEPT ![t] = call[t]] /\ call'[t] = call[t] /\ pc'[t] = "commit"
          /\ UNCHANGED <<live, registry, refs, rewritten>>
      BY <1>2 DEF Proceed, Goto, files, IInv, TypeOK
    <2>2. Shape(t)'
      BY <1>1, <2>1 DEF Shape
    <2>3. Collides(t)' <=> Collides(t)
      BY <2>1 DEF Collides, OwnerAsSeen, Owners, ExportedBy
    <2>4. Knows(t)'
      BY <1>1, <1>2, <2>1, <2>2, <2>3 DEF IInv, Knows
    <2>5. QED BY <1>1, <1>2, <2>1, <2>2, <2>4, ProceedKeeps DEF Locked
  <1>3. ASSUME NEW p \in call[t].todo, Proceed(t, presence[p] = "present", "scan"),
               call' = [call EXCEPT ![t].todo = @ \ {p},
                                    ![t].found = @ \cup (refs[p] \cap call[t].ids)]
        PROVE  IInv'
    <2> DEFINE less == [call[t] EXCEPT !.todo = @ \ {p}]
               c == [less EXCEPT !.found = @ \cup (refs[p] \cap call[t].ids)]
    <2>1. p \in Project /\ refs[p] \in SUBSET Skill
      BY <1>1, <1>3 DEF Call, IInv, TypeOK
    <2>2. /\ less \in Call /\ less.op = call[t].op /\ less.p = call[t].p /\ less.q = call[t].q
          /\ less.v = call[t].v /\ less.want = call[t].want /\ less.seen = call[t].seen
          /\ less.ids = call[t].ids /\ less.todo = call[t].todo \ {p} /\ less.found = call[t].found
      BY <1>1 DEF Call
    <2>3. call' = [call EXCEPT ![t] = c]
      BY <1>1, <1>3, ZenonT(60) DEF IInv, TypeOK
    <2> HIDE DEF less
    <2>4. /\ c \in Call /\ c.op = call[t].op /\ c.p = call[t].p /\ c.q = call[t].q
          /\ c.v = call[t].v /\ c.want = call[t].want /\ c.seen = call[t].seen
          /\ c.ids = call[t].ids /\ c.todo = call[t].todo \ {p}
          /\ c.found = call[t].found \cup (refs[p] \cap call[t].ids)
      BY <2>1, <2>2 DEF Call
    <2> HIDE DEF c
    <2>5. call'[t] = c /\ pc'[t] \in {"scan", "unlock"} /\ UNCHANGED <<live, registry, refs, rewritten>>
      BY <1>3, <2>3 DEF Proceed, Goto, files, IInv, TypeOK
    <2>6. Shape(t)'
      BY <1>1, <2>4, <2>5 DEF Shape
    <2>7. Collides(t)' <=> Collides(t)
      BY <2>4, <2>5 DEF Collides, OwnerAsSeen, Owners, ExportedBy
    <2>8. rewritten \/ \A r \in registry \ c.todo : refs[r] \cap c.ids \subseteq c.found
      BY <1>1, <2>4 DEF IInv, Knows
    <2>9. Knows(t)'
      BY <1>1, <2>4, <2>5, <2>6, <2>7, <2>8 DEF IInv, Knows
    <2>10. Proceed(t, presence[p] = "present", "scan") /\ (presence[p] = "present") \in BOOLEAN
      BY <1>3
    <2>11. QED BY <1>1, <2>3, <2>4, <2>6, <2>9, <2>10, ProceedKeeps DEF Locked
  <1>4. QED BY <1>2, <1>3 DEF Scan

LEMMA CommitIInv == ASSUME IInv, NEW t \in Task, Commit(t) PROVE IInv'
  <1>1. /\ pc[t] = "commit" /\ call[t] \in Call /\ call[t].op \in {"install", "update", "uninstall"}
        /\ call[t].q \in Package /\ lock = t /\ Shape(t)
        /\ UNCHANGED <<lock, registry, presence, refs, call, rewritten, started>>
    BY DEF Commit, IInv, TypeOK, Knows, Shape, Locked
  <1>2. call[t].v \in DOMAIN Exports[call[t].q] \cup {Absent} /\ call[t].v \in Version \cup {Absent}
    BY <1>1, ReferencesAssumption DEF Shape
  <1>3. live' = live \/ live' = [live EXCEPT ![call[t].q] = call[t].v]
    BY DEF Commit
  <1>4. /\ live' \in [Package -> Version \cup {Absent}]
        /\ \A q \in Package : live'[q] \in DOMAIN Exports[q] \cup {Absent}
    BY <1>1, <1>2, <1>3 DEF IInv, TypeOK
  <1>5. \/ pc' = [pc EXCEPT ![t] = "unlock"]
        \/ /\ pc' = [pc EXCEPT ![t] = "include"] /\ call[t].p # None
           /\ live' = [live EXCEPT ![call[t].q] = call[t].v]
    BY DEF Commit, Goto
  <1>6. PICK step \in {"unlock", "include"} : pc' = [pc EXCEPT ![t] = step]
    BY <1>5
  <1>7. /\ step \in Locked /\ step # "idle" /\ AtWork(step, call[t].op) /\ AtWork("commit", call[t].op)
        /\ call' = [call EXCEPT ![t] = call[t]] /\ call'[t] = call[t] /\ pc'[t] = step
    BY <1>1, <1>6 DEF AtWork, Locked, IInv, TypeOK
  <1>8. TypeOK'
    BY <1>1, <1>4, <1>6, <1>7, StepIsTyped DEF IInv, TypeOK
  <1>9. Knows(t)'
    <2>1. CASE pc'[t] = "unlock"
      BY <1>1, <1>7, <2>1 DEF Knows, Shape
    <2>2. CASE pc'[t] = "include"
      <3>1. call[t].p # None /\ live' = [live EXCEPT ![call[t].q] = call[t].v]
        BY <1>1, <1>5, <2>2 DEF IInv, TypeOK
      <3>2. call[t].p \in Project /\ call[t].op = "install"
        BY <1>1, <3>1 DEF Call, Shape
      <3>3. live'[call[t].q] = call[t].v /\ call[t].v \in DOMAIN Exports[call[t].q]
        BY <1>1, <3>1, <3>2 DEF IInv, TypeOK, Shape
      <3>4. call[t].v # Absent /\ call[t].want = Exports[call[t].q][call[t].v]
        BY <1>1, <3>2, <3>3, ReferencesAssumption DEF Shape
      <3>5. (call[t].want \subseteq ExportedBy(call[t].q))'
        BY <1>7, <3>3, <3>4 DEF ExportedBy
      <3>6. QED BY <1>1, <1>7, <2>2, <3>2, <3>5 DEF Knows, Shape
    <2>3. QED BY <1>6, <1>7, <2>1, <2>2
  <1>10. ASSUME NEW s \in Task, s # t PROVE Knows(s)'
    <2>1. pc'[s] = pc[s] /\ call'[s] = call[s] /\ lock # s
      BY <1>1, <1>6, <1>7, <1>10 DEF IInv, TypeOK
    <2>2. rewritten' = rewritten /\ rewritten' \in BOOLEAN
      BY <1>1 DEF IInv, TypeOK
    <2>3. QED BY <2>1, <2>2, OthersKnow
  <1>11. QED BY <1>8, <1>9, <1>10 DEF IInv

(* Users only take references out.                                          *)
LEMMA UserIInv == ASSUME IInv, NEW p \in Project, Leave(p) \/ ComeBack(p) \/ Edit(p) PROVE IInv'
  <1>1. /\ UNCHANGED <<lock, live, registry, pc, call, rewritten, started>>
        /\ presence' \in [Project -> {"present", "bare", "gone"}]
        /\ refs' \in [Project -> SUBSET Skill]
        /\ \A r \in Project : refs'[r] \subseteq refs[r]
    BY DEF Leave, ComeBack, Edit, IInv, TypeOK
  <1>2. TypeOK'
    BY <1>1 DEF IInv, TypeOK
  <1>3. ASSUME NEW s \in Task PROVE Knows(s)'
    BY <1>1, OthersKnow DEF IInv, TypeOK
  <1>4. QED BY <1>2, <1>3 DEF IInv

LEMMA StutterIInv == ASSUME IInv, UNCHANGED vars PROVE IInv'
  <1>1. UNCHANGED <<lock, live, registry, presence, refs, pc, call, rewritten, started>>
    BY DEF vars, files
  <1>2. TypeOK'
    BY <1>1 DEF IInv, TypeOK
  <1>3. ASSUME NEW s \in Task PROVE Knows(s)'
    BY <1>1, OthersKnow DEF IInv, TypeOK
  <1>4. QED BY <1>2, <1>3 DEF IInv

-----------------------------------------------------------------------------
LEMMA InitIInv == Init => IInv
  <1> SUFFICES ASSUME Init PROVE IInv
    OBVIOUS
  <1>1. live \in [Package -> Version \cup {Absent}] /\ refs \in [Project -> SUBSET Skill]
    <2>1. Installed \subseteq Skill
      BY ReferencesAssumption DEF Init, Installed, ExportedBy
    <2>2. QED BY <2>1 DEF Init
  <1>2. \A t \in Task : pc[t] = "idle" /\ call[t].op = "none"
    BY DEF Init, NoCall
  <1>3. TypeOK
    <2>1. started \in 0 .. MaxCommands /\ lock = None
      BY ReferencesAssumption DEF Init
    <2>2. pc \in [Task -> Unlocked \cup Locked \cup {"load", "write"}] /\ call \in [Task -> Call]
      BY NoCallIsTyped DEF Init, Unlocked
    <2>3. \A t \in Task : lock # t /\ pc[t] \notin Locked /\ pc[t] \notin {"load", "write"}
      BY <1>2, <2>1, ReferencesAssumption DEF Locked
    <2>4. presence \in [Project -> {"present", "bare", "gone"}] /\ registry \in SUBSET Project
          /\ rewritten \in BOOLEAN /\ \A q \in Package : live[q] \in DOMAIN Exports[q] \cup {Absent}
      BY DEF Init
    <2>5. QED BY <1>1, <1>2, <2>1, <2>2, <2>3, <2>4 DEF TypeOK
  <1>4. \A t \in Task : Knows(t)
    BY <1>2 DEF Knows, Shape
  <1>5. QED BY <1>3, <1>4 DEF IInv

LEMMA NextIInv == IInv /\ [Next]_vars => IInv'
  <1> SUFFICES ASSUME IInv, [Next]_vars PROVE IInv'
    OBVIOUS
  <1>1. ASSUME NEW t \in Task, Start(t) PROVE IInv'
    BY <1>1, StartRegisterIInv, StartUnregisterIInv, StartPruneIInv, StartIncludeIInv,
       StartInstallIInv, StartUpdateIInv, StartUninstallIInv DEF Start
  <1>2. ASSUME NEW t \in Task, RegistryStep(t) PROVE IInv'
    BY <1>2, CheckRootIInv, InspectIInv, RecheckIInv, StatIInv, LoadIndexIInv, WriteIndexIInv
       DEF RegistryStep
  <1>3. ASSUME NEW t \in Task, PackageStep(t) PROVE IInv'
    BY <1>3, ValidateIInv, IncludeIInv, CheckNamesIInv, ListRootsIInv, ScanIInv, CommitIInv
       DEF PackageStep
  <1>4. ASSUME NEW t \in Task, EnterLock(t) \/ LeaveLock(t) \/ Crash(t) PROVE IInv'
    BY <1>4, EnterLockIInv, LeaveLockIInv, CrashIInv
  <1>5. QED BY <1>1, <1>2, <1>3, <1>4, UserIInv, StutterIInv DEF Next

LEMMA Invariant == Spec => []IInv
  BY InitIInv, NextIInv, PTL DEF Spec

-----------------------------------------------------------------------------
(* The files a step writes.                                                 *)
LEMMA RegistryIsWritten ==
  ASSUME IInv, Next, registry' # registry PROVE \E t \in Task : WriteIndex(t)
  <1>1. PICK t \in Task : Start(t) \/ EnterLock(t) \/ RegistryStep(t) \/ PackageStep(t)
                            \/ LeaveLock(t) \/ Crash(t)
    BY DEF Next, Leave, ComeBack, Edit
  <1>2. QED BY <1>1 DEF Start, StartRegister, StartUnregister, StartPrune, StartInclude, StartInstall,
    StartUpdate, StartUninstall, Begin, EnterLock, RegistryStep, CheckRoot, Inspect, Recheck, Stat,
    LoadIndex, Proceed, PackageStep, Validate, Include, CheckNames, ListRoots, Scan, Commit,
    LeaveLock, Crash, files

LEMMA PackagesAreCommitted ==
  ASSUME IInv, Next, live' # live PROVE \E t \in Task : Commit(t)
  <1>1. PICK t \in Task : Start(t) \/ EnterLock(t) \/ RegistryStep(t) \/ PackageStep(t)
                            \/ LeaveLock(t) \/ Crash(t)
    BY DEF Next, Leave, ComeBack, Edit
  <1>2. QED BY <1>1 DEF Start, StartRegister, StartUnregister, StartPrune, StartInclude, StartInstall,
    StartUpdate, StartUninstall, Begin, EnterLock, RegistryStep, CheckRoot, Inspect, Recheck, Stat,
    LoadIndex, WriteIndex, Proceed, PackageStep, Validate, Include, CheckNames, ListRoots, Scan,
    LeaveLock, Crash, files

LEMMA ReferencesAreIncluded ==
  ASSUME IInv, Next, NEW p \in Project, ~ refs'[p] \subseteq refs[p] PROVE \E t \in Task : Include(t)
  <1>1. CASE \E r \in Project : Leave(r) \/ ComeBack(r) \/ Edit(r)
    BY <1>1 DEF Leave, ComeBack, Edit, IInv, TypeOK
  <1>2. CASE \E t \in Task : Start(t) \/ EnterLock(t) \/ RegistryStep(t) \/ PackageStep(t)
                            \/ LeaveLock(t) \/ Crash(t)
    <2>1. PICK t \in Task : Start(t) \/ EnterLock(t) \/ RegistryStep(t) \/ PackageStep(t)
                            \/ LeaveLock(t) \/ Crash(t)
      BY <1>2
    <2>2. refs' # refs
      OBVIOUS
    <2>3. QED BY <2>1, <2>2 DEF Start, StartRegister, StartUnregister, StartPrune, StartInclude, StartInstall,
      StartUpdate, StartUninstall, Begin, EnterLock, RegistryStep, CheckRoot, Inspect, Recheck, Stat,
      LoadIndex, WriteIndex, Proceed, PackageStep, Validate, CheckNames, ListRoots, Scan, Commit,
      LeaveLock, Crash, files
  <1>3. QED BY <1>1, <1>2 DEF Next

-----------------------------------------------------------------------------
(* Every command is in one of the states the code puts it in.               *)
THEOREM TypeCorrect == Spec => []TypeOK
  BY Invariant, PTL DEF IInv

(* mutateProjectsIndex writes what it read under the lock: until a prune    *)
(* has rewritten projects.json outside it, no registration disappears but   *)
(* the one the holder of the lock unregisters.                              *)
THEOREM RegistrationsAreKept == Spec => NoRegistrationIsLost
  <1> DEFINE Step == ~ rewritten => \A p \in registry \ registry' : \E t \in Task :
                       call[t].op = "unregister" /\ call[t].p = p /\ lock = t
  <1>1. ASSUME IInv, Next PROVE Step
    <2> SUFFICES ASSUME ~ rewritten, NEW p \in registry \ registry'
                 PROVE  \E t \in Task : call[t].op = "unregister" /\ call[t].p = p /\ lock = t
      OBVIOUS
    <2>1. PICK t \in Task : WriteIndex(t)
      BY <1>1, RegistryIsWritten
    <2>2. call[t].op \in {"register", "unregister"} /\ call[t].index = registry /\ lock = t
      BY <1>1, <2>1 DEF WriteIndex, IInv, TypeOK, Knows, Shape
    <2>3. p \notin Wanted(t)
      BY <2>1 DEF WriteIndex
    <2>4. QED BY <2>2, <2>3 DEF Wanted
  <1>2. IInv /\ [Next]_vars => [Step]_vars
    BY <1>1
  <1>3. QED BY <1>2, Invariant, PTL DEF Spec, NoRegistrationIsLost

(* includeSkill looks the skill up again under the lock, and an install     *)
(* includes what it has just put there.                                     *)
THEOREM InclusionsAreInstalled == Spec => IncludedIsInstalled
  <1> DEFINE Step == \A p \in Project : refs'[p] \ refs[p] \subseteq Installed'
  <1>1. ASSUME IInv, Next PROVE Step
    <2> SUFFICES ASSUME NEW p \in Project, ~ refs'[p] \subseteq refs[p]
                 PROVE  refs'[p] \ refs[p] \subseteq Installed'
      OBVIOUS
    <2>1. PICK t \in Task : Include(t)
      BY <1>1, ReferencesAreIncluded
    <2>2. /\ call[t].want \subseteq ExportedBy(call[t].q) /\ call[t].q \in Package
          /\ live' = live
      BY <1>1, <2>1 DEF Include, IInv, Knows, Shape
    <2>3. call[t].want \subseteq Installed'
      BY <2>2 DEF Installed, ExportedBy
    <2>4. refs'[p] \ refs[p] \subseteq call[t].want
      BY <1>1, <2>1 DEF Include, IInv, TypeOK
    <2>5. QED BY <2>3, <2>4
  <1>2. IInv /\ [Next]_vars => [Step]_vars
    <2>1. UNCHANGED vars => UNCHANGED refs
      BY DEF vars, files
    <2>2. QED BY <1>1, <2>1
  <1>3. QED BY <1>2, Invariant, PTL DEF Spec, IncludedIsInstalled

(* What the inspection under the lock has seen of the project is still so   *)
(* when its registration is taken out.                                      *)
THEOREM UnregistrationsAreSafe == Spec => UnregisteredIsUnreferenced
  <1> DEFINE Step == \A t \in Task : call[t].op = "unregister" /\ call[t].p \in registry \ registry'
                       /\ pc[t] = "write" /\ pc'[t] # "write" =>
                         call[t].gone \/ refs[call[t].p] \cap Installed = {}
  <1>1. IInv => Step
    BY DEF IInv, Knows
  <1>2. QED BY <1>1, Invariant, PTL DEF UnregisteredIsUnreferenced

(* What assertInventoryUnreferenced has scanned it has scanned for all      *)
(* registered projects, and no reference has been added since: the skills   *)
(* it looked for are not taken away from under a project.                   *)
THEOREM ScansAreHeeded == Spec => ScannedReferencesAreKept
  <1> DEFINE Step == ~ rewritten => \A t \in Task, p \in Known :
       pc[t] = "commit" /\ pc'[t] # "commit" => refs[p] \cap TakenAway \cap call[t].ids = {}
  <1>1. ASSUME IInv, Next PROVE Step
    <2> SUFFICES ASSUME ~ rewritten, NEW t \in Task, NEW p \in Known, pc[t] = "commit",
                        NEW s \in refs[p] \cap TakenAway \cap call[t].ids
                 PROVE  FALSE
      OBVIOUS
    <2>1. live' # live
      BY DEF TakenAway, Installed, ExportedBy
    <2>2. PICK r \in Task : Commit(r)
      BY <1>1, <2>1, PackagesAreCommitted
    <2>3. r = t
      BY <1>1, <2>2 DEF Commit, IInv, TypeOK, Locked
    <2>4. /\ Shape(t) /\ call[t].q \in Package
          /\ live' = [live EXCEPT ![call[t].q] = call[t].v]
          /\ call[t].op # "install" => ~ Refused(t)
      BY <1>1, <2>1, <2>2, <2>3 DEF Commit, IInv, Knows, Shape
    <2>5. s \in Installed /\ s \notin Installed' /\ p \in registry
      BY DEF TakenAway, Known
    <2>6. PICK q \in Package : s \in ExportedBy(q) /\ s \notin ExportedBy(q)'
      BY <2>5 DEF Installed
    <2>7. q = call[t].q
      BY <1>1, <2>4, <2>6 DEF ExportedBy, IInv, TypeOK
    <2>8. CASE call[t].op = "install"
      BY <1>1, <2>6, <2>7, <2>8 DEF IInv, Knows, ExportedBy
    <2>9. CASE call[t].op # "install"
      <3>1. s \in call[t].found
        BY <1>1, <2>5, <2>9 DEF IInv, Knows
      <3>2. call[t].op = "update" /\ s \in Exports[call[t].q][call[t].v]
        BY <2>4, <2>9, <3>1 DEF Refused
      <3>3. live'[q] = call[t].v /\ call[t].v # Absent
        BY <1>1, <2>4, <2>7, <3>2, ReferencesAssumption DEF Shape, IInv, TypeOK
      <3>4. QED BY <2>6, <2>7, <3>2, <3>3 DEF ExportedBy
    <2>10. QED BY <2>8, <2>9
  <1>2. IInv /\ [Next]_vars => [Step]_vars
    BY <1>1
  <1>3. QED BY <1>2, Invariant, PTL DEF Spec, ScannedReferencesAreKept

(* The names are compared under the lock; only records that were read       *)
(* before it can hide a collision, and only from an update.                 *)
THEOREM CollisionsNeedStaleRecords == Spec => CollisionsAreStale
  <1> DEFINE Step == \A s \in Skill, q, r \in Package :
       q # r /\ {<<s, q>>, <<s, r>>} \subseteq Owners' =>
         \/ {<<s, q>>, <<s, r>>} \subseteq Owners
         \/ \E t \in Task : call[t].op = "update" /\ pc[t] = "commit"
                            /\ \E o \in call[t].seen \ Owners : o[1] = s
  <1>1. ASSUME IInv, Next PROVE Step
    <2> SUFFICES ASSUME NEW s \in Skill, NEW q \in Package, NEW r \in Package, q # r,
                        <<s, q>> \in Owners', <<s, r>> \in Owners', <<s, q>> \notin Owners
                 PROVE  \E t \in Task : call[t].op = "update" /\ pc[t] = "commit"
                                          /\ \E o \in call[t].seen \ Owners : o[1] = s
      OBVIOUS
    <2>1. s \in ExportedBy(q)' /\ s \in ExportedBy(r)' /\ s \notin ExportedBy(q)
      BY DEF Owners
    <2>2. live' # live
      BY <2>1 DEF ExportedBy
    <2>3. PICK t \in Task : Commit(t)
      BY <1>1, <2>2, PackagesAreCommitted
    <2>4. /\ pc[t] = "commit" /\ call[t] \in Call /\ Shape(t) /\ call[t].q \in Package
          /\ live' = [live EXCEPT ![call[t].q] = call[t].v]
      BY <1>1, <2>2, <2>3 DEF Commit, IInv, TypeOK, Knows, Shape
    <2>5. q = call[t].q
      BY <1>1, <2>1, <2>4 DEF ExportedBy, IInv, TypeOK
    <2>6. live'[q] = call[t].v /\ live'[r] = live[r]
      BY <1>1, <2>4, <2>5 DEF IInv, TypeOK
    <2>7. call[t].op \in {"install", "update"} /\ s \in Exports[q][call[t].v]
      BY <2>1, <2>4, <2>6 DEF ExportedBy, Shape
    <2>8. <<s, r>> \in Owners
      BY <2>1, <2>6 DEF Owners, ExportedBy
    <2>9. \A o \in OwnerAsSeen(t, s) : call[t].op = "update" /\ o[2] = q
      BY <1>1, <2>4, <2>5, <2>7 DEF IInv, Knows, Collides
    <2>10. PICK o \in call[t].seen : o[1] = s
      BY <2>8, <2>9 DEF OwnerAsSeen
    <2>11. o \in OwnerAsSeen(t, s)
      BY <2>10 DEF OwnerAsSeen
    <2>12. o = <<s, q>> /\ call[t].op = "update"
      BY <2>4, <2>9, <2>10, <2>11 DEF Call
    <2>13. QED BY <2>4, <2>10, <2>12
  <1>2. IInv /\ [Next]_vars => [Step]_vars
    <2>1. UNCHANGED vars => Owners' = Owners
      BY DEF vars, files, Owners, ExportedBy
    <2>2. QED BY <1>1, <2>1
  <1>3. QED BY <1>2, Invariant, PTL DEF Spec, CollisionsAreStale

(* Between them the checks under the inventory lock keep every reference    *)
(* they can see pointing at one installed skill.                            *)
THEOREM ReferencesHold == Spec => CheckedReferencesHold
  BY TypeCorrect, ScansAreHeeded, InclusionsAreInstalled, UnregistrationsAreSafe,
     CollisionsNeedStaleRecords, PTL DEF CheckedReferencesHold

-----------------------------------------------------------------------------
(* The store on disk (InventoryStore): at every moment, a crash included, it  *)
(* is whole, and the bytes of a version never change, for any number of       *)
(* processes, packages, records, tombstones and faults.                       *)
(*                                                                            *)
(* StoreIsWhole is not inductive.  That a pointer leads to a version rests on *)
(* what its writer has put there before; that a payload is named, on the      *)
(* holder of the lock being the only one that marks and moves; that nothing   *)
(* is left over without a fault, on whose it is meanwhile.                    *)

(* What a commit, the write of a record, a removal and a collection know    *)
(* at each of their steps.                                                  *)
CommitKnows(t) ==
  /\ at[t] \in {"mkdir", "place", "point"} =>
       memo[t].q \in Root /\ memo[t].v \in Number /\ memo[t].b \in Bytes
  /\ at[t] = "place" => contents[memo[t].q][memo[t].v] = Absent
  /\ at[t] = "point" => contents[memo[t].q][memo[t].v] = memo[t].b
  /\ at[t] \in {"place", "point"} => memo[t].q \in dirs

RecordKnows(t) ==
  /\ at[t] \in {"draft", "publish"} => memo[t].i \in Server
  /\ at[t] = "publish" => memo[t].n \in temps

RemovalKnows(t) ==
  /\ at[t] \in {"mark", "move", "empty", "unmark"} => memo[t].path \in Store!Path
  /\ at[t] \in {"mark", "move"} /\ memo[t].path.kind = "version" =>
       memo[t].path.v # current[memo[t].path.q]
  /\ at[t] \in {"move", "empty", "unmark"} => memo[t].id \in Id
  /\ at[t] \in {"move", "empty"} => metadata[memo[t].id] = memo[t].path
  /\ at[t] \in {"move", "unmark"} => memo[t].id \notin payload
  /\ at[t] = "empty" => ~ Store!OnDisk(memo[t].path)

CollectionKnows(t) ==
  /\ at[t] = "recover" => memo[t].todo \subseteq Id
  /\ at[t] = "recover" /\ faults = 0 => memo[t].todo = {}

(* Without a fault, whatever is half done is being worked on.               *)
HalfDoneIsOwned ==
  faults = 0 =>
    /\ \A n \in temps : \E t \in Task : at[t] = "publish" /\ memo[t].n = n
    /\ \A d \in Id : metadata[d] # None =>
         \E t \in Task : at[t] \in {"move", "empty", "unmark"} /\ memo[t].id = d
    /\ \A d \in payload : \E t \in Task : at[t] = "empty" /\ memo[t].id = d
    /\ \A q \in dirs : current[q] # Absent
         \/ \E t \in Task : at[t] \in {"place", "point"} /\ memo[t].q = q

(* What is in a package is under its root.                                  *)
ContentsHaveRoot == \A q \in Root : q \notin dirs => \A v \in Number : contents[q][v] = Absent

StoreKnows(t) == CommitKnows(t) /\ RecordKnows(t) /\ RemovalKnows(t) /\ CollectionKnows(t)

StoreInv ==
  /\ Store!TypeOK /\ Store!CurrentIsPresent /\ Store!PayloadIsNamed
  /\ ContentsHaveRoot /\ HalfDoneIsOwned
  /\ \A t \in Task : StoreKnows(t)

-----------------------------------------------------------------------------
(* A call that does nothing is a call.                                      *)
LEMMA StoreNoCallIsTyped == ASSUME Store!StoreAssumption PROVE Store!NoCall \in Store!Call
  BY DEF Store!StoreAssumption, Store!NoCall, Store!Call

(* Whoever is at work holds the lock, so the others are not at work.        *)
LEMMA OneAtWork ==
  ASSUME Store!TypeOK, NEW t \in Task, at[t] \notin {"idle", "read"}, NEW s \in Task, s # t
  PROVE  at[s] \in {"idle", "read"}
  BY DEF Store!TypeOK

(* A call that takes the lock.                                              *)
LEMMA BeginIsTyped ==
  ASSUME Store!StoreAssumption, Store!TypeOK, NEW t \in Task, NEW step \in Store!Steps \ {"idle",
  "read"},
         NEW how \in Store!Call, Store!Begin(t, step, how)
  PROVE  /\ Store!TypeOK'
         /\ at'[t] = step /\ memo'[t] = how
         /\ \A s \in Task : s # t => at'[s] \in {"idle", "read"}
  <1>1. \A s \in Task : at[s] \in {"idle", "read"}
    BY DEF Store!TypeOK, Store!Begin, Store!StoreAssumption
  <1>2. \A s \in Task : mutex' = s <=> at'[s] \notin {"idle", "read"}
    BY <1>1 DEF Store!TypeOK, Store!Begin, Store!Goto
  <1>3. at' \in [Task -> Store!Steps] /\ memo' \in [Task -> Store!Call] /\ mutex' \in Task \cup {None}
    BY DEF Store!TypeOK, Store!Begin, Store!Goto
  <1>4. QED BY <1>1, <1>2, <1>3 DEF Store!TypeOK, Store!Begin, Store!Goto, Store!packages,
                                    Store!library, Store!tombstones

(* A call that ends gives the lock back.                                    *)
LEMMA EndIsTyped ==
  ASSUME Store!StoreAssumption, Store!TypeOK, NEW t \in Task, Store!End(t)
  PROVE  /\ mutex' \in Task \cup {None} /\ at' \in [Task -> Store!Steps] /\ memo' \in [Task -> Store!Call]
         /\ \A s \in Task : mutex' = s <=> at'[s] \notin {"idle", "read"}
         /\ at[t] # "idle" /\ at[t] # "read" =>
              mutex' = None /\ \A s \in Task : at'[s] \in {"idle", "read"}
  <1>1. mutex' \in Task \cup {None} /\ at' \in [Task -> Store!Steps] /\ memo' \in [Task -> Store!Call]
    BY StoreNoCallIsTyped DEF Store!TypeOK, Store!End, Store!Goto, Store!Steps
  <1>2. \A s \in Task : mutex' = s <=> at'[s] \notin {"idle", "read"}
    BY DEF Store!TypeOK, Store!End, Store!Goto, Store!StoreAssumption
  <1>3. QED BY <1>1, <1>2 DEF Store!TypeOK, Store!End, Store!Goto, Store!StoreAssumption

(* Who begins finds nothing half done without a fault: the lock was free.   *)
LEMMA StoreBeginKeeps ==
  ASSUME Store!StoreAssumption, StoreInv, NEW t \in Task, NEW step \in Store!Steps \ {"idle", "read"},
         NEW how \in Store!Call, Store!Begin(t, step, how), StoreKnows(t)'
  PROVE  StoreInv'
  <1>1. /\ Store!TypeOK' /\ at'[t] = step
        /\ \A s \in Task : s # t => at'[s] \in {"idle", "read"}
    BY BeginIsTyped DEF StoreInv
  <1>2. Store!CurrentIsPresent' /\ Store!PayloadIsNamed' /\ ContentsHaveRoot'
    BY DEF StoreInv, Store!Begin, Store!packages, Store!library, Store!tombstones,
           Store!CurrentIsPresent, Store!PayloadIsNamed, ContentsHaveRoot
  <1>3. \A s \in Task : at[s] \in {"idle", "read"}
    BY DEF StoreInv, Store!TypeOK, Store!Begin, Store!StoreAssumption
  <1>4. HalfDoneIsOwned'
    BY <1>3 DEF StoreInv, Store!Begin, Store!packages, Store!library, Store!tombstones, HalfDoneIsOwned
  <1>5. ASSUME NEW s \in Task PROVE StoreKnows(s)'
    BY <1>1, <1>5 DEF StoreKnows, CommitKnows, RecordKnows, RemovalKnows, CollectionKnows
  <1>6. QED BY <1>1, <1>2, <1>4, <1>5 DEF StoreInv

LEMMA StartCommitStoreInv ==
  ASSUME Store!StoreAssumption, StoreInv, NEW t \in Task, Store!StartCommit(t) PROVE StoreInv'
  <1>1. PICK q \in Root, v \in Number, b \in Bytes :
          Store!Begin(t, "mkdir", [Store!NoCall EXCEPT !.op = "commit", !.q = q, !.v = v, !.b = b])
    BY DEF Store!StartCommit
  <1> DEFINE how == [Store!NoCall EXCEPT !.op = "commit", !.q = q, !.v = v, !.b = b]
  <1>2. how \in Store!Call /\ how.q = q /\ how.v = v /\ how.b = b
    BY StoreNoCallIsTyped DEF Store!Call
  <1>3. at'[t] = "mkdir" /\ memo'[t] = how
    BY <1>1, <1>2, BeginIsTyped DEF StoreInv, Store!Steps
  <1>4. StoreKnows(t)'
    BY <1>2, <1>3 DEF StoreKnows, CommitKnows, RecordKnows, RemovalKnows, CollectionKnows
  <1>5. QED BY <1>1, <1>2, <1>4, StoreBeginKeeps DEF Store!Steps

LEMMA StartRecordStoreInv ==
  ASSUME Store!StoreAssumption, StoreInv, NEW t \in Task, Store!StartRecord(t) PROVE StoreInv'
  <1>1. PICK i \in Server : Store!Begin(t, "draft", [Store!NoCall EXCEPT !.op = "record", !.i = i])
    BY DEF Store!StartRecord
  <1> DEFINE how == [Store!NoCall EXCEPT !.op = "record", !.i = i]
  <1>2. how \in Store!Call /\ how.i = i
    BY StoreNoCallIsTyped DEF Store!Call
  <1>3. at'[t] = "draft" /\ memo'[t] = how
    BY <1>1, <1>2, BeginIsTyped DEF StoreInv, Store!Steps
  <1>4. StoreKnows(t)'
    BY <1>2, <1>3 DEF StoreKnows, CommitKnows, RecordKnows, RemovalKnows, CollectionKnows
  <1>5. QED BY <1>1, <1>2, <1>4, StoreBeginKeeps DEF Store!Steps

LEMMA StartUninstallStoreInv ==
  ASSUME Store!StoreAssumption, StoreInv, NEW t \in Task, Store!StartUninstall(t) PROVE StoreInv'
  <1>1. PICK q \in Root :
          Store!Begin(t, "mark", [Store!NoCall EXCEPT !.op = "remove", !.path = [kind |-> "package", q |-> q]])
    BY DEF Store!StartUninstall
  <1> DEFINE path == [kind |-> "package", q |-> q]
             how == [Store!NoCall EXCEPT !.op = "remove", !.path = path]
  <1>2. path \in Store!Path /\ path.kind = "package"
    BY DEF Store!Path, Store!PackagePath
  <1> HIDE DEF path
  <1>3. how \in Store!Call /\ how.path = path
    BY <1>2, StoreNoCallIsTyped DEF Store!Call
  <1>4. at'[t] = "mark" /\ memo'[t] = how
    BY <1>1, <1>3, BeginIsTyped DEF StoreInv, Store!Steps, path
  <1>5. StoreKnows(t)'
    BY <1>2, <1>3, <1>4 DEF StoreKnows, CommitKnows, RecordKnows, RemovalKnows, CollectionKnows
  <1>6. QED BY <1>1, <1>3, <1>5, StoreBeginKeeps DEF Store!Steps, path

LEMMA StartRemoveStoreInv ==
  ASSUME Store!StoreAssumption, StoreInv, NEW t \in Task, Store!StartRemove(t) PROVE StoreInv'
  <1>1. PICK i \in records :
          Store!Begin(t, "mark", [Store!NoCall EXCEPT !.op = "remove", !.path = [kind |-> "server", i |-> i]])
    BY DEF Store!StartRemove
  <1> DEFINE path == [kind |-> "server", i |-> i]
             how == [Store!NoCall EXCEPT !.op = "remove", !.path = path]
  <1>2. path \in Store!Path /\ path.kind = "server"
    BY DEF Store!Path, Store!ServerPath, StoreInv, Store!TypeOK
  <1> HIDE DEF path
  <1>3. how \in Store!Call /\ how.path = path
    BY <1>2, StoreNoCallIsTyped DEF Store!Call
  <1>4. at'[t] = "mark" /\ memo'[t] = how
    BY <1>1, <1>3, BeginIsTyped DEF StoreInv, Store!Steps, path
  <1>5. StoreKnows(t)'
    BY <1>2, <1>3, <1>4 DEF StoreKnows, CommitKnows, RecordKnows, RemovalKnows, CollectionKnows
  <1>6. QED BY <1>1, <1>3, <1>5, StoreBeginKeeps DEF Store!Steps, path

(* Without a fault no tombstone waits for the collection.                   *)
LEMMA StartGcStoreInv ==
  ASSUME Store!StoreAssumption, StoreInv, NEW t \in Task, Store!StartGc(t) PROVE StoreInv'
  <1> DEFINE marked == {d \in Id : metadata[d] # None}
             how == [Store!NoCall EXCEPT !.op = "gc", !.todo = marked]
  <1>1. Store!Begin(t, "recover", how)
    BY DEF Store!StartGc
  <1>2. how \in Store!Call /\ how.todo = marked
    BY StoreNoCallIsTyped DEF Store!Call
  <1>3. at'[t] = "recover" /\ memo'[t] = how
    BY <1>1, <1>2, BeginIsTyped DEF StoreInv, Store!Steps
  <1>4. faults' = 0 => marked = {}
    BY <1>1 DEF StoreInv, Store!TypeOK, Store!Begin, HalfDoneIsOwned, Store!StoreAssumption
  <1>5. StoreKnows(t)'
    BY <1>2, <1>3, <1>4 DEF StoreKnows, CommitKnows, RecordKnows, RemovalKnows, CollectionKnows
  <1>6. QED BY <1>1, <1>2, <1>5, StoreBeginKeeps DEF Store!Steps

(* The root of a new package waits for its first version.                   *)
LEMMA MakeRootStoreInv ==
  ASSUME Store!StoreAssumption, StoreInv, NEW t \in Task, Store!MakeRoot(t) PROVE StoreInv'
  <1>1. /\ memo[t].q \in Root /\ memo[t].v \in Number /\ memo[t].b \in Bytes
        /\ at[t] = "mkdir" /\ \A s \in Task : s # t => at[s] \in {"idle", "read"}
    BY OneAtWork DEF Store!MakeRoot, StoreInv, StoreKnows, CommitKnows
  <1>2. Store!AfterMkdir(t) \in {"place", "point", "idle"}
    BY DEF Store!AfterMkdir
  <1>3. Store!TypeOK'
    <2>1. CASE Store!AfterMkdir(t) = "idle"
      BY <1>1, <2>1, EndIsTyped DEF Store!MakeRoot, StoreInv, Store!TypeOK, Store!library,
                                    Store!tombstones
    <2>2. CASE Store!AfterMkdir(t) # "idle"
      BY <1>1, <1>2, <2>2 DEF Store!MakeRoot, StoreInv, Store!TypeOK, Store!library, Store!tombstones,
                              Store!Goto, Store!Steps
    <2>3. QED BY <2>1, <2>2
  <1>4. Store!CurrentIsPresent' /\ Store!PayloadIsNamed' /\ ContentsHaveRoot'
    BY DEF StoreInv, Store!MakeRoot, Store!library, Store!tombstones, Store!CurrentIsPresent,
           Store!PayloadIsNamed, ContentsHaveRoot
  <1>5. HalfDoneIsOwned'
    BY <1>1, <1>2 DEF StoreInv, Store!TypeOK, Store!MakeRoot, Store!AfterMkdir, Store!Goto, Store!End,
                      Store!library, Store!tombstones, HalfDoneIsOwned, ContentsHaveRoot
  <1>6. ASSUME NEW s \in Task PROVE StoreKnows(s)'
    BY <1>1, <1>2, <1>6 DEF StoreInv, Store!TypeOK, Store!MakeRoot, Store!AfterMkdir, Store!Goto,
                            Store!End, Store!library, Store!tombstones,
      StoreKnows, CommitKnows, RecordKnows, RemovalKnows, CollectionKnows
  <1>7. QED BY <1>3, <1>4, <1>5, <1>6 DEF StoreInv

LEMMA PlaceStoreInv ==
  ASSUME Store!StoreAssumption, StoreInv, NEW t \in Task, Store!Place(t) PROVE StoreInv'
  <1>1. /\ memo[t].q \in Root /\ memo[t].v \in Number /\ memo[t].b \in Bytes
        /\ memo[t].q \in dirs /\ contents[memo[t].q][memo[t].v] = Absent
        /\ at[t] = "place" /\ \A s \in Task : s # t => at[s] \in {"idle", "read"}
    BY OneAtWork DEF Store!Place, StoreInv, StoreKnows, CommitKnows
  <1>2. Store!TypeOK'
    BY <1>1 DEF Store!Place, StoreInv, Store!TypeOK, Store!library, Store!tombstones, Store!Goto,
                Store!Steps
  <1>3. Store!CurrentIsPresent' /\ Store!PayloadIsNamed' /\ ContentsHaveRoot'
    BY <1>1 DEF Store!StoreAssumption, StoreInv, Store!TypeOK, Store!Place, Store!library,
                Store!tombstones, Store!CurrentIsPresent, Store!PayloadIsNamed, ContentsHaveRoot
  <1>4. HalfDoneIsOwned'
    BY <1>1 DEF StoreInv, Store!TypeOK, Store!Place, Store!Goto, Store!library, Store!tombstones,
                HalfDoneIsOwned
  <1>5. ASSUME NEW s \in Task PROVE StoreKnows(s)'
    BY <1>1, <1>5 DEF StoreInv, Store!TypeOK, Store!Place, Store!Goto, Store!library, Store!tombstones,
      StoreKnows, CommitKnows, RecordKnows, RemovalKnows, CollectionKnows
  <1>6. QED BY <1>2, <1>3, <1>4, <1>5 DEF StoreInv

LEMMA PointStoreInv ==
  ASSUME Store!StoreAssumption, StoreInv, NEW t \in Task, Store!Point(t) PROVE StoreInv'
  <1>1. /\ memo[t].q \in Root /\ memo[t].v \in Number /\ memo[t].b \in Bytes
        /\ contents[memo[t].q][memo[t].v] = memo[t].b
        /\ at[t] = "point" /\ \A s \in Task : at'[s] \in {"idle", "read"}
    BY EndIsTyped DEF Store!Point, StoreInv, StoreKnows, CommitKnows
  <1>2. Store!TypeOK'
    BY <1>1, EndIsTyped DEF Store!Point, StoreInv, Store!TypeOK, Store!library, Store!tombstones
  <1>3. Store!CurrentIsPresent' /\ Store!PayloadIsNamed' /\ ContentsHaveRoot'
    BY <1>1 DEF Store!StoreAssumption, StoreInv, Store!TypeOK, Store!Point, Store!library,
                Store!tombstones, Store!CurrentIsPresent, Store!PayloadIsNamed, ContentsHaveRoot
  <1>4. HalfDoneIsOwned'
    BY <1>1, OneAtWork DEF Store!StoreAssumption, StoreInv, Store!TypeOK, Store!Point, Store!library,
                           Store!tombstones, HalfDoneIsOwned
  <1>5. ASSUME NEW s \in Task PROVE StoreKnows(s)'
    BY <1>1, <1>5 DEF StoreKnows, CommitKnows, RecordKnows, RemovalKnows, CollectionKnows
  <1>6. QED BY <1>2, <1>3, <1>4, <1>5 DEF StoreInv

LEMMA DraftStoreInv ==
  ASSUME Store!StoreAssumption, StoreInv, NEW t \in Task, Store!Draft(t) PROVE StoreInv'
  <1>1. PICK n \in Temp \ temps : temps' = temps \cup {n} /\ memo' = [memo EXCEPT ![t].n = n]
    BY DEF Store!Draft
  <1>2. /\ memo[t].i \in Server /\ at[t] = "draft"
        /\ \A s \in Task : s # t => at[s] \in {"idle", "read"}
    BY OneAtWork DEF Store!Draft, StoreInv, StoreKnows, RecordKnows
  <1>3. memo' \in [Task -> Store!Call] /\ memo'[t].n = n /\ memo'[t].i = memo[t].i
    <2>1. memo[t] \in Store!Call /\ memo' = [memo EXCEPT ![t] = [memo[t] EXCEPT !.n = n]]
      BY <1>1 DEF StoreInv, Store!TypeOK
    <2>2. [memo[t] EXCEPT !.n = n] \in Store!Call /\ [memo[t] EXCEPT !.n = n].n = n
          /\ [memo[t] EXCEPT !.n = n].i = memo[t].i
      BY <2>1 DEF Store!Call
    <2>3. QED BY <2>1, <2>2 DEF StoreInv, Store!TypeOK
  <1>4. Store!TypeOK'
    BY <1>1, <1>2, <1>3 DEF Store!Draft, StoreInv, Store!TypeOK, Store!packages, Store!tombstones,
                            Store!Goto, Store!Steps
  <1>5. Store!CurrentIsPresent' /\ Store!PayloadIsNamed' /\ ContentsHaveRoot'
    BY DEF StoreInv, Store!Draft, Store!packages, Store!tombstones, Store!CurrentIsPresent,
           Store!PayloadIsNamed, ContentsHaveRoot
  <1>6. HalfDoneIsOwned'
    BY <1>1, <1>2, <1>3 DEF StoreInv, Store!TypeOK, Store!Draft, Store!Goto, Store!packages,
                            Store!tombstones, HalfDoneIsOwned
  <1>7. ASSUME NEW s \in Task PROVE StoreKnows(s)'
    BY <1>1, <1>2, <1>3, <1>7 DEF StoreInv, Store!TypeOK, Store!Draft, Store!Goto,
      StoreKnows, CommitKnows, RecordKnows, RemovalKnows, CollectionKnows
  <1>8. QED BY <1>4, <1>5, <1>6, <1>7 DEF StoreInv

LEMMA PublishStoreInv ==
  ASSUME Store!StoreAssumption, StoreInv, NEW t \in Task, Store!Publish(t) PROVE StoreInv'
  <1>1. /\ memo[t].i \in Server /\ at[t] = "publish"
        /\ \A s \in Task : at'[s] \in {"idle", "read"}
    BY EndIsTyped DEF Store!Publish, StoreInv, StoreKnows, RecordKnows
  <1>2. Store!TypeOK'
    BY <1>1, EndIsTyped DEF Store!Publish, StoreInv, Store!TypeOK, Store!packages, Store!tombstones
  <1>3. Store!CurrentIsPresent' /\ Store!PayloadIsNamed' /\ ContentsHaveRoot'
    BY DEF StoreInv, Store!Publish, Store!packages, Store!tombstones, Store!CurrentIsPresent,
           Store!PayloadIsNamed, ContentsHaveRoot
  <1>4. HalfDoneIsOwned'
    BY <1>1, OneAtWork DEF StoreInv, Store!TypeOK, Store!Publish, Store!packages, Store!tombstones,
                           HalfDoneIsOwned
  <1>5. ASSUME NEW s \in Task PROVE StoreKnows(s)'
    BY <1>1, <1>5 DEF StoreKnows, CommitKnows, RecordKnows, RemovalKnows, CollectionKnows
  <1>6. QED BY <1>2, <1>3, <1>4, <1>5 DEF StoreInv

(* Readers take no lock and change nothing on disk.                         *)
LEMMA StartReadStoreInv ==
  ASSUME Store!StoreAssumption, StoreInv, NEW t \in Task, Store!StartRead(t) PROVE StoreInv'
  <1> DEFINE how == [Store!NoCall EXCEPT !.op = "read", !.todo = records]
  <1>1. how \in Store!Call
    BY StoreNoCallIsTyped DEF Store!Call, StoreInv, Store!TypeOK
  <1> HIDE DEF how
  <1>2. \/ at' = at /\ memo' = memo
        \/ at' = [at EXCEPT ![t] = "read"] /\ memo' = [memo EXCEPT ![t] = how]
    BY DEF Store!StartRead, Store!Goto, how
  <1>3. Store!TypeOK'
    BY <1>1, <1>2 DEF Store!StartRead, StoreInv, Store!TypeOK, Store!packages, Store!library,
                      Store!tombstones, Store!Steps
  <1>4. Store!CurrentIsPresent' /\ Store!PayloadIsNamed' /\ ContentsHaveRoot'
    BY DEF StoreInv, Store!StartRead, Store!packages, Store!library, Store!tombstones,
           Store!CurrentIsPresent, Store!PayloadIsNamed, ContentsHaveRoot
  <1>5. HalfDoneIsOwned'
    BY <1>2 DEF StoreInv, Store!TypeOK, Store!StartRead, Store!packages, Store!library,
                Store!tombstones, HalfDoneIsOwned
  <1>6. ASSUME NEW s \in Task PROVE StoreKnows(s)'
    BY <1>2, <1>6 DEF StoreInv, Store!TypeOK, Store!StartRead, Store!packages, Store!library,
                      Store!tombstones, Store!OnDisk,
      StoreKnows, CommitKnows, RecordKnows, RemovalKnows, CollectionKnows
  <1>7. QED BY <1>3, <1>4, <1>5, <1>6 DEF StoreInv

LEMMA ReadRecordStoreInv ==
  ASSUME Store!StoreAssumption, StoreInv, NEW t \in Task, Store!ReadRecord(t) PROVE StoreInv'
  <1>1. CASE Store!End(t) /\ UNCHANGED faults /\ read' \in [Task -> {"none", "done", "failed"}]
    <2>1. Store!TypeOK'
      BY <1>1, EndIsTyped DEF Store!ReadRecord, StoreInv, Store!TypeOK, Store!packages, Store!library,
                              Store!tombstones
    <2>2. at' = [at EXCEPT ![t] = "idle"] /\ memo' = [memo EXCEPT ![t] = Store!NoCall] /\ at[t] = "read"
      BY <1>1 DEF Store!ReadRecord, Store!End, Store!Goto
    <2>3. Store!CurrentIsPresent' /\ Store!PayloadIsNamed' /\ ContentsHaveRoot'
      BY DEF StoreInv, Store!ReadRecord, Store!packages, Store!library, Store!tombstones,
             Store!CurrentIsPresent, Store!PayloadIsNamed, ContentsHaveRoot
    <2>4. HalfDoneIsOwned'
      BY <2>2 DEF StoreInv, Store!TypeOK, Store!ReadRecord, Store!packages, Store!library,
                  Store!tombstones, HalfDoneIsOwned
    <2>5. ASSUME NEW s \in Task PROVE StoreKnows(s)'
      BY <2>2, <2>5 DEF StoreInv, Store!TypeOK, Store!ReadRecord, Store!packages, Store!library,
                        Store!tombstones, Store!OnDisk,
        StoreKnows, CommitKnows, RecordKnows, RemovalKnows, CollectionKnows
    <2>6. QED BY <2>1, <2>3, <2>4, <2>5 DEF StoreInv
  <1>2. CASE UNCHANGED <<at, mutex, read, faults>>
             /\ \E i \in Server : memo' = [memo EXCEPT ![t].todo = @ \ {i}]
    <2>1. PICK i \in Server : memo' = [memo EXCEPT ![t].todo = @ \ {i}]
      BY <1>2
    <2>2. memo' \in [Task -> Store!Call] /\ \A s \in Task : s # t => memo'[s] = memo[s]
      <3>1. memo[t] \in Store!Call /\ memo' = [memo EXCEPT ![t] = [memo[t] EXCEPT !.todo = @ \ {i}]]
        BY <2>1 DEF StoreInv, Store!TypeOK
      <3>2. [memo[t] EXCEPT !.todo = @ \ {i}] \in Store!Call
        BY <3>1 DEF Store!Call
      <3>3. QED BY <3>1, <3>2 DEF StoreInv, Store!TypeOK
    <2>3. Store!CurrentIsPresent' /\ Store!PayloadIsNamed' /\ ContentsHaveRoot'
      BY DEF StoreInv, Store!ReadRecord, Store!packages, Store!library, Store!tombstones,
             Store!CurrentIsPresent, Store!PayloadIsNamed, ContentsHaveRoot
    <2>4. HalfDoneIsOwned'
      BY <1>2, <2>2 DEF StoreInv, Store!TypeOK, Store!ReadRecord, Store!packages, Store!library,
                        Store!tombstones, HalfDoneIsOwned
    <2>5. ASSUME NEW s \in Task PROVE StoreKnows(s)'
      <3>1. CommitKnows(s)'
        BY <1>2, <2>2, <2>5 DEF StoreInv, Store!TypeOK, Store!ReadRecord, Store!packages, Store!library,
                                Store!tombstones, StoreKnows, CommitKnows
      <3>2. RecordKnows(s)'
        BY <1>2, <2>2, <2>5 DEF StoreInv, Store!TypeOK, Store!ReadRecord, Store!packages, Store!library,
                                Store!tombstones, StoreKnows, RecordKnows
      <3>3. RemovalKnows(s)'
        BY <1>2, <2>2, <2>5 DEF StoreInv, Store!TypeOK, Store!ReadRecord, Store!packages, Store!library,
                                Store!tombstones, Store!OnDisk, StoreKnows, RemovalKnows
      <3>4. CollectionKnows(s)'
        BY <1>2, <2>2, <2>5 DEF StoreInv, Store!TypeOK, Store!ReadRecord, Store!packages, Store!library,
                                Store!tombstones, StoreKnows, CollectionKnows
      <3>5. QED BY <3>1, <3>2, <3>3, <3>4 DEF StoreKnows
    <2>6. Store!TypeOK'
      BY <1>2, <2>2 DEF StoreInv, Store!TypeOK, Store!ReadRecord, Store!packages, Store!library,
                        Store!tombstones
    <2>7. QED BY <2>3, <2>4, <2>5, <2>6 DEF StoreInv
  <1>3. QED BY <1>1, <1>2 DEF Store!ReadRecord, StoreInv, Store!TypeOK, Store!Call

(* A removal that is over: the collection goes on, other calls end.         *)
LEMMA RemovedIsTyped ==
  ASSUME Store!StoreAssumption, Store!TypeOK, NEW t \in Task, Store!Removed(t), at[t] \notin {"idle", "read"}
  PROVE  /\ mutex' \in Task \cup {None} /\ at' \in [Task -> Store!Steps] /\ memo' \in [Task -> Store!Call]
         /\ \A s \in Task : mutex' = s <=> at'[s] \notin {"idle", "read"}
         /\ \A s \in Task : at'[s] \in {"idle", "read", "sweep"}
  <1>1. CASE memo[t].op = "gc"
    <2>1. memo' = [memo EXCEPT ![t].path = None, ![t].id = None] /\ Store!Goto(t, "sweep") /\ UNCHANGED mutex
      BY <1>1 DEF Store!Removed
    <2>2. memo' = [memo EXCEPT ![t] = [memo[t] EXCEPT !.path = None, !.id = None]]
      BY <2>1 DEF Store!TypeOK
    <2>3. memo[t] \in Store!Call /\ [memo[t] EXCEPT !.path = None, !.id = None] \in Store!Call
      <3>1. memo[t] \in Store!Call
        BY DEF Store!TypeOK
      <3>2. [memo[t] EXCEPT !.path = None] \in Store!Call
        BY <3>1 DEF Store!Call
      <3>3. [[memo[t] EXCEPT !.path = None] EXCEPT !.id = None] \in Store!Call
        BY <3>2 DEF Store!Call
      <3>4. QED BY <3>1, <3>3
    <2>4. QED BY <2>1, <2>2, <2>3 DEF Store!TypeOK, Store!Goto, Store!Steps
  <1>2. CASE memo[t].op # "gc"
    BY <1>2, EndIsTyped DEF Store!Removed
  <1>3. QED BY <1>1, <1>2

LEMMA MarkStoreInv ==
  ASSUME Store!StoreAssumption, StoreInv, NEW t \in Task, Store!Mark(t) PROVE StoreInv'
  <1>1. PICK d \in Store!Free : metadata' = [metadata EXCEPT ![d] = memo[t].path] /\ memo' = [memo EXCEPT ![t].id = d]
    BY DEF Store!Mark
  <1>2. d \in Id /\ metadata[d] = None /\ d \notin payload
    BY DEF Store!Free
  <1>3. /\ memo[t].path \in Store!Path /\ at[t] = "mark"
        /\ \A s \in Task : s # t => at[s] \in {"idle", "read"}
    BY OneAtWork DEF Store!Mark, StoreInv, StoreKnows, RemovalKnows
  <1>4. memo' \in [Task -> Store!Call] /\ memo'[t].id = d /\ memo'[t].path = memo[t].path
    <2>1. memo[t] \in Store!Call /\ memo' = [memo EXCEPT ![t] = [memo[t] EXCEPT !.id = d]]
      BY <1>1 DEF StoreInv, Store!TypeOK
    <2>2. [memo[t] EXCEPT !.id = d] \in Store!Call /\ [memo[t] EXCEPT !.id = d].id = d
          /\ [memo[t] EXCEPT !.id = d].path = memo[t].path
      BY <1>2, <2>1 DEF Store!Call
    <2>3. QED BY <2>1, <2>2 DEF StoreInv, Store!TypeOK
  <1>5. metadata' \in [Id -> Store!Path \cup {None}] /\ metadata'[d] = memo[t].path
        /\ \A e \in Id : e # d => metadata'[e] = metadata[e]
    BY <1>1, <1>2, <1>3 DEF StoreInv, Store!TypeOK
  <1>6. Store!TypeOK'
    BY <1>3, <1>4, <1>5 DEF Store!Mark, StoreInv, Store!TypeOK, Store!packages, Store!library,
                            Store!Goto, Store!Steps
  <1>7. Store!CurrentIsPresent' /\ ContentsHaveRoot'
    BY DEF StoreInv, Store!Mark, Store!packages, Store!CurrentIsPresent, ContentsHaveRoot
  <1>8. Store!PayloadIsNamed'
    BY <1>2, <1>5 DEF StoreInv, Store!TypeOK, Store!Mark, Store!PayloadIsNamed
  <1>9. HalfDoneIsOwned'
    BY <1>2, <1>3, <1>4, <1>5 DEF StoreInv, Store!TypeOK, Store!Mark, Store!Goto, Store!packages,
                                  Store!library, HalfDoneIsOwned
  <1>10. ASSUME NEW s \in Task PROVE StoreKnows(s)'
    BY <1>2, <1>3, <1>4, <1>5, <1>10 DEF StoreInv, Store!TypeOK, Store!Mark, Store!Goto, Store!packages,
                                         Store!library,
      StoreKnows, CommitKnows, RecordKnows, RemovalKnows, CollectionKnows
  <1>11. QED BY <1>6, <1>7, <1>8, <1>9, <1>10 DEF StoreInv

(* What is moved away is no pointer's version.                              *)
LEMMA MoveStoreInv ==
  ASSUME Store!StoreAssumption, StoreInv, NEW t \in Task, Store!Move(t) PROVE StoreInv'
  <1>0. PICK path \in Store!Path, d \in Id : path = memo[t].path /\ d = memo[t].id
    BY DEF Store!Move, StoreInv, StoreKnows, RemovalKnows
  <1>1. /\ at[t] = "move" /\ metadata[d] = path /\ metadata[d] # None
        /\ \A s \in Task : s # t => at[s] \in {"idle", "read"}
        /\ path.kind = "version" => path.v # current[path.q]
    BY <1>0, OneAtWork DEF Store!Move, StoreInv, StoreKnows, RemovalKnows, Store!StoreAssumption
  <1>2. /\ path.kind = "package" => path.q \in Root
        /\ path.kind = "version" => path.q \in Root /\ path.v \in Number
    BY <1>1 DEF Store!Path, Store!PackagePath, Store!VersionPath, Store!ServerPath
  <1>3. /\ payload' = payload \cup {d} /\ at' = [at EXCEPT ![t] = "empty"]
        /\ UNCHANGED <<mutex, temps, metadata, memo, read, faults>>
    BY <1>0 DEF Store!Move, Store!Goto
  <1>4. /\ dirs' \in SUBSET Root
        /\ contents' \in [Root -> [Number -> Bytes \cup {Absent}]]
        /\ current' \in [Root -> Number \cup {Absent}]
        /\ records' \in SUBSET Server
        /\ Store!CurrentIsPresent' /\ ContentsHaveRoot' /\ ~ Store!OnDisk(path)'
        /\ \A q \in dirs' : q \in dirs /\ current'[q] = current[q]
    <2>1. CASE path.kind = "package" /\ Store!TakePackage(path.q)
      BY <1>1, <1>2, <2>1 DEF Store!TakePackage, StoreInv, Store!TypeOK, Store!CurrentIsPresent,
                              ContentsHaveRoot, Store!OnDisk
    <2>2. CASE path.kind = "version" /\ Store!TakeVersion(path.q, path.v)
      BY <1>1, <1>2, <2>2 DEF Store!TakeVersion, StoreInv, Store!TypeOK, Store!CurrentIsPresent,
                              ContentsHaveRoot, Store!OnDisk
    <2>3. CASE path.kind = "server" /\ Store!TakeRecord(path.i)
      BY <1>1, <2>3 DEF Store!TakeRecord, Store!packages, StoreInv, Store!TypeOK,
                        Store!CurrentIsPresent, ContentsHaveRoot, Store!OnDisk
    <2>4. QED BY <1>0, <2>1, <2>2, <2>3 DEF Store!Move
  <1>5. Store!TypeOK'
    BY <1>1, <1>3, <1>4 DEF StoreInv, Store!TypeOK, Store!Steps
  <1>6. Store!PayloadIsNamed'
    BY <1>1, <1>3 DEF StoreInv, Store!PayloadIsNamed
  <1>7. HalfDoneIsOwned'
    <2>1. at'[t] = "empty" /\ memo'[t].id = d /\ \A s \in Task : s # t => at'[s] = at[s]
      BY <1>0, <1>3 DEF StoreInv, Store!TypeOK
    <2> SUFFICES ASSUME faults = 0 PROVE HalfDoneIsOwned'
      BY <1>3 DEF HalfDoneIsOwned
    <2>2. temps = {} /\ payload = {} /\ \A e \in Id : metadata[e] # None => e = d
      BY <1>0, <1>1, SMTT(30) DEF StoreInv, Store!TypeOK, HalfDoneIsOwned
    <2>3. \A q \in dirs : current[q] # Absent
      BY <1>1 DEF StoreInv, HalfDoneIsOwned
    <2>4. QED BY <1>3, <1>4, <2>1, <2>2, <2>3 DEF HalfDoneIsOwned
  <1>8. ASSUME NEW s \in Task PROVE StoreKnows(s)'
    <2>1. Store!TypeOK /\ at[t] = "move"
      BY <1>0 DEF Store!Move, StoreInv
    <2>2. s # t => at[s] \in {"idle", "read"}
      BY <1>8, <2>1, OneAtWork
    <2>3. at'[t] = "empty" /\ (s # t => at'[s] = at[s]) /\ memo' = memo
      BY <1>3, <1>8, <2>1 DEF Store!TypeOK
    <2>4. s # t => StoreKnows(s)'
      BY <2>2, <2>3 DEF StoreKnows, CommitKnows, RecordKnows, RemovalKnows, CollectionKnows
    <2>5. CommitKnows(t)' /\ RecordKnows(t)' /\ CollectionKnows(t)'
      BY <2>3 DEF CommitKnows, RecordKnows, CollectionKnows
    <2>6. RemovalKnows(t)'
      BY <1>0, <1>1, <1>3, <1>4, <2>3 DEF RemovalKnows
    <2>7. QED BY <2>4, <2>5, <2>6 DEF StoreKnows
  <1>9. QED BY <1>4, <1>5, <1>6, <1>7, <1>8 DEF StoreInv

LEMMA EmptyStoreInv ==
  ASSUME Store!StoreAssumption, StoreInv, NEW t \in Task, Store!Empty(t) PROVE StoreInv'
  <1>1. /\ memo[t].path \in Store!Path /\ memo[t].id \in Id /\ at[t] = "empty"
        /\ \A s \in Task : s # t => at[s] \in {"idle", "read"}
    BY OneAtWork DEF Store!Empty, StoreInv, StoreKnows, RemovalKnows
  <1>2. Store!TypeOK'
    BY <1>1 DEF Store!Empty, StoreInv, Store!TypeOK, Store!packages, Store!library, Store!Goto,
                Store!Steps
  <1>3. Store!CurrentIsPresent' /\ Store!PayloadIsNamed' /\ ContentsHaveRoot'
    BY DEF StoreInv, Store!Empty, Store!packages, Store!library, Store!CurrentIsPresent,
           Store!PayloadIsNamed, ContentsHaveRoot
  <1>4. HalfDoneIsOwned'
    BY <1>1 DEF StoreInv, Store!TypeOK, Store!Empty, Store!Goto, Store!packages, Store!library,
                HalfDoneIsOwned
  <1>5. ASSUME NEW s \in Task PROVE StoreKnows(s)'
    BY <1>1, <1>5 DEF StoreInv, Store!TypeOK, Store!Empty, Store!Goto, Store!packages, Store!library,
                      StoreKnows, CommitKnows,
      RecordKnows, RemovalKnows, CollectionKnows
  <1>6. QED BY <1>2, <1>3, <1>4, <1>5 DEF StoreInv

LEMMA UnmarkStoreInv ==
  ASSUME Store!StoreAssumption, StoreInv, NEW t \in Task, Store!Unmark(t) PROVE StoreInv'
  <1> DEFINE d == memo[t].id
  <1>1. /\ d \in Id /\ d \notin payload /\ at[t] = "unmark" /\ Store!Removed(t)
        /\ metadata' = [metadata EXCEPT ![d] = None]
        /\ \A s \in Task : s # t => at[s] \in {"idle", "read"}
    BY OneAtWork DEF Store!Unmark, StoreInv, StoreKnows, RemovalKnows
  <1>2. \A s \in Task : at'[s] \in {"idle", "read", "sweep"}
    BY <1>1, RemovedIsTyped DEF StoreInv
  <1> HIDE DEF d
  <1>3. metadata' \in [Id -> Store!Path \cup {None}] /\ \A e \in Id : e # d => metadata'[e] = metadata[e]
    BY <1>1 DEF StoreInv, Store!TypeOK
  <1>4. Store!TypeOK'
    BY <1>1, <1>3, RemovedIsTyped DEF Store!Unmark, StoreInv, Store!TypeOK, Store!packages, Store!library
  <1>5. Store!CurrentIsPresent' /\ Store!PayloadIsNamed' /\ ContentsHaveRoot'
    BY <1>1, <1>3 DEF StoreInv, Store!TypeOK, Store!Unmark, Store!packages, Store!library,
                      Store!CurrentIsPresent, Store!PayloadIsNamed, ContentsHaveRoot
  <1>6. HalfDoneIsOwned'
    BY <1>1, <1>3 DEF StoreInv, Store!TypeOK, Store!Unmark, Store!packages, Store!library,
                      HalfDoneIsOwned, d
  <1>7. ASSUME NEW s \in Task PROVE StoreKnows(s)'
    BY <1>2, <1>7 DEF StoreKnows, CommitKnows, RecordKnows, RemovalKnows, CollectionKnows
  <1>8. QED BY <1>4, <1>5, <1>6, <1>7 DEF StoreInv

(* Recovery deletes a payload before the metadata that names it.            *)
LEMMA RecoverStoreInv ==
  ASSUME Store!StoreAssumption, StoreInv, NEW t \in Task, Store!Recover(t) PROVE StoreInv'
  <1>1. /\ at[t] = "recover" /\ memo[t].todo \subseteq Id
        /\ faults = 0 => memo[t].todo = {}
        /\ \A s \in Task : s # t => at[s] \in {"idle", "read"}
        /\ UNCHANGED <<mutex, dirs, contents, current, records, temps, read, faults>>
    BY OneAtWork DEF Store!Recover, StoreInv, StoreKnows, CollectionKnows, Store!packages, Store!library
  <1>2. Store!CurrentIsPresent' /\ ContentsHaveRoot'
    BY <1>1 DEF StoreInv, Store!CurrentIsPresent, ContentsHaveRoot
  <1>3. CASE Store!Goto(t, "sweep") /\ UNCHANGED <<memo, Store!tombstones>>
    <2>1. Store!TypeOK'
      BY <1>1, <1>3 DEF StoreInv, Store!TypeOK, Store!Goto, Store!tombstones, Store!Steps
    <2>2. Store!PayloadIsNamed' /\ HalfDoneIsOwned'
      BY <1>1, <1>3 DEF StoreInv, Store!TypeOK, Store!Goto, Store!tombstones, Store!PayloadIsNamed,
                        HalfDoneIsOwned
    <2>3. ASSUME NEW s \in Task PROVE StoreKnows(s)'
      BY <1>1, <1>3, <2>3 DEF StoreInv, Store!TypeOK, Store!Goto, StoreKnows, CommitKnows, RecordKnows,
                              RemovalKnows, CollectionKnows
    <2>4. QED BY <1>2, <2>1, <2>2, <2>3 DEF StoreInv
  <1>4. ASSUME NEW d \in memo[t].todo, payload' = payload \ Store!Dropped(d), UNCHANGED <<at, memo, metadata>>
        PROVE  StoreInv'
    <2>1. Store!TypeOK'
      BY <1>1, <1>4 DEF StoreInv, Store!TypeOK
    <2>2. Store!PayloadIsNamed' /\ HalfDoneIsOwned'
      BY <1>1, <1>4 DEF StoreInv, Store!PayloadIsNamed, HalfDoneIsOwned
    <2>3. ASSUME NEW s \in Task PROVE StoreKnows(s)'
      BY <1>1, <1>4, <2>3 DEF StoreInv, StoreKnows, CommitKnows, RecordKnows, RemovalKnows,
                              CollectionKnows
    <2>4. QED BY <1>2, <2>1, <2>2, <2>3 DEF StoreInv
  <1>5. ASSUME NEW d \in memo[t].todo, Store!Dropped(d) = {}, metadata' = [metadata EXCEPT ![d] = None],
               memo' = [memo EXCEPT ![t].todo = @ \ {d}], UNCHANGED <<at, payload>>
        PROVE  StoreInv'
    <2>1. memo' \in [Task -> Store!Call] /\ memo'[t].todo \subseteq Id
      <3>1. memo[t] \in Store!Call /\ memo' = [memo EXCEPT ![t] = [memo[t] EXCEPT !.todo = @ \ {d}]]
        BY <1>5 DEF StoreInv, Store!TypeOK
      <3>2. [memo[t] EXCEPT !.todo = @ \ {d}] \in Store!Call
            /\ [memo[t] EXCEPT !.todo = @ \ {d}].todo = memo[t].todo \ {d}
        BY <3>1 DEF Store!Call
      <3>3. QED BY <1>1, <3>1, <3>2 DEF StoreInv, Store!TypeOK
    <2>2. /\ metadata' \in [Id -> Store!Path \cup {None}] /\ d \in Id /\ d \notin payload
          /\ \A e \in Id : e # d => metadata'[e] = metadata[e]
      BY <1>1, <1>5 DEF StoreInv, Store!TypeOK, Store!Dropped
    <2>3. Store!TypeOK'
      BY <1>1, <1>5, <2>1, <2>2 DEF StoreInv, Store!TypeOK
    <2>4. Store!PayloadIsNamed'
      BY <1>5, <2>2 DEF StoreInv, Store!TypeOK, Store!PayloadIsNamed
    <2>5. HalfDoneIsOwned'
      BY <1>1, <1>5 DEF StoreInv, HalfDoneIsOwned
    <2>6. ASSUME NEW s \in Task PROVE StoreKnows(s)'
      BY <1>1, <1>5, <2>1, <2>6 DEF StoreInv, StoreKnows, CommitKnows, RecordKnows, RemovalKnows,
                                    CollectionKnows
    <2>7. QED BY <1>2, <2>3, <2>4, <2>5, <2>6 DEF StoreInv
  <1>6. QED BY <1>3, <1>4, <1>5 DEF Store!Recover

LEMMA SweepTempStoreInv ==
  ASSUME Store!StoreAssumption, StoreInv, NEW t \in Task, Store!SweepTemp(t) PROVE StoreInv'
  <1>1. /\ at[t] = "sweep" /\ temps' \subseteq temps
        /\ UNCHANGED <<mutex, dirs, contents, current, records, metadata, payload, at, memo, read, faults>>
    BY DEF Store!SweepTemp, Store!packages, Store!tombstones
  <1>2. \A s \in Task : s # t => at[s] \in {"idle", "read"}
    BY <1>1, OneAtWork DEF StoreInv
  <1>3. Store!TypeOK' /\ Store!CurrentIsPresent' /\ Store!PayloadIsNamed' /\ ContentsHaveRoot'
    BY <1>1 DEF StoreInv, Store!TypeOK, Store!CurrentIsPresent, Store!PayloadIsNamed, ContentsHaveRoot
  <1>4. HalfDoneIsOwned'
    BY <1>1 DEF StoreInv, HalfDoneIsOwned
  <1>5. ASSUME NEW s \in Task PROVE StoreKnows(s)'
    BY <1>1, <1>2, <1>5 DEF StoreInv, StoreKnows, CommitKnows, RecordKnows, RemovalKnows, CollectionKnows
  <1>6. QED BY <1>3, <1>4, <1>5 DEF StoreInv

LEMMA SweepVersionStoreInv ==
  ASSUME Store!StoreAssumption, StoreInv, NEW t \in Task, Store!SweepVersion(t) PROVE StoreInv'
  <1>1. PICK q \in Root, v \in Number :
          /\ at[t] = "sweep" /\ Store!Superseded(q, v) /\ Store!Goto(t, "mark")
          /\ memo' = [memo EXCEPT ![t].path = [kind |-> "version", q |-> q, v |-> v]]
          /\ UNCHANGED <<mutex, dirs, contents, current, records, temps, metadata, payload, read, faults>>
    BY DEF Store!SweepVersion, Store!packages, Store!library, Store!tombstones
  <1> DEFINE path == [kind |-> "version", q |-> q, v |-> v]
  <1>2. path \in Store!Path /\ path.kind = "version" /\ path.q = q /\ path.v = v
    BY DEF Store!Path, Store!VersionPath
  <1> HIDE DEF path
  <1>3. memo' \in [Task -> Store!Call] /\ memo'[t].path = path
    <2>1. memo[t] \in Store!Call /\ memo' = [memo EXCEPT ![t] = [memo[t] EXCEPT !.path = path]]
      BY <1>1 DEF StoreInv, Store!TypeOK, path
    <2>2. [memo[t] EXCEPT !.path = path] \in Store!Call /\ [memo[t] EXCEPT !.path = path].path = path
      BY <1>2, <2>1 DEF Store!Call
    <2>3. QED BY <2>1, <2>2 DEF StoreInv, Store!TypeOK
  <1>4. \A s \in Task : s # t => at[s] \in {"idle", "read"}
    BY <1>1, OneAtWork DEF StoreInv
  <1>5. Store!TypeOK' /\ Store!CurrentIsPresent' /\ Store!PayloadIsNamed' /\ ContentsHaveRoot'
    BY <1>1, <1>3 DEF StoreInv, Store!TypeOK, Store!Goto, Store!Steps, Store!CurrentIsPresent,
                      Store!PayloadIsNamed, ContentsHaveRoot
  <1>6. HalfDoneIsOwned'
    BY <1>1, <1>4 DEF StoreInv, Store!TypeOK, Store!Goto, HalfDoneIsOwned
  <1>7. ASSUME NEW s \in Task PROVE StoreKnows(s)'
    BY <1>1, <1>2, <1>3, <1>4, <1>7 DEF StoreInv, Store!TypeOK, Store!Goto, Store!Superseded,
      StoreKnows, CommitKnows, RecordKnows, RemovalKnows, CollectionKnows
  <1>8. QED BY <1>5, <1>6, <1>7 DEF StoreInv

LEMMA EndGcStoreInv ==
  ASSUME Store!StoreAssumption, StoreInv, NEW t \in Task, Store!EndGc(t) PROVE StoreInv'
  <1>1. /\ at[t] = "sweep" /\ \A s \in Task : at'[s] \in {"idle", "read"}
        /\ UNCHANGED <<dirs, contents, current, records, temps, metadata, payload, read, faults>>
    BY EndIsTyped DEF Store!EndGc, StoreInv, Store!packages, Store!library, Store!tombstones
  <1>2. Store!TypeOK'
    BY <1>1, EndIsTyped DEF Store!EndGc, StoreInv, Store!TypeOK
  <1>3. Store!CurrentIsPresent' /\ Store!PayloadIsNamed' /\ ContentsHaveRoot'
    BY <1>1 DEF StoreInv, Store!CurrentIsPresent, Store!PayloadIsNamed, ContentsHaveRoot
  <1>4. HalfDoneIsOwned'
    BY <1>1, OneAtWork DEF StoreInv, HalfDoneIsOwned
  <1>5. ASSUME NEW s \in Task PROVE StoreKnows(s)'
    BY <1>1, <1>5 DEF StoreKnows, CommitKnows, RecordKnows, RemovalKnows, CollectionKnows
  <1>6. QED BY <1>2, <1>3, <1>4, <1>5 DEF StoreInv

(* A fault leaves half of the work, but pointers and names as they were.    *)
LEMMA ThrowStoreInv ==
  ASSUME Store!StoreAssumption, StoreInv, NEW t \in Task, Store!Throw(t) PROVE StoreInv'
  <1>1. /\ at[t] \notin {"idle", "read"} /\ faults' \in 0..MaxFaults /\ faults' # 0
        /\ UNCHANGED <<dirs, contents, current, records, payload, read>>
        /\ Store!Removed(t) \/ Store!End(t)
    BY DEF Store!Throw, StoreInv, Store!TypeOK, Store!StoreAssumption, Store!packages
  <1>2. /\ mutex' \in Task \cup {None} /\ at' \in [Task -> Store!Steps] /\ memo' \in [Task -> Store!Call]
        /\ \A s \in Task : mutex' = s <=> at'[s] \notin {"idle", "read"}
        /\ \A s \in Task : at'[s] \in {"idle", "read", "sweep"}
    BY <1>1, EndIsTyped, RemovedIsTyped DEF StoreInv
  <1>3. metadata' \in [Id -> Store!Path \cup {None}] /\ temps' \in SUBSET Temp
    BY DEF Store!Throw, StoreInv, Store!TypeOK
  <1>4. Store!PayloadIsNamed'
    BY <1>1 DEF Store!Throw, StoreInv, Store!TypeOK, StoreKnows, RemovalKnows, Store!PayloadIsNamed
  <1>5. Store!TypeOK'
    BY <1>1, <1>2, <1>3 DEF StoreInv, Store!TypeOK
  <1>6. Store!CurrentIsPresent' /\ ContentsHaveRoot' /\ HalfDoneIsOwned'
    BY <1>1 DEF StoreInv, Store!CurrentIsPresent, ContentsHaveRoot, HalfDoneIsOwned
  <1>7. ASSUME NEW s \in Task PROVE StoreKnows(s)'
    BY <1>2, <1>7 DEF StoreKnows, CommitKnows, RecordKnows, RemovalKnows, CollectionKnows
  <1>8. QED BY <1>4, <1>5, <1>6, <1>7 DEF StoreInv

LEMMA CrashStoreInv ==
  ASSUME Store!StoreAssumption, StoreInv, NEW t \in Task, Store!Crash(t) PROVE StoreInv'
  <1>1. /\ at[t] \notin {"idle", "read"} /\ faults' \in 0..MaxFaults /\ faults' # 0 /\ Store!End(t)
        /\ UNCHANGED <<dirs, contents, current, records, temps, metadata, payload, read>>
    BY DEF Store!Crash, StoreInv, Store!TypeOK, Store!StoreAssumption, Store!packages, Store!library,
           Store!tombstones
  <1>2. Store!TypeOK' /\ \A s \in Task : at'[s] \in {"idle", "read"}
    BY <1>1, EndIsTyped DEF StoreInv, Store!TypeOK
  <1>3. Store!CurrentIsPresent' /\ Store!PayloadIsNamed' /\ ContentsHaveRoot' /\ HalfDoneIsOwned'
    BY <1>1 DEF StoreInv, Store!CurrentIsPresent, Store!PayloadIsNamed, ContentsHaveRoot, HalfDoneIsOwned
  <1>4. ASSUME NEW s \in Task PROVE StoreKnows(s)'
    BY <1>2, <1>4 DEF StoreKnows, CommitKnows, RecordKnows, RemovalKnows, CollectionKnows
  <1>5. QED BY <1>2, <1>3, <1>4 DEF StoreInv

-----------------------------------------------------------------------------
LEMMA InitStoreInv == ASSUME Store!StoreAssumption, Store!Init PROVE StoreInv
  <1>1. Store!TypeOK
    BY StoreNoCallIsTyped DEF Store!Init, Store!TypeOK, Store!StoreAssumption, Store!Steps
  <1>2. Store!CurrentIsPresent /\ Store!PayloadIsNamed /\ ContentsHaveRoot /\ HalfDoneIsOwned
    BY DEF Store!Init, Store!CurrentIsPresent, Store!PayloadIsNamed, ContentsHaveRoot, HalfDoneIsOwned
  <1>3. \A t \in Task : StoreKnows(t)
    BY DEF Store!Init, StoreKnows, CommitKnows, RecordKnows, RemovalKnows, CollectionKnows
  <1>4. QED BY <1>1, <1>2, <1>3 DEF StoreInv

LEMMA StutterStoreInv == ASSUME StoreInv, UNCHANGED Store!vars PROVE StoreInv'
  <1>1. Store!TypeOK' /\ Store!CurrentIsPresent' /\ Store!PayloadIsNamed' /\ ContentsHaveRoot' /\ HalfDoneIsOwned'
    BY DEF Store!vars, StoreInv, Store!TypeOK, Store!CurrentIsPresent, Store!PayloadIsNamed,
           ContentsHaveRoot, HalfDoneIsOwned
  <1>2. ASSUME NEW t \in Task PROVE StoreKnows(t)'
    BY <1>2 DEF Store!vars, StoreInv, Store!OnDisk, StoreKnows, CommitKnows, RecordKnows, RemovalKnows,
                CollectionKnows
  <1>3. QED BY <1>1, <1>2 DEF StoreInv

LEMMA NextStoreInv == ASSUME Store!StoreAssumption, StoreInv, [Store!Next]_(Store!vars) PROVE StoreInv'
  <1>1. ASSUME NEW t \in Task, Store!Write(t) PROVE StoreInv'
    BY <1>1, StartCommitStoreInv, MakeRootStoreInv, PlaceStoreInv, PointStoreInv, StartRecordStoreInv,
       DraftStoreInv, PublishStoreInv
      DEF Store!Write
  <1>2. ASSUME NEW t \in Task, Store!Delete(t) PROVE StoreInv'
    BY <1>2, StartUninstallStoreInv, StartRemoveStoreInv, MarkStoreInv, MoveStoreInv, EmptyStoreInv,
       UnmarkStoreInv
      DEF Store!Delete
  <1>3. ASSUME NEW t \in Task, Store!Collect(t) PROVE StoreInv'
    BY <1>3, StartGcStoreInv, RecoverStoreInv, SweepTempStoreInv, SweepVersionStoreInv, EndGcStoreInv
      DEF Store!Collect
  <1>4. ASSUME NEW t \in Task, Store!StartRead(t) \/ Store!ReadRecord(t) \/ Store!Throw(t) \/ Store!Crash(t)
        PROVE  StoreInv'
    BY <1>4, StartReadStoreInv, ReadRecordStoreInv, ThrowStoreInv, CrashStoreInv
  <1>5. QED BY <1>1, <1>2, <1>3, <1>4, StutterStoreInv DEF Store!Next

LEMMA StoreInvariant == ASSUME Store!StoreAssumption PROVE Store!Spec => []StoreInv
  BY InitStoreInv, NextStoreInv, PTL DEF Store!Spec

(* Where nothing is half done, no removal stands between its two states.    *)
LEMMA WholeFromStoreInv == ASSUME Store!StoreAssumption, StoreInv PROVE Store!StoreIsWhole
  <1> SUFFICES ASSUME faults = 0
               PROVE  /\ \A d \in Id : ~ Store!Ambiguous(d)
                      /\ mutex = None =>
                           /\ temps = {} /\ payload = {} /\ \A d \in Id : metadata[d] = None
                           /\ \A q \in dirs : current[q] # Absent
    BY DEF StoreInv, Store!StoreIsWhole, Store!DebrisNeedsFault
  <1>1. ASSUME NEW d \in Id, d \in payload PROVE ~ Store!OnDisk(metadata[d])
    <2>1. PICK t \in Task : at[t] = "empty" /\ memo[t].id = d
      BY <1>1 DEF StoreInv, HalfDoneIsOwned
    <2>2. QED BY <2>1 DEF StoreInv, StoreKnows, RemovalKnows
  <1>2. mutex = None => \A t \in Task : at[t] \in {"idle", "read"}
    BY DEF StoreInv, Store!TypeOK, Store!StoreAssumption
  <1>3. mutex = None =>
          /\ temps = {} /\ payload = {} /\ \A d \in Id : metadata[d] = None
          /\ \A q \in dirs : current[q] # Absent
    BY <1>2 DEF StoreInv, Store!TypeOK, HalfDoneIsOwned
  <1>4. QED BY <1>1, <1>3 DEF Store!Ambiguous

-----------------------------------------------------------------------------
(* In the composition the store is the InventoryStore of its own module:    *)
(* the references and the transfers leave it alone.                         *)
LEMMA StoreIsAPart == InventorySpec => Store!Spec
  <1>1. InventoryInit => Store!Init
    BY DEF InventoryInit
  <1>2. [InventoryNext]_all => [Store!Next]_(Store!vars)
    BY DEF InventoryNext, all, store, Store!vars
  <1>3. QED BY <1>1, <1>2, PTL DEF InventorySpec, Store!Spec

(* commitSkillBundleRoot, tombstoneInventoryPath and the garbage collection *)
(* leave the inventory whole at every moment, a crash or an error included, *)
(* and whatever else is done to it: a pointer leads to a version, a payload *)
(* is named, and only a fault leaves anything half done behind.             *)
THEOREM StoreStaysWhole == InventorySpec => []StoreIsWhole
  <1>1. StoreInv => Store!StoreIsWhole
    BY WholeFromStoreInv, InventoryStoreAssumption
  <1>2. Store!Spec => []StoreInv
    BY StoreInvariant, InventoryStoreAssumption
  <1>3. QED BY <1>1, <1>2, StoreIsAPart, PTL DEF StoreIsWhole

(* A version is placed where nothing is, and never rewritten: an update, a  *)
(* removal or a sweep makes its bytes go, nothing makes them change.        *)
LEMMA ImmutableInStore == ASSUME Store!StoreAssumption PROVE Store!Spec => Store!VersionsAreImmutable
  <1> DEFINE Step == \A q \in Root, v \in Number :
       contents'[q][v] \in {contents[q][v]} \cup (IF contents[q][v] = Absent THEN Bytes ELSE {Absent})
  <1>1. ASSUME StoreInv, Store!Next PROVE Step
    <2>1. PICK t \in Task : Store!Write(t) \/ Store!Delete(t) \/ Store!Collect(t)
                              \/ Store!StartRead(t) \/ Store!ReadRecord(t) \/ Store!Throw(t) \/ Store!Crash(t)
      BY <1>1 DEF Store!Next
    <2>2. CASE Store!Place(t)
      BY <1>1, <2>2 DEF Store!Place, StoreInv, Store!TypeOK, StoreKnows, CommitKnows
    <2>3. CASE Store!Move(t)
      <3>1. PICK path \in Store!Path : path = memo[t].path
        BY <1>1, <2>3 DEF Store!Move, StoreInv, StoreKnows, RemovalKnows
      <3>2. CASE path.kind = "package" /\ Store!TakePackage(path.q)
        BY <1>1, <3>2 DEF Store!TakePackage, StoreInv, Store!TypeOK
      <3>3. CASE path.kind = "version" /\ Store!TakeVersion(path.q, path.v)
        BY <1>1, <3>3 DEF Store!TakeVersion, StoreInv, Store!TypeOK
      <3>4. CASE path.kind = "server" /\ Store!TakeRecord(path.i)
        BY <3>4 DEF Store!TakeRecord, Store!packages
      <3>5. QED BY <2>3, <3>1, <3>2, <3>3, <3>4 DEF Store!Move
    <2>4. CASE contents' = contents
      BY <2>4
    <2>5. QED BY <2>1, <2>2, <2>3, <2>4 DEF Store!Write, Store!Delete, Store!Collect, Store!Begin,
                                            Store!StartCommit, Store!MakeRoot,
      Store!Point, Store!StartRecord, Store!Draft, Store!Publish, Store!StartUninstall,
      Store!StartRemove, Store!Mark, Store!Empty, Store!Unmark, Store!StartGc,
      Store!Recover, Store!SweepTemp, Store!SweepVersion, Store!EndGc, Store!StartRead,
      Store!ReadRecord, Store!Throw, Store!Crash, Store!packages
  <1>2. StoreInv /\ [Store!Next]_(Store!vars) => [Step]_(Store!vars)
    BY <1>1
  <1>3. QED BY <1>2, StoreInvariant, PTL DEF Store!Spec, Store!VersionsAreImmutable

(* No step of any of the three parts changes the bytes of a stored version. *)
THEOREM StoredVersionsStay == InventorySpec => VersionsAreImmutable
  <1>1. Store!Spec => Store!VersionsAreImmutable
    BY ImmutableInStore, InventoryStoreAssumption
  <1>2. QED BY <1>1, StoreIsAPart DEF VersionsAreImmutable

-----------------------------------------------------------------------------
(* InventoryTransfer.  Who installs holds the lock, so that what he found   *)
(* under it is still so but for what he has installed since.               *)
TransferPlaces == {"idle", "hash", "read", "verify", "lock", "install", "publish"}
TransferTyped ==
  /\ inventory \in Transfer!Inventory /\ holder \in Task \cup {None}
  /\ archive \in Transfer!Inventory \cup {None}
  /\ bundle \in [Task -> Transfer!Inventory] /\ stamp \in [Task -> Transfer!Inventory]
  /\ glimpsed \in [Task -> Transfer!Inventory] /\ unread \in [Task -> SUBSET Transfer!Item]
  /\ DOMAIN accepted = Task /\ place \in [Task -> TransferPlaces] /\ edits \in Nat

Agreed(t) ==
  /\ place[t] \in {"verify", "lock", "install"} => Transfer!ConflictFree(accepted[t])
  /\ place[t] = "install" <=> holder = t

Installing(t) == holder = t =>
  /\ unread[t] \subseteq Transfer!Missing(accepted[t])
  /\ unread[t] \subseteq Transfer!Has(bundle[t])
  /\ \A i \in Transfer!Has(bundle[t]) :
       IF i \in unread[t] THEN inventory[i] = None ELSE inventory[i] = bundle[t][i]
  /\ Transfer!Has(inventory) \ Transfer!Has(bundle[t]) = accepted[t].extras

TransferInv ==
  /\ TransferTyped /\ Transfer!SkillsHaveOneOwner
  /\ \A t \in Task : Agreed(t) /\ Installing(t)

LEMMA TransferConstants ==
  /\ None \notin Task /\ Incoming \subseteq Transfer!Inventory
  /\ Transfer!Empty \in Transfer!Inventory
  BY TransferAssumption DEF Transfer!TransferAssumption, Transfer!Empty, Transfer!Inventory

LEMMA TransferStart == Transfer!Init => TransferInv
  <1> SUFFICES ASSUME Transfer!Init PROVE TransferInv
    OBVIOUS
  <1>1. TransferTyped
    BY TransferConstants
    DEF TransferTyped, Transfer!Init, Transfer!Inventories, TransferPlaces, Transfer!Empty
  <1>2. Transfer!SkillsHaveOneOwner
    BY DEF Transfer!Init, Transfer!Inventories, Transfer!SkillsHaveOneOwner
  <1>3. ASSUME NEW t \in Task PROVE Agreed(t) /\ Installing(t)
    BY TransferConstants DEF Transfer!Init, Agreed, Installing
  <1>4. QED BY <1>1, <1>2, <1>3 DEF TransferInv

(* One more entry whose skills nobody owns. *)
LEMMA OneOwnerEach ==
  ASSUME NEW inv \in Transfer!Inventory, Transfer!WellFormed(inv), NEW i \in Transfer!Item, NEW v,
         i \in Package =>
           \A p \in Transfer!Has(inv) \cap Package : ~ Transfer!Clash(i, p)
  PROVE  Transfer!WellFormed([inv EXCEPT ![i] = v])
  <1> DEFINE new == [inv EXCEPT ![i] = v]
  <1>1. \A p \in Transfer!Has(new) : p = i \/ p \in Transfer!Has(inv)
    BY DEF Transfer!Has, Transfer!Inventory
  <1>2. \A p, q : Transfer!Clash(p, q) => Transfer!Clash(q, p) /\ p # q
    BY DEF Transfer!Clash
  <1> HIDE DEF new
  <1>3. Transfer!WellFormed(new)
    BY <1>1, <1>2 DEF Transfer!WellFormed
  <1>4. QED BY <1>3 DEF new

(* A step of one leaves what the others know. *)
Elsewhere(t) == \A u \in Task \ {t} :
  /\ bundle'[u] = bundle[u] /\ unread'[u] = unread[u] /\ accepted'[u] = accepted[u]
  /\ place'[u] = place[u] /\ (holder' = u <=> holder = u)
  /\ holder = u => inventory' = inventory

LEMMA TransferStepOf ==
  ASSUME TransferInv, NEW t, Elsewhere(t), TransferTyped', Transfer!SkillsHaveOneOwner',
         t \in Task => (Agreed(t) /\ Installing(t))'
  PROVE  TransferInv'
  <1>1. ASSUME NEW u \in Task, u # t PROVE (Agreed(u) /\ Installing(u))'
    BY <1>1 DEF Elsewhere, TransferInv, Agreed, Installing
  <1>2. QED BY <1>1 DEF TransferInv

LEMMA Ending ==
  ASSUME TransferTyped, NEW t \in Task, Transfer!End(t)
  PROVE  /\ bundle' \in [Task -> Transfer!Inventory] /\ stamp' \in [Task -> Transfer!Inventory]
         /\ glimpsed' \in [Task -> Transfer!Inventory]
         /\ unread' \in [Task -> SUBSET Transfer!Item]
         /\ DOMAIN accepted' = Task /\ place' \in [Task -> TransferPlaces] /\ place'[t] = "idle"
         /\ \A u \in Task \ {t} :
              /\ bundle'[u] = bundle[u] /\ unread'[u] = unread[u] /\ accepted'[u] = accepted[u]
              /\ place'[u] = place[u]
  BY TransferConstants DEF TransferTyped, Transfer!End, Transfer!Goto, TransferPlaces

(* Whoever ends, with or without the lock, leaves the rest as it is. *)
LEMMA TransferEndKeeps ==
  ASSUME TransferInv, NEW t \in Task, Transfer!End(t),
         holder' = (IF holder = t THEN None ELSE holder), inventory' = inventory,
         archive' \in Transfer!Inventory \cup {None}, edits' = edits
  PROVE  TransferInv'
  <1>1. TransferTyped'
    BY Ending, TransferConstants DEF TransferInv, TransferTyped
  <1>2. Elsewhere(t)
    BY Ending, TransferConstants DEF Elsewhere, TransferInv, TransferTyped
  <1>3. Agreed(t)' /\ Installing(t)'
    BY Ending, TransferConstants DEF Agreed, Installing, TransferInv
  <1>4. Transfer!SkillsHaveOneOwner'
    BY DEF TransferInv, Transfer!SkillsHaveOneOwner
  <1>5. QED BY <1>1, <1>2, <1>3, <1>4, TransferStepOf

(* The steps that neither install nor end. *)
LEMMA QuietTransfers ==
  ASSUME TransferInv, NEW t \in Task,
         \/ Transfer!Extract(t) \/ Transfer!Look(t) \/ Transfer!Stage(t)
         \/ (Transfer!Hash(t) /\ archive # None) \/ (Transfer!Verify(t) /\ archive = stamp[t])
         \/ (Transfer!Preflight(t) /\ place'[t] = "verify")
  PROVE  TransferInv'
  <1> USE DEF TransferTyped, Transfer!Goto, TransferPlaces
  <1>1. TransferTyped /\ Agreed(t) /\ Installing(t) /\ Transfer!SkillsHaveOneOwner
    BY DEF TransferInv
  <1>2. inventory' = inventory /\ holder' = holder /\ archive' = archive /\ edits' = edits
    BY DEF Transfer!Extract, Transfer!Look, Transfer!Stage, Transfer!Hash, Transfer!Verify,
           Transfer!Preflight
  <1>3. Transfer!SkillsHaveOneOwner'
    BY <1>1, <1>2 DEF Transfer!SkillsHaveOneOwner
  <1>4. place[t] # "install" /\ place'[t] # "install"
    BY <1>1, TransferConstants
    DEF Transfer!Extract, Transfer!Look, Transfer!Stage, Transfer!Hash, Transfer!Verify,
        Transfer!Preflight, Transfer!End
  <1>5. Installing(t)' /\ holder # t
    BY <1>1, <1>2, <1>4 DEF Installing, Agreed
  <1>6. CASE Transfer!Extract(t)
    <2>1. TransferTyped'
      BY <1>1, <1>2, <1>6, TransferConstants DEF Transfer!Extract, Transfer!End
    <2>2. Elsewhere(t)
      BY <1>1, <1>2, <1>6 DEF Transfer!Extract, Elsewhere, Transfer!End
    <2>3. Agreed(t)'
      BY <1>1, <1>2, <1>4, <1>5, <1>6 DEF Transfer!Extract, Agreed, Transfer!End
    <2>4. QED BY <1>3, <1>5, <2>1, <2>2, <2>3, TransferStepOf
  <1>7. CASE Transfer!Look(t)
    <2>1. TransferTyped'
      BY <1>1, <1>2, <1>7, TransferConstants
      DEF Transfer!Look, Transfer!Inventory, Transfer!Kinds, Transfer!End
    <2>2. Elsewhere(t)
      BY <1>1, <1>2, <1>7 DEF Transfer!Look, Elsewhere, Transfer!End
    <2>3. Agreed(t)'
      BY <1>1, <1>2, <1>4, <1>5, <1>7 DEF Transfer!Look, Agreed, Transfer!End
    <2>4. QED BY <1>3, <1>5, <2>1, <2>2, <2>3, TransferStepOf
  <1>8. CASE Transfer!Stage(t)
    <2>1. TransferTyped'
      BY <1>1, <1>2, <1>8, TransferConstants DEF Transfer!Stage, Transfer!End
    <2>2. Elsewhere(t)
      BY <1>1, <1>2, <1>8 DEF Transfer!Stage, Elsewhere, Transfer!End
    <2>3. Agreed(t)'
      BY <1>1, <1>2, <1>4, <1>5, <1>8 DEF Transfer!Stage, Agreed, Transfer!End
    <2>4. QED BY <1>3, <1>5, <2>1, <2>2, <2>3, TransferStepOf
  <1>9. CASE Transfer!Hash(t) /\ archive # None
    <2>1. TransferTyped'
      BY <1>1, <1>2, <1>9, TransferConstants DEF Transfer!Hash, Transfer!End
    <2>2. Elsewhere(t)
      BY <1>1, <1>2, <1>9 DEF Transfer!Hash, Elsewhere, Transfer!End
    <2>3. Agreed(t)'
      BY <1>1, <1>2, <1>4, <1>5, <1>9 DEF Transfer!Hash, Agreed, Transfer!End
    <2>4. QED BY <1>3, <1>5, <2>1, <2>2, <2>3, TransferStepOf
  <1>10. CASE Transfer!Verify(t) /\ archive = stamp[t]
    <2>1. TransferTyped'
      BY <1>1, <1>2, <1>10, TransferConstants DEF Transfer!Verify, Transfer!End
    <2>2. Elsewhere(t)
      BY <1>1, <1>2, <1>10 DEF Transfer!Verify, Elsewhere, Transfer!End
    <2>3. Agreed(t)'
      BY <1>1, <1>2, <1>4, <1>5, <1>10 DEF Transfer!Verify, Agreed, Transfer!End
    <2>4. QED BY <1>3, <1>5, <2>1, <2>2, <2>3, TransferStepOf
  <1>11. CASE Transfer!Preflight(t) /\ place'[t] = "verify"
    <2>1. TransferTyped'
      BY <1>1, <1>2, <1>11, TransferConstants DEF Transfer!Preflight, Transfer!End
    <2>2. Elsewhere(t)
      BY <1>1, <1>2, <1>11 DEF Transfer!Preflight, Elsewhere, Transfer!End
    <2>3. Agreed(t)'
      BY <1>1, <1>2, <1>4, <1>5, <1>11 DEF Transfer!Preflight, Agreed, Transfer!End
    <2>4. QED BY <1>3, <1>5, <2>1, <2>2, <2>3, TransferStepOf
  <1>12. QED BY <1>6, <1>7, <1>8, <1>9, <1>10, <1>11

LEMMA EndingTransfers ==
  ASSUME TransferInv, NEW t \in Task,
         \/ Transfer!Complete(t) \/ Transfer!Publish(t) \/ Transfer!Fail(t)
         \/ (Transfer!Hash(t) /\ archive = None) \/ (Transfer!Verify(t) /\ archive # stamp[t])
         \/ (Transfer!Preflight(t) /\ place'[t] # "verify")
         \/ (Transfer!Lock(t) /\ ~ Transfer!DecisionStands(t))
  PROVE  TransferInv'
  <1>1. TransferTyped /\ Agreed(t)
    BY DEF TransferInv
  <1>2. /\ Transfer!End(t) /\ inventory' = inventory /\ edits' = edits
        /\ holder' = (IF holder = t THEN None ELSE holder)
    BY <1>1, TransferConstants
    DEF TransferTyped, Agreed, Transfer!Complete, Transfer!Publish, Transfer!Fail, Transfer!Hash,
        Transfer!Verify, Transfer!Preflight, Transfer!Lock, Transfer!Goto
  <1>3. archive' \in Transfer!Inventory \cup {None}
    BY <1>1
    DEF TransferTyped, Transfer!Complete, Transfer!Publish, Transfer!Published, Transfer!Fail,
        Transfer!Hash, Transfer!Verify, Transfer!Preflight, Transfer!Lock
  <1>4. QED BY <1>2, <1>3, TransferEndKeeps

(* What the report found is what is there when the lock is taken. *)
LEMMA LockKeeps ==
  ASSUME TransferInv, NEW t \in Task, Transfer!Lock(t), Transfer!DecisionStands(t)
  PROVE  TransferInv'
  <1> DEFINE report == accepted[t]
  <1>1. TransferTyped /\ Agreed(t) /\ Transfer!SkillsHaveOneOwner
    BY DEF TransferInv
  <1>2. /\ place[t] = "lock" /\ holder = None /\ holder' = t
        /\ place' = [place EXCEPT ![t] = "install"]
        /\ unread' = [unread EXCEPT ![t] = Transfer!Missing(report)]
        /\ UNCHANGED <<inventory, archive, bundle, stamp, glimpsed, accepted, edits>>
    BY DEF Transfer!Lock, Transfer!Goto
  <1>3. Transfer!ConflictFree(report)
    BY <1>1, <1>2 DEF Agreed
  <1>4. /\ report.entries =
             [i \in Transfer!Has(bundle[t]) |-> Transfer!Disposition(bundle[t], inventory, i)]
        /\ report.extras = Transfer!Has(inventory) \ Transfer!Has(bundle[t])
    BY DEF Transfer!DecisionStands, Transfer!Report
  <1> HIDE DEF report
  <1>5. Transfer!Missing(report) \subseteq Transfer!Has(bundle[t])
    BY <1>4 DEF Transfer!Missing
  <1>6. ASSUME NEW i \in Transfer!Has(bundle[t])
        PROVE  IF i \in Transfer!Missing(report) THEN inventory[i] = None
               ELSE inventory[i] = bundle[t][i]
    <2>1. /\ report.entries[i] = Transfer!Disposition(bundle[t], inventory, i)
          /\ report.entries[i] # "conflicting"
      BY <1>3, <1>4 DEF Transfer!ConflictFree
    <2>2. i \in Transfer!Missing(report) <=> report.entries[i] = "missing"
      BY <1>4 DEF Transfer!Missing
    <2>3. QED BY <2>1, <2>2 DEF Transfer!Disposition
  <1>7. TransferTyped'
    <2>1. Transfer!Missing(report) \subseteq Transfer!Item
      BY <1>5 DEF Transfer!Has
    <2>2. QED BY <1>1, <1>2, <2>1 DEF TransferTyped, TransferPlaces
  <1>8. Elsewhere(t)
    BY <1>1, <1>2, TransferConstants DEF Elsewhere, TransferTyped
  <1>9. unread'[t] = Transfer!Missing(report) /\ place'[t] = "install"
    BY <1>1, <1>2 DEF TransferTyped
  <1>10. Agreed(t)'
    BY <1>2, <1>3, <1>9 DEF Agreed, report
  <1>11. Installing(t)'
    BY <1>2, <1>4, <1>5, <1>6, <1>9 DEF Installing, report
  <1>12. Transfer!SkillsHaveOneOwner'
    BY <1>1, <1>2 DEF Transfer!SkillsHaveOneOwner
  <1>13. QED BY <1>7, <1>8, <1>10, <1>11, <1>12, TransferStepOf

LEMMA InstallKeeps ==
  ASSUME TransferInv, NEW t \in Task, Transfer!Install(t)
  PROVE  TransferInv'
  <1>1. TransferTyped /\ Agreed(t) /\ Installing(t) /\ Transfer!SkillsHaveOneOwner /\ holder = t
    BY DEF TransferInv, Agreed, Transfer!Install
  <1>2. CASE Transfer!End(t) /\ holder' = None /\ inventory' = inventory
    BY <1>1, <1>2, TransferEndKeeps DEF Transfer!Install, TransferTyped
  <1>3. ASSUME NEW i \in unread[t], ~ Transfer!Owned(i),
               inventory' = [inventory EXCEPT ![i] = bundle[t][i]],
               unread' = [unread EXCEPT ![t] = @ \ {i}],
               UNCHANGED <<holder, bundle, stamp, glimpsed, accepted, place, archive, edits>>
        PROVE  TransferInv'
    <2>1. i \in Transfer!Has(bundle[t]) /\ i \in Transfer!Item
      BY <1>1, <1>3 DEF Installing, Transfer!Has
    <2>2. bundle[t] \in Transfer!Inventory /\ inventory \in Transfer!Inventory
      BY <1>1 DEF TransferTyped
    <2>3. TransferTyped'
      BY <1>1, <1>3, <2>1, <2>2 DEF TransferTyped, Transfer!Inventory
    <2>4. Transfer!SkillsHaveOneOwner'
      <3>1. Transfer!WellFormed(inventory)
        BY <1>1 DEF Transfer!SkillsHaveOneOwner
      <3>2. Transfer!WellFormed([inventory EXCEPT ![i] = bundle[t][i]])
        BY <1>3, <2>1, <2>2, <3>1, OneOwnerEach DEF Transfer!Owned
      <3>3. QED BY <1>3, <3>2 DEF Transfer!SkillsHaveOneOwner
    <2>5. Elsewhere(t)
      BY <1>1, <1>3 DEF Elsewhere, TransferTyped
    <2>6. Agreed(t)'
      BY <1>1, <1>3 DEF Agreed
    <2>7. unread'[t] = unread[t] \ {i}
      BY <1>1, <1>3 DEF TransferTyped
    <2>8. Transfer!Has(inventory)' = Transfer!Has(inventory) \cup {i}
      BY <1>3, <2>1, <2>2 DEF Transfer!Has, Transfer!Inventory
    <2>9. Installing(t)'
      <3>1. ASSUME NEW j \in Transfer!Has(bundle[t])
            PROVE  IF j \in unread'[t] THEN inventory'[j] = None ELSE inventory'[j] = bundle[t][j]
        <4>1. j \in Transfer!Item
          BY DEF Transfer!Has
        <4>2. QED BY <1>1, <1>3, <2>1, <2>2, <2>7, <4>1 DEF Installing, Transfer!Inventory
      <3>2. Transfer!Has(inventory)' \ Transfer!Has(bundle[t]) = accepted[t].extras
        BY <1>1, <2>1, <2>8 DEF Installing
      <3>3. QED BY <1>1, <1>3, <2>7, <3>1, <3>2 DEF Installing
    <2>10. QED BY <2>3, <2>4, <2>5, <2>6, <2>9, TransferStepOf
  <1>4. QED BY <1>2, <1>3 DEF Transfer!Install, Transfer!First

LEMMA OthersKeepTransfers ==
  ASSUME TransferInv, Transfer!Command \/ Transfer!Replace
  PROVE  TransferInv'
  <1>1. TransferTyped /\ Transfer!SkillsHaveOneOwner
    BY DEF TransferInv
  <1>2. TransferTyped'
    BY <1>1, TransferConstants
    DEF TransferTyped, Transfer!Command, Transfer!Replace, Transfer!Inventories, Transfer!task
  <1>3. Transfer!SkillsHaveOneOwner'
    BY <1>1
    DEF Transfer!SkillsHaveOneOwner, Transfer!Command, Transfer!Replace, Transfer!Inventories
  <1>4. ASSUME NEW u \in Task PROVE (Agreed(u) /\ Installing(u))'
    <2>1. holder = u => inventory' = inventory
      BY TransferConstants DEF Transfer!Command, Transfer!Replace
    <2>2. QED BY <2>1
          DEF Transfer!Command, Transfer!Replace, Transfer!task, TransferInv, Agreed, Installing
  <1>5. QED BY <1>2, <1>3, <1>4 DEF TransferInv

LEMMA TransferStep == TransferInv /\ [Transfer!Next]_Transfer!vars => TransferInv'
  <1> SUFFICES ASSUME TransferInv, [Transfer!Next]_Transfer!vars PROVE TransferInv'
    OBVIOUS
  <1>1. ASSUME NEW t \in Task, Transfer!Step(t) \/ Transfer!Fail(t) PROVE TransferInv'
    <2>1. Transfer!Lock(t) /\ Transfer!DecisionStands(t) => TransferInv'
      BY LockKeeps
    <2>2. Transfer!Install(t) => TransferInv'
      BY InstallKeeps
    <2>3. QED BY <1>1, <2>1, <2>2, QuietTransfers, EndingTransfers DEF Transfer!Step
  <1>2. CASE UNCHANGED Transfer!vars
    BY <1>2 DEF TransferInv, TransferTyped, Transfer!SkillsHaveOneOwner, Agreed, Installing,
                Transfer!vars, Transfer!task
  <1>3. QED BY <1>1, <1>2, OthersKeepTransfers DEF Transfer!Next

(* What is installed changes under the lock, by an entry that was missing,  *)
(* and the lock is given back with all of them there.                       *)
SyncIsExact == \A t \in Task :
  /\ holder = t /\ inventory' # inventory =>
       \E i \in Transfer!Missing(accepted[t]) :
         inventory[i] = None /\ inventory' = [inventory EXCEPT ![i] = bundle[t][i]]
  /\ holder = t /\ unread[t] = {} /\ holder' = None =>
       /\ \A i \in Transfer!Has(bundle[t]) : inventory[i] = bundle[t][i]
       /\ Transfer!Has(inventory) \ Transfer!Has(bundle[t]) = accepted[t].extras

LEMMA SyncSteps ==
  ASSUME TransferInv, [Transfer!Next]_Transfer!vars
  PROVE  SyncIsExact
  <1>1. ASSUME NEW t \in Task, holder = t, inventory' # inventory
        PROVE  \E i \in Transfer!Missing(accepted[t]) :
                 inventory[i] = None /\ inventory' = [inventory EXCEPT ![i] = bundle[t][i]]
    <2>1. PICK u \in Task : Transfer!Install(u)
      BY <1>1, TransferConstants
      DEF Transfer!Next, Transfer!Step, Transfer!Extract, Transfer!Hash, Transfer!Look,
          Transfer!Preflight, Transfer!Verify, Transfer!Lock, Transfer!Complete, Transfer!Stage,
          Transfer!Publish, Transfer!Command, Transfer!Replace, Transfer!Fail, Transfer!vars
    <2>2. u = t
      BY <1>1, <2>1 DEF TransferInv, Agreed, Transfer!Install
    <2>3. PICK i \in unread[t] : inventory' = [inventory EXCEPT ![i] = bundle[t][i]]
      BY <1>1, <2>1, <2>2 DEF Transfer!Install, Transfer!First
    <2>4. QED BY <1>1, <2>3 DEF TransferInv, Installing
  <1>2. ASSUME NEW t \in Task, holder = t, unread[t] = {}
        PROVE  /\ \A i \in Transfer!Has(bundle[t]) : inventory[i] = bundle[t][i]
               /\ Transfer!Has(inventory) \ Transfer!Has(bundle[t]) = accepted[t].extras
    BY <1>2 DEF TransferInv, Installing
  <1>3. QED BY <1>1, <1>2 DEF SyncIsExact

LEMMA ExportSteps ==
  ASSUME TransferInv, Transfer!Next
  PROVE  archive' # archive => archive = None \/ edits' > edits
  BY DEF Transfer!Next, Transfer!Step, Transfer!Extract, Transfer!Hash, Transfer!Look,
         Transfer!Preflight, Transfer!Verify, Transfer!Lock, Transfer!Install, Transfer!Complete,
         Transfer!Stage, Transfer!Publish, Transfer!Published, Transfer!Command,
         Transfer!Replace, Transfer!Fail, TransferInv, TransferTyped

(* However syncs, exports, other commands, replacements of the bundle and    *)
(* crashes fall, a skill has one owner, a sync adds exactly the entries its  *)
(* accepted report found missing, and an export replaces no file             *)
(* (cli/core/inventory-transfer.ts, cli/core/inventory-bundle.ts).           *)
THEOREM TransfersStayExact == InventorySpec => TransfersAreExact
  <1>1. InventoryInit => TransferInv
    BY TransferStart DEF InventoryInit
  <1>2. [InventoryNext]_all => [Transfer!Next]_Transfer!vars
    BY DEF InventoryNext, all, transfer, Transfer!vars, Transfer!task
  <1>3. InventorySpec => []TransferInv
    BY <1>1, <1>2, TransferStep, PTL DEF InventorySpec
  <1>4. TransferInv => Transfer!SkillsHaveOneOwner
    BY DEF TransferInv
  <1>5. TransferInv /\ [Transfer!Next]_Transfer!vars => SyncIsExact
    BY SyncSteps
  <1>6. SyncIsExact =>
          /\ \A t \in Task : holder = t /\ inventory' # inventory =>
               \E i \in Transfer!Missing(accepted[t]) :
                 inventory[i] = None /\ inventory' = [inventory EXCEPT ![i] = bundle[t][i]]
          /\ \A t \in Task : holder = t /\ unread[t] = {} /\ holder' = None =>
               /\ \A i \in Transfer!Has(bundle[t]) : inventory[i] = bundle[t][i]
               /\ Transfer!Has(inventory) \ Transfer!Has(bundle[t]) = accepted[t].extras
    BY DEF SyncIsExact
  <1>7. TransferInv /\ Transfer!Next => (archive' # archive => archive = None \/ edits' > edits)
    BY ExportSteps
  <1>8. QED BY <1>2, <1>3, <1>4, <1>5, <1>6, <1>7, PTL
        DEF InventorySpec, TransfersAreExact, Transfer!TransfersAreExact,
            Transfer!AddsOnlyAccepted, Transfer!CompletedIsExact, Transfer!ExportsReplaceNothing
=============================================================================
