--------------------------- MODULE ProjectionProofs ---------------------------
(***************************************************************************)
(* Proofs about Projection: for any items, plans, processes and bounds,    *)
(* the write record agrees with the disk, and a write touches, removes and *)
(* refuses only what it may.                                               *)
(*                                                                         *)
(* None of the properties is inductive.  What a write finds at an item     *)
(* when it comes to it rests on how far it has come, and on whether        *)
(* anybody got in between: Knows says for each step of a write which items *)
(* are as they were read, which are as planned, which are between the two, *)
(* and what the check that came first has ruled out.                       *)
(*                                                                         *)
(* The second part is about MachineSettings, for any commands: what a      *)
(* command carries from its reading to its write is what is there, but for *)
(* what a hand or an init that declines did in between.                    *)
(***************************************************************************)
EXTENDS MCProjection, Integers, WellFoundedInduction, TLAPS

-----------------------------------------------------------------------------
(* Where a write is: at the items one by one, or removing and recording.    *)
Writing == {"write", "place"}
Closing == {"cleanup", "rename"}
Checked(w) == pc[w] \in Writing \cup Closing

-----------------------------------------------------------------------------
(* Who runs.  A write that nothing mixed with is alone, and until something *)
(* is torn there is at most one.                                            *)
OneAtATime ==
  /\ ~ torn => \A v, w \in Write : Active(v) /\ Active(w) => v = w
  /\ \A v, w \in Write : Active(v) /\ Active(w) /\ ~ call[w].mixed => v = w

TempIsItsOwn ==
  \A w \in Write : pc[w] = "rename" /\ (~ torn \/ ~ call[w].mixed) => temp = NewRecord(call[w])

UsersMarks ==
  \A i \in Item : /\ disk[i] = Alien => Kind[i] = "directory"
                  /\ disk[i] \in 1..MaxMishaps => disk[i] <= mishaps

(* What a write has still to do, and what the checks have ruled out.        *)
Duty(w) ==
  LET c == call[w] IN
  /\ pc[w] = "verify" => c.out = Nothing
  /\ pc[w] \in Writing => \A i \in c.left : Selected(i, c.only)
  /\ pc[w] = "place" => /\ c.left # {}
                        /\ Wanted(c, Here(w)) \/ (Kind[Here(w)] = "block" /\ Owned(c, Here(w)))
  /\ pc[w] = "cleanup" => \A i \in c.left : Selected(i, c.only) /\ Owned(c, i)
  /\ pc[w] = "rename" => c.left = {}

Ruled(c) ==
  \A i \in Item :
    /\ scope = "machine" => /\ Wanted(c, i) /\ ~ Owned(c, i) => c.seen[i] = Absent
                            /\ Owned(c, i) /\ ~ c.force => c.seen[i] = c.prev[i]
    /\ scope = "project" /\ ~ c.force /\ Owned(c, i) /\ c.seen[i] # c.prev[i] =>
         \/ c.seen[i] = Absent \/ Kind[i] \in {"server", "block"}
         \/ Kind[i] = "directory" /\ c.seen[i] = Alien

(* A number that the user has put stands for one edit.                      *)
NumbersAreNew(w) ==
  LET c == call[w] IN
  /\ \A i \in Item : c.seen[i] \in 1..MaxMishaps => c.seen[i] <= mishaps
  /\ pc[w] = "place" /\ disk[Here(w)] \in 1..MaxMishaps => disk[Here(w)] # c.seen[Here(w)]

-----------------------------------------------------------------------------
(* What an item has come to, of a write that nothing has mixed with, ...    *)
Now(w, i, before) == disk[i] = IF pc[w] = "place" /\ i = Here(w) THEN Absent ELSE before
Emitted(c, i) ==
  IF c.goal[i] # Absent
  THEN \/ disk[i] = c.goal[i] /\ c.out[i] = c.goal[i]
       \/ Skips(c, i) /\ disk[i] = c.seen[i] /\ c.out[i] = Absent
  ELSE /\ c.out[i] = Absent
       /\ IF Kind[i] = "block" THEN disk[i] = Absent ELSE disk[i] = c.seen[i]
Finished(c, i) ==
  IF c.goal[i] # Absent THEN Emitted(c, i)
  ELSE \/ disk[i] = Absent /\ c.out[i] = Absent
       \/ Drifted(c, i) /\ ~ c.force /\ c.out[i] = c.prev[i]
       \/ ~ Owned(c, i) /\ disk[i] = c.seen[i] /\ c.out[i] = Absent
ExactAt(w, i) ==
  LET c == call[w] IN
  Selected(i, c.only) =>
    /\ pc[w] \in Writing /\ i \in c.left => c.out[i] = Absent /\ Now(w, i, c.seen[i])
    /\ pc[w] \in Writing /\ i \notin c.left => Emitted(c, i)
    /\ pc[w] \in Closing /\ i \in c.left => c.goal[i] = Absent /\ Emitted(c, i)
    /\ pc[w] \in Closing /\ i \notin c.left => Finished(c, i)

(* ... and of items that the user has left alone.                           *)
Followed(c, i) ==
  IF c.goal[i] # Absent THEN disk[i] = c.goal[i] /\ c.out[i] = c.goal[i]
  ELSE /\ c.out[i] = Absent
       /\ disk[i] = Absent \/ (disk[i] = c.prev[i] /\ Kind[i] # "block")
TrackedAt(w, i) ==
  LET c == call[w] IN
  /\ ~ Selected(i, c.only) => disk[i] = c.prev[i]
  /\ Selected(i, c.only) =>
       /\ pc[w] \in Writing /\ i \in c.left => c.out[i] = Absent /\ Now(w, i, c.prev[i])
       /\ pc[w] \in Writing /\ i \notin c.left => Followed(c, i)
       /\ pc[w] \in Closing /\ i \in c.left => c.goal[i] = Absent /\ Followed(c, i)
       /\ pc[w] \in Closing /\ i \notin c.left => disk[i] = c.out[i]

Knows(w) ==
  /\ Duty(w) /\ NumbersAreNew(w)
  /\ Checked(w) =>
       /\ Ruled(call[w])
       /\ ~ call[w].mixed \/ ~ torn => call[w].prev = record
       /\ ~ call[w].mixed => \A i \in Item : ExactAt(w, i)
       /\ ~ torn => \A i \in Item \ touched : TrackedAt(w, i)

Rest == ~ torn /\ (\A w \in Write : ~ Checked(w)) => \A i \in Item \ touched : disk[i] = record[i]

ProjectionInv ==
  TypeOK /\ OneAtATime /\ TempIsItsOwn /\ UsersMarks /\ Rest /\ \A w \in Write : Knows(w)

-----------------------------------------------------------------------------
LEMMA ItemsAre ==
  ASSUME ProjectionAssumption
  PROVE  /\ Kind \in [Item -> Kinds] /\ Surface \in [Item -> Surfaces]
         /\ Rendering \cap (Mine \cup {Absent}) = {} /\ Absent \notin Mine /\ Alien \notin Nat
         /\ Plans \subseteq Record /\ Scopes \subseteq {"project", "machine"}
         /\ Nothing \in Record /\ Record \subseteq [Item -> Content]
         /\ MaxMishaps \in Nat /\ MaxWrites \in Nat /\ MaxPlans \in Nat
         /\ Selections \subseteq {"full", "mcp", "skills"}
         /\ 1..MaxMishaps \subseteq Mine /\ Alien \in Mine /\ Mine \subseteq Content
         /\ Rendering \subseteq Content /\ Absent \in Content /\ Alien \notin 1..MaxMishaps
  BY DEF ProjectionAssumption, Record, Nothing, Content, Mine

LEMMA FirstIsOne ==
  ASSUME ProjectionAssumption, NEW S \in SUBSET Item, S # {}
  PROVE  First(S) \in S
  <1> DEFINE N == {n \in DOMAIN Order : Order[n] \in S}
  <1>1. N # {} /\ N \subseteq Nat
    BY DEF Item, ProjectionAssumption
  <1>2. PICK n \in N : \A m \in N : <<m, n>> \notin OpToRel(<, Nat)
    BY <1>1, NatLessThanWellFounded, WFMin, Zenon
  <1>3. \A m \in N : ~ (m < n)
    BY <1>1, <1>2 DEF OpToRel
  <1>4. n \in DOMAIN Order /\ Order[n] \in S
        /\ \A m \in DOMAIN Order : m < n => Order[m] \notin S
    BY <1>3
  <1>5. QED BY <1>4 DEF First

LEMMA FieldsOf ==
  ASSUME NEW c \in Call
  PROVE  /\ c.force \in BOOLEAN /\ c.mixed \in BOOLEAN /\ c.only \in {"full", "mcp", "skills"}
         /\ c.goal \in Record /\ c.prev \in Record /\ c.out \in Record
         /\ c.seen \in [Item -> Content] /\ c.left \subseteq Item
  BY DEF Call

LEMMA NoCallIs == ASSUME ProjectionAssumption PROVE
  /\ NoCall \in Call /\ NoCall.seen = Nothing
  BY ItemsAre DEF NoCall, Call

LEMMA HereIs ==
  ASSUME ProjectionAssumption, ProjectionInv, NEW w \in Write, call[w].left # {}
  PROVE  Here(w) \in call[w].left /\ Here(w) \in Item
  BY FirstIsOne, FieldsOf DEF Here, ProjectionInv, TypeOK

LEMMA ProjectionStarts == ASSUME ProjectionAssumption PROVE Init => ProjectionInv
  <1> SUFFICES ASSUME Init PROVE ProjectionInv
    OBVIOUS
  <1>1. TypeOK
    <2>1. pc \in [Write -> Steps] /\ call \in [Write -> Call]
      BY NoCallIs DEF Init, Steps
    <2>2. disk \in [Item -> Content] /\ record \in Record
      BY ItemsAre DEF Init
    <2>3. writes \in 0..MaxWrites /\ replans \in 0..MaxPlans /\ mishaps \in 0..MaxMishaps
      BY ItemsAre DEF Init
    <2>4. scope \in Scopes /\ plan \in Plans /\ backups \subseteq Item \X Content
          /\ temp \in Record \cup {Absent} /\ touched \subseteq Item /\ torn \in BOOLEAN
      BY DEF Init
    <2>5. QED BY <2>1, <2>2, <2>3, <2>4 DEF TypeOK
  <1>2. \A w \in Write : pc[w] = "idle" /\ call[w] = NoCall
    BY DEF Init
  <1>3. OneAtATime /\ TempIsItsOwn
    BY <1>2 DEF OneAtATime, TempIsItsOwn, Active
  <1>4. UsersMarks /\ Rest
    BY ItemsAre DEF Init, UsersMarks, Rest, Nothing
  <1>5. ASSUME NEW w \in Write PROVE Knows(w)
    <2>1. NumbersAreNew(w)
      BY <1>2, NoCallIs, ItemsAre DEF NumbersAreNew, Nothing
    <2>2. QED BY <1>2, <2>1 DEF Knows, Duty, Checked, Writing, Closing
  <1>6. QED BY <1>1, <1>3, <1>4, <1>5 DEF ProjectionInv

(* What a write does is no news to the others: that there are others at all *)
(* says that something is torn, and that each of them is mixed with.        *)
LEMMA StepKeeps ==
  ASSUME ProjectionAssumption, ProjectionInv, NEW w \in Write, NEW p \in Steps, NEW e \in Call,
         Active(w),
         pc' = [pc EXCEPT ![w] = p], call' = [call EXCEPT ![w] = e],
         p = "idle" \/ e.mixed = call[w].mixed,
         torn => torn', scope' = scope, mishaps' \in Nat, mishaps' >= mishaps,
         \A i \in Item : disk'[i] = disk[i] \/ disk'[i] \notin Mine,
         TypeOK', Knows(w)', Rest',
         p = "rename" /\ (~ torn' \/ ~ e.mixed) => temp' = NewRecord(e)
  PROVE  ProjectionInv'
  <1>1. pc'[w] = p /\ call'[w] = e
    BY DEF ProjectionInv, TypeOK
  <1>2. \A v \in Write \ {w} : pc'[v] = pc[v] /\ call'[v] = call[v]
    BY DEF ProjectionInv, TypeOK
  <1>3. \A v \in Write \ {w} : Active(v) => torn /\ call[v].mixed /\ call[w].mixed
    BY DEF ProjectionInv, OneAtATime
  <1>4. OneAtATime'
    <2>1. ASSUME NEW v \in Write, Active(v)' PROVE Active(v)
      BY <1>2, <2>1 DEF Active
    <2>2. ASSUME NEW v \in Write, Active(v)', ~ call'[v].mixed PROVE ~ call[v].mixed
      BY <1>1, <1>2, <2>2 DEF Active
    <2>3. QED BY <2>1, <2>2 DEF ProjectionInv, OneAtATime
  <1>5. TempIsItsOwn'
    <2>1. ASSUME NEW v \in Write \ {w}, pc'[v] = "rename" PROVE torn' /\ call'[v].mixed
      BY <1>2, <1>3, <2>1 DEF Active
    <2>2. QED BY <1>1, <2>1 DEF TempIsItsOwn, NewRecord
  <1>6. UsersMarks'
    <2> SUFFICES ASSUME NEW i \in Item
                 PROVE  /\ disk'[i] = Alien => Kind[i] = "directory"
                        /\ disk'[i] \in 1..MaxMishaps => disk'[i] <= mishaps'
      BY DEF UsersMarks
    <2>1. disk'[i] \in Mine => disk'[i] = disk[i]
      OBVIOUS
    <2>2. mishaps \in Nat /\ MaxMishaps \in Nat
      BY ItemsAre DEF ProjectionInv, TypeOK
    <2>3. QED BY <2>1, <2>2, ItemsAre DEF ProjectionInv, UsersMarks
  <1>7. ASSUME NEW v \in Write \ {w} PROVE Knows(v)'
    <2>1. Knows(v)
      BY DEF ProjectionInv
    <2>2. Duty(v)'
      BY <1>2, <2>1 DEF Knows, Duty, Here, Wanted, Owned
    <2>3. NumbersAreNew(v)'
      <3>1. call[v] \in Call /\ mishaps \in Nat /\ MaxMishaps \in Nat /\ disk \in [Item -> Content]
        BY ItemsAre DEF ProjectionInv, TypeOK
      <3>2. ASSUME NEW i \in Item, call[v].seen[i] \in 1..MaxMishaps
            PROVE  call[v].seen[i] <= mishaps'
        BY <2>1, <3>1, <3>2 DEF Knows, NumbersAreNew
      <3>3. ASSUME pc[v] = "place", disk'[Here(v)] \in 1..MaxMishaps
            PROVE  disk'[Here(v)] # call[v].seen[Here(v)]
        <4>1. Here(v) \in Item
          BY <2>1, <3>3, HereIs DEF Knows, Duty
        <4>2. QED BY <2>1, <3>3, <4>1, ItemsAre DEF Knows, NumbersAreNew
      <3>4. QED BY <1>2, <3>2, <3>3 DEF NumbersAreNew, Here
    <2>4. Checked(v)' => Ruled(call[v])'
      BY <1>2, <2>1 DEF Knows, Checked, Ruled, Wanted, Owned
    <2>5. Checked(v)' => torn' /\ call'[v].mixed
      BY <1>2, <1>3 DEF Checked, Active, Writing, Closing
    <2>6. (Checked(v) => Ruled(call[v]))'
      BY <1>2, <2>4
    <2>7. QED BY <2>2, <2>3, <2>5, <2>6 DEF Knows
  <1>8. QED BY <1>4, <1>5, <1>6, <1>7 DEF ProjectionInv

-----------------------------------------------------------------------------
(* What a write keeps of its call.                                          *)
Same(e, c) ==
  /\ e.force = c.force /\ e.only = c.only /\ e.goal = c.goal
  /\ e.prev = c.prev /\ e.seen = c.seen /\ e.mixed = c.mixed

LEMMA LeftIs ==
  ASSUME NEW c \in Call, NEW L \in SUBSET Item
  PROVE  LET e == [c EXCEPT !.left = L] IN e \in Call /\ Same(e, c) /\ e.left = L /\ e.out = c.out
  BY DEF Call, Same

LEMMA EmitIs ==
  ASSUME NEW c \in Call, NEW i \in Item, NEW e, e = Emit(c, i)
  PROVE  e \in Call /\ Same(e, c) /\ e.left = c.left \ {i}
       /\ e.out = [c.out EXCEPT ![i] = c.goal[i]]
  <1>1. PICK L \in SUBSET Item, o \in Record : L = c.left \ {i}
          /\ o = [c.out EXCEPT ![i] = c.goal[i]]
    BY FieldsOf DEF Record
  <1>2. e = [c EXCEPT !.left = L, !.out = o]
    BY <1>1 DEF Emit
  <1>3. e \in Call
    BY <1>2 DEF Call
  <1>4. Same(e, c) /\ e.left = L /\ e.out = o
    BY <1>2 DEF Call, Same
  <1>5. QED BY <1>1, <1>3, <1>4

LEMMA SameIs ==
  ASSUME NEW c, NEW e, Same(e, c), NEW i
  PROVE  /\ Wanted(e, i) = Wanted(c, i) /\ Owned(e, i) = Owned(c, i)
            /\ Drifted(e, i) = Drifted(c, i)
         /\ Skips(e, i) = Skips(c, i) /\ Ruled(e) = Ruled(c)
  BY DEF Same, Wanted, Owned, Drifted, Skips, Ruled

LEMMA MoveTypes ==
  ASSUME TypeOK, NEW w \in Write, NEW p \in Steps, NEW e \in Call,
         pc' = [pc EXCEPT ![w] = p], call' = [call EXCEPT ![w] = e],
         disk' \in [Item -> Content], backups' \subseteq Item \X Content,
         record' \in Record, temp' \in Record \cup {Absent},
         touched' \subseteq Item, torn' \in BOOLEAN, mishaps' \in 0..MaxMishaps,
         UNCHANGED <<scope, plan, writes, replans>>
  PROVE  TypeOK' /\ pc'[w] = p /\ call'[w] = e
  BY DEF TypeOK

(* What comes to one item is nothing to another. *)
LEMMA OtherItems ==
  ASSUME NEW w \in Write, NEW i \in Item, NEW e, Same(e, call[w]), call'[w] = e,
         i # Here(w), pc[w] \in Writing, pc'[w] \in Writing,
         pc'[w] = "place" => Here(w)' = Here(w),
         i \in e.left <=> i \in call[w].left, e.out[i] = call[w].out[i], disk'[i] = disk[i]
  PROVE  /\ ExactAt(w, i) => ExactAt(w, i)'
         /\ TrackedAt(w, i) => TrackedAt(w, i)'
  <1>1. ExactAt(w, i) => ExactAt(w, i)'
    BY SameIs DEF Same, ExactAt, Now, Emitted, Drifted, Owned, Skips, Writing, Closing
  <1>2. TrackedAt(w, i) => TrackedAt(w, i)'
    BY SameIs DEF Same, TrackedAt, Now, Followed, Writing, Closing
  <1>3. QED BY <1>1, <1>2

LEMMA OtherItemsClose ==
  ASSUME NEW w \in Write, NEW i \in Item, NEW e, Same(e, call[w]), call'[w] = e,
         pc[w] \in Closing, pc'[w] \in Closing,
         i \in e.left <=> i \in call[w].left, e.out[i] = call[w].out[i], disk'[i] = disk[i]
  PROVE  /\ ExactAt(w, i) => ExactAt(w, i)'
         /\ TrackedAt(w, i) => TrackedAt(w, i)'
  <1>1. ExactAt(w, i) => ExactAt(w, i)'
    BY SameIs DEF Same, ExactAt, Emitted, Finished, Drifted, Owned, Skips, Writing, Closing
  <1>2. TrackedAt(w, i) => TrackedAt(w, i)'
    BY SameIs DEF Same, TrackedAt, Followed, Writing, Closing
  <1>3. QED BY <1>1, <1>2

LEMMA GoesOn ==
  ASSUME ProjectionAssumption, ProjectionInv, NEW w \in Write, Active(w),
         NEW p \in Writing \cup Closing, NEW e \in Call, Same(e, call[w]),
         pc' = [pc EXCEPT ![w] = p], call' = [call EXCEPT ![w] = e],
         scope' = scope, torn' = torn, mishaps' = mishaps,
         \A i \in Item : disk'[i] = disk[i] \/ disk'[i] \notin Mine,
         p = "rename" => temp' = NewRecord(e),
         TypeOK', Knows(w)'
  PROVE  ProjectionInv'
  <1>1. pc'[w] = p /\ mishaps \in Nat
    BY ItemsAre DEF ProjectionInv, TypeOK
  <1>2. Rest'
    BY <1>1 DEF Rest, Checked
  <1>3. p \in Steps /\ e.mixed = call[w].mixed /\ mishaps' \in Nat /\ mishaps' >= mishaps
    BY <1>1 DEF Steps, Writing, Closing, Same
  <1>4. QED BY <1>2, <1>3, StepKeeps

-----------------------------------------------------------------------------
LEMMA PassKeeps ==
  ASSUME ProjectionAssumption, ProjectionInv, NEW w \in Write, Pass(w)
  PROVE  ProjectionInv'
  <1>1. /\ TypeOK /\ call[w] \in Call /\ Knows(w) /\ pc[w] = "write"
        /\ Here(w) \in call[w].left /\ Here(w) \in Item
    BY HereIs DEF Pass, At, ProjectionInv, TypeOK
  <1> PICK c \in Call, i \in Item : c = call[w] /\ i = Here(w)
    BY <1>1
  <1> DEFINE e == IF Wanted(c, i) /\ ~ Skips(c, i) THEN Emit(c, i) ELSE [c EXCEPT !.left = @ \ {i}]
  <1>2. /\ e \in Call /\ Same(e, c) /\ e.left = c.left \ {i}
        /\ e.out = IF Wanted(c, i) /\ ~ Skips(c, i) THEN [c.out EXCEPT ![i] = c.goal[i]] ELSE c.out
    <2>1. CASE Wanted(c, i) /\ ~ Skips(c, i)
      BY <1>1, <2>1, EmitIs
    <2>2. CASE ~ (Wanted(c, i) /\ ~ Skips(c, i))
      <3>1. e = [c EXCEPT !.left = c.left \ {i}] /\ c.left \ {i} \in SUBSET Item
        BY <1>1, <2>2, FieldsOf
      <3>2. QED BY <1>1, <2>2, <3>1, LeftIs
    <2>3. QED BY <2>1, <2>2
  <1>3. call' = [call EXCEPT ![w] = e]
          /\ UNCHANGED <<scope, plan, files, record, temp, pc, counters, touched, torn>>
    BY DEF Pass
  <1> HIDE DEF e
  <1>4. pc' = [pc EXCEPT ![w] = "write"] /\ call'[w] = e /\ pc'[w] = "write" /\ TypeOK'
    BY <1>1, <1>2, <1>3, MoveTypes DEF files, counters, TypeOK, Steps
  <1>5. UNCHANGED <<scope, disk, record, torn, mishaps, touched>>
    BY <1>3 DEF files, counters
  <1>6. \A j \in Item \ {i} : (j \in e.left <=> j \in c.left) /\ e.out[j] = c.out[j]
    BY <1>1, <1>2, FieldsOf DEF Record
  <1>7. \A j \in Item \ {i} : (ExactAt(w, j) => ExactAt(w, j)') /\ (TrackedAt(w, j) =>
          TrackedAt(w, j)')
    BY <1>1, <1>2, <1>4, <1>5, <1>6, OtherItems DEF Writing
  <1>8. ~ Throws(c, i) /\ ~ Rewrites(c, i) /\ i \notin e.left /\ Selected(i, c.only)
        /\ e.out[i] = IF Wanted(c, i) /\ ~ Skips(c, i) THEN c.goal[i] ELSE c.out[i]
    <2>1. c.out \in [Item -> Rendering \cup {Absent}]
      BY <1>1, FieldsOf DEF Record
    <2>2. QED BY <1>1, <1>2, <2>1 DEF Pass, Knows, Duty, Writing
  <1>9. ~ c.mixed => ExactAt(w, i)'
    <2> SUFFICES ASSUME ~ c.mixed PROVE ExactAt(w, i)'
      OBVIOUS
    <2>1. c.out[i] = Absent /\ disk[i] = c.seen[i]
      BY <1>1, <1>8 DEF Knows, Checked, Writing, ExactAt, Now
    <2>2. Emitted(e, i)
      BY <1>2, <1>8, <2>1, SameIs DEF Rewrites, Emitted, Wanted, Same
    <2>3. QED BY <1>4, <1>5, <1>8, <2>2 DEF ExactAt, Emitted, Skips, Owned, Writing, Closing
  <1>10. ~ torn /\ i \notin touched => TrackedAt(w, i)'
    <2> SUFFICES ASSUME ~ torn, i \notin touched PROVE TrackedAt(w, i)'
      OBVIOUS
    <2>1. c.out[i] = Absent /\ disk[i] = c.prev[i]
      BY <1>1, <1>8 DEF Knows, Checked, Writing, TrackedAt, Now
    <2>2. Followed(e, i)
      BY <1>2, <1>8, <2>1, SameIs DEF Rewrites, Followed, Wanted, Same, Skips, Owned
    <2>3. QED BY <1>2, <1>4, <1>5, <1>8, <2>2 DEF TrackedAt, Followed, Writing, Closing, Same
  <1>11. Knows(w)'
    <2>1. Duty(w)'
      BY <1>1, <1>2, <1>4 DEF Knows, Duty, Writing, Same
    <2>2. NumbersAreNew(w)'
      BY <1>1, <1>2, <1>4, <1>5 DEF Knows, NumbersAreNew, Same
    <2>3. Ruled(call[w])' /\ (~ e.mixed \/ ~ torn => e.prev = record)
      BY <1>1, <1>2, <1>4, <1>5, SameIs DEF Knows, Checked, Writing, Ruled, Wanted, Owned, Same
    <2>4. ~ e.mixed => \A j \in Item : ExactAt(w, j)'
      BY <1>1, <1>2, <1>7, <1>9 DEF Knows, Checked, Writing, Same
    <2>5. ~ torn => \A j \in Item \ touched : TrackedAt(w, j)'
      BY <1>1, <1>7, <1>10 DEF Knows, Checked, Writing
    <2>6. QED BY <1>4, <1>5, <2>1, <2>2, <2>3, <2>4, <2>5 DEF Knows
  <1>12. QED
    <2>1. Active(w) /\ "write" \in Writing
      BY <1>1 DEF Active, Writing
    <2>2. QED BY <1>2, <1>3, <1>4, <1>5, <1>11, <2>1, GoesOn

LEMMA WorkOf ==
  ASSUME ProjectionAssumption, ProjectionInv, NEW w \in Write
  PROVE  /\ TypeOK /\ call[w] \in Call /\ Knows(w) /\ pc = [pc EXCEPT ![w] = pc[w]]
         /\ call = [call EXCEPT ![w] = call[w]] /\ pc[w] \in Steps
         /\ call[w].left # {} => Here(w) \in call[w].left /\ Here(w) \in Item
  BY HereIs DEF ProjectionInv, TypeOK

LEMMA KnowsOn ==
  ASSUME NEW w \in Write, NEW e, Same(e, call[w]), call'[w] = e, Knows(w), Checked(w), Checked(w)',
         Duty(w)', scope' = scope, record' = record, torn' = torn, mishaps' = mishaps,
              touched' = touched,
         pc'[w] = "place" => disk'[Here(w)'] \notin 1..MaxMishaps,
         ~ e.mixed => \A j \in Item : ExactAt(w, j)',
         ~ torn => \A j \in Item \ touched : TrackedAt(w, j)'
  PROVE  Knows(w)'
  <1>1. Ruled(call[w])' /\ (~ e.mixed \/ ~ torn => e.prev = record)
    BY SameIs DEF Knows, Ruled, Wanted, Owned, Same
  <1>2. NumbersAreNew(w)'
    BY DEF Knows, NumbersAreNew, Same
  <1>3. QED BY <1>1, <1>2 DEF Knows

LEMMA DisplaceKeeps ==
  ASSUME ProjectionAssumption, ProjectionInv, NEW w \in Write, Displace(w)
  PROVE  ProjectionInv'
  <1>1. /\ TypeOK /\ call[w] \in Call /\ Knows(w) /\ pc[w] = "write" /\ Checked(w)
           /\ call[w].left # {}
        /\ Here(w) \in call[w].left /\ Here(w) \in Item /\ call' = [call EXCEPT ![w] = call[w]]
    BY WorkOf DEF Displace, At, Checked, Writing
  <1> PICK c \in Call, i \in Item : c = call[w] /\ i = Here(w)
    BY <1>1
  <1>2. /\ disk' = [disk EXCEPT ![i] = Absent] /\ pc' = [pc EXCEPT ![w] = "place"] /\ Rewrites(c, i)
        /\ backups' = IF Kind[i] = "directory" \/ disk[i] = Absent THEN backups
                      ELSE backups \cup {<<i, disk[i]>>}
        /\ UNCHANGED <<scope, plan, record, temp, call, counters, touched, torn>>
    BY DEF Displace
  <1>3. disk' \in [Item -> Content] /\ backups' \subseteq Item \X Content
          /\ mishaps \in 0..MaxMishaps
    BY <1>1, <1>2, ItemsAre DEF TypeOK
  <1>4. /\ UNCHANGED <<scope, record, temp, torn, mishaps, touched>>
           /\ call' = [call EXCEPT ![w] = c]
        /\ UNCHANGED <<scope, plan, writes, replans>>
    BY <1>1, <1>2 DEF counters
  <1>5. TypeOK' /\ pc'[w] = "place" /\ call'[w] = c
    <2>1. "place" \in Steps
      BY DEF Steps
    <2>2. /\ record' \in Record /\ temp' \in Record \cup {Absent}
          /\ touched' \subseteq Item /\ torn' \in BOOLEAN /\ mishaps' \in 0..MaxMishaps
      BY <1>1, <1>4 DEF TypeOK
    <2>3. TypeOK /\ pc' = [pc EXCEPT ![w] = "place"] /\ call' = [call EXCEPT ![w] = c]
          /\ UNCHANGED <<scope, plan, writes, replans>>
      BY <1>1, <1>2, <1>4
    <2>4. QED BY <1>3, <2>1, <2>2, <2>3, MoveTypes
  <1>6. Same(c, call[w]) /\ Here(w)' = i /\ disk'[i] = Absent
    BY <1>1, <1>2, <1>5 DEF Same, Here, TypeOK
  <1>7. \A j \in Item \ {i} : (ExactAt(w, j) => ExactAt(w, j)') /\ (TrackedAt(w, j) =>
          TrackedAt(w, j)')
    BY <1>1, <1>2, <1>5, <1>6, OtherItems DEF Writing, TypeOK
  <1>8. Selected(i, c.only) /\ (Wanted(c, i) \/ (Kind[i] = "block" /\ Owned(c, i)))
    BY <1>1, <1>2 DEF Knows, Duty, Writing, Rewrites, Throws
  <1>9. ~ c.mixed => ExactAt(w, i)'
    <2> SUFFICES ASSUME ~ c.mixed PROVE ExactAt(w, i)'
      OBVIOUS
    <2>1. c.out[i] = Absent
      BY <1>1, <1>8 DEF Knows, ExactAt, Writing
    <2>2. QED BY <1>1, <1>5, <1>6, <2>1 DEF ExactAt, Now, Writing, Closing
  <1>10. ~ torn /\ i \notin touched => TrackedAt(w, i)'
    <2> SUFFICES ASSUME ~ torn, i \notin touched PROVE TrackedAt(w, i)'
      OBVIOUS
    <2>1. c.out[i] = Absent
      BY <1>1, <1>8 DEF Knows, TrackedAt, Writing
    <2>2. QED BY <1>1, <1>5, <1>6, <1>8, <2>1 DEF TrackedAt, Now, Writing, Closing
  <1>11. Knows(w)'
    <2>1. Duty(w)'
      BY <1>1, <1>5, <1>6, <1>8 DEF Knows, Duty, Writing, Wanted, Owned
    <2>2. Checked(w)' /\ disk'[Here(w)'] \notin 1..MaxMishaps
      BY <1>5, <1>6, ItemsAre DEF Checked, Writing
    <2>3. ~ c.mixed => \A j \in Item : ExactAt(w, j)'
      BY <1>1, <1>7, <1>9 DEF Knows
    <2>4. ~ torn => \A j \in Item \ touched : TrackedAt(w, j)'
      BY <1>1, <1>7, <1>10 DEF Knows
    <2>5. QED BY <1>1, <1>4, <1>5, <1>6, <2>1, <2>2, <2>3, <2>4, KnowsOn
  <1>12. QED
    <2>1. Active(w) /\ "place" \in Writing
      BY <1>1 DEF Active, Writing
    <2>2. \A j \in Item : disk'[j] = disk[j] \/ disk'[j] \notin Mine
      BY <1>1, <1>2, <1>6, ItemsAre DEF TypeOK
    <2>3. QED BY <1>2, <1>4, <1>5, <1>6, <1>11, <2>1, <2>2, GoesOn

LEMMA PlaceKeeps ==
  ASSUME ProjectionAssumption, ProjectionInv, NEW w \in Write, Place(w)
  PROVE  ProjectionInv'
  <1>1. /\ TypeOK /\ call[w] \in Call /\ Knows(w) /\ pc[w] = "place" /\ Checked(w)
           /\ call[w].left # {}
        /\ Here(w) \in call[w].left /\ Here(w) \in Item
    BY WorkOf DEF Place, At, Checked, Writing
  <1> PICK c \in Call, i \in Item : c = call[w] /\ i = Here(w)
    BY <1>1
  <1>0. PICK e : e = IF Wanted(c, i) THEN Emit(c, i) ELSE [c EXCEPT !.left = @ \ {i}]
    OBVIOUS
  <1>2. /\ disk' = [disk EXCEPT ![i] = IF Wanted(c, i) THEN c.goal[i] ELSE Absent]
        /\ pc' = [pc EXCEPT ![w] = "write"] /\ call' = [call EXCEPT ![w] = e]
        /\ UNCHANGED <<scope, plan, backups, record, temp, counters, touched, torn>>
    BY <1>0 DEF Place
  <1>3. /\ e \in Call /\ Same(e, c) /\ e.left = c.left \ {i}
        /\ e.out = IF Wanted(c, i) THEN [c.out EXCEPT ![i] = c.goal[i]] ELSE c.out
    <2>1. CASE Wanted(c, i)
      BY <1>0, <2>1, EmitIs
    <2>2. CASE ~ Wanted(c, i)
      <3>1. e = [c EXCEPT !.left = c.left \ {i}] /\ c.left \ {i} \in SUBSET Item
        BY <1>0, <2>2, FieldsOf
      <3>2. QED BY <2>2, <3>1, LeftIs, SMTT(30)
    <2>3. QED BY <2>1, <2>2
  <1>4. /\ disk' \in [Item -> Content] /\ mishaps \in 0..MaxMishaps /\ disk'[i] \notin Mine
        /\ disk'[i] = IF Wanted(c, i) THEN c.goal[i] ELSE Absent
    <2>1. c.goal[i] \in Rendering \cup {Absent}
      BY FieldsOf DEF Record
    <2>2. QED BY <1>1, <1>2, <2>1, ItemsAre DEF TypeOK
  <1>5. UNCHANGED <<scope, plan, backups, record, temp, torn, writes, replans, mishaps, touched>>
    BY <1>2 DEF counters
  <1>6. TypeOK' /\ pc'[w] = "write" /\ call'[w] = e
    <2>1. "write" \in Steps
      BY DEF Steps
    <2>2. /\ record' \in Record /\ temp' \in Record \cup {Absent}
          /\ touched' \subseteq Item /\ torn' \in BOOLEAN /\ mishaps' \in 0..MaxMishaps
          /\ backups' \subseteq Item \X Content
      BY <1>1, <1>5 DEF TypeOK
    <2>3. TypeOK /\ pc' = [pc EXCEPT ![w] = "write"] /\ call' = [call EXCEPT ![w] = e]
          /\ UNCHANGED <<scope, plan, writes, replans>>
      BY <1>1, <1>2, <1>5
    <2>4. QED BY <1>3, <1>4, <2>1, <2>2, <2>3, MoveTypes
  <1>7. \A j \in Item \ {i} : (j \in e.left <=> j \in c.left) /\ e.out[j] = c.out[j]
          /\ disk'[j] = disk[j]
    BY <1>1, <1>2, <1>3, FieldsOf DEF Record, TypeOK
  <1>8. \A j \in Item \ {i} : (ExactAt(w, j) => ExactAt(w, j)') /\ (TrackedAt(w, j) =>
          TrackedAt(w, j)')
    BY <1>1, <1>3, <1>6, <1>7, OtherItems DEF Writing
  <1>9. /\ i \notin e.left /\ Selected(i, c.only) /\ (Wanted(c, i) \/ Kind[i] = "block")
        /\ e.out[i] = IF Wanted(c, i) THEN c.goal[i] ELSE c.out[i]
    BY <1>1, <1>3, FieldsOf DEF Knows, Duty, Writing, Record
  <1>10. ~ c.mixed => ExactAt(w, i)'
    <2> SUFFICES ASSUME ~ c.mixed PROVE ExactAt(w, i)'
      OBVIOUS
    <2>1. c.out[i] = Absent
      BY <1>1, <1>9 DEF Knows, ExactAt, Writing
    <2>2. QED BY <1>3, <1>4, <1>6, <1>9, <2>1 DEF ExactAt, Emitted, Wanted, Same, Writing, Closing
  <1>11. ~ torn /\ i \notin touched => TrackedAt(w, i)'
    <2> SUFFICES ASSUME ~ torn, i \notin touched PROVE TrackedAt(w, i)'
      OBVIOUS
    <2>1. c.out[i] = Absent
      BY <1>1, <1>9 DEF Knows, TrackedAt, Writing
    <2>2. QED BY <1>3, <1>4, <1>6, <1>9, <2>1 DEF TrackedAt, Followed, Wanted, Same, Writing,
                                                  Closing
  <1>12. Knows(w)'
    <2>1. Duty(w)' /\ Checked(w)'
      BY <1>1, <1>3, <1>6 DEF Knows, Duty, Writing, Same, Checked
    <2>3. ~ c.mixed => \A j \in Item : ExactAt(w, j)'
      BY <1>1, <1>8, <1>10 DEF Knows
    <2>4. ~ torn => \A j \in Item \ touched : TrackedAt(w, j)'
      BY <1>1, <1>8, <1>11 DEF Knows
    <2>5. QED BY <1>1, <1>3, <1>5, <1>6, <2>1, <2>3, <2>4, KnowsOn DEF Same
  <1>13. QED
    <2>1. Active(w) /\ "write" \in Writing
      BY <1>1 DEF Active, Writing
    <2>3. QED BY <1>2, <1>3, <1>4, <1>5, <1>6, <1>7, <1>12, <2>1, GoesOn

LEMMA DiffKeeps ==
  ASSUME ProjectionAssumption, ProjectionInv, NEW w \in Write, Diff(w)
  PROVE  ProjectionInv'
  <1>1. /\ TypeOK /\ call[w] \in Call /\ Knows(w) /\ pc[w] = "write" /\ Checked(w)
           /\ call[w].left = {}
    BY WorkOf DEF Diff, Checked, Writing
  <1> PICK c \in Call : c = call[w]
    BY <1>1
  <1> PICK e : e = [c EXCEPT !.left = Removed(c)]
    OBVIOUS
  <1>2. /\ pc' = [pc EXCEPT ![w] = "cleanup"] /\ call' = [call EXCEPT ![w] = e]
        /\ UNCHANGED <<scope, plan, files, record, temp, counters, touched, torn>>
    BY DEF Diff
  <1>3. e \in Call /\ Same(e, c) /\ e.left = Removed(c) /\ e.out = c.out
    <2>1. Removed(c) \in SUBSET Item
      BY DEF Removed
    <2>2. QED BY <2>1, LeftIs
  <1>4. UNCHANGED <<scope, plan, disk, backups, record, temp, torn, writes, replans, mishaps,
          touched>>
    BY <1>2 DEF counters, files
  <1>5. TypeOK' /\ pc'[w] = "cleanup" /\ call'[w] = e
    BY <1>1, <1>2, <1>3, <1>4, MoveTypes DEF TypeOK, Steps
  <1>6. ASSUME ~ c.mixed, NEW j \in Item PROVE ExactAt(w, j)'
    <2>1. Selected(j, c.only) => Emitted(c, j)
      BY <1>1, <1>6 DEF Knows, ExactAt, Writing
    <2>2. Selected(j, c.only) => (IF j \in e.left THEN c.goal[j] = Absent
            /\ Emitted(c, j) ELSE Finished(c, j))
      <3>1. j \in e.left <=> Owned(c, j) /\ Selected(j, c.only) /\ c.out[j] = Absent
        BY <1>3 DEF Removed
      <3>2. QED BY <2>1, <3>1 DEF Emitted, Finished, Skips, Drifted, Owned
    <2>3. QED BY <1>3, <1>4, <1>5, <2>2 DEF ExactAt, Emitted, Finished, Skips, Drifted, Owned,
                                            Writing, Closing, Same
  <1>7. ASSUME ~ torn, NEW j \in Item \ touched PROVE TrackedAt(w, j)'
    <2>1. TrackedAt(w, j)
      BY <1>1, <1>7 DEF Knows
    <2>2. Selected(j, c.only) => (IF j \in e.left THEN c.goal[j] = Absent
            /\ Followed(c, j) ELSE disk[j] = c.out[j])
      <3>1. j \in e.left <=> Owned(c, j) /\ Selected(j, c.only) /\ c.out[j] = Absent
        BY <1>3 DEF Removed
      <3>2. QED BY <1>1, <2>1, <3>1 DEF TrackedAt, Followed, Owned, Writing
    <2>3. QED BY <1>3, <1>4, <1>5, <2>1, <2>2 DEF TrackedAt, Followed, Writing, Closing, Same
  <1>8. Knows(w)'
    <2>1. Duty(w)' /\ Checked(w)'
      BY <1>3, <1>5 DEF Duty, Writing, Closing, Same, Checked, Removed, Owned
    <2>2. QED BY <1>1, <1>3, <1>4, <1>5, <1>6, <1>7, <2>1, KnowsOn DEF Same
  <1>9. QED
    <2>1. Active(w) /\ "cleanup" \in Closing
      BY <1>1 DEF Active, Closing
    <2>2. QED BY <1>2, <1>3, <1>4, <1>5, <1>8, <2>1, GoesOn

LEMMA CleanUpKeeps ==
  ASSUME ProjectionAssumption, ProjectionInv, NEW w \in Write, CleanUp(w)
  PROVE  ProjectionInv'
  <1>1. /\ TypeOK /\ call[w] \in Call /\ Knows(w) /\ pc[w] = "cleanup" /\ Checked(w)
           /\ call[w].left # {}
        /\ Here(w) \in call[w].left /\ Here(w) \in Item /\ pc = [pc EXCEPT ![w] = pc[w]]
    BY WorkOf DEF CleanUp, At, Checked, Closing
  <1> PICK c \in Call, i \in Item : c = call[w] /\ i = Here(w)
    BY <1>1
  <1>a. PICK gone \in BOOLEAN, removes \in BOOLEAN :
        /\ gone = (disk[i] = Absent \/ Kind[i] = "block")
        /\ removes = (~ gone /\ (c.force \/ disk[i] = c.prev[i]))
    OBVIOUS
  <1>b. PICK put \in Rendering \cup {Absent} : put = IF gone \/ removes THEN Absent ELSE c.prev[i]
    BY FieldsOf DEF Record
  <1>c. PICK e : e = [c EXCEPT !.left = @ \ {i}, !.out[i] = put]
    OBVIOUS
  <1>2. /\ disk' = IF removes THEN [disk EXCEPT ![i] = Absent] ELSE disk
        /\ backups' = IF removes
           /\ Kind[i] \in {"server", "codex"} THEN backups \cup {<<i, disk[i]>>} ELSE backups
        /\ call' = [call EXCEPT ![w] = e]
        /\ UNCHANGED <<scope, plan, record, temp, pc, counters, touched, torn>>
    BY <1>a, <1>b, <1>c DEF CleanUp
  <1>3. e \in Call /\ Same(e, c) /\ e.left = c.left \ {i} /\ e.out = [c.out EXCEPT ![i] = put]
    <2>2. PICK L \in SUBSET Item, o \in Record : L = c.left \ {i} /\ o = [c.out EXCEPT ![i] = put]
      BY FieldsOf DEF Record
    <2>3. e = [c EXCEPT !.left = L, !.out = o]
      BY <1>c, <2>2
    <2>4. e \in Call
      BY <2>2, <2>3 DEF Call
    <2>5. Same(e, c) /\ e.left = L /\ e.out = o
      BY <2>2, <2>3 DEF Call, Same
    <2>6. QED BY <2>2, <2>4, <2>5
  <1>4. disk' \in [Item -> Content] /\ backups' \subseteq Item \X Content
          /\ mishaps \in 0..MaxMishaps
    BY <1>1, <1>2, ItemsAre DEF TypeOK
  <1>5. UNCHANGED <<scope, plan, record, temp, torn, writes, replans, mishaps, touched>>
    BY <1>2 DEF counters
  <1>6. TypeOK' /\ pc'[w] = "cleanup" /\ call'[w] = e /\ pc' = [pc EXCEPT ![w] = "cleanup"]
    <2>1. "cleanup" \in Steps
      BY DEF Steps
    <2>2. /\ record' \in Record /\ temp' \in Record \cup {Absent}
          /\ touched' \subseteq Item /\ torn' \in BOOLEAN /\ mishaps' \in 0..MaxMishaps
      BY <1>1, <1>5 DEF TypeOK
    <2>3. TypeOK /\ pc' = [pc EXCEPT ![w] = "cleanup"] /\ call' = [call EXCEPT ![w] = e]
          /\ UNCHANGED <<scope, plan, writes, replans>>
      BY <1>1, <1>2, <1>5
    <2>4. QED BY <1>3, <1>4, <2>1, <2>2, <2>3, MoveTypes
  <1>7. /\ \A j \in Item \ {i} : (j \in e.left <=>
           j \in c.left) /\ e.out[j] = c.out[j] /\ disk'[j] = disk[j]
        /\ i \notin e.left /\ e.out[i] = put /\ disk'[i] = IF removes THEN Absent ELSE disk[i]
    BY <1>1, <1>2, <1>3, FieldsOf DEF Record, TypeOK
  <1>8. \A j \in Item \ {i} : (ExactAt(w, j) => ExactAt(w, j)') /\ (TrackedAt(w, j) =>
          TrackedAt(w, j)')
    BY <1>1, <1>3, <1>6, <1>7, OtherItemsClose DEF Closing
  <1>9. Selected(i, c.only) /\ Owned(c, i)
    BY <1>1 DEF Knows, Duty
  <1>10. ~ c.mixed => ExactAt(w, i)'
    <2> SUFFICES ASSUME ~ c.mixed PROVE ExactAt(w, i)'
      OBVIOUS
    <2>1. c.goal[i] = Absent /\ Emitted(c, i)
      BY <1>1, <1>9 DEF Knows, ExactAt, Closing
    <2>2. IF gone \/ removes THEN disk'[i] = Absent /\ put = Absent
          ELSE disk'[i] # c.prev[i] /\ ~ c.force /\ put = c.prev[i]
      BY <1>a, <1>b, <1>7, <2>1 DEF Emitted
    <2>3. c.prev[i] # Absent /\ Drifted(e, i)' = (disk'[i] # c.prev[i])
      BY <1>3, <1>9 DEF Drifted, Owned, Same
    <2>4. e.goal[i] = Absent /\ e.force = c.force /\ e.prev = c.prev /\ e.out[i] = put
      BY <1>3, <1>7, <2>1 DEF Same
    <2>5. Finished(e, i)'
      BY <2>2, <2>3, <2>4 DEF Finished
    <2>6. QED BY <1>6, <1>7, <2>5 DEF ExactAt, Writing, Closing
  <1>11. ~ torn /\ i \notin touched => TrackedAt(w, i)'
    <2> SUFFICES ASSUME ~ torn, i \notin touched PROVE TrackedAt(w, i)'
      OBVIOUS
    <2>1. c.goal[i] = Absent /\ Followed(c, i)
      BY <1>1, <1>9 DEF Knows, TrackedAt, Closing
    <2>2. disk'[i] = put
      BY <1>a, <1>b, <1>7, <2>1 DEF Followed
    <2>3. QED BY <1>3, <1>6, <1>7, <1>9, <2>2 DEF TrackedAt, Same, Writing, Closing
  <1>12. Knows(w)'
    <2>1. Duty(w)' /\ Checked(w)'
      BY <1>1, <1>3, <1>6 DEF Knows, Duty, Writing, Closing, Same, Checked, Owned
    <2>3. ~ c.mixed => \A j \in Item : ExactAt(w, j)'
      BY <1>1, <1>8, <1>10 DEF Knows
    <2>4. ~ torn => \A j \in Item \ touched : TrackedAt(w, j)'
      BY <1>1, <1>8, <1>11 DEF Knows
    <2>5. QED BY <1>1, <1>3, <1>5, <1>6, <2>1, <2>3, <2>4, KnowsOn DEF Same
  <1>13. QED
    <2>1. Active(w) /\ "cleanup" \in Closing
      BY <1>1 DEF Active, Closing
    <2>2. \A j \in Item : disk'[j] = disk[j] \/ disk'[j] \notin Mine
      BY <1>7, ItemsAre
    <2>3. call' = [call EXCEPT ![w] = e]
      BY <1>2
    <2>4. QED BY <1>3, <1>5, <1>6, <1>12, <2>1, <2>2, <2>3, GoesOn

LEMMA SaveKeeps ==
  ASSUME ProjectionAssumption, ProjectionInv, NEW w \in Write, Save(w)
  PROVE  ProjectionInv'
  <1>1. /\ TypeOK /\ call[w] \in Call /\ Knows(w) /\ pc[w] = "cleanup" /\ Checked(w)
           /\ call[w].left = {}
        /\ call' = [call EXCEPT ![w] = call[w]]
    BY WorkOf DEF Save, Checked, Closing
  <1> PICK c \in Call : c = call[w]
    BY <1>1
  <1>2. /\ pc' = [pc EXCEPT ![w] = "rename"] /\ temp' = NewRecord(c)
        /\ UNCHANGED <<scope, plan, disk, backups, record, torn, writes, replans, mishaps, touched>>
    BY DEF Save, files, counters
  <1>3. NewRecord(c) \in Record
    BY FieldsOf DEF NewRecord, Record
  <1>4. TypeOK' /\ pc'[w] = "rename" /\ call'[w] = c /\ Same(c, call[w])
    BY <1>1, <1>2, <1>3, MoveTypes DEF TypeOK, Steps, Same
  <1>5. \A j \in Item : (ExactAt(w, j) => ExactAt(w, j)') /\ (TrackedAt(w, j) => TrackedAt(w, j)')
    BY <1>1, <1>2, <1>4, OtherItemsClose DEF Closing
  <1>6. Knows(w)'
    <2>1. Duty(w)' /\ Checked(w)'
      BY <1>1, <1>4 DEF Duty, Writing, Closing, Checked
    <2>2. ~ c.mixed => \A j \in Item : ExactAt(w, j)'
      BY <1>1, <1>5 DEF Knows
    <2>3. ~ torn => \A j \in Item \ touched : TrackedAt(w, j)'
      BY <1>1, <1>5 DEF Knows
    <2>4. QED BY <1>1, <1>2, <1>4, <2>1, <2>2, <2>3, KnowsOn
  <1>7. QED
    <2>1. Active(w) /\ "rename" \in Closing
      BY <1>1 DEF Active, Closing
    <2>2. QED BY <1>1, <1>2, <1>4, <1>6, <2>1, GoesOn

LEMMA ReadingIs ==
  ASSUME ProjectionInv, NEW w \in Write, NEW e, e = Reading(w), call[w] \in Call, record \in Record,
         disk \in [Item -> Content]
  PROVE  /\ e \in Call /\ e.prev = record /\ e.seen = disk
            /\ e.left = {i \in Item : Selected(i, e.only)}
         /\ e.force = call[w].force /\ e.only = call[w].only /\ e.goal = call[w].goal
         /\ e.out = call[w].out /\ e.mixed = call[w].mixed
  <1>1. PICK L \in SUBSET Item : L = {i \in Item : Selected(i, call[w].only)}
    OBVIOUS
  <1>2. e = [call[w] EXCEPT !.prev = record, !.seen = disk, !.left = L]
    BY <1>1 DEF Reading
  <1>3. QED BY <1>1, <1>2 DEF Call

(* While a write has yet to check, the record says what is there. *)
LEMMA NobodyChecked ==
  ASSUME ProjectionInv, NEW w \in Write, pc[w] \in {"idle", "verify"}, ~ torn,
         Active(w) \/ \A v \in Write : ~ Active(v)
  PROVE  (\A v \in Write : ~ Checked(v)) /\ \A i \in Item \ touched : disk[i] = record[i]
  <1>1. ASSUME NEW v \in Write PROVE ~ Checked(v)
    BY DEF ProjectionInv, OneAtATime, Active, Checked, Writing, Closing
  <1>2. QED BY <1>1 DEF ProjectionInv, Rest

LEMMA VerifyKeeps ==
  ASSUME ProjectionAssumption, ProjectionInv, NEW w \in Write, Verify(w)
  PROVE  ProjectionInv'
  <1>1. /\ TypeOK /\ call[w] \in Call /\ Knows(w) /\ pc[w] = "verify" /\ Active(w)
        /\ disk \in [Item -> Content] /\ record \in Record /\ call[w].out = Nothing
    BY WorkOf DEF Verify, Active, TypeOK, Knows, Duty
  <1> PICK e : e = Reading(w)
    OBVIOUS
  <1>2. /\ pc' = [pc EXCEPT ![w] = "write"] /\ call' = [call EXCEPT ![w] = e]
        /\ IF scope = "machine" THEN ~ MachineConflict(e) ELSE \A i \in Item : ~ ProjectDrift(e, i)
    BY DEF Verify
  <1>3. UNCHANGED <<scope, plan, disk, backups, record, temp, torn, writes, replans, mishaps,
          touched>>
    BY DEF Verify, counters, files
  <1>4. /\ e \in Call /\ e.prev = record /\ e.seen = disk
           /\ e.left = {i \in Item : Selected(i, e.only)}
        /\ e.out = Nothing /\ e.mixed = call[w].mixed
    BY <1>1, ReadingIs
  <1>5. TypeOK' /\ pc'[w] = "write" /\ call'[w] = e
    BY <1>1, <1>2, <1>3, <1>4, MoveTypes DEF TypeOK, Steps
  <1>6. Ruled(e)'
    <2> SUFFICES Ruled(e)
      BY <1>3 DEF Ruled, Wanted, Owned
    <2>1. scope = "machine" \/ scope = "project"
      BY <1>1, ItemsAre DEF TypeOK
    <2>2. CASE scope = "machine"
      BY <1>2, <1>4, <2>2 DEF Ruled, MachineConflict, Drifted
    <2>3. CASE scope = "project"
      <3> SUFFICES ASSUME NEW i \in Item, ~ e.force, Owned(e, i), e.seen[i] # e.prev[i]
                   PROVE  \/ e.seen[i] = Absent \/ Kind[i] \in {"server", "block"}
                          \/ Kind[i] = "directory" /\ e.seen[i] = Alien
        BY <2>3 DEF Ruled
      <3>1. ~ ProjectDrift(e, i) /\ Kind[i] \in Kinds
        BY <1>2, <2>3, ItemsAre
      <3>2. QED BY <1>4, <3>1 DEF ProjectDrift, Drifted, Kinds
    <2>4. QED BY <2>1, <2>2, <2>3
  <1>7. Knows(w)'
    <2>1. Duty(w)'
      BY <1>4, <1>5 DEF Duty, Writing
    <2>2. NumbersAreNew(w)'
      BY <1>1, <1>3, <1>4, <1>5 DEF NumbersAreNew, ProjectionInv, UsersMarks
    <2>3. ASSUME NEW j \in Item PROVE ExactAt(w, j)'
      BY <1>3, <1>4, <1>5 DEF ExactAt, Now, Writing, Closing, Nothing
    <2>4. ASSUME ~ torn, NEW j \in Item \ touched PROVE TrackedAt(w, j)'
      <3>1. disk[j] = record[j]
        BY <1>1, <2>4, NobodyChecked
      <3>2. QED BY <1>3, <1>4, <1>5, <3>1 DEF TrackedAt, Now, Writing, Closing, Nothing
    <2>5. Ruled(call[w])' /\ e.prev = record'
      BY <1>3, <1>4, <1>5, <1>6
    <2>6. QED BY <1>3, <1>5, <2>1, <2>2, <2>3, <2>4, <2>5 DEF Knows
  <1>8. QED
    <2>1. Rest'
      BY <1>5 DEF Rest, Checked, Writing
    <2>2. "write" \in Steps /\ mishaps' \in Nat /\ mishaps' >= mishaps
      BY <1>1, <1>3, ItemsAre DEF Steps, TypeOK
    <2>3. QED BY <1>1, <1>2, <1>3, <1>4, <1>5, <1>7, <2>1, <2>2, StepKeeps

(* A call that ends in an error leaves what it has not done undone, and     *)
(* either nothing was begun or something is torn.                           *)
LEMMA EndKeeps ==
  ASSUME ProjectionAssumption, ProjectionInv, NEW w \in Write, Active(w),
         pc' = [pc EXCEPT ![w] = "idle"], call' = [call EXCEPT ![w] = NoCall],
         torn' \/ (torn' = torn /\ pc[w] = "verify"), torn' \in BOOLEAN, torn => torn',
         UNCHANGED <<scope, plan, disk, backups, record, temp, writes, replans, touched>>,
         mishaps' \in 0..MaxMishaps, mishaps' >= mishaps
  PROVE  ProjectionInv'
  <1>1. TypeOK
    BY DEF ProjectionInv
  <1>2. NoCall \in Call /\ "idle" \in Steps /\ mishaps' \in Nat
    BY NoCallIs, ItemsAre DEF Steps
  <1>3. TypeOK' /\ pc'[w] = "idle" /\ call'[w] = NoCall
    BY <1>1, <1>2, MoveTypes DEF TypeOK
  <1>4. Knows(w)'
    <2>1. NumbersAreNew(w)'
      BY <1>3, NoCallIs, ItemsAre DEF NumbersAreNew, Nothing
    <2>2. QED BY <1>3, <2>1 DEF Knows, Duty, Checked, Writing, Closing
  <1>5. Rest'
    <2> SUFFICES ASSUME ~ torn' PROVE \A i \in Item \ touched : disk[i] = record[i]
      BY DEF Rest
    <2>1. QED BY NobodyChecked
  <1>6. QED BY <1>2, <1>3, <1>4, <1>5, StepKeeps

LEMMA EndsKeep ==
  ASSUME ProjectionAssumption, ProjectionInv, NEW w \in Write,
         Refuse(w) \/ Fail(w) \/ RenameFails(w) \/ Crash(w)
  PROVE  ProjectionInv'
  <1>1. mishaps \in 0..MaxMishaps /\ torn \in BOOLEAN /\ MaxMishaps \in Nat
    BY ItemsAre DEF ProjectionInv, TypeOK
  <1>2. Active(w)
    BY DEF Active, Refuse, Fail, At, RenameFails, Crash
  <1>3. pc' = [pc EXCEPT ![w] = "idle"] /\ call' = [call EXCEPT ![w] = NoCall]
    BY DEF Refuse, Fail, RenameFails, Crash, Abandon
  <1>4. UNCHANGED <<scope, plan, disk, backups, record, temp, writes, replans, touched>>
    BY DEF Refuse, Fail, RenameFails, Crash, files, counters
  <1>5. torn' \/ (torn' = torn /\ pc[w] = "verify")
    BY DEF Refuse, Fail, RenameFails, Crash, Abandon
  <1>7. mishaps' \in 0..MaxMishaps /\ mishaps' >= mishaps
    <2>1. mishaps' = mishaps \/ (mishaps < MaxMishaps /\ mishaps' = mishaps + 1)
      BY DEF Refuse, Fail, RenameFails, Crash, Mishap, counters
    <2>2. QED BY <1>1, <2>1
  <1>8. torn' \in BOOLEAN /\ (torn => torn')
    BY <1>1, <1>5
  <1>6. QED BY <1>2, <1>3, <1>4, <1>5, <1>7, <1>8, EndKeeps

(* What the record says of an item, and whose items are settled. *)
LEMMA RenameKeeps ==
  ASSUME ProjectionAssumption, ProjectionInv, NEW w \in Write, Rename(w)
  PROVE  ProjectionInv'
  <1>1. /\ TypeOK /\ call[w] \in Call /\ Knows(w) /\ pc[w] = "rename" /\ Checked(w) /\ Active(w)
        /\ temp \in Record /\ call[w].left = {}
    BY WorkOf DEF Rename, Checked, Closing, Active, TypeOK, Knows, Duty
  <1> PICK c \in Call : c = call[w]
    BY <1>1
  <1>2. /\ pc' = [pc EXCEPT ![w] = "idle"] /\ call' = [call EXCEPT ![w] = NoCall]
        /\ record' = temp /\ temp' = Absent
        /\ touched' = IF c.force /\ ~ c.mixed THEN touched \ Settled(c) ELSE touched
        /\ UNCHANGED <<scope, plan, disk, backups, torn, writes, replans, mishaps>>
    BY DEF Rename, files, counters
  <1>3. NoCall \in Call /\ "idle" \in Steps /\ mishaps' \in 0..MaxMishaps /\ touched' \subseteq Item
    BY <1>1, <1>2, NoCallIs DEF TypeOK, Steps
  <1>4. TypeOK' /\ pc'[w] = "idle" /\ call'[w] = NoCall
    BY <1>1, <1>2, <1>3, MoveTypes DEF TypeOK
  <1>5. Knows(w)'
    <2>1. NumbersAreNew(w)'
      BY <1>4, NoCallIs, ItemsAre DEF NumbersAreNew, Nothing
    <2>2. QED BY <1>4, <2>1 DEF Knows, Duty, Checked, Writing, Closing
  <1>6. Rest'
    <2> SUFFICES ASSUME ~ torn, NEW i \in Item \ touched' PROVE disk[i] = temp[i]
      BY <1>2 DEF Rest
    <2>1. temp = NewRecord(c)
      BY <1>1 DEF ProjectionInv, TempIsItsOwn
    <2>2. CASE i \notin touched
      <3>1. TrackedAt(w, i)
        BY <1>1, <2>2 DEF Knows
      <3>2. QED BY <1>1, <2>1, <3>1 DEF TrackedAt, NewRecord, Closing
    <2>3. CASE i \in touched
      <3>1. c.force /\ ~ c.mixed /\ i \in Settled(c)
        BY <1>2, <2>3
      <3>2. Finished(c, i) /\ Selected(i, c.only)
        BY <1>1, <3>1 DEF Knows, ExactAt, Closing, Settled
      <3>3. QED BY <2>1, <3>1, <3>2 DEF Finished, Emitted, Skips, Drifted, NewRecord, Settled
    <2>4. QED BY <2>2, <2>3
  <1>7. mishaps' \in Nat /\ mishaps' >= mishaps
    BY <1>1, <1>2, ItemsAre DEF TypeOK
  <1>8. QED BY <1>1, <1>2, <1>3, <1>4, <1>5, <1>6, <1>7, StepKeeps

(* A call that something came in between of is otherwise what it was. *)
Marked(e, c) ==
  /\ e.force = c.force /\ e.only = c.only /\ e.goal = c.goal /\ e.prev = c.prev
  /\ e.seen = c.seen /\ e.left = c.left /\ e.out = c.out

LEMMA MarkIs ==
  ASSUME NEW c \in Call, NEW m \in BOOLEAN
  PROVE  LET e == [c EXCEPT !.mixed = m] IN e \in Call /\ e.mixed = m /\ Marked(e, c)
  BY DEF Call, Marked

LEMMA MarkedKnows ==
  ASSUME NEW v \in Write, Knows(v), pc'[v] = pc[v], Marked(call'[v], call[v]),
         scope' = scope, record' = record, NumbersAreNew(v)', Checked(v) => call'[v].mixed,
         ~ torn' => ~ torn /\ \A j \in Item \ touched' : j \notin touched /\ disk'[j] = disk[j]
  PROVE  Knows(v)'
  <1>1. Here(v)' = Here(v)
    BY DEF Marked, Here
  <1>2. Duty(v)'
    BY <1>1 DEF Marked, Knows, Duty, Wanted, Owned
  <1>3. ASSUME Checked(v)' PROVE Checked(v) /\ Ruled(call[v])'
    BY <1>3 DEF Marked, Knows, Checked, Ruled, Wanted, Owned
  <1>4. ASSUME Checked(v), ~ torn', NEW j \in Item \ touched' PROVE TrackedAt(v, j)'
    <2>1. TrackedAt(v, j) /\ disk'[j] = disk[j]
      BY <1>4 DEF Knows
    <2>2. QED BY <1>1, <2>1 DEF Marked, TrackedAt, Now, Followed
  <1>5. Checked(v) /\ ~ torn' => call'[v].prev = record'
    BY DEF Knows, Marked
  <1>6. QED BY <1>2, <1>3, <1>4, <1>5 DEF Knows

LEMMA DisturbIs ==
  ASSUME NEW ws \in SUBSET Write, TypeOK
  PROVE  /\ Disturb(ws) \in [Write -> Call]
         /\ \A v \in Write : /\ Marked(Disturb(ws)[v], call[v])
                             /\ v \in ws /\ Active(v) => Disturb(ws)[v].mixed
                             /\ ~ (v \in ws /\ Active(v)) => Disturb(ws)[v] = call[v]
  <1>1. ASSUME NEW v \in Write
        PROVE  /\ Disturb(ws)[v] \in Call /\ Marked(Disturb(ws)[v], call[v])
               /\ v \in ws /\ Active(v) => Disturb(ws)[v].mixed
               /\ ~ (v \in ws /\ Active(v)) => Disturb(ws)[v] = call[v]
    <2>1. call[v] \in Call
      BY DEF TypeOK
    <2>2. CASE v \in ws /\ Active(v)
      BY <2>1, <2>2, MarkIs DEF Disturb
    <2>3. CASE ~ (v \in ws /\ Active(v))
      BY <2>1, <2>3 DEF Disturb, Marked
    <2>4. QED BY <2>2, <2>3
  <1>2. Disturb(ws) = [v \in Write |-> Disturb(ws)[v]]
    BY DEF Disturb
  <1>3. QED BY <1>1, <1>2

LEMMA PutsKeep ==
  ASSUME ProjectionAssumption, ProjectionInv, NEW i \in Item, NEW put \in {mishaps + 1, Absent,
         Alien}, Puts(i, put),
         put = Alien => Kind[i] = "directory"
  PROVE  ProjectionInv'
  <1>1. /\ TypeOK /\ mishaps \in Nat /\ MaxMishaps \in Nat /\ disk \in [Item -> Content]
        /\ mishaps' = mishaps + 1 /\ mishaps < MaxMishaps
    BY ItemsAre DEF ProjectionInv, TypeOK, Puts, Mishap
  <1>2. /\ disk' = [disk EXCEPT ![i] = put] /\ touched' = touched \cup {i} /\ call' = Disturb(Write)
        /\ UNCHANGED <<scope, plan, backups, record, temp, pc, writes, replans, torn>>
    BY DEF Puts
  <1>3. put \in Content /\ (put \in 1..MaxMishaps => put = mishaps + 1)
    <2>1. mishaps + 1 \in 1..MaxMishaps
      BY <1>1
    <2>2. QED BY <2>1, ItemsAre
  <1>4. /\ call' \in [Write -> Call]
        /\ \A v \in Write : /\ Marked(call'[v], call[v]) /\ (Active(v) => call'[v].mixed)
                            /\ ~ Active(v) => call'[v] = call[v]
    BY <1>1, <1>2, DisturbIs
  <1>5. TypeOK'
    <2>1. disk' \in [Item -> Content] /\ touched' \subseteq Item /\ mishaps' \in 0..MaxMishaps
      BY <1>1, <1>2, <1>3 DEF TypeOK
    <2>2. QED BY <1>1, <1>2, <1>4, <2>1 DEF TypeOK
  <1>6. OneAtATime'
    BY <1>2, <1>4 DEF ProjectionInv, OneAtATime, Active
  <1>7. TempIsItsOwn'
    <2> SUFFICES ASSUME NEW v \in Write, pc[v] = "rename", ~ torn \/ ~ call'[v].mixed
                 PROVE  temp = NewRecord(call'[v])
      BY <1>2 DEF TempIsItsOwn, NewRecord
    <2>1. ~ torn /\ Marked(call'[v], call[v])
      BY <1>4 DEF Active
    <2>2. temp = NewRecord(call[v])
      BY <2>1 DEF ProjectionInv, TempIsItsOwn
    <2>3. QED BY <2>1, <2>2 DEF Marked, NewRecord
  <1>8. UsersMarks'
    <2> SUFFICES ASSUME NEW j \in Item
                 PROVE  /\ disk'[j] = Alien => Kind[j] = "directory"
                        /\ disk'[j] \in 1..MaxMishaps => disk'[j] <= mishaps'
      BY DEF UsersMarks
    <2>1. CASE j = i
      BY <1>1, <1>2, <1>3, <2>1
    <2>2. CASE j # i
      <3>1. disk'[j] = disk[j]
        BY <1>1, <1>2, <2>2
      <3>2. QED BY <1>1, <3>1 DEF ProjectionInv, UsersMarks
    <2>3. QED BY <2>1, <2>2
  <1>9. Rest'
    BY <1>1, <1>2 DEF ProjectionInv, Rest, Checked
  <1>10. ASSUME NEW v \in Write PROVE Knows(v)'
    <2>1. Knows(v) /\ Marked(call'[v], call[v]) /\ pc'[v] = pc[v]
      BY <1>2, <1>4 DEF ProjectionInv
    <2>2. NumbersAreNew(v)'
      <3>1. ASSUME NEW j \in Item, call[v].seen[j] \in 1..MaxMishaps
            PROVE  call[v].seen[j] <= mishaps
        BY <2>1, <3>1 DEF Knows, NumbersAreNew
      <3>2. ASSUME pc[v] = "place", disk'[Here(v)] \in 1..MaxMishaps
            PROVE  disk'[Here(v)] # call[v].seen[Here(v)]
        <4>1. Here(v) \in Item
          BY <2>1, <3>2, HereIs DEF Knows, Duty
        <4>2. CASE Here(v) = i
          BY <1>1, <1>2, <1>3, <3>1, <3>2, <4>1, <4>2
        <4>3. CASE Here(v) # i
          BY <1>1, <1>2, <2>1, <3>2, <4>1, <4>3 DEF Knows, NumbersAreNew
        <4>4. QED BY <4>2, <4>3
      <3>3. Here(v)' = Here(v)
        BY <2>1 DEF Marked, Here
      <3>4. QED BY <1>1, <2>1, <3>1, <3>2, <3>3 DEF Marked, NumbersAreNew
    <2>3. Checked(v) => call'[v].mixed
      BY <1>4 DEF Checked, Active, Writing, Closing
    <2>4. \A j \in Item \ touched' : j \notin touched /\ disk'[j] = disk[j]
      BY <1>1, <1>2
    <2>5. QED BY <1>2, <2>1, <2>2, <2>3, <2>4, MarkedKnows
  <1>11. QED BY <1>5, <1>6, <1>7, <1>8, <1>9, <1>10 DEF ProjectionInv

LEMMA UserKeeps ==
  ASSUME ProjectionAssumption, ProjectionInv, NEW i \in Item, Edit(i) \/ Delete(i) \/ Supplant(i)
  PROVE  ProjectionInv'
  <1>1. mishaps + 1 # Alien /\ Absent # Alien
    BY ItemsAre DEF ProjectionInv, TypeOK
  <1>2. QED BY <1>1, PutsKeep DEF Edit, Delete, Supplant

LEMMA BeginKeeps ==
  ASSUME ProjectionAssumption, ProjectionInv, NEW w \in Write, NEW force \in BOOLEAN,
         NEW only \in Selections,
         Begin(w, force, only)
  PROVE  ProjectionInv'
  <1> PICK others \in SUBSET Write : others = {put \in Write \ {w} : Active(put)}
    OBVIOUS
  <1> PICK e : e = [NoCall EXCEPT !.force = force, !.only = only, !.goal = plan,
        !.mixed = others # {}]
    OBVIOUS
  <1>1. /\ TypeOK /\ mishaps \in Nat /\ MaxMishaps \in Nat /\ MaxWrites \in Nat /\ plan \in Record
        /\ NoCall \in Call /\ writes \in 0..MaxWrites /\ mishaps \in 0..MaxMishaps
    BY NoCallIs, ItemsAre DEF ProjectionInv, TypeOK
  <1>2. /\ pc[w] = "idle" /\ writes < MaxWrites /\ writes' = writes + 1
           /\ pc' = [pc EXCEPT ![w] = "verify"]
        /\ call' = [Disturb(others) EXCEPT ![w] = e]
        /\ IF others = {} THEN UNCHANGED <<mishaps, torn>> ELSE Mishap /\ torn' = TRUE
        /\ UNCHANGED <<scope, plan, disk, backups, record, temp, replans, touched>>
    BY DEF Begin, files
  <1>3. e \in Call /\ e.out = Nothing /\ e.seen = Nothing /\ e.mixed = (others # {})
    BY <1>1, ItemsAre DEF NoCall, Call
  <1>4. mishaps' \in 0..MaxMishaps /\ mishaps' >= mishaps /\ torn' \in BOOLEAN /\ (torn => torn')
    <2>1. CASE others = {}
      BY <1>1, <1>2, <2>1 DEF TypeOK
    <2>2. CASE others # {}
      <3>1. mishaps < MaxMishaps /\ mishaps' = mishaps + 1 /\ torn' = TRUE
        BY <1>2, <2>2 DEF Mishap
      <3>2. QED BY <1>1, <3>1
    <2>3. QED BY <2>1, <2>2
  <1>5. /\ call' \in [Write -> Call] /\ call'[w] = e /\ pc' \in [Write -> Steps]
           /\ pc'[w] = "verify"
        /\ \A v \in Write \ {w} : /\ pc'[v] = pc[v] /\ Marked(call'[v], call[v])
                                  /\ Active(v) => call'[v].mixed
                                  /\ ~ Active(v) => call'[v] = call[v]
    BY <1>1, <1>2, <1>3, DisturbIs DEF TypeOK, Steps
  <1>6. \A v \in Write \ {w} : Active(v) => torn' /\ others # {}
    BY <1>2
  <1>7. TypeOK'
    <2>1. writes' \in 0..MaxWrites
      BY <1>1, <1>2
    <2>2. QED BY <1>1, <1>2, <1>4, <1>5, <2>1 DEF TypeOK
  <1>8. OneAtATime'
    <2>1. \A v \in Write \ {w} : Active(v)' => Active(v) /\ torn' /\ others # {} /\ call'[v].mixed
      BY <1>5, <1>6 DEF Active
    <2>2. call'[w].mixed = (others # {})
      BY <1>3, <1>5
    <2>3. QED BY <2>1, <2>2 DEF OneAtATime
  <1>9. TempIsItsOwn'
    BY <1>5, <1>6 DEF TempIsItsOwn, Active
  <1>10. UsersMarks'
    <2> SUFFICES ASSUME NEW j \in Item
                 PROVE  /\ disk[j] = Alien => Kind[j] = "directory"
                        /\ disk[j] \in 1..MaxMishaps => disk[j] <= mishaps'
      BY <1>2 DEF UsersMarks
    <2>1. QED BY <1>1, <1>4 DEF ProjectionInv, UsersMarks
  <1>11. Rest'
    <2> SUFFICES ASSUME ~ torn' PROVE \A i \in Item \ touched : disk[i] = record[i]
      BY <1>2 DEF Rest
    <2>1. ~ torn /\ \A v \in Write : ~ Active(v)
      BY <1>2, <1>4, <1>6 DEF Active
    <2>2. QED BY <1>2, <2>1, NobodyChecked
  <1>12. ASSUME NEW v \in Write PROVE Knows(v)'
    <2>1. CASE v = w
      <3>1. NumbersAreNew(w)'
        BY <1>3, <1>5, ItemsAre DEF NumbersAreNew, Nothing
      <3>2. QED BY <1>3, <1>5, <2>1, <3>1 DEF Knows, Duty, Checked, Writing, Closing
    <2>2. CASE v # w
      <3>1. Knows(v) /\ pc'[v] = pc[v] /\ Marked(call'[v], call[v])
        BY <1>5, <2>2 DEF ProjectionInv
      <3>2. NumbersAreNew(v)'
        <4>1. ASSUME NEW j \in Item, call[v].seen[j] \in 1..MaxMishaps
              PROVE  call[v].seen[j] <= mishaps'
          BY <1>1, <1>4, <3>1, <4>1 DEF Knows, NumbersAreNew
        <4>2. Here(v)' = Here(v)
          BY <3>1 DEF Marked, Here
        <4>3. QED BY <1>2, <3>1, <4>1, <4>2 DEF Marked, Knows, NumbersAreNew
      <3>3. Checked(v) => Active(v)
        BY DEF Checked, Active, Writing, Closing
      <3>4. CASE Active(v)
        BY <1>2, <1>5, <1>6, <2>2, <3>1, <3>2, <3>4, MarkedKnows
      <3>5. CASE ~ Active(v)
        BY <3>1, <3>2, <3>5 DEF Knows, Duty, Active, Checked, Writing, Closing
      <3>6. QED BY <3>4, <3>5
    <2>3. QED BY <2>1, <2>2
  <1>13. QED BY <1>7, <1>8, <1>9, <1>10, <1>11, <1>12 DEF ProjectionInv

LEMMA StutterKeeps ==
  ASSUME ProjectionInv, UNCHANGED <<scope, disk, backups, record, temp, pc, call, writes, mishaps,
         touched, torn>>,
         plan' \in Plans, replans' \in 0..MaxPlans
  PROVE  ProjectionInv'
  <1>1. TypeOK'
    BY DEF ProjectionInv, TypeOK
  <1>2. OneAtATime' /\ TempIsItsOwn' /\ UsersMarks' /\ Rest'
    BY DEF ProjectionInv, OneAtATime, Active, TempIsItsOwn, NewRecord, UsersMarks, Rest, Checked
  <1>3. ASSUME NEW v \in Write PROVE Knows(v)'
    <2>1. Knows(v)
      BY DEF ProjectionInv
    <2>2. Duty(v)' /\ NumbersAreNew(v)'
      BY <2>1 DEF Knows, Duty, NumbersAreNew, Here, Wanted, Owned
    <2>3. Checked(v)' => Ruled(call[v])'
      BY <2>1 DEF Knows, Checked, Ruled, Wanted, Owned
    <2>4. ASSUME NEW j \in Item PROVE ExactAt(v, j) => ExactAt(v, j)'
      BY DEF ExactAt, Now, Here, Emitted, Finished, Skips, Drifted, Owned
    <2>5. ASSUME NEW j \in Item PROVE TrackedAt(v, j) => TrackedAt(v, j)'
      BY DEF TrackedAt, Now, Here, Followed
    <2>6. QED BY <2>1, <2>2, <2>3, <2>4, <2>5 DEF Knows, Checked
  <1>4. QED BY <1>1, <1>2, <1>3 DEF ProjectionInv

LEMMA ProjectionKeeps ==
  ASSUME ProjectionAssumption, ProjectionInv, [Next]_vars
  PROVE  ProjectionInv'
  <1>1. CASE UNCHANGED vars
    <2>1. plan' \in Plans /\ replans' \in 0..MaxPlans
      BY <1>1 DEF vars, counters, ProjectionInv, TypeOK
    <2>2. QED BY <1>1, <2>1, StutterKeeps DEF vars, counters, files
  <1>2. CASE Replan
    <2>1. plan' \in Plans /\ replans' \in 0..MaxPlans
      BY <1>2, ItemsAre DEF Replan, ProjectionInv, TypeOK
    <2>2. QED BY <1>2, <2>1, StutterKeeps DEF Replan, files
  <1>3. ASSUME NEW w \in Write, WriteStep(w) PROVE ProjectionInv'
    BY <1>3, BeginKeeps, VerifyKeeps, EndsKeep, PassKeeps, DisplaceKeeps, PlaceKeeps, DiffKeeps,
         CleanUpKeeps,
       SaveKeeps, RenameKeeps DEF WriteStep
  <1>4. ASSUME NEW i \in Item, Edit(i) \/ Delete(i) \/ Supplant(i) PROVE ProjectionInv'
    BY <1>4, UserKeeps
  <1>5. QED BY <1>1, <1>2, <1>3, <1>4 DEF Next

LEMMA ToucherOf ==
  ASSUME ProjectionAssumption, ProjectionInv, NEW w \in Write, Touches(w)
  PROVE  /\ call[w] \in Call /\ Knows(w) /\ Checked(w) /\ Ruled(call[w])
            /\ disk \in [Item -> Content]
         /\ Here(w) \in call[w].left /\ Here(w) \in Item /\ Selected(Here(w), call[w].only)
         /\ \A i \in Item \ {Here(w)} : disk'[i] = disk[i]
  <1>1. /\ TypeOK /\ call[w] \in Call /\ Knows(w) /\ call[w].left # {} /\ Checked(w)
        /\ Here(w) \in call[w].left /\ Here(w) \in Item
    BY WorkOf DEF Touches, Displace, Place, CleanUp, At, Checked, Writing, Closing
  <1>2. disk \in [Item -> Content]
    BY <1>1 DEF TypeOK
  <1>3. \A i \in Item \ {Here(w)} : disk'[i] = disk[i]
    BY <1>1, <1>2 DEF Touches, Displace, Place, CleanUp
  <1>4. Selected(Here(w), call[w].only)
    BY <1>1 DEF Knows, Duty, Checked, Writing, Closing
  <1>5. QED BY <1>1, <1>2, <1>3, <1>4 DEF Knows

(* What is written was wanted or had been recorded. *)
LEMMA TouchedIs ==
  ASSUME ProjectionAssumption, ProjectionInv, NEW w \in Write, Touches(w)
  PROVE  Wanted(call[w], Here(w)) \/ Owned(call[w], Here(w))
  BY ToucherOf DEF Touches, Displace, Place, CleanUp, At, Rewrites, Throws, Knows, Duty

LEMMA ForeignStep == ASSUME ProjectionAssumption, ProjectionInv, NEW w \in Write, NEW i \in Item,
         scope = "machine", Touches(w), disk'[i] # disk[i], ~ Owned(call[w], i)
  PROVE  call[w].seen[i] = Absent
  <1>1. i = Here(w) /\ Ruled(call[w])
    BY ToucherOf
  <1>2. QED BY <1>1, TouchedIs DEF Ruled

LEMMA ContentStep == ASSUME ProjectionAssumption, ProjectionInv, NEW w \in Write, NEW i \in Item,
         Touches(w), disk[i] \in Mine, disk'[i] # disk[i], ~ call[w].force,
              call[w].seen[i] = disk[i]
  PROVE  \/ /\ scope = "project" /\ ~ Owned(call[w], i)
            /\ Kind[i] = "directory" \/ <<i, disk[i]>> \in backups'
         \/ scope = "project" /\ disk[i] = Alien
  <1>1. /\ i = Here(w) /\ Ruled(call[w]) /\ Knows(w) /\ call[w] \in Call /\ call[w].prev \in Record
        /\ (scope = "machine" \/ scope = "project")
    BY ToucherOf, FieldsOf, ItemsAre DEF ProjectionInv, TypeOK
  <1>2. call[w].prev[i] \notin Mine /\ disk[i] # Absent /\ disk[i] # call[w].prev[i]
    BY <1>1, ItemsAre DEF Record
  <1>3. CASE Place(w)
    <2>1. disk[i] \notin 1..MaxMishaps /\ disk[i] \in 1..MaxMishaps \cup {Alien}
      BY <1>1, <1>3 DEF Place, At, Knows, NumbersAreNew, Mine
    <2>2. disk[i] = Alien /\ Kind[i] = "directory"
      BY <2>1 DEF ProjectionInv, UsersMarks
    <2>3. QED BY <1>1, <1>2, <1>3, <2>2 DEF Place
  <1>4. CASE CleanUp(w)
    BY <1>1, <1>2, <1>4 DEF CleanUp
  <1>5. CASE Displace(w)
    <2>1. Rewrites(call[w], i)
            /\ backups' = IF Kind[i] = "directory" THEN backups ELSE backups \cup {<<i, disk[i]>>}
      BY <1>1, <1>2, <1>5 DEF Displace
    <2>2. CASE ~ Owned(call[w], i)
      <3>1. scope = "project"
        BY <1>1, <1>2, <2>2, TouchedIs DEF Ruled
      <3>2. QED BY <2>1, <2>2, <3>1
    <2>3. CASE Owned(call[w], i)
      <3>1. Drifted(call[w], i)
        BY <1>2, <2>3 DEF Drifted
      <3>2. Kind[i] # "block" /\ (Kind[i] = "server" => FALSE)
        BY <2>1, <3>1 DEF Rewrites, Throws
      <3>3. QED BY <1>1, <1>2, <2>3, <3>2 DEF Ruled
    <2>4. QED BY <2>2, <2>3
  <1>6. QED BY <1>3, <1>4, <1>5 DEF Touches

LEMMA PartialStep ==
  ASSUME ProjectionAssumption, ProjectionInv, NEW w \in Write, NEW i \in Item, ~ Selected(i,
         call[w].only)
  PROVE  /\ Touches(w) => disk'[i] = disk[i]
         /\ Rename(w) /\ ~ call[w].mixed => record'[i] = record[i]
  <1>1. Touches(w) => disk'[i] = disk[i]
    BY ToucherOf
  <1>2. ASSUME Rename(w), ~ call[w].mixed PROVE record'[i] = record[i]
    <2>1. pc[w] = "rename" /\ record' = temp /\ Knows(w)
      BY <1>2 DEF Rename, ProjectionInv
    <2>2. temp = NewRecord(call[w]) /\ call[w].prev = record
      BY <1>2, <2>1 DEF ProjectionInv, TempIsItsOwn, Knows, Checked, Closing
    <2>3. QED BY <2>1, <2>2 DEF NewRecord
  <1>3. QED BY <1>1, <1>2

LEMMA ExactStep == ASSUME ProjectionAssumption, ProjectionInv, NEW w \in Write, NEW i \in Item,
         Rename(w), ~ call[w].mixed, Selected(i, call[w].only)
  PROVE  Finished(call[w], i) /\ record'[i] = call[w].out[i]
  <1>1. pc[w] = "rename" /\ record' = temp /\ Knows(w)
    BY DEF Rename, ProjectionInv
  <1>2. temp = NewRecord(call[w]) /\ call[w].left = {} /\ ExactAt(w, i)
    BY <1>1 DEF ProjectionInv, TempIsItsOwn, Knows, Checked, Closing, Duty
  <1>3. QED BY <1>1, <1>2 DEF NewRecord, ExactAt, Closing

LEMMA RefusalStep ==
  ASSUME ProjectionAssumption, ProjectionInv, NEW w \in Write, Refuse(w) \/ Fail(w)
  PROVE  touched # {} \/ torn
  <1> SUFFICES ASSUME touched = {}, ~ torn PROVE FALSE
    OBVIOUS
  <1>1. CASE Refuse(w)
    <2> PICK e : e = Reading(w)
      OBVIOUS
    <2>1. /\ pc[w] = "verify" /\ Active(w)
          /\ IF scope = "machine" THEN MachineConflict(e) ELSE \E i \in Item : ProjectDrift(e, i)
             \/ MayMissDrift(e, i)
      BY <1>1 DEF Refuse, Active
    <2>2. \A i \in Item : disk[i] = record[i]
      BY <2>1, NobodyChecked
    <2>3. e.prev = record
      BY ReadingIs DEF ProjectionInv, TypeOK
    <2>4. QED BY <2>1, <2>2, <2>3 DEF MachineConflict, ProjectDrift, MayMissDrift, Drifted, Owned
  <1>2. CASE Fail(w)
    <2>1. /\ pc[w] \in Writing /\ Here(w) \in call[w].left /\ Here(w) \in Item /\ Knows(w)
             /\ Checked(w)
          /\ \/ pc[w] = "write" /\ Throws(call[w], Here(w))
             \/ pc[w] = "place" /\ disk[Here(w)] # Absent
      <3>1. /\ pc[w] \in Writing /\ call[w].left # {}
            /\ \/ pc[w] = "write" /\ Throws(call[w], Here(w))
               \/ pc[w] = "place" /\ disk[Here(w)] # Absent
        BY <1>2 DEF Fail, At, Writing
      <3>2. QED BY <3>1, WorkOf DEF Checked
    <2>2. Selected(Here(w), call[w].only) /\ TrackedAt(w, Here(w))
      BY <2>1 DEF Knows, Duty
    <2>3. Now(w, Here(w), call[w].prev[Here(w)])
      BY <2>1, <2>2 DEF TrackedAt
    <2>4. QED BY <2>1, <2>3 DEF Now, Throws, Drifted, Owned
  <1>3. QED BY <1>1, <1>2

-----------------------------------------------------------------------------
(* The invariant that the properties rest on. *)
LEMMA ProjectionInvariant == Spec => []ProjectionInv
  <1>1. Init => ProjectionInv
    BY ProjectionAssumption, ProjectionStarts
  <1>2. ProjectionInv /\ [Next]_vars => ProjectionInv'
    BY ProjectionAssumption, ProjectionKeeps
  <1>3. QED BY <1>1, <1>2, PTL DEF Spec

(* sync.ts, write-record.ts: between writes, unless one died, failed or      *)
(* overlapped another, the record says exactly what is on disk of all that   *)
(* the user left alone.                                                      *)
THEOREM RecordIsRight == Spec => []RecordMatchesDisk
  <1>1. ProjectionInv => RecordMatchesDisk
    BY DEF ProjectionInv, Rest, Active, Checked, Writing, Closing, RecordMatchesDisk
  <1>2. QED BY <1>1, ProjectionInvariant, PTL

(* machine-preflight, verifyManagedPaths, cleanupRemovedManagedPaths: a       *)
(* write changes only what it was asked for and may own: nothing foreign on  *)
(* a machine, nothing of the user's but what the README names, and nothing   *)
(* that a partial write was not asked for.                                   *)
THEOREM OthersAreSpared == Spec => WritesSpareTheRest
  <1> DEFINE Kept(w, i) ==
               scope = "machine" /\ disk'[i] # disk[i] /\ Touches(w) /\ ~Owned(call[w], i)
               => call[w].seen[i] = Absent
             Survives(w, i) ==
               disk'[i] # disk[i] /\ disk[i] \in Mine /\ Touches(w) /\ ~call[w].force =>
                 \/ call[w].seen[i] # disk[i]
                 \/ /\ scope = "project" /\ ~Owned(call[w], i)
                    /\ Kind[i] = "directory" \/ <<i, disk[i]>> \in backups'
                 \/ scope = "project" /\ disk[i] = Alien
             Unasked(w, i) ==
               ~Selected(i, call[w].only) =>
                 /\ disk'[i] # disk[i] => ~Touches(w)
                 /\ Rename(w) /\ ~call[w].mixed => record'[i] = record[i]
  <1>1. ProjectionInv => \A w \in Write, i \in Item : Kept(w, i) /\ Survives(w, i) /\ Unasked(w, i)
    BY ProjectionAssumption, ForeignStep, ContentStep, PartialStep
  <1>2. ProjectionInv => [\A w \in Write, i \in Item : Kept(w, i)]_vars
    BY <1>1
  <1>3. ProjectionInv => [\A w \in Write, i \in Item : Survives(w, i)]_vars
    BY <1>1
  <1>4. ProjectionInv => [\A w \in Write, i \in Item : Unasked(w, i)]_vars
    BY <1>1
  <1>5. Spec => ForeignIsKept
    BY <1>2, ProjectionInvariant, PTL DEF ForeignIsKept
  <1>6. Spec => UserContentSurvives
    BY <1>3, ProjectionInvariant, PTL DEF UserContentSurvives
  <1>7. Spec => PartialKeepsTheRest
    BY <1>4, ProjectionInvariant, PTL DEF PartialKeepsTheRest
  <1>8. QED BY <1>5, <1>6, <1>7 DEF WritesSpareTheRest

(* syncRepository: a write that completes with nothing mixed in leaves each  *)
(* selected item as planned and recorded, or says why not.                   *)
THEOREM CompletionIsExact == Spec => CompletedWriteIsExact
  <1> DEFINE Exact(w, i) ==
        LET c == call[w] IN
        Rename(w) /\ ~c.mixed /\ Selected(i, c.only) =>
          IF c.goal[i] # Absent
          THEN \/ disk[i] = c.goal[i] /\ record'[i] = c.goal[i]
               \/ Skips(c, i) /\ disk[i] = c.seen[i] /\ record'[i] = Absent
          ELSE \/ disk[i] = Absent /\ record'[i] = Absent
               \/ Drifted(c, i) /\ ~c.force /\ record'[i] = c.prev[i]
               \/ ~Owned(c, i) /\ disk[i] = c.seen[i] /\ record'[i] = Absent
  <1>1. ProjectionInv => \A w \in Write, i \in Item : Exact(w, i)
    BY ProjectionAssumption, ExactStep DEF Finished, Emitted
  <1>2. ProjectionInv => [\A w \in Write, i \in Item : Exact(w, i)]_vars
    BY <1>1
  <1>3. QED BY <1>2, ProjectionInvariant, PTL DEF CompletedWriteIsExact

(* assertMachineProjectionPreflight, verifyManagedPaths: a write is refused  *)
(* or fails half way only if the user changed something or an earlier write  *)
(* was torn; drwn does not trip over its own output.                         *)
THEOREM RefusalsAreExplained == Spec => RefusalIsExplained
  <1>1. ProjectionInv => \A w \in Write : Refuse(w) \/ Fail(w) => touched # {} \/ torn
    BY ProjectionAssumption, RefusalStep
  <1>2. ProjectionInv => [\A w \in Write : Refuse(w) \/ Fail(w) => touched # {} \/ torn]_vars
    BY <1>1
  <1>3. QED BY <1>2, ProjectionInvariant, PTL DEF RefusalIsExplained

(* In the composition with the settings of the machine, the projection is a *)
(* part that the other leaves alone, so that all of this holds of it.       *)
LEMMA ProjectionIsAPart == MachineSpec => Spec
  <1>1. MachineInit => Init
    BY DEF MachineInit
  <1>2. [MachineNext]_all => [Next]_vars
    BY DEF MachineNext, all, settings
  <1>3. QED BY <1>1, <1>2, PTL DEF MachineSpec, Spec

-----------------------------------------------------------------------------
(* MachineSettings.  Where a command is.                                    *)
Holding == {"read", "verify", "commit"}
Preparing == {"check", "look", "ask", "decline", "scaffold", "open", "fill", "register"}
Recording == {"load", "save", "saved"}
Telling == {"notice"} \cup Recording
Stages == {"idle", "enter", "preflight", "project"} \cup Holding \cup Preparing \cup Telling

(* A machine.json as the commands write it.                                 *)
Proper(m) ==
  /\ m = [active |-> m.active, roots |-> m.roots, cards |-> m.cards, policy |-> m.policy]
  /\ m.roots \subseteq Settings!Root /\ m.policy \in {0, 1}
  /\ m.active \in m.roots \cup {Settings!NoWorker}
  /\ m.cards \in [Settings!Closure(m.roots) -> Settings!Entry]
  /\ \A c \in Settings!Closure(m.roots), sf \in Settings!Surfaces :
       m.cards[c].consent[sf] = {} \/ m.cards[c].version \in m.cards[c].consent[sf]
Present == Settings!Seen(machine)

Trusting == [op : {"trust"}, card : Settings!Cards, surface : Settings!Surfaces,
             range : Settings!Ranges \cup {{}}, store : SUBSET shown]
Applying == [op : {"write"}, store : SUBSET shown]

(* Which command is where, and what it carries whoever else is at work.     *)
Ordered(t) == LET c == asked[t]  p == at[t] IN
  /\ p # "idle" =>
       /\ c.op \in {"init", "apply", "use", "trust", "untrust", "write", "set"}
       /\ c.op = "trust" => c \in Trusting
       /\ c.op = "untrust" => c.surface \in Settings!Surfaces
       /\ c.op = "write" => c \in Applying
  /\ p \in {"enter", "read", "commit"} => c.op # "write"
  /\ p = "verify" => c.op \in {"trust", "untrust"}
  /\ p \in Preparing => c.op = "init"
  /\ p \in Telling => c.op \in {"trust", "write"}
  /\ p \in {"preflight", "project"} => c.op = "write"
Unaltered(m) ==
  \/ "edited" \in causes \/ Present = m
  \/ "declined" \in causes /\ Present = Settings!EmptyMachine
Granted(m) == "edited" \in causes \/ Settings!Consents(m) \subseteq granted
Sound(e) ==
  /\ e \in Settings!Entry
  /\ \A sf \in Settings!Surfaces : e.consent[sf] = {} \/ e.version \in e.consent[sf]
(* The entry to be placed was made of the one in the machine.json read.     *)
Aimed(c, m, e) ==
  \/ "edited" \in causes
  \/ Settings!Targets(c, m) /\ e = Settings!Consented(c, m.cards[c.card])
Informed(m) == causes \cap {"edited", "spoilt"} # {} \/ spoilt \cap Settings!Active(m) = {}
Carries(t) == LET c == asked[t]  p == at[t]  m == kept[t] IN
  /\ p \in {"verify", "commit"} /\ c.op # "set" =>
       Proper(m.machine) /\ Unaltered(m.machine) /\ Granted(m.machine)
  /\ p = "commit" /\ c.op = "trust" => Informed(m.machine)
  /\ p = "commit" /\ c.op \in {"trust", "untrust"} =>
       Sound(m.target) /\ Aimed(c, m.machine, m.target)
  /\ p = "commit" /\ c.op = "set" => m.prefs = prefs
  /\ p \in Telling => m.keys # {} /\ \A k \in m.keys : k.surface \in Settings!Surfaces
  /\ p \in Recording => Settings!Current(t) \in shown
Locked(t) == holder = t <=> at[t] \in Holding

(* What it may count on unless another one is at work beside it.            *)
MayAct(t) == \A u \in Task : at[u] # "idle" => u = t
Told(t) == Settings!Current(t).surface
Undisturbed(t) == LET c == asked[t]  p == at[t]  m == kept[t] IN
  /\ p = "open" => project.config = Settings!NoConfig
  /\ p = "fill" => project.config = Settings!Torn
  /\ p \in {"save", "saved"} => c.store = acks[Told(t)].keys
  /\ "edited" \notin causes =>
       /\ p \in Telling /\ c.op = "write" => Settings!Valid(Present) \subseteq shown \cup m.keys
       /\ p = "project" => Settings!Valid(Present) \subseteq shown
Recorded(t) == "kill" \notin causes =>
  /\ \A sf \in Settings!Surfaces : acks[sf].torn => at[t] = "saved" /\ sf = Told(t)
  /\ \A k \in shown : k \in acks[k.surface].keys \/ (at[t] \in Recording /\ k = Settings!Current(t))
Single(t) == MayAct(t) => Undisturbed(t) /\ Recorded(t)

SettingsTyped ==
  /\ Proper(Present) /\ latest \in [Settings!Cards -> Settings!Version] /\ acts \in Nat
  /\ holder \in Task \cup {Settings!Nobody} /\ at \in [Task -> Stages]
  /\ DOMAIN asked = Task /\ DOMAIN kept = Task
  /\ acks \in [Settings!Surfaces -> [keys : SUBSET shown, torn : BOOLEAN]]
  /\ project = [config |-> project.config, lock |-> project.lock, registered |-> project.registered]
  /\ \A k \in shown : k.surface \in Settings!Surfaces
SettingsInv ==
  /\ SettingsTyped /\ Granted(machine) /\ Settings!NoticesAreGiven
  /\ \A t \in Task : Ordered(t) /\ Carries(t) /\ Locked(t)
  /\ "overlap" \notin causes =>
       /\ \A t, u \in Task : at[t] # "idle" /\ at[u] # "idle" => t = u
       /\ \A t \in Task : Single(t)

LEMMA ThereIsAMachine == ASSUME NEW m, Proper(m) PROVE Settings!Seen(m) = m
  <1>1. "active" \in DOMAIN m
    BY DEF Proper
  <1>2. DOMAIN Settings!NoMachine = 1..0
    BY DEF Settings!NoMachine
  <1>3. m # Settings!NoMachine
    BY <1>1, <1>2, "active" \notin 1..0
  <1>4. QED BY <1>3 DEF Settings!Seen

LEMMA EmptyIsProper ==
  /\ Proper(Settings!EmptyMachine) /\ Settings!Seen(Settings!NoMachine) = Settings!EmptyMachine
  /\ Settings!EmptyMachine.roots = {} /\ Settings!EmptyMachine.policy = 0
  <1> DEFINE m == Settings!EmptyMachine
  <1>1. m.roots = {} /\ m.policy = 0 /\ m.active = Settings!NoWorker /\ m.cards = <<>>
    BY DEF Settings!EmptyMachine
  <1>2. Settings!Closure(m.roots) = {}
    BY <1>1 DEF Settings!Closure
  <1>3. <<>> \in [{} -> Settings!Entry]
    OBVIOUS
  <1>4. m = [active |-> m.active, roots |-> m.roots, cards |-> m.cards, policy |-> m.policy]
    BY DEF Settings!EmptyMachine
  <1> HIDE DEF m
  <1>5. Proper(m)
    BY <1>1, <1>2, <1>3, <1>4 DEF Proper
  <1>6. QED BY <1>1, <1>5 DEF m, Settings!Seen

LEMMA ElsewhereIsProper == \A m \in Settings!Elsewhere : Proper(m)
  <1> SUFFICES ASSUME NEW m \in Settings!Elsewhere PROVE Proper(m)
    OBVIOUS
  <1> DEFINE consent(c) == [sf \in Settings!Surfaces |->
               IF sf \notin Settings!Declares(c) THEN {} ELSE IF sf = "hooks" THEN {1} ELSE {1, 2}]
             entry(c) == [version |-> 1, consent |-> consent(c)]
  <1>1. PICK w \in Settings!Root :
          m = [active |-> w, roots |-> Settings!Root, policy |-> 0,
               cards |-> [c \in Settings!Cards |-> entry(c)]]
    BY DEF Settings!Elsewhere
  <1>2. Settings!Closure(Settings!Root) = Settings!Cards
    BY DEF Settings!Closure, Settings!Cards, Settings!Root
  <1>3. \A c \in Settings!Cards :
          /\ entry(c) \in Settings!Entry /\ entry(c).version = 1 /\ entry(c).consent = consent(c)
          /\ \A sf \in Settings!Surfaces : consent(c)[sf] = {} \/ 1 \in consent(c)[sf]
    BY DEF Settings!Entry, Settings!Version, Settings!Ranges
  <1> HIDE DEF entry, consent
  <1>4. /\ m = [active |-> m.active, roots |-> m.roots, cards |-> m.cards, policy |-> m.policy]
        /\ m.active = w /\ m.roots = Settings!Root /\ m.policy = 0
        /\ m.cards = [c \in Settings!Cards |-> entry(c)]
    BY <1>1
  <1>5. QED BY <1>2, <1>3, <1>4 DEF Proper

(* A consent is in machine.json.                                            *)
LEMMA ConsentsOf ==
  ASSUME NEW m, Proper(m)
  PROVE  Settings!Consents(m) =
           {k \in [card : Settings!Closure(m.roots), surface : Settings!Surfaces, range : Settings!Ranges] :
              m.cards[k.card].consent[k.surface] = k.range}
  <1>1. DOMAIN m.cards = Settings!Closure(m.roots)
    BY DEF Proper
  <1>2. QED BY <1>1, ThereIsAMachine DEF Settings!Consents

(* What a command makes of the machine.json that it has read.               *)
LEMMA RootsMade ==
  ASSUME latest \in [Settings!Cards -> Settings!Version], NEW m, Proper(m),
         NEW roots \in SUBSET Settings!Root, NEW active \in roots \cup {Settings!NoWorker}
  PROVE  LET n == Settings!WithRoots(m, roots, active) IN
         /\ Proper(n) /\ n.roots = roots /\ n.policy = m.policy
         /\ Settings!Consents(n) \subseteq Settings!Consents(m)
  <1> DEFINE n == Settings!WithRoots(m, roots, active)
             picked(c) == Settings!Resolved(roots, c)
             entry(c) == Settings!Carried(m.cards, c, picked(c))
             all_ == Settings!Closure(roots)
  <1>1. /\ m = [active |-> m.active, roots |-> m.roots, cards |-> m.cards, policy |-> m.policy]
        /\ m.cards \in [Settings!Closure(m.roots) -> Settings!Entry] /\ m.policy \in {0, 1}
    BY DEF Proper
  <1>2. \A c \in all_ : picked(c) \in Settings!Version
    <2> SUFFICES ASSUME NEW c \in all_ PROVE picked(c) \in Settings!Version
      OBVIOUS
    <2>1. roots # {} /\ c \in Settings!Cards
      BY DEF Settings!Closure, Settings!Cards
    <2>2. \A r : Settings!Picks(r, c) \in Settings!Version
      BY <2>1 DEF Settings!Picks, Settings!Version
    <2>3. QED BY <2>2 DEF Settings!Resolved
  <1> HIDE DEF picked
  <1>3. ASSUME NEW c \in all_
        PROVE  /\ entry(c) \in Settings!Entry /\ entry(c).version = picked(c)
               /\ \A sf \in Settings!Surfaces :
                    \/ entry(c).consent[sf] = {}
                    \/ /\ c \in Settings!Closure(m.roots) /\ entry(c).version \in entry(c).consent[sf]
                       /\ entry(c).consent[sf] = m.cards[c].consent[sf]
    <2> DEFINE kept_(sf) == IF c \in DOMAIN m.cards /\ picked(c) \in m.cards[c].consent[sf]
                            THEN m.cards[c].consent[sf] ELSE {}
    <2>1. \A sf \in Settings!Surfaces : kept_(sf) \in Settings!Ranges \cup {{}}
      BY <1>1 DEF Settings!Entry
    <2>2. entry(c) = [version |-> picked(c), consent |-> [sf \in Settings!Surfaces |-> kept_(sf)]]
      BY DEF Settings!Carried
    <2>3. \A sf \in Settings!Surfaces :
            kept_(sf) = {} \/ (c \in Settings!Closure(m.roots) /\ picked(c) \in kept_(sf)
                               /\ kept_(sf) = m.cards[c].consent[sf])
      BY <1>1
    <2> HIDE DEF kept_, entry
    <2>4. QED BY <1>2, <2>1, <2>2, <2>3 DEF Settings!Entry
  <1>4. n = [active |-> active, roots |-> roots, cards |-> [c \in all_ |-> entry(c)], policy |-> m.policy]
    <2> DEFINE made == [c \in all_ |-> entry(c)]
    <2>1. n = [m EXCEPT !.active = active, !.roots = roots, !.cards = made]
      BY DEF Settings!WithRoots, picked
    <2> HIDE DEF n, made, entry
    <2>2. n = [active |-> active, roots |-> roots, cards |-> made, policy |-> m.policy]
      BY <1>1, <2>1
    <2>3. QED BY <2>2 DEF made
  <1> HIDE DEF entry, n
  <1>5. /\ n = [active |-> n.active, roots |-> n.roots, cards |-> n.cards, policy |-> n.policy]
        /\ n.active = active /\ n.roots = roots /\ n.policy = m.policy /\ n.cards = [c \in all_ |-> entry(c)]
    BY <1>4
  <1>6. Proper(n)
    BY <1>1, <1>3, <1>5 DEF Proper
  <1>7. ASSUME NEW k \in Settings!Consents(n) PROVE k \in Settings!Consents(m)
    <2>1. /\ k \in [card : all_, surface : Settings!Surfaces, range : Settings!Ranges]
          /\ entry(k.card).consent[k.surface] = k.range
      BY <1>5, <1>6, <1>7, ConsentsOf
    <2>2. k.range # {}
      BY <2>1 DEF Settings!Ranges
    <2>3. k.card \in Settings!Closure(m.roots) /\ m.cards[k.card].consent[k.surface] = k.range
      BY <1>3, <2>1, <2>2
    <2>4. k \in [card : Settings!Closure(m.roots), surface : Settings!Surfaces, range : Settings!Ranges]
      BY <2>1, <2>3
    <2>5. QED BY <2>3, <2>4, ConsentsOf
  <1>8. QED BY <1>5, <1>6, <1>7 DEF n

LEMMA TargetsAreLocked ==
  ASSUME NEW m, Proper(m), NEW c, Settings!Targets(c, m)
  PROVE  c.card \in Settings!Active(m) /\ c.card \in Settings!Closure(m.roots)
  <1>1. m.active \in m.roots /\ c.card \in Settings!Active(m)
    BY DEF Proper, Settings!Targets
  <1>2. c.card \in Settings!Closure({m.active})
    BY <1>1, ThereIsAMachine DEF Settings!Active
  <1>3. QED BY <1>1, <1>2 DEF Settings!Closure

LEMMA GivenRange ==
  ASSUME NEW e \in Settings!Entry, NEW c, c.range \in Settings!Ranges \cup {{}}
  PROVE  Settings!Range(c, e) \in Settings!Ranges
  <1>1. e.version \in {1, 2}
    BY DEF Settings!Entry, Settings!Version
  <1>2. CASE e.version = 1
    <2>1. {v \in Settings!Version : v >= 1} = {1, 2}
      BY DEF Settings!Version
    <2>2. QED BY <1>2, <2>1 DEF Settings!Range, Settings!Ranges
  <1>3. CASE e.version = 2
    <2>1. {v \in Settings!Version : v >= 2} = {2}
      BY DEF Settings!Version
    <2>2. QED BY <1>3, <2>1 DEF Settings!Range, Settings!Ranges
  <1>4. QED BY <1>1, <1>2, <1>3

Newly(c, e) == IF c.op = "trust" THEN Settings!Range(c, e) ELSE {}

(* An entry with one consent changed keeps its version and the other one.   *)
LEMMA ConsentedIs ==
  ASSUME NEW c, NEW e \in Settings!Entry, c.surface \in Settings!Surfaces,
         c.op = "trust" => c.range \in Settings!Ranges \cup {{}}
  PROVE  LET made == Settings!Consented(c, e) IN
         /\ made \in Settings!Entry /\ made.version = e.version
         /\ made.consent[c.surface] = Newly(c, e)
         /\ \A sf \in Settings!Surfaces \ {c.surface} : made.consent[sf] = e.consent[sf]
  <1> DEFINE range == Newly(c, e)
             consent == [e.consent EXCEPT ![c.surface] = range]
             made == Settings!Consented(c, e)
  <1>1. range \in Settings!Ranges \cup {{}}
    BY GivenRange DEF Newly
  <1>2. made = [e EXCEPT !.consent = consent]
    BY DEF Settings!Consented, Newly
  <1>3. /\ e = [version |-> e.version, consent |-> e.consent] /\ e.version \in Settings!Version
        /\ e.consent \in [Settings!Surfaces -> Settings!Ranges \cup {{}}]
    BY DEF Settings!Entry
  <1> HIDE DEF range, made
  <1>4. /\ consent \in [Settings!Surfaces -> Settings!Ranges \cup {{}}]
        /\ consent[c.surface] = range
        /\ \A sf \in Settings!Surfaces \ {c.surface} : consent[sf] = e.consent[sf]
    BY <1>1, <1>3
  <1> HIDE DEF consent
  <1>5. made = [version |-> e.version, consent |-> consent]
    BY <1>2, <1>3
  <1>6. made.version = e.version /\ made.consent = consent /\ made \in Settings!Entry
    BY <1>3, <1>4, <1>5 DEF Settings!Entry
  <1>7. QED BY <1>4, <1>6 DEF range, made

(* mutateMachineCardConsent: what it makes of the entry it finds is sound.  *)
LEMMA ConsentIsSound ==
  ASSUME NEW m, Proper(m), NEW c, c.op \in {"trust", "untrust"}, Settings!Accepts(c, m),
         c.surface \in Settings!Surfaces, c.op = "trust" => c.range \in Settings!Ranges \cup {{}}
  PROVE  Settings!Targets(c, m) /\ Sound(Settings!Consented(c, m.cards[c.card]))
  <1> DEFINE e == m.cards[c.card]  made == Settings!Consented(c, e)
  <1>1. Settings!Targets(c, m) /\ (c.op = "trust" => e.version \in Settings!Range(c, e))
    BY DEF Settings!Accepts
  <1>2. c.card \in Settings!Closure(m.roots)
    BY <1>1, TargetsAreLocked
  <1>3. /\ e \in Settings!Entry
        /\ \A sf \in Settings!Surfaces : e.consent[sf] = {} \/ e.version \in e.consent[sf]
    BY <1>2 DEF Proper
  <1> HIDE DEF e
  <1>4. /\ made \in Settings!Entry /\ made.version = e.version
        /\ made.consent[c.surface] = Newly(c, e)
        /\ \A sf \in Settings!Surfaces \ {c.surface} : made.consent[sf] = e.consent[sf]
    BY <1>3, ConsentedIs
  <1> HIDE DEF made
  <1>5. Newly(c, e) = {} \/ e.version \in Newly(c, e)
    BY <1>1 DEF Newly
  <1>6. Sound(made)
    BY <1>3, <1>4, <1>5 DEF Sound
  <1>7. QED BY <1>1, <1>6 DEF e, made

(* A lock with a sound entry in the place of another one.                   *)
LEMMA PlacedIsProper ==
  ASSUME NEW m, Proper(m), NEW c, NEW e, Sound(e)
  PROVE  LET n == Settings!Placed(m, c, e) IN
         /\ Proper(n) /\ n.roots = m.roots /\ n.active = m.active /\ n.policy = m.policy
         /\ Settings!Active(n) = Settings!Active(m)
         /\ \A k \in Settings!Consents(n) :
              /\ k.card # c => k \in Settings!Consents(m)
              /\ k.card = c => e.consent[k.surface] = k.range
              /\ k = [card |-> k.card, surface |-> k.surface, range |-> k.range]
              /\ k.card \in Settings!Closure(m.roots) /\ k.surface \in Settings!Surfaces
              /\ k.range \in Settings!Ranges
  <1> DEFINE n == Settings!Placed(m, c, e)  all_ == Settings!Closure(m.roots)
             cards == [z \in all_ |-> IF z = c THEN e ELSE m.cards[z]]
  <1>1. /\ m = [active |-> m.active, roots |-> m.roots, cards |-> m.cards, policy |-> m.policy]
        /\ m.cards \in [all_ -> Settings!Entry] /\ DOMAIN m.cards = all_
        /\ \A z \in all_, sf \in Settings!Surfaces :
             m.cards[z].consent[sf] = {} \/ m.cards[z].version \in m.cards[z].consent[sf]
    BY DEF Proper
  <1>2. n = [m EXCEPT !.cards = cards]
    BY <1>1 DEF Settings!Placed
  <1>3. /\ cards \in [all_ -> Settings!Entry]
        /\ \A z \in all_ : cards[z] = IF z = c THEN e ELSE m.cards[z]
    BY <1>1 DEF Sound
  <1> HIDE DEF cards, n
  <1>4. /\ n.active = m.active /\ n.roots = m.roots /\ n.policy = m.policy /\ n.cards = cards
        /\ n = [active |-> n.active, roots |-> n.roots, cards |-> n.cards, policy |-> n.policy]
    BY <1>1, <1>2
  <1>5. \A z \in all_, sf \in Settings!Surfaces :
          cards[z].consent[sf] = {} \/ cards[z].version \in cards[z].consent[sf]
    BY <1>1, <1>3 DEF Sound
  <1>6. Proper(n)
    BY <1>3, <1>4, <1>5 DEF Proper
  <1>7. Settings!Active(n) = Settings!Active(m)
    BY <1>4, <1>6, ThereIsAMachine DEF Settings!Active
  <1>8. ASSUME NEW k \in Settings!Consents(n)
        PROVE  /\ k.card # c => k \in Settings!Consents(m)
               /\ k.card = c => e.consent[k.surface] = k.range
               /\ k = [card |-> k.card, surface |-> k.surface, range |-> k.range]
               /\ k.card \in all_ /\ k.surface \in Settings!Surfaces /\ k.range \in Settings!Ranges
    <2>1. /\ k \in [card : all_, surface : Settings!Surfaces, range : Settings!Ranges]
          /\ cards[k.card].consent[k.surface] = k.range
      BY <1>4, <1>6, <1>8, ConsentsOf
    <2>2. /\ k.card \in all_ /\ k.surface \in Settings!Surfaces /\ k.range \in Settings!Ranges
          /\ k = [card |-> k.card, surface |-> k.surface, range |-> k.range]
      BY <2>1
    <2>3. CASE k.card = c
      BY <1>3, <2>1, <2>2, <2>3
    <2>4. CASE k.card # c
      <3>1. m.cards[k.card].consent[k.surface] = k.range
        BY <1>3, <2>1, <2>2, <2>4
      <3>2. k \in Settings!Consents(m)
        BY <2>1, <3>1, ConsentsOf
      <3>3. QED BY <2>2, <2>4, <3>2
    <2>5. QED BY <2>3, <2>4
  <1>9. QED BY <1>4, <1>6, <1>7, <1>8 DEF n

(* If the entry was made of the one it replaces, one consent is new at most. *)
LEMMA ConsentMade ==
  ASSUME NEW m, Proper(m), NEW c, c.op \in {"trust", "untrust"}, Settings!Targets(c, m),
         c.surface \in Settings!Surfaces, c.op = "trust" => c.range \in Settings!Ranges \cup {{}},
         NEW e, Sound(e), e = Settings!Consented(c, m.cards[c.card]),
         NEW k \in Settings!Consents(Settings!Placed(m, c.card, e))
  PROVE  /\ k \in Settings!Consents(m) \/ k \in Settings!Given(c, e)
         /\ c.op = "untrust" => ~ (k.card = c.card /\ k.surface = c.surface)
  <1> DEFINE old == m.cards[c.card]
  <1>1. c.card \in Settings!Closure(m.roots)
    BY TargetsAreLocked
  <1>2. old \in Settings!Entry
    BY <1>1 DEF Proper
  <1> HIDE DEF old
  <1>3. /\ e.consent[c.surface] = Newly(c, old)
        /\ \A sf \in Settings!Surfaces \ {c.surface} : e.consent[sf] = old.consent[sf]
    BY <1>2, ConsentedIs DEF old
  <1>4. /\ k.card # c.card => k \in Settings!Consents(m)
        /\ k.card = c.card => e.consent[k.surface] = k.range
        /\ k = [card |-> k.card, surface |-> k.surface, range |-> k.range]
        /\ k.card \in Settings!Closure(m.roots) /\ k.surface \in Settings!Surfaces
        /\ k.range \in Settings!Ranges
    BY PlacedIsProper
  <1>5. CASE k.card # c.card
    BY <1>4, <1>5
  <1>6. CASE k.card = c.card /\ k.surface # c.surface
    <2>1. m.cards[k.card].consent[k.surface] = k.range
      BY <1>3, <1>4, <1>6 DEF old
    <2>2. k \in [card : Settings!Closure(m.roots), surface : Settings!Surfaces, range : Settings!Ranges]
      BY <1>4
    <2>3. k \in Settings!Consents(m)
      BY <2>1, <2>2, ConsentsOf
    <2>4. QED BY <1>6, <2>3
  <1>7. CASE k.card = c.card /\ k.surface = c.surface
    <2>1. k.range # {}
      BY <1>4 DEF Settings!Ranges
    <2>2. k.range = e.consent[c.surface] /\ c.op # "untrust"
      BY <1>3, <1>4, <1>7, <2>1 DEF Newly
    <2>3. k = [card |-> c.card, surface |-> c.surface, range |-> e.consent[c.surface]]
      BY <1>4, <1>7, <2>2
    <2>4. QED BY <2>2, <2>3 DEF Settings!Given
  <1>8. QED BY <1>5, <1>6, <1>7

LEMMA MachineMade ==
  ASSUME latest \in [Settings!Cards -> Settings!Version], NEW m, Proper(m), NEW c,
         c.op \in {"init", "apply", "use"}, Settings!Accepts(c, m)
  PROVE  LET n == Settings!Changed(c, m) IN
         /\ Proper(n) /\ n.policy = m.policy
         /\ c.op \notin {"apply", "init"} => m.roots \subseteq n.roots
         /\ Settings!Consents(n) \subseteq Settings!Consents(m)
  <1> DEFINE n == Settings!Changed(c, m)
  <1>1. CASE c.op = "apply"
    <2>1. c.roots \in SUBSET Settings!Root /\ c.active \in c.roots \cup {Settings!NoWorker}
      BY <1>1 DEF Settings!Accepts, Settings!Locks
    <2>2. n = Settings!WithRoots(m, c.roots, c.active)
      BY <1>1 DEF Settings!Changed
    <2>3. QED BY <1>1, <2>1, <2>2, RootsMade
  <1>2. CASE c.op = "init"
    <2> DEFINE roots == {"rec"}  w == "rec"
    <2>1. roots \in SUBSET Settings!Root /\ w \in roots \cup {Settings!NoWorker}
      BY DEF Settings!Root
    <2>2. n = Settings!WithRoots(m, roots, w)
      BY <1>2 DEF Settings!Changed
    <2> HIDE DEF roots, w, n
    <2>3. Proper(n) /\ n.policy = m.policy /\ Settings!Consents(n) \subseteq Settings!Consents(m)
      BY <2>1, <2>2, RootsMade
    <2>4. QED BY <1>2, <2>3 DEF n
  <1>3. CASE c.op = "use"
    <2>1. CASE c.root = Settings!NoWorker \/ Settings!Selects(c, m)
      <3>1. c.root \in m.roots \cup {Settings!NoWorker} /\ n = [m EXCEPT !.active = c.root]
        BY <1>3, <2>1 DEF Settings!Changed, Settings!Selects
      <3>2. m = [active |-> m.active, roots |-> m.roots, cards |-> m.cards, policy |-> m.policy]
        BY DEF Proper
      <3> HIDE DEF n
      <3>3. /\ n = [active |-> n.active, roots |-> n.roots, cards |-> n.cards, policy |-> n.policy]
            /\ n.active = c.root /\ n.roots = m.roots /\ n.cards = m.cards /\ n.policy = m.policy
        BY <3>1, <3>2
      <3>4. Proper(n)
        BY <3>1, <3>3 DEF Proper
      <3>5. Settings!Consents(n) = Settings!Consents(m)
        BY <3>3, <3>4, ConsentsOf
      <3>6. QED BY <1>3, <3>3, <3>4, <3>5 DEF n
    <2>2. CASE ~ (c.root = Settings!NoWorker \/ Settings!Selects(c, m))
      <3> DEFINE roots == m.roots \cup {c.root}  w == c.root
      <3>1. /\ roots \in SUBSET Settings!Root /\ w \in roots \cup {Settings!NoWorker}
            /\ m.roots \subseteq roots
        BY <1>3, <2>2 DEF Settings!Accepts, Settings!Locks
      <3>2. n = Settings!WithRoots(m, roots, w)
        BY <1>3, <2>2 DEF Settings!Changed
      <3> HIDE DEF roots, w, n
      <3>3. /\ Proper(n) /\ n.roots = roots /\ n.policy = m.policy
            /\ Settings!Consents(n) \subseteq Settings!Consents(m)
        BY <3>1, <3>2, RootsMade
      <3>4. QED BY <1>3, <3>1, <3>3 DEF n
    <2>3. QED BY <2>1, <2>2
  <1>4. QED BY <1>1, <1>2, <1>3

-----------------------------------------------------------------------------
LEMMA SettingsConstants ==
  /\ Asked \subseteq Settings!Command /\ Settings!Nobody \notin Task
  /\ Settings!NoConfig # Settings!Torn
  BY SettingsAssumptionHolds DEF Settings!SettingsAssumption, Settings!NoConfig, Settings!Torn

LEMMA SettingsStart == Settings!Init => SettingsInv
  <1> SUFFICES ASSUME Settings!Init PROVE SettingsInv
    OBVIOUS
  <1>1. /\ machine \in {Settings!NoMachine} \cup Settings!Elsewhere
        /\ granted = Settings!Consents(machine) /\ projected = {} /\ shown = {} /\ ~ twice /\ causes = {}
        /\ latest = [c \in Settings!Cards |-> 1] /\ holder = Settings!Nobody /\ acts = 0
        /\ at = [t \in Task |-> "idle"] /\ DOMAIN asked = Task /\ DOMAIN kept = Task
        /\ acks = [sf \in Settings!Surfaces |-> Settings!NoAcks]
    BY DEF Settings!Init
  <1>2. Proper(Present)
    <2>1. CASE machine = Settings!NoMachine
      BY <2>1, EmptyIsProper DEF Present
    <2>2. CASE machine \in Settings!Elsewhere
      BY <2>2, ElsewhereIsProper, ThereIsAMachine DEF Present
    <2>3. QED BY <1>1, <2>1, <2>2
  <1>3. project = [config |-> project.config, lock |-> project.lock, registered |-> project.registered]
    BY DEF Settings!Init
  <1>4. acks \in [Settings!Surfaces -> [keys : SUBSET shown, torn : BOOLEAN]]
        /\ \A sf \in Settings!Surfaces : ~ acks[sf].torn
    BY <1>1 DEF Settings!NoAcks
  <1>5. SettingsTyped
    BY <1>1, <1>2, <1>3, <1>4 DEF SettingsTyped, Settings!Version, Stages
  <1>6. Granted(machine) /\ Settings!NoticesAreGiven
    BY <1>1 DEF Granted, Settings!NoticesAreGiven
  <1>7. ASSUME NEW t \in Task PROVE at[t] = "idle" /\ Ordered(t) /\ Carries(t) /\ Locked(t) /\ Single(t)
    BY <1>1, <1>4, SettingsConstants
    DEF Ordered, Carries, Locked, Single, Undisturbed, Recorded, Holding, Preparing, Telling, Recording
  <1>8. QED BY <1>5, <1>6, <1>7 DEF SettingsInv

(* Whoever is between reading and writing machine.json meets nobody else's  *)
(* write but an init that declines and what is done by hand.                *)
Calm(t) ==
  \/ holder = t
  \/ UNCHANGED <<prefs, granted, spoilt>> /\ Present' = Present
  \/ UNCHANGED <<prefs, granted, spoilt>> /\ "declined" \in causes' /\ Present' = Settings!EmptyMachine

LEMMA SettingsMove ==
  ASSUME SettingsInv, NEW t \in Task, SettingsTyped', Granted(machine)', Settings!NoticesAreGiven',
         causes \subseteq causes', shown \subseteq shown', Ordered(t)', Carries(t)', Locked(t)', Calm(t),
         holder' = holder \/ {holder, holder'} \subseteq {t, Settings!Nobody},
         \A u \in Task \ {t} : at'[u] = at[u] /\ asked'[u] = asked[u] /\ kept'[u] = kept[u],
         "overlap" \notin causes' => MayAct(t) /\ Undisturbed(t)' /\ Recorded(t)'
  PROVE  SettingsInv'
  <1>1. ASSUME NEW u \in Task \ {t} PROVE Ordered(u)' /\ Carries(u)' /\ Locked(u)'
    <2>1. Ordered(u) /\ Carries(u) /\ Locked(u)
      BY DEF SettingsInv
    <2>2. Ordered(u)'
      BY <2>1 DEF Ordered, Trusting, Applying
    <2>3. Locked(u)'
      BY <2>1, SettingsConstants DEF Locked
    <2>4. Settings!Current(u)' = Settings!Current(u)
      BY DEF Settings!Current
    <2>5. Carries(u)'
      <3>1. CASE at[u] \in {"verify", "commit"}
        <4>1. holder # t
          BY <2>1, <3>1 DEF Locked, Holding
        <4>2. \A m : (Unaltered(m) => Unaltered(m)') /\ (Granted(m) => Granted(m)')
                     /\ (Informed(m) => Informed(m)')
          BY <4>1 DEF Calm, Unaltered, Granted, Informed, Settings!Consents, Settings!Active, Settings!Seen
        <4>3. prefs' = prefs
          BY <4>1 DEF Calm
        <4>4. \A c, m, e : Aimed(c, m, e) => Aimed(c, m, e)'
          BY DEF Aimed
        <4>5. QED BY <2>1, <2>4, <3>1, <4>2, <4>3, <4>4 DEF Carries, Telling, Recording
      <3>2. CASE at[u] \notin {"verify", "commit"}
        BY <2>1, <2>4, <3>2 DEF Carries
      <3>3. QED BY <3>1, <3>2
    <2>6. QED BY <2>2, <2>3, <2>5
  <1>2. ASSUME "overlap" \notin causes'
        PROVE  /\ \A u, v \in Task : at'[u] # "idle" /\ at'[v] # "idle" => u = v
               /\ \A u \in Task : Single(u)'
    <2>1. \A u \in Task \ {t} : at'[u] = "idle"
      BY <1>2 DEF MayAct
    <2>2. ASSUME NEW u \in Task \ {t}, MayAct(u)' PROVE Undisturbed(u)' /\ Recorded(u)'
      <3>1. at'[u] = "idle" /\ at'[t] = "idle"
        BY <2>1, <2>2 DEF MayAct
      <3>2. Undisturbed(u)'
        BY <3>1 DEF Undisturbed, Telling, Recording
      <3>3. Recorded(u)'
        BY <1>2, <3>1 DEF Recorded, Recording
      <3>4. QED BY <3>2, <3>3
    <2>3. QED BY <1>2, <2>1, <2>2 DEF Single
  <1>3. QED BY <1>1, <1>2 DEF SettingsInv

LEMMA SettingsKnows ==
  ASSUME SettingsInv, NEW t \in Task, "overlap" \notin causes, at[t] # "idle"
  PROVE  MayAct(t) /\ Undisturbed(t) /\ Recorded(t)
  BY DEF SettingsInv, Single, MayAct

-----------------------------------------------------------------------------
(* What most steps do: one command goes on, and no file changes.            *)
Moved(t) ==
  /\ at' \in [Task -> Stages] /\ DOMAIN asked' = Task /\ DOMAIN kept' = Task
  /\ holder' = holder \/ {holder, holder'} \subseteq {t, Settings!Nobody}
  /\ \A u \in Task \ {t} : at'[u] = at[u] /\ asked'[u] = asked[u] /\ kept'[u] = kept[u]
Quietly ==
  UNCHANGED <<machine, prefs, project, acks, latest, spoilt, projected, granted, shown, twice, causes, acts>>

LEMMA SettingsQuiet ==
  ASSUME SettingsInv, NEW t \in Task, at[t] # "idle", Quietly, Moved(t),
         Ordered(t)', Carries(t)', Locked(t)',
         "overlap" \notin causes => Undisturbed(t)' /\ Recorded(t)'
  PROVE  SettingsInv'
  <1>1. SettingsTyped'
    BY DEF SettingsInv, SettingsTyped, Quietly, Moved, Present
  <1>2. Granted(machine)' /\ Settings!NoticesAreGiven' /\ Calm(t)
    BY DEF SettingsInv, Quietly, Granted, Settings!NoticesAreGiven, Calm, Settings!Consents, Present, Settings!Seen
  <1>3. "overlap" \notin causes' => MayAct(t)
    BY SettingsKnows DEF Quietly
  <1>4. QED BY <1>1, <1>2, <1>3, SettingsMove DEF Quietly, Moved

LEMMA Going ==
  ASSUME SettingsInv, NEW t \in Task, NEW p \in Stages, Settings!Goto(t, p)
  PROVE  at' \in [Task -> Stages] /\ at'[t] = p /\ \A u \in Task \ {t} : at'[u] = at[u]
  BY DEF SettingsInv, SettingsTyped, Settings!Goto

LEMMA Keeping ==
  ASSUME SettingsInv, NEW t \in Task, NEW value, Settings!Keep(t, value)
  PROVE  DOMAIN kept' = Task /\ kept'[t] = value /\ \A u \in Task \ {t} : kept'[u] = kept[u]
  BY DEF SettingsInv, SettingsTyped, Settings!Keep

LEMMA Ended ==
  ASSUME SettingsInv, NEW t \in Task, Settings!End(t)
  PROVE  /\ Moved(t) /\ at'[t] = "idle" /\ holder' # t
         /\ Ordered(t)' /\ Carries(t)' /\ Locked(t)' /\ Undisturbed(t)'
  <1>1. at' \in [Task -> Stages] /\ at'[t] = "idle" /\ \A u \in Task \ {t} : at'[u] = at[u]
    BY Going DEF Settings!End, Stages
  <1>2. DOMAIN kept' = Task /\ \A u \in Task \ {t} : kept'[u] = kept[u]
    BY Keeping DEF Settings!End
  <1>3. DOMAIN asked' = Task /\ \A u \in Task \ {t} : asked'[u] = asked[u]
    BY DEF Settings!End, SettingsInv, SettingsTyped
  <1>4. holder' = (IF holder = t THEN Settings!Nobody ELSE holder) /\ holder' # t
    BY SettingsConstants DEF Settings!End
  <1>5. Moved(t)
    BY <1>1, <1>2, <1>3, <1>4 DEF Moved
  <1>6. QED
    BY <1>1, <1>4, <1>5 DEF Ordered, Carries, Locked, Undisturbed, Holding, Preparing, Telling, Recording

LEMMA Ending ==
  ASSUME SettingsInv, NEW t \in Task, at[t] # "idle", Quietly, Settings!End(t),
         "overlap" \notin causes => at[t] \notin Recording
  PROVE  SettingsInv'
  <1>1. "overlap" \notin causes => Recorded(t)'
    <2> SUFFICES ASSUME "overlap" \notin causes PROVE Recorded(t)'
      OBVIOUS
    <2>1. Recorded(t)
      BY SettingsKnows
    <2>2. QED BY <2>1 DEF Recorded, Quietly, Recording
  <1>2. QED BY <1>1, Ended, SettingsQuiet

LEMMA Unrecorded ==
  ASSUME SettingsInv, NEW t \in Task, at[t] # "idle", Quietly, Moved(t), Ordered(t)', Carries(t)', Locked(t)',
         "overlap" \notin causes => at[t] \notin Recording /\ Undisturbed(t)'
  PROVE  SettingsInv'
  <1>1. "overlap" \notin causes => Recorded(t)'
    <2> SUFFICES ASSUME "overlap" \notin causes PROVE Recorded(t)'
      OBVIOUS
    <2>1. Recorded(t)
      BY SettingsKnows
    <2>2. QED BY <2>1 DEF Recorded, Quietly, Recording
  <1>2. QED BY <1>1, SettingsQuiet

LEMMA Walking ==
  ASSUME SettingsInv, NEW t \in Task, NEW p \in Stages, Settings!Goto(t, p), UNCHANGED <<asked, kept, holder>>
  PROVE  Moved(t) /\ at'[t] = p
  BY Going DEF Moved, SettingsInv, SettingsTyped

LEMMA EnterStep == ASSUME SettingsInv, NEW t \in Task, Settings!Enter(t) PROVE SettingsInv'
  <1>1. at[t] = "enter" /\ Quietly
    BY DEF Settings!Enter, Quietly, Settings!files, Settings!history, Settings!Quiet
  <1>2. CASE holder # Settings!Nobody
    <2>1. Settings!End(t)
      BY <1>2 DEF Settings!Enter
    <2>2. QED BY <1>1, <2>1, Ending DEF Recording
  <1>3. CASE holder = Settings!Nobody
    <2>1. holder' = t /\ Settings!Goto(t, "read") /\ UNCHANGED <<asked, kept>>
      BY <1>3 DEF Settings!Enter
    <2>2. at' \in [Task -> Stages] /\ at'[t] = "read" /\ \A u \in Task \ {t} : at'[u] = at[u]
      BY <2>1, Going DEF Stages, Holding
    <2>3. Moved(t)
      BY <1>3, <2>1, <2>2 DEF Moved, SettingsInv, SettingsTyped
    <2>4. Ordered(t)
      BY DEF SettingsInv
    <2>5. Ordered(t)'
      BY <1>1, <2>1, <2>2, <2>4 DEF Ordered, Trusting, Applying, Preparing, Telling, Recording, Quietly
    <2>6. Carries(t)' /\ Locked(t)' /\ Undisturbed(t)'
      BY <2>1, <2>2 DEF Carries, Locked, Undisturbed, Holding, Preparing, Telling, Recording
    <2>7. QED BY <1>1, <2>3, <2>5, <2>6, Unrecorded DEF Recording
  <1>4. QED BY <1>2, <1>3

LEMMA ReadStep == ASSUME SettingsInv, NEW t \in Task, Settings!Read(t) PROVE SettingsInv'
  <1> DEFINE c == asked[t]
  <1>1. at[t] = "read" /\ Quietly /\ UNCHANGED <<holder, asked>>
    BY DEF Settings!Read, Quietly, Settings!files, Settings!history, Settings!Quiet
  <1>2. /\ Settings!Goto(t, IF c.op \in {"trust", "untrust"} THEN "verify" ELSE "commit")
        /\ Settings!Keep(t, IF c.op = "set" THEN [prefs |-> prefs] ELSE [machine |-> Present])
    BY DEF Settings!Read, Present
  <1> DEFINE p == IF c.op \in {"trust", "untrust"} THEN "verify" ELSE "commit"
             m == IF c.op = "set" THEN [prefs |-> prefs] ELSE [machine |-> Present]
  <1>3. p \in Stages
    BY DEF Stages, Holding
  <1> HIDE DEF p, m
  <1>4. /\ at' \in [Task -> Stages] /\ at'[t] = p /\ \A u \in Task \ {t} : at'[u] = at[u]
        /\ DOMAIN kept' = Task /\ kept'[t] = m /\ \A u \in Task \ {t} : kept'[u] = kept[u]
    BY <1>2, <1>3, Going, Keeping DEF p, m
  <1>5. Moved(t)
    BY <1>1, <1>4 DEF Moved, SettingsInv, SettingsTyped
  <1>6. Ordered(t) /\ Locked(t)
    BY DEF SettingsInv
  <1>7. Ordered(t)'
    BY <1>1, <1>4, <1>6 DEF Ordered, Trusting, Applying, Preparing, Telling, Recording, Quietly, p
  <1>8. Locked(t)' /\ Undisturbed(t)'
    BY <1>1, <1>4, <1>6 DEF Locked, Undisturbed, Holding, Telling, Recording, p
  <1>9. Carries(t)'
    <2>1. c.op = "set" => m.prefs = prefs
      BY DEF m
    <2>2. c.op # "set" => m.machine = Present
      BY DEF m
    <2>3. Proper(Present) /\ Granted(Present)
      BY ThereIsAMachine DEF SettingsInv, SettingsTyped, Granted, Present, Settings!Consents
    <2>4. Proper(Present)' /\ Granted(Present)' /\ Present' = Present /\ Unaltered(Present)
      BY <1>1, <2>3 DEF Quietly, Present, Settings!Seen, Granted, Settings!Consents, Unaltered
    <2>5. c.op # "set" => (Proper(kept[t].machine) /\ Unaltered(kept[t].machine) /\ Granted(kept[t].machine))'
      BY <1>1, <1>4, <2>2, <2>3, <2>4 DEF Quietly, Granted, Unaltered
    <2>6. QED BY <1>1, <1>4, <2>1, <2>5 DEF Carries, p, Telling, Recording, Quietly
  <1>10. QED BY <1>1, <1>5, <1>7, <1>8, <1>9, Unrecorded DEF Recording

LEMMA VerifyStep == ASSUME SettingsInv, NEW t \in Task, Settings!Verify(t) PROVE SettingsInv'
  <1> DEFINE m == kept[t].machine  c == asked[t]
             e == Settings!Consented(c, Present.cards[c.card])
             carried == [machine |-> m, target |-> e]
  <1>1. at[t] = "verify" /\ Quietly
    BY DEF Settings!Verify, Quietly, Settings!files, Settings!history, Settings!Quiet
  <1>2. CASE Settings!End(t)
    BY <1>1, <1>2, Ending DEF Recording
  <1>3. CASE ~ Settings!End(t)
    <2>1. /\ Settings!Verified(Present) /\ Settings!Accepts(c, Present)
          /\ Settings!Goto(t, "commit") /\ UNCHANGED <<holder, asked>> /\ Settings!Keep(t, carried)
      BY <1>3 DEF Settings!Verify, Present
    <2>2. Ordered(t) /\ Carries(t) /\ Locked(t) /\ Proper(Present)
      BY DEF SettingsInv, SettingsTyped
    <2>3. /\ c.op \in {"trust", "untrust"} /\ Proper(m) /\ Unaltered(m) /\ Granted(m)
          /\ c.surface \in Settings!Surfaces
          /\ c.op = "trust" => c.range \in Settings!Ranges \cup {{}}
      BY <1>1, <2>2 DEF Ordered, Carries, Trusting
    <2>4. Settings!Targets(c, Present) /\ Sound(e)
      BY <2>1, <2>2, <2>3, ConsentIsSound
    <2>5. "edited" \in causes \/ Present = m
      <3>1. Present.active # Settings!NoWorker
        BY <2>4 DEF Settings!Targets
      <3>2. Present # Settings!EmptyMachine
        BY <3>1 DEF Settings!EmptyMachine
      <3>3. QED BY <2>3, <3>2 DEF Unaltered
    <2>6. Aimed(c, m, e) /\ Informed(m)
      BY <2>1, <2>4, <2>5 DEF Aimed, Informed, Settings!Verified
    <2>7. carried.machine = m /\ carried.target = e
      OBVIOUS
    <2> HIDE DEF carried, e, m
    <2>8. /\ at' \in [Task -> Stages] /\ at'[t] = "commit" /\ \A u \in Task \ {t} : at'[u] = at[u]
          /\ DOMAIN kept' = Task /\ kept'[t] = carried /\ \A u \in Task \ {t} : kept'[u] = kept[u]
      BY <2>1, Going, Keeping DEF Stages, Holding
    <2>9. Moved(t)
      BY <2>1, <2>8 DEF Moved, SettingsInv, SettingsTyped
    <2>10. Ordered(t)' /\ Locked(t)'
      BY <1>1, <2>1, <2>8, <2>2 DEF Ordered, Locked, Trusting, Holding, Preparing, Telling, Recording, Quietly
    <2>11. kept'[t].machine = m /\ kept'[t].target = e /\ asked'[t] = c
      BY <2>1, <2>7, <2>8
    <2>12. (Unaltered(m) /\ Granted(m) /\ Informed(m) /\ Aimed(c, m, e))
           => Unaltered(kept[t].machine)' /\ Granted(kept[t].machine)' /\ Informed(kept[t].machine)'
              /\ Aimed(asked[t], kept[t].machine, kept[t].target)'
      BY <1>1, <2>11 DEF Quietly, Unaltered, Granted, Informed, Aimed, Present, Settings!Seen
    <2>13. Carries(t)' /\ Undisturbed(t)'
      BY <2>3, <2>4, <2>6, <2>8, <2>11, <2>12 DEF Carries, Undisturbed, Telling, Recording
    <2>14. QED BY <1>1, <2>9, <2>10, <2>13, Unrecorded DEF Recording
  <1>4. QED BY <1>2, <1>3

(* An init on its way to config.json.                                       *)
LEMMA Preparation ==
  ASSUME SettingsInv, NEW t \in Task, Quietly, Settings!Goto(t, at'[t]), UNCHANGED <<holder, asked, kept>>,
         at[t] \in Preparing, at'[t] \in (Preparing \ {"open", "fill"}) \cup {"enter"}
  PROVE  SettingsInv'
  <1>1. Moved(t)
    BY Walking DEF Stages, Preparing
  <1>2. Ordered(t) /\ Carries(t) /\ Locked(t)
    BY DEF SettingsInv
  <1>3. Ordered(t)' /\ Locked(t)' /\ Carries(t)' /\ Undisturbed(t)'
    BY <1>2 DEF Ordered, Locked, Carries, Undisturbed, Holding, Preparing, Telling, Recording
  <1>4. QED BY <1>1, <1>3, Unrecorded DEF Recording, Preparing

LEMMA CheckStep == ASSUME SettingsInv, NEW t \in Task, Settings!Check(t) PROVE SettingsInv'
  <1>1. at[t] = "check" /\ Quietly
    BY DEF Settings!Check, Quietly, Settings!files, Settings!history, Settings!Quiet
  <1>2. CASE Settings!End(t)
    BY <1>1, <1>2, Ending DEF Recording
  <1>3. CASE ~ Settings!End(t)
    <2>1. Settings!Goto(t, "look") /\ UNCHANGED <<holder, asked, kept>>
      BY <1>3 DEF Settings!Check
    <2>2. at'[t] = "look"
      BY <2>1, Going DEF Stages, Preparing
    <2>3. QED BY <1>1, <2>1, <2>2, Preparation DEF Preparing
  <1>4. QED BY <1>2, <1>3

LEMMA LookStep == ASSUME SettingsInv, NEW t \in Task, Settings!Look(t) PROVE SettingsInv'
  <1>1. /\ at[t] = "look" /\ Quietly /\ UNCHANGED <<holder, asked, kept>>
        /\ Settings!Goto(t, "scaffold") \/ Settings!Goto(t, "ask") \/ Settings!Goto(t, "decline")
    BY DEF Settings!Look, Quietly, Settings!files, Settings!history, Settings!Quiet
  <1>2. at'[t] \in {"scaffold", "ask", "decline"} /\ Settings!Goto(t, at'[t])
    BY <1>1, Going DEF Stages, Preparing
  <1>3. QED BY <1>1, <1>2, Preparation DEF Preparing

LEMMA AnswerStep == ASSUME SettingsInv, NEW t \in Task, Settings!Answer(t) PROVE SettingsInv'
  <1>1. /\ at[t] = "ask" /\ Quietly /\ UNCHANGED <<holder, asked, kept>>
        /\ Settings!Goto(t, "enter") \/ Settings!Goto(t, "decline")
    BY DEF Settings!Answer, Quietly, Settings!files, Settings!history, Settings!Quiet
  <1>2. at'[t] \in {"enter", "decline"} /\ Settings!Goto(t, at'[t])
    BY <1>1, Going DEF Stages, Preparing
  <1>3. QED BY <1>1, <1>2, Preparation DEF Preparing

LEMMA ValidSurfaces == \A m : \A k \in Settings!Valid(m) : k.surface \in Settings!Surfaces
  BY DEF Settings!Valid, Settings!Key

LEMMA PreflightStep == ASSUME SettingsInv, NEW t \in Task, Settings!Preflight(t) PROVE SettingsInv'
  <1>1. at[t] = "preflight" /\ Quietly
    BY DEF Settings!Preflight, Quietly, Settings!files, Settings!history, Settings!Quiet
  <1>2. CASE Settings!End(t)
    BY <1>1, <1>2, Ending DEF Recording
  <1>3. CASE ~ Settings!End(t)
    <2> DEFINE keys == Settings!Valid(Present)
               p == IF keys = {} THEN "project" ELSE "notice"
               m == [keys |-> keys]
    <2>1. Settings!Keep(t, m) /\ Settings!Goto(t, p) /\ UNCHANGED <<holder, asked>>
      BY <1>3 DEF Settings!Preflight, Present
    <2>2. p \in Stages /\ m.keys = keys /\ p \in {"project", "notice"} /\ (keys = {} <=> p = "project")
      BY DEF Stages, Telling
    <2> HIDE DEF p, m
    <2>3. /\ at' \in [Task -> Stages] /\ at'[t] = p /\ \A u \in Task \ {t} : at'[u] = at[u]
          /\ DOMAIN kept' = Task /\ kept'[t] = m /\ \A u \in Task \ {t} : kept'[u] = kept[u]
      BY <2>1, <2>2, Going, Keeping
    <2>4. Moved(t)
      BY <2>1, <2>3 DEF Moved, SettingsInv, SettingsTyped
    <2>5. Ordered(t) /\ Locked(t)
      BY DEF SettingsInv
    <2>6. Ordered(t)' /\ Locked(t)'
      BY <1>1, <2>1, <2>2, <2>3, <2>5
      DEF Ordered, Locked, Trusting, Applying, Holding, Preparing, Telling, Recording, Quietly
    <2>7. Carries(t)'
      BY <2>2, <2>3, ValidSurfaces DEF Carries, Telling, Recording
    <2>8. Present' = Present /\ Settings!Valid(Present)' = keys
      BY <1>1 DEF Quietly, Present, Settings!Seen, Settings!Valid, Settings!Key, Settings!Active
    <2>9. Undisturbed(t)'
      BY <2>2, <2>3, <2>8 DEF Undisturbed
    <2>10. QED BY <1>1, <2>4, <2>6, <2>7, <2>9, Unrecorded DEF Recording
  <1>4. QED BY <1>2, <1>3

(* A notice that is done with: the next one, or what comes after the last.  *)
LEMMA DoneMoves ==
  ASSUME SettingsInv, NEW t \in Task, at[t] \in Telling, Settings!Done(t), Settings!Current(t) \in shown,
         shown' = shown, UNCHANGED <<machine, causes>>
  PROVE  /\ Moved(t) /\ Ordered(t)' /\ Carries(t)' /\ Locked(t)' /\ at'[t] \notin Recording
         /\ Undisturbed(t) => Undisturbed(t)'
  <1> DEFINE k == Settings!Current(t)  keys == kept[t].keys
  <1>1. /\ Ordered(t) /\ Carries(t) /\ Locked(t)
    BY DEF SettingsInv
  <1>2. /\ keys # {} /\ k \in keys /\ \A z \in keys : z.surface \in Settings!Surfaces
        /\ holder # t /\ asked[t].op \in {"trust", "write"}
    BY <1>1 DEF Carries, Locked, Ordered, Holding, Telling, Recording, Settings!Current
  <1>3. Present' = Present /\ Settings!Valid(Present)' = Settings!Valid(Present)
    BY DEF Present, Settings!Seen, Settings!Valid, Settings!Key, Settings!Active
  <1>4. CASE keys # {k}
    <2> DEFINE m == [keys |-> keys \ {k}]
    <2>1. Settings!Keep(t, m) /\ Settings!Goto(t, "notice") /\ UNCHANGED <<asked, holder>>
      BY <1>4 DEF Settings!Done
    <2>2. m.keys = keys \ {k}
      OBVIOUS
    <2> HIDE DEF m, k
    <2>3. /\ at' \in [Task -> Stages] /\ at'[t] = "notice" /\ \A u \in Task \ {t} : at'[u] = at[u]
          /\ DOMAIN kept' = Task /\ kept'[t] = m /\ \A u \in Task \ {t} : kept'[u] = kept[u]
      BY <2>1, Going, Keeping DEF Stages, Telling
    <2>4. Moved(t)
      BY <2>1, <2>3 DEF Moved, SettingsInv, SettingsTyped
    <2>5. Ordered(t)' /\ Locked(t)'
      BY <1>1, <1>2, <2>1, <2>3 DEF Ordered, Locked, Trusting, Applying, Holding, Preparing, Telling, Recording
    <2>6. kept'[t].keys = keys \ {k} /\ keys \ {k} # {}
      BY <1>2, <1>4, <2>2, <2>3
    <2>7. Carries(t)'
      BY <1>2, <2>3, <2>6 DEF Carries, Telling, Recording
    <2>8. Undisturbed(t) => Undisturbed(t)'
      <3> SUFFICES ASSUME Undisturbed(t), "edited" \notin causes, asked[t].op = "write"
                   PROVE  Settings!Valid(Present) \subseteq shown \cup kept'[t].keys
        BY <1>3, <2>1, <2>3 DEF Undisturbed
      <3>1. Settings!Valid(Present) \subseteq shown \cup keys
        BY DEF Undisturbed
      <3>2. QED BY <2>6, <3>1 DEF k
    <2>9. QED BY <2>3, <2>4, <2>5, <2>7, <2>8 DEF Recording
  <1>5. CASE keys = {k} /\ asked[t].op = "write"
    <2>1. Settings!Keep(t, Settings!NoCall) /\ Settings!Goto(t, "project") /\ UNCHANGED <<asked, holder>>
      BY <1>5 DEF Settings!Done
    <2>3. /\ at' \in [Task -> Stages] /\ at'[t] = "project" /\ \A u \in Task \ {t} : at'[u] = at[u]
          /\ DOMAIN kept' = Task /\ \A u \in Task \ {t} : kept'[u] = kept[u]
      BY <2>1, Going, Keeping DEF Stages
    <2>4. Moved(t)
      BY <2>1, <2>3 DEF Moved, SettingsInv, SettingsTyped
    <2>5. Ordered(t)' /\ Locked(t)'
      BY <1>1, <1>5, <2>1, <2>3, <1>2 DEF Ordered, Locked, Trusting, Applying, Holding, Preparing, Telling, Recording
    <2>7. Carries(t)'
      BY <2>3 DEF Carries, Telling, Recording
    <2>8. Undisturbed(t) => Undisturbed(t)'
      <3> SUFFICES ASSUME Undisturbed(t), "edited" \notin causes
                   PROVE  Settings!Valid(Present) \subseteq shown
        BY <1>3, <2>3 DEF Undisturbed, Telling, Recording
      <3>1. Settings!Valid(Present) \subseteq shown \cup keys
        BY <1>5 DEF Undisturbed
      <3>2. QED BY <1>5, <3>1
    <2>9. QED BY <2>3, <2>4, <2>5, <2>7, <2>8 DEF Recording
  <1>6. CASE keys = {k} /\ asked[t].op # "write"
    <2>1. Settings!End(t)
      BY <1>6 DEF Settings!Done
    <2>2. QED BY <2>1, Ended DEF Recording
  <1>7. QED BY <1>4, <1>5, <1>6

LEMMA LoadStep == ASSUME SettingsInv, NEW t \in Task, Settings!Load(t) PROVE SettingsInv'
  <1> DEFINE k == Settings!Current(t)
  <1>1. at[t] = "load" /\ Quietly
    BY DEF Settings!Load, Quietly, Settings!files, Settings!history, Settings!Quiet
  <1>2. Ordered(t) /\ Carries(t) /\ Locked(t)
    BY DEF SettingsInv
  <1>3. /\ asked[t].op \in {"trust", "write"} /\ kept[t].keys # {} /\ k \in shown
        /\ k.surface \in Settings!Surfaces /\ \A z \in kept[t].keys : z.surface \in Settings!Surfaces
    BY <1>1, <1>2 DEF Ordered, Carries, Telling, Recording, Settings!Current
  <1>4. /\ acks[k.surface].keys \subseteq shown /\ acks[k.surface].torn \in BOOLEAN
    BY <1>3 DEF SettingsInv, SettingsTyped
  <1>5. CASE acks[k.surface].torn
    <2>1. Settings!End(t)
      BY <1>1, <1>5 DEF Settings!Load
    <2>2. "overlap" \notin causes => Recorded(t)'
      <3> SUFFICES ASSUME "overlap" \notin causes, "kill" \notin causes PROVE FALSE
        BY <1>1 DEF Recorded, Quietly
      <3>1. QED BY <1>1, <1>3, <1>5, SettingsKnows DEF Recorded
    <2>3. QED BY <1>1, <2>1, <2>2, Ended, SettingsQuiet
  <1>6. CASE ~ acks[k.surface].torn /\ k \in acks[k.surface].keys
    <2>1. Settings!Done(t)
      BY <1>1, <1>6 DEF Settings!Load
    <2>2. /\ Moved(t) /\ Ordered(t)' /\ Carries(t)' /\ Locked(t)' /\ at'[t] \notin Recording
          /\ Undisturbed(t) => Undisturbed(t)'
      BY <1>1, <1>3, <2>1, DoneMoves DEF Quietly, Telling, Recording
    <2>3. "overlap" \notin causes => Recorded(t)'
      <3> SUFFICES ASSUME "overlap" \notin causes PROVE Recorded(t)'
        OBVIOUS
      <3>1. Recorded(t)
        BY <1>1, SettingsKnows
      <3>2. QED BY <1>1, <1>6, <3>1 DEF Recorded, Quietly
    <2>4. QED BY <1>1, <2>2, <2>3, SettingsKnows, SettingsQuiet
  <1>7. CASE ~ acks[k.surface].torn /\ k \notin acks[k.surface].keys
    <2> DEFINE keys == acks[k.surface].keys
    <2>1. Settings!Goto(t, "save") /\ UNCHANGED <<holder, kept>> /\ asked' = [asked EXCEPT ![t].store = keys]
      BY <1>1, <1>7 DEF Settings!Load
    <2>2. /\ at' \in [Task -> Stages] /\ at'[t] = "save" /\ \A u \in Task \ {t} : at'[u] = at[u]
      BY <2>1, Going DEF Stages, Telling, Recording
    <2>3. DOMAIN asked = Task
      BY DEF SettingsInv, SettingsTyped
    <2>4. /\ DOMAIN asked' = Task /\ asked'[t] = [asked[t] EXCEPT !.store = keys]
          /\ \A u \in Task \ {t} : asked'[u] = asked[u]
      BY <2>1, <2>3
    <2>5. Moved(t)
      BY <2>1, <2>2, <2>4 DEF Moved, SettingsInv, SettingsTyped
    <2>6. /\ asked[t].op = "trust" => asked[t] \in Trusting
          /\ asked[t].op = "write" => asked[t] \in Applying
      BY <1>1, <1>2 DEF Ordered
    <2>7. /\ asked'[t].op = asked[t].op /\ asked'[t].store = keys
          /\ asked[t].op = "trust" => asked'[t] \in Trusting
          /\ asked[t].op = "write" => asked'[t] \in Applying
      <3>1. CASE asked[t].op = "trust"
        BY <1>4, <2>4, <2>6, <3>1 DEF Trusting
      <3>2. CASE asked[t].op = "write"
        BY <1>4, <2>4, <2>6, <3>2 DEF Applying
      <3>3. QED BY <1>3, <3>1, <3>2
    <2>8. Ordered(t)' /\ Locked(t)'
      BY <1>1, <1>2, <1>3, <2>1, <2>2, <2>7
      DEF Ordered, Locked, Trusting, Applying, Holding, Preparing, Telling, Recording, Quietly
    <2>9. Settings!Current(t)' = k /\ acks' = acks /\ shown' = shown
      BY <1>1, <2>1 DEF Settings!Current, Quietly
    <2>10. Carries(t)'
      BY <1>3, <2>1, <2>2, <2>9 DEF Carries, Telling, Recording
    <2>11. Present' = Present /\ Settings!Valid(Present)' = Settings!Valid(Present) /\ causes' = causes
      BY <1>1 DEF Quietly, Present, Settings!Seen, Settings!Valid, Settings!Key, Settings!Active
    <2>12. "overlap" \notin causes => Undisturbed(t)' /\ Recorded(t)'
      <3> SUFFICES ASSUME "overlap" \notin causes PROVE Undisturbed(t)' /\ Recorded(t)'
        OBVIOUS
      <3>1. Undisturbed(t) /\ Recorded(t)
        BY <1>1, SettingsKnows
      <3>2. Undisturbed(t)'
        BY <1>1, <2>1, <2>2, <2>7, <2>9, <2>11, <3>1 DEF Undisturbed, Told, Telling, Recording
      <3>3. Recorded(t)'
        BY <1>1, <2>2, <2>9, <2>11, <3>1 DEF Recorded, Told, Recording
      <3>4. QED BY <3>2, <3>3
    <2>13. QED BY <1>1, <2>5, <2>8, <2>10, <2>12, SettingsQuiet
  <1>8. QED BY <1>4, <1>5, <1>6, <1>7

-----------------------------------------------------------------------------
LEMMA StartStep == ASSUME SettingsInv, NEW t \in Task, Settings!Start(t) PROVE SettingsInv'
  <1>1. PICK c \in Asked : asked' = [asked EXCEPT ![t] = c] /\ Settings!Goto(t, Settings!First(c.op))
    BY DEF Settings!Start
  <1>2. /\ at[t] = "idle"
        /\ causes' = IF \E u \in Task : at[u] # "idle" THEN causes \cup {"overlap"} ELSE causes
        /\ UNCHANGED <<machine, prefs, project, acks, latest, spoilt, holder, kept, projected, granted, shown,
                       twice, acts>>
    BY DEF Settings!Start, Settings!files
  <1>3. c \in Settings!Command
    BY SettingsConstants
  <1>4. /\ c.op \in {"init", "apply", "use", "trust", "untrust", "write", "set"}
        /\ c.op = "trust" => c \in Trusting
        /\ c.op = "untrust" => c.surface \in Settings!Surfaces
        /\ c.op = "write" => c \in Applying
    <2>1. CASE c \in [op : {"trust"}, card : Settings!Cards, surface : Settings!Surfaces,
                      range : Settings!Ranges \cup {{}}, store : {{}}]
      <3>1. c \in Trusting
        BY <2>1 DEF Trusting
      <3>2. QED BY <2>1, <3>1
    <2>2. CASE c \in [op : {"write"}, store : {{}}]
      <3>1. c \in Applying
        BY <2>2 DEF Applying
      <3>2. QED BY <2>2, <3>1
    <2>3. CASE c \in [op : {"init"}, guided : BOOLEAN, force : BOOLEAN]
      BY <2>3
    <2>4. CASE c \in [op : {"apply"}, roots : SUBSET Settings!Cards, active : Settings!Cards \cup {Settings!NoWorker}]
      BY <2>4
    <2>5. CASE c \in [op : {"use"}, root : Settings!Cards \cup {Settings!NoWorker}, bare : BOOLEAN]
      BY <2>5
    <2>6. CASE c \in [op : {"untrust"}, card : Settings!Cards, surface : Settings!Surfaces]
      BY <2>6
    <2>7. CASE c \in [op : {"set"}, adds : BOOLEAN, value : SUBSET Nat]
      BY <2>7
    <2>8. QED BY <1>3, <2>1, <2>2, <2>3, <2>4, <2>5, <2>6, <2>7 DEF Settings!Command
  <1> DEFINE p == Settings!First(c.op)
  <1>5. /\ p \in {"check", "preflight", "enter"} /\ (p = "check" => c.op = "init")
        /\ (p = "preflight" => c.op = "write") /\ (p = "enter" => c.op # "write")
    BY <1>4 DEF Settings!First
  <1> HIDE DEF p
  <1>6. at' \in [Task -> Stages] /\ at'[t] = p /\ \A u \in Task \ {t} : at'[u] = at[u]
    BY <1>1, <1>5, Going DEF Stages, Preparing, p
  <1>7. DOMAIN asked' = Task /\ asked'[t] = c /\ \A u \in Task \ {t} : asked'[u] = asked[u]
    BY <1>1 DEF SettingsInv, SettingsTyped
  <1>8. Moved(t)
    BY <1>2, <1>6, <1>7 DEF Moved, SettingsInv, SettingsTyped
  <1>9. Ordered(t)'
    BY <1>2, <1>4, <1>5, <1>6, <1>7 DEF Ordered, Trusting, Applying, Preparing, Telling, Recording
  <1>10. Carries(t)' /\ Undisturbed(t)'
    BY <1>5, <1>6 DEF Carries, Undisturbed, Telling, Recording
  <1>11. Locked(t)'
    BY <1>2, <1>5, <1>6 DEF SettingsInv, Locked, Holding
  <1>12. SettingsTyped'
    BY <1>2, <1>8 DEF SettingsInv, SettingsTyped, Moved, Present
  <1>13. Granted(machine)' /\ Settings!NoticesAreGiven' /\ Calm(t)
    BY <1>2 DEF SettingsInv, Granted, Settings!NoticesAreGiven, Calm, Settings!Consents, Present, Settings!Seen
  <1>14. "overlap" \notin causes' => MayAct(t) /\ Recorded(t)'
    <2> SUFFICES ASSUME "overlap" \notin causes' PROVE MayAct(t) /\ Recorded(t)'
      OBVIOUS
    <2>1. causes' = causes /\ \A u \in Task : at[u] = "idle"
      BY <1>2
    <2>2. MayAct(t) /\ Recorded(t)
      BY <2>1 DEF SettingsInv, Single, MayAct
    <2>3. Recorded(t)'
      BY <1>2, <2>1, <2>2 DEF Recorded, Recording
    <2>4. QED BY <2>2, <2>3
  <1>15. causes \subseteq causes'
    BY <1>2
  <1>16. QED
    BY <1>2, <1>8, <1>9, <1>10, <1>11, <1>12, <1>13, <1>14, <1>15, SettingsMove DEF Moved

LEMMA CommitStep == ASSUME SettingsInv, NEW t \in Task, Settings!Commit(t) PROVE SettingsInv'
  <1> DEFINE m == kept[t].machine  c == asked[t]  n == Settings!Changed(c, m)
  <1>1. /\ at[t] = "commit" /\ c.op \notin {"set", "trust", "untrust"}
        /\ UNCHANGED <<prefs, project, acks, projected, granted, shown, twice, causes>>
        /\ UNCHANGED <<latest, spoilt, acts>>
    BY DEF Settings!Commit, Settings!Quiet, Settings!history
  <1>2. Ordered(t) /\ Carries(t) /\ Locked(t)
    BY DEF SettingsInv
  <1>3. /\ c.op \in {"init", "apply", "use"} /\ holder = t
        /\ Proper(m) /\ Unaltered(m) /\ Granted(m)
    BY <1>1, <1>2 DEF Ordered, Carries, Locked, Holding
  <1>4. CASE ~ Settings!Accepts(c, m)
    <2>1. Settings!End(t) /\ Quietly
      BY <1>1, <1>4 DEF Settings!Commit, Quietly
    <2>2. QED BY <1>1, <2>1, Ending DEF Recording
  <1>5. CASE Settings!Accepts(c, m)
    <2>1. /\ machine' = n
          /\ \/ Settings!End(t)
             \/ c.op = "init" /\ Settings!Goto(t, "scaffold") /\ holder' = Settings!Nobody /\ UNCHANGED <<asked, kept>>
      BY <1>5 DEF Settings!Commit
    <2>2. latest \in [Settings!Cards -> Settings!Version]
      BY DEF SettingsInv, SettingsTyped
    <2>3. Proper(n) /\ Settings!Consents(n) \subseteq Settings!Consents(m)
      BY <1>3, <1>5, <2>2, MachineMade
    <2> HIDE DEF n, m
    <2>4. Proper(Present)'
      BY <2>1, <2>3, ThereIsAMachine DEF Present
    <2>5. Granted(machine)'
      BY <1>1, <1>3, <2>1, <2>3 DEF Granted, Settings!Consents, Settings!Seen
    <2>6. Calm(t)
      BY <1>3 DEF Calm
    <2>7. Moved(t) /\ at'[t] \in {"idle", "scaffold"} /\ Ordered(t)' /\ Carries(t)' /\ Locked(t)' /\ Undisturbed(t)'
      <3>1. CASE Settings!End(t)
        BY <3>1, Ended
      <3>2. CASE c.op = "init" /\ Settings!Goto(t, "scaffold") /\ holder' = Settings!Nobody /\ UNCHANGED <<asked, kept>>
        <4>1. at' \in [Task -> Stages] /\ at'[t] = "scaffold" /\ \A u \in Task \ {t} : at'[u] = at[u]
          BY <3>2, Going DEF Stages, Preparing
        <4>2. Moved(t)
          BY <1>3, <3>2, <4>1 DEF Moved, SettingsInv, SettingsTyped
        <4>3. Ordered(t)' /\ Carries(t)' /\ Locked(t)' /\ Undisturbed(t)'
          BY <3>2, <4>1, SettingsConstants
          DEF Ordered, Carries, Locked, Undisturbed, Holding, Preparing, Telling, Recording
        <4>4. QED BY <4>1, <4>2, <4>3
      <3>3. QED BY <2>1, <3>1, <3>2
    <2>8. SettingsTyped'
      BY <1>1, <2>4, <2>7 DEF SettingsInv, SettingsTyped, Moved
    <2>9. Settings!NoticesAreGiven'
      BY <1>1 DEF SettingsInv, Settings!NoticesAreGiven
    <2>10. "overlap" \notin causes' => MayAct(t) /\ Recorded(t)'
      <3> SUFFICES ASSUME "overlap" \notin causes PROVE MayAct(t) /\ Recorded(t)'
        BY <1>1
      <3>1. MayAct(t) /\ Recorded(t)
        BY <1>1, SettingsKnows
      <3>2. Recorded(t)'
        BY <1>1, <3>1 DEF Recorded, Recording
      <3>3. QED BY <3>1, <3>2
    <2>11. QED
      BY <1>1, <2>5, <2>6, <2>7, <2>8, <2>9, <2>10, SettingsMove DEF Moved
  <1>6. QED BY <1>4, <1>5

(* The consents of the file that a change of consent writes are given.      *)
LEMMA PlacedIsGranted ==
  ASSUME NEW t \in Task, NEW m, Proper(m), Granted(m), NEW c, c.op \in {"trust", "untrust"},
         c.surface \in Settings!Surfaces, c.op = "trust" => c.range \in Settings!Ranges \cup {{}},
         NEW e, Sound(e), Aimed(c, m, e), machine' = Settings!Placed(m, c.card, e), causes' = causes,
         granted' = (granted \ Settings!Withdrawn(c)) \cup Settings!Given(c, e)
  PROVE  Granted(machine)'
  <1> DEFINE n == Settings!Placed(m, c.card, e)
  <1>1. SUFFICES ASSUME "edited" \notin causes, NEW k \in Settings!Consents(n) PROVE k \in granted'
    BY DEF Granted, Settings!Consents, Settings!Seen
  <1>2. Settings!Targets(c, m) /\ e = Settings!Consented(c, m.cards[c.card])
    BY <1>1 DEF Aimed
  <1>3. /\ k \in Settings!Consents(m) \/ k \in Settings!Given(c, e)
        /\ c.op = "untrust" => ~ (k.card = c.card /\ k.surface = c.surface)
    BY <1>2, ConsentMade
  <1>4. k \in Settings!Consents(m) => k \in granted
    BY <1>1 DEF Granted
  <1>5. k \notin Settings!Withdrawn(c)
    BY <1>3 DEF Settings!Withdrawn
  <1>6. QED BY <1>3, <1>4, <1>5

LEMMA CommitConsentStep == ASSUME SettingsInv, NEW t \in Task, Settings!CommitConsent(t) PROVE SettingsInv'
  <1> DEFINE m == kept[t].machine  c == asked[t]  e == kept[t].target
             n == Settings!Placed(m, c.card, e)  K == Settings!Key(m.active, c.card, e, c.surface)
  <1>1. /\ at[t] = "commit" /\ c.op \in {"trust", "untrust"} /\ machine' = n
        /\ granted' = (granted \ Settings!Withdrawn(c)) \cup Settings!Given(c, e)
        /\ UNCHANGED <<prefs, project, acks, projected, twice, causes, latest, spoilt, acts>>
    BY DEF Settings!CommitConsent, Settings!Quiet
  <1>2. Ordered(t) /\ Carries(t) /\ Locked(t)
    BY DEF SettingsInv
  <1>3. /\ holder = t /\ Proper(m) /\ Granted(m) /\ Sound(e) /\ Aimed(c, m, e)
        /\ c.surface \in Settings!Surfaces
        /\ c.op = "trust" => c \in Trusting /\ c.range \in Settings!Ranges \cup {{}}
    BY <1>1, <1>2 DEF Ordered, Carries, Locked, Holding, Trusting
  <1>4. Proper(n)
    BY <1>3, PlacedIsProper
  <1>5. Granted(machine)'
    BY <1>1, <1>3, PlacedIsGranted
  <1>6. \/ /\ c.op = "trust" /\ Settings!Goto(t, "load") /\ holder' = Settings!Nobody /\ asked' = asked
           /\ Settings!Keep(t, [keys |-> {K}]) /\ shown' = shown \cup {K}
        \/ c.op = "untrust" /\ Settings!End(t) /\ shown' = shown
    BY DEF Settings!CommitConsent
  <1>7. K.surface \in Settings!Surfaces
    BY <1>3 DEF Settings!Key
  <1> HIDE DEF m, e, n, K
  <1>8. Proper(Present)' /\ Calm(t)
    BY <1>1, <1>3, <1>4, ThereIsAMachine DEF Present, Calm
  <1>9. shown \subseteq shown' /\ \A k \in shown' : k.surface \in Settings!Surfaces
    BY <1>6, <1>7 DEF SettingsInv, SettingsTyped
  <1>10. Settings!NoticesAreGiven'
    BY <1>1, <1>9 DEF SettingsInv, Settings!NoticesAreGiven
  <1>11. "overlap" \notin causes => MayAct(t) /\ Recorded(t)
    BY <1>1, SettingsKnows
  <1>12. CASE c.op = "trust"
    <2>1. /\ Settings!Goto(t, "load") /\ holder' = Settings!Nobody /\ asked' = asked
          /\ Settings!Keep(t, [keys |-> {K}]) /\ shown' = shown \cup {K}
      BY <1>6, <1>12
    <2>2. /\ at' \in [Task -> Stages] /\ at'[t] = "load" /\ \A u \in Task \ {t} : at'[u] = at[u]
          /\ DOMAIN kept' = Task /\ kept'[t] = [keys |-> {K}] /\ \A u \in Task \ {t} : kept'[u] = kept[u]
      BY <2>1, Going, Keeping DEF Stages, Telling, Recording
    <2>3. kept'[t].keys = {K} /\ Settings!Current(t)' = K
      BY <2>2 DEF Settings!Current
    <2>4. Moved(t)
      BY <1>3, <2>1, <2>2 DEF Moved, SettingsInv, SettingsTyped
    <2>5. SettingsTyped'
      BY <1>1, <1>8, <1>9, <2>1, <2>4 DEF SettingsInv, SettingsTyped, Moved
    <2>6. c \in Trusting'
      BY <1>3, <1>9, <1>12 DEF Trusting
    <2>7. Ordered(t)' /\ Locked(t)'
      BY <1>12, <2>1, <2>2, <2>6, SettingsConstants
      DEF Ordered, Locked, Holding, Preparing, Telling, Recording
    <2>8. Carries(t)' /\ Undisturbed(t)'
      BY <1>7, <1>12, <2>1, <2>2, <2>3 DEF Carries, Undisturbed, Telling, Recording
    <2>9. "overlap" \notin causes' => MayAct(t) /\ Recorded(t)'
      <3> SUFFICES ASSUME "overlap" \notin causes PROVE MayAct(t) /\ Recorded(t)'
        BY <1>1
      <3>1. Recorded(t)'
        BY <1>1, <1>11, <2>1, <2>2, <2>3 DEF Recorded, Recording
      <3>2. QED BY <1>11, <3>1
    <2>10. QED
      BY <1>1, <1>5, <1>8, <1>9, <1>10, <2>4, <2>5, <2>7, <2>8, <2>9, SettingsMove DEF Moved
  <1>13. CASE c.op = "untrust"
    <2>1. Settings!End(t) /\ shown' = shown
      BY <1>6, <1>13
    <2>2. Moved(t) /\ at'[t] = "idle" /\ Ordered(t)' /\ Carries(t)' /\ Locked(t)' /\ Undisturbed(t)'
      BY <2>1, Ended
    <2>3. SettingsTyped'
      BY <1>1, <1>8, <2>1, <2>2 DEF SettingsInv, SettingsTyped, Moved
    <2>4. "overlap" \notin causes' => MayAct(t) /\ Recorded(t)'
      <3> SUFFICES ASSUME "overlap" \notin causes PROVE MayAct(t) /\ Recorded(t)'
        BY <1>1
      <3>1. Recorded(t)'
        BY <1>1, <1>11, <2>1, <2>2 DEF Recorded, Recording
      <3>2. QED BY <1>11, <3>1
    <2>5. QED
      BY <1>1, <1>5, <1>8, <1>9, <1>10, <2>1, <2>2, <2>3, <2>4, SettingsMove DEF Moved
  <1>14. QED BY <1>1, <1>12, <1>13

(* A step that leaves machine.json, consents, notices and their stores.     *)
Aside ==
  UNCHANGED <<machine, acks, latest, spoilt, projected, granted, shown, twice, causes, acts>>

LEMMA SettingsAside ==
  ASSUME SettingsInv, NEW t \in Task, at[t] # "idle", at[t] \notin Recording, Aside, Moved(t),
         prefs' = prefs \/ holder = t,
         project' = [config |-> project'.config, lock |-> project'.lock, registered |-> project'.registered],
         Ordered(t)', Carries(t)', Locked(t)', Undisturbed(t)'
  PROVE  SettingsInv'
  <1>1. SettingsTyped'
    BY DEF SettingsInv, SettingsTyped, Aside, Moved, Present
  <1>2. Granted(machine)' /\ Settings!NoticesAreGiven' /\ Calm(t)
    BY DEF SettingsInv, Aside, Granted, Settings!NoticesAreGiven, Calm, Settings!Consents, Present, Settings!Seen
  <1>3. "overlap" \notin causes' => MayAct(t) /\ Recorded(t)'
    <2> SUFFICES ASSUME "overlap" \notin causes PROVE MayAct(t) /\ Recorded(t)'
      BY DEF Aside
    <2>1. MayAct(t) /\ Recorded(t)
      BY SettingsKnows
    <2>2. QED BY <2>1 DEF Recorded, Aside, Recording
  <1>4. QED BY <1>1, <1>2, <1>3, SettingsMove DEF Aside, Moved

LEMMA SetPreferenceStep == ASSUME SettingsInv, NEW t \in Task, Settings!SetPreference(t) PROVE SettingsInv'
  <1>1. at[t] = "commit" /\ Settings!End(t) /\ Aside /\ project' = project
    BY DEF Settings!SetPreference, Aside, Settings!history, Settings!Quiet
  <1>2. holder = t /\ project = [config |-> project.config, lock |-> project.lock, registered |-> project.registered]
    BY <1>1 DEF SettingsInv, SettingsTyped, Locked, Holding
  <1>3. QED BY <1>1, <1>2, Ended, SettingsAside DEF Recording

LEMMA DeclineStep == ASSUME SettingsInv, NEW t \in Task, Settings!Decline(t) PROVE SettingsInv'
  <1>1. /\ at[t] = "decline" /\ Settings!Goto(t, "scaffold") /\ machine' = Settings!EmptyMachine
        /\ causes' = causes \cup IF machine = Settings!NoMachine THEN {} ELSE {"declined"}
        /\ UNCHANGED <<prefs, project, acks, holder, asked, kept, projected, granted, shown, twice, latest, spoilt, acts>>
    BY DEF Settings!Decline, Settings!Quiet
  <1>2. Moved(t) /\ at'[t] = "scaffold"
    BY <1>1, Walking DEF Stages, Preparing
  <1>3. Proper(Present)' /\ Present' = Settings!EmptyMachine
    BY <1>1, EmptyIsProper, ThereIsAMachine DEF Present
  <1>4. SettingsTyped'
    BY <1>1, <1>2, <1>3 DEF SettingsInv, SettingsTyped, Moved
  <1>5. Granted(machine)'
    <2>1. Settings!Consents(Settings!EmptyMachine) = {}
      BY EmptyIsProper, ConsentsOf DEF Settings!Closure
    <2>2. QED BY <1>1, <2>1 DEF Granted, Settings!Consents, Settings!Seen
  <1>6. Settings!NoticesAreGiven' /\ causes \subseteq causes'
    BY <1>1 DEF SettingsInv, Settings!NoticesAreGiven
  <1>7. Calm(t)
    <2>1. machine = Settings!NoMachine => Present = Settings!EmptyMachine
      BY EmptyIsProper DEF Present
    <2>2. QED BY <1>1, <1>3, <2>1 DEF Calm
  <1>8. Ordered(t) /\ Locked(t)
    BY DEF SettingsInv
  <1>9. Ordered(t)' /\ Locked(t)' /\ Carries(t)' /\ Undisturbed(t)'
    BY <1>1, <1>2, <1>8 DEF Ordered, Locked, Carries, Undisturbed, Holding, Preparing, Telling, Recording
  <1>10. "overlap" \notin causes' => MayAct(t) /\ Recorded(t)'
    <2> SUFFICES ASSUME "overlap" \notin causes' PROVE MayAct(t) /\ Recorded(t)'
      OBVIOUS
    <2>1. MayAct(t) /\ Recorded(t)
      BY <1>1, SettingsKnows
    <2>2. QED BY <1>1, <2>1 DEF Recorded, Recording
  <1>11. QED BY <1>1, <1>2, <1>4, <1>5, <1>6, <1>7, <1>9, <1>10, SettingsMove DEF Moved

LEMMA ScaffoldStep == ASSUME SettingsInv, NEW t \in Task, Settings!Scaffold(t) PROVE SettingsInv'
  <1>1. at[t] = "scaffold" /\ Aside /\ prefs' = prefs
    BY DEF Settings!Scaffold, Aside, Settings!history, Settings!Quiet
  <1>2. project = [config |-> project.config, lock |-> project.lock, registered |-> project.registered]
    BY DEF SettingsInv, SettingsTyped
  <1>3. CASE Settings!End(t) /\ project' = project
    <2>1. Moved(t) /\ Ordered(t)' /\ Carries(t)' /\ Locked(t)' /\ Undisturbed(t)'
      BY <1>3, Ended
    <2>2. QED BY <1>1, <1>2, <1>3, <2>1, SettingsAside DEF Recording
  <1>4. CASE ~ (Settings!End(t) /\ project' = project)
    <2>1. /\ project.config = Settings!NoConfig \/ asked[t].force
          /\ project' = [project EXCEPT !.config = IF asked[t].force THEN Settings!NoConfig ELSE project.config]
          /\ Settings!Goto(t, "open") /\ UNCHANGED <<holder, asked, kept>>
      BY <1>4 DEF Settings!Scaffold
    <2>2. /\ project'.config = Settings!NoConfig
          /\ project' = [config |-> project'.config, lock |-> project'.lock, registered |-> project'.registered]
      BY <1>2, <2>1
    <2>3. Moved(t) /\ at'[t] = "open"
      BY <2>1, Walking DEF Stages, Preparing
    <2>4. Ordered(t) /\ Locked(t)
      BY DEF SettingsInv
    <2>5. Ordered(t)' /\ Locked(t)' /\ Carries(t)' /\ Undisturbed(t)'
      BY <1>1, <2>1, <2>2, <2>3, <2>4
      DEF Ordered, Locked, Carries, Undisturbed, Holding, Preparing, Telling, Recording
    <2>6. QED BY <1>1, <2>2, <2>3, <2>5, SettingsAside DEF Recording
  <1>5. QED BY <1>3, <1>4

LEMMA OpenStep == ASSUME SettingsInv, NEW t \in Task, Settings!Open(t) PROVE SettingsInv'
  <1>1. /\ at[t] = "open" /\ Aside /\ prefs' = prefs /\ UNCHANGED <<holder, asked, kept>>
        /\ project' = [project EXCEPT !.config = Settings!Torn] /\ Settings!Goto(t, "fill")
    BY DEF Settings!Open, Aside, Settings!history, Settings!Quiet
  <1>2. project = [config |-> project.config, lock |-> project.lock, registered |-> project.registered]
    BY DEF SettingsInv, SettingsTyped
  <1>3. /\ project'.config = Settings!Torn
        /\ project' = [config |-> project'.config, lock |-> project'.lock, registered |-> project'.registered]
    BY <1>1, <1>2
  <1>4. Moved(t) /\ at'[t] = "fill"
    BY <1>1, Walking DEF Stages, Preparing
  <1>5. Ordered(t) /\ Locked(t)
    BY DEF SettingsInv
  <1>6. Ordered(t)' /\ Locked(t)' /\ Carries(t)' /\ Undisturbed(t)'
    BY <1>1, <1>3, <1>4, <1>5
    DEF Ordered, Locked, Carries, Undisturbed, Holding, Preparing, Telling, Recording
  <1>7. QED BY <1>1, <1>3, <1>4, <1>6, SettingsAside DEF Recording

LEMMA FillStep == ASSUME SettingsInv, NEW t \in Task, Settings!Fill(t) PROVE SettingsInv'
  <1>1. /\ at[t] = "fill" /\ Aside /\ prefs' = prefs /\ UNCHANGED <<holder, asked, kept>>
        /\ project' = [project EXCEPT !.config = {}] /\ Settings!Goto(t, "register")
    BY DEF Settings!Fill, Aside, Settings!history, Settings!Quiet
  <1>2. project = [config |-> project.config, lock |-> project.lock, registered |-> project.registered]
    BY DEF SettingsInv, SettingsTyped
  <1>3. project' = [config |-> project'.config, lock |-> project'.lock, registered |-> project'.registered]
    BY <1>1, <1>2
  <1>4. Moved(t) /\ at'[t] = "register"
    BY <1>1, Walking DEF Stages, Preparing
  <1>5. Ordered(t) /\ Locked(t)
    BY DEF SettingsInv
  <1>6. Ordered(t)' /\ Locked(t)' /\ Carries(t)' /\ Undisturbed(t)'
    BY <1>1, <1>4, <1>5
    DEF Ordered, Locked, Carries, Undisturbed, Holding, Preparing, Telling, Recording
  <1>7. QED BY <1>1, <1>3, <1>4, <1>6, SettingsAside DEF Recording

LEMMA RegisterStep == ASSUME SettingsInv, NEW t \in Task, Settings!Register(t) PROVE SettingsInv'
  <1>1. /\ at[t] = "register" /\ Aside /\ prefs' = prefs /\ Settings!End(t)
        /\ project' = [project EXCEPT !.registered = TRUE]
    BY DEF Settings!Register, Aside, Settings!history, Settings!Quiet
  <1>2. project = [config |-> project.config, lock |-> project.lock, registered |-> project.registered]
    BY DEF SettingsInv, SettingsTyped
  <1>3. project' = [config |-> project'.config, lock |-> project'.lock, registered |-> project'.registered]
    BY <1>1, <1>2
  <1>4. QED BY <1>1, <1>3, Ended, SettingsAside DEF Recording

LEMMA NoticeStep == ASSUME SettingsInv, NEW t \in Task, Settings!Notice(t) PROVE SettingsInv'
  <1> DEFINE k == Settings!Current(t)
  <1>1. /\ at[t] = "notice"
        /\ UNCHANGED <<machine, prefs, project, acks, latest, spoilt, projected, granted, causes, acts>>
    BY DEF Settings!Notice, Settings!files, Settings!Quiet
  <1>2. Ordered(t) /\ Carries(t) /\ Locked(t)
    BY DEF SettingsInv
  <1>3. /\ k.surface \in Settings!Surfaces /\ \A z \in kept[t].keys : z.surface \in Settings!Surfaces
        /\ kept[t].keys # {} /\ asked[t].op \in {"trust", "write"}
    BY <1>1, <1>2 DEF Ordered, Carries, Telling, Recording, Settings!Current
  <1>4. /\ acks[k.surface].keys \subseteq shown /\ acks[k.surface].torn \in BOOLEAN
    BY <1>3 DEF SettingsInv, SettingsTyped
  <1>5. CASE acks[k.surface].torn
    <2>1. Settings!End(t) /\ Quietly
      BY <1>1, <1>5 DEF Settings!Notice, Quietly
    <2>2. QED BY <1>1, <2>1, Ending DEF Recording
  <1>6. CASE ~ acks[k.surface].torn /\ k \in acks[k.surface].keys
    <2>1. Settings!Done(t) /\ Quietly
      BY <1>1, <1>6 DEF Settings!Notice, Quietly
    <2>2. /\ Moved(t) /\ Ordered(t)' /\ Carries(t)' /\ Locked(t)'
          /\ Undisturbed(t) => Undisturbed(t)'
      BY <1>1, <1>4, <1>6, <2>1, DoneMoves DEF Quietly, Telling
    <2>3. QED BY <1>1, <2>1, <2>2, SettingsKnows, Unrecorded DEF Recording
  <1>7. CASE ~ acks[k.surface].torn /\ k \notin acks[k.surface].keys
    <2>1. /\ Settings!Goto(t, "load") /\ shown' = shown \cup {k} /\ twice' = (twice \/ k \in shown)
          /\ UNCHANGED <<holder, asked, kept>>
      BY <1>1, <1>7 DEF Settings!Notice
    <2>2. Moved(t) /\ at'[t] = "load"
      BY <2>1, Walking DEF Stages, Telling, Recording
    <2>3. Settings!Current(t)' = k /\ shown \subseteq shown'
      BY <2>1 DEF Settings!Current
    <2>4. SettingsTyped'
      <3>1. Proper(Present)'
        BY <1>1 DEF SettingsInv, SettingsTyped, Present, Settings!Seen, Proper
      <3>2. acks' \in [Settings!Surfaces -> [keys : SUBSET shown', torn : BOOLEAN]]
        BY <1>1, <2>3 DEF SettingsInv, SettingsTyped
      <3>3. \A z \in shown' : z.surface \in Settings!Surfaces
        BY <1>3, <2>1 DEF SettingsInv, SettingsTyped
      <3>4. QED BY <1>1, <2>1, <2>2, <3>1, <3>2, <3>3 DEF SettingsInv, SettingsTyped, Moved
    <2>5. Granted(machine)' /\ Calm(t)
      BY <1>1, <2>1 DEF SettingsInv, Granted, Calm, Settings!Consents, Present, Settings!Seen
    <2>6. Settings!NoticesAreGiven'
      <3>1. projected' \subseteq shown' \/ causes' \cap {"overlap", "edited"} # {}
        BY <1>1, <2>3 DEF SettingsInv, Settings!NoticesAreGiven
      <3>2. ASSUME twice' PROVE causes' \cap {"overlap", "kill"} # {}
        <4>1. CASE twice
          BY <1>1, <4>1 DEF SettingsInv, Settings!NoticesAreGiven
        <4>2. CASE k \in shown
          <5> SUFFICES ASSUME "overlap" \notin causes, "kill" \notin causes PROVE FALSE
            BY <1>1
          <5>1. QED BY <1>1, <1>7, <4>2, SettingsKnows DEF Recorded, Recording
        <4>3. QED BY <2>1, <3>2, <4>1, <4>2
      <3>3. QED BY <3>1, <3>2 DEF Settings!NoticesAreGiven
    <2>7. /\ asked[t].op = "trust" => asked[t] \in Trusting'
          /\ asked[t].op = "write" => asked[t] \in Applying'
      <3>1. asked[t].op = "trust" => asked[t] \in Trusting
        BY <1>1, <1>2 DEF Ordered
      <3>2. asked[t].op = "write" => asked[t] \in Applying
        BY <1>1, <1>2 DEF Ordered
      <3>3. Trusting \subseteq Trusting' /\ Applying \subseteq Applying'
        BY <2>3 DEF Trusting, Applying
      <3>4. QED BY <3>1, <3>2, <3>3
    <2>8. Ordered(t)' /\ Locked(t)'
      BY <1>1, <1>2, <1>3, <2>1, <2>2, <2>7 DEF Ordered, Locked, Holding, Preparing, Telling, Recording
    <2>9. Carries(t)'
      BY <1>3, <2>1, <2>2, <2>3 DEF Carries, Telling, Recording
    <2>10. Settings!Valid(Present)' = Settings!Valid(Present)
      BY <1>1 DEF Present, Settings!Seen, Settings!Valid, Settings!Key, Settings!Active
    <2>11. "overlap" \notin causes' => MayAct(t) /\ Undisturbed(t)' /\ Recorded(t)'
      <3> SUFFICES ASSUME "overlap" \notin causes PROVE MayAct(t) /\ Undisturbed(t)' /\ Recorded(t)'
        BY <1>1
      <3>1. MayAct(t) /\ Undisturbed(t) /\ Recorded(t)
        BY <1>1, SettingsKnows
      <3>2. Undisturbed(t)'
        <4> SUFFICES ASSUME "edited" \notin causes, asked[t].op = "write"
                     PROVE  Settings!Valid(Present) \subseteq shown' \cup kept[t].keys
          BY <1>1, <2>1, <2>2, <2>10 DEF Undisturbed
        <4>1. Settings!Valid(Present) \subseteq shown \cup kept[t].keys
          BY <1>1, <3>1 DEF Undisturbed, Telling
        <4>2. QED BY <2>3, <4>1
      <3>3. Recorded(t)'
        BY <1>1, <2>1, <2>2, <2>3, <3>1 DEF Recorded, Recording
      <3>4. QED BY <3>1, <3>2, <3>3
    <2>12. QED BY <1>1, <2>1, <2>2, <2>3, <2>4, <2>5, <2>6, <2>8, <2>9, <2>11, SettingsMove DEF Moved
  <1>8. QED BY <1>4, <1>5, <1>6, <1>7

(* A step on a store of notices.                                            *)
LEMMA SettingsStores ==
  ASSUME SettingsInv, NEW t \in Task, at[t] # "idle", Moved(t),
         UNCHANGED <<machine, prefs, project, latest, spoilt, projected, granted, shown, twice, causes, acts>>,
         acks' \in [Settings!Surfaces -> [keys : SUBSET shown, torn : BOOLEAN]],
         Ordered(t)', Carries(t)', Locked(t)',
         "overlap" \notin causes => Undisturbed(t)' /\ Recorded(t)'
  PROVE  SettingsInv'
  <1>1. SettingsTyped'
    BY DEF SettingsInv, SettingsTyped, Moved, Present
  <1>2. Granted(machine)' /\ Settings!NoticesAreGiven' /\ Calm(t)
    BY DEF SettingsInv, Granted, Settings!NoticesAreGiven, Calm, Settings!Consents, Present, Settings!Seen
  <1>3. "overlap" \notin causes' => MayAct(t)
    BY SettingsKnows
  <1>4. QED BY <1>1, <1>2, <1>3, SettingsMove DEF Moved

LEMMA SaveStep == ASSUME SettingsInv, NEW t \in Task, Settings!Save(t) PROVE SettingsInv'
  <1> DEFINE k == Settings!Current(t)
  <1>1. /\ at[t] = "save" /\ Settings!Goto(t, "saved") /\ acks' = [acks EXCEPT ![k.surface].torn = TRUE]
        /\ UNCHANGED <<machine, prefs, project, latest, spoilt, projected, granted, shown, twice, causes, acts>>
        /\ UNCHANGED <<holder, asked, kept>>
    BY DEF Settings!Save, Settings!history, Settings!Quiet
  <1>2. Ordered(t) /\ Carries(t) /\ Locked(t)
    BY DEF SettingsInv
  <1>3. k.surface \in Settings!Surfaces /\ acks \in [Settings!Surfaces -> [keys : SUBSET shown, torn : BOOLEAN]]
    BY <1>1, <1>2 DEF SettingsInv, SettingsTyped, Carries, Telling, Recording, Settings!Current
  <1>4. /\ acks' \in [Settings!Surfaces -> [keys : SUBSET shown, torn : BOOLEAN]]
        /\ \A sf \in Settings!Surfaces : acks'[sf].keys = acks[sf].keys
        /\ \A sf \in Settings!Surfaces \ {k.surface} : acks'[sf] = acks[sf]
    BY <1>1, <1>3
  <1>5. Moved(t) /\ at'[t] = "saved"
    BY <1>1, Walking DEF Stages, Telling, Recording
  <1>6. Settings!Current(t)' = k
    BY <1>1 DEF Settings!Current
  <1>7. Ordered(t)' /\ Locked(t)' /\ Carries(t)'
    BY <1>1, <1>2, <1>5, <1>6
    DEF Ordered, Carries, Locked, Trusting, Applying, Holding, Preparing, Telling, Recording
  <1>8. Settings!Valid(Present)' = Settings!Valid(Present)
    BY <1>1 DEF Present, Settings!Seen, Settings!Valid, Settings!Key, Settings!Active
  <1>9. "overlap" \notin causes => Undisturbed(t)' /\ Recorded(t)'
    <2> SUFFICES ASSUME "overlap" \notin causes PROVE Undisturbed(t)' /\ Recorded(t)'
      OBVIOUS
    <2>1. Undisturbed(t) /\ Recorded(t)
      BY <1>1, SettingsKnows
    <2>2. Undisturbed(t)'
      BY <1>1, <1>3, <1>4, <1>5, <1>6, <1>8, <2>1 DEF Undisturbed, Told, Telling, Recording
    <2>3. ASSUME "kill" \notin causes, NEW sf \in Settings!Surfaces, acks'[sf].torn PROVE sf = k.surface
      BY <1>1, <1>4, <2>1, <2>3 DEF Recorded
    <2>4. ASSUME "kill" \notin causes, NEW z \in shown PROVE z \in acks'[z.surface].keys \/ z = k
      <3>1. z.surface \in Settings!Surfaces
        BY DEF SettingsInv, SettingsTyped
      <3>2. QED BY <1>4, <2>1, <2>4, <3>1 DEF Recorded
    <2>5. Recorded(t)'
      BY <1>1, <1>5, <1>6, <2>3, <2>4 DEF Recorded, Told, Recording
    <2>6. QED BY <2>2, <2>5
  <1>10. QED BY <1>1, <1>4, <1>5, <1>7, <1>9, SettingsStores

LEMMA SavedStep == ASSUME SettingsInv, NEW t \in Task, Settings!Saved(t) PROVE SettingsInv'
  <1> DEFINE k == Settings!Current(t)  store == asked[t].store
  <1>1. /\ at[t] = "saved" /\ Settings!Done(t)
        /\ acks' = [acks EXCEPT ![k.surface] = [keys |-> store \cup {k}, torn |-> FALSE]]
        /\ UNCHANGED <<machine, prefs, project, latest, spoilt, projected, granted, shown, twice, causes, acts>>
    BY DEF Settings!Saved, Settings!history, Settings!Quiet
  <1>2. Ordered(t) /\ Carries(t)
    BY DEF SettingsInv
  <1>3. /\ k.surface \in Settings!Surfaces /\ k \in shown
        /\ acks \in [Settings!Surfaces -> [keys : SUBSET shown, torn : BOOLEAN]]
    BY <1>1, <1>2 DEF SettingsInv, SettingsTyped, Carries, Telling, Recording, Settings!Current
  <1>4. store \subseteq shown
    BY <1>1, <1>2 DEF Ordered, Trusting, Applying, Telling, Recording
  <1> DEFINE entry == [keys |-> store \cup {k}, torn |-> FALSE]
  <1>5. entry \in [keys : SUBSET shown, torn : BOOLEAN] /\ entry.keys = store \cup {k} /\ ~ entry.torn
    BY <1>3, <1>4
  <1>6. /\ acks' \in [Settings!Surfaces -> [keys : SUBSET shown, torn : BOOLEAN]]
        /\ acks'[k.surface].keys = store \cup {k} /\ ~ acks'[k.surface].torn
        /\ \A sf \in Settings!Surfaces \ {k.surface} : acks'[sf] = acks[sf]
    <2> HIDE DEF entry
    <2>1. acks' = [acks EXCEPT ![k.surface] = entry]
      BY <1>1 DEF entry
    <2>2. QED BY <1>3, <1>5, <2>1
  <1>7. /\ Moved(t) /\ Ordered(t)' /\ Carries(t)' /\ Locked(t)' /\ at'[t] \notin Recording
        /\ Undisturbed(t) => Undisturbed(t)'
    BY <1>1, <1>3, DoneMoves DEF Telling, Recording
  <1>8. "overlap" \notin causes => Undisturbed(t)' /\ Recorded(t)'
    <2> SUFFICES ASSUME "overlap" \notin causes PROVE Undisturbed(t)' /\ Recorded(t)'
      OBVIOUS
    <2>1. Undisturbed(t) /\ Recorded(t)
      BY <1>1, SettingsKnows
    <2>2. store = acks[k.surface].keys
      BY <1>1, <2>1 DEF Undisturbed, Told
    <2>3. ASSUME "kill" \notin causes, NEW sf \in Settings!Surfaces PROVE ~ acks'[sf].torn
      BY <1>6, <2>1, <2>3 DEF Recorded, Told
    <2>4. ASSUME "kill" \notin causes, NEW z \in shown PROVE z \in acks'[z.surface].keys
      <3>1. z.surface \in Settings!Surfaces
        BY DEF SettingsInv, SettingsTyped
      <3>2. z \in acks[z.surface].keys \/ z = k
        BY <2>1, <2>4 DEF Recorded
      <3>3. QED BY <1>6, <2>2, <3>1, <3>2
    <2>5. Recorded(t)'
      BY <1>1, <2>3, <2>4 DEF Recorded
    <2>6. QED BY <1>7, <2>1, <2>5
  <1>9. QED BY <1>1, <1>6, <1>7, <1>8, SettingsStores

LEMMA ProjectStep == ASSUME SettingsInv, NEW t \in Task, Settings!Project(t) PROVE SettingsInv'
  <1>1. /\ at[t] = "project" /\ Settings!End(t)
        /\ projected' = projected \/ projected' = Settings!Valid(Present)
        /\ UNCHANGED <<machine, prefs, project, acks, latest, spoilt, granted, shown, twice, causes, acts>>
    BY DEF Settings!Project, Settings!files, Settings!history, Settings!Quiet, Present
  <1>2. Moved(t) /\ Ordered(t)' /\ Carries(t)' /\ Locked(t)' /\ Undisturbed(t)'
    BY <1>1, Ended
  <1>3. SettingsTyped'
    BY <1>1, <1>2 DEF SettingsInv, SettingsTyped, Moved, Present
  <1>4. Granted(machine)' /\ Calm(t)
    BY <1>1 DEF SettingsInv, Granted, Calm, Settings!Consents, Present, Settings!Seen
  <1>5. "overlap" \notin causes => MayAct(t) /\ Undisturbed(t) /\ Recorded(t)
    BY <1>1, SettingsKnows
  <1>6. Settings!NoticesAreGiven'
    BY <1>1, <1>5 DEF SettingsInv, Settings!NoticesAreGiven, Undisturbed
  <1>7. "overlap" \notin causes' => MayAct(t) /\ Recorded(t)'
    BY <1>1, <1>5 DEF Recorded, Recording
  <1>8. QED BY <1>1, <1>2, <1>3, <1>4, <1>6, <1>7, SettingsMove DEF Moved

LEMMA KillStep == ASSUME SettingsInv, NEW t \in Task, Settings!Kill(t) PROVE SettingsInv'
  <1>1. /\ at[t] # "idle" /\ Settings!End(t) /\ acts' = acts + 1 /\ causes' = causes \cup {"kill"}
        /\ UNCHANGED <<machine, prefs, project, acks, latest, spoilt, projected, granted, shown, twice>>
    BY DEF Settings!Kill, Settings!Others
  <1>2. Moved(t) /\ Ordered(t)' /\ Carries(t)' /\ Locked(t)' /\ Undisturbed(t)'
    BY <1>1, Ended
  <1>3. acts' \in Nat
    BY <1>1 DEF SettingsInv, SettingsTyped
  <1>4. SettingsTyped'
    BY <1>1, <1>2, <1>3 DEF SettingsInv, SettingsTyped, Moved, Present
  <1>5. Granted(machine)' /\ Calm(t) /\ Settings!NoticesAreGiven' /\ causes \subseteq causes'
    BY <1>1 DEF SettingsInv, Granted, Calm, Settings!NoticesAreGiven, Settings!Consents, Present, Settings!Seen
  <1>6. "overlap" \notin causes' => MayAct(t) /\ Recorded(t)'
    <2>1. Recorded(t)'
      BY <1>1 DEF Recorded
    <2>2. QED BY <1>1, <2>1, SettingsKnows
  <1>7. QED BY <1>1, <1>2, <1>4, <1>5, <1>6, SettingsMove DEF Moved

-----------------------------------------------------------------------------
(* What others do meets nobody, or a command that it may disturb.           *)
LEMMA SettingsBeside ==
  ASSUME SettingsInv,
         UNCHANGED <<prefs, project, acks, holder, at, asked, kept, projected, shown, twice>>,
         causes \subseteq causes', granted \subseteq granted', acts' \in Nat,
         latest' \in [Settings!Cards -> Settings!Version], Proper(Present)', Granted(machine)',
         \/ \A t \in Task : at[t] = "idle"
         \/ "edited" \in causes'
         \/ machine' = machine /\ (spoilt' = spoilt \/ "spoilt" \in causes')
  PROVE  SettingsInv'
  <1>1. SettingsTyped' /\ Settings!NoticesAreGiven'
    BY DEF SettingsInv, SettingsTyped, Settings!NoticesAreGiven
  <1>2. ASSUME NEW t \in Task PROVE Ordered(t)' /\ Carries(t)' /\ Locked(t)'
    <2>1. Ordered(t) /\ Carries(t) /\ Locked(t)
      BY DEF SettingsInv
    <2>2. Ordered(t)' /\ Locked(t)'
      BY <2>1 DEF Ordered, Locked, Trusting, Applying
    <2>3. Settings!Current(t)' = Settings!Current(t)
      BY DEF Settings!Current
    <2>4. at[t] # "idle" => \A m : /\ Unaltered(m) => Unaltered(m)'
                                   /\ Granted(m) => Granted(m)'
                                   /\ Informed(m) => Informed(m)'
      BY DEF Unaltered, Granted, Informed, Present, Settings!Seen, Settings!Consents, Settings!Active
    <2>5. Carries(t)'
      <3>1. CASE at[t] = "idle"
        BY <3>1 DEF Carries, Telling, Recording
      <3>2. CASE at[t] # "idle"
        <4>1. \A c, m, e : Aimed(c, m, e) => Aimed(c, m, e)'
          BY DEF Aimed
        <4>2. QED BY <2>1, <2>3, <2>4, <3>2, <4>1 DEF Carries
      <3>3. QED BY <3>1, <3>2
    <2>6. QED BY <2>2, <2>5
  <1>3. ASSUME "overlap" \notin causes'
        PROVE  /\ \A t, u \in Task : at'[t] # "idle" /\ at'[u] # "idle" => t = u
               /\ \A t \in Task : Single(t)'
    <2>1. /\ "overlap" \notin causes
          /\ \A t, u \in Task : at[t] # "idle" /\ at[u] # "idle" => t = u
      BY <1>3 DEF SettingsInv
    <2>2. ASSUME NEW t \in Task, MayAct(t)' PROVE Undisturbed(t)' /\ Recorded(t)'
      <3>1. Undisturbed(t) /\ Recorded(t)
        BY <2>1, <2>2 DEF SettingsInv, Single, MayAct
      <3>2. Settings!Current(t)' = Settings!Current(t)
        BY DEF Settings!Current
      <3>3. Recorded(t)'
        BY <3>1, <3>2 DEF Recorded, Told
      <3>4. machine' = machine => Settings!Valid(Present)' = Settings!Valid(Present)
        BY DEF Present, Settings!Seen, Settings!Valid, Settings!Key, Settings!Active
      <3>5. Undisturbed(t)'
        <4>1. CASE at[t] = "idle"
          BY <4>1 DEF Undisturbed, Telling, Recording
        <4>2. CASE at[t] # "idle"
          BY <3>1, <3>2, <3>4, <4>2 DEF Undisturbed, Told
        <4>3. QED BY <4>1, <4>2
      <3>6. QED BY <3>3, <3>5
    <2>3. QED BY <2>1, <2>2 DEF Single
  <1>4. QED BY <1>1, <1>2, <1>3 DEF SettingsInv

LEMMA Acted ==
  ASSUME SettingsInv, NEW cause, Settings!Act(cause)
  PROVE  /\ acts' = acts + 1 /\ acts' \in Nat /\ causes \subseteq causes'
         /\ (\A t \in Task : at[t] = "idle") \/ cause \in causes'
  BY DEF SettingsInv, SettingsTyped, Settings!Act, Settings!Busy

LEMMA PublishStep == ASSUME SettingsInv, NEW c \in Settings!Cards, Settings!Publish(c) PROVE SettingsInv'
  <1>1. /\ latest' = [latest EXCEPT ![c] = 2] /\ Settings!Act("published")
        /\ UNCHANGED <<prefs, project, acks, holder, at, asked, kept, projected, shown, twice>>
        /\ UNCHANGED <<machine, spoilt, granted>>
    BY DEF Settings!Publish, Settings!Others
  <1>2. latest' \in [Settings!Cards -> Settings!Version]
    BY <1>1 DEF SettingsInv, SettingsTyped, Settings!Version
  <1>3. acts' \in Nat /\ causes \subseteq causes'
    BY <1>1, Acted
  <1>4. Proper(Present)' /\ Granted(machine)'
    BY <1>1, <1>3 DEF SettingsInv, SettingsTyped, Present, Proper, Settings!Seen, Granted, Settings!Consents
  <1>5. QED BY <1>1, <1>2, <1>3, <1>4, SettingsBeside

LEMMA SpoilStep == ASSUME SettingsInv, NEW c \in Settings!Cards, Settings!Spoil(c) PROVE SettingsInv'
  <1>1. /\ Settings!Act("spoilt")
        /\ UNCHANGED <<prefs, project, acks, holder, at, asked, kept, projected, shown, twice>>
        /\ UNCHANGED <<machine, latest, granted>>
    BY DEF Settings!Spoil, Settings!Others
  <1>2. latest' \in [Settings!Cards -> Settings!Version]
    BY <1>1 DEF SettingsInv, SettingsTyped
  <1>3. acts' \in Nat /\ causes \subseteq causes' /\ ((\A t \in Task : at[t] = "idle") \/ "spoilt" \in causes')
    BY <1>1, Acted
  <1>4. Proper(Present)' /\ Granted(machine)'
    BY <1>1, <1>3 DEF SettingsInv, SettingsTyped, Present, Proper, Settings!Seen, Granted, Settings!Consents
  <1>5. QED BY <1>1, <1>2, <1>3, <1>4, SettingsBeside

LEMMA EditPolicyStep == ASSUME SettingsInv, Settings!EditPolicy PROVE SettingsInv'
  <1>1. /\ Settings!Act("edited") /\ machine # Settings!NoMachine
        /\ machine' = [machine EXCEPT !.policy = 1 - machine.policy]
        /\ UNCHANGED <<prefs, project, acks, holder, at, asked, kept, projected, shown, twice>>
        /\ UNCHANGED <<spoilt, latest, granted>>
    BY DEF Settings!EditPolicy, Settings!Others
  <1>2. latest' \in [Settings!Cards -> Settings!Version]
    BY <1>1 DEF SettingsInv, SettingsTyped
  <1>3. acts' \in Nat /\ causes \subseteq causes' /\ ((\A t \in Task : at[t] = "idle") \/ "edited" \in causes')
    BY <1>1, Acted
  <1>4. Proper(machine)
    BY <1>1 DEF SettingsInv, SettingsTyped, Present, Settings!Seen
  <1>5. /\ machine' = [active |-> machine'.active, roots |-> machine'.roots, cards |-> machine'.cards,
                       policy |-> machine'.policy]
        /\ machine'.active = machine.active /\ machine'.roots = machine.roots /\ machine'.cards = machine.cards
        /\ machine'.policy \in {0, 1}
    BY <1>1, <1>4 DEF Proper
  <1> DEFINE n == machine'
  <1>6. Proper(n)
    BY <1>4, <1>5 DEF Proper
  <1>7. Settings!Consents(n) = Settings!Consents(machine)
    BY <1>4, <1>5, <1>6, ConsentsOf
  <1>8. Proper(Present)' /\ Granted(machine)'
    BY <1>1, <1>3, <1>6, <1>7, ThereIsAMachine DEF SettingsInv, Granted, Present, Settings!Consents, Settings!Seen
  <1>9. QED BY <1>1, <1>2, <1>3, <1>8, SettingsBeside

LEMMA CopyStep == ASSUME SettingsInv, Settings!Copy PROVE SettingsInv'
  <1>1. PICK m \in Settings!Elsewhere :
          machine' = m /\ Settings!Act("edited") /\ granted' = granted \cup Settings!Consents(m)
    BY DEF Settings!Copy
  <1>2. /\ UNCHANGED <<prefs, project, acks, holder, at, asked, kept, projected, shown, twice>>
        /\ UNCHANGED <<spoilt, latest>>
    BY DEF Settings!Copy, Settings!Others
  <1>3. latest' \in [Settings!Cards -> Settings!Version]
    BY <1>2 DEF SettingsInv, SettingsTyped
  <1>4. acts' \in Nat /\ causes \subseteq causes' /\ ((\A t \in Task : at[t] = "idle") \/ "edited" \in causes')
    BY <1>1, Acted
  <1>5. Proper(Present)' /\ Granted(machine)'
    BY <1>1, ElsewhereIsProper, ThereIsAMachine DEF Granted, Present, Settings!Consents, Settings!Seen
  <1>6. QED BY <1>1, <1>2, <1>3, <1>4, <1>5, SettingsBeside

LEMMA SettingsStep == SettingsInv /\ [Settings!Next]_(Settings!vars) => SettingsInv'
  <1> SUFFICES ASSUME SettingsInv, [Settings!Next]_(Settings!vars) PROVE SettingsInv'
    OBVIOUS
  <1>1. CASE UNCHANGED Settings!vars
    <2>1. /\ UNCHANGED <<machine, prefs, project, acks, latest, spoilt, holder, at, asked, kept>>
          /\ UNCHANGED <<projected, granted, shown, twice, causes, acts>>
      BY <1>1 DEF Settings!vars, Settings!files, Settings!history
    <2>2. /\ latest' \in [Settings!Cards -> Settings!Version] /\ acts' \in Nat
          /\ Proper(Present)' /\ Granted(machine)'
      BY <2>1 DEF SettingsInv, SettingsTyped, Present, Proper, Settings!Seen, Granted, Settings!Consents
    <2>3. QED BY <2>1, <2>2, SettingsBeside
  <1>2. ASSUME NEW t \in Task, Settings!Step(t) PROVE SettingsInv'
    BY <1>2, StartStep, EnterStep, ReadStep, VerifyStep, CommitStep, CommitConsentStep, SetPreferenceStep,
       CheckStep, LookStep, AnswerStep, DeclineStep, ScaffoldStep, OpenStep, FillStep, RegisterStep, PreflightStep, NoticeStep,
       LoadStep, SaveStep, SavedStep, ProjectStep, KillStep
    DEF Settings!Step
  <1>3. CASE \E c \in Settings!Cards : Settings!Publish(c) \/ Settings!Spoil(c)
    BY <1>3, PublishStep, SpoilStep
  <1>4. CASE Settings!EditPolicy \/ Settings!Copy
    BY <1>4, EditPolicyStep, CopyStep
  <1>5. QED BY <1>1, <1>2, <1>3, <1>4 DEF Settings!Next

-----------------------------------------------------------------------------
LEMMA SettingsGoals ==
  SettingsInv => Settings!TypeOK /\ Settings!ConsentIsGiven /\ Settings!NoticesAreGiven
  <1> SUFFICES ASSUME SettingsInv PROVE Settings!TypeOK /\ Settings!ConsentIsGiven
    BY DEF SettingsInv
  <1>1. Proper(Present) /\ Settings!Consents(machine) = Settings!Consents(Present)
    BY ThereIsAMachine DEF SettingsInv, SettingsTyped, Present, Settings!Consents
  <1>2. Settings!TypeOK
    <2>1. holder \in Task \cup {Settings!Nobody}
      BY DEF SettingsInv, SettingsTyped
    <2>2. machine # Settings!NoMachine => Present = machine
      BY DEF Present, Settings!Seen
    <2>3. QED BY <1>1, <2>1, <2>2 DEF Settings!TypeOK, Proper
  <1>3. ASSUME NEW k \in Settings!Consents(machine) PROVE Present.cards[k.card].version \in k.range
    <2>1. /\ k \in [card : Settings!Closure(Present.roots), surface : Settings!Surfaces, range : Settings!Ranges]
          /\ Present.cards[k.card].consent[k.surface] = k.range
      BY <1>1, <1>3, ConsentsOf
    <2>2. k.range # {}
      BY <2>1 DEF Settings!Ranges
    <2>3. QED BY <1>1, <2>1, <2>2 DEF Proper
  <1>4. Settings!ConsentIsGiven
    BY <1>1, <1>3 DEF Settings!ConsentIsGiven, SettingsInv, Granted, Proper, Present
  <1>5. QED BY <1>2, <1>4

Commits(t) == Settings!Commit(t) \/ Settings!CommitConsent(t)

(* What a commit makes of what the command has read.                        *)
LEMMA CommitMakes ==
  ASSUME SettingsInv, NEW t \in Task, Commits(t)
  PROVE  LET m == kept[t].machine  c == asked[t] IN
         /\ at[t] = "commit" /\ at'[t] # "commit" /\ \A u \in Task \ {t} : at'[u] = at[u]
         /\ causes' = causes /\ spoilt' = spoilt
         /\ Unaltered(m) /\ (c.op = "trust" => Informed(m))
         /\ \/ machine' = machine
            \/ /\ Proper(machine') /\ machine'.policy = m.policy
               /\ c.op \notin {"apply", "init"} => m.roots \subseteq machine'.roots
               /\ c.op = "trust" /\ "edited" \notin causes =>
                    /\ Settings!Active(machine') = Settings!Active(m) /\ c.card \in Settings!Active(m)
                    /\ \A k \in Settings!Consents(machine') : k \in Settings!Consents(m) \/ k.card = c.card
  <1> DEFINE m == kept[t].machine  c == asked[t]  e == kept[t].target
  <1>1. at[t] = "commit" /\ c.op # "set" /\ UNCHANGED <<causes, spoilt>>
    BY DEF Commits, Settings!Commit, Settings!CommitConsent, Settings!Quiet, Settings!history
  <1>2. Ordered(t) /\ Carries(t)
    BY DEF SettingsInv
  <1>3. /\ c.op \in {"init", "apply", "use", "trust", "untrust"}
        /\ Proper(m) /\ Unaltered(m) /\ (c.op = "trust" => Informed(m))
        /\ c.op \in {"trust", "untrust"} => Sound(e) /\ Aimed(c, m, e)
    BY <1>1, <1>2 DEF Ordered, Carries
  <1>4. \/ Settings!End(t) \/ Settings!Goto(t, "load") \/ Settings!Goto(t, "scaffold")
    BY DEF Commits, Settings!Commit, Settings!CommitConsent
  <1>5. at'[t] # "commit" /\ \A u \in Task \ {t} : at'[u] = at[u]
    BY <1>4, Going DEF Settings!End, Stages, Preparing, Telling, Recording
  <1>6. CASE Settings!Commit(t)
    <2>1. c.op \in {"init", "apply", "use"}
      BY <1>3, <1>6 DEF Settings!Commit
    <2>2. CASE ~ Settings!Accepts(c, m)
      <3>1. machine' = machine
        BY <1>6, <2>2 DEF Settings!Commit
      <3>2. QED BY <1>1, <1>3, <1>5, <3>1
    <2>3. CASE Settings!Accepts(c, m)
      <3>1. machine' = Settings!Changed(c, m)
        BY <1>6, <2>3 DEF Settings!Commit
      <3>2. latest \in [Settings!Cards -> Settings!Version]
        BY DEF SettingsInv, SettingsTyped
      <3> HIDE DEF m, c
      <3>3. /\ Proper(machine') /\ machine'.policy = m.policy
            /\ c.op \notin {"apply", "init"} => m.roots \subseteq machine'.roots
        BY <1>3, <2>1, <2>3, <3>1, <3>2, MachineMade
      <3>4. QED BY <1>1, <1>3, <1>5, <2>1, <3>3 DEF m, c
    <2>4. QED BY <2>2, <2>3
  <1>7. CASE Settings!CommitConsent(t)
    <2>1. c.op \in {"trust", "untrust"} /\ machine' = Settings!Placed(m, c.card, e)
      BY <1>7 DEF Settings!CommitConsent
    <2> HIDE DEF m, c, e
    <2>2. /\ Proper(machine') /\ machine'.policy = m.policy /\ machine'.roots = m.roots
          /\ Settings!Active(machine') = Settings!Active(m)
          /\ \A k \in Settings!Consents(machine') : k.card # c.card => k \in Settings!Consents(m)
      BY <1>3, <2>1, PlacedIsProper
    <2>3. "edited" \notin causes => c.card \in Settings!Active(m)
      BY <1>3, <2>1, TargetsAreLocked DEF Aimed
    <2>4. QED BY <1>1, <1>3, <1>5, <2>2, <2>3 DEF m, c
  <1>8. QED BY <1>6, <1>7 DEF Commits

LEMMA MachineChanges ==
  ASSUME SettingsInv, [Settings!Next]_(Settings!vars), machine' # machine
  PROVE  \/ \E t \in Task : Commits(t) \/ Settings!Decline(t)
         \/ Settings!EditPolicy \/ Settings!Copy
  <1>1. ~ UNCHANGED Settings!vars
    BY DEF Settings!vars, Settings!files
  <1>2. ASSUME NEW t \in Task, Settings!Step(t) PROVE Commits(t) \/ Settings!Decline(t)
    BY <1>2 DEF Commits, Settings!Step, Settings!Start, Settings!Enter, Settings!Read, Settings!Verify,
       Settings!SetPreference, Settings!Check, Settings!Look, Settings!Answer, Settings!Scaffold, Settings!Open,
       Settings!Fill, Settings!Register, Settings!Preflight, Settings!Notice, Settings!Load, Settings!Save,
       Settings!Saved, Settings!Project, Settings!Kill, Settings!files
  <1>3. ~ \E c \in Settings!Cards : Settings!Publish(c) \/ Settings!Spoil(c)
    BY DEF Settings!Publish, Settings!Spoil
  <1>4. QED BY <1>1, <1>2, <1>3 DEF Settings!Next

LEMMA RootsStep ==
  ASSUME SettingsInv, [Settings!Next]_(Settings!vars)
  PROVE  /\ Settings!Seen(machine).roots \ Settings!Seen(machine').roots # {} =>
              \/ \E t \in Task : at[t] \in {"commit", "decline"} /\ at'[t] # at[t] /\ asked[t].op \in {"apply", "init"}
              \/ "edited" \in causes' \/ machine' \in Settings!Elsewhere
         /\ Settings!Seen(machine).policy # Settings!Seen(machine').policy =>
              acts' # acts \/ causes' \cap {"declined", "edited"} # {}
  <1>1. CASE machine' = machine
    BY <1>1
  <1>2. ASSUME NEW t \in Task, Commits(t), machine' # machine
        PROVE  /\ \/ Settings!Seen(machine).roots \subseteq Settings!Seen(machine').roots
                  \/ at[t] = "commit" /\ at'[t] # at[t] /\ asked[t].op \in {"apply", "init"}
                  \/ "edited" \in causes'
               /\ \/ Settings!Seen(machine).policy = Settings!Seen(machine').policy
                  \/ causes' \cap {"declined", "edited"} # {}
    <2> DEFINE m == kept[t].machine
    <2>1. /\ at[t] = "commit" /\ at'[t] # "commit" /\ causes' = causes /\ Unaltered(m)
          /\ Proper(machine') /\ machine'.policy = m.policy
          /\ asked[t].op \notin {"apply", "init"} => m.roots \subseteq machine'.roots
      BY <1>2, CommitMakes
    <2>2. Settings!Seen(machine') = machine'
      BY <2>1, ThereIsAMachine
    <2>3. Settings!EmptyMachine.roots = {}
      BY EmptyIsProper
    <2>4. QED BY <2>1, <2>2, <2>3 DEF Unaltered, Present
  <1>3. ASSUME NEW t \in Task, Settings!Decline(t)
        PROVE  /\ at[t] = "decline" /\ at'[t] # at[t] /\ asked[t].op = "init"
               /\ \/ Settings!Seen(machine).policy = Settings!Seen(machine').policy
                  \/ "declined" \in causes'
    <2>1. /\ at[t] = "decline" /\ Settings!Goto(t, "scaffold") /\ machine' = Settings!EmptyMachine
          /\ causes' = causes \cup IF machine = Settings!NoMachine THEN {} ELSE {"declined"}
      BY <1>3 DEF Settings!Decline
    <2>2. at'[t] = "scaffold"
      BY <2>1, Going DEF Stages, Preparing
    <2>3. asked[t].op = "init"
      BY <2>1 DEF SettingsInv, Ordered, Preparing
    <2>4. Settings!Seen(Settings!EmptyMachine) = Settings!Seen(Settings!NoMachine)
      BY EmptyIsProper, ThereIsAMachine
    <2>5. QED BY <2>1, <2>2, <2>3, <2>4
  <1>4. CASE Settings!EditPolicy
    <2>1. machine # Settings!NoMachine /\ machine' = [machine EXCEPT !.policy = 1 - machine.policy]
          /\ acts' = acts + 1
      BY <1>4 DEF Settings!EditPolicy, Settings!Act
    <2>2. SettingsInv'
      BY <1>4, EditPolicyStep
    <2>3. /\ Settings!Seen(machine) = machine /\ Proper(machine)
      BY <2>1 DEF SettingsInv, SettingsTyped, Present, Settings!Seen
    <2>4. machine'.roots = machine.roots /\ "roots" \in DOMAIN machine'
      BY <2>1, <2>3 DEF Proper
    <2>5. Settings!Seen(machine') = machine'
      <3>1. DOMAIN Settings!NoMachine = 1..0 /\ "roots" \notin 1..0
        BY DEF Settings!NoMachine
      <3>2. QED BY <2>4, <3>1 DEF Settings!Seen
    <2>6. acts' # acts
      BY <2>1 DEF SettingsInv, SettingsTyped
    <2>7. QED BY <2>3, <2>4, <2>5, <2>6
  <1>5. CASE Settings!Copy
    <2>1. machine' \in Settings!Elsewhere /\ acts' = acts + 1
      BY <1>5 DEF Settings!Copy, Settings!Act
    <2>2. acts' # acts
      BY <2>1 DEF SettingsInv, SettingsTyped
    <2>3. QED BY <2>1, <2>2
  <1>6. ASSUME NEW t \in Task, Commits(t) \/ Settings!Decline(t), machine' # machine
        PROVE  /\ \/ Settings!Seen(machine).roots \ Settings!Seen(machine').roots = {}
                  \/ at[t] \in {"commit", "decline"} /\ at'[t] # at[t] /\ asked[t].op \in {"apply", "init"}
                  \/ "edited" \in causes'
               /\ \/ Settings!Seen(machine).policy = Settings!Seen(machine').policy
                  \/ causes' \cap {"declined", "edited"} # {}
    <2>1. CASE Commits(t)
      BY <1>2, <1>6, <2>1
    <2>2. CASE Settings!Decline(t)
      BY <1>3, <2>2
    <2>3. QED BY <1>6, <2>1, <2>2
  <1>7. QED BY <1>1, <1>4, <1>5, <1>6, MachineChanges

LEMMA InformedStep ==
  ASSUME SettingsInv, [Settings!Next]_(Settings!vars),
         NEW k \in Settings!Consents(machine') \ Settings!Consents(machine),
         NEW t \in Task, at[t] = "commit", at'[t] # "commit", asked[t].op = "trust"
  PROVE  /\ k.card \in Settings!Active(machine') \/ causes' \cap {"edited", "declined"} # {}
         /\ spoilt \cap Settings!Active(machine') = {} \/ causes' \cap {"edited", "spoilt"} # {}
  <1> DEFINE m == kept[t].machine
  <1>1. machine' # machine
    OBVIOUS
  <1>2. ~ Settings!EditPolicy /\ ~ Settings!Copy
    BY DEF Settings!EditPolicy, Settings!Copy
  <1>3. \A u \in Task : ~ Settings!Decline(u)
    <2> SUFFICES ASSUME NEW u \in Task, Settings!Decline(u) PROVE FALSE
      OBVIOUS
    <2>1. at[u] = "decline" /\ \A v \in Task \ {u} : at'[v] = at[v]
      BY Going DEF Settings!Decline, Stages, Preparing
    <2>2. QED BY <2>1
  <1>4. Commits(t)
    <2>1. PICK u \in Task : Commits(u)
      BY <1>1, <1>2, <1>3, MachineChanges
    <2>2. \A v \in Task \ {u} : at'[v] = at[v]
      BY <2>1, CommitMakes
    <2>3. QED BY <2>1, <2>2
  <1>5. causes' = causes /\ Unaltered(m) /\ Informed(m)
    BY <1>1, <1>4, CommitMakes
  <1>6. CASE "edited" \in causes
    BY <1>5, <1>6
  <1>7. ASSUME "edited" \notin causes
        PROVE  /\ Settings!Active(machine') = Settings!Active(m) /\ asked[t].card \in Settings!Active(m)
               /\ \A z \in Settings!Consents(machine') : z \in Settings!Consents(m) \/ z.card = asked[t].card
    BY <1>1, <1>4, <1>7, CommitMakes
  <1>8. CASE "edited" \notin causes /\ k.card = asked[t].card
    BY <1>5, <1>7, <1>8 DEF Informed
  <1>9. CASE "edited" \notin causes /\ k \in Settings!Consents(m)
    <2>0. Settings!Seen(Present) = Settings!Seen(machine)
      BY ThereIsAMachine DEF SettingsInv, SettingsTyped, Present
    <2>1. Settings!Consents(Present) = Settings!Consents(machine)
      BY <2>0 DEF Settings!Consents
    <2>2. causes' \cap {"edited", "declined"} # {}
      BY <1>5, <1>9, <2>1 DEF Unaltered
    <2>3. QED BY <1>5, <1>7, <1>9, <2>2 DEF Informed
  <1>10. QED BY <1>6, <1>7, <1>8, <1>9

LEMMA NoticesStep ==
  ASSUME SettingsInv, [Settings!Next]_(Settings!vars), NEW sf \in Settings!Surfaces
  PROVE  acks[sf].keys \subseteq acks'[sf].keys \/ "overlap" \in causes'
  <1>1. CASE acks' = acks
    BY <1>1
  <1>2. ASSUME NEW t \in Task, Settings!Save(t) PROVE acks'[sf].keys = acks[sf].keys
    <2>1. acks' = [acks EXCEPT ![Settings!Current(t).surface].torn = TRUE]
      BY <1>2 DEF Settings!Save
    <2>2. QED BY <2>1 DEF SettingsInv, SettingsTyped
  <1>3. ASSUME NEW t \in Task, Settings!Saved(t) PROVE acks[sf].keys \subseteq acks'[sf].keys \/ "overlap" \in causes'
    <2> DEFINE k == Settings!Current(t)  entry == [keys |-> asked[t].store \cup {k}, torn |-> FALSE]
    <2>1. at[t] = "saved" /\ causes' = causes /\ acks' = [acks EXCEPT ![k.surface] = entry]
      BY <1>3 DEF Settings!Saved, Settings!history
    <2>2. "overlap" \notin causes => asked[t].store = acks[k.surface].keys
      BY <2>1, SettingsKnows DEF Undisturbed, Told
    <2>3. entry.keys = asked[t].store \cup {k}
      OBVIOUS
    <2> HIDE DEF k, entry
    <2>4. acks'[sf] = acks[sf] \/ (sf = k.surface /\ acks'[sf] = entry)
      BY <2>1 DEF SettingsInv, SettingsTyped
    <2>5. QED BY <2>1, <2>2, <2>3, <2>4
  <1>4. ASSUME acks' # acks PROVE \E t \in Task : Settings!Save(t) \/ Settings!Saved(t)
    <2>1. ~ UNCHANGED Settings!vars
      BY <1>4 DEF Settings!vars, Settings!files
    <2>2. ASSUME NEW t \in Task, Settings!Step(t) PROVE Settings!Save(t) \/ Settings!Saved(t)
      BY <1>4, <2>2 DEF Settings!Step, Settings!Start, Settings!Enter, Settings!Read, Settings!Verify,
         Settings!Commit, Settings!CommitConsent, Settings!SetPreference, Settings!Check, Settings!Look, Settings!Answer, Settings!Decline,
         Settings!Scaffold, Settings!Open, Settings!Fill, Settings!Register, Settings!Preflight, Settings!Notice,
         Settings!Load, Settings!Project, Settings!Kill, Settings!files, Settings!Others
    <2>3. ~ (\E c \in Settings!Cards : Settings!Publish(c) \/ Settings!Spoil(c)) /\ ~ Settings!EditPolicy /\ ~ Settings!Copy
      BY <1>4 DEF Settings!Publish, Settings!Spoil, Settings!EditPolicy, Settings!Copy, Settings!Others
    <2>4. QED BY <2>1, <2>2, <2>3 DEF Settings!Next
  <1>5. QED BY <1>1, <1>2, <1>3, <1>4

LEMMA PreferencesStep ==
  ASSUME SettingsInv, [Settings!Next]_(Settings!vars)
  PROVE  prefs \subseteq prefs' \/ \E t \in Task : at[t] = "commit" /\ asked[t].op = "set" /\ ~ asked[t].adds
  <1>1. ASSUME NEW t \in Task, Settings!SetPreference(t), asked[t].adds PROVE prefs \subseteq prefs'
    <2>1. at[t] = "commit" /\ asked[t].op = "set" /\ prefs' = kept[t].prefs \cup asked[t].value
      BY <1>1 DEF Settings!SetPreference
    <2>2. kept[t].prefs = prefs
      BY <2>1 DEF SettingsInv, Carries
    <2>3. QED BY <2>1, <2>2
  <1>2. ASSUME prefs' # prefs PROVE \E t \in Task : Settings!SetPreference(t)
    <2>1. ~ UNCHANGED Settings!vars
      BY <1>2 DEF Settings!vars, Settings!files
    <2>2. ASSUME NEW t \in Task, Settings!Step(t) PROVE Settings!SetPreference(t)
      BY <1>2, <2>2 DEF Settings!Step, Settings!Start, Settings!Enter, Settings!Read, Settings!Verify,
         Settings!Commit, Settings!CommitConsent, Settings!Check, Settings!Look, Settings!Answer, Settings!Decline,
         Settings!Scaffold, Settings!Open, Settings!Fill, Settings!Register, Settings!Preflight, Settings!Notice,
         Settings!Load, Settings!Save, Settings!Saved, Settings!Project, Settings!Kill, Settings!files,
         Settings!Others
    <2>3. ~ (\E c \in Settings!Cards : Settings!Publish(c) \/ Settings!Spoil(c)) /\ ~ Settings!EditPolicy /\ ~ Settings!Copy
      BY <1>2 DEF Settings!Publish, Settings!Spoil, Settings!EditPolicy, Settings!Copy, Settings!Others
    <2>4. QED BY <2>1, <2>2, <2>3 DEF Settings!Next
  <1>3. ASSUME NEW t \in Task, Settings!SetPreference(t) PROVE at[t] = "commit" /\ asked[t].op = "set"
    BY <1>3 DEF Settings!SetPreference
  <1>4. QED BY <1>1, <1>2, <1>3

LEMMA SparingStep ==
  ASSUME SettingsInv, [Settings!Next]_(Settings!vars)
  PROVE  project.config \notin {Settings!NoConfig, Settings!Torn} /\ project'.config # project.config =>
           \/ "overlap" \in causes
           \/ \E t \in Task : at[t] \in {"scaffold", "open"} /\ at'[t] # at[t] /\ asked[t].force
  <1> SUFFICES ASSUME project.config \notin {Settings!NoConfig, Settings!Torn}, project'.config # project.config,
                      "overlap" \notin causes
               PROVE  \E t \in Task : at[t] \in {"scaffold", "open"} /\ at'[t] # at[t] /\ asked[t].force
    OBVIOUS
  <1>0. project = [config |-> project.config, lock |-> project.lock, registered |-> project.registered]
    BY DEF SettingsInv, SettingsTyped
  <1>1. ASSUME NEW t \in Task, Settings!Scaffold(t) PROVE at[t] = "scaffold" /\ at'[t] # at[t] /\ asked[t].force
    <2>1. project' # project
      OBVIOUS
    <2>2. /\ at[t] = "scaffold" /\ Settings!Goto(t, "open")
          /\ project' = [project EXCEPT !.config = IF asked[t].force THEN Settings!NoConfig ELSE project.config]
      BY <1>1, <2>1 DEF Settings!Scaffold
    <2>3. at'[t] = "open"
      BY <2>2, Going DEF Stages, Preparing
    <2>4. QED BY <1>0, <2>2, <2>3
  <1>2. ASSUME NEW t \in Task PROVE ~ Settings!Open(t) /\ ~ Settings!Fill(t)
    BY SettingsKnows DEF Settings!Open, Settings!Fill, Undisturbed
  <1>3. ASSUME NEW t \in Task PROVE ~ Settings!Register(t)
    <2> SUFFICES ASSUME Settings!Register(t) PROVE FALSE
      OBVIOUS
    <2>1. project' = [project EXCEPT !.registered = TRUE]
      BY DEF Settings!Register
    <2>2. QED BY <1>0, <2>1
  <1>4. \E t \in Task : Settings!Scaffold(t)
    <2>1. ~ UNCHANGED Settings!vars
      BY DEF Settings!vars, Settings!files
    <2>2. ASSUME NEW t \in Task, Settings!Step(t) PROVE Settings!Scaffold(t)
      BY <1>2, <1>3, <2>2 DEF Settings!Step, Settings!Start, Settings!Enter, Settings!Read, Settings!Verify,
         Settings!Commit, Settings!CommitConsent, Settings!SetPreference, Settings!Check, Settings!Look, Settings!Answer, Settings!Decline,
         Settings!Preflight, Settings!Notice, Settings!Load, Settings!Save, Settings!Saved, Settings!Project,
         Settings!Kill, Settings!files, Settings!Others
    <2>3. ~ (\E c \in Settings!Cards : Settings!Publish(c) \/ Settings!Spoil(c)) /\ ~ Settings!EditPolicy /\ ~ Settings!Copy
      BY DEF Settings!Publish, Settings!Spoil, Settings!EditPolicy, Settings!Copy, Settings!Others
    <2>4. QED BY <2>1, <2>2, <2>3 DEF Settings!Next
  <1>5. QED BY <1>1, <1>4

-----------------------------------------------------------------------------
(* In the composition the settings are a part that the projection leaves    *)
(* alone.                                                                   *)
LEMMA SettingsAreAPart == MachineSpec => Settings!SettingsSpec
  <1>1. MachineInit => Settings!Init
    BY DEF MachineInit
  <1>2. [MachineNext]_all => [Settings!Next]_(Settings!vars)
    <2>1. UNCHANGED settings => UNCHANGED Settings!vars
      BY DEF settings, Settings!vars, Settings!files, Settings!history
    <2>2. QED BY <2>1 DEF MachineNext, all
  <1>3. QED BY <1>1, <1>2, PTL DEF MachineSpec, Settings!SettingsSpec

LEMMA SettingsInvariant == Settings!SettingsSpec => []SettingsInv
  <1>1. QED BY SettingsStart, SettingsStep, PTL DEF Settings!SettingsSpec

(* worker-machine.ts, machine-worker-init.ts, hook-consent-ack.ts,          *)
(* instruction-consent-ack.ts, user-preferences.ts, write.ts: for any       *)
(* commands, asked for in any order and by any number of tasks: every       *)
(* consent in machine.json is one that its user gave, to a card of the      *)
(* active Worker whose content verified; roots and policy go by choice; a   *)
(* consent from elsewhere has no effect before its user was told, and what  *)
(* was told stays recorded; no addition to the preferences is lost, and an  *)
(* init without force leaves a project as it is.                            *)
THEOREM SettingsStayHonest == MachineSpec => SettingsAreHonest
  <1>1. SettingsInv => Settings!TypeOK /\ Settings!ConsentIsGiven /\ Settings!NoticesAreGiven
    BY SettingsGoals
  <1>2. Settings!SettingsSpec => Settings!RootsLeaveByChoice
    <2>1. SettingsInv /\ [Settings!Next]_(Settings!vars) =>
            [/\ Settings!Seen(machine).roots \ Settings!Seen(machine').roots # {} =>
                  \/ \E t \in Task : at[t] \in {"commit", "decline"} /\ at'[t] # at[t] /\ asked[t].op \in {"apply", "init"}
                  \/ "edited" \in causes' \/ machine' \in Settings!Elsewhere
             /\ Settings!Seen(machine).policy # Settings!Seen(machine').policy =>
                  acts' # acts \/ causes' \cap {"declined", "edited"} # {}]_(Settings!vars)
      BY RootsStep
    <2>2. QED BY <2>1, SettingsInvariant, PTL DEF Settings!SettingsSpec, Settings!RootsLeaveByChoice
  <1>3. Settings!SettingsSpec => Settings!ConsentIsInformed
    <2>1. SettingsInv /\ [Settings!Next]_(Settings!vars) =>
            [\A k \in Settings!Consents(machine') \ Settings!Consents(machine) :
               (\E t \in Task : at[t] = "commit" /\ at'[t] # "commit" /\ asked[t].op = "trust") =>
                 /\ k.card \in Settings!Active(machine') \/ causes' \cap {"edited", "declined"} # {}
                 /\ spoilt \cap Settings!Active(machine') = {} \/ causes' \cap {"edited", "spoilt"} # {}]_(Settings!vars)
      BY InformedStep
    <2>2. QED BY <2>1, SettingsInvariant, PTL DEF Settings!SettingsSpec, Settings!ConsentIsInformed
  <1>4. Settings!SettingsSpec => Settings!NoticesAreKept
    <2>1. SettingsInv /\ [Settings!Next]_(Settings!vars) =>
            [\A kind \in Settings!Surfaces : acks[kind].keys \subseteq acks'[kind].keys \/ "overlap" \in causes']_(Settings!vars)
      BY NoticesStep
    <2>2. QED BY <2>1, SettingsInvariant, PTL DEF Settings!SettingsSpec, Settings!NoticesAreKept
  <1>5. Settings!SettingsSpec => Settings!PreferencesAreKept
    <2>1. SettingsInv /\ [Settings!Next]_(Settings!vars) =>
            [prefs \subseteq prefs' \/ \E t \in Task : at[t] = "commit" /\ asked[t].op = "set" /\ ~ asked[t].adds]_(Settings!vars)
      BY PreferencesStep
    <2>2. QED BY <2>1, SettingsInvariant, PTL DEF Settings!SettingsSpec, Settings!PreferencesAreKept
  <1>6. Settings!SettingsSpec => Settings!InitSparesProjects
    <2>1. SettingsInv /\ [Settings!Next]_(Settings!vars) =>
            [project.config \notin {Settings!NoConfig, Settings!Torn} /\ project'.config # project.config =>
               \/ "overlap" \in causes
               \/ \E t \in Task : at[t] \in {"scaffold", "open"} /\ at'[t] # at[t] /\ asked[t].force]_(Settings!vars)
      BY SparingStep
    <2>2. QED BY <2>1, SettingsInvariant, PTL DEF Settings!SettingsSpec, Settings!InitSparesProjects
  <1>7. QED
    BY <1>1, <1>2, <1>3, <1>4, <1>5, <1>6, SettingsAreAPart, SettingsInvariant, PTL
    DEF SettingsAreHonest, Settings!SettingsAreHonest
=============================================================================
