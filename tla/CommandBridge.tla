---------------------------- MODULE CommandBridge ----------------------------
(***************************************************************************)
(* The MCP server of drwn-command-bridge, which runs commands of the host  *)
(* for a client: policy (policy/engine.ts), consent (consent/*.ts), audit  *)
(* log (audit/log.ts), child process (exec/executor.ts) and the handler    *)
(* that calls them in turn (server.ts).                                    *)
(*                                                                         *)
(* The client may have several calls under way: the SDK does not wait for  *)
(* one handler before it starts the next.  A step is what happens between  *)
(* two awaits.  An append to the log reads the whole log and then adds one *)
(* line.  The server may die, a write may fail half way, and a child may   *)
(* end by itself, end when it is told to, or do neither.                   *)
(***************************************************************************)
EXTENDS Naturals, Sequences

CONSTANTS
  Slot,        \* calls in progress
  Request,     \* the commands that are asked for
  Allow,       \* the allow rules of the policy, in order
  Threshold,   \* consent_required_above
  Available,   \* the sandbox adapter can enforce what the policy requires
  None,        \* an absent field; no record
  Torn,        \* a line of the log that does not parse
  MaxCalls,    \* bound: calls in one behaviour
  MaxFaults    \* bound: deaths of the server and failed writes

Child == {"short", "long", "stubborn"}   \* ends by itself, on SIGTERM, or neither
Denials == {"invalid_command_syntax", "path_denied", "policy_denied", "consent_denied",
            "sandbox_unavailable"}
Outcomes == Denials \cup {"spawn_error", "timed_out", "completed"}
Steps == {"idle", "attempt", "log attempt", "check", "consent", "spawn", "run",
          "outcome", "log outcome"}

(* A line of the log; a record's hash covers all of it: type and id stand   *)
(* for it.                                                                  *)
Types == {"attempt", "outcome"}
Line == [type : Types, id : 0..MaxCalls, how : Outcomes \cup {"none"},
         seq : Nat, prev : (Types \X (0..MaxCalls)) \cup {None}]

ASSUME BridgeAssumption ==
  /\ {None, Torn} \cap Line = {} /\ None # Torn
  /\ Threshold \in 0..2 /\ Available \in BOOLEAN
  /\ MaxCalls \in Nat /\ MaxFaults \in Nat

VARIABLES
  up,         \* the server runs
  log,        \* audit.jsonl
  pc, call,   \* where each call is, and what it keeps in memory
  answer,     \* what the client was told of each call
  calls,      \* bounded counter: calls so far, the last audit id
  faults,     \* bounded counter
  overlapped  \* history: an append began while another was under way

vars == <<up, log, pc, call, answer, calls, faults, overlapped>>

NoCall == [id |-> 0, req |-> None, last |-> None, how |-> "none",
           child |-> "none", late |-> FALSE, approved |-> FALSE]

Init ==
  /\ up = TRUE /\ log = <<>>
  /\ pc = [c \in Slot |-> "idle"]
  /\ call = [c \in Slot |-> NoCall]
  /\ answer = [c \in Slot |-> "none"]
  /\ calls = 0 /\ faults = 0 /\ overlapped = FALSE

At(c, step) == up /\ pc[c] = step
Goto(c, step) == pc' = [pc EXCEPT ![c] = step]
Keep(c, field, value) == call' = [call EXCEPT ![c][field] = value]
Answer(c, text) == answer' = [answer EXCEPT ![c] = text]

(* An error result, or the rejection that the SDK turns into one.           *)
Throw(c) == Goto(c, "idle") /\ Answer(c, "error")

(* handleExecute begins: the command is parsed, the audit id drawn.         *)
Begin(c) ==
  /\ At(c, "idle") /\ calls < MaxCalls
  /\ calls' = calls + 1
  /\ \E r \in Request :
       call' = [call EXCEPT ![c] = [NoCall EXCEPT !.id = calls + 1, !.req = r]]
  /\ Answer(c, "none")
  /\ Goto(c, "attempt")
  /\ UNCHANGED <<up, log, faults, overlapped>>

(* decide(): what a rule says of a command.                                 *)
NamesProgram(rule, r) ==
  IF rule.path # None THEN r.program = rule.path ELSE r.program = rule.program
Applies(rule, r) ==
  IF r.shell THEN rule.shell /\ NamesProgram(rule, r)
  ELSE IF r.slash THEN rule.path = r.program
  ELSE IF rule.pattern # {} THEN r.program \in rule.pattern
  ELSE rule.program # None /\ NamesProgram(rule, r)

Matching(r) == {i \in DOMAIN Allow : Applies(Allow[i], r)}
FirstRule(r) == Allow[CHOOSE i \in Matching(r) : \A j \in Matching(r) : i <= j]

Decide(r) ==
  IF r.forbidden \/ Matching(r) = {} THEN "deny"
  ELSE IF r.shell THEN "consent"
  ELSE IF ~ r.slash /\ r.arg \notin FirstRule(r).args THEN "deny"
  ELSE IF FirstRule(r).risk > Threshold THEN "consent" ELSE "auto"

Hash(e) == <<e.type, e.id>>
Readable == \A i \in DOMAIN log : log[i] # Torn
LastRecord == IF log = <<>> THEN None ELSE log[Len(log)]
NewRecord(c, type) ==
  LET last == call[c].last IN
  [type |-> type, id |-> call[c].id, how |-> call[c].how,
   seq |-> IF last = None THEN 1 ELSE last.seq + 1,
   prev |-> IF last = None THEN None ELSE Hash(last)]
Appending(c) == pc[c] \in {"log attempt", "log outcome"}

(* append(): readRecords throws on a line that does not parse.              *)
ReadLog(c, step, next) ==
  /\ At(c, step)
  /\ IF Readable
     THEN Keep(c, "last", LastRecord) /\ Goto(c, next) /\ UNCHANGED answer
     ELSE Throw(c) /\ UNCHANGED call
  /\ overlapped' = (overlapped \/ \E d \in Slot \ {c} : Appending(d))
  /\ UNCHANGED <<up, log, calls, faults>>

(* appendFile: after a torn line the record becomes a part of that line.    *)
Extended(c, type) == IF Readable THEN Append(log, NewRecord(c, type)) ELSE log

(* Mutant: the handler goes on without waiting for the attempt's record.    *)
NotYet(c, type) == IF type = "attempt" THEN log ELSE Extended(c, type)
Written(c, type) == Extended(c, type)

BeginAttempt(c) == ReadLog(c, "attempt", "log attempt")

LogAttempt(c) ==
  /\ At(c, "log attempt")
  /\ log' = Written(c, "attempt")
  /\ Keep(c, "last", None)
  /\ Goto(c, "check")
  /\ UNCHANGED <<up, answer, calls, faults, overlapped>>

FinishAudit(c) == ReadLog(c, "outcome", "log outcome")

(* The answer follows the outcome's record.                                 *)
LogOutcome(c) ==
  /\ At(c, "log outcome")
  /\ log' = Written(c, "outcome")
  /\ Keep(c, "last", None)
  /\ Goto(c, "idle")
  /\ Answer(c, call[c].how)
  /\ UNCHANGED <<up, calls, faults, overlapped>>

Finish(c, how) == Keep(c, "how", how) /\ Goto(c, "outcome")

(* Syntax, paths and policy, in this order.                                 *)
Check(c) ==
  /\ At(c, "check")
  /\ LET r == call[c].req IN
       IF ~ r.syntax THEN Finish(c, "invalid_command_syntax")
       ELSE IF ~ r.inside THEN Finish(c, "path_denied")
       ELSE IF Decide(r) = "deny" THEN Finish(c, "policy_denied")
       ELSE /\ Goto(c, IF Decide(r) = "consent" \/ r.shell THEN "consent" ELSE "spawn")
            /\ UNCHANGED call
  /\ UNCHANGED <<up, log, answer, calls, faults, overlapped>>

(* The dialog: a refusal, its time limit and a missing dialog are the same. *)
Consent(c) ==
  /\ At(c, "consent")
  /\ \/ Keep(c, "approved", TRUE) /\ Goto(c, "spawn")
     \/ Finish(c, "consent_denied")
  /\ UNCHANGED <<up, log, answer, calls, faults, overlapped>>

(* buildEnv, the sandbox, and runCommand.                                   *)
Spawn(c) ==
  /\ At(c, "spawn")
  /\ IF ~ call[c].req.env THEN Finish(c, "policy_denied")
     ELSE IF ~ Available THEN Finish(c, "sandbox_unavailable")
     ELSE \/ Finish(c, "spawn_error")
          \/ \E k \in Child : Keep(c, "child", k) /\ Goto(c, "run")
  /\ UNCHANGED <<up, log, answer, calls, faults, overlapped>>

(* A spawn that throws at once, of a word with a null byte say: the handler *)
(* rejects, and the attempt stays in the log without an outcome.            *)
SpawnThrows(c) ==
  /\ At(c, "spawn") /\ call[c].req.env /\ Available
  /\ Throw(c)
  /\ UNCHANGED <<up, log, call, calls, faults, overlapped>>

(* The timer of the call: the child is told to end, once.                   *)
Timeout(c) ==
  /\ At(c, "run") /\ ~ call[c].late
  /\ Keep(c, "late", TRUE)
  /\ UNCHANGED <<up, log, pc, answer, calls, faults, overlapped>>

(* Mutant: the timer sends no signal.                                       *)
EndsAlone(c) == call[c].child = "short"

Ends(c) ==
  \/ call[c].child = "short"
  \/ call[c].child = "long" /\ call[c].late

(* Mutant: a child that was told to end counts as complete.                 *)
AlwaysComplete(c) == "completed"
Result(c) == IF call[c].late THEN "timed_out" ELSE "completed"

(* The event close: the child is gone and nobody holds its pipes.           *)
Close(c) ==
  /\ At(c, "run") /\ Ends(c)
  /\ Finish(c, Result(c))
  /\ UNCHANGED <<up, log, answer, calls, faults, overlapped>>

(* An append that fails, with nothing or a part of its line on disk.        *)
AppendFails(c) ==
  /\ up /\ Appending(c) /\ faults < MaxFaults
  /\ faults' = faults + 1
  /\ log' \in {log, IF Readable THEN Append(log, Torn) ELSE log}
  /\ Throw(c)
  /\ UNCHANGED <<up, call, calls, overlapped>>

(* The server dies, maybe in the middle of a line.                          *)
Die ==
  /\ up /\ faults < MaxFaults
  /\ faults' = faults + 1 /\ up' = FALSE
  /\ pc' = [c \in Slot |-> "idle"]
  /\ call' = [c \in Slot |-> IF pc[c] = "idle" THEN call[c] ELSE NoCall]
  /\ answer' = [c \in Slot |-> IF pc[c] = "idle" THEN answer[c] ELSE "lost"]
  /\ log' \in {log} \cup
       (IF Readable /\ \E c \in Slot : Appending(c) THEN {Append(log, Torn)} ELSE {})
  /\ UNCHANGED <<calls, overlapped>>

Restart ==
  /\ ~ up /\ up' = TRUE
  /\ UNCHANGED <<log, pc, call, answer, calls, faults, overlapped>>

Step(c) ==
  \/ BeginAttempt(c) \/ LogAttempt(c) \/ Check(c) \/ Consent(c) \/ Spawn(c) \/ SpawnThrows(c)
  \/ Timeout(c) \/ Close(c) \/ FinishAudit(c) \/ LogOutcome(c)

Next ==
  \/ \E c \in Slot : Begin(c) \/ Step(c) \/ AppendFails(c)
  \/ Die \/ Restart

Spec == Init /\ [][Next]_vars

(* The event loop, timers and dialogs of a live server go on.               *)
Progress == \A c \in Slot : WF_vars(Step(c))
FairSpec == Spec /\ Progress
-----------------------------------------------------------------------------
Records == {log[i] : i \in {j \in DOMAIN log : log[j] # Torn}}
Logged(type, id, how) ==
  \/ ~ Readable
  \/ \E e \in Records : e.type = type /\ e.id = id /\ e.how = how
Started(c) == call[c].child # "none"

TypeOK ==
  /\ {up, overlapped} \subseteq BOOLEAN
  /\ calls \in 0..MaxCalls /\ faults \in 0..MaxFaults
  /\ log \in Seq(Line \cup {Torn})
  /\ \A c \in Slot :
       /\ pc[c] \in Steps
       /\ call[c].id \in 0..MaxCalls /\ call[c].req \in Request \cup {None}
       /\ call[c].child \in Child \cup {"none"}
       /\ answer[c] \in Outcomes \cup {"none", "error", "lost"}

(* verifyAuditLog: sequence numbers count up, each hash is of the record    *)
(* before.                                                                  *)
Verifies(i) ==
  /\ log[i] # Torn /\ log[i].seq = i
  /\ log[i].prev = IF i = 1 THEN None ELSE Hash(log[i - 1])

(* As long as no append begins within another, each line of the log         *)
(* verifies, but for a last one that a death or a full disk left torn.      *)
ChainBreaksOnlyByOverlap ==
  overlapped \/ \A i \in DOMAIN log : Verifies(i) \/ (log[i] = Torn /\ i = Len(log))

(* Nothing runs that the log does not announce, or that wanted a consent    *)
(* that nobody gave; what the client is told is what the log says.          *)
NothingRunsUnannounced ==
  \A c \in Slot :
    /\ Started(c) => Logged("attempt", call[c].id, "none")
    /\ Started(c) =>
         LET r == call[c].req IN
         /\ \E i \in DOMAIN Allow : Applies(Allow[i], r)
         /\ r.shell \/ Decide(r) = "consent" => call[c].approved
    /\ answer[c] \in Outcomes =>
         Logged("outcome", call[c].id, answer[c])
    /\ answer[c] = "completed" => call[c].child = "short" /\ ~ call[c].late
    /\ answer[c] \in Denials => ~ Started(c)

CommandsAreAudited == TypeOK /\ ChainBreaksOnlyByOverlap /\ NothingRunsUnannounced

(* Every call is answered, unless the server dies or its child neither ends *)
(* nor lets go of its pipes when it is told to.                             *)
CallsAreAnswered ==
  \A c \in Slot :
    pc[c] = "attempt" ~> pc[c] = "idle" \/ call[c].child = "stubborn"

(* drwn-command-bridge/README.md:35: "Each JSONL record is hash chained":   *)
(* the log of a server that nobody disturbs verifies.  The code breaks it:  *)
(* of two calls at once both append after the record that both have read.   *)
AuditChainIsWhole == \A i \in DOMAIN log : Verifies(i)
=============================================================================
