--------------------------- MODULE MCCommandBridge ---------------------------
(***************************************************************************)
(* A small instance of CommandBridge: one rule of each kind, and a command *)
(* for each way through the handler.                                       *)
(***************************************************************************)
EXTENDS CommandBridge

CONSTANTS ls, git, sh

Rule(program, pattern, args, risk, shell) ==
  [program |-> program, path |-> None, pattern |-> pattern, args |-> args,
   risk |-> risk, shell |-> shell]

ThreeRules == << Rule(git, {}, {1}, 1, FALSE),        \* above the threshold
                 Rule(None, {ls}, {1, 2}, 0, FALSE),
                 Rule(sh, {}, {1, 2}, 0, TRUE) >>

Plain(program) ==
  [syntax |-> TRUE, inside |-> TRUE, program |-> program, slash |-> FALSE,
   forbidden |-> FALSE, arg |-> 1, shell |-> FALSE, env |-> TRUE]

ThreeRequests ==
  { Plain(ls),                               \* runs
    [Plain(sh) EXCEPT !.shell = TRUE],       \* runs with consent
    [Plain(git) EXCEPT !.env = FALSE] }      \* is asked for, then refused
=============================================================================
