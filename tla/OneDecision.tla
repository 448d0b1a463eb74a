---------------------------- MODULE OneDecision -----------------------------
(***************************************************************************)
(* What a confirmation promises.  An action that needs confirmation is     *)
(* asked for, then approved or refused, once and for good.  Only an        *)
(* approved action runs, and it runs at most once.                         *)
(***************************************************************************)
EXTENDS Naturals

CONSTANT Actions \* the tool calls that need confirmation

VARIABLES
  decision, \* what is decided about each action
  runs      \* how often the tool of each action was run

vars == <<decision, runs>>

Init ==
  /\ decision = [a \in Actions |-> "none"]
  /\ runs = [a \in Actions |-> 0]

Decide(a, from, to) ==
  /\ decision[a] = from
  /\ decision' = [decision EXCEPT ![a] = to]
  /\ UNCHANGED runs

Ask(a) == Decide(a, "none", "open")
Approve(a) == Decide(a, "open", "approved")
Refuse(a) == Decide(a, "open", "refused")
Finish(a) == Decide(a, "approved", "done")

Run(a) ==
  /\ decision[a] = "approved"
  /\ runs[a] = 0
  /\ runs' = [runs EXCEPT ![a] = 1]
  /\ UNCHANGED decision

Next == \E a \in Actions : Ask(a) \/ Approve(a) \/ Refuse(a) \/ Run(a) \/ Finish(a)

Spec == Init /\ [][Next]_vars
=============================================================================
