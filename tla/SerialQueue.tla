----------------------------- MODULE SerialQueue -----------------------------
(***************************************************************************)
(* What the mailbox of an agent promises to those who hand it events: a    *)
(* queue that accepts a job once for as long as it remembers it, works on  *)
(* one job at a time in the order of acceptance, tries a job again until   *)
(* it succeeds or has used up its tries, and never takes an outcome back.  *)
(* There are no instances, leases, clocks or storage keys here:            *)
(* AgentMailbox implements this module.                                    *)
(***************************************************************************)
EXTENDS Naturals

CONSTANTS
  Jobs,     \* what can be handed in
  MaxTries  \* a job that failed this often is given up

VARIABLES
  phase,     \* where each job is
  ticket,    \* the place in the order of acceptance, 0 for an unknown job
  tries,     \* how often the job was started
  lastTicket \* the last ticket given out

queueVars == <<phase, ticket, tries, lastTicket>>

Phase == {"unknown", "waiting", "active", "done", "dead"}

Over(j) == phase[j] \in {"done", "dead"}

Init ==
  /\ phase = [j \in Jobs |-> "unknown"]
  /\ ticket = [j \in Jobs |-> 0]
  /\ tries = [j \in Jobs |-> 0]
  /\ lastTicket = 0

\* A job is accepted only when it is not remembered.
Accept(j) ==
  /\ phase[j] = "unknown"
  /\ phase' = [phase EXCEPT ![j] = "waiting"]
  /\ lastTicket' = lastTicket + 1
  /\ ticket' = [ticket EXCEPT ![j] = lastTicket + 1]
  /\ UNCHANGED tries

\* Work starts on the oldest waiting job, when no job is active.
Start(j) ==
  /\ phase[j] = "waiting"
  /\ \A k \in Jobs : phase[k] # "active"
  /\ \A k \in Jobs : phase[k] = "waiting" => ticket[j] <= ticket[k]
  /\ phase' = [phase EXCEPT ![j] = "active"]
  /\ tries' = [tries EXCEPT ![j] = @ + 1]
  /\ UNCHANGED <<ticket, lastTicket>>

Finish(j) ==
  /\ phase[j] = "active"
  /\ phase' = [phase EXCEPT ![j] = "done"]
  /\ UNCHANGED <<ticket, tries, lastTicket>>

\* A job that has tries left keeps its place.
Retry(j) ==
  /\ phase[j] = "active"
  /\ tries[j] < MaxTries
  /\ phase' = [phase EXCEPT ![j] = "waiting"]
  /\ UNCHANGED <<ticket, tries, lastTicket>>

GiveUp(j) ==
  /\ phase[j] = "active"
  /\ tries[j] >= MaxTries
  /\ phase' = [phase EXCEPT ![j] = "dead"]
  /\ UNCHANGED <<ticket, tries, lastTicket>>

\* Jobs that are over may be forgotten, several at once.
Forget(S) ==
  /\ \A j \in S : Over(j)
  /\ phase' = [j \in Jobs |-> IF j \in S THEN "unknown" ELSE phase[j]]
  /\ ticket' = [j \in Jobs |-> IF j \in S THEN 0 ELSE ticket[j]]
  /\ tries' = [j \in Jobs |-> IF j \in S THEN 0 ELSE tries[j]]
  /\ UNCHANGED lastTicket

Next ==
  \/ \E j \in Jobs : Accept(j) \/ Start(j) \/ Finish(j) \/ Retry(j) \/ GiveUp(j)
  \/ \E S \in SUBSET Jobs : Forget(S)

Spec == Init /\ [][Next]_queueVars
=============================================================================
