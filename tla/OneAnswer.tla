----------------------------- MODULE OneAnswer -----------------------------
(***************************************************************************)
(* What handling an event promises its sender.  Each try opens a run.  A   *)
(* run is closed, and closed anew as failed, only with an answer of its    *)
(* own: the sender was told something, or it is on record that nothing     *)
(* reached the sender.  When something fails, the answer is owed anew; a   *)
(* failure is never taken back, and the event is done only when its last   *)
(* run is over.                                                            *)
(***************************************************************************)
EXTENDS Sequences, Naturals

VARIABLES
  event,  \* "pending", "done" or "dead"
  status, \* status of each run of the event, in the order of the tries
  answer  \* of the last run: "owed", "told" or "noted"

vars == <<event, status, answer>>

Init ==
  /\ event = "pending"
  /\ status = <<>>
  /\ answer = "owed"

Open ==
  /\ event = "pending"
  /\ status' = Append(status, "running")
  /\ answer' = "owed"
  /\ UNCHANGED event

Answer(a) ==
  /\ event = "pending"
  /\ status # <<>>
  /\ answer' = a
  /\ UNCHANGED <<event, status>>

Fail ==
  /\ event = "pending"
  /\ answer' = "owed"
  /\ UNCHANGED <<event, status>>

Close(s) ==
  /\ event = "pending"
  /\ answer # "owed"
  /\ status[Len(status)] # "failed"
  /\ status' = [status EXCEPT ![Len(status)] = s]
  /\ answer' = "owed"
  /\ UNCHANGED event

Settle ==
  /\ event = "pending"
  /\ status # <<>>
  /\ status[Len(status)] # "running"
  /\ event' = "done"
  /\ UNCHANGED <<status, answer>>

GiveUp ==
  /\ event = "pending"
  /\ event' = "dead"
  /\ UNCHANGED <<status, answer>>

Next ==
  \/ Open \/ Fail \/ Settle \/ GiveUp
  \/ Answer("told") \/ Answer("noted")
  \/ Close("completed") \/ Close("failed")

Spec == Init /\ [][Next]_vars
=============================================================================
