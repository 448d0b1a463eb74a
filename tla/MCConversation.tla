--------------------------- MODULE MCConversation ----------------------------
(* TLC instance of AgentTurn: two providers with a model each, an actor with two subjects. *)
EXTENDS AgentTurn, TLC

MCProviderOf == [m \in Models |-> IF m = "m1" THEN "p1" ELSE "p2"]

Give(level, scopes) == [level |-> level, scopes |-> scopes]

MCSubjects == <<"user", "platform">>
MCBaseline == Give(1, {})
MCGrants   == {Give(2, {}), Give(1, {"send"})}
MCNeeded   == Give(2, {"send"})

Symmetry == Permutations(Admins) \cup Permutations(PolicyAdmins)

\* Either administrators are at work on the models and the conversation is short, or it
\* is long and its model is the default, or policies change while the first run decides
\* on a call of its model.
Bounded ==
  /\ made > 0 => routes = 0 /\ count + made <= 3
  /\ made = 0 => settings.columns.summaryModel = None
  /\ count > 3 => settings.columns.model = None /\ run.asked = None
  /\ policyAsks > 0 \/ call # NoCall =>
       /\ count = 1 /\ made = 0 /\ routes = 0 /\ faults = 0 /\ run.at = "call"
       /\ run.asked = None /\ selected["default"] = None
=============================================================================
