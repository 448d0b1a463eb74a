---------------------------- MODULE ModelSettings ----------------------------
(***************************************************************************)
(* What administrators decide about models: the providers, the catalog of  *)
(* their models, and the models selected for one agent                     *)
(* (src/worker/routes/admin-model-settings.ts,                             *)
(* admin-model-role-settings.ts and the repositories they use), and how a  *)
(* model is chosen from that (src/core/model/provider-config.ts and        *)
(* capabilities.ts).                                                       *)
(*                                                                         *)
(* Every request runs in a Worker of its own: a step is one statement of   *)
(* D1.  A model stands for its provider's id and its own.  Credentials,    *)
(* addresses, metadata and the role "vision" are left out.                 *)
(***************************************************************************)
EXTENDS Naturals, Sequences, FiniteSetsExt

CONSTANTS
  None,        \* no model
  Env,         \* the model of the environment's variables
  Providers,
  Models,
  ProviderOf,  \* the provider of each model
  Admins,      \* administrators' requests that may be under way at one time
  MaxRequests, \* bound of the model: administrators' requests
  MaxFaults    \* bound of the model: rejected awaits and lost Workers

ASSUME ModelConstants ==
  /\ ProviderOf \in [Models -> Providers]
  /\ None \notin Models /\ Env \notin Models \cup {None}
  /\ {MaxRequests, MaxFaults} \subseteq Nat

VARIABLES
  providers, \* model_providers.status
  catalog,   \* model_catalog.status
  selected,  \* model_settings, and agent_model_role_settings of the role "summary"
  requests,  \* administrators' requests under way
  made,      \* requests so far
  faults,    \* faults so far
  chosen,    \* the status an administrator last gave each model (history)
  unsure     \* models whose status a refresh may have changed (history)

modelVars == <<providers, catalog, selected, requests, chosen, unsure>>

Status  == {"available", "enabled", "disabled", "unavailable"}
Roles   == {"default", "summary"}
Request == [at : {"idle", "mark", "upsert", "select"}, of : Providers \cup Models \cup {None},
            role : Roles, seen : [Models -> Status], left : SUBSET Models]

Idle == [at |-> "idle", of |-> None, role |-> "default",
         seen |-> [m \in Models |-> "available"], left |-> {}]

ModelTypeOK ==
  /\ providers \in [Providers -> {"active", "deleted"}]
  /\ catalog \in [Models -> Status]
  /\ selected \in [Roles -> Models \cup {None}]
  /\ requests \in [Admins -> Request]
  /\ made \in 0 .. MaxRequests /\ faults \in 0 .. MaxFaults
  /\ chosen \in [Models -> Status]
  /\ unsure \subseteq Models

\* Providers are configured, their models enabled, and some of them selected.
ModelInit ==
  /\ providers = [p \in Providers |-> "active"]
  /\ catalog = [m \in Models |-> "enabled"]
  /\ \E m \in Models \cup {None} : selected = [default |-> m, summary |-> None]
  /\ requests = [a \in Admins |-> Idle]
  /\ made = 0 /\ faults = 0
  /\ chosen = catalog
  /\ unsure = {}

-----------------------------------------------------------------------------
\* How a model is chosen.

Active(m) == providers[ProviderOf[m]] = "active"

\* The first of these selections, or the model of the environment if there are none.
FirstOf(selections, those) == IF those = {} THEN Env ELSE selections[Min(those)]

Named(selections)  == {i \in DOMAIN selections : selections[i] # None}
Usable(selections) == {i \in Named(selections) : Active(selections[i])}

\* Mutant: the model that the message names is not handed on.
DropsMessageModel(selections) == FirstOf(selections, Usable(selections) \ {1})

\* resolveModelConfig: the first selection whose provider is active.
Resolved(selections) == FirstOf(selections, Usable(selections))

\* resolveActiveModelCapabilities: the first selection.
Checked(selections) == FirstOf(selections, Named(selections))

\* "Selected model is not enabled".
Refused(m) == m # Env /\ catalog[m] # "enabled"

-----------------------------------------------------------------------------
\* Administrators' requests.

ModelsOf(p)      == {m \in Models : ProviderOf[m] = p}
Refreshing(p)    == {a \in Admins : requests[a].at \in {"mark", "upsert"} /\ requests[a].of = p}

\* Mutant: only enabled models are kept.
ForgetsDisabled(status) == IF status = "enabled" THEN status ELSE "available"

\* A status that an administrator gave is kept, anything else becomes "available".
RefreshedStatus(status) == IF status \in {"enabled", "disabled"} THEN status ELSE "available"

\* What a refresh of the provider has read: the statuses of its models.
Seen(p) == [m \in Models |-> IF ProviderOf[m] = p THEN catalog[m] ELSE "available"]

Ask ==
  /\ made < MaxRequests
  /\ made' = made + 1
  /\ UNCHANGED faults

\* The provider's list has arrived and the statuses of its models are read.
Refresh(a, p) ==
  /\ requests[a] = Idle
  /\ providers[p] = "active"
  /\ Ask
  /\ \E listed \in SUBSET ModelsOf(p) :
       /\ requests' = [requests EXCEPT ![a] = [Idle EXCEPT !.at = "mark", !.of = p,
                                                           !.seen = Seen(p), !.left = listed]]
       /\ unsure' = unsure \cup (IF Refreshing(p) = {} THEN ModelsOf(p) \ listed ELSE ModelsOf(p))
  /\ UNCHANGED <<providers, catalog, selected, chosen>>

\* Every model of the provider becomes unavailable until the list says otherwise.
MarkUnavailable(a) ==
  LET r == requests[a] IN
  /\ r.at = "mark"
  /\ catalog' = [m \in Models |-> IF ProviderOf[m] = r.of THEN "unavailable" ELSE catalog[m]]
  /\ requests' = [requests EXCEPT ![a] = IF r.left = {} THEN Idle ELSE [r EXCEPT !.at = "upsert"]]
  /\ UNCHANGED <<providers, selected, chosen, unsure, made, faults>>

UpsertModel(a) ==
  LET r == requests[a] IN
  /\ r.at = "upsert"
  /\ \E m \in r.left :
       /\ catalog' = [catalog EXCEPT ![m] = RefreshedStatus(r.seen[m])]
       /\ requests' = [requests EXCEPT ![a] = IF r.left = {m} THEN Idle
                                              ELSE [r EXCEPT !.left = @ \ {m}]]
  /\ UNCHANGED <<providers, selected, chosen, unsure, made, faults>>

\* A statement is rejected, or the Worker is lost.
RefreshFails(a) ==
  LET r == requests[a] IN
  /\ r.at \in {"mark", "upsert"}
  /\ faults < MaxFaults
  /\ faults' = faults + 1
  /\ requests' = [requests EXCEPT ![a] = Idle]
  /\ unsure' = IF r.at = "upsert" THEN unsure \cup r.left ELSE unsure
  /\ UNCHANGED <<providers, catalog, selected, chosen, made>>

\* updateModelCatalogStatus leaves models alone that their provider does not list.
SetStatus(m, status) ==
  /\ Ask
  /\ IF catalog[m] = "unavailable"
       THEN UNCHANGED <<catalog, chosen, unsure>>
       ELSE /\ catalog' = [catalog EXCEPT ![m] = status]
            /\ chosen' = [chosen EXCEPT ![m] = status]
            /\ unsure' = IF Refreshing(ProviderOf[m]) = {} THEN unsure \ {m} ELSE unsure \cup {m}
  /\ UNCHANGED <<providers, selected, requests>>

\* A model is selected for a role: it has to be enabled.
CheckSelection(a, role, m) ==
  /\ requests[a] = Idle
  /\ Ask
  /\ requests' = [requests EXCEPT ![a] = IF Refused(m) THEN Idle
                                         ELSE [Idle EXCEPT !.at = "select", !.of = m, !.role = role]]
  /\ UNCHANGED <<providers, catalog, selected, chosen, unsure>>

StoreSelection(a) ==
  LET r == requests[a] IN
  /\ r.at = "select"
  /\ selected' = [selected EXCEPT ![r.role] = r.of]
  /\ requests' = [requests EXCEPT ![a] = Idle]
  /\ UNCHANGED <<providers, catalog, chosen, unsure, made, faults>>

\* Only the default cannot be cleared.
ClearSummaryRole ==
  /\ Ask
  /\ selected' = [selected EXCEPT !["summary"] = None]
  /\ UNCHANGED <<providers, catalog, requests, chosen, unsure>>

\* The rows of the provider's models stay.
DeleteProvider(p) ==
  /\ Ask
  /\ providers' = [providers EXCEPT ![p] = "deleted"]
  /\ UNCHANGED <<catalog, selected, requests, chosen, unsure>>

ModelStep ==
  \/ \E a \in Admins :
       \/ \E p \in Providers : Refresh(a, p)
       \/ MarkUnavailable(a) \/ UpsertModel(a) \/ RefreshFails(a)
       \/ \E role \in Roles, m \in Models : CheckSelection(a, role, m)
       \/ StoreSelection(a)
  \/ \E m \in Models, status \in {"available", "enabled", "disabled"} : SetStatus(m, status)
  \/ ClearSummaryRole
  \/ \E p \in Providers : DeleteProvider(p)

-----------------------------------------------------------------------------
\* A refresh keeps what administrators decided: a model has the status it was given last,
\* or a refresh is about to give it back.  Choices are lost, and left out here, where two
\* refreshes of a provider overlap, one fails half way, the provider does not list the
\* model, or the choice was made while a refresh was under way.
ChoicesAreKept ==
  \A m \in Models \ unsure :
    \/ catalog[m] = chosen[m]
    \/ \E a \in Admins : requests[a].at = "upsert" /\ m \in requests[a].left
=============================================================================
