----------------------------- MODULE Permissions -----------------------------
(***************************************************************************)
(* The policies that give the actor of a tool call more rights than its    *)
(* role does (src/storage/repositories/permission-policies-repository.ts   *)
(* with the administrators' routes), and the decision on a call            *)
(* (src/permissions/policy-resolver.ts, src/tools/permissions/policy.ts),  *)
(* which is taken again when a call that waited is confirmed.              *)
(*                                                                         *)
(* A step is one statement of D1.  A subject stands for the agent, the     *)
(* subject's type and its id, on which active rows are unique              *)
(* (idx_permission_policies_unique_active_subject).                        *)
(***************************************************************************)
EXTENDS Integers, Sequences, FiniteSetsExt

CONSTANTS
  NoPolicy,          \* no policy
  Subjects,          \* subjects of the actor, in the order of buildSubjects
  Baseline,          \* rights of the actor's role
  Grants,            \* rights a policy may give
  Needed,            \* rights the tool requires
  PolicyAdmins,      \* administrators' requests that may be under way at one time
  MaxPolicyRequests  \* bound of the model: administrators' requests

SubjectSet == {Subjects[i] : i \in DOMAIN Subjects}

PolicyIds == 1 .. MaxPolicyRequests
Rights    == [level : 0 .. 5, scopes : SUBSET STRING]
Policy    == [subject : SubjectSet, rights : Grants]

ASSUME PermissionConstants ==
  /\ MaxPolicyRequests \in Nat
  /\ Subjects \in Seq(SubjectSet)
  /\ Grants \cup {Baseline, Needed} \subseteq Rights
  /\ NoPolicy \notin Grants /\ NoPolicy \notin SubjectSet
  /\ NoPolicy \notin PolicyIds /\ NoPolicy \notin Policy

VARIABLES
  policies,       \* permission_policies: subject and rights by id
  created,        \* ids given so far
  policyRequests, \* administrators' requests under way
  policyAsks,     \* administrators' requests so far
  call,           \* a tool call and the decision on it
  granted,        \* the rights each subject was last given (history)
  tangled         \* subjects of requests that were at work on one subject or row at once, or
                  \* that failed (history)

permissionTables == <<policies, created>>
permissionVars   == <<permissionTables, policyRequests, policyAsks, call, granted, tangled>>

PolicyRequest ==
  [at : {"idle", "find", "insert", "get", "next", "write", "drop", "delete"},
   subject : SubjectSet \cup {NoPolicy}, rights : Grants \cup {NoPolicy},
   stack : Seq(PolicyIds), on : SUBSET SubjectSet]

Call == [at : {"idle", "read", "waiting", "executed", "denied"}, dangerous : BOOLEAN,
         confirmed : BOOLEAN, next : 1 .. (Len(Subjects) + 1), level : 0 .. 5, scopes : SUBSET STRING,
         possible : Rights, steady : SUBSET PolicyIds]

NoRequest == [at |-> "idle", subject |-> NoPolicy, rights |-> NoPolicy, stack |-> <<>>, on |-> {}]

NoCall == [at |-> "idle", dangerous |-> FALSE, confirmed |-> FALSE, next |-> 1, level |-> 0,
           scopes |-> {}, possible |-> Baseline, steady |-> {}]

PermissionTypeOK ==
  /\ policies \in [PolicyIds -> Policy \cup {NoPolicy}]
  /\ created \in 0 .. MaxPolicyRequests
  /\ policyRequests \in [PolicyAdmins -> PolicyRequest]
  /\ policyAsks \in 0 .. MaxPolicyRequests
  /\ call \in Call
  /\ granted \in [SubjectSet -> Grants \cup {NoPolicy}]
  /\ tangled \subseteq SubjectSet

PermissionInit ==
  /\ policies = [id \in PolicyIds |-> NoPolicy]
  /\ created = 0
  /\ policyRequests = [a \in PolicyAdmins |-> NoRequest]
  /\ policyAsks = 0
  /\ call = NoCall
  /\ granted = [s \in SubjectSet |-> NoPolicy]
  /\ tangled = {}

-----------------------------------------------------------------------------
\* Rights.

\* Mutant: the level of the last policy counts.
LastLevel(x, y) == [level |-> y.level, scopes |-> x.scopes \cup y.scopes]

\* How resolvePolicy adds a policy to what it has.
Joined(x, y) == [level |-> Max({x.level, y.level}), scopes |-> x.scopes \cup y.scopes]

Suffices(x) == Needed.level <= x.level /\ Needed.scopes \subseteq x.scopes

\* Rights of the actor that come from the rows of the given ids: what resolvePolicy makes
\* of them, in whatever order it joins them.
RightsFrom(ids, rows) ==
  LET given == {Baseline} \cup {rows[id].rights : id \in {i \in ids : rows[i] # NoPolicy}} IN
  [level |-> Max({x.level : x \in given}), scopes |-> UNION {x.scopes : x \in given}]

\* findActivePermissionPolicyBySubject: the id of its row, or NoPolicy.
RowOf(s) ==
  IF \E id \in PolicyIds : policies[id] # NoPolicy /\ policies[id].subject = s
    THEN CHOOSE id \in PolicyIds : policies[id] # NoPolicy /\ policies[id].subject = s
    ELSE NoPolicy

RightsOf(s) == IF RowOf(s) = NoPolicy THEN NoPolicy ELSE policies[RowOf(s)].rights

\* The rows change; a decision under way is watched (history).
Change(rows) ==
  /\ policies' = rows
  /\ call' = [call EXCEPT !.possible = Joined(@, RightsFrom(PolicyIds, rows)),
                          !.steady = {id \in @ : rows[id] = policies[id]}]

-----------------------------------------------------------------------------
\* Administrators' requests.

Working == {a \in PolicyAdmins : policyRequests[a].at # "idle"}

\* The rows a request is at work on.
Held(r) == {r.stack[i] : i \in DOMAIN r.stack}

Meet(r1, r2) == r1.on \cap r2.on # {} \/ Held(r1) \cap Held(r2) # {}

\* The request is now this, and may have met others (history).
Becomes(a, request) ==
  /\ policyRequests' = [policyRequests EXCEPT ![a] = request]
  /\ LET met == {b \in Working \ {a} : Meet(policyRequests[b], request)} IN
     tangled' = IF met = {} THEN tangled
                ELSE tangled \cup request.on \cup UNION {policyRequests[b].on : b \in met}

Begin(a, request) ==
  /\ policyRequests[a] = NoRequest
  /\ policyAsks < MaxPolicyRequests
  /\ policyAsks' = policyAsks + 1
  /\ Becomes(a, request)
  /\ UNCHANGED <<permissionTables, call, granted>>

Proceed(a, at) == policyRequests' = [policyRequests EXCEPT ![a].at = at]

Respond(a, given) ==
  /\ policyRequests' = [policyRequests EXCEPT ![a] = NoRequest]
  /\ granted' = given

\* The request has done its work.
Succeed(a) ==
  LET r == policyRequests[a] IN
  Respond(a, [s \in SubjectSet |-> IF s = r.subject THEN r.rights
                                   ELSE IF s \in r.on THEN NoPolicy ELSE granted[s]])

\* POST, PUT and DELETE.
PostPolicy(a, s, rights) ==
  Begin(a, [at |-> "find", subject |-> s, rights |-> rights, stack |-> <<>>, on |-> {s}])

PutPolicy(a, id, s, rights) ==
  /\ policies[id] # NoPolicy
  /\ Begin(a, [at |-> "get", subject |-> s, rights |-> rights, stack |-> <<id>>,
               on |-> {s, policies[id].subject}])

DeletePolicy(a, id) ==
  /\ policies[id] # NoPolicy
  /\ Begin(a, [at |-> "delete", subject |-> NoPolicy, rights |-> NoPolicy, stack |-> <<id>>,
               on |-> {policies[id].subject}])

\* createPermissionPolicy: a subject that has a policy gets it updated.
FindExisting(a) ==
  LET r == policyRequests[a] IN
  /\ r.at = "find"
  /\ IF RowOf(r.subject) = NoPolicy
       THEN Proceed(a, "insert") /\ UNCHANGED tangled
       ELSE Becomes(a, [r EXCEPT !.at = "get", !.stack = <<RowOf(r.subject)>>])
  /\ UNCHANGED <<permissionTables, policyAsks, call, granted>>

\* The insertion throws when the subject has a policy by now.
InsertPolicy(a) ==
  LET r == policyRequests[a] IN
  /\ r.at = "insert"
  /\ IF RowOf(r.subject) = NoPolicy
       THEN /\ Change([policies EXCEPT ![created + 1] = [subject |-> r.subject, rights |-> r.rights]])
            /\ created' = created + 1
            /\ Succeed(a)
       ELSE /\ Respond(a, granted)
            /\ UNCHANGED <<permissionTables, call>>
  /\ UNCHANGED <<policyAsks, tangled>>

\* updatePermissionPolicy, which calls itself for the policy that the subject already has:
\* the stack holds the ids, the innermost last.
Innermost(r) == r.stack[Len(r.stack)]
Returned(r)  == [r EXCEPT !.at = "drop", !.stack = SubSeq(@, 1, Len(@) - 1)]

\* The innermost call is over: the next one drops its own policy, the outermost responds.
Return(a, r) ==
  IF Len(r.stack) = 1
    THEN Succeed(a)
    ELSE policyRequests' = [policyRequests EXCEPT ![a] = Returned(r)] /\ UNCHANGED granted

\* getPermissionPolicy: a policy that is gone is not updated.
GetPolicy(a) ==
  LET r == policyRequests[a] IN
  /\ r.at = "get"
  /\ IF policies[Innermost(r)] # NoPolicy
       THEN Proceed(a, "next") /\ UNCHANGED granted
       ELSE IF Len(r.stack) = 1 THEN Respond(a, granted) ELSE Return(a, r)
  /\ UNCHANGED <<permissionTables, policyAsks, call, tangled>>

FindNext(a) ==
  LET r == policyRequests[a] IN
  /\ r.at = "next"
  /\ IF RowOf(r.subject) \in {NoPolicy, Innermost(r)}
       THEN Proceed(a, "write") /\ UNCHANGED tangled
       ELSE Becomes(a, [r EXCEPT !.at = "get", !.stack = Append(@, RowOf(r.subject))])
  /\ UNCHANGED <<permissionTables, policyAsks, call, granted>>

\* Mutant: the subject's old rights are kept when a policy moves to it.
WrittenOver(r) ==
  [subject |-> r.subject,
   rights |-> IF Len(r.stack) > 1 THEN policies[Innermost(r)].rights ELSE r.rights]

WrittenBy(r) == [subject |-> r.subject, rights |-> r.rights]

\* The UPDATE: no row, a conflict with another row of the subject, or the new values.
WritePolicy(a) ==
  LET r == policyRequests[a] IN
  /\ r.at = "write"
  /\ IF RowOf(r.subject) \notin {NoPolicy, Innermost(r)}
       THEN /\ Respond(a, granted)
            /\ UNCHANGED <<policies, call>>
       ELSE /\ IF policies[Innermost(r)] = NoPolicy
                 THEN UNCHANGED <<policies, call>>
                 ELSE Change([policies EXCEPT ![Innermost(r)] = WrittenBy(r)])
            /\ Return(a, r)
  /\ UNCHANGED <<created, policyAsks, tangled>>

\* deletePermissionPolicy of a policy that was merged into another one.
DropMerged(a) ==
  LET r == policyRequests[a] IN
  /\ r.at = "drop"
  /\ Change([policies EXCEPT ![Innermost(r)] = NoPolicy])
  /\ Return(a, r)
  /\ UNCHANGED <<created, policyAsks, tangled>>

\* deletePermissionPolicy for the route.
RemovePolicy(a) ==
  LET r == policyRequests[a] IN
  /\ r.at = "delete"
  /\ Change([policies EXCEPT ![Innermost(r)] = NoPolicy])
  /\ Succeed(a)
  /\ UNCHANGED <<created, policyAsks, tangled>>

\* A statement is rejected or the Worker is lost.
PolicyRequestFails(a) ==
  /\ a \in Working
  /\ policyRequests' = [policyRequests EXCEPT ![a] = NoRequest]
  /\ tangled' = tangled \cup policyRequests[a].on
  /\ UNCHANGED <<permissionTables, policyAsks, call, granted>>

-----------------------------------------------------------------------------
\* The decision on a tool call.

Evaluation(dangerous, confirmed) ==
  [NoCall EXCEPT !.at = "read", !.dangerous = dangerous, !.confirmed = confirmed,
                 !.level = Baseline.level, !.scopes = Baseline.scopes,
                 !.possible = RightsFrom(PolicyIds, policies),
                 !.steady = {id \in PolicyIds : policies[id] # NoPolicy}]

\* registry.execute for the model's call.
RequestCall(dangerous) ==
  /\ call.at = "idle"
  /\ call' = Evaluation(dangerous, FALSE)
  /\ UNCHANGED <<permissionTables, policyRequests, policyAsks, granted, tangled>>

Have == [level |-> call.level, scopes |-> call.scopes]

\* findMatchingPermissionPolicies asks for one subject after the other.
ReadSubject ==
  /\ call.at = "read"
  /\ call.next <= Len(Subjects)
  /\ LET found == RightsOf(Subjects[call.next])
         have  == IF found = NoPolicy THEN Have ELSE Joined(Have, found) IN
     call' = [call EXCEPT !.next = @ + 1, !.level = have.level, !.scopes = have.scopes]
  /\ UNCHANGED <<permissionTables, policyRequests, policyAsks, granted, tangled>>

\* Mutant: confirmation is all that a dangerous call needs.
ConfirmedIsAllowed ==
  IF call.confirmed THEN "executed"
  ELSE IF ~Suffices(Have) THEN "denied" ELSE IF call.dangerous THEN "waiting" ELSE "executed"

\* checkToolPolicy comes before requiresConfirmation, also for a confirmed call.
Decision ==
  IF ~Suffices(Have) THEN "denied"
  ELSE IF call.dangerous /\ ~call.confirmed THEN "waiting" ELSE "executed"

Decide ==
  /\ call.at = "read"
  /\ call.next > Len(Subjects)
  /\ call' = [call EXCEPT !.at = Decision]
  /\ UNCHANGED <<permissionTables, policyRequests, policyAsks, granted, tangled>>

\* confirmPendingAction: the call is executed for its own actor.
ConfirmCall ==
  /\ call.at = "waiting"
  /\ call' = Evaluation(TRUE, TRUE)
  /\ UNCHANGED <<permissionTables, policyRequests, policyAsks, granted, tangled>>

\* The evaluation rejects, or the call is over.
CallEnds ==
  /\ call.at \in {"read", "executed", "denied"}
  /\ call' = NoCall
  /\ UNCHANGED <<permissionTables, policyRequests, policyAsks, granted, tangled>>

-----------------------------------------------------------------------------
PolicyStep ==
  \E a \in PolicyAdmins :
    \/ \E s \in SubjectSet, rights \in Grants :
         PostPolicy(a, s, rights) \/ \E id \in PolicyIds : PutPolicy(a, id, s, rights)
    \/ \E id \in PolicyIds : DeletePolicy(a, id)
    \/ FindExisting(a) \/ InsertPolicy(a) \/ GetPolicy(a) \/ FindNext(a)
    \/ WritePolicy(a) \/ DropMerged(a) \/ RemovePolicy(a) \/ PolicyRequestFails(a)

-----------------------------------------------------------------------------
\* Properties.

\* A call is executed only with rights that its actor had, from its role or from policies
\* that were stored while the decision was taken: for a call that waited, the decision
\* after its confirmation, so that what was revoked before is denied.
ExecutedIsEntitled == call.at = "executed" => Suffices(call.possible)

\* A call is denied only if the actor's role and the policies that nobody touched during
\* the decision do not suffice, in whatever order the subjects are read.  (A policy that
\* is moved meanwhile from a subject that is still to be read to one that was read before
\* can be missed.)
DeniedIsNotEntitled == call.at = "denied" => ~Suffices(RightsFrom(call.steady, policies))

\* A policy that an administrator stored is there as it was stored, and nothing else is:
\* unless two requests for its subjects or for one row overlapped, or one of them failed half
\* way.
\* While it moves to another subject, that one has it before the old one loses its own.
PoliciesAreAsAsked ==
  \A s \in SubjectSet \ tangled :
    \/ RightsOf(s) = granted[s]
    \/ \E a \in Working :
         LET r == policyRequests[a] IN
         /\ s \in r.on
         /\ r.subject # NoPolicy /\ RightsOf(r.subject) = r.rights
=============================================================================
