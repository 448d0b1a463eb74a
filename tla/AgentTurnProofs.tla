--------------------------- MODULE AgentTurnProofs ---------------------------
(***************************************************************************)
(* Proofs about AgentTurn: of its conversation (Conversation), of the      *)
(* models that are chosen for it (ModelSettings), and of the policies and  *)
(* decisions on its calls (Permissions).                                   *)
(*                                                                         *)
(* The conversation and the permissions change no variable of each other,  *)
(* so the invariant is that of the one and that of the other.              *)
(***************************************************************************)
EXTENDS AgentTurn, FiniteSetTheorems, TLAPS

(* The inductive invariant: policies. *)

\* Of two rights, the second are as good as the first.
Below(x, y) == x.level <= y.level /\ x.scopes \subseteq y.scopes

OneRowEach ==
  \A i, j \in PolicyIds :
    policies[i] # NoPolicy /\ policies[j] # NoPolicy /\ policies[i].subject = policies[j].subject
      => i = j

\* Ids are given once, to requests that create a policy.
Creating == {a \in PolicyAdmins : policyRequests[a].at \in {"find", "insert"}}

IdsFit ==
  /\ \A id \in PolicyIds : id > created => policies[id] = NoPolicy
  /\ \A a \in PolicyAdmins : Held(policyRequests[a]) \subseteq 1 .. created
  /\ IsFiniteSet(Creating)
  /\ created + Cardinality(Creating) <= policyAsks

\* What a request has in hand at each of its awaits.
RequestFits(r) ==
  /\ r.at = "idle" => r = NoRequest
  /\ r.at \in {"find", "insert"} => r.stack = <<>> /\ r.on = {r.subject}
  /\ r.at \in {"get", "next", "write", "drop", "delete"} => r.stack # <<>>
  /\ r.at \notin {"idle", "delete"} => r.subject \in r.on /\ r.rights \in Grants
  /\ r.at = "delete" => r.subject = NoPolicy

RequestsFit == \A a \in PolicyAdmins : RequestFits(policyRequests[a])

\* Requests that are at work on one subject or row know it.
ApartOrTangled ==
  \A a, b \in Working :
    a # b /\ Meet(policyRequests[a], policyRequests[b]) =>
      policyRequests[a].on \cup policyRequests[b].on \subseteq tangled

RowsOwned ==
  \A a \in Working : \A id \in Held(policyRequests[a]) :
    policies[id] # NoPolicy => policies[id].subject \in policyRequests[a].on \cup tangled

\* Some subject of the request is its own.
Clean(r) == ~(r.on \subseteq tangled)

\* The rows of a request that met no other: its own, and the one of the subject it moves to.
RowsFitOf(r) ==
  Clean(r) =>
    /\ \A id \in Held(r) : policies[id] # NoPolicy
    /\ r.at \in {"get", "next", "write", "drop"} =>
         r.on = {r.subject, policies[r.stack[1]].subject}
    /\ r.at \in {"drop", "delete"} => Len(r.stack) = 1
    /\ r.at = "delete" => r.on = {policies[r.stack[1]].subject}
    /\ Len(r.stack) <= 2
    /\ Len(r.stack) = 2 => policies[r.stack[2]].subject = r.subject /\ r.stack[1] # r.stack[2]

RowsFit == \A a \in Working : RowsFitOf(policyRequests[a])

\* A merged policy is stored, and only its request is at work on it.
MergedFitsOf(a) ==
  LET r == policyRequests[a] IN
  Clean(r) /\ r.at = "drop" =>
    /\ policies[r.stack[1]].subject # r.subject
    /\ RowOf(r.subject) # NoPolicy /\ policies[RowOf(r.subject)].rights = r.rights
    /\ \A b \in Working \ {a} : RowOf(r.subject) \notin Held(policyRequests[b])

MergedFits == \A a \in Working : MergedFitsOf(a)

\* But for a merge, policies are as they were asked for until a request has done its work.
GrantedFits ==
  \A s \in SubjectSet \ tangled :
    \/ RightsOf(s) = granted[s]
    \/ \E a \in Working : s = policyRequests[a].subject /\ policyRequests[a].at = "drop"

\* A decision has added up rights that all were there, and all that stayed.
ReadingFits ==
  call.at = "read" =>
    /\ Below(Have, call.possible)
    /\ Below(RightsFrom(PolicyIds, policies), call.possible)
    /\ Below(Baseline, Have)
    /\ \A id \in call.steady : \A i \in 1 .. (call.next - 1) :
         policies[id].subject = Subjects[i] => Below(policies[id].rights, Have)

SteadyFits == \A id \in call.steady : policies[id] # NoPolicy

PoliciesInv ==
  /\ PermissionTypeOK
  /\ OneRowEach /\ IdsFit /\ RequestsFit /\ ApartOrTangled /\ RowsOwned
  /\ RowsFit /\ MergedFits /\ GrantedFits

DecisionInv == ReadingFits /\ SteadyFits /\ ExecutedIsEntitled /\ DeniedIsNotEntitled

-----------------------------------------------------------------------------
(* Rights. *)

LEMMA BelowTrans ==
  ASSUME NEW x \in Rights, NEW y \in Rights, NEW z \in Rights, Below(x, y), Below(y, z)
  PROVE  Below(x, z)
  BY DEF Below, Rights

\* A set of levels has a greatest one.
LEMMA MaxOfLevels ==
  ASSUME NEW S \in SUBSET (0 .. 5), S # {}
  PROVE  Max(S) \in S /\ \A x \in S : x <= Max(S)
<1>1. \E m \in S : \A x \in S : m >= x
  <2>1. CASE 5 \in S
    BY <2>1
  <2>2. CASE 5 \notin S /\ 4 \in S
    BY <2>2
  <2>3. CASE {4, 5} \cap S = {} /\ 3 \in S
    BY <2>3
  <2>4. CASE {3, 4, 5} \cap S = {} /\ 2 \in S
    BY <2>4
  <2>5. CASE {2, 3, 4, 5} \cap S = {} /\ 1 \in S
    BY <2>5
  <2>6. CASE {1, 2, 3, 4, 5} \cap S = {}
    <3>1. \A x \in S : x = 0
      BY <2>6
    <3>2. PICK m \in S : TRUE
      OBVIOUS
    <3> QED
      BY <3>1, <3>2
  <2> QED
    BY <2>1, <2>2, <2>3, <2>4, <2>5, <2>6
<1> QED
  BY <1>1 DEF Max

\* Joining makes the least rights that are as good as both.
LEMMA JoinedIsLeast ==
  ASSUME NEW x \in Rights, NEW y \in Rights
  PROVE  /\ Joined(x, y) \in Rights
         /\ Below(x, Joined(x, y)) /\ Below(y, Joined(x, y))
         /\ \A z \in Rights : Below(x, z) /\ Below(y, z) => Below(Joined(x, y), z)
<1>1. Max({x.level, y.level}) \in {x.level, y.level}
      /\ x.level <= Max({x.level, y.level}) /\ y.level <= Max({x.level, y.level})
  BY MaxOfLevels DEF Rights
<1> QED
  BY <1>1 DEF Joined, Below, Rights

\* What the rows of some ids give is the least that is as good as the baseline and each row.
LEMMA RightsFromIsLeast ==
  ASSUME NEW ids \in SUBSET PolicyIds, NEW rows \in [PolicyIds -> Policy \cup {NoPolicy}]
  PROVE  /\ RightsFrom(ids, rows) \in Rights
         /\ Below(Baseline, RightsFrom(ids, rows))
         /\ \A id \in ids : rows[id] # NoPolicy => Below(rows[id].rights, RightsFrom(ids, rows))
         /\ \A z \in Rights :
              Below(Baseline, z) /\ (\A id \in ids : rows[id] # NoPolicy => Below(rows[id].rights, z))
                => Below(RightsFrom(ids, rows), z)
<1> DEFINE given == {Baseline} \cup {rows[id].rights : id \in {i \in ids : rows[i] # NoPolicy}}
           levels == {x.level : x \in given}
           scopes == UNION {x.scopes : x \in given}
<1>1. given \subseteq Rights /\ Baseline \in given
  BY PermissionConstants DEF Policy
<1>2. levels \subseteq 0 .. 5 /\ levels # {}
  BY <1>1 DEF Rights
<1>3. Max(levels) \in levels /\ \A x \in levels : x <= Max(levels)
  <2> HIDE DEF levels
  <2> QED
    BY <1>2, MaxOfLevels
<1>4. scopes \in SUBSET STRING
  BY <1>1 DEF Rights
<1>5. RightsFrom(ids, rows) = [level |-> Max(levels), scopes |-> scopes]
  BY DEF RightsFrom
<1>6. \A x \in given : Below(x, RightsFrom(ids, rows))
  <2> TAKE x \in given
  <2>1. x.level \in levels /\ x.scopes \subseteq scopes
    OBVIOUS
  <2> HIDE DEF levels, scopes
  <2> QED
    BY <2>1, <1>3, <1>5 DEF Below
<1>7. RightsFrom(ids, rows) \in Rights
  <2>1. Max(levels) \in 0 .. 5
    BY <1>2, <1>3
  <2> HIDE DEF levels, scopes, given
  <2> QED
    BY <2>1, <1>4, <1>5 DEF Rights
<1>8. ASSUME NEW z \in Rights, \A x \in given : Below(x, z)
      PROVE  Below(RightsFrom(ids, rows), z)
  <2>1. \A l \in levels : l <= z.level
    BY <1>8 DEF Below
  <2>2. scopes \subseteq z.scopes
    BY <1>8 DEF Below
  <2> HIDE DEF levels, scopes
  <2> QED
    BY <2>1, <2>2, <1>3, <1>5 DEF Below
<1>9. \A id \in ids : rows[id] # NoPolicy => rows[id].rights \in given
  OBVIOUS
<1>10. \A x \in given : x = Baseline \/ \E id \in ids : rows[id] # NoPolicy /\ x = rows[id].rights
  OBVIOUS
<1> HIDE DEF given
<1> QED
  BY <1>1, <1>6, <1>7, <1>8, <1>9, <1>10

-----------------------------------------------------------------------------
(* Rows. *)

\* The row of a subject is found, and there is no other.
LEMMA RowFound ==
  ASSUME NEW s \in SubjectSet
  PROVE  \/ /\ RowOf(s) = NoPolicy /\ RightsOf(s) = NoPolicy
            /\ \A id \in PolicyIds : policies[id] = NoPolicy \/ policies[id].subject # s
         \/ /\ RowOf(s) \in PolicyIds /\ RowOf(s) # NoPolicy
            /\ policies[RowOf(s)] # NoPolicy /\ policies[RowOf(s)].subject = s
            /\ RightsOf(s) = policies[RowOf(s)].rights
  BY PermissionConstants DEF RowOf, RightsOf

LEMMA RowIs ==
  ASSUME OneRowEach, NEW s \in SubjectSet, NEW id \in PolicyIds,
         policies[id] # NoPolicy, policies[id].subject = s
  PROVE  RowOf(s) = id /\ RightsOf(s) = policies[id].rights
  BY RowFound DEF OneRowEach

\* A subject keeps its rights when the rows that change are not its own.
LEMMA RightsStay ==
  ASSUME OneRowEach, OneRowEach', NEW s \in SubjectSet,
         \A id \in PolicyIds :
           \/ policies'[id] = policies[id]
           \/ /\ policies[id] = NoPolicy \/ policies[id].subject # s
              /\ policies'[id] = NoPolicy \/ policies'[id].subject # s
  PROVE  RightsOf(s)' = RightsOf(s) /\ RowOf(s)' = RowOf(s)
<1>1. CASE RowOf(s) = NoPolicy
  <2>1. \A id \in PolicyIds : policies'[id] = NoPolicy \/ policies'[id].subject # s
    BY <1>1, RowFound
  <2> QED
    BY <1>1, <2>1, PermissionConstants DEF RowOf, RightsOf
<1>2. CASE RowOf(s) # NoPolicy
  <2>1. PICK id \in PolicyIds : policies[id] # NoPolicy /\ policies[id].subject = s
    BY <1>2, RowFound
  <2>2. policies'[id] = policies[id]
    BY <2>1
  <2>3. RowOf(s) = id /\ RightsOf(s) = policies[id].rights
    BY <2>1, RowIs
  <2>4. policies'[RowOf(s)'] = policies'[id] /\ RowOf(s)' = id
    BY <2>1, <2>2 DEF RowOf, OneRowEach
  <2> QED
    BY <2>1, <2>2, <2>3, <2>4, PermissionConstants DEF RightsOf
<1> QED
  BY <1>1, <1>2

-----------------------------------------------------------------------------
(* What a step does to rows and requests. *)

\* A request changes a row it is at work on, or creates one: the row goes, or it becomes the
\* row of the request's subject.
RowsChange(a) ==
  LET r == policyRequests[a] IN
  \/ policies' = policies
  \/ /\ a \in Working
     /\ \E id \in PolicyIds, row \in Policy \cup {NoPolicy} :
          /\ id \in Held(r) \/ created < id
          /\ policies' = [policies EXCEPT ![id] = row]
          /\ row = NoPolicy \/ (row.subject = r.subject /\ RowOf(r.subject) \in {NoPolicy, id})
          /\ row # NoPolicy => r.subject \in r.on

\* A request keeps its subjects, and takes up rows of theirs only.
RequestChanges(a) ==
  LET r == policyRequests[a]
      q == policyRequests'[a] IN
  /\ \A b \in PolicyAdmins \ {a} : policyRequests'[b] = policyRequests[b]
  /\ tangled \subseteq tangled'
  /\ q.at # "idle" =>
       /\ a \in Working => q.on = r.on
       /\ \A id \in Held(q) : \/ a \in Working /\ id \in Held(r)
                              \/ policies[id] # NoPolicy /\ policies[id].subject \in q.on

\* Rights that a request may not touch stay.
GrantsChange(a) ==
  \A s \in SubjectSet : (a \in Working /\ s \in policyRequests[a].on) \/ granted'[s] = granted[s]

LEMMA HeldTypes ==
  ASSUME NEW r \in PolicyRequest
  PROVE  Held(r) \subseteq PolicyIds /\ r.on \subseteq SubjectSet
<1>1. r.stack \in Seq(PolicyIds) /\ r.on \subseteq SubjectSet
  BY DEF PolicyRequest
<1> QED
  BY <1>1 DEF Held

\* The rows stay unique, others' subjects and rows are left alone.
LEMMA RowsStep ==
  ASSUME PoliciesInv, NEW a \in PolicyAdmins, RowsChange(a)
  PROVE  /\ OneRowEach'
         /\ \A s \in SubjectSet \ tangled :
              \/ a \in Working /\ s \in policyRequests[a].on
              \/ RightsOf(s)' = RightsOf(s)
         /\ \A b \in Working \ {a} : Clean(policyRequests[b]) =>
              /\ \A id \in Held(policyRequests[b]) : policies'[id] = policies[id]
              /\ \A s \in SubjectSet :
                   policyRequests[b].at = "drop" /\ policyRequests[b].subject = s =>
                     RowOf(s)' = RowOf(s) /\ policies'[RowOf(s)] = policies[RowOf(s)]
<1> DEFINE r == policyRequests[a]
<1>0. PermissionTypeOK /\ OneRowEach /\ IdsFit /\ RequestsFit /\ ApartOrTangled /\ RowsOwned
      /\ RowsFit /\ MergedFits
  BY DEF PoliciesInv
<1>1. CASE policies' = policies
  <2>1. \A s : RowOf(s)' = RowOf(s) /\ RightsOf(s)' = RightsOf(s)
    BY <1>1 DEF RightsOf, RowOf
  <2>2. OneRowEach'
    BY <1>0, <1>1 DEF OneRowEach
  <2> QED
    BY <1>1, <2>1, <2>2
<1>2. ASSUME a \in Working, NEW id \in PolicyIds, NEW row \in Policy \cup {NoPolicy},
             id \in Held(r) \/ created < id,
             policies' = [policies EXCEPT ![id] = row],
             row = NoPolicy \/ (row.subject = r.subject /\ RowOf(r.subject) \in {NoPolicy, id}),
             row # NoPolicy => r.subject \in r.on
      PROVE  /\ OneRowEach'
             /\ \A s \in SubjectSet \ tangled : s \in r.on \/ RightsOf(s)' = RightsOf(s)
             /\ \A b \in Working \ {a} : Clean(policyRequests[b]) =>
                  /\ \A i \in Held(policyRequests[b]) : policies'[i] = policies[i]
                  /\ \A s \in SubjectSet :
                       policyRequests[b].at = "drop" /\ policyRequests[b].subject = s =>
                         RowOf(s)' = RowOf(s) /\ policies'[RowOf(s)] = policies[RowOf(s)]
  <2>0. /\ policies \in [PolicyIds -> Policy \cup {NoPolicy}]
        /\ \A i \in PolicyIds : policies'[i] = IF i = id THEN row ELSE policies[i]
        /\ r.on \subseteq SubjectSet
    BY <1>0, <1>2, HeldTypes DEF PermissionTypeOK
  <2>1. \A i \in PolicyIds : row # NoPolicy /\ policies[i] # NoPolicy
                               /\ policies[i].subject = r.subject => i = id
    BY <1>0, <1>2, <2>0, RowIs, PermissionConstants
  <2>2. OneRowEach'
    BY <1>0, <1>2, <2>0, <2>1 DEF OneRowEach
  <2>3. policies[id] # NoPolicy => policies[id].subject \in r.on \cup tangled
    BY <1>0, <1>2 DEF IdsFit, RowsOwned
  <2>4. ASSUME NEW s \in SubjectSet, s \notin r.on,
               policies[id] = NoPolicy \/ policies[id].subject # s
        PROVE  RightsOf(s)' = RightsOf(s) /\ RowOf(s)' = RowOf(s)
    BY <1>0, <1>2, <2>0, <2>2, <2>4, RightsStay
  <2>5. ASSUME NEW b \in Working \ {a}, Clean(policyRequests[b])
        PROVE  id \notin Held(policyRequests[b]) /\ r.on \cap policyRequests[b].on = {}
    <3>1. ~Meet(policyRequests[b], r)
      BY <1>0, <1>2, <2>5 DEF ApartOrTangled, Clean
    <3>2. Held(policyRequests[b]) \subseteq 1 .. created
      BY <1>0, <2>5 DEF IdsFit, Working
    <3> QED
      BY <1>0, <1>2, <3>1, <3>2 DEF Meet, PolicyIds, PermissionTypeOK
  <2>6. ASSUME NEW b \in Working \ {a}, Clean(policyRequests[b])
        PROVE  /\ \A i \in Held(policyRequests[b]) : policies'[i] = policies[i]
               /\ \A s \in SubjectSet :
                    policyRequests[b].at = "drop" /\ policyRequests[b].subject = s =>
                      RowOf(s)' = RowOf(s) /\ policies'[RowOf(s)] = policies[RowOf(s)]
    <3>1. \A i \in Held(policyRequests[b]) : policies'[i] = policies[i]
      BY <1>0, <2>0, <2>5, <2>6, HeldTypes DEF Working, PermissionTypeOK
    <3>2. ASSUME NEW s \in SubjectSet,
                 policyRequests[b].at = "drop", policyRequests[b].subject = s
          PROVE  RowOf(s)' = RowOf(s) /\ policies'[RowOf(s)] = policies[RowOf(s)]
      <4>1. s \in policyRequests[b].on /\ s \in SubjectSet
        BY <1>0, <2>6, <3>2, HeldTypes DEF RequestsFit, RequestFits, Working, PermissionTypeOK
      <4>2. RowOf(s) # NoPolicy /\ RowOf(s) \notin Held(r)
        BY <1>0, <1>2, <2>6, <3>2 DEF MergedFits, MergedFitsOf
      <4>3. RowOf(s) \in PolicyIds /\ policies[RowOf(s)] # NoPolicy
        BY <4>1, <4>2, RowFound
      <4>4. RowOf(s) # id
        BY <1>0, <1>2, <4>2, <4>3 DEF IdsFit
      <4>5. policies[id] = NoPolicy \/ policies[id].subject # s
        BY <1>0, <1>2, <4>1, <4>4, RowIs
      <4>6. s \notin r.on
        BY <2>5, <2>6, <4>1
      <4>7. RowOf(s)' = RowOf(s)
        BY <2>4, <4>1, <4>5, <4>6
      <4> QED
        BY <2>0, <4>3, <4>4, <4>7
    <3> QED
      BY <3>1, <3>2
  <2>7. \A s \in SubjectSet \ tangled : s \in r.on \/ RightsOf(s)' = RightsOf(s)
    BY <2>3, <2>4
  <2> QED
    BY <2>2, <2>6, <2>7
<1> QED
  BY <1>1, <1>2 DEF RowsChange

\* What a step has to keep for the other requests is kept.
LEMMA OthersStep ==
  ASSUME PoliciesInv, PermissionTypeOK', NEW a \in PolicyAdmins,
         RowsChange(a), RequestChanges(a), GrantsChange(a), ApartOrTangled'
  PROVE  /\ RowsOwned'
         /\ \A b \in Working' \ {a} : RowsFitOf(policyRequests[b])' /\ MergedFitsOf(b)'
         /\ \A s \in SubjectSet \ tangled' :
              \/ a \in Working /\ s \in policyRequests[a].on
              \/ RightsOf(s)' = granted'[s]
              \/ \E b \in Working' : s = policyRequests'[b].subject /\ policyRequests'[b].at = "drop"
<1> DEFINE r == policyRequests[a]
           q == policyRequests'[a]
<1>0. /\ PermissionTypeOK /\ OneRowEach /\ IdsFit /\ RequestsFit /\ ApartOrTangled /\ RowsOwned
      /\ RowsFit /\ MergedFits /\ GrantedFits
  BY DEF PoliciesInv
<1>1. /\ \A b \in PolicyAdmins \ {a} : policyRequests'[b] = policyRequests[b]
      /\ tangled \subseteq tangled'
  BY DEF RequestChanges
<1>2. \A b \in PolicyAdmins \ {a} : b \in Working' <=> b \in Working
  BY <1>1 DEF Working
<1>3. OneRowEach'
  BY RowsStep
<1>4. RowsOwned'
  <2> SUFFICES ASSUME NEW b \in Working', NEW id \in Held(policyRequests'[b]), policies'[id] # NoPolicy
               PROVE  policies'[id].subject \in policyRequests'[b].on \cup tangled'
    BY DEF RowsOwned
  <2>0. b \in PolicyAdmins /\ policyRequests'[b].at # "idle"
    BY DEF Working
  <2>1. \/ policies[id] # NoPolicy /\ policies[id].subject \in policyRequests'[b].on \cup tangled'
        \/ policies[id] = NoPolicy
    <3>1. CASE b = a
      BY <1>0, <1>1, <2>0, <3>1 DEF RequestChanges, RowsOwned
    <3>2. CASE b # a
      BY <1>0, <1>1, <1>2, <2>0, <3>2 DEF RowsOwned
    <3> QED
      BY <3>1, <3>2
  <2>2. id \in PolicyIds /\ ~(created < id)
    <3>1. id \in PolicyIds /\ created \in Nat
      BY <1>0, <2>0, HeldTypes DEF PermissionTypeOK
    <3>2. id \in 1 .. created \/ policies[id] # NoPolicy
      BY <1>0, <1>1, <2>0 DEF RequestChanges, IdsFit
    <3> QED
      BY <1>0, <3>1, <3>2 DEF IdsFit
  <2>3. CASE policies'[id] = policies[id]
    BY <2>1, <2>3
  <2>4. CASE policies'[id] # policies[id]
    <3>1. a \in Working /\ id \in Held(r) /\ r.subject \in r.on /\ policies'[id].subject = r.subject
      BY <1>0, <2>2, <2>4 DEF RowsChange, PermissionTypeOK
    <3>2. CASE b = a
      BY <2>0, <3>1, <3>2 DEF RequestChanges
    <3>3. CASE b # a
      BY <1>0, <1>1, <1>2, <2>0, <3>1, <3>3 DEF ApartOrTangled, Meet
    <3> QED
      BY <3>2, <3>3
  <2> QED
    BY <2>3, <2>4
<1>5. ASSUME NEW b \in Working' \ {a}
      PROVE  RowsFitOf(policyRequests[b])' /\ MergedFitsOf(b)'
  <2> DEFINE t == policyRequests[b]
  <2>0. /\ b \in Working /\ b \in PolicyAdmins /\ policyRequests'[b] = t
        /\ t \in PolicyRequest /\ t.stack \in Seq(PolicyIds)
    BY <1>0, <1>1, <1>2 DEF Working, PermissionTypeOK, PolicyRequest
  <2> SUFFICES ASSUME ~(t.on \subseteq tangled')
               PROVE  RowsFitOf(policyRequests[b])' /\ MergedFitsOf(b)'
    BY <2>0 DEF RowsFitOf, MergedFitsOf, Clean
  <2>1. Clean(t)
    BY <1>1 DEF Clean
  <2>2. \A id \in Held(t) : policies'[id] = policies[id]
    BY <2>0, <2>1, RowsStep
  <2>3. \A i \in DOMAIN t.stack : t.stack[i] \in Held(t)
    BY DEF Held
  <2>4. RowsFitOf(t) /\ MergedFitsOf(b)
    BY <1>0, <2>0 DEF RowsFit, MergedFits
  <2>5. RowsFitOf(policyRequests[b])'
    <3>1. t.stack # <<>> => policies'[t.stack[1]] = policies[t.stack[1]]
      BY <2>0, <2>2, <2>3
    <3>2. Len(t.stack) = 2 => policies'[t.stack[2]] = policies[t.stack[2]]
      BY <2>0, <2>2, <2>3
    <3>3. t.at \in {"get", "next", "write", "drop", "delete"} => t.stack # <<>>
      BY <1>0, <2>0 DEF RequestsFit, RequestFits
    <3> QED
      BY <2>0, <2>1, <2>2, <2>4, <3>1, <3>2, <3>3 DEF RowsFitOf
  <2>6. MergedFitsOf(b)'
    <3> SUFFICES ASSUME t.at = "drop"
                 PROVE  MergedFitsOf(b)'
      BY <2>0 DEF MergedFitsOf
    <3>1. t.subject \in t.on /\ t.subject \in SubjectSet /\ t.stack # <<>>
      BY <1>0, <2>0, HeldTypes DEF RequestsFit, RequestFits
    <3>2. \A s \in SubjectSet : s = t.subject =>
            RowOf(s)' = RowOf(s) /\ policies'[RowOf(s)] = policies[RowOf(s)]
      BY <2>0, <2>1, RowsStep
    <3>3. policies'[t.stack[1]] = policies[t.stack[1]]
      BY <2>0, <2>2, <2>3, <3>1
    <3>4. ASSUME NEW c \in Working' \ {b}, NEW s \in SubjectSet, s = t.subject, RowOf(s) \in Held(policyRequests'[c])
          PROVE  FALSE
      <4>1. RowOf(s) # NoPolicy /\ \A d \in Working \ {b} : RowOf(s) \notin Held(policyRequests[d])
        BY <2>1, <2>4, <3>4 DEF MergedFitsOf
      <4>2. c = a
        BY <1>1, <1>2, <3>4, <4>1 DEF Working
      <4>3. policies[RowOf(s)] # NoPolicy /\ policies[RowOf(s)].subject \in policyRequests'[a].on
        BY <3>4, <4>1, <4>2 DEF RequestChanges, Working
      <4>4. s \in policyRequests'[a].on
        BY <4>1, <4>3, RowFound
      <4> QED
        BY <2>0, <3>1, <3>4, <4>2, <4>4 DEF ApartOrTangled, Meet
    <3> QED
      BY <2>0, <2>1, <2>4, <3>1, <3>2, <3>3, <3>4 DEF MergedFitsOf
  <2> QED
    BY <2>5, <2>6
<1>6. ASSUME NEW s \in SubjectSet, s \notin tangled', ~(a \in Working /\ s \in r.on)
      PROVE  \/ RightsOf(s)' = granted'[s]
             \/ \E b \in Working' : s = policyRequests'[b].subject /\ policyRequests'[b].at = "drop"
  <2>1. s \notin tangled /\ RightsOf(s)' = RightsOf(s) /\ granted'[s] = granted[s]
    BY <1>1, <1>6, RowsStep DEF GrantsChange
  <2>2. CASE RightsOf(s) = granted[s]
    BY <2>1, <2>2
  <2>3. ASSUME NEW b \in Working, s = policyRequests[b].subject, policyRequests[b].at = "drop"
        PROVE  b \in Working' /\ s = policyRequests'[b].subject /\ policyRequests'[b].at = "drop"
    <3>1. s \in policyRequests[b].on /\ b \in PolicyAdmins
      BY <1>0, <2>3 DEF RequestsFit, RequestFits, Working
    <3> QED
      BY <1>1, <1>2, <1>6, <2>3, <3>1
  <2> QED
    BY <1>0, <1>6, <2>1, <2>2, <2>3 DEF GrantedFits
<1> QED
  BY <1>4, <1>5, <1>6

\* Requests that meet are noted.
LEMMA ApartWhenBecoming ==
  ASSUME PoliciesInv, NEW a \in PolicyAdmins, NEW request, Becomes(a, request)
  PROVE  ApartOrTangled' /\ tangled \subseteq tangled' /\ policyRequests'[a] = request
         /\ \A b \in PolicyAdmins \ {a} : policyRequests'[b] = policyRequests[b]
<1>0. ApartOrTangled /\ policyRequests \in [PolicyAdmins -> PolicyRequest]
  BY DEF PoliciesInv, PermissionTypeOK
<1>1. /\ policyRequests'[a] = request
      /\ \A b \in PolicyAdmins \ {a} : policyRequests'[b] = policyRequests[b]
  BY <1>0 DEF Becomes
<1>2. tangled \subseteq tangled'
  BY DEF Becomes
<1>3. \A b \in Working \ {a} : Meet(policyRequests[b], request) =>
        request.on \cup policyRequests[b].on \subseteq tangled'
  BY DEF Becomes
<1>4. ASSUME NEW b \in Working', NEW c \in Working', b # c, Meet(policyRequests'[b], policyRequests'[c])
      PROVE  policyRequests'[b].on \cup policyRequests'[c].on \subseteq tangled'
  <2>1. CASE b = a
    <3>1. c \in Working \ {a} /\ Meet(policyRequests[c], request)
      BY <1>1, <1>4, <2>1 DEF Working, Meet
    <3> QED
      BY <1>1, <1>3, <1>4, <2>1, <3>1 DEF Working
  <2>2. CASE c = a
    <3>1. b \in Working \ {a} /\ Meet(policyRequests[b], request)
      BY <1>1, <1>4, <2>2 DEF Working, Meet
    <3> QED
      BY <1>1, <1>3, <1>4, <2>2, <3>1 DEF Working
  <2>3. CASE b # a /\ c # a
    BY <1>0, <1>1, <1>2, <1>4, <2>3 DEF ApartOrTangled, Working
  <2> QED
    BY <2>1, <2>2, <2>3
<1> QED
  BY <1>1, <1>2, <1>4 DEF ApartOrTangled

\* A request that goes on with what it has, or ends, meets no other.
LEMMA ApartWhenGoingOn ==
  ASSUME PoliciesInv, NEW a \in PolicyAdmins, NEW request, tangled \subseteq tangled',
         policyRequests' = [policyRequests EXCEPT ![a] = request],
         \/ request.at = "idle"
         \/ a \in Working /\ request.on = policyRequests[a].on /\ Held(request) \subseteq Held(policyRequests[a])
  PROVE  ApartOrTangled' /\ policyRequests'[a] = request
         /\ \A b \in PolicyAdmins \ {a} : policyRequests'[b] = policyRequests[b]
<1>0. ApartOrTangled /\ policyRequests \in [PolicyAdmins -> PolicyRequest]
  BY DEF PoliciesInv, PermissionTypeOK
<1>1. /\ policyRequests'[a] = request
      /\ \A b \in PolicyAdmins \ {a} : policyRequests'[b] = policyRequests[b]
  BY <1>0
<1>2. \A b \in Working' : b \in Working /\ policyRequests'[b].on = policyRequests[b].on
                          /\ Held(policyRequests'[b]) \subseteq Held(policyRequests[b])
  BY <1>1 DEF Working
<1> QED
  BY <1>0, <1>1, <1>2 DEF ApartOrTangled, Meet

-----------------------------------------------------------------------------
(* The steps of a request. *)

\* What is left to say of a step: of its own request, and of the subjects it is at work on.
OwnFits(a) ==
  /\ a \in Working' => RowsFitOf(policyRequests[a])' /\ MergedFitsOf(a)'
  /\ \A s \in SubjectSet \ tangled' :
       a \in Working /\ s \in policyRequests[a].on =>
         \/ RightsOf(s)' = granted'[s]
         \/ \E b \in Working' : s = policyRequests'[b].subject /\ policyRequests'[b].at = "drop"

LEMMA StepInv ==
  ASSUME PoliciesInv, NEW a \in PolicyAdmins, PermissionTypeOK', IdsFit', RequestsFit',
         RowsChange(a), RequestChanges(a), GrantsChange(a), ApartOrTangled', OwnFits(a)
  PROVE  PoliciesInv'
<1>1. OneRowEach'
  BY RowsStep
<1>2. RowsFit' /\ MergedFits'
  BY OthersStep DEF RowsFit, MergedFits, OwnFits
<1>3. GrantedFits'
  BY OthersStep DEF GrantedFits, OwnFits
<1> QED
  BY <1>1, <1>2, <1>3, OthersStep DEF PoliciesInv

\* The set of requests that create a policy loses one, or gets one.
LEMMA CreatingStep ==
  ASSUME IsFiniteSet(Creating), NEW a \in PolicyAdmins,
         \A b \in PolicyAdmins \ {a} : policyRequests'[b] = policyRequests[b]
  PROVE  /\ IsFiniteSet(Creating') /\ Cardinality(Creating) \in Nat /\ Cardinality(Creating') \in Nat
         /\ a \in Creating' /\ a \notin Creating => Cardinality(Creating') = Cardinality(Creating) + 1
         /\ a \notin Creating' /\ a \in Creating => Cardinality(Creating') = Cardinality(Creating) - 1
         /\ (a \in Creating' <=> a \in Creating) => Cardinality(Creating') = Cardinality(Creating)
<1>1. \/ Creating' = Creating /\ (a \in Creating' <=> a \in Creating)
      \/ Creating' = Creating \cup {a} /\ a \notin Creating
      \/ Creating' = Creating \ {a} /\ a \in Creating
  BY DEF Creating
<1> QED
  BY <1>1, FS_AddElement, FS_RemoveElement, FS_CardinalityType

\* A request that is under way and goes on, or ends, keeps what it has.
LEMMA GoingOn ==
  ASSUME PoliciesInv, NEW a \in PolicyAdmins, NEW request \in PolicyRequest,
         policyRequests' = [policyRequests EXCEPT ![a] = request],
         tangled \subseteq tangled', a \in Working,
         \/ request.at = "idle"
         \/ request.on = policyRequests[a].on /\ Held(request) \subseteq Held(policyRequests[a])
  PROVE  /\ ApartOrTangled' /\ RequestChanges(a)
         /\ policyRequests'[a] = request
         /\ \A b \in PolicyAdmins \ {a} : policyRequests'[b] = policyRequests[b]
         /\ policyRequests' \in [PolicyAdmins -> PolicyRequest]
<1>1. /\ ApartOrTangled' /\ policyRequests'[a] = request
      /\ \A b \in PolicyAdmins \ {a} : policyRequests'[b] = policyRequests[b]
  BY ApartWhenGoingOn
<1>2. policyRequests' \in [PolicyAdmins -> PolicyRequest]
  BY DEF PoliciesInv, PermissionTypeOK
<1> QED
  BY <1>1, <1>2 DEF RequestChanges

\* A new request.
LEMMA BeginStep ==
  ASSUME PoliciesInv, NEW a \in PolicyAdmins, NEW request \in PolicyRequest, Begin(a, request),
         request.at \in {"find", "get", "delete"}, RequestFits(request), RowsFitOf(request),
         \A id \in Held(request) : policies[id] # NoPolicy /\ policies[id].subject \in request.on
  PROVE  PoliciesInv'
<1>0. /\ PermissionTypeOK /\ IdsFit /\ RequestsFit /\ policyRequests[a] = NoRequest
      /\ policies' = policies /\ created' = created /\ call' = call /\ granted' = granted
      /\ policyAsks' = policyAsks + 1 /\ policyAsks < MaxPolicyRequests
  BY DEF Begin, PoliciesInv, permissionTables
<1>1. /\ ApartOrTangled' /\ tangled \subseteq tangled' /\ policyRequests'[a] = request
      /\ \A b \in PolicyAdmins \ {a} : policyRequests'[b] = policyRequests[b]
  BY ApartWhenBecoming DEF Begin
<1>2. a \notin Working /\ a \notin Creating
  BY <1>0 DEF Working, Creating, NoRequest
<1>3. PermissionTypeOK'
  <2>1. tangled' \subseteq SubjectSet
    BY <1>0, HeldTypes DEF Begin, Becomes, PermissionTypeOK, Working
  <2>2. policyRequests' \in [PolicyAdmins -> PolicyRequest]
    BY <1>0 DEF Begin, Becomes, PermissionTypeOK
  <2> QED
    BY <1>0, <2>1, <2>2, PermissionConstants DEF PermissionTypeOK
<1>4. IdsFit'
  <2>1. created' + Cardinality(Creating') <= policyAsks' /\ IsFiniteSet(Creating')
    BY <1>0, <1>1, <1>2, CreatingStep, PermissionConstants DEF IdsFit, PermissionTypeOK
  <2>2. Held(request) \subseteq 1 .. created
    BY <1>0, HeldTypes DEF IdsFit, PermissionTypeOK, PolicyIds
  <2> QED
    BY <1>0, <1>1, <2>1, <2>2 DEF IdsFit
<1>5. RequestsFit'
  BY <1>0, <1>1 DEF RequestsFit
<1>6. RowsChange(a) /\ RequestChanges(a) /\ GrantsChange(a)
  BY <1>0, <1>1, <1>2 DEF RowsChange, RequestChanges, GrantsChange
<1>7. OwnFits(a)
  <2>1. RowsFitOf(policyRequests[a])'
    BY <1>0, <1>1 DEF RowsFitOf, Clean
  <2>2. MergedFitsOf(a)'
    BY <1>1 DEF MergedFitsOf
  <2> QED
    BY <1>2, <2>1, <2>2 DEF OwnFits
<1> QED
  BY <1>1, <1>3, <1>4, <1>5, <1>6, <1>7, StepInv

LEMMA PostPolicyInv ==
  ASSUME PoliciesInv, NEW a \in PolicyAdmins, NEW s \in SubjectSet, NEW rights \in Grants,
         PostPolicy(a, s, rights)
  PROVE  PoliciesInv'
<1> DEFINE request == [at |-> "find", subject |-> s, rights |-> rights, stack |-> <<>>, on |-> {s}]
<1>1. request \in PolicyRequest
  BY DEF PolicyRequest
<1>2. Held(request) = {}
  BY DEF Held
<1>3. RequestFits(request) /\ RowsFitOf(request)
  <2>1. /\ request.at = "find" /\ request.subject = s /\ request.rights = rights
        /\ request.stack = <<>> /\ Len(request.stack) = 0 /\ request.on = {s}
    OBVIOUS
  <2> HIDE DEF request
  <2> QED
    BY <1>2, <2>1 DEF RequestFits, RowsFitOf
<1>4. Begin(a, request)
  BY DEF PostPolicy
<1> QED
  BY <1>1, <1>2, <1>3, <1>4, BeginStep

LEMMA PutPolicyInv ==
  ASSUME PoliciesInv, NEW a \in PolicyAdmins, NEW id \in PolicyIds, NEW s \in SubjectSet,
         NEW rights \in Grants, PutPolicy(a, id, s, rights)
  PROVE  PoliciesInv'
<1> DEFINE request == [at |-> "get", subject |-> s, rights |-> rights, stack |-> <<id>>,
                       on |-> {s, policies[id].subject}]
<1>1. policies[id] # NoPolicy /\ policies[id].subject \in SubjectSet
  BY DEF PutPolicy, PoliciesInv, PermissionTypeOK, Policy
<1>2. request \in PolicyRequest
  BY <1>1 DEF PolicyRequest
<1>3. Held(request) = {id}
  BY DEF Held
<1>4. RequestFits(request) /\ RowsFitOf(request)
  BY <1>1, <1>3 DEF RequestFits, RowsFitOf
<1>5. Begin(a, request)
  BY DEF PutPolicy
<1> QED
  BY <1>1, <1>2, <1>3, <1>4, <1>5, BeginStep

LEMMA DeletePolicyInv ==
  ASSUME PoliciesInv, NEW a \in PolicyAdmins, NEW id \in PolicyIds, DeletePolicy(a, id)
  PROVE  PoliciesInv'
<1> DEFINE request == [at |-> "delete", subject |-> NoPolicy, rights |-> NoPolicy, stack |-> <<id>>,
                       on |-> {policies[id].subject}]
<1>1. policies[id] # NoPolicy /\ policies[id].subject \in SubjectSet
  BY DEF DeletePolicy, PoliciesInv, PermissionTypeOK, Policy
<1>2. request \in PolicyRequest
  BY <1>1 DEF PolicyRequest
<1>3. Held(request) = {id}
  BY DEF Held
<1>4. RequestFits(request) /\ RowsFitOf(request)
  BY <1>1, <1>3 DEF RequestFits, RowsFitOf
<1>5. Begin(a, request)
  BY DEF DeletePolicy
<1> QED
  BY <1>1, <1>2, <1>3, <1>4, <1>5, BeginStep

\* A step of a request that is under way and goes on, or ends.
LEMMA RequestStep ==
  ASSUME PoliciesInv, NEW a \in PolicyAdmins, NEW request \in PolicyRequest, a \in Working,
         ApartOrTangled', RequestChanges(a), policyRequests'[a] = request, RequestFits(request),
         policyRequests' \in [PolicyAdmins -> PolicyRequest],
         \A b \in PolicyAdmins \ {a} : policyRequests'[b] = policyRequests[b],
         request.at \in {"find", "insert"} => a \in Creating,
         tangled \subseteq tangled', tangled' \subseteq SubjectSet, call' \in Call,
         policies' \in [PolicyIds -> Policy \cup {NoPolicy}],
         granted' \in [SubjectSet -> Grants \cup {NoPolicy}], policyAsks' = policyAsks,
         created' = created \/ (created' = created + 1 /\ a \in Creating /\ request.at = "idle"),
         \A id \in PolicyIds : id > created' => policies'[id] = NoPolicy,
         RowsChange(a), GrantsChange(a), OwnFits(a)
  PROVE  PoliciesInv'
<1>0. PermissionTypeOK /\ IdsFit /\ RequestsFit
  BY DEF PoliciesInv
<1>1. Held(request) \subseteq 1 .. created
  <2>1. request.at = "idle" => Held(request) = {}
    BY DEF RequestFits, NoRequest, Held
  <2>2. \A id \in Held(request) : id \in PolicyIds
    BY HeldTypes
  <2>3. request.at # "idle" => \A id \in Held(request) :
          id \in Held(policyRequests[a]) \/ policies[id] # NoPolicy
    BY DEF RequestChanges
  <2> QED
    BY <1>0, <2>1, <2>2, <2>3 DEF IdsFit, PermissionTypeOK, PolicyIds
<1>2. /\ created' + Cardinality(Creating') <= policyAsks' /\ IsFiniteSet(Creating')
      /\ created' \in 0 .. MaxPolicyRequests
  <2>1. /\ a \in Creating' => a \in Creating
        /\ request.at = "idle" => a \notin Creating'
    BY DEF Creating
  <2>2. /\ created \in Nat /\ created + Cardinality(Creating) <= policyAsks
        /\ policyAsks \in 0 .. MaxPolicyRequests /\ IsFiniteSet(Creating)
        /\ MaxPolicyRequests \in Nat
    BY <1>0, PermissionConstants DEF IdsFit, PermissionTypeOK
  <2>3. /\ IsFiniteSet(Creating') /\ Cardinality(Creating) \in Nat /\ Cardinality(Creating') \in Nat
        /\ a \notin Creating' /\ a \in Creating => Cardinality(Creating') = Cardinality(Creating) - 1
        /\ (a \in Creating' <=> a \in Creating) => Cardinality(Creating') = Cardinality(Creating)
    BY <2>2, CreatingStep
  <2>4. CASE created' = created
    BY <2>1, <2>2, <2>3, <2>4
  <2>5. CASE created' = created + 1 /\ a \in Creating /\ request.at = "idle"
    BY <2>1, <2>2, <2>3, <2>5
  <2> QED
    BY <2>4, <2>5
<1>3. PermissionTypeOK'
  BY <1>0, <1>2 DEF PermissionTypeOK
<1>4. IdsFit'
  <2>1. \A b \in PolicyAdmins : Held(policyRequests'[b]) \subseteq 1 .. created'
    BY <1>0, <1>1, <1>2 DEF IdsFit, PermissionTypeOK
  <2> QED
    BY <1>2, <2>1 DEF IdsFit
<1>5. RequestsFit'
  BY <1>0 DEF RequestsFit
<1> QED
  BY <1>3, <1>4, <1>5, StepInv

\* A step that changes no rows and no grants.
LEMMA ProceedStep ==
  ASSUME PoliciesInv, NEW a \in PolicyAdmins, NEW request \in PolicyRequest, a \in Working,
         policyRequests' = [policyRequests EXCEPT ![a] = request], RequestFits(request),
         \/ request.at = "idle"
         \/ request.on = policyRequests[a].on /\ Held(request) \subseteq Held(policyRequests[a]),
         request.at \in {"find", "insert"} => a \in Creating,
         tangled \subseteq tangled', tangled' \subseteq SubjectSet,
         UNCHANGED <<permissionTables, policyAsks, granted, call>>,
         policyRequests[a].on \subseteq tangled' \/ policyRequests[a].at # "drop",
         \/ request.at = "idle"
         \/ request.on \subseteq tangled'
         \/ request.at # "drop" /\ RowsFitOf(request)
  PROVE  PoliciesInv'
<1>0. /\ PermissionTypeOK /\ IdsFit /\ GrantedFits
      /\ policies' = policies /\ created' = created /\ granted' = granted /\ policyAsks' = policyAsks
      /\ call' = call
  BY DEF PoliciesInv, permissionTables
<1>1. /\ ApartOrTangled' /\ RequestChanges(a) /\ policyRequests'[a] = request
      /\ \A b \in PolicyAdmins \ {a} : policyRequests'[b] = policyRequests[b]
      /\ policyRequests' \in [PolicyAdmins -> PolicyRequest]
  BY GoingOn
<1>2. RowsChange(a) /\ GrantsChange(a)
  BY <1>0 DEF RowsChange, GrantsChange
<1>3. ASSUME a \in Working'
      PROVE  RowsFitOf(policyRequests[a])' /\ MergedFitsOf(a)'
  <2>1. request.at # "idle"
    BY <1>1, <1>3 DEF Working
  <2> QED
    BY <1>0, <1>1, <2>1 DEF RowsFitOf, MergedFitsOf, Clean
<1>4. ASSUME NEW s \in SubjectSet \ tangled', s \in policyRequests[a].on
      PROVE  \/ RightsOf(s)' = granted'[s]
             \/ \E b \in Working' : s = policyRequests'[b].subject /\ policyRequests'[b].at = "drop"
  <2>1. RightsOf(s)' = RightsOf(s)
    BY <1>0 DEF RightsOf, RowOf
  <2>2. policyRequests[a].at # "drop"
    BY <1>4
  <2>3. ASSUME NEW b \in Working, s = policyRequests[b].subject, policyRequests[b].at = "drop"
        PROVE  b \in Working' /\ s = policyRequests'[b].subject /\ policyRequests'[b].at = "drop"
    BY <1>1, <2>2, <2>3 DEF Working
  <2> QED
    BY <1>0, <1>4, <2>1, <2>3 DEF GrantedFits
<1>5. OwnFits(a)
  BY <1>3, <1>4 DEF OwnFits
<1>6. /\ call' \in Call /\ policies' \in [PolicyIds -> Policy \cup {NoPolicy}]
      /\ granted' \in [SubjectSet -> Grants \cup {NoPolicy}]
      /\ \A id \in PolicyIds : id > created' => policies'[id] = NoPolicy
  BY <1>0 DEF PermissionTypeOK, IdsFit
<1> QED
  BY <1>0, <1>1, <1>2, <1>5, <1>6, RequestStep

\* An update that goes on at another await.
LEMMA ProceedFits ==
  ASSUME PermissionTypeOK, RequestsFit, NEW a \in PolicyAdmins,
         NEW at \in {"insert", "get", "next", "write"},
         policyRequests[a].at \in {"find", "get", "next", "write"},
         at = "insert" <=> policyRequests[a].at = "find"
  PROVE  /\ [policyRequests[a] EXCEPT !.at = at] \in PolicyRequest
         /\ RequestFits([policyRequests[a] EXCEPT !.at = at])
         /\ RowsFitOf(policyRequests[a]) => RowsFitOf([policyRequests[a] EXCEPT !.at = at])
         /\ Held([policyRequests[a] EXCEPT !.at = at]) = Held(policyRequests[a])
<1> DEFINE r == policyRequests[a]
           q == [r EXCEPT !.at = at]
<1>1. r \in PolicyRequest /\ RequestFits(r)
  BY DEF PermissionTypeOK, RequestsFit
<1>2. q \in PolicyRequest
  BY <1>1 DEF PolicyRequest
<1>3. /\ q.at = at /\ q.subject = r.subject /\ q.rights = r.rights /\ q.stack = r.stack /\ q.on = r.on
  BY <1>1 DEF PolicyRequest
<1>4. Held(q) = Held(r)
  BY <1>3 DEF Held
<1> HIDE DEF q
<1>5. RequestFits(q)
  BY <1>1, <1>3 DEF RequestFits
<1>6. RowsFitOf(r) => RowsFitOf(q)
  BY <1>1, <1>3, <1>4 DEF RowsFitOf, RequestFits, Clean
<1> QED
  BY <1>2, <1>4, <1>5, <1>6 DEF q

LEMMA NoRequestFits ==
  NoRequest \in PolicyRequest /\ RequestFits(NoRequest) /\ NoRequest.at = "idle"
<1>1. <<>> \in Seq(PolicyIds)
  OBVIOUS
<1> QED
  BY <1>1 DEF NoRequest, PolicyRequest, RequestFits

\* An update takes up the row of its subject.
LEMMA TakeUpStep ==
  ASSUME PoliciesInv, NEW a \in PolicyAdmins, NEW request \in PolicyRequest, a \in Working,
         Becomes(a, request), request.at = "get", request.on = policyRequests[a].on,
         RequestFits(request), RowsFitOf(request), policyRequests[a].at # "drop",
         policyRequests[a].subject \in policyRequests[a].on,
         RowOf(policyRequests[a].subject) # NoPolicy,
         Held(request) \subseteq Held(policyRequests[a]) \cup {RowOf(policyRequests[a].subject)},
         UNCHANGED <<permissionTables, policyAsks, granted, call>>
  PROVE  PoliciesInv'
<1> DEFINE r == policyRequests[a]
<1>0. /\ PermissionTypeOK /\ IdsFit /\ GrantedFits
      /\ policies' = policies /\ created' = created /\ granted' = granted /\ policyAsks' = policyAsks
      /\ call' = call
  BY DEF PoliciesInv, permissionTables
<1>1. /\ ApartOrTangled' /\ tangled \subseteq tangled' /\ policyRequests'[a] = request
      /\ \A b \in PolicyAdmins \ {a} : policyRequests'[b] = policyRequests[b]
  BY ApartWhenBecoming
<1>2. tangled' \subseteq SubjectSet /\ policyRequests' \in [PolicyAdmins -> PolicyRequest]
  BY <1>0, HeldTypes DEF Becomes, PermissionTypeOK, Working
<1>3. RowsChange(a) /\ GrantsChange(a)
  BY <1>0 DEF RowsChange, GrantsChange
<1>4. RequestChanges(a)
  <2>1. r.subject \in SubjectSet
    BY <1>0, HeldTypes DEF PermissionTypeOK
  <2>2. policies[RowOf(r.subject)] # NoPolicy /\ policies[RowOf(r.subject)].subject = r.subject
    BY <2>1, RowFound
  <2> QED
    BY <1>1, <2>2 DEF RequestChanges
<1>5. RowsFitOf(policyRequests[a])' /\ MergedFitsOf(a)'
  BY <1>0, <1>1 DEF RowsFitOf, MergedFitsOf, Clean
<1>6. ASSUME NEW s \in SubjectSet \ tangled', s \in r.on
      PROVE  \/ RightsOf(s)' = granted'[s]
             \/ \E b \in Working' : s = policyRequests'[b].subject /\ policyRequests'[b].at = "drop"
  <2>1. RightsOf(s)' = RightsOf(s)
    BY <1>0 DEF RightsOf, RowOf
  <2>2. ASSUME NEW b \in Working, s = policyRequests[b].subject, policyRequests[b].at = "drop"
        PROVE  b \in Working' /\ s = policyRequests'[b].subject /\ policyRequests'[b].at = "drop"
    BY <1>1, <2>2 DEF Working
  <2> QED
    BY <1>0, <1>1, <1>6, <2>1, <2>2 DEF GrantedFits
<1>7. OwnFits(a)
  BY <1>5, <1>6 DEF OwnFits
<1>8. /\ call' \in Call /\ policies' \in [PolicyIds -> Policy \cup {NoPolicy}]
      /\ granted' \in [SubjectSet -> Grants \cup {NoPolicy}]
      /\ \A id \in PolicyIds : id > created' => policies'[id] = NoPolicy
  BY <1>0 DEF PermissionTypeOK, IdsFit
<1> QED
  BY <1>0, <1>1, <1>2, <1>3, <1>4, <1>7, <1>8, RequestStep

LEMMA FindExistingInv ==
  ASSUME PoliciesInv, NEW a \in PolicyAdmins, FindExisting(a)
  PROVE  PoliciesInv'
<1> DEFINE r == policyRequests[a]
           q == [r EXCEPT !.at = "get", !.stack = <<RowOf(r.subject)>>]
<1>0. /\ PermissionTypeOK /\ RequestsFit /\ RowsFit /\ r.at = "find"
      /\ UNCHANGED <<permissionTables, policyAsks, granted, call>>
  BY DEF PoliciesInv, FindExisting
<1>1. /\ a \in Working /\ a \in Creating /\ r \in PolicyRequest /\ r.on = {r.subject}
      /\ r.subject \in SubjectSet /\ r.rights \in Grants /\ r.stack = <<>> /\ RowsFitOf(r)
      /\ tangled \subseteq SubjectSet
  BY <1>0, HeldTypes DEF Working, Creating, RequestsFit, RequestFits, PermissionTypeOK, RowsFit
<1>2. CASE RowOf(r.subject) = NoPolicy
  <2>1. policyRequests' = [policyRequests EXCEPT ![a] = [r EXCEPT !.at = "insert"]] /\ tangled' = tangled
    <3>1. Proceed(a, "insert") /\ tangled' = tangled
      BY <1>2 DEF FindExisting
    <3> QED
      BY <3>1 DEF Proceed
  <2>2. [r EXCEPT !.at = "insert"].at = "insert" /\ [r EXCEPT !.at = "insert"].on = r.on
    BY <1>1 DEF PolicyRequest
  <2> QED
    BY <1>0, <1>1, <2>1, <2>2, ProceedFits, ProceedStep
<1>3. CASE RowOf(r.subject) # NoPolicy
  <2>1. Becomes(a, q)
    BY <1>3 DEF FindExisting
  <2>2. /\ RowOf(r.subject) \in PolicyIds /\ policies[RowOf(r.subject)] # NoPolicy
        /\ policies[RowOf(r.subject)].subject = r.subject
    BY <1>1, <1>3, RowFound
  <2>3. /\ q.at = "get" /\ q.subject = r.subject /\ q.rights = r.rights /\ q.on = r.on
        /\ q.stack = <<RowOf(r.subject)>> /\ q \in PolicyRequest
    <3>1. <<RowOf(r.subject)>> \in Seq(PolicyIds)
      BY <2>2
    <3> HIDE DEF r
    <3> QED
      BY <1>1, <3>1 DEF PolicyRequest
  <2> HIDE DEF q
  <2>4. Held(q) = {RowOf(r.subject)}
    BY <2>3 DEF Held
  <2>5. RequestFits(q) /\ RowsFitOf(q)
    BY <1>1, <2>2, <2>3, <2>4 DEF RequestFits, RowsFitOf
  <2> QED
    BY <1>0, <1>1, <1>3, <2>1, <2>3, <2>4, <2>5, TakeUpStep
<1> QED
  BY <1>2, <1>3

LEMMA FindNextInv ==
  ASSUME PoliciesInv, NEW a \in PolicyAdmins, FindNext(a)
  PROVE  PoliciesInv'
<1> DEFINE r == policyRequests[a]
           q == [r EXCEPT !.at = "get", !.stack = Append(@, RowOf(r.subject))]
<1>0. /\ PermissionTypeOK /\ OneRowEach /\ RequestsFit /\ RowsFit /\ r.at = "next"
      /\ UNCHANGED <<permissionTables, policyAsks, granted, call>>
  BY DEF PoliciesInv, FindNext
<1>1. /\ a \in Working /\ r \in PolicyRequest /\ r.subject \in r.on
      /\ r.subject \in SubjectSet /\ r.rights \in Grants /\ r.stack # <<>> /\ RowsFitOf(r)
      /\ r.stack \in Seq(PolicyIds) /\ tangled \subseteq SubjectSet
  BY <1>0, HeldTypes DEF Working, RequestsFit, RequestFits, PermissionTypeOK, RowsFit, PolicyRequest
<1>2. CASE RowOf(r.subject) \in {NoPolicy, Innermost(r)}
  <2>1. policyRequests' = [policyRequests EXCEPT ![a] = [r EXCEPT !.at = "write"]] /\ tangled' = tangled
    <3>1. Proceed(a, "write") /\ tangled' = tangled
      BY <1>2 DEF FindNext
    <3> QED
      BY <3>1 DEF Proceed
  <2>2. [r EXCEPT !.at = "write"].at = "write" /\ [r EXCEPT !.at = "write"].on = r.on
    BY <1>1 DEF PolicyRequest
  <2> QED
    BY <1>0, <1>1, <2>1, <2>2, ProceedFits, ProceedStep
<1>3. CASE RowOf(r.subject) \notin {NoPolicy, Innermost(r)}
  <2>1. Becomes(a, q)
    BY <1>3 DEF FindNext
  <2>2. /\ RowOf(r.subject) \in PolicyIds /\ policies[RowOf(r.subject)] # NoPolicy
        /\ policies[RowOf(r.subject)].subject = r.subject
    BY <1>1, <1>3, RowFound
  <2>3. /\ q.at = "get" /\ q.subject = r.subject /\ q.rights = r.rights /\ q.on = r.on
        /\ q.stack = Append(r.stack, RowOf(r.subject)) /\ q \in PolicyRequest
    <3>1. Append(r.stack, RowOf(r.subject)) \in Seq(PolicyIds)
      BY <1>1, <2>2
    <3> HIDE DEF r
    <3> QED
      BY <1>1, <3>1 DEF PolicyRequest
  <2> HIDE DEF q
  <2>4. /\ Len(q.stack) = Len(r.stack) + 1 /\ Len(r.stack) \in Nat /\ Len(r.stack) > 0
        /\ q.stack[Len(r.stack) + 1] = RowOf(r.subject)
        /\ \A i \in 1 .. Len(r.stack) : q.stack[i] = r.stack[i]
        /\ q.stack[1] = r.stack[1] /\ q.stack # <<>>
    BY <1>1, <2>2, <2>3
  <2>5. Held(q) = Held(r) \cup {RowOf(r.subject)}
    <3>1. DOMAIN q.stack = 1 .. (Len(r.stack) + 1) /\ DOMAIN r.stack = 1 .. Len(r.stack)
      BY <1>1, <2>2, <2>3
    <3>2. \A i \in DOMAIN q.stack : i \in DOMAIN r.stack \/ i = Len(r.stack) + 1
      BY <2>4, <3>1
    <3>3. Len(r.stack) + 1 \in DOMAIN q.stack /\ \A i \in DOMAIN r.stack : i \in DOMAIN q.stack
      BY <2>4, <3>1
    <3> QED
      BY <2>4, <3>1, <3>2, <3>3 DEF Held
  <2>6. RequestFits(q)
    BY <1>0, <1>1, <2>3, <2>4 DEF RequestFits
  <2>7. ASSUME Clean(r)
        PROVE  Len(r.stack) = 1
    <3>1. Len(r.stack) <= 2
      BY <1>1, <2>7 DEF RowsFitOf
    <3>2. CASE Len(r.stack) = 2
      <4>1. policies[r.stack[2]].subject = r.subject /\ r.stack[2] \in Held(r) /\ r.stack[2] \in PolicyIds
        BY <1>1, <2>7, <3>2 DEF RowsFitOf, Held
      <4>2. policies[r.stack[2]] # NoPolicy
        BY <1>1, <2>7, <4>1 DEF RowsFitOf
      <4>3. RowOf(r.subject) = r.stack[2]
        BY <1>0, <1>1, <4>1, <4>2, RowIs
      <4> QED
        BY <1>3, <3>2, <4>3 DEF Innermost
    <3>3. Len(r.stack) \in {1, 2}
      <4> DEFINE n == Len(r.stack)
      <4>1. n \in Nat /\ n > 0 /\ n <= 2
        BY <2>4, <3>1
      <4> HIDE DEF n
      <4>2. n \in {1, 2}
        BY <4>1
      <4> QED
        BY <4>2 DEF n
    <3> QED
      BY <3>2, <3>3
  <2>8. RowsFitOf(q)
    <3> SUFFICES ASSUME Clean(q)
                 PROVE  RowsFitOf(q)
      BY DEF RowsFitOf
    <3>1. Clean(r)
      BY <2>3 DEF Clean
    <3>2. Len(q.stack) = 2 /\ q.stack[2] = RowOf(r.subject) /\ q.stack[1] # q.stack[2]
      BY <1>3, <2>4, <2>7, <3>1 DEF Innermost
    <3>3. \A id \in Held(q) : policies[id] # NoPolicy
      BY <1>1, <2>2, <2>5, <3>1 DEF RowsFitOf
    <3> QED
      BY <1>0, <1>1, <2>2, <2>3, <2>4, <3>1, <3>2, <3>3 DEF RowsFitOf
  <2> QED
    BY <1>0, <1>1, <1>3, <2>1, <2>3, <2>5, <2>6, <2>8, TakeUpStep
<1> QED
  BY <1>2, <1>3

-----------------------------------------------------------------------------
(* Steps that change rows. *)

LEMMA RowIsNext ==
  ASSUME OneRowEach', NEW s \in SubjectSet, NEW id \in PolicyIds,
         policies'[id] # NoPolicy, policies'[id].subject = s
  PROVE  RowOf(s)' = id /\ RightsOf(s)' = policies'[id].rights
<1>1. RowOf(s)' = id
  BY DEF RowOf, OneRowEach
<1> QED
  BY <1>1, PermissionConstants DEF RightsOf

LEMMA NoRowNext ==
  ASSUME NEW s \in SubjectSet,
         \A id \in PolicyIds : policies'[id] = NoPolicy \/ policies'[id].subject # s
  PROVE  RightsOf(s)' = NoPolicy
  BY DEF RowOf, RightsOf

LEMMA ChangeTypes ==
  ASSUME PermissionTypeOK, NEW rows \in [PolicyIds -> Policy \cup {NoPolicy}], Change(rows)
  PROVE  policies' = rows /\ call' \in Call
<1>1. call \in Call /\ call.possible \in Rights /\ call.steady \subseteq PolicyIds
  BY DEF PermissionTypeOK, Call
<1>2. RightsFrom(PolicyIds, rows) \in Rights
  BY RightsFromIsLeast
<1>3. Joined(call.possible, RightsFrom(PolicyIds, rows)) \in Rights
  BY <1>1, <1>2, JoinedIsLeast
<1>4. {id \in call.steady : rows[id] = policies[id]} \subseteq PolicyIds
  BY <1>1
<1> QED
  BY <1>1, <1>3, <1>4 DEF Change, Call

LEMMA ReturnedFits ==
  ASSUME NEW r \in PolicyRequest, RequestFits(r), r.at \in {"get", "write", "drop"}, Len(r.stack) # 1
  PROVE  /\ Returned(r) \in PolicyRequest /\ RequestFits(Returned(r))
         /\ Returned(r).at = "drop" /\ Returned(r).subject = r.subject
         /\ Returned(r).rights = r.rights /\ Returned(r).on = r.on
         /\ Len(Returned(r).stack) = Len(r.stack) - 1
         /\ \A i \in 1 .. (Len(r.stack) - 1) : Returned(r).stack[i] = r.stack[i]
         /\ Held(Returned(r)) \subseteq Held(r)
<1> DEFINE q == Returned(r)
           n == Len(r.stack)
           rest == SubSeq(r.stack, 1, n - 1)
<1>1. r.stack \in Seq(PolicyIds) /\ n \in Nat /\ r.stack # <<>>
  BY DEF PolicyRequest, RequestFits
<1>2. n > 1
  <2>1. n # 0 /\ n # 1 /\ n \in Nat
    BY <1>1
  <2> HIDE DEF n
  <2> QED
    BY <2>1
<1>3. rest \in Seq(PolicyIds) /\ Len(rest) = n - 1 /\ \A i \in 1 .. (n - 1) : rest[i] = r.stack[i]
  BY <1>1, <1>2
<1>4. /\ q.at = "drop" /\ q.subject = r.subject /\ q.rights = r.rights /\ q.on = r.on
      /\ q.stack = rest /\ q \in PolicyRequest
  <2> HIDE DEF rest
  <2> QED
    BY <1>3 DEF Returned, PolicyRequest, rest
<1>5. Held(q) \subseteq Held(r)
  <2>1. DOMAIN rest = 1 .. (n - 1) /\ DOMAIN r.stack = 1 .. n
    BY <1>1, <1>3
  <2>2. \A i \in 1 .. (n - 1) : i \in 1 .. n
    BY <1>1
  <2> QED
    BY <1>3, <1>4, <2>1, <2>2 DEF Held
<1>6. RequestFits(q)
  <2>1. q.stack # <<>>
    <3>1. Len(q.stack) # 0
      <4> HIDE DEF n, rest, q
      <4> QED
        BY <1>1, <1>2, <1>3, <1>4
    <3> HIDE DEF q
    <3> QED
      BY <3>1
  <2> HIDE DEF q
  <2> QED
    BY <1>4, <2>1 DEF RequestFits
<1> QED
  BY <1>3, <1>4, <1>5, <1>6

LEMMA SucceedFits ==
  ASSUME PermissionTypeOK, RequestsFit, NEW a \in PolicyAdmins, a \in Working, Succeed(a)
  PROVE  /\ policyRequests' = [policyRequests EXCEPT ![a] = NoRequest]
         /\ granted' \in [SubjectSet -> Grants \cup {NoPolicy}]
         /\ GrantsChange(a)
         /\ \A s \in policyRequests[a].on :
              granted'[s] = IF s = policyRequests[a].subject THEN policyRequests[a].rights ELSE NoPolicy
<1> DEFINE r == policyRequests[a]
<1>1. r \in PolicyRequest /\ RequestFits(r) /\ r.at # "idle" /\ r.on \subseteq SubjectSet
  BY HeldTypes DEF PermissionTypeOK, RequestsFit, Working
<1>2. policyRequests' = [policyRequests EXCEPT ![a] = NoRequest]
      /\ granted' = [s \in SubjectSet |-> IF s = r.subject THEN r.rights
                                          ELSE IF s \in r.on THEN NoPolicy ELSE granted[s]]
  BY DEF Succeed, Respond
<1>3. r.subject \in SubjectSet => r.subject \in r.on /\ r.rights \in Grants
  BY <1>1, PermissionConstants DEF RequestFits
<1>4. granted' \in [SubjectSet -> Grants \cup {NoPolicy}]
  BY <1>2, <1>3 DEF PermissionTypeOK
<1>5. GrantsChange(a)
  BY <1>2, <1>3 DEF GrantsChange
<1> QED
  BY <1>1, <1>2, <1>4, <1>5

\* The request has done its work: its subjects have what it asked for.
LEMMA SucceedStep ==
  ASSUME PoliciesInv, NEW a \in PolicyAdmins, a \in Working, Succeed(a), RowsChange(a),
         tangled' = tangled, policyAsks' = policyAsks, call' \in Call,
         policies' \in [PolicyIds -> Policy \cup {NoPolicy}],
         created' = created \/ (created' = created + 1 /\ a \in Creating),
         \A id \in PolicyIds : id > created' => policies'[id] = NoPolicy,
         \A s \in policyRequests[a].on \ tangled :
           RightsOf(s)' = IF s = policyRequests[a].subject THEN policyRequests[a].rights ELSE NoPolicy
  PROVE  PoliciesInv'
<1>0. PermissionTypeOK /\ RequestsFit /\ tangled' \subseteq SubjectSet
  BY DEF PoliciesInv, PermissionTypeOK
<1>1. NoRequest \in PolicyRequest /\ RequestFits(NoRequest) /\ NoRequest.at = "idle"
  BY NoRequestFits
<1>2. /\ policyRequests' = [policyRequests EXCEPT ![a] = NoRequest]
      /\ granted' \in [SubjectSet -> Grants \cup {NoPolicy}]
      /\ GrantsChange(a)
      /\ \A s \in policyRequests[a].on :
           granted'[s] = IF s = policyRequests[a].subject THEN policyRequests[a].rights ELSE NoPolicy
  BY <1>0, SucceedFits
<1>3. /\ ApartOrTangled' /\ RequestChanges(a) /\ policyRequests'[a] = NoRequest
      /\ \A b \in PolicyAdmins \ {a} : policyRequests'[b] = policyRequests[b]
      /\ policyRequests' \in [PolicyAdmins -> PolicyRequest]
  BY <1>1, <1>2, GoingOn
<1>4. OwnFits(a)
  <2>1. a \notin Working'
    BY <1>1, <1>3 DEF Working
  <2> QED
    BY <1>2, <2>1 DEF OwnFits
<1> QED
  BY <1>0, <1>1, <1>2, <1>3, <1>4, RequestStep

\* Of a request that met another, nothing is promised.
LEMMA TangledReturnInv ==
  ASSUME PoliciesInv, NEW a \in PolicyAdmins, policyRequests[a].at \in {"get", "write", "drop"},
         policyRequests[a].on \subseteq tangled, Return(a, policyRequests[a]), RowsChange(a),
         tangled' = tangled, policyAsks' = policyAsks, created' = created, call' \in Call,
         policies' \in [PolicyIds -> Policy \cup {NoPolicy}],
         \A id \in PolicyIds : id > created' => policies'[id] = NoPolicy
  PROVE  PoliciesInv'
<1> DEFINE r == policyRequests[a]
<1>0. /\ PermissionTypeOK /\ RequestsFit /\ a \in Working /\ tangled' \subseteq SubjectSet
      /\ r \in PolicyRequest /\ RequestFits(r)
  BY DEF PoliciesInv, PermissionTypeOK, Working, RequestsFit
<1>1. CASE Len(r.stack) = 1
  <2>1. Succeed(a)
    BY <1>1 DEF Return
  <2> QED
    BY <1>0, <2>1, SucceedStep
<1>2. CASE Len(r.stack) # 1
  <2>1. policyRequests' = [policyRequests EXCEPT ![a] = Returned(r)] /\ granted' = granted
    BY <1>2 DEF Return
  <2>2. /\ Returned(r) \in PolicyRequest /\ RequestFits(Returned(r))
        /\ Returned(r).at = "drop" /\ Returned(r).on = r.on /\ Held(Returned(r)) \subseteq Held(r)
    BY <1>0, <1>2, ReturnedFits
  <2>3. /\ ApartOrTangled' /\ RequestChanges(a) /\ policyRequests'[a] = Returned(r)
        /\ \A b \in PolicyAdmins \ {a} : policyRequests'[b] = policyRequests[b]
        /\ policyRequests' \in [PolicyAdmins -> PolicyRequest]
    BY <1>0, <2>1, <2>2, GoingOn
  <2>4. GrantsChange(a) /\ granted' \in [SubjectSet -> Grants \cup {NoPolicy}]
    BY <1>0, <2>1 DEF GrantsChange, PermissionTypeOK
  <2>5. OwnFits(a)
    BY <2>2, <2>3 DEF OwnFits, RowsFitOf, MergedFitsOf, Clean
  <2> QED
    BY <1>0, <2>2, <2>3, <2>4, <2>5, RequestStep
<1> QED
  BY <1>1, <1>2

LEMMA InsertPolicyInv ==
  ASSUME PoliciesInv, NEW a \in PolicyAdmins, InsertPolicy(a)
  PROVE  PoliciesInv'
<1> DEFINE r == policyRequests[a]
<1>0. /\ PermissionTypeOK /\ OneRowEach /\ IdsFit /\ RequestsFit /\ r.at = "insert"
      /\ policyAsks' = policyAsks /\ tangled' = tangled
  BY DEF PoliciesInv, InsertPolicy
<1>1. /\ a \in Working /\ a \in Creating /\ r \in PolicyRequest /\ r.on = {r.subject}
      /\ r.subject \in SubjectSet /\ r.rights \in Grants /\ tangled \subseteq SubjectSet
  BY <1>0, HeldTypes DEF Working, Creating, RequestsFit, RequestFits, PermissionTypeOK
<1>2. CASE RowOf(r.subject) # NoPolicy
  <2>1. Respond(a, granted) /\ UNCHANGED <<permissionTables, call>>
    BY <1>2 DEF InsertPolicy
  <2>2. policyRequests' = [policyRequests EXCEPT ![a] = NoRequest] /\ granted' = granted
    BY <2>1 DEF Respond
  <2> QED
    BY <1>0, <1>1, <2>1, <2>2, NoRequestFits, ProceedStep
<1>3. CASE RowOf(r.subject) = NoPolicy
  <2> DEFINE row  == [subject |-> r.subject, rights |-> r.rights]
             rows == [policies EXCEPT ![created + 1] = row]
  <2>1. Change(rows) /\ created' = created + 1 /\ Succeed(a)
    BY <1>3 DEF InsertPolicy
  <2>2. created + 1 \in PolicyIds
    <3>1. Cardinality(Creating) \in Nat /\ Cardinality(Creating) # 0
      BY <1>0, <1>1, FS_CardinalityType, FS_EmptySet DEF IdsFit
    <3> QED
      BY <1>0, <3>1, PermissionConstants DEF IdsFit, PermissionTypeOK, PolicyIds
  <2>3. row \in Policy /\ row.subject = r.subject /\ row.rights = r.rights
    BY <1>1 DEF Policy
  <2>4. rows \in [PolicyIds -> Policy \cup {NoPolicy}]
    BY <1>0, <2>3 DEF PermissionTypeOK
  <2>5. policies' = rows /\ call' \in Call
    BY <1>0, <2>1, <2>4, ChangeTypes
  <2> HIDE DEF row
  <2>6. RowsChange(a)
    <3>1. created < created + 1 /\ policies' = [policies EXCEPT ![created + 1] = row]
      BY <1>0, <2>5 DEF PermissionTypeOK
    <3> HIDE DEF rows
    <3> QED
      BY <1>1, <1>3, <2>2, <2>3, <3>1 DEF RowsChange
  <2>7. OneRowEach'
    BY <2>6, RowsStep
  <2>8. policies'[created + 1] = row /\ row # NoPolicy
    BY <1>0, <2>2, <2>3, <2>5, PermissionConstants DEF PermissionTypeOK
  <2>9. ASSUME NEW s \in r.on
        PROVE  RightsOf(s)' = r.rights
    BY <1>1, <2>2, <2>3, <2>7, <2>8, RowIsNext
  <2>10. \A id \in PolicyIds : id > created' => policies'[id] = NoPolicy
    <3>1. \A id \in PolicyIds : id > created + 1 => id # created + 1 /\ id > created
      BY <1>0 DEF PermissionTypeOK, PolicyIds
    <3>2. \A id \in PolicyIds : id # created + 1 => policies'[id] = policies[id]
      BY <1>0, <2>5 DEF PermissionTypeOK
    <3> QED
      BY <1>0, <2>1, <3>1, <3>2 DEF IdsFit
  <2>11. policies' \in [PolicyIds -> Policy \cup {NoPolicy}]
    BY <2>4, <2>5
  <2> HIDE DEF rows
  <2> QED
    BY <1>0, <1>1, <2>1, <2>5, <2>6, <2>9, <2>10, <2>11, SucceedStep
<1> QED
  BY <1>2, <1>3

LEMMA GetPolicyInv ==
  ASSUME PoliciesInv, NEW a \in PolicyAdmins, GetPolicy(a)
  PROVE  PoliciesInv'
<1> DEFINE r == policyRequests[a]
<1>0. /\ PermissionTypeOK /\ RequestsFit /\ RowsFit /\ IdsFit /\ r.at = "get"
      /\ UNCHANGED <<permissionTables, policyAsks, call, tangled>>
  BY DEF PoliciesInv, GetPolicy
<1>1. /\ a \in Working /\ r \in PolicyRequest /\ RowsFitOf(r) /\ tangled \subseteq SubjectSet
      /\ r.stack # <<>> /\ r.stack \in Seq(PolicyIds) /\ r.subject \in r.on
  BY <1>0 DEF Working, RequestsFit, RequestFits, PermissionTypeOK, RowsFit, PolicyRequest
<1>2. CASE policies[Innermost(r)] # NoPolicy
  <2>1. policyRequests' = [policyRequests EXCEPT ![a] = [r EXCEPT !.at = "next"]] /\ granted' = granted
    <3>1. Proceed(a, "next") /\ granted' = granted
      BY <1>2 DEF GetPolicy
    <3> QED
      BY <3>1 DEF Proceed
  <2>2. [r EXCEPT !.at = "next"].at = "next" /\ [r EXCEPT !.at = "next"].on = r.on
    BY <1>1 DEF PolicyRequest
  <2> QED
    BY <1>0, <1>1, <2>1, <2>2, ProceedFits, ProceedStep
<1>3. CASE policies[Innermost(r)] = NoPolicy /\ Len(r.stack) = 1
  <2>1. policyRequests' = [policyRequests EXCEPT ![a] = NoRequest] /\ granted' = granted
    BY <1>3 DEF GetPolicy, Respond
  <2> QED
    BY <1>0, <1>1, <2>1, NoRequestFits, ProceedStep
<1>4. CASE policies[Innermost(r)] = NoPolicy /\ Len(r.stack) # 1
  <2>1. Return(a, r)
    BY <1>4 DEF GetPolicy
  <2>2. Innermost(r) \in Held(r)
    BY <1>1 DEF Innermost, Held
  <2>3. r.on \subseteq tangled
    BY <1>1, <1>4, <2>2 DEF RowsFitOf, Clean
  <2>4. /\ policies' = policies /\ created' = created /\ call' = call /\ tangled' = tangled
        /\ policyAsks' = policyAsks
    BY <1>0 DEF permissionTables
  <2>5. /\ RowsChange(a) /\ call' \in Call /\ policies' \in [PolicyIds -> Policy \cup {NoPolicy}]
        /\ \A id \in PolicyIds : id > created' => policies'[id] = NoPolicy
    BY <1>0, <2>4 DEF RowsChange, PermissionTypeOK, IdsFit
  <2> QED
    BY <1>0, <2>1, <2>3, <2>4, <2>5, TangledReturnInv
<1> QED
  BY <1>2, <1>3, <1>4

LEMMA PolicyRequestFailsInv ==
  ASSUME PoliciesInv, NEW a \in PolicyAdmins, PolicyRequestFails(a)
  PROVE  PoliciesInv'
<1>1. /\ PermissionTypeOK /\ a \in Working
      /\ UNCHANGED <<permissionTables, policyAsks, granted, call>>
      /\ tangled \subseteq tangled' /\ policyRequests[a].on \subseteq tangled'
      /\ policyRequests' = [policyRequests EXCEPT ![a] = NoRequest]
  BY DEF PoliciesInv, PolicyRequestFails
<1>2. tangled' \subseteq SubjectSet
  BY <1>1, HeldTypes DEF PolicyRequestFails, PermissionTypeOK
<1> QED
  BY <1>1, <1>2, NoRequestFits, ProceedStep

\* A row goes: the types, and whom it was the row of.
LEMMA RowGoes ==
  ASSUME PoliciesInv, NEW a \in Working, NEW id \in Held(policyRequests[a]),
         Change([policies EXCEPT ![id] = NoPolicy]), created' = created
  PROVE  /\ call' \in Call /\ policies' \in [PolicyIds -> Policy \cup {NoPolicy}]
         /\ RowsChange(a) /\ OneRowEach'
         /\ \A i \in PolicyIds : policies'[i] = IF i = id THEN NoPolicy ELSE policies[i]
         /\ \A i \in PolicyIds : i > created' => policies'[i] = NoPolicy
<1> DEFINE rows == [policies EXCEPT ![id] = NoPolicy]
<1>0. PermissionTypeOK /\ IdsFit /\ a \in PolicyAdmins /\ id \in PolicyIds
  BY HeldTypes DEF PoliciesInv, Working, PermissionTypeOK
<1>1. rows \in [PolicyIds -> Policy \cup {NoPolicy}]
  BY <1>0 DEF PermissionTypeOK
<1>2. policies' = rows /\ call' \in Call
  BY <1>0, <1>1, ChangeTypes
<1>3. RowsChange(a)
  <2>1. NoPolicy \in Policy \cup {NoPolicy}
    OBVIOUS
  <2> QED
    BY <1>0, <1>2, <2>1 DEF RowsChange
<1>4. \A i \in PolicyIds : policies'[i] = IF i = id THEN NoPolicy ELSE policies[i]
  BY <1>0, <1>2 DEF PermissionTypeOK
<1> QED
  BY <1>0, <1>1, <1>2, <1>3, <1>4, RowsStep DEF IdsFit

LEMMA RemovePolicyInv ==
  ASSUME PoliciesInv, NEW a \in PolicyAdmins, RemovePolicy(a)
  PROVE  PoliciesInv'
<1> DEFINE r == policyRequests[a]
<1>0. /\ PermissionTypeOK /\ OneRowEach /\ RequestsFit /\ RowsFit /\ r.at = "delete"
      /\ Change([policies EXCEPT ![Innermost(r)] = NoPolicy]) /\ Succeed(a)
      /\ created' = created /\ policyAsks' = policyAsks /\ tangled' = tangled
  BY DEF PoliciesInv, RemovePolicy
<1>1. /\ a \in Working /\ r \in PolicyRequest /\ RowsFitOf(r) /\ r.subject = NoPolicy
      /\ r.stack # <<>> /\ r.stack \in Seq(PolicyIds) /\ r.on \subseteq SubjectSet
  BY <1>0, HeldTypes DEF Working, RequestsFit, RequestFits, PermissionTypeOK, RowsFit, PolicyRequest
<1>2. Innermost(r) \in Held(r) /\ Innermost(r) \in PolicyIds
  BY <1>1 DEF Innermost, Held
<1>3. /\ call' \in Call /\ policies' \in [PolicyIds -> Policy \cup {NoPolicy}]
      /\ RowsChange(a) /\ OneRowEach'
      /\ \A i \in PolicyIds : policies'[i] = IF i = Innermost(r) THEN NoPolicy ELSE policies[i]
      /\ \A i \in PolicyIds : i > created' => policies'[i] = NoPolicy
  BY <1>0, <1>1, <1>2, RowGoes
<1>4. ASSUME NEW s \in r.on \ tangled
      PROVE  RightsOf(s)' = NoPolicy /\ s # r.subject
  <2>1. /\ Clean(r) /\ Len(r.stack) = 1 /\ s = policies[r.stack[1]].subject
        /\ policies[r.stack[1]] # NoPolicy
    BY <1>0, <1>1, <1>2 DEF RowsFitOf, Clean, Innermost
  <2>2. Innermost(r) = r.stack[1]
    BY <2>1 DEF Innermost
  <2>3. \A i \in PolicyIds : policies'[i] = NoPolicy \/ policies'[i].subject # s
    BY <1>0, <1>2, <1>3, <2>1, <2>2 DEF OneRowEach
  <2> QED
    BY <1>1, <2>3, NoRowNext, PermissionConstants
<1> QED
  BY <1>0, <1>1, <1>3, <1>4, SucceedStep

LEMMA DropMergedInv ==
  ASSUME PoliciesInv, NEW a \in PolicyAdmins, DropMerged(a)
  PROVE  PoliciesInv'
<1> DEFINE r == policyRequests[a]
<1>0. /\ PermissionTypeOK /\ OneRowEach /\ RequestsFit /\ RowsFit /\ MergedFits /\ r.at = "drop"
      /\ Change([policies EXCEPT ![Innermost(r)] = NoPolicy]) /\ Return(a, r)
      /\ created' = created /\ policyAsks' = policyAsks /\ tangled' = tangled
  BY DEF PoliciesInv, DropMerged
<1>1. /\ a \in Working /\ r \in PolicyRequest /\ RowsFitOf(r) /\ MergedFitsOf(a)
      /\ r.stack # <<>> /\ r.stack \in Seq(PolicyIds) /\ r.on \subseteq SubjectSet
      /\ r.subject \in r.on
  BY <1>0, HeldTypes DEF Working, RequestsFit, RequestFits, PermissionTypeOK, RowsFit, PolicyRequest, MergedFits
<1>2. Innermost(r) \in Held(r) /\ Innermost(r) \in PolicyIds
  BY <1>1 DEF Innermost, Held
<1>3. /\ call' \in Call /\ policies' \in [PolicyIds -> Policy \cup {NoPolicy}]
      /\ RowsChange(a) /\ OneRowEach'
      /\ \A i \in PolicyIds : policies'[i] = IF i = Innermost(r) THEN NoPolicy ELSE policies[i]
      /\ \A i \in PolicyIds : i > created' => policies'[i] = NoPolicy
  BY <1>0, <1>1, <1>2, RowGoes
<1>4. CASE r.on \subseteq tangled
  BY <1>0, <1>3, <1>4, TangledReturnInv
<1>5. CASE Clean(r)
  <2>1. /\ Len(r.stack) = 1 /\ r.on = {r.subject, policies[r.stack[1]].subject}
        /\ policies[r.stack[1]] # NoPolicy
    BY <1>0, <1>1, <1>2, <1>5 DEF RowsFitOf, Innermost
  <2>2. Innermost(r) = r.stack[1] /\ Succeed(a)
    BY <1>0, <2>1 DEF Innermost, Return
  <2>3. ASSUME NEW s \in r.on \ tangled
        PROVE  RightsOf(s)' = IF s = r.subject THEN r.rights ELSE NoPolicy
    <3>1. CASE s = r.subject
      <4>1. /\ RowOf(s) # NoPolicy /\ policies[RowOf(s)].rights = r.rights
            /\ policies[r.stack[1]].subject # s
        BY <1>0, <1>1, <1>5, <3>1 DEF MergedFitsOf
      <4>2. RowOf(s) \in PolicyIds /\ policies[RowOf(s)] # NoPolicy /\ policies[RowOf(s)].subject = s
        BY <1>1, <4>1, RowFound
      <4>3. RowOf(s) # Innermost(r)
        BY <2>2, <4>1, <4>2
      <4>4. ASSUME NEW id \in PolicyIds, id = RowOf(s)
            PROVE  RightsOf(s)' = r.rights
        BY <1>1, <1>3, <4>1, <4>2, <4>3, <4>4, RowIsNext
      <4> QED
        BY <3>1, <4>2, <4>4
    <3>2. CASE s # r.subject
      <4>1. s = policies[r.stack[1]].subject
        BY <2>1, <3>2
      <4>2. \A i \in PolicyIds : policies'[i] = NoPolicy \/ policies'[i].subject # s
        BY <1>0, <1>2, <1>3, <2>1, <2>2, <4>1 DEF OneRowEach
      <4> QED
        BY <1>1, <3>2, <4>2, NoRowNext
    <3> QED
      BY <3>1, <3>2
  <2> QED
    BY <1>0, <1>1, <1>3, <2>2, <2>3, SucceedStep
<1> QED
  BY <1>4, <1>5 DEF Clean

LEMMA WritePolicyInv ==
  ASSUME PoliciesInv, NEW a \in PolicyAdmins, WritePolicy(a)
  PROVE  PoliciesInv'
<1> DEFINE r == policyRequests[a]
           last == Innermost(r)
<1>0. /\ PermissionTypeOK /\ OneRowEach /\ RequestsFit /\ RowsFit /\ IdsFit /\ GrantedFits
      /\ ApartOrTangled /\ r.at = "write"
      /\ created' = created /\ policyAsks' = policyAsks /\ tangled' = tangled
  BY DEF PoliciesInv, WritePolicy
<1>1. /\ a \in Working /\ r \in PolicyRequest /\ RequestFits(r) /\ RowsFitOf(r)
      /\ r.stack # <<>> /\ r.stack \in Seq(PolicyIds) /\ r.on \subseteq SubjectSet
      /\ r.subject \in r.on /\ r.subject \in SubjectSet /\ r.rights \in Grants
      /\ tangled' \subseteq SubjectSet
  BY <1>0, HeldTypes DEF Working, RequestsFit, RequestFits, PermissionTypeOK, RowsFit, PolicyRequest
<1>2. last \in Held(r) /\ last \in PolicyIds
  BY <1>1 DEF Innermost, Held
<1>3. CASE RowOf(r.subject) \notin {NoPolicy, last}
  <2>1. Respond(a, granted) /\ policies' = policies /\ call' = call
    BY <1>3 DEF WritePolicy
  <2>2. policyRequests' = [policyRequests EXCEPT ![a] = NoRequest] /\ granted' = granted
    BY <2>1 DEF Respond
  <2>3. UNCHANGED <<permissionTables, policyAsks, granted, call>>
    BY <1>0, <2>1, <2>2 DEF permissionTables
  <2> QED
    BY <1>0, <1>1, <2>2, <2>3, NoRequestFits, ProceedStep
<1>4. CASE RowOf(r.subject) \in {NoPolicy, last} /\ policies[last] = NoPolicy
  <2>1. policies' = policies /\ call' = call /\ Return(a, r)
    BY <1>4 DEF WritePolicy
  <2>2. r.on \subseteq tangled
    BY <1>1, <1>2, <1>4 DEF RowsFitOf, Clean
  <2>3. /\ RowsChange(a) /\ call' \in Call /\ policies' \in [PolicyIds -> Policy \cup {NoPolicy}]
        /\ \A id \in PolicyIds : id > created' => policies'[id] = NoPolicy
    BY <1>0, <2>1 DEF RowsChange, PermissionTypeOK, IdsFit
  <2> QED
    BY <1>0, <2>1, <2>2, <2>3, TangledReturnInv
<1>5. CASE RowOf(r.subject) \in {NoPolicy, last} /\ policies[last] # NoPolicy
  <2> DEFINE row == WrittenBy(r)
             rows == [policies EXCEPT ![last] = row]
  <2>1. Change(rows) /\ Return(a, r)
    BY <1>5 DEF WritePolicy
  <2>2. row \in Policy /\ row.subject = r.subject /\ row.rights = r.rights /\ row # NoPolicy
    BY <1>1, PermissionConstants DEF Policy, WrittenBy
  <2>3. rows \in [PolicyIds -> Policy \cup {NoPolicy}]
    BY <1>0, <2>2 DEF PermissionTypeOK
  <2>4. policies' = rows /\ call' \in Call
    BY <1>0, <2>1, <2>3, ChangeTypes
  <2>5. \A i \in PolicyIds : policies'[i] = IF i = last THEN row ELSE policies[i]
    BY <1>0, <1>2, <2>4 DEF PermissionTypeOK
  <2>6. RowsChange(a)
    <3> HIDE DEF row
    <3> QED
      BY <1>1, <1>2, <1>5, <2>2, <2>4 DEF RowsChange
  <2>7. OneRowEach'
    BY <2>6, RowsStep
  <2>8. \A i \in PolicyIds : i > created' => policies'[i] = NoPolicy
    BY <1>0, <1>5, <2>5 DEF IdsFit
  <2>9. policies' \in [PolicyIds -> Policy \cup {NoPolicy}]
    BY <2>3, <2>4
  <2> HIDE DEF row, rows
  <2>10. ASSUME NEW s \in SubjectSet, s = r.subject
         PROVE  RowOf(s)' = last /\ RightsOf(s)' = r.rights
    BY <1>2, <2>2, <2>5, <2>7, <2>10, RowIsNext
  <2>11. CASE r.on \subseteq tangled
    BY <1>0, <2>1, <2>4, <2>6, <2>8, <2>9, <2>11, TangledReturnInv
  <2>12. CASE Clean(r) /\ Len(r.stack) = 1
    <3>1. last = r.stack[1] /\ Succeed(a)
      BY <2>1, <2>12 DEF Innermost, Return
    <3>2. ASSUME NEW s \in r.on \ tangled, s # r.subject
          PROVE  RightsOf(s)' = NoPolicy
      <4>1. s = policies[last].subject
        BY <1>0, <1>1, <2>12, <3>1, <3>2 DEF RowsFitOf
      <4>2. \A i \in PolicyIds : policies'[i] = NoPolicy \/ policies'[i].subject # s
        BY <1>0, <1>2, <1>5, <2>2, <2>5, <3>2, <4>1 DEF OneRowEach
      <4> QED
        BY <1>1, <4>2, NoRowNext
    <3>3. \A s \in r.on \ tangled : RightsOf(s)' = IF s = r.subject THEN r.rights ELSE NoPolicy
      BY <1>1, <2>10, <3>2
    <3> QED
      BY <1>0, <1>1, <2>4, <2>6, <2>8, <2>9, <3>1, <3>3, SucceedStep
  <2>13. CASE Clean(r) /\ Len(r.stack) # 1
    <3> DEFINE q == Returned(r)
    <3>1. policyRequests' = [policyRequests EXCEPT ![a] = q] /\ granted' = granted
      BY <2>1, <2>13 DEF Return
    <3>2. /\ q \in PolicyRequest /\ RequestFits(q) /\ q.at = "drop" /\ q.subject = r.subject
          /\ q.rights = r.rights /\ q.on = r.on /\ Held(q) \subseteq Held(r)
          /\ Len(q.stack) = Len(r.stack) - 1
          /\ \A i \in 1 .. (Len(r.stack) - 1) : q.stack[i] = r.stack[i]
      BY <1>0, <1>1, <2>13, ReturnedFits
    <3>3. /\ ApartOrTangled' /\ RequestChanges(a) /\ policyRequests'[a] = q
          /\ \A b \in PolicyAdmins \ {a} : policyRequests'[b] = policyRequests[b]
          /\ policyRequests' \in [PolicyAdmins -> PolicyRequest]
      BY <1>0, <1>1, <3>1, <3>2, GoingOn
    <3>4. GrantsChange(a) /\ granted' \in [SubjectSet -> Grants \cup {NoPolicy}]
      BY <1>0, <3>1 DEF GrantsChange, PermissionTypeOK
    <3>5. Len(r.stack) = 2
      <4>1. Len(r.stack) \in Nat /\ Len(r.stack) # 0 /\ Len(r.stack) <= 2
        BY <1>1, <2>13 DEF RowsFitOf
      <4> DEFINE n == Len(r.stack)
      <4>2. n \in Nat /\ n # 0 /\ n # 1 /\ n <= 2
        BY <2>13, <4>1
      <4> HIDE DEF n
      <4>3. n = 2
        BY <4>2
      <4> QED
        BY <4>3 DEF n
    <3>6. /\ last = r.stack[2] /\ Len(q.stack) = 1 /\ q.stack[1] = r.stack[1] /\ r.stack[1] # last
          /\ r.stack[1] \in Held(r) /\ r.stack[1] \in PolicyIds /\ policies[last].subject = r.subject
          /\ policies[r.stack[1]] # NoPolicy /\ r.on = {r.subject, policies[r.stack[1]].subject}
      <4>1. last = r.stack[2]
        BY <3>5 DEF Innermost
      <4>2. 1 \in DOMAIN r.stack /\ 1 \in 1 .. (Len(r.stack) - 1)
        BY <1>1, <3>5
      <4>3. r.stack[1] \in Held(r) /\ r.stack[1] \in PolicyIds
        BY <1>1, <4>2 DEF Held
      <4> QED
        BY <1>0, <1>1, <2>13, <3>2, <3>5, <4>1, <4>2, <4>3 DEF RowsFitOf
    <3>7. policies'[r.stack[1]] = policies[r.stack[1]] /\ policies[r.stack[1]].subject # r.subject
      BY <1>0, <1>2, <1>5, <2>5, <3>6 DEF OneRowEach
    <3>8. Held(q) = {r.stack[1]}
      <4>1. q.stack \in Seq(PolicyIds) /\ DOMAIN q.stack = {1}
        BY <3>2, <3>6 DEF PolicyRequest
      <4> HIDE DEF q
      <4> QED
        BY <3>6, <4>1 DEF Held
    <3> HIDE DEF q
    <3>9. RowsFitOf(policyRequests[a])'
      BY <3>2, <3>3, <3>6, <3>7, <3>8 DEF RowsFitOf
    <3>10. MergedFitsOf(a)'
      <4>1. \A b \in Working' \ {a} : last \notin Held(policyRequests'[b])
        BY <1>0, <1>1, <1>2, <2>13, <3>3 DEF ApartOrTangled, Meet, Working, Clean
      <4> QED
        BY <1>1, <1>2, <2>2, <2>5, <2>10, <3>2, <3>3, <3>6, <3>7, <4>1, PermissionConstants DEF MergedFitsOf
    <3>11. ASSUME NEW s \in SubjectSet \ tangled', s \in r.on
           PROVE  \/ RightsOf(s)' = granted'[s]
                  \/ \E b \in Working' : s = policyRequests'[b].subject /\ policyRequests'[b].at = "drop"
      <4>1. CASE s = r.subject
        BY <1>1, <3>2, <3>3, <4>1 DEF Working
      <4>2. CASE s # r.subject
        <5>1. RightsOf(s)' = RightsOf(s)
          BY <1>0, <2>2, <2>5, <2>7, <3>6, <4>2, RightsStay
        <5>2. ASSUME NEW b \in Working, s = policyRequests[b].subject, policyRequests[b].at = "drop"
              PROVE  FALSE
          <6>1. s \in policyRequests[b].on /\ b # a
            BY <1>0, <5>2 DEF RequestsFit, RequestFits, Working
          <6> QED
            BY <1>0, <1>1, <2>13, <3>11, <6>1 DEF ApartOrTangled, Meet, Clean
        <5> QED
          BY <1>0, <3>1, <3>11, <5>1, <5>2 DEF GrantedFits
      <4> QED
        BY <4>1, <4>2
    <3>12. OwnFits(a)
      BY <3>9, <3>10, <3>11 DEF OwnFits
    <3> QED
      BY <1>0, <1>1, <2>4, <2>6, <2>8, <2>9, <3>2, <3>3, <3>4, <3>12, RequestStep
  <2> QED
    BY <2>11, <2>12, <2>13 DEF Clean
<1> QED
  BY <1>3, <1>4, <1>5

LEMMA PolicyStepInv ==
  ASSUME PoliciesInv, PolicyStep
  PROVE  PoliciesInv'
  BY PostPolicyInv, PutPolicyInv, DeletePolicyInv, FindExistingInv, InsertPolicyInv, GetPolicyInv,
     FindNextInv, WritePolicyInv, DropMergedInv, RemovePolicyInv, PolicyRequestFailsInv
  DEF PolicyStep

LEMMA PoliciesKept ==
  ASSUME PoliciesInv, call' \in Call,
         UNCHANGED <<permissionTables, policyRequests, policyAsks, granted, tangled>>
  PROVE  PoliciesInv'
<1>1. /\ policies' = policies /\ created' = created /\ policyRequests' = policyRequests
      /\ policyAsks' = policyAsks /\ granted' = granted /\ tangled' = tangled
  BY DEF permissionTables
<1>2. /\ Working' = Working /\ Creating' = Creating
      /\ \A s : RowOf(s)' = RowOf(s) /\ RightsOf(s)' = RightsOf(s)
  BY <1>1 DEF Working, Creating, RowOf, RightsOf
<1>3. PermissionTypeOK' /\ OneRowEach' /\ IdsFit' /\ RequestsFit' /\ ApartOrTangled' /\ RowsOwned'
  BY <1>1, <1>2 DEF PoliciesInv, PermissionTypeOK, OneRowEach, IdsFit, RequestsFit,
                    ApartOrTangled, RowsOwned
<1>4. RowsFit' /\ MergedFits' /\ GrantedFits'
  <2>1. RowsFit'
    BY <1>1, <1>2 DEF PoliciesInv, RowsFit, RowsFitOf, Clean
  <2>2. MergedFits'
    BY <1>1, <1>2 DEF PoliciesInv, MergedFits, MergedFitsOf, Clean, RowOf
  <2>3. GrantedFits'
    BY <1>1, <1>2 DEF PoliciesInv, GrantedFits
  <2> QED
    BY <2>1, <2>2, <2>3
<1> QED
  BY <1>3, <1>4 DEF PoliciesInv

LEMMA PermissionInitInv == PermissionInit => PoliciesInv /\ DecisionInv
<1> SUFFICES ASSUME PermissionInit
             PROVE  PoliciesInv /\ DecisionInv
  OBVIOUS
<1>1. Working = {} /\ Creating = {}
  BY DEF PermissionInit, Working, Creating, NoRequest
<1>2. NoRequest \in PolicyRequest /\ RequestFits(NoRequest) /\ Held(NoRequest) = {}
  BY NoRequestFits DEF Held, NoRequest
<1>3. call \in Call /\ call.at = "idle" /\ call.steady = {}
  <2>1. Baseline \in Rights
    BY PermissionConstants
  <2>2. 1 \in 1 .. (Len(Subjects) + 1)
    BY PermissionConstants
  <2> QED
    BY <2>1, <2>2 DEF PermissionInit, NoCall, Call
<1>4. PermissionTypeOK
  BY <1>2, <1>3, PermissionConstants DEF PermissionInit, PermissionTypeOK
<1>5. OneRowEach /\ ApartOrTangled /\ RowsOwned /\ RowsFit /\ MergedFits
  BY <1>1 DEF PermissionInit, OneRowEach, ApartOrTangled, RowsOwned, RowsFit, MergedFits
<1>6. IdsFit /\ RequestsFit
  BY <1>1, <1>2, FS_EmptySet DEF PermissionInit, IdsFit, RequestsFit
<1>7. GrantedFits
  <2>1. \A s \in SubjectSet : RightsOf(s) = NoPolicy
    BY PermissionConstants DEF PermissionInit, RowOf, RightsOf
  <2> QED
    BY <2>1 DEF PermissionInit, GrantedFits
<1>8. DecisionInv
  BY <1>3 DEF DecisionInv, ReadingFits, SteadyFits, ExecutedIsEntitled, DeniedIsNotEntitled
<1> QED
  BY <1>4, <1>5, <1>6, <1>7, <1>8 DEF PoliciesInv

\* Policies are as they were asked for.
LEMMA PoliciesAsAsked ==
  ASSUME PoliciesInv
  PROVE  PoliciesAreAsAsked
<1> SUFFICES ASSUME NEW s \in SubjectSet \ tangled, RightsOf(s) # granted[s]
             PROVE  \E a \in Working :
                      /\ s \in policyRequests[a].on /\ policyRequests[a].subject # NoPolicy
                      /\ RightsOf(policyRequests[a].subject) = policyRequests[a].rights
  BY DEF PoliciesAreAsAsked
<1>1. PICK a \in Working : s = policyRequests[a].subject /\ policyRequests[a].at = "drop"
  BY DEF PoliciesInv, GrantedFits
<1>2. s \in policyRequests[a].on
  BY <1>1 DEF PoliciesInv, RequestsFit, RequestFits, Working
<1>3. RowOf(s) # NoPolicy /\ policies[RowOf(s)].rights = policyRequests[a].rights
  BY <1>1, <1>2 DEF PoliciesInv, MergedFits, MergedFitsOf, Clean
<1> QED
  BY <1>1, <1>2, <1>3, PermissionConstants DEF RightsOf

-----------------------------------------------------------------------------
(* The decision on a call. *)

\* A request changes rows as the decision is told, or leaves both alone.
LEMMA PolicyStepChanges ==
  ASSUME PoliciesInv, PolicyStep
  PROVE  \/ policies' = policies /\ call' = call
         \/ \E rows \in [PolicyIds -> Policy \cup {NoPolicy}] : Change(rows)
<1>0. PermissionTypeOK /\ RequestsFit
  BY DEF PoliciesInv
<1>1. ASSUME NEW a \in PolicyAdmins, InsertPolicy(a)
      PROVE  \/ policies' = policies /\ call' = call
             \/ \E rows \in [PolicyIds -> Policy \cup {NoPolicy}] : Change(rows)
  <2> DEFINE row == [subject |-> policyRequests[a].subject, rights |-> policyRequests[a].rights]
             rows == [policies EXCEPT ![created + 1] = row]
  <2>1. policyRequests[a].subject \in SubjectSet /\ policyRequests[a].rights \in Grants
    BY <1>0, <1>1, HeldTypes DEF InsertPolicy, RequestsFit, RequestFits, PermissionTypeOK
  <2>2. row \in Policy
    BY <2>1 DEF Policy
  <2>3. rows \in [PolicyIds -> Policy \cup {NoPolicy}]
    BY <1>0, <2>2 DEF PermissionTypeOK
  <2>4. Change(rows) \/ (policies' = policies /\ call' = call)
    BY <1>1 DEF InsertPolicy, permissionTables
  <2> QED
    BY <2>3, <2>4
<1>2. ASSUME NEW a \in PolicyAdmins, WritePolicy(a)
      PROVE  \/ policies' = policies /\ call' = call
             \/ \E rows \in [PolicyIds -> Policy \cup {NoPolicy}] : Change(rows)
  <2> DEFINE r == policyRequests[a]
             rows == [policies EXCEPT ![Innermost(r)] = WrittenBy(r)]
  <2>1. r.subject \in SubjectSet /\ r.rights \in Grants
    BY <1>0, <1>2, HeldTypes DEF WritePolicy, RequestsFit, RequestFits, PermissionTypeOK
  <2>2. WrittenBy(r) \in Policy
    BY <2>1 DEF Policy, WrittenBy
  <2>3. rows \in [PolicyIds -> Policy \cup {NoPolicy}]
    BY <1>0, <2>2 DEF PermissionTypeOK
  <2>4. Change(rows) \/ (policies' = policies /\ call' = call)
    BY <1>2 DEF WritePolicy
  <2> QED
    BY <2>3, <2>4
<1>3. ASSUME NEW a \in PolicyAdmins, DropMerged(a) \/ RemovePolicy(a)
      PROVE  \E rows \in [PolicyIds -> Policy \cup {NoPolicy}] : Change(rows)
  <2> DEFINE rows == [policies EXCEPT ![Innermost(policyRequests[a])] = NoPolicy]
  <2>1. rows \in [PolicyIds -> Policy \cup {NoPolicy}]
    BY <1>0 DEF PermissionTypeOK
  <2>2. Change(rows)
    BY <1>3 DEF DropMerged, RemovePolicy
  <2> QED
    BY <2>1, <2>2
<1>4. ASSUME NEW a \in PolicyAdmins, NEW request, Begin(a, request)
      PROVE  policies' = policies /\ call' = call
  BY <1>4 DEF Begin, permissionTables
<1>5. ASSUME NEW a \in PolicyAdmins,
             FindExisting(a) \/ GetPolicy(a) \/ FindNext(a) \/ PolicyRequestFails(a)
      PROVE  policies' = policies /\ call' = call
  BY <1>5 DEF FindExisting, GetPolicy, FindNext, PolicyRequestFails, permissionTables
<1> QED
  BY <1>1, <1>2, <1>3, <1>4, <1>5 DEF PolicyStep, PostPolicy, PutPolicy, DeletePolicy

\* Rows change: what is possible grows by what they give, what is steady loses them.
LEMMA ChangeDecisionInv ==
  ASSUME PoliciesInv, DecisionInv, NEW rows \in [PolicyIds -> Policy \cup {NoPolicy}], Change(rows)
  PROVE  DecisionInv'
<1> DEFINE before == RightsFrom(PolicyIds, rows)
           steady == {id \in call.steady : rows[id] = policies[id]}
<1>0. /\ PermissionTypeOK /\ ReadingFits /\ SteadyFits /\ ExecutedIsEntitled /\ DeniedIsNotEntitled
      /\ call \in Call /\ policies' = rows /\ Needed \in Rights /\ Baseline \in Rights
  BY PermissionConstants DEF PoliciesInv, DecisionInv, PermissionTypeOK, Change
<1>1. before \in Rights /\ call.possible \in Rights /\ call.steady \in SUBSET PolicyIds
  BY <1>0, RightsFromIsLeast DEF Call
<1>2. /\ call'.at = call.at /\ call'.next = call.next /\ call'.level = call.level
      /\ call'.scopes = call.scopes /\ call'.possible = Joined(call.possible, before)
      /\ call'.steady = steady
  BY <1>0 DEF Call, Change
<1>3. /\ Below(call.possible, call'.possible) /\ Below(before, call'.possible)
      /\ call'.possible \in Rights
  <2> HIDE DEF before
  <2> QED
    BY <1>1, <1>2, JoinedIsLeast
<1>4. before = RightsFrom(PolicyIds, policies)'
  BY <1>0 DEF RightsFrom
<1>5. Have' = Have
  BY <1>2 DEF Have
<1>6. SteadyFits'
  BY <1>0, <1>2 DEF SteadyFits
<1>7. ReadingFits'
  <2> SUFFICES ASSUME call.at = "read"
               PROVE  ReadingFits'
    BY <1>2 DEF ReadingFits
  <2>1. Have \in Rights
    BY <1>0 DEF Have, Call, Rights
  <2>2. Below(Have, call'.possible)
    BY <1>0, <1>1, <1>3, <2>1, BelowTrans DEF ReadingFits
  <2>3. \A id \in call'.steady : \A i \in 1 .. (call'.next - 1) :
          policies'[id].subject = Subjects[i] => Below(policies'[id].rights, Have)
    BY <1>0, <1>2 DEF ReadingFits
  <2>4. Below(Baseline, Have)
    BY <1>0 DEF ReadingFits
  <2> HIDE DEF before
  <2>5. Below(RightsFrom(PolicyIds, policies)', call'.possible)
    BY <1>3, <1>4
  <2>6. Below(Have', call'.possible) /\ Below(Baseline, Have')
    BY <1>5, <2>2, <2>4
  <2>7. \A id \in call'.steady : \A i \in 1 .. (call'.next - 1) :
          policies'[id].subject = Subjects[i] => Below(policies'[id].rights, Have')
    BY <1>5, <2>3
  <2> QED
    BY <2>5, <2>6, <2>7 DEF ReadingFits
<1>8. ExecutedIsEntitled'
  <2> SUFFICES ASSUME call.at = "executed"
               PROVE  Suffices(call'.possible)
    BY <1>2 DEF ExecutedIsEntitled
  <2>1. Suffices(call.possible)
    BY <1>0 DEF ExecutedIsEntitled
  <2> QED
    BY <1>0, <1>1, <1>3, <2>1 DEF Suffices, Below, Rights
<1>9. DeniedIsNotEntitled'
  <2> SUFFICES ASSUME call.at = "denied"
               PROVE  ~Suffices(RightsFrom(steady, rows))
    BY <1>0, <1>2 DEF DeniedIsNotEntitled, RightsFrom
  <2> DEFINE old == RightsFrom(call.steady, policies)
             new == RightsFrom(steady, rows)
  <2>1. ~Suffices(old)
    BY <1>0 DEF DeniedIsNotEntitled
  <2>2. old \in Rights /\ Below(Baseline, old)
        /\ \A id \in call.steady : policies[id] # NoPolicy => Below(policies[id].rights, old)
    BY <1>0, <1>1, RightsFromIsLeast DEF PermissionTypeOK
  <2>3. \A id \in steady : rows[id] # NoPolicy => Below(rows[id].rights, old)
    BY <2>2
  <2>4. steady \in SUBSET PolicyIds
    BY <1>1
  <2>5. new \in Rights /\ Below(new, old)
    <3> HIDE DEF old, steady
    <3> QED
      BY <2>2, <2>3, <2>4, RightsFromIsLeast
  <2> HIDE DEF old, new
  <2>6. ~Suffices(new)
    BY <1>0, <2>1, <2>2, <2>5 DEF Suffices, Below, Rights
  <2> QED
    BY <2>6 DEF new
<1> QED
  BY <1>6, <1>7, <1>8, <1>9 DEF DecisionInv

\* A decision begins, at first or when the call is confirmed.
LEMMA EvaluationInv ==
  ASSUME PoliciesInv, NEW d \in BOOLEAN, NEW c \in BOOLEAN, call' = Evaluation(d, c),
         policies' = policies
  PROVE  call' \in Call /\ DecisionInv'
<1> DEFINE here == RightsFrom(PolicyIds, policies)
           steady == {id \in PolicyIds : policies[id] # NoPolicy}
<1>0. /\ policies \in [PolicyIds -> Policy \cup {NoPolicy}] /\ Baseline \in Rights
      /\ 1 \in 1 .. (Len(Subjects) + 1)
  BY PermissionConstants DEF PoliciesInv, PermissionTypeOK
<1>1. here \in Rights /\ Below(Baseline, here)
  BY <1>0, RightsFromIsLeast
<1> HIDE DEF here
<1>2. call' = [at |-> "read", dangerous |-> d, confirmed |-> c, next |-> 1,
               level |-> Baseline.level, scopes |-> Baseline.scopes, possible |-> here,
               steady |-> steady]
  BY DEF Evaluation, NoCall, here
<1>3. call' \in Call
  BY <1>0, <1>1, <1>2 DEF Call, Rights
<1>4. Have' = [level |-> Baseline.level, scopes |-> Baseline.scopes]
  BY <1>2 DEF Have
<1>5. here = RightsFrom(PolicyIds, policies)'
  BY DEF RightsFrom, here
<1>6. Below(Have', here) /\ Below(Baseline, Have')
  BY <1>0, <1>1, <1>4 DEF Below, Rights
<1>7. Below(here, here)
  BY <1>1 DEF Below, Rights
<1>8. ReadingFits'
  BY <1>2, <1>5, <1>6, <1>7 DEF ReadingFits
<1>9. SteadyFits' /\ ExecutedIsEntitled' /\ DeniedIsNotEntitled'
  BY <1>2 DEF SteadyFits, ExecutedIsEntitled, DeniedIsNotEntitled
<1> QED
  BY <1>3, <1>8, <1>9 DEF DecisionInv

LEMMA ReadSubjectInv ==
  ASSUME PoliciesInv, DecisionInv, ReadSubject
  PROVE  call' \in Call /\ DecisionInv'
<1> DEFINE s == Subjects[call.next]
           found == RightsOf(s)
           have == IF found = NoPolicy THEN Have ELSE Joined(Have, found)
           here == RightsFrom(PolicyIds, policies)
<1>0. /\ PermissionTypeOK /\ OneRowEach /\ ReadingFits /\ SteadyFits /\ call \in Call
      /\ call.at = "read" /\ policies' = policies
      /\ call.next \in 1 .. Len(Subjects) /\ s \in SubjectSet
      /\ call.possible \in Rights /\ call.steady \in SUBSET PolicyIds
      /\ Baseline \in Rights
  BY PermissionConstants DEF PoliciesInv, DecisionInv, PermissionTypeOK, ReadSubject, Call,
     permissionTables, SubjectSet
<1>1. Have \in Rights
  BY <1>0 DEF Have, Call, Rights
<1>2. here \in Rights /\ \A id \in PolicyIds : policies[id] # NoPolicy => Below(policies[id].rights, here)
  BY <1>0, RightsFromIsLeast DEF PermissionTypeOK
<1>3. found # NoPolicy => found \in Rights /\ Below(found, here)
  <2>1. CASE RowOf(s) = NoPolicy
    BY <1>0, <2>1, RowFound
  <2>2. CASE RowOf(s) # NoPolicy
    <3>1. PICK id \in PolicyIds : policies[id] # NoPolicy /\ found = policies[id].rights
      BY <1>0, <2>2, RowFound
    <3>2. policies[id].rights \in Rights
      BY <1>0, <3>1, PermissionConstants DEF PermissionTypeOK, Policy
    <3> QED
      BY <1>2, <3>1, <3>2
  <2> QED
    BY <2>1, <2>2
<1>4. call' = [call EXCEPT !.next = call.next + 1, !.level = have.level, !.scopes = have.scopes]
  BY DEF ReadSubject
<1>5. /\ have \in Rights /\ Below(Have, have) /\ (found # NoPolicy => Below(found, have))
      /\ Below(have, call.possible)
  <2>1. Below(Have, Have)
    BY <1>1 DEF Below, Rights
  <2>2. Below(Have, call.possible) /\ Below(here, call.possible)
    BY <1>0 DEF ReadingFits
  <2> HIDE DEF found, here
  <2>3. found # NoPolicy => Below(found, call.possible)
    BY <1>0, <1>2, <1>3, <2>2, BelowTrans
  <2> QED
    BY <1>0, <1>1, <1>3, <2>1, <2>2, <2>3, JoinedIsLeast
<1>6. ASSUME NEW id \in call.steady, policies[id].subject = s
      PROVE  found # NoPolicy /\ policies[id].rights = found
  <2>1. policies[id] # NoPolicy /\ id \in PolicyIds
    BY <1>0 DEF SteadyFits
  <2>2. RightsOf(s) = policies[id].rights
    BY <1>0, <1>6, <2>1, RowIs
  <2>3. policies[id].rights # NoPolicy
    BY <1>0, <2>1, PermissionConstants DEF PermissionTypeOK, Policy
  <2> QED
    BY <2>2, <2>3
<1>7. \A id \in call.steady : policies[id] # NoPolicy /\ policies[id].rights \in Rights
  BY <1>0, PermissionConstants DEF SteadyFits, PermissionTypeOK, Policy
<1> HIDE DEF found, have, here
<1>8. /\ call'.at = "read" /\ call'.next = call.next + 1 /\ call'.possible = call.possible
      /\ call'.steady = call.steady /\ call'.level = have.level /\ call'.scopes = have.scopes
  BY <1>0, <1>4 DEF Call
<1>9. Have' = have
  BY <1>5, <1>8 DEF Have, Rights
<1>10. call' \in Call
  <2>1. call.next + 1 \in 1 .. (Len(Subjects) + 1)
    BY <1>0, PermissionConstants
  <2>2. have.level \in 0 .. 5 /\ have.scopes \in SUBSET STRING
    BY <1>5 DEF Rights
  <2> QED
    BY <1>0, <1>4, <2>1, <2>2 DEF Call
<1>11. Below(Baseline, have)
  BY <1>0, <1>1, <1>5, BelowTrans DEF ReadingFits
<1>12. ASSUME NEW id \in call'.steady, NEW i \in 1 .. (call'.next - 1),
              policies'[id].subject = Subjects[i]
       PROVE  Below(policies'[id].rights, have)
  <2>1. id \in call.steady /\ policies'[id] = policies[id] /\ policies[id].rights \in Rights
    BY <1>0, <1>7, <1>8
  <2>2. CASE i = call.next
    BY <1>0, <1>5, <1>6, <1>12, <2>1, <2>2
  <2>3. CASE i # call.next
    <3>1. i \in 1 .. (call.next - 1)
      BY <1>0, <1>8, <1>12, <2>3
    <3>2. Below(policies[id].rights, Have)
      BY <1>0, <1>12, <2>1, <3>1 DEF ReadingFits
    <3> QED
      BY <1>1, <1>5, <2>1, <3>2, BelowTrans
  <2> QED
    BY <2>2, <2>3
<1>13. Below(RightsFrom(PolicyIds, policies)', call'.possible)
  BY <1>0, <1>8 DEF ReadingFits, RightsFrom
<1>14. ReadingFits'
  BY <1>5, <1>8, <1>9, <1>11, <1>12, <1>13 DEF ReadingFits
<1>15. SteadyFits' /\ ExecutedIsEntitled' /\ DeniedIsNotEntitled'
  BY <1>0, <1>8 DEF SteadyFits, ExecutedIsEntitled, DeniedIsNotEntitled
<1> QED
  BY <1>10, <1>14, <1>15 DEF DecisionInv

LEMMA DecideInv ==
  ASSUME PoliciesInv, DecisionInv, Decide
  PROVE  call' \in Call /\ DecisionInv'
<1>0. /\ PermissionTypeOK /\ OneRowEach /\ ReadingFits /\ SteadyFits /\ call \in Call
      /\ call.at = "read" /\ policies' = policies
      /\ call.next \in 1 .. (Len(Subjects) + 1) /\ call.next > Len(Subjects)
      /\ call.possible \in Rights /\ call.steady \in SUBSET PolicyIds
      /\ Baseline \in Rights /\ Needed \in Rights
  BY PermissionConstants DEF PoliciesInv, DecisionInv, PermissionTypeOK, Decide, Call,
     permissionTables
<1>1. Have \in Rights
  BY <1>0 DEF Have, Call, Rights
<1>2. Decision \in {"denied", "waiting", "executed"}
      /\ (Decision = "executed" => Suffices(Have)) /\ (Decision = "denied" => ~Suffices(Have))
  BY DEF Decision
<1>3. call' \in Call /\ call'.at = Decision /\ call'.possible = call.possible
      /\ call'.steady = call.steady
  <2> HIDE DEF Decision
  <2> QED
    BY <1>0, <1>2 DEF Decide, Call
<1>4. SteadyFits' /\ ReadingFits'
  BY <1>0, <1>2, <1>3 DEF SteadyFits, ReadingFits
<1>5. ExecutedIsEntitled'
  <2> SUFFICES ASSUME Suffices(Have)
               PROVE  Suffices(call.possible)
    BY <1>2, <1>3 DEF ExecutedIsEntitled
  <2>1. Below(Have, call.possible)
    BY <1>0 DEF ReadingFits
  <2> QED
    BY <1>0, <1>1, <2>1 DEF Suffices, Below, Rights
<1>6. DeniedIsNotEntitled'
  <2> DEFINE new == RightsFrom(call.steady, policies)
  <2> SUFFICES ASSUME ~Suffices(Have)
               PROVE  ~Suffices(new)
    BY <1>0, <1>2, <1>3 DEF DeniedIsNotEntitled, RightsFrom
  <2>1. ASSUME NEW id \in call.steady
        PROVE  Below(policies[id].rights, Have)
    <3>1. policies[id] # NoPolicy /\ policies[id].subject \in SubjectSet
      BY <1>0 DEF SteadyFits, PermissionTypeOK, Policy
    <3>2. PICK i \in 1 .. Len(Subjects) : policies[id].subject = Subjects[i]
      BY <3>1, PermissionConstants DEF SubjectSet
    <3>3. i \in 1 .. (call.next - 1)
      BY <1>0, PermissionConstants
    <3> QED
      BY <1>0, <3>2, <3>3 DEF ReadingFits
  <2>2. Below(Baseline, Have)
    BY <1>0 DEF ReadingFits
  <2>3. new \in Rights /\ Below(new, Have)
    BY <1>0, <1>1, <2>1, <2>2, RightsFromIsLeast DEF PermissionTypeOK
  <2> HIDE DEF new
  <2> QED
    BY <1>0, <1>1, <2>3 DEF Suffices, Below, Rights
<1> QED
  BY <1>3, <1>4, <1>5, <1>6 DEF DecisionInv

LEMMA CallEndsInv ==
  ASSUME CallEnds
  PROVE  call' \in Call /\ DecisionInv'
<1>1. call' = NoCall
  BY DEF CallEnds
<1>2. NoCall \in Call
  <2>1. Baseline \in Rights /\ 1 \in 1 .. (Len(Subjects) + 1)
    BY PermissionConstants
  <2> QED
    BY <2>1 DEF NoCall, Call
<1>3. call'.at = "idle" /\ call'.steady = {}
  BY <1>1 DEF NoCall
<1> QED
  BY <1>1, <1>2, <1>3 DEF DecisionInv, ReadingFits, SteadyFits, ExecutedIsEntitled, DeniedIsNotEntitled

LEMMA DecisionKept ==
  ASSUME DecisionInv, policies' = policies, call' = call
  PROVE  DecisionInv'
<1>1. Have' = Have /\ RightsFrom(PolicyIds, policies)' = RightsFrom(PolicyIds, policies)
      /\ RightsFrom(call.steady, policies)' = RightsFrom(call.steady, policies)
  BY DEF Have, RightsFrom
<1>2. ReadingFits'
  BY <1>1 DEF DecisionInv, ReadingFits
<1>3. SteadyFits' /\ ExecutedIsEntitled' /\ DeniedIsNotEntitled'
  BY <1>1 DEF DecisionInv, SteadyFits, ExecutedIsEntitled, DeniedIsNotEntitled
<1> QED
  BY <1>2, <1>3 DEF DecisionInv

-----------------------------------------------------------------------------
(* The inductive invariant: models. *)

\* A refresh is over the models of one provider, and knows which of them the provider lists; a
\* selection is of a model.
RefreshesFit ==
  \A a \in Admins :
    /\ requests[a].at \in {"mark", "upsert"} =>
         requests[a].of \in Providers /\ requests[a].left \subseteq ModelsOf(requests[a].of)
    /\ requests[a].at = "select" => requests[a].of \in Models

\* The model has the status it was given last, unless a refresh took it away: there is one
\* such refresh, it has read that status, and it will write it again.
ChoiceFits(m) ==
  /\ chosen[m] # "unavailable"
  /\ \A a, b \in Refreshing(ProviderOf[m]) : a = b
  /\ \A a \in Refreshing(ProviderOf[m]) :
       /\ requests[a].at = "mark" => m \in requests[a].left
       /\ m \in requests[a].left => requests[a].seen[m] = chosen[m]
  /\ \/ catalog[m] = chosen[m]
     \/ \E a \in Refreshing(ProviderOf[m]) : requests[a].at = "upsert" /\ m \in requests[a].left

ChoicesFit == \A m \in Models \ unsure : ChoiceFits(m)

ModelInv == ModelTypeOK /\ RefreshesFit /\ ChoicesFit

-----------------------------------------------------------------------------
(* The inductive invariant: the conversation. *)

Listed == {"listed", "summarize", "store"}

\* Nothing is summarised that is not one of the n messages, or that was not listed.
JobFits(job, n) ==
  /\ job.seen.covered \subseteq 1 .. n
  /\ job.listed <= n
  /\ job.at \in Listed => job.seen.covered \subseteq 1 .. job.listed
  /\ job.at = "store" => job.text \subseteq 1 .. job.listed

SummariesFit ==
  /\ settings.covered \subseteq 1 .. count
  /\ \A c \in Actors : JobFits(jobs[c], count)

\* Summaries reach as far as it is said, but for the messages they have missed.
JobReaches(job) ==
  /\ 1 .. job.seen.until \subseteq job.seen.covered \cup job.seen.missed
  /\ job.at = "store" => 1 .. Until(job) \subseteq job.text \cup job.missed

SummariesReach ==
  /\ SummaryReachesItsEnd
  /\ \A c \in Actors : JobReaches(jobs[c])

\* The run is where its compaction, or its update of the settings, is under way.
HandlerFits ==
  /\ jobs["agent"].at # "idle" => run.at = "compact"
  /\ updates["agent"] # None => run.at = "update"

\* As long as the handler is alone, what it found is what it would find again.
ModelsFit ==
  run.alone =>
    /\ run.at \in {"command", "load", "compact", "call"} => run.checked = Checked(RunSelections)
    /\ \/ run.at \in {"load", "call"}
       \/ run.at = "compact" /\ ~jobs["agent"].force
       => run.model = Resolved(RunSelections)

ConversationInv ==
  /\ TypeOK /\ ModelInv
  /\ SummariesFit /\ SummariesReach /\ HandlerFits /\ ModelsFit /\ ContextIsComplete

-----------------------------------------------------------------------------
(* Models. *)

LEMMA IdleTypes == Idle \in Request /\ Idle.at = "idle"
  BY ModelConstants DEF Idle, Request, Status, Roles

LEMMA ModelInitInv == ModelInit => ModelInv
<1> SUFFICES ASSUME ModelInit
             PROVE  ModelInv
  OBVIOUS
<1>1. /\ providers = [p \in Providers |-> "active"] /\ catalog = [m \in Models |-> "enabled"]
      /\ \E m \in Models \cup {None} : selected = [default |-> m, summary |-> None]
      /\ requests = [a \in Admins |-> Idle] /\ made = 0 /\ faults = 0 /\ chosen = catalog
      /\ unsure = {}
  BY DEF ModelInit
<1>2. selected \in [Roles -> Models \cup {None}]
  BY <1>1 DEF Roles
<1>3. ModelTypeOK
  BY <1>1, <1>2, IdleTypes, ModelConstants DEF ModelTypeOK, Status
<1>4. \A p : Refreshing(p) = {}
  BY <1>1, IdleTypes DEF Refreshing
<1>5. RefreshesFit /\ ChoicesFit
  BY <1>1, <1>4, IdleTypes DEF RefreshesFit, ChoicesFit, ChoiceFits
<1> QED
  BY <1>3, <1>5 DEF ModelInv

\* One model's status is as certain as before.
LEMMA ChoiceStays ==
  ASSUME NEW m \in Models, ChoiceFits(m),
         Refreshing(ProviderOf[m])' = Refreshing(ProviderOf[m]),
         \A a \in Refreshing(ProviderOf[m]) : requests'[a] = requests[a],
         catalog'[m] = catalog[m], chosen'[m] = chosen[m]
  PROVE  ChoiceFits(m)'
  BY DEF ChoiceFits

\* A request that refreshes no model of the provider, before and after, is of no account.
LEMMA RefreshingStays ==
  ASSUME NEW a \in Admins, \A b \in Admins \ {a} : requests'[b] = requests[b], NEW p,
         requests[a].at \in {"mark", "upsert"} => requests[a].of # p,
         requests'[a].at \in {"mark", "upsert"} => requests'[a].of # p
  PROVE  /\ Refreshing(p)' = Refreshing(p)
         /\ \A b \in Refreshing(p) : requests'[b] = requests[b]
  BY DEF Refreshing

\* Requests for a selection, the last one before and after.
LEMMA SelectionInv ==
  ASSUME ModelInv, NEW a \in Admins, NEW r \in Request,
         requests' = [requests EXCEPT ![a] = r],
         requests[a].at \notin {"mark", "upsert"}, r.at \notin {"mark", "upsert"},
         r.at = "select" => r.of \in Models,
         catalog' = catalog, chosen' = chosen, unsure' = unsure
  PROVE  RefreshesFit' /\ ChoicesFit'
<1>0. ModelTypeOK /\ RefreshesFit /\ ChoicesFit
  BY DEF ModelInv
<1>1. RefreshesFit'
  BY <1>0 DEF RefreshesFit, ModelTypeOK, ModelsOf
<1>2. ASSUME NEW m \in Models \ unsure'
      PROVE  ChoiceFits(m)'
  <2>1. ChoiceFits(m)
    BY <1>0 DEF ChoicesFit
  <2>2. requests'[a] = r /\ \A b \in Admins \ {a} : requests'[b] = requests[b]
    BY <1>0 DEF ModelTypeOK
  <2> QED
    BY <2>1, <2>2, RefreshingStays, ChoiceStays
<1> QED
  BY <1>1, <1>2 DEF ChoicesFit

LEMMA RefreshInv ==
  ASSUME ModelInv, NEW a \in Admins, NEW p \in Providers, Refresh(a, p)
  PROVE  ModelInv'
<1>0. /\ ModelTypeOK /\ RefreshesFit /\ ChoicesFit /\ requests[a] = Idle /\ made' = made + 1
      /\ made < MaxRequests
      /\ UNCHANGED <<providers, catalog, selected, chosen, faults>>
  BY DEF ModelInv, Refresh, Ask
<1>1. PICK listed \in SUBSET ModelsOf(p) :
        /\ requests' = [requests EXCEPT ![a] = [Idle EXCEPT !.at = "mark", !.of = p,
                                                            !.seen = Seen(p), !.left = listed]]
        /\ unsure' = unsure \cup (IF Refreshing(p) = {} THEN ModelsOf(p) \ listed ELSE ModelsOf(p))
  BY DEF Refresh
<1> DEFINE r == [Idle EXCEPT !.at = "mark", !.of = p, !.seen = Seen(p), !.left = listed]
<1>2. requests' = [requests EXCEPT ![a] = r]
  BY <1>1
<1>3. Seen(p) \in [Models -> Status] /\ listed \subseteq Models
  BY <1>0 DEF Seen, ModelTypeOK, Status, ModelsOf
<1>4. /\ r \in Request /\ r.at = "mark" /\ r.of = p /\ r.seen = Seen(p) /\ r.left = listed
      /\ Idle.at = "idle"
  <2>1. Idle \in Request /\ Idle.at = "idle"
    BY IdleTypes
  <2> QED
    BY <1>3, <2>1 DEF Request
<1> HIDE DEF r
<1>5. ModelTypeOK'
  <2>1. unsure' \subseteq Models
    BY <1>0, <1>1 DEF ModelTypeOK, ModelsOf
  <2>2. requests' \in [Admins -> Request]
    BY <1>0, <1>2, <1>4 DEF ModelTypeOK
  <2>3. made' \in 0 .. MaxRequests
    BY <1>0, ModelConstants DEF ModelTypeOK
  <2> QED
    BY <1>0, <2>1, <2>2, <2>3 DEF ModelTypeOK
<1>6. requests'[a] = r /\ \A b \in Admins \ {a} : requests'[b] = requests[b]
  BY <1>0, <1>2 DEF ModelTypeOK
<1>7. RefreshesFit'
  BY <1>0, <1>4, <1>6 DEF RefreshesFit, ModelsOf
<1>8. ASSUME NEW m \in Models \ unsure'
      PROVE  ChoiceFits(m)'
  <2>1. ChoiceFits(m)
    BY <1>0, <1>1, <1>8 DEF ChoicesFit
  <2>2. CASE ProviderOf[m] # p
    <3>1. requests[a].at = "idle" /\ r.of # ProviderOf[m]
      BY <1>0, <1>4, <2>2, IdleTypes
    <3>2. requests'[a].of # ProviderOf[m]
      BY <1>4, <1>6, <2>2
    <3> QED
      BY <1>0, <1>6, <2>1, <3>1, <3>2, RefreshingStays, ChoiceStays
  <2>3. CASE ProviderOf[m] = p
    <3>1. Refreshing(p) = {} /\ m \in listed
      BY <1>1, <1>8, <2>3 DEF ModelsOf
    <3>2. Refreshing(p)' = {a}
      BY <1>4, <1>6, <3>1 DEF Refreshing
    <3>3. catalog[m] = chosen[m] /\ chosen[m] # "unavailable"
      BY <2>1, <2>3, <3>1 DEF ChoiceFits
    <3>4. requests'[a].at = "mark" /\ requests'[a].left = listed /\ requests'[a].seen[m] = catalog[m]
      BY <1>4, <1>6, <2>3 DEF Seen
    <3> QED
      BY <1>0, <2>3, <3>1, <3>2, <3>3, <3>4 DEF ChoiceFits
  <2> QED
    BY <2>2, <2>3
<1> QED
  BY <1>5, <1>7, <1>8 DEF ModelInv, ChoicesFit

LEMMA MarkUnavailableInv ==
  ASSUME ModelInv, NEW a \in Admins, MarkUnavailable(a)
  PROVE  ModelInv'
<1> DEFINE r == requests[a]
           p == r.of
           q == IF r.left = {} THEN Idle ELSE [r EXCEPT !.at = "upsert"]
<1>0. /\ ModelTypeOK /\ RefreshesFit /\ ChoicesFit /\ r.at = "mark" /\ r \in Request
      /\ catalog' = [m \in Models |-> IF ProviderOf[m] = p THEN "unavailable" ELSE catalog[m]]
      /\ requests' = [requests EXCEPT ![a] = q]
      /\ UNCHANGED <<providers, selected, chosen, unsure, made, faults>>
  BY DEF ModelInv, MarkUnavailable, ModelTypeOK
<1>1. q \in Request
  BY <1>0, IdleTypes DEF Request
<1>2. q.at \in {"mark", "upsert"} => q.at = "upsert" /\ q.of = p /\ q.left = r.left /\ q.seen = r.seen
  BY <1>0, IdleTypes DEF Request
<1>3. q.at # "select" /\ (r.left # {} => q.at = "upsert")
  BY <1>0, IdleTypes DEF Request
<1>4. ModelTypeOK'
  BY <1>0, <1>1 DEF ModelTypeOK, Status
<1> HIDE DEF q
<1>5. requests'[a] = q /\ \A b \in Admins \ {a} : requests'[b] = requests[b]
  BY <1>0 DEF ModelTypeOK
<1>6. RefreshesFit'
  BY <1>0, <1>2, <1>3, <1>5 DEF RefreshesFit, ModelsOf
<1>7. ASSUME NEW m \in Models \ unsure'
      PROVE  ChoiceFits(m)'
  <2>1. ChoiceFits(m)
    BY <1>0, <1>7 DEF ChoicesFit
  <2>2. CASE ProviderOf[m] # p
    <3>1. catalog'[m] = catalog[m]
      BY <1>0, <2>2
    <3> QED
      BY <1>0, <1>2, <1>5, <2>1, <2>2, <3>1, RefreshingStays, ChoiceStays
  <2>3. CASE ProviderOf[m] = p
    <3>1. a \in Refreshing(ProviderOf[m])
      BY <1>0, <2>3 DEF Refreshing
    <3>2. Refreshing(ProviderOf[m]) = {a} /\ m \in r.left /\ r.seen[m] = chosen[m] /\ chosen[m] # "unavailable"
      BY <1>0, <2>1, <2>3, <3>1 DEF ChoiceFits
    <3>3. Refreshing(ProviderOf[m])' = {a}
      BY <1>2, <1>3, <1>5, <2>3, <3>2 DEF Refreshing
    <3>4. q.at = "upsert" /\ q.left = r.left /\ q.seen = r.seen
      BY <1>2, <1>3, <3>2
    <3> QED
      BY <1>0, <1>5, <2>3, <3>2, <3>3, <3>4 DEF ChoiceFits
  <2> QED
    BY <2>2, <2>3
<1> QED
  BY <1>4, <1>6, <1>7 DEF ModelInv, ChoicesFit

LEMMA UpsertModelInv ==
  ASSUME ModelInv, NEW a \in Admins, UpsertModel(a)
  PROVE  ModelInv'
<1> DEFINE r == requests[a]
           p == r.of
<1>0. /\ ModelTypeOK /\ RefreshesFit /\ ChoicesFit /\ r.at = "upsert" /\ r \in Request
      /\ UNCHANGED <<providers, selected, chosen, unsure, made, faults>>
      /\ r.left \subseteq ModelsOf(p) /\ p \in Providers
  BY DEF ModelInv, UpsertModel, ModelTypeOK, RefreshesFit
<1>1. PICK n \in r.left :
        /\ catalog' = [catalog EXCEPT ![n] = RefreshedStatus(r.seen[n])]
        /\ requests' = [requests EXCEPT ![a] = IF r.left = {n} THEN Idle
                                               ELSE [r EXCEPT !.left = @ \ {n}]]
  BY DEF UpsertModel
<1> DEFINE q == IF r.left = {n} THEN Idle ELSE [r EXCEPT !.left = @ \ {n}]
<1>2. q \in Request
  BY <1>0, IdleTypes DEF Request
<1>3. q.at \in {"mark", "upsert"} =>
        q.at = "upsert" /\ q.of = p /\ q.left = r.left \ {n} /\ q.seen = r.seen
  BY <1>0, IdleTypes DEF Request
<1>4. q.at # "select" /\ (r.left # {n} => q.at = "upsert")
  BY <1>0, IdleTypes DEF Request
<1>5. requests' = [requests EXCEPT ![a] = q]
  BY <1>1
<1>6. n \in Models /\ ProviderOf[n] = p /\ r.seen[n] \in Status
  BY <1>0 DEF Request, ModelsOf
<1> HIDE DEF q
<1>7. ModelTypeOK'
  <2>1. RefreshedStatus(r.seen[n]) \in Status
    BY <1>6 DEF RefreshedStatus, Status
  <2>2. catalog' \in [Models -> Status]
    BY <1>0, <1>1, <2>1 DEF ModelTypeOK
  <2> QED
    BY <1>0, <1>2, <1>5, <2>2 DEF ModelTypeOK
<1>8. requests'[a] = q /\ \A b \in Admins \ {a} : requests'[b] = requests[b]
  BY <1>0, <1>5 DEF ModelTypeOK
<1>9. /\ catalog'[n] = RefreshedStatus(r.seen[n])
      /\ \A m \in Models \ {n} : catalog'[m] = catalog[m]
  BY <1>0, <1>1, <1>6 DEF ModelTypeOK
<1>10. RefreshesFit'
  BY <1>0, <1>3, <1>4, <1>8 DEF RefreshesFit, ModelsOf
<1>11. ASSUME NEW m \in Models \ unsure'
       PROVE  ChoiceFits(m)'
  <2>1. ChoiceFits(m)
    BY <1>0, <1>11 DEF ChoicesFit
  <2>2. CASE ProviderOf[m] # p
    <3>1. catalog'[m] = catalog[m]
      BY <1>6, <1>9, <2>2
    <3> QED
      BY <1>0, <1>3, <1>8, <2>1, <2>2, <3>1, RefreshingStays, ChoiceStays
  <2>3. CASE ProviderOf[m] = p
    <3>1. a \in Refreshing(ProviderOf[m])
      BY <1>0, <2>3 DEF Refreshing
    <3>2. /\ Refreshing(ProviderOf[m]) = {a} /\ chosen[m] # "unavailable"
          /\ m \in r.left => r.seen[m] = chosen[m]
          /\ catalog[m] = chosen[m] \/ m \in r.left
      BY <1>0, <2>1, <2>3, <3>1 DEF ChoiceFits
    <3>3. Refreshing(ProviderOf[m])' \subseteq {a}
      BY <1>8, <3>2 DEF Refreshing
    <3>4. m # n /\ m \in r.left => a \in Refreshing(ProviderOf[m])' /\ m \in q.left /\ q.at = "upsert"
      BY <1>3, <1>4, <1>8, <2>3 DEF Refreshing
    <3>5. m = n => catalog'[m] = chosen[m]
      <4>1. ASSUME NEW status \in Status, status # "unavailable"
            PROVE  RefreshedStatus(status) = status
        BY <4>1 DEF RefreshedStatus, Status
      <4> QED
        BY <1>6, <1>9, <3>2, <4>1
    <3>6. a \in Refreshing(ProviderOf[m])' => q.at = "upsert" /\ q.left = r.left \ {n} /\ q.seen = r.seen
      BY <1>3, <1>8 DEF Refreshing
    <3>7. m # n => catalog'[m] = catalog[m]
      BY <1>9
    <3>8. \A b \in Refreshing(ProviderOf[m])' :
            /\ requests'[b].at = "mark" => m \in requests'[b].left
            /\ m \in requests'[b].left => requests'[b].seen[m] = chosen[m]
      BY <1>8, <3>2, <3>3, <3>6
    <3>9. catalog'[m] = chosen[m]
          \/ \E b \in Refreshing(ProviderOf[m])' : requests'[b].at = "upsert" /\ m \in requests'[b].left
      BY <1>8, <3>2, <3>4, <3>5, <3>7
    <3> QED
      BY <1>0, <2>3, <3>2, <3>3, <3>8, <3>9 DEF ChoiceFits
  <2> QED
    BY <2>2, <2>3
<1> QED
  BY <1>7, <1>10, <1>11 DEF ModelInv, ChoicesFit

LEMMA RefreshFailsInv ==
  ASSUME ModelInv, NEW a \in Admins, RefreshFails(a)
  PROVE  ModelInv'
<1> DEFINE r == requests[a]
           p == r.of
<1>0. /\ ModelTypeOK /\ RefreshesFit /\ ChoicesFit /\ r.at \in {"mark", "upsert"} /\ r \in Request
      /\ requests' = [requests EXCEPT ![a] = Idle] /\ faults < MaxFaults /\ faults' = faults + 1
      /\ unsure' = IF r.at = "upsert" THEN unsure \cup r.left ELSE unsure
      /\ UNCHANGED <<providers, catalog, selected, chosen, made>>
  BY DEF ModelInv, RefreshFails, ModelTypeOK
<1>1. ModelTypeOK'
  <2>1. unsure' \subseteq Models
    BY <1>0 DEF ModelTypeOK, Request
  <2>2. faults' \in 0 .. MaxFaults
    BY <1>0, ModelConstants DEF ModelTypeOK
  <2>3. requests' \in [Admins -> Request]
    BY <1>0, IdleTypes DEF ModelTypeOK
  <2> QED
    BY <1>0, <2>1, <2>2, <2>3 DEF ModelTypeOK
<1>2. requests'[a] = Idle /\ \A b \in Admins \ {a} : requests'[b] = requests[b]
  BY <1>0 DEF ModelTypeOK
<1>3. RefreshesFit'
  BY <1>0, <1>2, IdleTypes DEF RefreshesFit, ModelsOf
<1>4. ASSUME NEW m \in Models \ unsure'
      PROVE  ChoiceFits(m)'
  <2>1. ChoiceFits(m)
    BY <1>0, <1>4 DEF ChoicesFit
  <2>2. CASE ProviderOf[m] # p
    BY <1>0, <1>2, <2>1, <2>2, IdleTypes, RefreshingStays, ChoiceStays
  <2>3. CASE ProviderOf[m] = p
    <3>1. a \in Refreshing(ProviderOf[m])
      BY <1>0, <2>3 DEF Refreshing
    <3>2. Refreshing(ProviderOf[m]) = {a}
      BY <2>1, <2>3, <3>1 DEF ChoiceFits
    <3>3. Refreshing(ProviderOf[m])' = {}
      BY <1>2, <3>2, IdleTypes DEF Refreshing
    <3>4. catalog[m] = chosen[m] /\ chosen[m] # "unavailable"
      BY <1>0, <1>4, <2>1, <2>3, <3>2 DEF ChoiceFits
    <3> QED
      BY <1>0, <2>3, <3>3, <3>4 DEF ChoiceFits
  <2> QED
    BY <2>2, <2>3
<1> QED
  BY <1>1, <1>3, <1>4 DEF ModelInv, ChoicesFit

LEMMA SetStatusInv ==
  ASSUME ModelInv, NEW n \in Models, NEW status \in {"available", "enabled", "disabled"},
         SetStatus(n, status)
  PROVE  ModelInv'
<1>0. /\ ModelTypeOK /\ RefreshesFit /\ ChoicesFit /\ made < MaxRequests /\ made' = made + 1
      /\ UNCHANGED <<providers, selected, requests, faults>>
  BY DEF ModelInv, SetStatus, Ask
<1>1. made' \in 0 .. MaxRequests
  BY <1>0, ModelConstants DEF ModelTypeOK
<1>2. RefreshesFit' /\ \A p : Refreshing(p)' = Refreshing(p)
  BY <1>0 DEF RefreshesFit, ModelsOf, Refreshing
<1>3. CASE catalog[n] = "unavailable"
  <2>1. UNCHANGED <<catalog, chosen, unsure>>
    BY <1>3 DEF SetStatus
  <2>2. ModelTypeOK'
    BY <1>0, <1>1, <2>1 DEF ModelTypeOK
  <2>3. ChoicesFit'
    BY <1>0, <1>2, <2>1, ChoiceStays DEF ChoicesFit
  <2> QED
    BY <1>2, <2>2, <2>3 DEF ModelInv
<1>4. CASE catalog[n] # "unavailable"
  <2>1. /\ catalog' = [catalog EXCEPT ![n] = status] /\ chosen' = [chosen EXCEPT ![n] = status]
        /\ unsure' = IF Refreshing(ProviderOf[n]) = {} THEN unsure \ {n} ELSE unsure \cup {n}
    BY <1>4 DEF SetStatus
  <2>2. ModelTypeOK'
    BY <1>0, <1>1, <2>1 DEF ModelTypeOK, Status
  <2>3. ASSUME NEW m \in Models \ unsure'
        PROVE  ChoiceFits(m)'
    <3>1. CASE m = n
      <4>1. Refreshing(ProviderOf[n]) = {}
        BY <2>1, <2>3, <3>1
      <4>2. catalog'[n] = status /\ chosen'[n] = status
        BY <1>0, <2>1 DEF ModelTypeOK
      <4> QED
        BY <1>2, <3>1, <4>1, <4>2 DEF ChoiceFits
    <3>2. CASE m # n
      <4>1. ChoiceFits(m)
        BY <1>0, <2>1, <2>3, <3>2 DEF ChoicesFit
      <4>2. catalog'[m] = catalog[m] /\ chosen'[m] = chosen[m]
        BY <1>0, <2>1, <3>2 DEF ModelTypeOK
      <4> QED
        BY <1>0, <1>2, <4>1, <4>2, ChoiceStays
    <3> QED
      BY <3>1, <3>2
  <2> QED
    BY <1>2, <2>2, <2>3 DEF ModelInv, ChoicesFit
<1> QED
  BY <1>3, <1>4

LEMMA CheckSelectionInv ==
  ASSUME ModelInv, NEW a \in Admins, NEW role \in Roles, NEW m \in Models,
         CheckSelection(a, role, m)
  PROVE  ModelInv'
<1> DEFINE q == IF Refused(m) THEN Idle
                ELSE [Idle EXCEPT !.at = "select", !.of = m, !.role = role]
<1>0. /\ ModelTypeOK /\ requests[a] = Idle /\ made < MaxRequests /\ made' = made + 1
      /\ requests' = [requests EXCEPT ![a] = q]
      /\ UNCHANGED <<providers, catalog, selected, chosen, unsure, faults>>
  BY DEF ModelInv, CheckSelection, Ask
<1>1. q \in Request /\ q.at \notin {"mark", "upsert"} /\ (q.at = "select" => q.of \in Models)
  BY IdleTypes DEF Request, Idle
<1> HIDE DEF q
<1>2. ModelTypeOK'
  <2>1. made' \in 0 .. MaxRequests
    BY <1>0, ModelConstants DEF ModelTypeOK
  <2> QED
    BY <1>0, <1>1, <2>1 DEF ModelTypeOK
<1> QED
  BY <1>0, <1>1, <1>2, IdleTypes, SelectionInv DEF ModelInv

LEMMA StoreSelectionInv ==
  ASSUME ModelInv, NEW a \in Admins, StoreSelection(a)
  PROVE  ModelInv'
<1>0. /\ ModelTypeOK /\ requests[a].at = "select" /\ requests[a] \in Request
      /\ selected' = [selected EXCEPT ![requests[a].role] = requests[a].of]
      /\ requests' = [requests EXCEPT ![a] = Idle]
      /\ UNCHANGED <<providers, catalog, chosen, unsure, made, faults>>
  BY DEF ModelInv, StoreSelection, ModelTypeOK
<1>1. requests[a].of \in Models /\ requests[a].role \in Roles
  BY <1>0 DEF ModelInv, RefreshesFit, Request
<1>2. ModelTypeOK'
  BY <1>0, <1>1, IdleTypes DEF ModelTypeOK
<1> QED
  BY <1>0, <1>2, IdleTypes, SelectionInv DEF ModelInv

LEMMA ModelStepInv ==
  ASSUME ModelInv, ModelStep
  PROVE  ModelInv'
<1>1. ASSUME ClearSummaryRole
      PROVE  ModelInv'
  <2>1. /\ made' \in 0 .. MaxRequests /\ selected' = [selected EXCEPT !["summary"] = None]
        /\ UNCHANGED <<providers, catalog, requests, chosen, unsure, faults>>
    BY <1>1, ModelConstants DEF ClearSummaryRole, Ask, ModelInv, ModelTypeOK
  <2>2. ModelTypeOK'
    BY <2>1 DEF ModelInv, ModelTypeOK, Roles
  <2>3. RefreshesFit' /\ \A p : Refreshing(p)' = Refreshing(p)
    BY <2>1 DEF ModelInv, RefreshesFit, ModelsOf, Refreshing
  <2>4. ChoicesFit'
    BY <2>1, <2>3, ChoiceStays DEF ModelInv, ChoicesFit
  <2> QED
    BY <2>2, <2>3, <2>4 DEF ModelInv
<1>2. ASSUME NEW p \in Providers, DeleteProvider(p)
      PROVE  ModelInv'
  <2>1. /\ made' \in 0 .. MaxRequests /\ providers' = [providers EXCEPT ![p] = "deleted"]
        /\ UNCHANGED <<selected, catalog, requests, chosen, unsure, faults>>
    BY <1>2, ModelConstants DEF DeleteProvider, Ask, ModelInv, ModelTypeOK
  <2>2. ModelTypeOK'
    BY <2>1 DEF ModelInv, ModelTypeOK
  <2>3. RefreshesFit' /\ \A q : Refreshing(q)' = Refreshing(q)
    BY <2>1 DEF ModelInv, RefreshesFit, ModelsOf, Refreshing
  <2>4. ChoicesFit'
    BY <2>1, <2>3, ChoiceStays DEF ModelInv, ChoicesFit
  <2> QED
    BY <2>2, <2>3, <2>4 DEF ModelInv
<1> QED
  BY <1>1, <1>2, RefreshInv, MarkUnavailableInv, UpsertModelInv, RefreshFailsInv, SetStatusInv,
     CheckSelectionInv, StoreSelectionInv DEF ModelStep

\* Steps of the conversation leave the models alone.
LEMMA ModelsKept ==
  ASSUME ModelInv, UNCHANGED <<modelVars, made>>, faults' \in 0 .. MaxFaults
  PROVE  ModelInv'
<1>1. UNCHANGED <<providers, catalog, selected, requests, chosen, unsure, made>>
  BY DEF modelVars
<1>2. RefreshesFit' /\ \A p : Refreshing(p)' = Refreshing(p)
  BY <1>1 DEF ModelInv, RefreshesFit, ModelsOf, Refreshing
<1>3. ChoicesFit'
  BY <1>1, <1>2, ChoiceStays DEF ModelInv, ChoicesFit
<1>4. ModelTypeOK'
  BY <1>1 DEF ModelInv, ModelTypeOK
<1> QED
  BY <1>2, <1>3, <1>4 DEF ModelInv

\* Administrators' choices are kept.
LEMMA ChoicesKept ==
  ASSUME ModelInv
  PROVE  ChoicesAreKept
  BY DEF ModelInv, ChoicesFit, ChoiceFits, ChoicesAreKept, Refreshing

-----------------------------------------------------------------------------
(* How a model is chosen. *)

LEMMA MinOfThree ==
  ASSUME NEW S \in SUBSET {1, 2, 3}, S # {}
  PROVE  Min(S) \in S /\ \A x \in S : Min(S) <= x
<1>1. \E m \in S : \A x \in S : m <= x
  <2>1. CASE 1 \in S
    BY <2>1
  <2>2. CASE 1 \notin S /\ 2 \in S
    BY <2>2
  <2>3. CASE 1 \notin S /\ 2 \notin S
    <3>1. S = {3}
      BY <2>3
    <3> QED
      BY <3>1
  <2> QED
    BY <2>1, <2>2, <2>3
<1> QED
  BY <1>1 DEF Min

\* What is found is a model; and the first selection is the model, if it can be.
LEMMA Found ==
  ASSUME NEW x \in Chosen, NEW y \in Chosen, NEW z \in Chosen, NEW selections,
         selections = <<x, y, z>>
  PROVE  /\ Resolved(selections) \in Models \cup {Env}
         /\ Checked(selections) \in Models \cup {Env}
         /\ Checked(selections) = Env \/ Active(Checked(selections)) =>
              Resolved(selections) = Checked(selections)
<1> DEFINE named == Named(selections)
           usable == Usable(selections)
<1>1. /\ DOMAIN selections = {1, 2, 3} /\ \A i \in {1, 2, 3} : selections[i] \in Chosen
      /\ named \in SUBSET {1, 2, 3} /\ usable \subseteq named
      /\ \A i \in named : selections[i] # None
      /\ \A i \in named : i \in usable <=> Active(selections[i])
  BY DEF Named, Usable
<1>2. Resolved(selections) = FirstOf(selections, usable) /\ Checked(selections) = FirstOf(selections, named)
  BY DEF Resolved, Checked
<1> HIDE DEF named, usable
<1>3. named # {} => Min(named) \in named /\ \A i \in named : Min(named) <= i
  BY <1>1, MinOfThree
<1>4. usable # {} => Min(usable) \in usable /\ \A i \in usable : Min(usable) <= i
  BY <1>1, MinOfThree
<1>5. \A i \in named : selections[i] \in Models
  BY <1>1 DEF Chosen
<1>6. named # {} => Checked(selections) = selections[Min(named)] /\ Checked(selections) \in Models
  BY <1>2, <1>3, <1>5 DEF FirstOf
<1>7. named = {} => usable = {} /\ Checked(selections) = Env /\ Resolved(selections) = Env
  BY <1>1, <1>2 DEF FirstOf
<1>8. usable # {} => Resolved(selections) = selections[Min(usable)] /\ Resolved(selections) \in Models
  BY <1>1, <1>2, <1>4, <1>5 DEF FirstOf
<1>9. usable = {} => Resolved(selections) = Env
  BY <1>2 DEF FirstOf
<1>10. ASSUME named # {}, Active(Checked(selections))
       PROVE  Resolved(selections) = Checked(selections)
  <2>1. Min(named) \in usable
    BY <1>1, <1>3, <1>6, <1>10
  <2>2. Min(usable) = Min(named)
    <3>1. Min(named) \in named /\ Min(usable) \in named /\ Min(usable) <= Min(named)
      BY <1>1, <1>3, <1>4, <1>10, <2>1
    <3>2. Min(named) <= Min(usable)
      BY <1>3, <1>10, <3>1
    <3>3. Min(named) \in {1, 2, 3} /\ Min(usable) \in {1, 2, 3}
      BY <1>1, <3>1
    <3> QED
      BY <3>1, <3>2, <3>3
  <2> QED
    BY <1>6, <1>8, <1>10, <2>1, <2>2
<1> QED
  BY <1>6, <1>7, <1>8, <1>9, <1>10, ModelConstants

-----------------------------------------------------------------------------
(* The handler and its compactions: types. *)

LEMMA NewTypes ==
  /\ NewColumns \in Columns /\ NewSettings \in Settings /\ NoJob \in Job /\ NoRun \in Run
  /\ NewSettings.covered = {} /\ NewSettings.until = 0
  /\ NoJob.at = "idle" /\ NoJob.seen = NewSettings /\ NoJob.listed = 0
  /\ NoRun.at = "idle"
<1>1. None \in Chosen /\ (CHOOSE l \in HistoryLimits : TRUE) \in HistoryLimits
  BY ConversationConstants DEF Chosen
<1>2. NewColumns \in Columns
  BY <1>1 DEF NewColumns, Columns
<1>3. 0 \in 0 .. MaxMessages
  BY ConversationConstants
<1>4. NewSettings \in Settings
  BY <1>2, <1>3 DEF NewSettings, Settings
<1>5. NoJob \in Job
  BY <1>3, <1>4 DEF NoJob, Job
<1>6. NoRun \in Run
  BY <1>1 DEF NoRun, Run
<1> QED
  BY <1>2, <1>4, <1>5, <1>6 DEF NewSettings, NoJob, NoRun

\* A job has bounds that are numbers of messages.
LEMMA JobBounds ==
  ASSUME NEW job \in Job
  PROVE  /\ job.seen \in Settings /\ job.seen.columns \in Columns
         /\ job.seen.covered \subseteq Ids /\ job.text \subseteq Ids
         /\ job.seen.missed \subseteq Ids /\ job.missed \subseteq Ids
         /\ job.listed \in 0 .. MaxMessages /\ job.seen.until \in 0 .. MaxMessages
         /\ Until(job) \in 0 .. MaxMessages /\ Until(job) <= job.listed
         /\ First(job) \in Nat /\ First(job) >= 1
         /\ Old(job) \subseteq 1 .. job.listed
<1>1. /\ job.seen \in Settings /\ job.seen.columns \in Columns
      /\ job.seen.covered \subseteq Ids /\ job.text \subseteq Ids
      /\ job.seen.missed \subseteq Ids /\ job.missed \subseteq Ids
      /\ job.listed \in 0 .. MaxMessages /\ job.seen.until \in 0 .. MaxMessages
  BY DEF Job, Settings
<1>2. MaxMessages \in Nat /\ ScanLimit \in Nat
  BY ConversationConstants
<1>3. job.seen.columns.limit \in Nat /\ job.seen.columns.limit >= 1
  <2>1. job.seen.columns.limit \in HistoryLimits
    BY <1>1 DEF Columns
  <2>2. job.seen.columns.limit \in 1 .. (ScanLimit - 1)
    BY <2>1, ConversationConstants
  <2> QED
    BY <1>2, <2>2
<1> DEFINE l == job.seen.columns.limit
           n == job.listed
<1>4. Until(job) = IF n > l THEN n - l ELSE 0
  BY DEF Until
<1>5. First(job) = IF n > ScanLimit THEN n - ScanLimit + 1 ELSE 1
  BY DEF First
<1> HIDE DEF l, n
<1>6. l \in Nat /\ l >= 1 /\ n \in 0 .. MaxMessages
  BY <1>1, <1>3 DEF l, n
<1>7. Until(job) \in 0 .. MaxMessages /\ Until(job) <= n
  BY <1>2, <1>4, <1>6
<1>8. First(job) \in Nat /\ First(job) >= 1
  BY <1>2, <1>5, <1>6
<1>9. Old(job) \subseteq 1 .. n
  BY <1>2, <1>6, <1>7, <1>8 DEF Old
<1> QED
  BY <1>1, <1>7, <1>8, <1>9 DEF n

LEMMA AnsweringTypes ==
  ASSUME run \in Run
  PROVE  Answering \in Run /\ Answering.at = "reply"
  BY NewTypes DEF Answering, Run

LEMMA SelectionsFound ==
  ASSUME TypeOK
  PROVE  /\ Resolved(RunSelections) \in Models \cup {Env}
         /\ Checked(RunSelections) \in Models \cup {Env}
         /\ Checked(RunSelections) = Env \/ Active(Checked(RunSelections)) =>
              Resolved(RunSelections) = Checked(RunSelections)
<1>1. run.asked \in Chosen /\ settings.columns.model \in Chosen /\ selected["default"] \in Chosen
  BY DEF TypeOK, ModelTypeOK, Run, Settings, Columns, Roles, Chosen
<1> QED
  BY <1>1, Found DEF RunSelections

\* What is found is found again, while nothing that is asked for changes.
LEMMA SelectionsStay ==
  ASSUME TypeOK, run'.asked = run.asked, settings'.columns = settings.columns,
         selected' = selected, providers' = providers
  PROVE  /\ Resolved(RunSelections)' = Resolved(RunSelections)
         /\ Checked(RunSelections)' = Checked(RunSelections)
<1>1. RunSelections' = RunSelections
  BY DEF RunSelections
<1> DEFINE s == RunSelections
<1>2. Named(s)' = Named(s) /\ Usable(s)' = Usable(s)
  BY <1>1 DEF Named, Usable, Active
<1> QED
  BY <1>1, <1>2 DEF Resolved, Checked, FirstOf

LEMMA ChangedTypes ==
  ASSUME NEW columns \in Columns, NEW any \in BOOLEAN
  PROVE  Changed(columns, any) \subseteq Columns
  BY DEF Changed, Columns, Chosen

\* What leaves nothing out up to one message, and has all from there on, leaves nothing out.
LEMMA TwoParts ==
  ASSUME NEW u \in Nat, NEW n \in Nat, u <= n, NEW S \in SUBSET (1 .. n), NEW M,
         1 .. u \subseteq S \cup M
  PROVE  \A i \in S \cup (u + 1 .. n) : 1 .. i \subseteq (S \cup (u + 1 .. n)) \cup M
<1> SUFFICES ASSUME NEW i \in S \cup (u + 1 .. n), NEW k \in 1 .. i
             PROVE  k \in (S \cup (u + 1 .. n)) \cup M
  OBVIOUS
<1>1. i \in 1 .. n
  OBVIOUS
<1>2. k \in 1 .. u \/ k \in u + 1 .. n
  BY <1>1
<1> QED
  BY <1>2

\* A compaction that merges nothing has missed what comes after the end it has seen.
LEMMA UnreadReaches ==
  ASSUME NEW job \in Job, JobReaches(job)
  PROVE  Unread(job) \in SUBSET Ids /\ 1 .. Until(job) \subseteq job.seen.covered \cup Unread(job)
<1> DEFINE u == Until(job)
           v == job.seen.until
<1>1. u \in 0 .. MaxMessages /\ v \in 0 .. MaxMessages /\ job.seen.missed \subseteq Ids
  BY JobBounds
<1>2. 1 .. v \subseteq job.seen.covered \cup job.seen.missed
  BY DEF JobReaches
<1>3. Unread(job) = job.seen.missed \cup (v + 1 .. u)
  BY DEF Unread
<1> HIDE DEF u, v
<1>4. (v + 1 .. u) \subseteq Ids
  BY <1>1, ConversationConstants DEF Ids
<1>5. \A i \in 1 .. u : i \in 1 .. v \/ i \in v + 1 .. u
  BY <1>1, ConversationConstants
<1> QED
  BY <1>1, <1>2, <1>3, <1>4, <1>5 DEF u

\* One that merges what it has listed has missed what lies between that end and its scan.
LEMMA OutrunReaches ==
  ASSUME NEW job \in Job, JobReaches(job)
  PROVE  Outrun(job) \in SUBSET Ids /\ 1 .. Until(job) \subseteq Summarised(job) \cup Outrun(job)
<1> DEFINE u == Until(job)
           v == job.seen.until
           f == First(job)
           n == job.listed
<1>1. /\ u \in 0 .. MaxMessages /\ v \in 0 .. MaxMessages /\ job.seen.missed \subseteq Ids
      /\ f \in Nat /\ n \in 0 .. MaxMessages /\ f <= n + 1
  <2>1. job.listed \in 0 .. MaxMessages /\ First(job) <= job.listed + 1
    BY JobBounds, ConversationConstants DEF First
  <2> QED
    BY <2>1, JobBounds
<1>2. 1 .. v \subseteq job.seen.covered \cup job.seen.missed
  BY DEF JobReaches
<1>3. /\ Outrun(job) = (job.seen.missed \cup (v + 1 .. f - 1)) \ (f .. u)
      /\ Summarised(job) = job.seen.covered \cup (f .. u)
  BY DEF Outrun, Summarised, Old
<1> HIDE DEF u, v, f, n
<1>4. (v + 1 .. f - 1) \subseteq Ids
  BY <1>1, ConversationConstants DEF Ids
<1>5. \A i \in 1 .. u : i \in 1 .. v \/ i \in v + 1 .. f - 1 \/ i \in f .. u
  BY <1>1, ConversationConstants
<1> QED
  BY <1>1, <1>2, <1>3, <1>4, <1>5 DEF u

-----------------------------------------------------------------------------
(* Steps. *)

\* Messages may come while nothing is compacted or stored.
LEMMA SummariesStay ==
  ASSUME TypeOK, SummariesFit, SummariesReach, count' \in 0 .. MaxMessages, count <= count',
         settings'.covered = settings.covered, settings'.until = settings.until,
         settings'.missed = settings.missed, jobs' = jobs
  PROVE  SummariesFit' /\ SummariesReach'
<1>1. 1 .. count \subseteq 1 .. count' /\ count \in 0 .. MaxMessages
  BY ConversationConstants DEF TypeOK
<1>2. ASSUME NEW c \in Actors
      PROVE  JobFits(jobs[c], count')
  <2>1. JobFits(jobs[c], count) /\ jobs[c] \in Job
    BY DEF SummariesFit, TypeOK
  <2>2. jobs[c].listed \in 0 .. MaxMessages
    BY <2>1, JobBounds
  <2>3. jobs[c].listed <= count'
    BY <1>1, <2>1, <2>2 DEF JobFits
  <2> QED
    BY <1>1, <2>1, <2>3 DEF JobFits
<1>3. SummariesFit'
  BY <1>1, <1>2 DEF SummariesFit
<1> QED
  BY <1>3 DEF SummariesReach, SummaryReachesItsEnd

\* A compaction that is over leaves nothing behind.
LEMMA NoJobFits ==
  ASSUME TypeOK
  PROVE  NoJob \in Job /\ JobFits(NoJob, count) /\ JobReaches(NoJob)
<1>1. count \in Nat
  BY ConversationConstants DEF TypeOK
<1> QED
  BY <1>1, NewTypes DEF JobFits, JobReaches, Listed

\* A compaction goes on, and may store its summary.
LEMMA SummariesFollow ==
  ASSUME TypeOK, SummariesFit, SummariesReach, NEW c \in Actors, NEW job \in Job,
         jobs' = [jobs EXCEPT ![c] = job], count' = count,
         JobFits(job, count), JobReaches(job),
         settings'.covered \subseteq 1 .. count, SummaryReachesItsEnd'
  PROVE  SummariesFit' /\ SummariesReach' /\ jobs' \in [Actors -> Job]
<1>1. /\ jobs'[c] = job /\ \A b \in Actors \ {c} : jobs'[b] = jobs[b]
      /\ jobs' \in [Actors -> Job]
  BY DEF TypeOK
<1>2. SummariesFit'
  BY <1>1 DEF SummariesFit
<1>3. SummariesReach'
  BY <1>1 DEF SummariesReach
<1> QED
  BY <1>1, <1>2, <1>3

\* The run moves, or a message of it is stored, while it does not compact.
LEMMA RunStepInv ==
  ASSUME ConversationInv, run' \in Run, count' \in 0 .. MaxMessages, count <= count',
         updates' \in [Actors -> Columns \cup {None}], run.at # "compact", ModelsFit',
         (updates' = updates /\ run.at # "update") \/ run'.at = "update",
         run'.at # "call" \/ run' = run,
         UNCHANGED <<modelVars, made, faults, jobs, settings, routes>>
  PROVE  ConversationInv'
<1>0. /\ TypeOK /\ ModelInv /\ SummariesFit /\ SummariesReach /\ HandlerFits /\ ModelsFit
      /\ ContextIsComplete
  BY DEF ConversationInv
<1>1. ModelInv'
  BY <1>0, ModelsKept DEF TypeOK, ModelTypeOK
<1>2. TypeOK'
  BY <1>0, <1>1 DEF TypeOK, ModelInv
<1>3. SummariesFit' /\ SummariesReach'
  BY <1>0, SummariesStay
<1>4. HandlerFits'
  BY <1>0 DEF HandlerFits
<1>5. ContextIsComplete'
  BY <1>0 DEF ContextIsComplete
<1> QED
  BY <1>1, <1>2, <1>3, <1>4, <1>5 DEF ConversationInv

\* A compaction goes on, and the run with it where it was.
LEMMA JobStepInv ==
  ASSUME ConversationInv, NEW c \in Actors, NEW job \in Job,
         jobs' = [jobs EXCEPT ![c] = job],
         c = "admin" \/ (jobs[c].at # "idle" /\ job.force = jobs[c].force),
         JobFits(job, count), JobReaches(job), routes' \in 0 .. MaxRoutes, faults' \in 0 .. MaxFaults,
         UNCHANGED <<modelVars, made, count, settings, run, updates>>
  PROVE  ConversationInv'
<1>0. /\ TypeOK /\ ModelInv /\ SummariesFit /\ SummariesReach /\ HandlerFits /\ ModelsFit
      /\ ContextIsComplete
  BY DEF ConversationInv
<1>1. ModelInv'
  BY <1>0, ModelsKept
<1>2. settings'.covered \subseteq 1 .. count /\ SummaryReachesItsEnd'
  BY <1>0 DEF SummariesFit, SummariesReach, SummaryReachesItsEnd
<1>3. SummariesFit' /\ SummariesReach' /\ jobs' \in [Actors -> Job]
  BY <1>0, <1>2, SummariesFollow
<1>4. TypeOK'
  BY <1>0, <1>1, <1>3 DEF TypeOK, ModelInv
<1>5. /\ jobs'["agent"].force = jobs["agent"].force
      /\ jobs'["agent"].at # "idle" => jobs["agent"].at # "idle"
  BY <1>0 DEF TypeOK, Actors
<1>6. HandlerFits'
  BY <1>0, <1>5 DEF HandlerFits
<1>7. ModelsFit'
  <2>1. selected' = selected /\ providers' = providers
    BY DEF modelVars
  <2>2. /\ Resolved(RunSelections)' = Resolved(RunSelections)
        /\ Checked(RunSelections)' = Checked(RunSelections)
    BY <1>0, <2>1, SelectionsStay
  <2> QED
    BY <1>0, <1>5, <2>2 DEF ModelsFit
<1>8. ContextIsComplete'
  BY <1>0 DEF ContextIsComplete
<1> QED
  BY <1>1, <1>3, <1>4, <1>6, <1>7, <1>8 DEF ConversationInv

\* A compaction comes to its end; if it is the run's, the run sends what it is left with.
LEMMA EndInv ==
  ASSUME ConversationInv, NEW c \in Actors, NEW summary \in SUBSET Ids, NEW missed \in SUBSET Ids,
         jobs[c].at # "idle", End(c, summary, missed),
         settings' \in Settings, settings'.columns = settings.columns,
         settings'.covered \subseteq 1 .. count, SummaryReachesItsEnd',
         faults' \in 0 .. MaxFaults, UNCHANGED <<modelVars, made, count, updates, routes>>,
         summary \subseteq 1 .. jobs[c].listed,
         ~jobs[c].force => 1 .. Until(jobs[c]) \subseteq summary \cup missed
  PROVE  ConversationInv'
<1> DEFINE job == jobs[c]
           sent == summary \cup (Until(job) + 1 .. job.listed)
           next == [run EXCEPT !.at = "call", !.sent = sent, !.missed = missed]
<1>0. /\ TypeOK /\ ModelInv /\ SummariesFit /\ SummariesReach /\ HandlerFits /\ ModelsFit
      /\ ContextIsComplete /\ job \in Job /\ run \in Run /\ jobs' = [jobs EXCEPT ![c] = NoJob]
      /\ run' = IF c = "admin" THEN run ELSE IF job.force THEN Answering ELSE next
  BY DEF ConversationInv, TypeOK, End
<1>1. ModelInv'
  BY <1>0, ModelsKept
<1>2. NoJob \in Job /\ NoJob.at = "idle" /\ NoJob.seen.covered = {} /\ NoJob.seen.until = 0
      /\ NoJob.listed = 0
  BY NewTypes
<1>3. JobFits(NoJob, count) /\ JobReaches(NoJob)
  BY <1>0, NoJobFits
<1>4. SummariesFit' /\ SummariesReach' /\ jobs' \in [Actors -> Job]
  BY <1>0, <1>2, <1>3, SummariesFollow
<1>5. sent \subseteq Ids
  <2>1. Until(job) \in 0 .. MaxMessages /\ job.listed \in 0 .. MaxMessages
    BY <1>0, JobBounds
  <2>2. (Until(job) + 1 .. job.listed) \subseteq Ids
    <3> DEFINE u == Until(job)
               n == job.listed
    <3>1. u \in 0 .. MaxMessages /\ n \in 0 .. MaxMessages
      BY <2>1
    <3> HIDE DEF u, n
    <3>2. (u + 1 .. n) \subseteq Ids
      BY <3>1, ConversationConstants DEF Ids
    <3> QED
      BY <3>2 DEF u, n
  <2> QED
    BY <2>2
<1>6. /\ next \in Run /\ next.at = "call" /\ next.sent = sent /\ next.asked = run.asked
      /\ next.alone = run.alone /\ next.checked = run.checked /\ next.model = run.model
      /\ next.missed = missed
  <2> HIDE DEF sent
  <2> QED
    BY <1>0, <1>5 DEF Run
<1> HIDE DEF next
<1>7. run' \in Run
  BY <1>0, <1>6, AnsweringTypes
<1>8. TypeOK'
  BY <1>0, <1>1, <1>4, <1>7 DEF TypeOK, ModelInv
<1>9. /\ c = "agent" => jobs'["agent"] = NoJob /\ run.at = "compact"
      /\ c # "agent" => c = "admin" /\ jobs'["agent"] = jobs["agent"] /\ run' = run
  BY <1>0 DEF Actors, TypeOK, HandlerFits
<1>10. HandlerFits'
  BY <1>0, <1>2, <1>9 DEF HandlerFits
<1>11. ModelsFit'
  <2>1. selected' = selected /\ providers' = providers
    BY DEF modelVars
  <2>2. CASE run' = Answering
    BY <1>0, <2>2, AnsweringTypes DEF ModelsFit
  <2>3. CASE run' # Answering
    <3>1. run'.asked = run.asked
      BY <1>0, <1>6, <2>3
    <3>2. /\ Resolved(RunSelections)' = Resolved(RunSelections)
          /\ Checked(RunSelections)' = Checked(RunSelections)
      BY <1>0, <2>1, <3>1, SelectionsStay
    <3>3. CASE c = "agent"
      BY <1>0, <1>6, <1>9, <2>3, <3>2, <3>3 DEF ModelsFit
    <3>4. CASE c # "agent"
      BY <1>0, <1>9, <3>2, <3>4 DEF ModelsFit
    <3> QED
      BY <3>3, <3>4
  <2> QED
    BY <2>2, <2>3
<1>12. ContextIsComplete'
  <2>1. CASE run' = run
    BY <1>0, <2>1 DEF ContextIsComplete
  <2>2. CASE run' = Answering
    BY <1>0, <2>2, AnsweringTypes DEF ContextIsComplete
  <2>3. CASE run' = next /\ ~job.force
    <3> SUFFICES \A i \in sent : 1 .. i \subseteq sent \cup missed
      BY <1>6, <2>3 DEF ContextIsComplete
    <3> DEFINE u == Until(job)
               n == job.listed
    <3>1. u \in Nat /\ n \in Nat /\ u <= n /\ summary \in SUBSET (1 .. n)
      BY <1>0, JobBounds, ConversationConstants
    <3>2. 1 .. u \subseteq summary \cup missed
      BY <2>3
    <3>3. sent = summary \cup (u + 1 .. n)
      OBVIOUS
    <3> HIDE DEF sent, u, n
    <3> QED
      BY <3>1, <3>2, <3>3, TwoParts
  <2> QED
    BY <1>0, <2>1, <2>2, <2>3
<1> QED
  BY <1>1, <1>4, <1>8, <1>10, <1>11, <1>12 DEF ConversationInv

-----------------------------------------------------------------------------
(* The steps of the handler. *)

LEMMA ReceiveInv ==
  ASSUME ConversationInv, Receive
  PROVE  ConversationInv'
<1>0. TypeOK /\ run.at = "idle" /\ count < MaxMessages /\ count' = count + 1
      /\ UNCHANGED <<modelVars, made, faults, jobs, settings, routes, updates>>
  BY DEF ConversationInv, Receive, Others
<1>1. PICK asked \in Chosen : run' = [NoRun EXCEPT !.at = "check", !.asked = asked]
  BY DEF Receive
<1>2. run' \in Run /\ run'.at = "check"
  BY <1>1, NewTypes DEF Run
<1>3. count' \in 0 .. MaxMessages /\ count <= count'
  BY <1>0, ConversationConstants DEF TypeOK
<1>4. ModelsFit'
  BY <1>2 DEF ModelsFit
<1> QED
  BY <1>0, <1>2, <1>3, <1>4, RunStepInv DEF TypeOK

LEMMA CountStays ==
  ASSUME TypeOK, count' = count
  PROVE  count' \in 0 .. MaxMessages /\ count <= count'
  BY ConversationConstants DEF TypeOK

\* The handler answers.
LEMMA AnsweringInv ==
  ASSUME ConversationInv, run' = Answering, run.at \notin {"compact", "update"},
         UNCHANGED <<modelVars, made, faults, jobs, settings, routes, updates, count>>
  PROVE  ConversationInv'
<1>0. TypeOK
  BY DEF ConversationInv
<1>1. run' \in Run /\ run'.at = "reply"
  BY <1>0, AnsweringTypes DEF TypeOK
<1>2. ModelsFit'
  BY <1>1 DEF ModelsFit
<1> QED
  BY <1>0, <1>1, <1>2, CountStays, RunStepInv DEF TypeOK

LEMMA CheckModelInv ==
  ASSUME ConversationInv, CheckModel
  PROVE  ConversationInv'
<1> DEFINE m == Checked(RunSelections)
           next == [run EXCEPT !.at = "command", !.checked = m]
<1>0. /\ TypeOK /\ run.at = "check" /\ run' = IF Refused(m) THEN Answering ELSE next
      /\ UNCHANGED <<modelVars, made, faults, jobs, settings, routes, updates, count>>
  BY DEF ConversationInv, CheckModel, Others
<1>1. CASE run' = Answering
  BY <1>0, <1>1, AnsweringInv
<1>2. CASE run' = next
  <2>1. m \in Models \cup {Env} /\ run \in Run
    BY <1>0, SelectionsFound DEF TypeOK
  <2> HIDE DEF m
  <2>2. run' \in Run /\ run'.at = "command" /\ run'.checked = m /\ run'.asked = run.asked
    BY <1>2, <2>1 DEF Run
  <2>3. selected' = selected /\ providers' = providers
    BY <1>0 DEF modelVars
  <2>4. Checked(RunSelections)' = m
    BY <1>0, <2>2, <2>3, SelectionsStay DEF m
  <2>5. ModelsFit'
    BY <2>2, <2>4 DEF ModelsFit
  <2> QED
    BY <1>0, <2>2, <2>5, CountStays, RunStepInv DEF TypeOK
<1> QED
  BY <1>0, <1>1, <1>2

LEMMA ResolveModelInv ==
  ASSUME ConversationInv, ResolveModel
  PROVE  ConversationInv'
<1> DEFINE m == Resolved(RunSelections)
           next == [run EXCEPT !.at = "load", !.model = m]
<1>0. /\ TypeOK /\ ModelsFit /\ run.at = "command"
      /\ run' = IF Refused(m) THEN Answering ELSE next
      /\ UNCHANGED <<modelVars, made, faults, jobs, settings, routes, updates, count>>
  BY DEF ConversationInv, ResolveModel, Others
<1>1. CASE run' = Answering
  BY <1>0, <1>1, AnsweringInv
<1>2. CASE run' = next
  <2>1. m \in Models \cup {Env} /\ run \in Run
    BY <1>0, SelectionsFound DEF TypeOK
  <2> HIDE DEF m
  <2>2. /\ run' \in Run /\ run'.at = "load" /\ run'.model = m /\ run'.asked = run.asked
        /\ run'.checked = run.checked /\ run'.alone = run.alone
    BY <1>2, <2>1 DEF Run
  <2>3. selected' = selected /\ providers' = providers
    BY <1>0 DEF modelVars
  <2>4. Resolved(RunSelections)' = m /\ Checked(RunSelections)' = Checked(RunSelections)
    BY <1>0, <2>2, <2>3, SelectionsStay DEF m
  <2>5. ModelsFit'
    BY <1>0, <2>2, <2>4 DEF ModelsFit
  <2> QED
    BY <1>0, <2>2, <2>5, CountStays, RunStepInv DEF TypeOK
<1> QED
  BY <1>0, <1>1, <1>2

\* The run stays as it is.
LEMMA ModelsFitStays ==
  ASSUME ConversationInv, run' = run, jobs' = jobs, settings'.columns = settings.columns,
         UNCHANGED modelVars
  PROVE  ModelsFit'
<1>0. TypeOK /\ ModelsFit
  BY DEF ConversationInv
<1>1. selected' = selected /\ providers' = providers
  BY DEF modelVars
<1>2. /\ Resolved(RunSelections)' = Resolved(RunSelections)
      /\ Checked(RunSelections)' = Checked(RunSelections)
  BY <1>0, <1>1, SelectionsStay
<1> QED
  BY <1>0, <1>2 DEF ModelsFit

LEMMA ToolSendsMessageInv ==
  ASSUME ConversationInv, ToolSendsMessage
  PROVE  ConversationInv'
<1>0. /\ TypeOK /\ run.at = "call" /\ count < MaxMessages /\ count' = count + 1
      /\ UNCHANGED <<modelVars, made, faults, jobs, settings, routes, updates, run>>
  BY DEF ConversationInv, ToolSendsMessage, Others
<1>1. count' \in 0 .. MaxMessages /\ count <= count'
  BY <1>0, ConversationConstants DEF TypeOK
<1>2. ModelsFit'
  BY <1>0, ModelsFitStays
<1> QED
  BY <1>0, <1>1, <1>2, RunStepInv DEF TypeOK

LEMMA ModelAnswersInv ==
  ASSUME ConversationInv, ModelAnswers
  PROVE  ConversationInv'
  BY AnsweringInv DEF ModelAnswers, Others

LEMMA ReplyInv ==
  ASSUME ConversationInv, Reply
  PROVE  ConversationInv'
<1>0. /\ TypeOK /\ run.at = "reply" /\ run' = NoRun
      /\ count' = IF count < MaxMessages THEN count + 1 ELSE count
      /\ UNCHANGED <<modelVars, made, faults, jobs, settings, routes, updates>>
  BY DEF ConversationInv, Reply, Others
<1>1. count' \in 0 .. MaxMessages /\ count <= count'
  BY <1>0, ConversationConstants DEF TypeOK
<1>2. run' \in Run /\ run'.at = "idle"
  BY <1>0, NewTypes
<1>3. ModelsFit'
  BY <1>2 DEF ModelsFit
<1> QED
  BY <1>0, <1>1, <1>2, <1>3, RunStepInv DEF TypeOK

LEMMA UpdateCommandInv ==
  ASSUME ConversationInv, UpdateCommand
  PROVE  ConversationInv'
<1>0. /\ TypeOK /\ run.at = "command" /\ run' = [run EXCEPT !.at = "update"]
      /\ UNCHANGED <<modelVars, made, faults, jobs, settings, routes, count>>
  BY DEF ConversationInv, UpdateCommand, Others, Goto
<1>1. updates' \in [Actors -> Columns \cup {None}]
  <2>1. settings.columns \in Columns
    BY <1>0 DEF TypeOK, Settings
  <2>2. PICK columns \in Columns : updates' = [updates EXCEPT !["agent"] = columns]
    BY <2>1, ChangedTypes DEF UpdateCommand
  <2> QED
    BY <1>0, <2>2 DEF TypeOK
<1>2. run' \in Run /\ run'.at = "update"
  BY <1>0 DEF TypeOK, Run
<1>3. ModelsFit'
  BY <1>2 DEF ModelsFit
<1> QED
  BY <1>0, <1>1, <1>2, <1>3, CountStays, RunStepInv

\* The handler is lost, and its compaction with it.
LEMMA RunIsLostInv ==
  ASSUME ConversationInv, RunIsLost
  PROVE  ConversationInv'
<1>0. /\ TypeOK /\ ModelInv /\ SummariesFit /\ SummariesReach
      /\ run' = [NoRun EXCEPT !.at = "check", !.asked = run.asked]
      /\ jobs' = [jobs EXCEPT !["agent"] = NoJob]
      /\ updates' = [updates EXCEPT !["agent"] = None]
      /\ faults < MaxFaults /\ faults' = faults + 1
      /\ UNCHANGED <<modelVars, made, routes, count, settings>>
  BY DEF ConversationInv, RunIsLost, Others
<1>1. faults' \in 0 .. MaxFaults
  BY <1>0, ModelConstants DEF ModelInv, ModelTypeOK
<1>2. ModelInv'
  BY <1>0, <1>1, ModelsKept
<1>3. NoJob \in Job /\ NoJob.at = "idle" /\ NoJob.seen.covered = {} /\ NoJob.seen.until = 0
      /\ NoJob.listed = 0 /\ NoRun \in Run
  BY NewTypes
<1>4. JobFits(NoJob, count) /\ JobReaches(NoJob)
  BY <1>0, NoJobFits
<1>5. SummariesFit' /\ SummariesReach' /\ jobs' \in [Actors -> Job]
  <2>1. "agent" \in Actors
    BY DEF Actors
  <2>2. settings'.covered \subseteq 1 .. count /\ SummaryReachesItsEnd'
    BY <1>0 DEF SummariesFit, SummariesReach, SummaryReachesItsEnd
  <2> QED
    BY <1>0, <1>3, <1>4, <2>1, <2>2, SummariesFollow
<1>6. run' \in Run /\ run'.at = "check"
  BY <1>0, <1>3 DEF TypeOK, Run
<1>7. jobs'["agent"] = NoJob /\ updates'["agent"] = None
  BY <1>0 DEF TypeOK, Actors
<1>8. updates' \in [Actors -> Columns \cup {None}]
  BY <1>0 DEF TypeOK
<1>9. TypeOK'
  BY <1>0, <1>2, <1>5, <1>6, <1>8 DEF TypeOK, ModelInv
<1>10. HandlerFits' /\ ModelsFit' /\ ContextIsComplete'
  BY <1>3, <1>6, <1>7 DEF HandlerFits, ModelsFit, ContextIsComplete
<1> QED
  BY <1>2, <1>5, <1>9, <1>10 DEF ConversationInv

-----------------------------------------------------------------------------
(* The steps of administrators, and what they write. *)

LEMMA UpdateRouteInv ==
  ASSUME ConversationInv, UpdateRoute
  PROVE  ConversationInv'
<1>0. /\ TypeOK /\ ModelInv /\ SummariesFit /\ SummariesReach /\ HandlerFits /\ ContextIsComplete
      /\ routes < MaxRoutes /\ routes' = routes + 1
      /\ UNCHANGED <<modelVars, made, faults, count, settings, run, jobs>>
  BY DEF ConversationInv, UpdateRoute, Others, RouteCalled
<1>1. updates' \in [Actors -> Columns \cup {None}]
  <2>1. settings.columns \in Columns
    BY <1>0 DEF TypeOK, Settings
  <2>2. PICK columns \in Columns : updates' = [updates EXCEPT !["admin"] = columns]
    BY <2>1, ChangedTypes DEF UpdateRoute
  <2> QED
    BY <1>0, <2>2 DEF TypeOK
<1>2. routes' \in 0 .. MaxRoutes
  BY <1>0, ConversationConstants DEF TypeOK
<1>3. ModelInv'
  BY <1>0, ModelsKept DEF ModelInv, ModelTypeOK
<1>4. TypeOK'
  BY <1>0, <1>1, <1>2, <1>3 DEF TypeOK, ModelInv
<1>5. SummariesFit' /\ SummariesReach' /\ HandlerFits' /\ ContextIsComplete'
  <2>1. updates'["agent"] = updates["agent"]
    <3>1. PICK columns : updates' = [updates EXCEPT !["admin"] = columns]
      BY DEF UpdateRoute
    <3> QED
      BY <1>0, <3>1 DEF TypeOK, Actors
  <2> QED
    BY <1>0, <2>1 DEF SummariesFit, SummariesReach, SummaryReachesItsEnd,
      HandlerFits, ContextIsComplete
<1>6. ModelsFit'
  BY <1>0, ModelsFitStays
<1> QED
  BY <1>3, <1>4, <1>5, <1>6 DEF ConversationInv

LEMMA WriteSettingsInv ==
  ASSUME ConversationInv, NEW c \in Actors, WriteSettings(c)
  PROVE  ConversationInv'
<1>0. /\ TypeOK /\ ModelInv /\ SummariesFit /\ SummariesReach /\ HandlerFits /\ ContextIsComplete
      /\ updates[c] # None /\ settings' = [settings EXCEPT !.columns = updates[c]]
      /\ updates' = [updates EXCEPT ![c] = None]
      /\ run' = IF c = "agent" THEN Answering ELSE [run EXCEPT !.alone = run.at = "idle"]
      /\ UNCHANGED <<modelVars, made, faults, count, routes, jobs>>
  BY DEF ConversationInv, WriteSettings, Others
<1>1. ModelInv'
  BY <1>0, ModelsKept DEF ModelInv, ModelTypeOK
<1>2. /\ settings' \in Settings /\ settings'.covered = settings.covered
      /\ settings'.until = settings.until /\ settings'.missed = settings.missed
  BY <1>0 DEF TypeOK, Settings
<1>3. updates' \in [Actors -> Columns \cup {None}]
  BY <1>0 DEF TypeOK
<1>4. SummariesFit' /\ SummariesReach'
  BY <1>0, <1>2, CountStays, SummariesStay
<1>5. run' \in Run
  BY <1>0, AnsweringTypes DEF TypeOK, Run
<1>6. TypeOK'
  BY <1>0, <1>1, <1>2, <1>3, <1>5 DEF TypeOK, ModelInv
<1>7. CASE c = "agent"
  <2>1. run'.at = "reply" /\ updates'["agent"] = None /\ jobs["agent"].at = "idle"
    BY <1>0, <1>7, AnsweringTypes DEF TypeOK, HandlerFits
  <2>2. HandlerFits' /\ ModelsFit' /\ ContextIsComplete'
    BY <1>0, <2>1 DEF HandlerFits, ModelsFit, ContextIsComplete
  <2> QED
    BY <1>1, <1>4, <1>6, <2>2 DEF ConversationInv
<1>8. CASE c # "agent"
  <2>1. /\ run'.at = run.at /\ run'.sent = run.sent /\ run'.missed = run.missed
        /\ run'.alone => run.at = "idle"
    BY <1>0, <1>8 DEF TypeOK, Run
  <2>2. updates'["agent"] = updates["agent"]
    BY <1>0, <1>8 DEF TypeOK, Actors
  <2>3. HandlerFits' /\ ModelsFit' /\ ContextIsComplete'
    BY <1>0, <2>1, <2>2 DEF HandlerFits, ModelsFit, ContextIsComplete
  <2> QED
    BY <1>1, <1>4, <1>6, <2>3 DEF ConversationInv
<1> QED
  BY <1>7, <1>8

LEMMA AdminModelStepInv ==
  ASSUME ConversationInv, AdminModelStep
  PROVE  ConversationInv'
<1>0. /\ TypeOK /\ ModelInv /\ SummariesFit /\ SummariesReach /\ HandlerFits /\ ContextIsComplete
      /\ ModelStep /\ run' = [run EXCEPT !.alone = run.at = "idle"]
      /\ UNCHANGED <<count, settings, jobs, updates, routes>>
  BY DEF ConversationInv, AdminModelStep
<1>1. ModelInv'
  BY <1>0, ModelStepInv
<1>2. run' \in Run
  BY <1>0 DEF TypeOK, Run
<1>3. TypeOK'
  BY <1>0, <1>1, <1>2 DEF TypeOK, ModelInv
<1>4. SummariesFit' /\ SummariesReach'
  BY <1>0 DEF SummariesFit, SummariesReach, SummaryReachesItsEnd
<1>5. /\ run'.at = run.at /\ run'.sent = run.sent /\ run'.missed = run.missed
      /\ run'.alone => run.at = "idle"
  BY <1>0 DEF TypeOK, Run
<1>6. HandlerFits' /\ ModelsFit' /\ ContextIsComplete'
  BY <1>0, <1>5 DEF HandlerFits, ModelsFit, ContextIsComplete
<1> QED
  BY <1>1, <1>3, <1>4, <1>6 DEF ConversationInv

-----------------------------------------------------------------------------
(* The steps of a compaction. *)

\* A compaction that begins has read the settings and listed nothing.
LEMMA Started ==
  ASSUME ConversationInv, NEW c \in Actors, NEW force \in BOOLEAN, StartJob(c, force)
  PROVE  \E job \in Job :
           /\ jobs' = [jobs EXCEPT ![c] = job] /\ job.at = "list" /\ job.force = force
           /\ JobFits(job, count) /\ JobReaches(job)
<1> DEFINE job == [NoJob EXCEPT !.at = "list", !.force = force, !.seen = settings]
<1>0. /\ TypeOK /\ SummariesFit /\ SummariesReach /\ settings \in Settings
      /\ jobs' = [jobs EXCEPT ![c] = job] /\ count \in Nat
  BY ConversationConstants DEF ConversationInv, TypeOK, StartJob
<1>1. NoJob \in Job /\ NoJob.listed = 0
  BY NewTypes
<1>2. /\ job \in Job /\ job.at = "list" /\ job.force = force /\ job.seen = settings
      /\ job.listed = 0
  BY <1>0, <1>1 DEF Job
<1> HIDE DEF job
<1>3. JobFits(job, count)
  BY <1>0, <1>2 DEF JobFits, SummariesFit, Listed
<1>4. JobReaches(job)
  BY <1>0, <1>2 DEF JobReaches, SummariesReach, SummaryReachesItsEnd
<1> QED
  BY <1>0, <1>2, <1>3, <1>4

\* The handler begins a compaction: to load its context, or because a command says so.
LEMMA StartInv ==
  ASSUME ConversationInv, NEW force \in BOOLEAN, StartJob("agent", force),
         run' = [run EXCEPT !.at = "compact"], run.at \in {"load", "command"},
         ~force => run.at = "load",
         UNCHANGED <<modelVars, made, faults, count, settings, updates, routes>>
  PROVE  ConversationInv'
<1>0. /\ TypeOK /\ ModelInv /\ SummariesFit /\ SummariesReach /\ HandlerFits /\ ModelsFit
      /\ run \in Run /\ "agent" \in Actors
  BY DEF ConversationInv, TypeOK, Actors
<1>1. PICK job \in Job :
           /\ jobs' = [jobs EXCEPT !["agent"] = job] /\ job.at = "list" /\ job.force = force
           /\ JobFits(job, count) /\ JobReaches(job)
  BY <1>0, Started
<1>2. ModelInv'
  BY <1>0, ModelsKept DEF ModelInv, ModelTypeOK
<1>3. settings'.covered \subseteq 1 .. count /\ SummaryReachesItsEnd'
  BY <1>0 DEF SummariesFit, SummariesReach, SummaryReachesItsEnd
<1>4. SummariesFit' /\ SummariesReach' /\ jobs' \in [Actors -> Job]
  BY <1>0, <1>1, <1>3, SummariesFollow
<1>5. /\ run' \in Run /\ run'.at = "compact" /\ run'.asked = run.asked /\ run'.alone = run.alone
      /\ run'.checked = run.checked /\ run'.model = run.model
  BY <1>0 DEF Run
<1>6. TypeOK'
  BY <1>0, <1>2, <1>4, <1>5 DEF TypeOK, ModelInv
<1>7. jobs'["agent"].force = force
  BY <1>0, <1>1 DEF TypeOK
<1>8. HandlerFits'
  BY <1>0, <1>5 DEF HandlerFits
<1>9. ModelsFit'
  <2>1. selected' = selected /\ providers' = providers
    BY DEF modelVars
  <2>2. /\ Resolved(RunSelections)' = Resolved(RunSelections)
        /\ Checked(RunSelections)' = Checked(RunSelections)
    BY <1>0, <1>5, <2>1, SelectionsStay
  <2> QED
    BY <1>0, <1>5, <1>7, <2>2 DEF ModelsFit
<1>10. ContextIsComplete'
  BY <1>5 DEF ContextIsComplete
<1> QED
  BY <1>2, <1>4, <1>6, <1>8, <1>9, <1>10 DEF ConversationInv

LEMMA LoadContextInv ==
  ASSUME ConversationInv, LoadContext
  PROVE  ConversationInv'
  BY StartInv DEF LoadContext, Goto, Others

LEMMA CompactCommandInv ==
  ASSUME ConversationInv, CompactCommand
  PROVE  ConversationInv'
  BY StartInv DEF CompactCommand, Goto, Others

LEMMA CompactRouteInv ==
  ASSUME ConversationInv, CompactRoute
  PROVE  ConversationInv'
<1>0. /\ TypeOK /\ StartJob("admin", TRUE) /\ routes < MaxRoutes /\ routes' = routes + 1
      /\ UNCHANGED <<modelVars, made, faults, count, settings, run, updates>>
      /\ "admin" \in Actors
  BY DEF ConversationInv, CompactRoute, RouteCalled, Others, Actors
<1>1. PICK job \in Job :
           /\ jobs' = [jobs EXCEPT !["admin"] = job]
           /\ JobFits(job, count) /\ JobReaches(job)
  BY <1>0, Started
<1>2. routes' \in 0 .. MaxRoutes /\ faults' \in 0 .. MaxFaults
  BY <1>0, ConversationConstants DEF TypeOK, ModelTypeOK
<1> QED
  BY <1>0, <1>1, <1>2, JobStepInv

\* What is known of a compaction.
LEMMA JobKnown ==
  ASSUME ConversationInv, NEW c \in Actors
  PROVE  /\ jobs[c] \in Job /\ JobFits(jobs[c], count) /\ JobReaches(jobs[c])
         /\ count \in 0 .. MaxMessages /\ count \in Nat /\ MaxMessages \in Nat
         /\ routes \in 0 .. MaxRoutes /\ faults \in 0 .. MaxFaults
         /\ settings \in Settings /\ settings.covered \subseteq 1 .. count
         /\ SummaryReachesItsEnd
  BY ConversationConstants
  DEF ConversationInv, TypeOK, ModelTypeOK, SummariesFit, SummariesReach

LEMMA ListMessagesInv ==
  ASSUME ConversationInv, NEW c \in Actors, ListMessages(c)
  PROVE  ConversationInv'
<1> DEFINE job == [jobs[c] EXCEPT !.listed = count]
           next == [job EXCEPT !.at = "listed"]
<1>0. /\ jobs[c].at = "list"
      /\ jobs' = [jobs EXCEPT ![c] = next]
      /\ UNCHANGED <<modelVars, made, faults, routes, count, settings, run, updates>>
  BY DEF ListMessages, Others, Job
<1>1. /\ jobs[c] \in Job /\ JobFits(jobs[c], count) /\ JobReaches(jobs[c])
      /\ count \in 0 .. MaxMessages /\ count \in Nat /\ MaxMessages \in Nat
      /\ routes \in 0 .. MaxRoutes /\ faults \in 0 .. MaxFaults
  BY JobKnown
<1>2. job \in Job /\ job.seen = jobs[c].seen /\ job.listed = count
  BY <1>1 DEF Job
<1>3. /\ next \in Job /\ next.at = "listed" /\ next.force = jobs[c].force
      /\ next.seen = job.seen /\ next.listed = job.listed
  BY <1>1 DEF Job
<1> HIDE DEF job, next
<1>4. JobFits(next, count)
  BY <1>1, <1>2, <1>3 DEF JobFits
<1>5. JobReaches(next)
  BY <1>1, <1>2, <1>3 DEF JobReaches
<1> QED
  BY <1>0, <1>1, <1>3, <1>4, <1>5, JobStepInv

LEMMA NothingToDoInv ==
  ASSUME ConversationInv, NEW c \in Actors, NothingToDo(c)
  PROVE  ConversationInv'
<1> DEFINE job == jobs[c]
           missed == IF job.seen.columns.enabled THEN job.seen.missed ELSE Unread(job)
<1>0. /\ job.at = "listed" /\ UpToDate(job) /\ End(c, job.seen.covered, missed)
      /\ UNCHANGED <<modelVars, made, faults, routes, count, settings, updates>>
  BY DEF NothingToDo, Others
<1>1. /\ job \in Job /\ JobFits(job, count) /\ JobReaches(job)
      /\ routes \in 0 .. MaxRoutes /\ faults \in 0 .. MaxFaults
      /\ settings \in Settings /\ settings.covered \subseteq 1 .. count
      /\ SummaryReachesItsEnd
  BY JobKnown
<1>2. /\ job.seen.covered \in SUBSET Ids /\ job.seen.missed \subseteq Ids
      /\ job.seen.covered \subseteq 1 .. job.listed
  BY <1>0, <1>1, JobBounds DEF JobFits, Listed
<1>3. Unread(job) \in SUBSET Ids /\ 1 .. Until(job) \subseteq job.seen.covered \cup Unread(job)
  BY <1>1, UnreadReaches
<1>4. missed \in SUBSET Ids
  BY <1>2, <1>3
<1>5. ASSUME ~job.force
      PROVE  1 .. Until(job) \subseteq job.seen.covered \cup missed
  <2>1. CASE job.seen.columns.enabled
    <3>1. Until(job) = 0 \/ Until(job) = job.seen.until
      BY <1>0, <1>5, <2>1 DEF UpToDate
    <3>2. 1 .. Until(job) \subseteq job.seen.covered \cup job.seen.missed
      BY <1>1, <3>1 DEF JobReaches
    <3> QED
      BY <2>1, <3>2
  <2>2. CASE ~job.seen.columns.enabled
    BY <1>3, <2>2
  <2> QED
    BY <2>1, <2>2
<1>6. SummaryReachesItsEnd'
  BY <1>0, <1>1 DEF SummaryReachesItsEnd
<1> HIDE DEF missed
<1> QED
  BY <1>0, <1>1, <1>2, <1>4, <1>5, <1>6, EndInv

LEMMA ResolveSummaryModelInv ==
  ASSUME ConversationInv, NEW c \in Actors, ResolveSummaryModel(c)
  PROVE  ConversationInv'
<1> DEFINE job == jobs[c]
           next == [job EXCEPT !.at = "summarize"]
<1>0. /\ job.at = "listed"
      /\ End(c, job.seen.covered, Unread(job)) \/ (jobs' = [jobs EXCEPT ![c].at = "summarize"] /\ run' = run)
      /\ UNCHANGED <<modelVars, made, faults, routes, count, settings, updates>>
  BY DEF ResolveSummaryModel, Others
<1>1. /\ job \in Job /\ JobFits(job, count) /\ JobReaches(job)
      /\ count \in 0 .. MaxMessages /\ count \in Nat /\ MaxMessages \in Nat
      /\ routes \in 0 .. MaxRoutes /\ faults \in 0 .. MaxFaults
      /\ settings \in Settings /\ settings.covered \subseteq 1 .. count
      /\ SummaryReachesItsEnd
  BY JobKnown
<1>2. CASE End(c, job.seen.covered, Unread(job))
  <2>1. job.seen.covered \in SUBSET Ids /\ job.seen.covered \subseteq 1 .. job.listed
    BY <1>0, <1>1, JobBounds DEF JobFits, Listed
  <2>2. /\ Unread(job) \in SUBSET Ids
        /\ 1 .. Until(job) \subseteq job.seen.covered \cup Unread(job)
    BY <1>1, UnreadReaches
  <2>3. SummaryReachesItsEnd'
    BY <1>0, <1>1 DEF SummaryReachesItsEnd
  <2> QED
    BY <1>0, <1>1, <1>2, <2>1, <2>2, <2>3, EndInv
<1>3. CASE jobs' = [jobs EXCEPT ![c].at = "summarize"] /\ run' = run
  <2>1. jobs' = [jobs EXCEPT ![c] = next]
    BY <1>3
  <2>2. /\ next \in Job /\ next.at = "summarize" /\ next.force = job.force
        /\ next.seen = job.seen /\ next.listed = job.listed
    BY <1>1 DEF Job
  <2> HIDE DEF next
  <2>3. JobFits(next, count)
    BY <1>0, <1>1, <2>2 DEF JobFits, Listed
  <2>4. JobReaches(next)
    BY <1>0, <1>1, <2>2 DEF JobReaches
  <2> QED
    BY <1>0, <1>1, <1>3, <2>1, <2>2, <2>3, <2>4, JobStepInv
<1> QED
  BY <1>0, <1>2, <1>3

LEMMA SummarizeInv ==
  ASSUME ConversationInv, NEW c \in Actors, Summarize(c)
  PROVE  ConversationInv'
<1> DEFINE job == jobs[c]
           next == [job EXCEPT !.at = "store", !.text = Summarised(job), !.missed = Outrun(job)]
<1>0. /\ job.at = "summarize"
      /\ jobs' = [jobs EXCEPT ![c].at = "store", ![c].text = Summarised(job),
                              ![c].missed = Outrun(job)]
      /\ UNCHANGED <<modelVars, made, faults, routes, count, settings, updates, run>>
  BY DEF Summarize, Others
<1>1. /\ job \in Job /\ JobFits(job, count) /\ JobReaches(job)
      /\ count \in 0 .. MaxMessages /\ count \in Nat /\ MaxMessages \in Nat
      /\ routes \in 0 .. MaxRoutes /\ faults \in 0 .. MaxFaults
  BY JobKnown
<1>2. /\ job.seen.covered \in SUBSET Ids /\ Old(job) \subseteq 1 .. job.listed
      /\ job.listed \in 0 .. MaxMessages /\ Until(job) \in 0 .. MaxMessages
      /\ First(job) \in Nat /\ job.seen.until \in 0 .. MaxMessages
  BY <1>1, JobBounds
<1>3. Summarised(job) \subseteq Ids /\ Summarised(job) \subseteq 1 .. job.listed
  <2>1. 1 .. job.listed \subseteq Ids
    BY <1>1, <1>2 DEF Ids
  <2>2. job.seen.covered \subseteq 1 .. job.listed
    BY <1>0, <1>1 DEF JobFits, Listed
  <2> QED
    BY <1>2, <2>1, <2>2 DEF Summarised
<1>4. Outrun(job) \in SUBSET Ids /\ 1 .. Until(job) \subseteq Summarised(job) \cup Outrun(job)
  BY <1>1, OutrunReaches
<1>5. jobs' = [jobs EXCEPT ![c] = next]
  BY <1>0, <1>1 DEF ConversationInv, TypeOK, Job
<1> DEFINE text == Summarised(job)
           missed == Outrun(job)
<1>6. text = Summarised(job) /\ missed = Outrun(job)
  OBVIOUS
<1> HIDE DEF text, missed
<1>7. /\ next \in Job /\ next.at = "store" /\ next.force = job.force
      /\ next.seen = job.seen /\ next.listed = job.listed /\ next.text = text
      /\ next.missed = missed
  BY <1>1, <1>3, <1>4, <1>6 DEF Job
<1> HIDE DEF next
<1>8. JobFits(next, count)
  BY <1>0, <1>1, <1>3, <1>6, <1>7 DEF JobFits, Listed
<1>9. JobReaches(next)
  BY <1>1, <1>4, <1>6, <1>7 DEF JobReaches, Until
<1> QED
  BY <1>0, <1>1, <1>5, <1>7, <1>8, <1>9, JobStepInv

LEMMA SummarizeNothingInv ==
  ASSUME ConversationInv, NEW c \in Actors, SummarizeNothing(c)
  PROVE  ConversationInv'
<1> DEFINE job == jobs[c]
           next == [job EXCEPT !.at = "store", !.text = job.seen.covered, !.missed = Unread(job)]
<1>0. /\ job.at = "summarize" /\ faults < MaxFaults /\ faults' = faults + 1
      /\ IF job.seen.covered = {}
           THEN End(c, {}, Unread(job))
           ELSE /\ jobs' = [jobs EXCEPT ![c].at = "store", ![c].text = job.seen.covered,
                                        ![c].missed = Unread(job)]
                /\ run' = run
      /\ UNCHANGED <<modelVars, made, routes, count, settings, updates>>
  BY DEF SummarizeNothing, Others
<1>1. /\ job \in Job /\ JobFits(job, count) /\ JobReaches(job)
      /\ routes \in 0 .. MaxRoutes /\ faults \in 0 .. MaxFaults
      /\ settings \in Settings /\ settings.covered \subseteq 1 .. count
      /\ SummaryReachesItsEnd
  BY JobKnown
<1>2. faults' \in 0 .. MaxFaults
  BY <1>0, <1>1, ModelConstants
<1>3. /\ job.seen.covered \in SUBSET Ids /\ Unread(job) \in SUBSET Ids
      /\ 1 .. Until(job) \subseteq job.seen.covered \cup Unread(job)
  BY <1>1, JobBounds, UnreadReaches
<1>4. CASE job.seen.covered = {}
  <2>1. {} \in SUBSET Ids /\ {} \subseteq 1 .. job.listed
    OBVIOUS
  <2>2. 1 .. Until(job) \subseteq {} \cup Unread(job)
    BY <1>3, <1>4
  <2>3. SummaryReachesItsEnd'
    BY <1>0, <1>1 DEF SummaryReachesItsEnd
  <2>4. End(c, {}, Unread(job))
    BY <1>0, <1>4
  <2> QED
    BY <1>0, <1>1, <1>2, <1>3, <2>1, <2>2, <2>3, <2>4, EndInv
<1>5. CASE job.seen.covered # {}
  <2>1. jobs' = [jobs EXCEPT ![c] = next] /\ run' = run
    BY <1>0, <1>1, <1>5 DEF ConversationInv, TypeOK, Job
  <2> DEFINE missed == Unread(job)
  <2>2. missed \in SUBSET Ids /\ missed = Unread(job)
    BY <1>3
  <2> HIDE DEF missed
  <2>3. /\ next \in Job /\ next.at = "store" /\ next.force = job.force
        /\ next.seen = job.seen /\ next.listed = job.listed /\ next.text = job.seen.covered
        /\ next.missed = missed
    BY <1>1, <1>3, <2>2 DEF Job
  <2> HIDE DEF next
  <2>4. JobFits(next, count)
    BY <1>0, <1>1, <2>3 DEF JobFits, Listed
  <2>5. JobReaches(next)
    BY <1>1, <1>3, <2>2, <2>3 DEF JobReaches, Until
  <2> QED
    BY <1>0, <1>1, <1>2, <2>1, <2>3, <2>4, <2>5, JobStepInv
<1> QED
  BY <1>4, <1>5

\* A summary that is stored is of listed messages, and reaches its end.
LEMMA StoredFits ==
  ASSUME ConversationInv, NEW c \in Actors, jobs[c].at = "store", settings' = Stored(jobs[c])
  PROVE  /\ settings' \in Settings /\ settings'.columns = settings.columns
         /\ settings'.covered = jobs[c].text /\ settings'.until = Until(jobs[c])
         /\ settings'.covered \subseteq 1 .. count
         /\ SummaryReachesItsEnd'
<1> DEFINE job == jobs[c]
<1>1. /\ job \in Job /\ JobFits(job, count) /\ JobReaches(job)
      /\ count \in 0 .. MaxMessages /\ settings \in Settings
  BY JobKnown
<1>2. /\ job.text \subseteq Ids /\ job.missed \subseteq Ids /\ Until(job) \in 0 .. MaxMessages /\ job.listed \in 0 .. MaxMessages
  BY <1>1, JobBounds
<1>3. /\ settings' \in Settings /\ settings'.columns = settings.columns
      /\ settings'.covered = job.text /\ settings'.until = Until(job)
      /\ settings'.missed = job.missed
  BY <1>1, <1>2 DEF Stored, Settings
<1>4. job.text \subseteq 1 .. job.listed /\ job.listed <= count
  BY <1>1 DEF JobFits
<1>5. 1 .. job.listed \subseteq 1 .. count
  <2> DEFINE n == job.listed
  <2>1. n \in 0 .. MaxMessages /\ n <= count
    BY <1>2, <1>4
  <2> HIDE DEF n
  <2>2. 1 .. n \subseteq 1 .. count
    BY <1>1, <2>1, ConversationConstants
  <2> QED
    BY <2>2 DEF n
<1>6. SummaryReachesItsEnd'
  BY <1>1, <1>3 DEF JobReaches, SummaryReachesItsEnd
<1> QED
  BY <1>3, <1>4, <1>5, <1>6

LEMMA StoreSummaryInv ==
  ASSUME ConversationInv, NEW c \in Actors, StoreSummary(c)
  PROVE  ConversationInv'
<1> DEFINE job == jobs[c]
<1>0. /\ job.at = "store" /\ settings' = Stored(job) /\ End(c, job.text, job.missed)
      /\ UNCHANGED <<modelVars, made, faults, routes, count, updates>>
  BY DEF StoreSummary, Others
<1>1. /\ job \in Job /\ JobFits(job, count) /\ JobReaches(job)
      /\ count \in 0 .. MaxMessages /\ count \in Nat /\ MaxMessages \in Nat
      /\ routes \in 0 .. MaxRoutes /\ faults \in 0 .. MaxFaults
  BY JobKnown
<1>2. job.text \in SUBSET Ids /\ job.missed \in SUBSET Ids
  BY <1>1, JobBounds
<1>3. job.text \subseteq 1 .. job.listed /\ 1 .. Until(job) \subseteq job.text \cup job.missed
  BY <1>0, <1>1 DEF JobFits, JobReaches
<1>4. /\ settings' \in Settings /\ settings'.columns = settings.columns
      /\ settings'.covered \subseteq 1 .. count /\ SummaryReachesItsEnd'
  BY <1>0, StoredFits
<1> QED
  BY <1>0, <1>1, <1>2, <1>3, <1>4, EndInv

LEMMA JobFailsInv ==
  ASSUME ConversationInv, NEW c \in Actors, JobFails(c)
  PROVE  ConversationInv'
<1> DEFINE job == jobs[c]
<1>0. /\ job.at \in {"summarize", "store"} /\ faults < MaxFaults /\ faults' = faults + 1
      /\ settings' = settings \/ (job.at = "store" /\ settings' = Stored(job))
      /\ End(c, job.seen.covered, Unread(job))
      /\ UNCHANGED <<modelVars, made, routes, count, updates>>
  BY DEF JobFails, Others
<1>1. /\ job \in Job /\ JobFits(job, count) /\ JobReaches(job)
      /\ count \in 0 .. MaxMessages /\ count \in Nat /\ MaxMessages \in Nat
      /\ routes \in 0 .. MaxRoutes /\ faults \in 0 .. MaxFaults
      /\ settings \in Settings /\ settings.covered \subseteq 1 .. count
      /\ SummaryReachesItsEnd
  BY JobKnown
<1>2. /\ job.seen.covered \in SUBSET Ids /\ job.seen.covered \subseteq 1 .. job.listed
      /\ Unread(job) \in SUBSET Ids
      /\ 1 .. Until(job) \subseteq job.seen.covered \cup Unread(job)
  BY <1>0, <1>1, JobBounds, UnreadReaches DEF JobFits, Listed
<1>3. faults' \in 0 .. MaxFaults
  BY <1>0, <1>1, ModelConstants
<1>4. /\ settings' \in Settings /\ settings'.columns = settings.columns
      /\ settings'.covered \subseteq 1 .. count /\ SummaryReachesItsEnd'
  <2>1. CASE settings' = settings
    BY <1>0, <1>1, <2>1 DEF SummaryReachesItsEnd
  <2>2. CASE settings' # settings
    BY <1>0, <2>2, StoredFits
  <2> QED
    BY <2>1, <2>2
<1> QED
  BY <1>0, <1>1, <1>2, <1>3, <1>4, EndInv

LEMMA ListFailsInv ==
  ASSUME ConversationInv, NEW c \in Actors, ListFails(c)
  PROVE  ConversationInv'
<1>0. /\ TypeOK /\ ModelInv /\ SummariesFit /\ SummariesReach /\ HandlerFits /\ ModelsFit
      /\ ContextIsComplete /\ run \in Run /\ jobs[c].at = "list"
      /\ jobs' = [jobs EXCEPT ![c] = NoJob] /\ run' = IF c = "admin" THEN run ELSE Answering
      /\ faults < MaxFaults /\ faults' = faults + 1
      /\ UNCHANGED <<modelVars, made, routes, count, settings, updates>>
  BY DEF ConversationInv, TypeOK, ListFails, Others
<1>1. faults' \in 0 .. MaxFaults
  BY <1>0, ModelConstants DEF ModelInv, ModelTypeOK
<1>2. ModelInv'
  BY <1>0, <1>1, ModelsKept
<1>3. NoJob \in Job /\ JobFits(NoJob, count) /\ JobReaches(NoJob)
  BY <1>0, NoJobFits
<1>4. SummariesFit' /\ SummariesReach' /\ jobs' \in [Actors -> Job]
  <2>1. settings'.covered \subseteq 1 .. count /\ SummaryReachesItsEnd'
    BY <1>0 DEF SummariesFit, SummariesReach, SummaryReachesItsEnd
  <2> QED
    BY <1>0, <1>3, <2>1, SummariesFollow
<1>5. TypeOK'
  BY <1>0, <1>2, <1>4, AnsweringTypes DEF TypeOK, ModelInv
<1>6. CASE c = "agent"
  <2>1. run'.at = "reply" /\ updates'["agent"] = None /\ jobs'["agent"].at = "idle"
    BY <1>0, <1>6, NewTypes, AnsweringTypes DEF TypeOK, HandlerFits
  <2> QED
    BY <1>2, <1>4, <1>5, <2>1 DEF ConversationInv, HandlerFits, ModelsFit, ContextIsComplete
<1>7. CASE c # "agent"
  <2>1. run' = run /\ jobs'["agent"] = jobs["agent"]
    BY <1>0, <1>7 DEF TypeOK, Actors
  <2>2. HandlerFits' /\ ContextIsComplete'
    BY <1>0, <2>1 DEF HandlerFits, ContextIsComplete
  <2>3. ModelsFit'
    <3>1. selected' = selected /\ providers' = providers
      BY <1>0 DEF modelVars
    <3>2. /\ Resolved(RunSelections)' = Resolved(RunSelections)
          /\ Checked(RunSelections)' = Checked(RunSelections)
      BY <1>0, <2>1, <3>1, SelectionsStay
    <3> QED
      BY <1>0, <2>1, <3>2 DEF ModelsFit
  <2> QED
    BY <1>2, <1>4, <1>5, <2>2, <2>3 DEF ConversationInv
<1> QED
  BY <1>6, <1>7

-----------------------------------------------------------------------------
(* The conversation as a whole. *)

LEMMA ConversationInitInv == Init => ConversationInv
<1> SUFFICES ASSUME Init
             PROVE  ConversationInv
  OBVIOUS
<1>0. /\ ModelInit /\ count = 0 /\ settings = NewSettings /\ run = NoRun
      /\ jobs = [c \in Actors |-> NoJob] /\ updates = [c \in Actors |-> None]
      /\ routes = 0
  BY DEF Init
<1>1. /\ NewSettings \in Settings /\ NoJob \in Job /\ NoRun \in Run
      /\ NewSettings.covered = {} /\ NewSettings.until = 0
      /\ NoJob.at = "idle" /\ NoJob.seen = NewSettings /\ NoJob.listed = 0
      /\ NoRun.at = "idle"
  BY NewTypes
<1>2. ModelInv
  BY <1>0, ModelInitInv
<1>3. TypeOK
  <2>1. 0 \in 0 .. MaxMessages /\ 0 \in 0 .. MaxRoutes
    BY ConversationConstants
  <2>2. updates \in [Actors -> Columns \cup {None}] /\ jobs \in [Actors -> Job]
    BY <1>0, <1>1
  <2> QED
    BY <1>0, <1>1, <1>2, <2>1, <2>2 DEF TypeOK, ModelInv
<1>4. JobFits(NoJob, 0) /\ JobReaches(NoJob)
  BY <1>1 DEF JobFits, JobReaches, Listed
<1>5. SummariesFit /\ SummariesReach
  BY <1>0, <1>1, <1>4 DEF SummariesFit, SummariesReach, SummaryReachesItsEnd
<1>6. HandlerFits /\ ModelsFit /\ ContextIsComplete
  BY <1>0, <1>1 DEF HandlerFits, ModelsFit, ContextIsComplete, Actors
<1> QED
  BY <1>2, <1>3, <1>5, <1>6 DEF ConversationInv

LEMMA ConversationStepInv ==
  ASSUME ConversationInv, Next
  PROVE  ConversationInv'
  BY ReceiveInv, CheckModelInv, ResolveModelInv, ToolSendsMessageInv, ModelAnswersInv, ReplyInv,
     RunIsLostInv, UpdateCommandInv, UpdateRouteInv, LoadContextInv, CompactCommandInv,
     CompactRouteInv, WriteSettingsInv, ListMessagesInv, ListFailsInv, NothingToDoInv,
     ResolveSummaryModelInv, SummarizeInv, SummarizeNothingInv, StoreSummaryInv, JobFailsInv, AdminModelStepInv
  DEF Next

LEMMA ConversationKept ==
  ASSUME ConversationInv, UNCHANGED vars
  PROVE  ConversationInv'
<1>0. /\ UNCHANGED <<modelVars, made, faults, count, settings, run, jobs, updates, routes>>
      /\ TypeOK /\ ModelInv
  BY DEF vars, convVars, ConversationInv
<1>1. ModelInv'
  BY <1>0, ModelsKept DEF ModelInv, ModelTypeOK
<1>2. TypeOK'
  BY <1>0, <1>1 DEF TypeOK, ModelInv
<1>3. SummariesFit' /\ SummariesReach' /\ HandlerFits' /\ ContextIsComplete'
  BY <1>0 DEF ConversationInv, SummariesFit, SummariesReach, SummaryReachesItsEnd,
      HandlerFits, ContextIsComplete
<1>4. ModelsFit'
  BY <1>0, ModelsFitStays
<1> QED
  BY <1>1, <1>2, <1>3, <1>4 DEF ConversationInv

\* The model that was checked is called.
LEMMA CheckedCalled ==
  ASSUME ConversationInv
  PROVE  CheckedIsCalled
  BY SelectionsFound DEF ConversationInv, ModelsFit, CheckedIsCalled

-----------------------------------------------------------------------------
(* The run of the agent. *)

TurnInv == ConversationInv /\ PoliciesInv /\ DecisionInv

LEMMA ToolCallStepInv ==
  ASSUME TurnInv, ToolCallStep
  PROVE  PoliciesInv' /\ DecisionInv'
<1>0. PoliciesInv /\ DecisionInv
  BY DEF TurnInv
<1>1. UNCHANGED <<permissionTables, policyRequests, policyAsks, granted, tangled>>
  BY DEF ToolCallStep, RequestCall, ReadSubject, Decide, ConfirmCall, CallEnds
<1>2. policies' = policies
  BY <1>1 DEF permissionTables
<1>3. call' \in Call /\ DecisionInv'
  <2>1. ASSUME NEW dangerous \in BOOLEAN, RequestCall(dangerous)
        PROVE  call' \in Call /\ DecisionInv'
    <3>1. call' = Evaluation(dangerous, FALSE) /\ FALSE \in BOOLEAN
      BY <2>1 DEF RequestCall
    <3> QED
      BY <1>0, <1>2, <3>1, EvaluationInv
  <2>2. ASSUME ConfirmCall
        PROVE  call' \in Call /\ DecisionInv'
    <3>1. call' = Evaluation(TRUE, TRUE) /\ TRUE \in BOOLEAN
      BY <2>2 DEF ConfirmCall
    <3> QED
      BY <1>0, <1>2, <3>1, EvaluationInv
  <2> QED
    BY <1>0, <2>1, <2>2, ReadSubjectInv, DecideInv, CallEndsInv DEF ToolCallStep
<1> QED
  BY <1>0, <1>1, <1>3, PoliciesKept

LEMMA TurnStepInv ==
  ASSUME TurnInv, [TurnNext]_turnVars
  PROVE  TurnInv'
<1>0. ConversationInv /\ PoliciesInv /\ DecisionInv
  BY DEF TurnInv
<1>1. ASSUME UNCHANGED permissionVars
      PROVE  PoliciesInv' /\ DecisionInv'
  <2>1. /\ UNCHANGED <<permissionTables, policyRequests, policyAsks, granted, tangled>>
        /\ call' = call /\ policies' = policies
    BY <1>1 DEF permissionVars, permissionTables
  <2>2. call' \in Call
    BY <1>0, <2>1 DEF PoliciesInv, PermissionTypeOK
  <2> QED
    BY <1>0, <2>1, <2>2, PoliciesKept, DecisionKept
<1>2. ASSUME PolicyStep
      PROVE  PoliciesInv' /\ DecisionInv'
  <2>1. PoliciesInv'
    BY <1>0, <1>2, PolicyStepInv
  <2>2. DecisionInv'
    BY <1>0, <1>2, PolicyStepChanges, ChangeDecisionInv, DecisionKept
  <2> QED
    BY <2>1, <2>2
<1>3. CASE ConversationStep
  BY <1>0, <1>1, <1>3, ConversationStepInv DEF ConversationStep, TurnInv
<1>4. CASE (ToolCallStep \/ PolicyStep) /\ UNCHANGED vars
  BY <1>0, <1>2, <1>4, ToolCallStepInv, ConversationKept DEF TurnInv
<1>5. CASE UNCHANGED turnVars
  BY <1>0, <1>1, <1>5, ConversationKept DEF TurnInv, turnVars
<1> QED
  BY <1>3, <1>4, <1>5 DEF TurnNext

\* The invariant of a run with its administrators: what is summarised was listed and reaches
\* its end, what is checked is found again, policies have one row per subject and are as
\* they were asked for, and a decision stays between the rights that stayed and those that
\* were there (context-loader.ts, agent-loop-context.ts, provider-config.ts,
\* permission-policies-repository.ts, policy-resolver.ts).
THEOREM TurnInvariant == TurnSpec => []TurnInv
<1>1. TurnInit => TurnInv
  BY ConversationInitInv, PermissionInitInv DEF TurnInit, TurnInv
<1>2. TurnInv /\ [TurnNext]_turnVars => TurnInv'
  BY TurnStepInv
<1> QED
  BY <1>1, <1>2, PTL DEF TurnSpec

\* Every variable of the run, its tables and its requests keeps its type.
THEOREM TurnTypes == TurnSpec => []TypeOK /\ []PermissionTypeOK
<1>1. TurnInv => TypeOK /\ PermissionTypeOK
  BY DEF TurnInv, ConversationInv, PoliciesInv
<1> QED
  BY <1>1, TurnInvariant, PTL

\* A refresh of a provider's catalog keeps the statuses administrators gave its models,
\* however requests interleave, but where two refreshes overlap, one fails half way, the
\* provider no longer lists the model, or the status is given meanwhile.
THEOREM ChoicesStay == TurnSpec => []ChoicesAreKept
<1>1. TurnInv => ChoicesAreKept
  BY ChoicesKept DEF TurnInv, ConversationInv
<1> QED
  BY <1>1, TurnInvariant, PTL

\* The model that is called is the one whose capabilities were checked.
THEOREM CalledAsChecked == TurnSpec => []CheckedIsCalled
<1>1. TurnInv => CheckedIsCalled
  BY CheckedCalled DEF TurnInv
<1> QED
  BY <1>1, TurnInvariant, PTL

\* A run sends its model the conversation without a hole, but for what its own compaction did
\* not get to read, as it was turned off or failed, and for what the summary it sends has
\* missed: messages that an empty answer of the summary model passed over, or that left the
\* scan first (context-loader.ts).
THEOREM ContextComplete == TurnSpec => []ContextIsComplete
<1>1. TurnInv => ContextIsComplete
  BY DEF TurnInv, ConversationInv
<1> QED
  BY <1>1, TurnInvariant, PTL

\* The stored summary covers the messages up to the one it says it reaches, whoever compacts
\* and fails beside it, but for those of settings.missed: an empty answer stored the new end
\* beside the old text (context-loader.ts:156), or they left the scan of CONTEXT_SCAN_LIMIT
\* messages before a compaction had read them (context-loader.ts:37).
THEOREM SummaryComplete == TurnSpec => []SummaryReachesItsEnd
<1>1. TurnInv => SummaryReachesItsEnd
  BY DEF TurnInv, ConversationInv, SummariesReach
<1> QED
  BY <1>1, TurnInvariant, PTL

\* A tool call is executed only with rights its actor had during the decision.
THEOREM OnlyEntitledExecuted == TurnSpec => []ExecutedIsEntitled
<1>1. TurnInv => ExecutedIsEntitled
  BY DEF TurnInv, DecisionInv
<1> QED
  BY <1>1, TurnInvariant, PTL

\* A tool call is denied only if what nobody touched during the decision does not suffice.
THEOREM OnlyUnentitledDenied == TurnSpec => []DeniedIsNotEntitled
<1>1. TurnInv => DeniedIsNotEntitled
  BY DEF TurnInv, DecisionInv
<1> QED
  BY <1>1, TurnInvariant, PTL

\* The policies stored are those administrators asked for, for any number of requests that
\* overlap, but for subjects of requests that met or failed.
THEOREM PoliciesStored == TurnSpec => []PoliciesAreAsAsked
<1>1. TurnInv => PoliciesAreAsAsked
  BY PoliciesAsAsked DEF TurnInv
<1> QED
  BY <1>1, TurnInvariant, PTL
=============================================================================
