-------------------------- MODULE VfsStorageProofs ---------------------------
(* Proofs about VfsStorage, for every value of its constants. *)
EXTENDS VfsStorage, FiniteSetTheorems, SequenceTheorems, WellFoundedInduction, TLAPS

-----------------------------------------------------------------------------
(* The inductive invariant. *)

Asks(r, ops_) == r.req \in Requested /\ r.req.op \in ops_
IsStoring(r)  == Asks(r, {"put"}) /\ r.req.content \in Large

\* Each await belongs to the requests that come to it, and a tree that is being dropped or
\* moved has paths left, all of them below the path of the request.
PointFits(r) ==
  /\ r.at = "idle" => r = Idle
  /\ r.at # "idle" => r.req \in Requested
  /\ r.at \in {"parent", "makeParent"} => Asks(r, {"put", "mkdir", "move"})
  /\ r.at = "lookup" => Asks(r, {"put", "mkdir"})
  /\ r.at = "make" => Asks(r, {"mkdir"})
  /\ r.at \in {"blob", "cleanup", "unlink"} => IsStoring(r)
  /\ r.at \in {"entry", "text", "revision"} => Asks(r, {"put"})
  /\ r.at \in {"stat", "list"} => Asks(r, {"delete", "move"})
  /\ r.at \in {"children", "dropText", "dropEntry"} => Asks(r, {"delete"})
  /\ r.at \in {"target", "moveEntry", "moveText"} => Asks(r, {"move"})
  /\ r.at \in {"dropText", "dropEntry", "moveEntry", "moveText"} => r.left # {}
  /\ r.left # {} => r.req \in Requested /\ r.left \subseteq Subtree(r.req.path)

PointsFit == \A p \in Procs : PointFits(procs[p])

\* What two requests under way have in common is recorded, and so is what is not only written.
HistoryFits ==
  /\ \A p, q \in Busy : p # q /\ Meet(Req(p), Req(q)) =>
       Below(Req(p)) \cup Below(Req(q)) \subseteq overlapped
  /\ \A p, q \in Busy :
       p # q /\ IsStoring(procs[p]) /\ IsStoring(procs[q]) /\ Req(p).content = Req(q).content =>
         Req(p).content \in shared
  /\ \A p \in Busy : Asks(procs[p], {"delete", "move"}) => Below(Req(p)) \subseteq reused

\* A put that has not read the version of its file.
HasNotRead(r) == r.at \in {"parent", "makeParent", "lookup"} /\ r.req.op = "put"
ToRead        == {p \in Procs : HasNotRead(procs[p])}

\* A version is counted by the put that made it: those still to come do not exceed the bound.
VersionsBounded ==
  /\ IsFiniteSet(ToRead)
  /\ Cardinality(ToRead) <= ops
  /\ \A x \in Paths : entries[x] # None => entries[x].version + Cardinality(ToRead) <= ops + 1
  /\ \A p \in Procs : procs[p].version + Cardinality(ToRead) <= ops + 1

\* A blob is there before anything refers to it, and is deleted when nothing does: the other
\* put that could refer to it in between would have made the content a shared one.
BlobsFit ==
  /\ BlobsAreKept
  /\ \A p \in Procs :
       procs[p].at \in {"entry", "text", "revision"} /\ Req(p).content \in Large \ shared =>
         Req(p).content \in blobs
  /\ \A p \in Procs : At(p, "unlink") /\ Req(p).content \in Large \ shared =>
       ~Referenced(Req(p).content)

\* Paths of which one request at a time has made files, and nothing else.
Steady == Paths \ (overlapped \cup reused)

\* The revisions of a path are not ahead of its entry, and those before a put that has read
\* the entry are behind the version it is going to write.
RevisionsFit ==
  /\ \A r \in revisions : r.path \in Steady =>
       entries[r.path] # None /\ r.version <= entries[r.path].version
  /\ \A p \in Procs : procs[p].at \in {"blob", "entry", "text", "revision"} /\ Path(p) \in Steady =>
       \A r \in revisions : r.path = Path(p) => r.version < procs[p].version
  /\ \A p \in Procs : procs[p].at \in {"text", "revision"} /\ Path(p) \in Steady =>
       entries[Path(p)] # None /\ entries[Path(p)].version = procs[p].version

VfsInv ==
  /\ TypeOK
  /\ PointsFit
  /\ HistoryFits
  /\ VersionsBounded
  /\ BlobsFit
  /\ RevisionsFit
  /\ VersionsAreUnique

-----------------------------------------------------------------------------
(* Constants and paths. *)

Points == {"idle", "parent", "makeParent", "lookup", "make", "blob", "entry", "text", "revision",
           "cleanup", "unlink", "stat", "children", "list", "dropText", "dropEntry", "target",
           "moveEntry", "moveText"}

LEMMA ConstantTypes ==
  /\ MaxOps \in Nat /\ MaxFaults \in Nat
  /\ Small \cap Large = {} /\ None \notin Contents
  /\ None \notin Entry /\ None \notin Text /\ None \notin Requested
  /\ \A req \in Requested : /\ req \in Request
                            /\ req.op = "put" => req.content \in Contents
  BY VfsConstants DEF Contents

LEMMA RequestTypes ==
  ASSUME NEW req \in Requested
  PROVE  /\ req.op \in {"put", "mkdir", "delete", "move"}
         /\ req.path \in Paths /\ req.to \in Paths /\ req.recursive \in BOOLEAN
         /\ req.content \in Contents \cup {None}
  BY ConstantTypes DEF Request

LEMMA PathTypes ==
  ASSUME NEW p \in Paths
  PROVE  /\ p \in Seq(UNION {Range(q) : q \in Paths}) /\ Len(p) \in Nat
         /\ IsPrefix(p, p) /\ p \in Subtree(p) /\ Comparable(p, p)
<1>1. p \in Seq(UNION {Range(q) : q \in Paths})
  BY VfsConstants
<1>2. Len(p) \in Nat
  BY <1>1
<1>3. IsPrefix(p, p)
  BY <1>2 DEF IsPrefix
<1> QED
  BY <1>1, <1>2, <1>3 DEF Subtree, Comparable

\* Where a path is moved to is below where its tree is moved to.
LEMMA MovedBelow ==
  ASSUME NEW p \in Paths, NEW from \in Paths, NEW to \in Paths, IsPrefix(from, p)
  PROVE  IsPrefix(to, Moved(p, from, to))
<1> DEFINE names == UNION {Range(q) : q \in Paths}
           rest  == SubSeq(p, Len(from) + 1, Len(p))
<1>1. p \in Seq(names) /\ from \in Seq(names) /\ to \in Seq(names)
  BY PathTypes
<1>2. Len(from) \in Nat /\ Len(p) \in Nat /\ Len(from) <= Len(p)
  BY <1>1 DEF IsPrefix
<1>3. rest \in Seq(names)
  <2>1. \A i \in (Len(from) + 1) .. Len(p) : p[i] \in names
    BY <1>1, <1>2
  <2> QED
    BY <1>1, <1>2, <2>1
<1> HIDE DEF rest, names
<1>4. /\ Len(to \o rest) = Len(to) + Len(rest)
      /\ \A i \in 1 .. Len(to) : (to \o rest)[i] = to[i]
  BY <1>1, <1>3
<1>5. Len(to) \in Nat /\ Len(rest) \in Nat
  BY <1>1, <1>3
<1>6. to \o rest \in Seq(names)
  BY <1>1, <1>3
<1>7. SubSeq(to, 1, Len(to)) = SubSeq(to \o rest, 1, Len(to))
  BY <1>1, <1>4, <1>5, <1>6
<1> QED
  BY <1>4, <1>5, <1>7 DEF IsPrefix, Moved, rest

\* Of the paths left one is before what is below it: a shortest one.
LEMMA CurrentIsLeft ==
  ASSUME NEW p \in Procs, procs[p].left # {}, procs[p].left \subseteq Paths
  PROVE  Current(p) \in procs[p].left
<1> DEFINE left == procs[p].left
           lengths == {Len(q) : q \in left}
<1>1. lengths \subseteq Nat /\ lengths # {}
  BY PathTypes
<1>2. PICK n \in lengths : \A m \in lengths : ~(<<m, n>> \in OpToRel(<, Nat))
  BY <1>1, WFMin, NatLessThanWellFounded
<1>3. PICK q \in left : n = Len(q)
  BY <1>2
<1>4. ASSUME NEW r \in left PROVE ~IsStrictPrefix(r, q)
  <2>1. Len(r) \in Nat /\ Len(q) \in Nat /\ Len(r) \in lengths
    BY PathTypes
  <2>2. ~(Len(r) < Len(q))
    BY <1>2, <1>3, <2>1 DEF OpToRel
  <2>3. IsPrefix(r, q) => r = q
    <3> HAVE IsPrefix(r, q)
    <3>1. Len(r) = Len(q)
      BY <2>1, <2>2 DEF IsPrefix
    <3>2. SubSeq(r, 1, Len(r)) = SubSeq(q, 1, Len(q))
      BY <3>1 DEF IsPrefix
    <3>3. \A S : \A s \in Seq(S) : SubSeq(s, 1, Len(s)) = s
      OBVIOUS
    <3>4. \A s \in Paths : SubSeq(s, 1, Len(s)) = s
      BY <3>3, PathTypes
    <3> QED
      BY <3>2, <3>4
  <2> QED
    BY <2>3 DEF IsStrictPrefix
<1> QED
  BY <1>3, <1>4 DEF Current

-----------------------------------------------------------------------------
(* Steps of a request. *)

\* A request goes on to another await or ends.
GoesOn(p) ==
  /\ procs' \in [Procs -> Proc]
  /\ \A q \in Procs \ {p} : procs'[q] = procs[q]
  /\ PointFits(procs'[p])
  /\ procs'[p] = Idle \/ (procs'[p].at # "idle" /\ procs'[p].req = procs[p].req)

\* It does so without reading the version of a file.
ReadsNothing(p) ==
  /\ procs'[p].version \in {1, procs[p].version}
  /\ HasNotRead(procs'[p]) => HasNotRead(procs[p])

LEMMA IdleTypes == Idle \in Proc /\ PointFits(Idle) /\ ~HasNotRead(Idle)
  BY ConstantTypes DEF Idle, Proc, PointFits, HasNotRead

LEMMA ProcTypes ==
  ASSUME TypeOK, NEW p \in Procs
  PROVE  /\ procs[p] \in Proc /\ procs[p].at \in Points
         /\ procs[p].version \in 1 .. (MaxOps + 1) /\ procs[p].parent \in Nat
         /\ procs[p].left \subseteq Paths /\ procs[p].wrote \in BOOLEAN
         /\ procs[p].req \in Requested \cup {None}
  BY DEF TypeOK, Proc, Points

LEMMA EndGoesOn ==
  ASSUME TypeOK, NEW p \in Procs, procs' = [procs EXCEPT ![p] = Idle]
  PROVE  GoesOn(p) /\ ReadsNothing(p) /\ procs'[p] = Idle
<1>1. procs' \in [Procs -> Proc] /\ procs'[p] = Idle /\ \A q \in Procs \ {p} : procs'[q] = procs[q]
  BY IdleTypes DEF TypeOK
<1>2. Idle.version = 1
  BY DEF Idle
<1> QED
  BY <1>1, <1>2, IdleTypes DEF GoesOn, ReadsNothing

LEMMA ThrowGoesOn ==
  ASSUME TypeOK, NEW p \in Procs, Throw(p)
  PROVE  /\ GoesOn(p) /\ ReadsNothing(p) /\ procs'[p] = Idle
         /\ interrupted' \subseteq Paths
         /\ UNCHANGED <<files, overlapped, reused, shared>>
<1>1. procs' = [procs EXCEPT ![p] = Idle]
  BY DEF Throw
<1>2. Below(Req(p)) \subseteq Paths
  BY DEF Below, Subtree
<1>3. interrupted' \subseteq Paths
  BY <1>2 DEF Throw, TypeOK
<1> QED
  BY <1>1, <1>3, EndGoesOn DEF Throw

LEMMA ReturnGoesOn ==
  ASSUME TypeOK, NEW p \in Procs, NEW f, Return(p, f), f \in [Paths -> Contents \cup {"dir", None}]
  PROVE  /\ GoesOn(p) /\ ReadsNothing(p) /\ procs'[p] = Idle
         /\ files' \in [Paths -> Contents \cup {"dir", None}]
         /\ UNCHANGED <<overlapped, interrupted, reused, shared>>
  BY EndGoesOn DEF Return

\* Another await of the same request, with the rest of its variables as they are.
LEMMA GotoGoesOn ==
  ASSUME TypeOK, NEW p \in Procs, NEW a \in Points, a # "idle",
         Goto(p, a), PointFits([procs[p] EXCEPT !.at = a])
  PROVE  /\ GoesOn(p)
         /\ procs'[p] = [procs[p] EXCEPT !.at = a]
         /\ procs'[p].at = a /\ procs'[p].req = procs[p].req /\ procs'[p].left = procs[p].left
         /\ procs'[p].version = procs[p].version
<1>1. [procs[p] EXCEPT !.at = a] \in Proc
  BY ProcTypes DEF Proc, Points
<1>2. procs' = [procs EXCEPT ![p] = [procs[p] EXCEPT !.at = a]]
  BY DEF Goto
<1>3. /\ procs' \in [Procs -> Proc] /\ procs'[p] = [procs[p] EXCEPT !.at = a]
      /\ \A q \in Procs \ {p} : procs'[q] = procs[q]
  BY <1>1, <1>2 DEF TypeOK
<1>4. /\ procs'[p].at = a /\ procs'[p].req = procs[p].req /\ procs'[p].left = procs[p].left
      /\ procs'[p].version = procs[p].version
  BY <1>3, ProcTypes DEF Proc
<1> QED
  BY <1>3, <1>4 DEF GoesOn

LEMMA WritesGoesOn ==
  ASSUME TypeOK, NEW p \in Procs, NEW a \in Points, a # "idle",
         Writes(p, a), PointFits([procs[p] EXCEPT !.at = a, !.wrote = TRUE])
  PROVE  /\ GoesOn(p)
         /\ procs'[p].at = a /\ procs'[p].req = procs[p].req /\ procs'[p].left = procs[p].left
         /\ procs'[p].version = procs[p].version
<1> DEFINE r == [procs[p] EXCEPT !.at = a, !.wrote = TRUE]
<1>1. r \in Proc
  BY ProcTypes DEF Proc, Points
<1>2. procs' = [procs EXCEPT ![p] = r]
  BY DEF Writes, TypeOK
<1>3. procs' \in [Procs -> Proc] /\ procs'[p] = r /\ \A q \in Procs \ {p} : procs'[q] = procs[q]
  BY <1>1, <1>2 DEF TypeOK
<1>4. /\ procs'[p].at = a /\ procs'[p].req = procs[p].req /\ procs'[p].left = procs[p].left
      /\ procs'[p].version = procs[p].version
  BY <1>3, ProcTypes DEF Proc
<1> QED
  BY <1>3, <1>4 DEF GoesOn

LEMMA PointsInv ==
  ASSUME TypeOK, PointsFit, NEW p \in Procs, GoesOn(p)
  PROVE  PointsFit'
  BY DEF PointsFit, GoesOn

\* Which requests are under way changes at Begin only.
LEMMA HistoryInv ==
  ASSUME TypeOK, HistoryFits, NEW p \in Procs, GoesOn(p), procs[p].at # "idle",
         UNCHANGED <<overlapped, reused, shared>>
  PROVE  HistoryFits'
<1>1. \A q \in Procs : procs'[q].at # "idle" => procs[q].at # "idle" /\ procs'[q].req = procs[q].req
  BY DEF GoesOn, Idle
<1>2. \A q \in Busy' : q \in Busy /\ Req(q)' = Req(q)
  BY <1>1 DEF Busy, At, Req
<1>3. \A q \in Busy' : /\ IsStoring(procs'[q]) => IsStoring(procs[q])
                       /\ Asks(procs'[q], {"delete", "move"}) => Asks(procs[q], {"delete", "move"})
  BY <1>2 DEF IsStoring, Asks, Req
<1> QED
  BY <1>2, <1>3 DEF HistoryFits

\* Versions in the tables come from those that were there, from new directories and from puts.
LEMMA BoundedInv ==
  ASSUME TypeOK, VersionsBounded, NEW p \in Procs, GoesOn(p), ReadsNothing(p), ops' = ops,
         \A x \in Paths : entries'[x] # None =>
           \/ entries'[x].version \in {1, procs[p].version}
           \/ \E y \in Paths : entries[y] # None /\ entries'[x].version = entries[y].version
  PROVE  VersionsBounded'
<1>1. ToRead' \subseteq ToRead
  BY DEF ToRead, ReadsNothing, GoesOn
<1>2. IsFiniteSet(ToRead') /\ Cardinality(ToRead') <= Cardinality(ToRead)
  BY <1>1, FS_Subset DEF VersionsBounded
<1>3. Cardinality(ToRead) \in Nat /\ Cardinality(ToRead') \in Nat
  BY <1>2, FS_CardinalityType DEF VersionsBounded
<1>4. ops \in Nat /\ \A q \in Procs : procs[q].version \in Nat
  BY ProcTypes, ConstantTypes DEF TypeOK
<1>5. \A y \in Paths : entries[y] # None => entries[y].version \in Nat
  BY ConstantTypes DEF TypeOK, Entry
<1>6. ASSUME NEW x \in Paths, entries'[x] # None
      PROVE  entries'[x].version + Cardinality(ToRead)' <= ops' + 1
  <2>1. CASE entries'[x].version \in {1, procs[p].version}
    BY <2>1, <1>2, <1>3, <1>4 DEF VersionsBounded
  <2>2. CASE \E y \in Paths : entries[y] # None /\ entries'[x].version = entries[y].version
    BY <2>2, <1>2, <1>3, <1>4, <1>5 DEF VersionsBounded
  <2> QED
    BY <1>6, <2>1, <2>2
<1>7. \A q \in Procs : procs'[q].version + Cardinality(ToRead)' <= ops' + 1
  BY <1>2, <1>3, <1>4 DEF VersionsBounded, ReadsNothing, GoesOn
<1> QED
  BY <1>2, <1>3, <1>4, <1>6, <1>7 DEF VersionsBounded

\* A step refers to nothing new but the blob of its own put.
RefersToOwn(p) ==
  \A c \in Large \ shared : Referenced(c)' =>
    Referenced(c) \/ (IsStoring(procs[p]) /\ c = Req(p).content /\ c \in blobs)

LEMMA BlobsInv ==
  ASSUME TypeOK, PointsFit, HistoryFits, BlobsFit,
         NEW p \in Procs, GoesOn(p), procs[p].at # "idle", RefersToOwn(p),
         shared' = shared, blobs \subseteq blobs',
         procs'[p].at \in {"entry", "text", "revision"} /\ Req(p).content \in Large \ shared =>
           Req(p).content \in blobs',
         At(p, "unlink")' => ~Referenced(Req(p).content)'
  PROVE  BlobsFit'
<1>1. \A c \in Large \ shared : Referenced(c)' => c \in blobs'
  BY DEF RefersToOwn, BlobsFit, BlobsAreKept
<1>2. \A q \in Procs : procs'[q].at # "idle" => procs[q].at # "idle" /\ procs'[q].req = procs[q].req
  BY DEF GoesOn, Idle
<1>3. ASSUME NEW q \in Procs, procs'[q].at \in {"entry", "text", "revision"},
             Req(q)'.content \in Large \ shared
      PROVE  Req(q)'.content \in blobs'
  BY <1>2, <1>3 DEF BlobsFit, GoesOn, Req
<1>4. ASSUME NEW q \in Procs, At(q, "unlink")', Req(q)'.content \in Large \ shared
      PROVE  ~Referenced(Req(q).content)'
  <2>1. CASE q = p
    BY <1>4, <2>1
  <2>2. CASE q # p
    <3>1. procs'[q] = procs[q] /\ At(q, "unlink") /\ Req(q)' = Req(q)
      BY <1>4, <2>2 DEF GoesOn, At, Req
    <3>2. ~Referenced(Req(q).content)
      BY <1>4, <3>1 DEF BlobsFit
    <3>3. IsStoring(procs[q]) /\ q \in Busy /\ p \in Busy
      BY <3>1 DEF PointsFit, PointFits, At, Busy
    <3>4. ~(IsStoring(procs[p]) /\ Req(q).content = Req(p).content)
      BY <1>4, <2>2, <3>1, <3>3 DEF HistoryFits
    <3>5. ASSUME NEW c \in Large \ shared, c = Req(q).content PROVE ~(Referenced(c)')
      BY <3>2, <3>4, <3>5 DEF RefersToOwn
    <3> QED
      BY <1>4, <3>1, <3>5 DEF Referenced
  <2> QED
    BY <2>1, <2>2
<1> QED
  BY <1>1, <1>3, <1>4 DEF BlobsFit, BlobsAreKept

\* Entries of steady paths stay, and a put goes on with the version it has.
LEMMA RevisionsInv ==
  ASSUME TypeOK, RevisionsFit, VersionsAreUnique, NEW p \in Procs, GoesOn(p), procs[p].at # "idle",
         UNCHANGED <<revisions, overlapped, reused>>,
         \A x \in Steady : entries[x] # None => entries'[x] = entries[x],
         procs'[p].at \in {"blob", "entry", "text", "revision"} =>
           /\ procs'[p].version = procs[p].version
           /\ procs[p].at \in {"blob", "entry", "text", "revision"},
         procs'[p].at \in {"text", "revision"} => procs[p].at \in {"text", "revision"}
  PROVE  RevisionsFit' /\ VersionsAreUnique'
<1>1. Steady' = Steady
  BY DEF Steady
<1>2. VersionsAreUnique'
  BY DEF VersionsAreUnique
<1>3. \A q \in Procs : procs'[q].at # "idle" => Path(q)' = Path(q)
  BY DEF GoesOn, Idle, Path
<1>4. \A r \in revisions : r.path \in Steady =>
        entries'[r.path] # None /\ r.version <= entries'[r.path].version
  BY DEF RevisionsFit
<1>5. ASSUME NEW q \in Procs, procs'[q].at \in {"blob", "entry", "text", "revision"}, Path(q)' \in Steady
      PROVE  \A r \in revisions : r.path = Path(q)' => r.version < procs'[q].version
  BY <1>3, <1>5 DEF RevisionsFit, GoesOn
<1>6. ASSUME NEW q \in Procs, procs'[q].at \in {"text", "revision"}, Path(q)' \in Steady
      PROVE  entries'[Path(q)'] # None /\ entries'[Path(q)'].version = procs'[q].version
  BY <1>3, <1>6 DEF RevisionsFit, GoesOn
<1> QED
  BY <1>1, <1>2, <1>4, <1>5, <1>6 DEF RevisionsFit

\* Two requests for one path meet, so the path of a put is no other one's while it is steady.
LEMMA OneAtAPath ==
  ASSUME TypeOK, HistoryFits, NEW p \in Busy, NEW q \in Busy, p # q,
         Req(p) \in Requested, Asks(procs[q], {"put"}), Path(p) = Path(q)
  PROVE  Path(q) \notin Steady
<1>1. Path(q) \in Paths /\ Path(p) = Req(p).path /\ Path(q) = Req(q).path
  BY RequestTypes DEF Asks, Path, Req
<1>2. Path(p) \in Roots(Req(p)) /\ Path(q) \in Roots(Req(q))
  BY <1>1 DEF Roots
<1>3. Meet(Req(p), Req(q))
  BY <1>1, <1>2, PathTypes DEF Meet
<1>4. Path(q) \in Below(Req(q))
  BY <1>1, <1>2, PathTypes DEF Below
<1> QED
  BY <1>3, <1>4 DEF HistoryFits, Steady

\* What a deletion or a move has left to do is not steady, nor is where it moves it.
LEMMA LeftIsReused ==
  ASSUME TypeOK, PointsFit, HistoryFits, NEW p \in Procs,
         procs[p].at \in {"dropText", "dropEntry", "moveEntry", "moveText"}
  PROVE  /\ Current(p) \in procs[p].left /\ Current(p) \in Paths /\ Current(p) \notin Steady
         /\ Req(p).op = "move" => NewPath(p) \notin Steady
<1>1. /\ procs[p].left # {} /\ procs[p].left \subseteq Subtree(Path(p)) /\ p \in Busy
      /\ Asks(procs[p], {"delete", "move"})
  BY DEF PointsFit, PointFits, Busy, At, Path, Asks
<1>2. Current(p) \in procs[p].left /\ Current(p) \in Paths /\ IsPrefix(Path(p), Current(p))
  BY <1>1, CurrentIsLeft DEF Subtree
<1>3. Path(p) \in Paths /\ Req(p).to \in Paths
  BY <1>1, RequestTypes DEF Asks, Path, Req
<1>4. Below(Req(p)) \subseteq reused
  BY <1>1 DEF HistoryFits
<1>5. Current(p) \in Below(Req(p))
  BY <1>1, <1>2 DEF Below, Roots, Subtree, Req, Path
<1>6. ASSUME Req(p).op = "move", NewPath(p) \in Paths PROVE NewPath(p) \in Below(Req(p))
  BY <1>2, <1>3, <1>6, MovedBelow DEF Below, Roots, Subtree, NewPath
<1> QED
  BY <1>2, <1>4, <1>5, <1>6 DEF Steady

\* A new directory at a path, as insertDirectory writes it.
Directory == [kind |-> "dir", version |-> 1, key |-> None]

\* The steps that make no file: entries are made directories, moved or dropped.
LEMMA StepInv ==
  ASSUME VfsInv, TypeOK', NEW p \in Procs, GoesOn(p), ReadsNothing(p), procs[p].at # "idle",
         UNCHANGED <<revisions, ops, overlapped, reused, shared>>,
         blobs \subseteq blobs',
         \A x \in Paths : entries'[x] # None =>
           \/ entries'[x] = Directory
           \/ \E y \in Paths : entries'[x] = entries[y],
         \A x \in Steady : entries[x] # None => entries'[x] = entries[x],
         procs'[p].at \in {"blob", "entry", "text", "revision"} =>
           /\ procs'[p].version = procs[p].version
           /\ procs[p].at \in {"blob", "entry", "text", "revision"},
         procs'[p].at \in {"text", "revision"} => procs[p].at \in {"text", "revision"},
         procs'[p].at \in {"entry", "text", "revision"} /\ Req(p).content \in Large \ shared =>
           Req(p).content \in blobs',
         At(p, "unlink")' => ~Referenced(Req(p).content)'
  PROVE  VfsInv'
<1>1. PointsFit' /\ HistoryFits' /\ RevisionsFit' /\ VersionsAreUnique'
  BY PointsInv, HistoryInv, RevisionsInv DEF VfsInv
<1>2. VersionsBounded'
  <2>1. ASSUME NEW x \in Paths, entries'[x] # None
        PROVE  \/ entries'[x].version \in {1, procs[p].version}
               \/ \E y \in Paths : entries[y] # None /\ entries'[x].version = entries[y].version
    <3>1. Directory.version = 1
      BY DEF Directory
    <3> QED
      BY <2>1, <3>1
  <2> QED
    BY <2>1, BoundedInv DEF VfsInv
<1>3. RefersToOwn(p)
  <2>1. Directory.kind # "file"
    BY DEF Directory
  <2>2. \A c \in Large : Referenced(c)' => Referenced(c)
    BY <2>1 DEF Referenced, IsFile
  <2> QED
    BY <2>2 DEF RefersToOwn
<1>4. BlobsFit'
  BY <1>3, BlobsInv DEF VfsInv
<1> QED
  BY <1>1, <1>2, <1>4 DEF VfsInv

\* The same, when the request ends.
LEMMA LastStepInv ==
  ASSUME VfsInv, TypeOK', NEW p \in Procs, GoesOn(p), ReadsNothing(p), procs[p].at # "idle",
         procs'[p] = Idle,
         UNCHANGED <<revisions, ops, overlapped, reused, shared>>,
         blobs \subseteq blobs',
         \A x \in Paths : entries'[x] # None =>
           \/ entries'[x] = Directory
           \/ \E y \in Paths : entries'[x] = entries[y],
         \A x \in Steady : entries[x] # None => entries'[x] = entries[x]
  PROVE  VfsInv'
<1>1. Idle.at = "idle"
  BY DEF Idle
<1> QED
  BY <1>1, StepInv DEF At

LEMMA ThrowInv ==
  ASSUME VfsInv, NEW p \in Procs, procs[p].at # "idle", Throw(p), UNCHANGED <<tables, ops>>,
         faults' \in 0 .. MaxFaults
  PROVE  VfsInv'
<1>1. TypeOK
  BY DEF VfsInv
<1>2. /\ GoesOn(p) /\ ReadsNothing(p) /\ procs'[p] = Idle /\ interrupted' \subseteq Paths
      /\ UNCHANGED <<files, overlapped, reused, shared>>
  BY <1>1, ThrowGoesOn
<1>3. TypeOK'
  BY <1>1, <1>2 DEF TypeOK, GoesOn, tables
<1> QED
  BY <1>2, <1>3, LastStepInv DEF tables

LEMMA ReturnInv ==
  ASSUME VfsInv, NEW p \in Procs, procs[p].at # "idle", NEW f, Return(p, f),
         f \in [Paths -> Contents \cup {"dir", None}], UNCHANGED <<tables, counts>>
  PROVE  VfsInv'
<1>1. TypeOK
  BY DEF VfsInv
<1>2. /\ GoesOn(p) /\ ReadsNothing(p) /\ procs'[p] = Idle
      /\ files' \in [Paths -> Contents \cup {"dir", None}]
      /\ UNCHANGED <<overlapped, interrupted, reused, shared>>
  BY <1>1, ReturnGoesOn
<1>3. TypeOK'
  BY <1>1, <1>2 DEF TypeOK, GoesOn, tables, counts
<1> QED
  BY <1>2, <1>3, LastStepInv DEF tables, counts

\* A read, after which the request goes on elsewhere.
LEMMA ReadInv ==
  ASSUME VfsInv, NEW p \in Procs, procs[p].at # "idle", GoesOn(p), ReadsNothing(p),
         UNCHANGED <<tables, ops, history>>, faults' \in 0 .. MaxFaults,
         procs'[p].at \notin {"blob", "entry", "text", "revision", "unlink"}
  PROVE  VfsInv'
<1>1. TypeOK'
  BY DEF VfsInv, TypeOK, GoesOn, tables, history
<1> QED
  BY <1>1, StepInv DEF tables, history, At

LEMMA Unfinished ==
  ASSUME VfsInv
  PROVE  /\ TypeOK /\ PointsFit /\ HistoryFits
         /\ \A p \in Procs : PointFits(procs[p])
         /\ files \in [Paths -> Contents \cup {"dir", None}]
         /\ faults \in 0 .. MaxFaults
  BY DEF VfsInv, PointsFit, TypeOK

\* The next parent is looked for.
LEMMA NextParentGoesOn ==
  ASSUME VfsInv, NEW p \in Procs, procs[p].at \in {"parent", "makeParent"}, NextParent(p)
  PROVE  GoesOn(p) /\ ReadsNothing(p) /\ procs'[p].at = "parent"
<1> DEFINE s == [procs[p] EXCEPT !.parent = @ + 1, !.at = "parent"]
<1>1. TypeOK /\ Asks(procs[p], {"put", "mkdir", "move"})
  BY Unfinished DEF PointFits
<1>2. /\ s \in Proc /\ s.req = procs[p].req /\ s.at = "parent"
      /\ s.version = procs[p].version /\ s.left = procs[p].left
  <2>1. procs[p] \in Proc /\ procs[p].parent + 1 \in Nat
    BY <1>1, ProcTypes
  <2> QED
    BY <2>1 DEF Proc
<1>3. procs' = [procs EXCEPT ![p] = s]
  BY <1>1 DEF NextParent, TypeOK
<1> HIDE DEF s
<1>4. PointFits(s)
  BY <1>1, <1>2, Unfinished DEF PointFits, Asks
<1> QED
  BY <1>1, <1>2, <1>3, <1>4 DEF GoesOn, ReadsNothing, TypeOK, HasNotRead

-----------------------------------------------------------------------------
(* One lemma per action. *)

LEMMA FindParentInv ==
  ASSUME VfsInv, NEW p \in Procs, FindParent(p)
  PROVE  VfsInv'
<1> DEFINE r(a) == [procs[p] EXCEPT !.at = a]
<1>1. /\ TypeOK /\ procs[p].at = "parent" /\ Asks(procs[p], {"put", "mkdir", "move"})
      /\ procs[p].at # "idle"
  BY Unfinished DEF FindParent, At, PointFits
<1>2. UNCHANGED <<tables, counts>>
  BY DEF FindParent
<1>3. ASSUME NEW a \in {"lookup", "list", "moveEntry", "makeParent"}, Goto(p, a), UNCHANGED history,
             PointFits(r(a))
      PROVE  VfsInv'
  <2>1. /\ GoesOn(p) /\ procs'[p].at = a /\ procs'[p].version = procs[p].version
        /\ procs'[p].req = procs[p].req
    BY <1>1, <1>3, GotoGoesOn DEF Points
  <2>2. ReadsNothing(p)
    BY <1>1, <2>1 DEF ReadsNothing, HasNotRead
  <2> QED
    BY <1>1, <1>2, <1>3, <2>1, <2>2, ReadInv, Unfinished DEF counts
<1>4. CASE procs[p].parent >= Len(Target(p)) /\ Goto(p, AfterParents(p)) /\ UNCHANGED history
  <2>1. CASE Req(p).op \in {"put", "mkdir"}
    <3>1. AfterParents(p) = "lookup" /\ PointFits(r("lookup"))
      BY <1>1, <2>1, Unfinished, ProcTypes DEF AfterParents, PointFits, Asks, Req, Proc
    <3> QED
      BY <1>3, <1>4, <3>1
  <2>2. CASE Req(p).op = "move" /\ procs[p].left = {}
    <3>1. AfterParents(p) = "list" /\ PointFits(r("list"))
      BY <1>1, <2>2, Unfinished, ProcTypes DEF AfterParents, PointFits, Asks, Req, Proc
    <3> QED
      BY <1>3, <1>4, <3>1
  <2>3. CASE Req(p).op = "move" /\ procs[p].left # {}
    <3>1. AfterParents(p) = "moveEntry" /\ PointFits(r("moveEntry"))
      BY <1>1, <2>3, Unfinished, ProcTypes DEF AfterParents, PointFits, Asks, Req, Proc
    <3> QED
      BY <1>3, <1>4, <3>1
  <2> QED
    BY <1>1, <2>1, <2>2, <2>3 DEF Asks, Req
<1>5. CASE Throw(p)
  BY <1>1, <1>2, <1>5, ThrowInv, Unfinished DEF counts
<1>6. CASE NextParent(p) /\ UNCHANGED history
  <2>1. GoesOn(p) /\ ReadsNothing(p) /\ procs'[p].at = "parent"
    BY <1>1, <1>6, NextParentGoesOn
  <2> QED
    BY <1>1, <1>2, <1>6, <2>1, ReadInv, Unfinished DEF counts
<1>7. CASE Goto(p, "makeParent") /\ UNCHANGED history
  <2>1. PointFits(r("makeParent"))
    BY <1>1, Unfinished, ProcTypes DEF PointFits, Asks, Proc
  <2> QED
    BY <1>3, <1>7, <2>1
<1> QED
  BY <1>4, <1>5, <1>6, <1>7 DEF FindParent

LEMMA DirectoryTypes ==
  ASSUME VfsInv, NEW d, InsertDirectory(d), d \in Paths => entries[d] = None
  PROVE  /\ entries' \in [Paths -> Entry \cup {None}]
         /\ files' \in [Paths -> Contents \cup {"dir", None}]
         /\ \A x \in Paths : entries'[x] = Directory \/ entries'[x] = entries[x]
         /\ \A x \in Paths : entries[x] # None => entries'[x] = entries[x]
         /\ UNCHANGED <<texts, revisions, blobs, overlapped, interrupted, reused, shared>>
<1>1. Directory \in Entry
  BY ConstantTypes DEF Directory, Entry
<1>2. entries' = [entries EXCEPT ![d] = Directory] /\ files' = [files EXCEPT ![d] = "dir"]
  BY DEF InsertDirectory, Directory
<1>3. entries \in [Paths -> Entry \cup {None}] /\ files \in [Paths -> Contents \cup {"dir", None}]
  BY DEF VfsInv, TypeOK
<1> QED
  BY <1>1, <1>2, <1>3 DEF InsertDirectory

LEMMA MakeParentInv ==
  ASSUME VfsInv, NEW p \in Procs, MakeParent(p)
  PROVE  VfsInv'
<1>1. procs[p].at = "makeParent" /\ procs[p].at # "idle" /\ TypeOK /\ UNCHANGED counts
  BY Unfinished DEF MakeParent, At
<1>2. CASE entries[Parent(p)] # None /\ Throw(p) /\ UNCHANGED tables
  BY <1>1, <1>2, ThrowInv, Unfinished DEF counts
<1>3. CASE entries[Parent(p)] = None /\ InsertDirectory(Parent(p)) /\ NextParent(p)
  <2>1. GoesOn(p) /\ ReadsNothing(p) /\ procs'[p].at = "parent"
    BY <1>1, <1>3, NextParentGoesOn
  <2>2. /\ entries' \in [Paths -> Entry \cup {None}]
        /\ files' \in [Paths -> Contents \cup {"dir", None}]
        /\ \A x \in Paths : entries'[x] = Directory \/ entries'[x] = entries[x]
        /\ \A x \in Paths : entries[x] # None => entries'[x] = entries[x]
        /\ UNCHANGED <<texts, revisions, blobs, overlapped, interrupted, reused, shared>>
    BY <1>3, DirectoryTypes
  <2>3. TypeOK'
    BY <1>1, <2>1, <2>2 DEF TypeOK, GoesOn, counts
  <2> QED
    BY <1>1, <2>1, <2>2, <2>3, StepInv DEF counts, At, Steady
<1> QED
  BY <1>2, <1>3 DEF MakeParent

LEMMA MakeDirectoryInv ==
  ASSUME VfsInv, NEW p \in Procs, MakeDirectory(p)
  PROVE  VfsInv'
<1>1. procs[p].at = "make" /\ procs[p].at # "idle" /\ TypeOK /\ UNCHANGED counts
  BY Unfinished DEF MakeDirectory, At
<1>2. CASE entries[Path(p)] # None /\ Throw(p) /\ UNCHANGED tables
  BY <1>1, <1>2, ThrowInv, Unfinished DEF counts
<1>3. CASE entries[Path(p)] = None /\ InsertDirectory(Path(p)) /\ procs' = [procs EXCEPT ![p] = Idle]
  <2>1. GoesOn(p) /\ ReadsNothing(p) /\ procs'[p] = Idle
    BY <1>1, <1>3, EndGoesOn
  <2>2. /\ entries' \in [Paths -> Entry \cup {None}]
        /\ files' \in [Paths -> Contents \cup {"dir", None}]
        /\ \A x \in Paths : entries'[x] = Directory \/ entries'[x] = entries[x]
        /\ \A x \in Paths : entries[x] # None => entries'[x] = entries[x]
        /\ UNCHANGED <<texts, revisions, blobs, overlapped, interrupted, reused, shared>>
    BY <1>3, DirectoryTypes
  <2>3. TypeOK'
    BY <1>1, <2>1, <2>2 DEF TypeOK, GoesOn, counts
  <2> QED
    BY <1>1, <2>1, <2>2, <2>3, LastStepInv DEF counts, Steady
<1> QED
  BY <1>2, <1>3 DEF MakeDirectory

\* The put reads the version that its own will follow.
LEMMA LookUpInv ==
  ASSUME VfsInv, NEW p \in Procs, LookUp(p)
  PROVE  VfsInv'
<1> DEFINE r(a) == [procs[p] EXCEPT !.at = a]
<1>1. /\ TypeOK /\ procs[p].at = "lookup" /\ Asks(procs[p], {"put", "mkdir"})
      /\ procs[p].at # "idle" /\ UNCHANGED <<tables, counts>>
  BY Unfinished DEF LookUp, At, PointFits
<1>2. CASE Throw(p)
  BY <1>1, <1>2, ThrowInv, Unfinished DEF counts
<1>3. CASE Return(p, files)
  BY <1>1, <1>3, ReturnInv, Unfinished
<1>4. CASE Req(p).op = "mkdir" /\ Goto(p, "make") /\ UNCHANGED history
  <2>1. PointFits(r("make"))
    BY <1>1, <1>4, Unfinished, ProcTypes DEF PointFits, Asks, Proc, Req
  <2>2. /\ GoesOn(p) /\ procs'[p].at = "make" /\ procs'[p].version = procs[p].version
        /\ procs'[p].req = procs[p].req
    BY <1>1, <1>4, <2>1, GotoGoesOn DEF Points
  <2>3. ReadsNothing(p)
    BY <2>2 DEF ReadsNothing, HasNotRead
  <2> QED
    BY <1>1, <1>4, <2>2, <2>3, ReadInv, Unfinished DEF counts
<1>5. ASSUME Req(p).op = "put", UNCHANGED history,
             procs' = [procs EXCEPT ![p].at = IF StoredInD1(Req(p).content) THEN "entry" ELSE "blob",
                                    ![p].version = NextVersion(entries[Path(p)])]
      PROVE  VfsInv'
  <2> DEFINE v == NextVersion(entries[Path(p)])
             n == Cardinality(ToRead)
             s == [procs[p] EXCEPT !.at = IF StoredInD1(Req(p).content) THEN "entry" ELSE "blob",
                                   !.version = v]
  <2>1. Path(p) \in Paths /\ Req(p) \in Requested /\ Req(p).content \in Contents
    BY <1>1, <1>5, RequestTypes, ConstantTypes DEF Asks, Path, Req
  <2>2. p \in ToRead /\ IsFiniteSet(ToRead) /\ n \in Nat /\ n <= ops /\ ops \in Nat /\ ops <= MaxOps
    BY <1>1, <1>5, FS_CardinalityType, ConstantTypes
       DEF VfsInv, VersionsBounded, ToRead, HasNotRead, Req, TypeOK
  <2>3. n # 0
    BY <2>2, FS_EmptySet
  <2>4. entries[Path(p)] = None \/ entries[Path(p)].version \in Nat
    BY <1>1, <2>1, ConstantTypes DEF TypeOK, Entry
  <2>5. entries[Path(p)] # None => entries[Path(p)].version + n <= ops + 1
    BY <2>1 DEF VfsInv, VersionsBounded
  <2>6. v \in Nat /\ v >= 1 /\ v + (n - 1) <= ops + 1 /\ v \in 1 .. (MaxOps + 1)
    BY <2>2, <2>3, <2>4, <2>5, ConstantTypes DEF NextVersion
  <2> HIDE DEF v, n
  <2>7. /\ s \in Proc /\ s.req = procs[p].req /\ s.version = v /\ s.left = procs[p].left
        /\ s.at \in {"entry", "blob"} /\ (s.at = "entry" <=> Req(p).content \in Small)
    BY <1>1, <2>6, ProcTypes DEF Proc, StoredInD1
  <2>8. procs' = [procs EXCEPT ![p] = s]
    BY <1>1, <1>5 DEF TypeOK, v
  <2> HIDE DEF s
  <2>9. PointFits(s)
    BY <1>1, <1>5, <2>1, <2>7, Unfinished, ConstantTypes DEF PointFits, Asks, IsStoring, Req, Contents
  <2>10. GoesOn(p) /\ procs'[p] = s
    BY <1>1, <2>7, <2>8, <2>9 DEF GoesOn, TypeOK
  <2>11. TypeOK'
    BY <1>1, <1>5, <2>10 DEF TypeOK, GoesOn, tables, counts, history
  <2>12. PointsFit' /\ HistoryFits'
    BY <1>1, <1>5, <2>10, PointsInv, HistoryInv, Unfinished DEF history
  <2>13. VersionsBounded'
    <3>1. ToRead' = ToRead \ {p}
      BY <2>7, <2>10 DEF ToRead, HasNotRead, GoesOn
    <3>2. IsFiniteSet(ToRead') /\ Cardinality(ToRead') = n - 1
      BY <2>2, <3>1, FS_RemoveElement DEF n
    <3>3. \A y \in Paths : entries[y] # None => entries[y].version \in Nat
      BY <1>1, ConstantTypes DEF TypeOK, Entry
    <3>4. \A x \in Paths : entries[x] # None => entries[x].version + (n - 1) <= ops + 1
      BY <2>2, <3>3 DEF VfsInv, VersionsBounded, n
    <3>5. \A q \in Procs : procs[q].version \in Nat /\ procs[q].version + n <= ops + 1
      BY <1>1, ProcTypes, ConstantTypes DEF VfsInv, VersionsBounded, n
    <3>6. \A q \in Procs : procs'[q].version + (n - 1) <= ops + 1
      BY <2>2, <2>6, <2>7, <2>10, <3>5 DEF GoesOn
    <3> QED
      BY <1>1, <2>2, <3>2, <3>4, <3>6 DEF VersionsBounded, tables, counts
  <2>14. BlobsFit'
    <3>1. RefersToOwn(p)
      BY <1>1 DEF RefersToOwn, Referenced, IsFile, tables
    <3>2. procs'[p].at = "entry" => Req(p).content \notin Large
      BY <2>7, <2>10, ConstantTypes
    <3> QED
      BY <1>1, <1>5, <2>7, <2>10, <3>1, <3>2, BlobsInv, Unfinished DEF VfsInv, tables, history, At
  <2>15. RevisionsFit' /\ VersionsAreUnique'
    <3>1. Steady' = Steady /\ revisions' = revisions /\ entries' = entries
      BY <1>1, <1>5 DEF Steady, history, tables
    <3>2. ASSUME NEW x \in revisions, x.path = Path(p), Path(p) \in Steady PROVE x.version < v
      <4>1. entries[Path(p)] # None /\ x.version <= entries[Path(p)].version
        BY <3>2 DEF VfsInv, RevisionsFit
      <4>2. x.version \in Nat
        BY <1>1, ConstantTypes DEF TypeOK, Revision
      <4> QED
        BY <2>4, <4>1, <4>2 DEF v, NextVersion
    <3>3. VersionsAreUnique'
      BY <1>5, <3>1 DEF VfsInv, VersionsAreUnique, history
    <3>4. Path(p)' = Path(p)
      BY <2>7, <2>10 DEF Path
    <3>5. \A q \in Procs \ {p} : procs'[q] = procs[q] /\ Path(q)' = Path(q)
      BY <2>10 DEF GoesOn, Path
    <3> QED
      BY <2>7, <2>10, <3>1, <3>2, <3>3, <3>4, <3>5 DEF VfsInv, RevisionsFit
  <2> QED
    BY <2>11, <2>12, <2>13, <2>14, <2>15 DEF VfsInv
<1>6. IsDir(Path(p)) \/ IsFile(Path(p)) \/ entries[Path(p)] = None
  <2>1. Path(p) \in Paths
    BY <1>1, RequestTypes DEF Asks, Path
  <2> QED
    BY <1>1, <2>1 DEF TypeOK, Entry, IsDir, IsFile
<1>7. Req(p).op = "mkdir" \/ Req(p).op = "put"
  BY <1>1 DEF Asks, Req
<1>8. ~(IsDir(Path(p)) /\ IsFile(Path(p))) /\ ~(entries[Path(p)] = None /\ (IsDir(Path(p)) \/ IsFile(Path(p))))
  BY DEF IsDir, IsFile
<1> QED
  BY <1>2, <1>3, <1>4, <1>5, <1>6, <1>7, <1>8 DEF LookUp

LEMMA PutBlobInv ==
  ASSUME VfsInv, NEW p \in Procs, PutBlob(p)
  PROVE  VfsInv'
<1>1. /\ TypeOK /\ procs[p].at = "blob" /\ IsStoring(procs[p]) /\ procs[p].at # "idle"
      /\ UNCHANGED <<entries, texts, revisions, counts, history>>
      /\ blobs' = blobs \cup {Req(p).content} /\ Req(p).content \in Large
  BY Unfinished DEF PutBlob, At, PointFits, IsStoring, Req
<1>2. PointFits([procs[p] EXCEPT !.at = "entry"])
  BY <1>1, Unfinished, ProcTypes DEF PointFits, Asks, IsStoring, Proc
<1>3. /\ GoesOn(p) /\ procs'[p].at = "entry" /\ procs'[p].version = procs[p].version
      /\ procs'[p].req = procs[p].req
  BY <1>1, <1>2, GotoGoesOn DEF Points, PutBlob
<1>4. ReadsNothing(p)
  BY <1>3 DEF ReadsNothing, HasNotRead
<1>5. TypeOK'
  BY <1>1, <1>3 DEF TypeOK, GoesOn, counts, history
<1> QED
  BY <1>1, <1>3, <1>4, <1>5, StepInv DEF counts, history, At

LEMMA UpsertFileEntryInv ==
  ASSUME VfsInv, NEW p \in Procs, UpsertFileEntry(p)
  PROVE  VfsInv'
<1> DEFINE e == [kind |-> "file", version |-> procs[p].version,
                 key |-> IF StoredInD1(Req(p).content) THEN None ELSE Req(p).content]
<1>1. /\ TypeOK /\ procs[p].at = "entry" /\ Asks(procs[p], {"put"}) /\ procs[p].at # "idle"
      /\ UNCHANGED <<texts, revisions, blobs, counts, history>>
      /\ entries' = [entries EXCEPT ![Path(p)] = e]
  BY Unfinished DEF UpsertFileEntry, At, PointFits
<1>2. Path(p) \in Paths /\ Req(p) \in Requested /\ Req(p).content \in Contents /\ p \in Busy
  BY <1>1, RequestTypes, ConstantTypes DEF Asks, Path, Req, Busy, At
<1>3. e \in Entry /\ e # None /\ e.version = procs[p].version
      /\ e.key = IF Req(p).content \in Small THEN None ELSE Req(p).content
  BY <1>1, <1>2, ConstantTypes, ProcTypes DEF Entry, Contents, StoredInD1
<1> HIDE DEF e
<1>4. /\ entries' \in [Paths -> Entry \cup {None}] /\ entries'[Path(p)] = e
      /\ \A x \in Paths : x # Path(p) => entries'[x] = entries[x]
  BY <1>1, <1>2, <1>3 DEF TypeOK
<1>5. PointFits([procs[p] EXCEPT !.at = "text", !.wrote = TRUE])
  BY <1>1, Unfinished, ProcTypes DEF PointFits, Asks, Proc
<1>6. /\ GoesOn(p) /\ procs'[p].at = "text" /\ procs'[p].version = procs[p].version
      /\ procs'[p].req = procs[p].req
  BY <1>1, <1>5, WritesGoesOn DEF Points, UpsertFileEntry
<1>7. ReadsNothing(p)
  BY <1>6 DEF ReadsNothing, HasNotRead
<1>8. TypeOK'
  BY <1>1, <1>4, <1>6 DEF TypeOK, GoesOn, counts, history
<1>9. PointsFit' /\ HistoryFits'
  BY <1>1, <1>6, PointsInv, HistoryInv, Unfinished DEF history
<1>10. VersionsBounded'
  BY <1>1, <1>3, <1>4, <1>6, <1>7, BoundedInv DEF VfsInv, counts
<1>11. BlobsFit'
  <2>1. Req(p).content \in Large \ shared => Req(p).content \in blobs
    BY <1>1 DEF VfsInv, BlobsFit
  <2>2. RefersToOwn(p)
    <3> SUFFICES ASSUME NEW c \in Large \ shared, Referenced(c)', ~Referenced(c)
                 PROVE  IsStoring(procs[p]) /\ c = Req(p).content /\ c \in blobs
      BY DEF RefersToOwn
    <3>1. PICK x \in Paths : entries'[x] # None /\ entries'[x].kind = "file" /\ entries'[x].key = c
      BY <1>1 DEF Referenced, IsFile
    <3>2. x = Path(p)
      BY <1>4, <3>1 DEF Referenced, IsFile
    <3>3. c = Req(p).content
      BY <1>3, <1>4, <3>1, <3>2, ConstantTypes DEF Contents
    <3> QED
      BY <1>1, <2>1, <3>3 DEF IsStoring, Req
  <2> QED
    BY <1>1, <1>6, <2>1, <2>2, BlobsInv, Unfinished DEF VfsInv, history, At
<1>12. RevisionsFit' /\ VersionsAreUnique'
  <2>1. Steady' = Steady /\ revisions' = revisions /\ VersionsAreUnique'
    BY <1>1 DEF Steady, history, VfsInv, VersionsAreUnique
  <2>2. Path(p)' = Path(p) /\ \A q \in Procs \ {p} : procs'[q] = procs[q] /\ Path(q)' = Path(q)
    BY <1>6 DEF Path, GoesOn
  <2>3. ASSUME NEW q \in Procs \ {p}, procs[q].at \in {"text", "revision"}, Path(q) \in Steady
        PROVE  Path(q) # Path(p)
    <3>1. q \in Busy /\ Req(q) \in Requested
      BY <2>3, Unfinished DEF PointFits, Asks, Req, Busy, At
    <3> QED
      BY <1>1, <1>2, <2>3, <3>1, OneAtAPath, Unfinished
  <2>4. \A x \in revisions : x.path \in Paths /\ x.version \in Nat
    BY <1>1, ConstantTypes DEF TypeOK, Revision
  <2>5. procs[p].version \in Nat
    BY <1>1, ProcTypes, ConstantTypes
  <2>6. \A x \in revisions : x.path \in Steady =>
          entries'[x.path] # None /\ x.version <= entries'[x.path].version
    BY <1>1, <1>3, <1>4, <2>4, <2>5 DEF VfsInv, RevisionsFit
  <2>7. \A q \in Procs : procs'[q].at \in {"blob", "entry", "text", "revision"} /\ Path(q)' \in Steady =>
          \A x \in revisions : x.path = Path(q)' => x.version < procs'[q].version
    BY <1>1, <1>6, <2>2 DEF VfsInv, RevisionsFit
  <2>8. \A q \in Procs : procs'[q].at \in {"text", "revision"} /\ Path(q)' \in Steady =>
          entries'[Path(q)'] # None /\ entries'[Path(q)'].version = procs'[q].version
    <3>1. \A q \in Procs \ {p} : Path(q) \in Steady => Path(q) \in Paths
      BY DEF Steady
    <3> QED
      BY <1>3, <1>4, <1>6, <2>2, <2>3, <3>1 DEF VfsInv, RevisionsFit
  <2> QED
    BY <2>1, <2>6, <2>7, <2>8 DEF RevisionsFit
<1> QED
  BY <1>8, <1>9, <1>10, <1>11, <1>12 DEF VfsInv

LEMMA WriteTextContentInv ==
  ASSUME VfsInv, NEW p \in Procs, WriteTextContent(p)
  PROVE  VfsInv'
<1>1. /\ TypeOK /\ procs[p].at = "text" /\ Asks(procs[p], {"put"}) /\ procs[p].at # "idle"
      /\ UNCHANGED <<entries, revisions, blobs, counts, history>>
  BY Unfinished DEF WriteTextContent, At, PointFits
<1>2. PointFits([procs[p] EXCEPT !.at = "revision"])
  BY <1>1, Unfinished, ProcTypes DEF PointFits, Asks, Proc
<1>3. /\ GoesOn(p) /\ procs'[p].at = "revision" /\ procs'[p].version = procs[p].version
      /\ procs'[p].req = procs[p].req
  BY <1>1, <1>2, GotoGoesOn DEF Points, WriteTextContent
<1>4. ReadsNothing(p)
  BY <1>3 DEF ReadsNothing, HasNotRead
<1>5. WrittenText(p) \in Text \cup {None}
  BY <1>1, ProcTypes DEF WrittenText, Text, StoredInD1
<1>6. TypeOK'
  <2>1. texts' \in [Paths -> Text \cup {None}]
    BY <1>1, <1>5 DEF TypeOK, WriteTextContent
  <2> QED
    BY <1>1, <1>3, <2>1 DEF TypeOK, GoesOn, counts, history
<1>7. Req(p).content \in Large \ shared => Req(p).content \in blobs
  BY <1>1 DEF VfsInv, BlobsFit
<1> QED
  BY <1>1, <1>3, <1>4, <1>6, <1>7, StepInv DEF counts, history, At

\* A put that records its version had its path to itself, if the path is steady.
LEMMA InsertFileRevisionInv ==
  ASSUME VfsInv, NEW p \in Procs, InsertFileRevision(p)
  PROVE  VfsInv'
<1> DEFINE new == [path |-> Path(p), version |-> procs[p].version, content |-> Req(p).content]
           f   == [files EXCEPT ![Path(p)] = Req(p).content]
<1>1. /\ TypeOK /\ procs[p].at = "revision" /\ Asks(procs[p], {"put"}) /\ procs[p].at # "idle"
      /\ UNCHANGED <<entries, texts, blobs, counts>>
      /\ revisions' = revisions \cup {new} /\ Return(p, f)
  BY Unfinished DEF InsertFileRevision, At, PointFits
<1>2. Path(p) \in Paths /\ Req(p) \in Requested /\ Req(p).content \in Contents /\ p \in Busy
  BY <1>1, RequestTypes, ConstantTypes DEF Asks, Path, Req, Busy, At
<1>3. new \in Revision /\ f \in [Paths -> Contents \cup {"dir", None}]
  BY <1>1, <1>2, ProcTypes DEF Revision, TypeOK
<1>4. /\ new.path = Path(p) /\ new.version = procs[p].version /\ new.content = Req(p).content
      /\ procs[p].version \in Nat
  BY <1>1, ProcTypes, ConstantTypes
<1> HIDE DEF new, f
<1>5. /\ GoesOn(p) /\ ReadsNothing(p) /\ procs'[p] = Idle /\ Idle.at = "idle"
      /\ files' \in [Paths -> Contents \cup {"dir", None}]
      /\ UNCHANGED <<overlapped, interrupted, reused, shared>>
  BY <1>1, <1>3, ReturnGoesOn DEF Idle
<1>6. TypeOK'
  BY <1>1, <1>3, <1>5 DEF TypeOK, GoesOn, counts
<1>7. PointsFit' /\ HistoryFits'
  BY <1>1, <1>5, PointsInv, HistoryInv, Unfinished
<1>8. VersionsBounded'
  BY <1>1, <1>5, BoundedInv DEF VfsInv, counts
<1>9. BlobsFit'
  <2>1. Req(p).content \in Large \ shared => Req(p).content \in blobs
    BY <1>1 DEF VfsInv, BlobsFit
  <2>2. RefersToOwn(p)
    BY <1>1, <1>4, <2>1 DEF RefersToOwn, Referenced, IsFile, IsStoring, Req
  <2> QED
    BY <1>1, <1>5, <2>2, BlobsInv, Unfinished DEF VfsInv, At
<1>10. RevisionsFit' /\ VersionsAreUnique'
  <2>1. Steady' = Steady
    BY <1>5 DEF Steady
  <2>2. \A q \in Procs \ {p} : procs'[q] = procs[q] /\ Path(q)' = Path(q)
    BY <1>5 DEF Path, GoesOn
  <2>3. \A x \in revisions : x.path \in Paths /\ x.version \in Nat
    BY <1>1, ConstantTypes DEF TypeOK, Revision
  <2>4. ASSUME NEW q \in Procs \ {p}, procs[q].at \in {"blob", "entry", "text", "revision"},
               Path(q) \in Steady
        PROVE  Path(q) # Path(p)
    <3>1. q \in Busy /\ Req(q) \in Requested
      BY <2>4, Unfinished DEF PointFits, Asks, IsStoring, Req, Busy, At
    <3> QED
      BY <1>1, <1>2, <2>4, <3>1, OneAtAPath, Unfinished
  <2>5. \A x \in revisions' : x.path \in Steady =>
          entries'[x.path] # None /\ x.version <= entries'[x.path].version
    BY <1>1, <1>4, <2>3 DEF VfsInv, RevisionsFit
  <2>6. \A q \in Procs : procs'[q].at \in {"blob", "entry", "text", "revision"} /\ Path(q)' \in Steady =>
          \A x \in revisions' : x.path = Path(q)' => x.version < procs'[q].version
    BY <1>1, <1>4, <1>5, <2>2, <2>4 DEF VfsInv, RevisionsFit
  <2>7. \A q \in Procs : procs'[q].at \in {"text", "revision"} /\ Path(q)' \in Steady =>
          entries'[Path(q)'] # None /\ entries'[Path(q)'].version = procs'[q].version
    BY <1>1, <1>5, <2>2 DEF VfsInv, RevisionsFit
  <2>8. VersionsAreUnique'
    <3> SUFFICES ASSUME NEW r1 \in revisions', NEW r2 \in revisions', r1.path = r2.path,
                        r1.version = r2.version, r1.path \notin overlapped \cup reused
                 PROVE  r1 = r2
      BY <1>5 DEF VersionsAreUnique
    <3>1. r1.path \in Steady
      BY <1>1, <1>2, <1>4, <2>3 DEF Steady
    <3>2. \A x \in revisions : x.path = Path(p) /\ Path(p) \in Steady => x.version < procs[p].version
      BY <1>1 DEF VfsInv, RevisionsFit
    <3>3. CASE r1 \in revisions /\ r2 \in revisions
      BY <3>3 DEF VfsInv, VersionsAreUnique
    <3>4. CASE r1 = new \/ r2 = new
      BY <1>1, <1>4, <2>3, <3>1, <3>2, <3>4
    <3> QED
      BY <1>1, <3>3, <3>4
  <2> QED
    BY <2>1, <2>5, <2>6, <2>7, <2>8 DEF RevisionsFit
<1> QED
  BY <1>6, <1>7, <1>8, <1>9, <1>10 DEF VfsInv

LEMMA CleanUpInv ==
  ASSUME VfsInv, NEW p \in Procs, CleanUp(p)
  PROVE  VfsInv'
<1>1. /\ TypeOK /\ procs[p].at = "cleanup" /\ IsStoring(procs[p]) /\ procs[p].at # "idle"
      /\ UNCHANGED <<tables, counts>>
  BY Unfinished DEF CleanUp, At, PointFits
<1>2. CASE Throw(p)
  BY <1>1, <1>2, ThrowInv, Unfinished DEF counts
<1>3. CASE ~Referenced(Req(p).content) /\ Goto(p, "unlink") /\ UNCHANGED history
  <2>1. PointFits([procs[p] EXCEPT !.at = "unlink"])
    BY <1>1, Unfinished, ProcTypes DEF PointFits, Asks, IsStoring, Proc
  <2>2. /\ GoesOn(p) /\ procs'[p].at = "unlink" /\ procs'[p].version = procs[p].version
        /\ procs'[p].req = procs[p].req
    BY <1>1, <1>3, <2>1, GotoGoesOn DEF Points
  <2>3. ReadsNothing(p)
    BY <2>2 DEF ReadsNothing, HasNotRead
  <2>4. TypeOK'
    BY <1>1, <1>3, <2>2 DEF TypeOK, GoesOn, tables, counts, history
  <2>5. ~Referenced(Req(p).content)'
    BY <1>1, <1>3, <2>2 DEF Referenced, IsFile, tables, Req
  <2> QED
    BY <1>1, <1>3, <2>2, <2>3, <2>4, <2>5, StepInv DEF tables, counts, history
<1> QED
  BY <1>2, <1>3 DEF CleanUp, IsReferenced

\* What is deleted is referred to by nothing, and no other put will, unless it is shared.
LEMMA UnlinkInv ==
  ASSUME VfsInv, NEW p \in Procs, Unlink(p)
  PROVE  VfsInv'
<1>1. /\ TypeOK /\ procs[p].at = "unlink" /\ IsStoring(procs[p]) /\ procs[p].at # "idle"
      /\ UNCHANGED <<entries, texts, revisions, counts>>
      /\ blobs' = blobs \ {Req(p).content} /\ Throw(p) /\ p \in Busy
  BY Unfinished DEF Unlink, At, PointFits, Busy
<1>2. /\ GoesOn(p) /\ ReadsNothing(p) /\ procs'[p] = Idle /\ interrupted' \subseteq Paths
      /\ UNCHANGED <<files, overlapped, reused, shared>> /\ Idle.at = "idle"
  BY <1>1, ThrowGoesOn DEF Idle
<1>3. TypeOK'
  BY <1>1, <1>2 DEF TypeOK, GoesOn, counts
<1>4. PointsFit' /\ HistoryFits' /\ VersionsBounded'
  BY <1>1, <1>2, PointsInv, HistoryInv, BoundedInv DEF VfsInv, counts
<1>5. RevisionsFit' /\ VersionsAreUnique'
  BY <1>1, <1>2, RevisionsInv DEF VfsInv
<1>6. BlobsFit'
  <2>1. \A c : Referenced(c)' <=> Referenced(c)
    BY <1>1 DEF Referenced, IsFile
  <2>2. Req(p).content \in Large \ shared => ~Referenced(Req(p).content)
    BY <1>1 DEF VfsInv, BlobsFit, At
  <2>3. \A c \in Large \ shared : Referenced(c)' => c \in blobs'
    BY <1>1, <2>1, <2>2 DEF VfsInv, BlobsFit, BlobsAreKept
  <2>4. \A q \in Procs : procs'[q].at # "idle" => q # p /\ procs'[q] = procs[q] /\ Req(q)' = Req(q)
    BY <1>2 DEF GoesOn, Req
  <2>5. ASSUME NEW q \in Procs, procs'[q].at \in {"entry", "text", "revision"},
               Req(q)'.content \in Large \ shared
        PROVE  Req(q)'.content \in blobs'
    <3>1. q # p /\ procs'[q] = procs[q] /\ Req(q)' = Req(q)
      BY <2>4, <2>5
    <3>2. q \in Busy /\ IsStoring(procs[q]) /\ Req(q).content \in blobs
      BY <2>5, <3>1, Unfinished DEF VfsInv, BlobsFit, PointFits, Asks, IsStoring, Req, Busy, At
    <3>3. Req(q).content # Req(p).content
      BY <1>1, <2>5, <3>1, <3>2, Unfinished DEF HistoryFits
    <3> QED
      BY <1>1, <3>1, <3>2, <3>3
  <2>6. ASSUME NEW q \in Procs, At(q, "unlink")', Req(q)'.content \in Large \ shared
        PROVE  ~Referenced(Req(q).content)'
    <3>1. procs'[q] = procs[q] /\ Req(q)' = Req(q) /\ At(q, "unlink")
      BY <2>4, <2>6 DEF At
    <3>2. ~Referenced(Req(q).content)
      BY <2>6, <3>1 DEF VfsInv, BlobsFit
    <3> QED
      BY <1>1, <3>1, <3>2 DEF Referenced, IsFile
  <2> QED
    BY <1>2, <2>3, <2>5, <2>6 DEF BlobsFit, BlobsAreKept
<1> QED
  BY <1>3, <1>4, <1>5, <1>6 DEF VfsInv

\* The file, or for now nothing, is what there is to drop or to move.
LEMMA StatInv ==
  ASSUME VfsInv, NEW p \in Procs, Stat(p)
  PROVE  VfsInv'
<1>1. /\ TypeOK /\ procs[p].at = "stat" /\ Asks(procs[p], {"delete", "move"}) /\ procs[p].at # "idle"
      /\ UNCHANGED <<tables, counts>>
  BY Unfinished DEF Stat, At, PointFits
<1>2. CASE Throw(p)
  BY <1>1, <1>2, ThrowInv, Unfinished DEF counts
<1>3. CASE ~Throw(p)
  <2> DEFINE s == [procs[p] EXCEPT
                     !.at = IF Req(p).op = "move" THEN "target"
                            ELSE IF IsDir(Path(p)) THEN "children" ELSE "dropText",
                     !.left = IF IsDir(Path(p)) THEN {} ELSE {Path(p)}]
  <2>1. procs' = [procs EXCEPT ![p] = s] /\ UNCHANGED history
    BY <1>1, <1>3 DEF Stat, TypeOK
  <2>2. Path(p) \in Paths /\ Path(p) = procs[p].req.path /\ Path(p) \in Subtree(Path(p))
    BY <1>1, RequestTypes, PathTypes DEF Asks, Path
  <2>3. /\ s \in Proc /\ s.req = procs[p].req /\ s.version = procs[p].version
        /\ s.at = IF Req(p).op = "move" THEN "target"
                  ELSE IF IsDir(Path(p)) THEN "children" ELSE "dropText"
        /\ s.left = IF IsDir(Path(p)) THEN {} ELSE {Path(p)}
    BY <1>1, <2>2, ProcTypes DEF Proc
  <2> HIDE DEF s
  <2>4. PointFits(s) /\ ~HasNotRead(s)
    BY <1>1, <2>2, <2>3, Unfinished DEF PointFits, Asks, Req, HasNotRead
  <2>5. GoesOn(p) /\ ReadsNothing(p) /\ procs'[p] = s
    BY <1>1, <2>1, <2>3, <2>4 DEF GoesOn, ReadsNothing, TypeOK
  <2> QED
    BY <1>1, <2>1, <2>3, <2>5, ReadInv, Unfinished DEF counts
<1> QED
  BY <1>2, <1>3

LEMMA ListDirectChildrenInv ==
  ASSUME VfsInv, NEW p \in Procs, ListDirectChildren(p)
  PROVE  VfsInv'
<1>1. /\ TypeOK /\ procs[p].at = "children" /\ Asks(procs[p], {"delete"}) /\ procs[p].at # "idle"
      /\ UNCHANGED <<tables, counts>>
  BY Unfinished DEF ListDirectChildren, At, PointFits
<1>2. CASE Throw(p)
  BY <1>1, <1>2, ThrowInv, Unfinished DEF counts
<1>3. CASE Goto(p, "list") /\ UNCHANGED history
  <2>1. PointFits([procs[p] EXCEPT !.at = "list"])
    BY <1>1, Unfinished, ProcTypes DEF PointFits, Asks, Proc
  <2>2. GoesOn(p) /\ procs'[p].at = "list" /\ procs'[p].version = procs[p].version
    BY <1>1, <1>3, <2>1, GotoGoesOn DEF Points
  <2> QED
    BY <1>1, <1>3, <2>2, ReadInv, Unfinished DEF counts, ReadsNothing, HasNotRead
<1> QED
  BY <1>2, <1>3 DEF ListDirectChildren

LEMMA FindTargetInv ==
  ASSUME VfsInv, NEW p \in Procs, FindTarget(p)
  PROVE  VfsInv'
<1>1. /\ TypeOK /\ procs[p].at = "target" /\ Asks(procs[p], {"move"}) /\ procs[p].at # "idle"
      /\ UNCHANGED <<tables, counts>>
  BY Unfinished DEF FindTarget, At, PointFits
<1>2. CASE Throw(p)
  BY <1>1, <1>2, ThrowInv, Unfinished DEF counts
<1>3. CASE Goto(p, "parent") /\ UNCHANGED history
  <2>1. PointFits([procs[p] EXCEPT !.at = "parent"])
    BY <1>1, Unfinished, ProcTypes DEF PointFits, Asks, Proc
  <2>2. /\ GoesOn(p) /\ procs'[p].at = "parent" /\ procs'[p].version = procs[p].version
        /\ procs'[p].req = procs[p].req
    BY <1>1, <1>3, <2>1, GotoGoesOn DEF Points
  <2>3. ReadsNothing(p)
    BY <1>1, <2>2 DEF ReadsNothing, HasNotRead, Asks
  <2> QED
    BY <1>1, <1>3, <2>2, <2>3, ReadInv, Unfinished DEF counts
<1> QED
  BY <1>2, <1>3 DEF FindTarget

LEMMA FilesTypes ==
  ASSUME VfsInv, NEW p \in Procs
  PROVE  /\ Deleted(p) \in [Paths -> Contents \cup {"dir", None}]
         /\ MovedAway(p) \in [Paths -> Contents \cup {"dir", None}]
<1>1. files \in [Paths -> Contents \cup {"dir", None}]
  BY Unfinished
<1>2. Deleted(p) \in [Paths -> Contents \cup {"dir", None}]
  BY <1>1 DEF Deleted
<1>3. MovedAway(p) \in [Paths -> Contents \cup {"dir", None}]
  BY <1>1 DEF MovedAway
<1> QED
  BY <1>2, <1>3

LEMMA ListTreeInv ==
  ASSUME VfsInv, NEW p \in Procs, ListTree(p)
  PROVE  VfsInv'
<1>1. /\ TypeOK /\ procs[p].at = "list" /\ Asks(procs[p], {"delete", "move"}) /\ procs[p].at # "idle"
      /\ UNCHANGED <<tables, counts>>
  BY Unfinished DEF ListTree, At, PointFits
<1>2. CASE Tree(Path(p)) = {}
  BY <1>1, <1>2, ReturnInv, FilesTypes DEF ListTree
<1>3. CASE Tree(Path(p)) # {}
  <2> DEFINE s == [procs[p] EXCEPT !.left = Tree(Path(p)),
                                   !.at = IF Req(p).op = "move" THEN "moveEntry" ELSE "dropText"]
  <2>1. procs' = [procs EXCEPT ![p] = s] /\ UNCHANGED history
    BY <1>1, <1>3 DEF ListTree, TypeOK
  <2>2. Tree(Path(p)) \subseteq Subtree(Path(p)) /\ Tree(Path(p)) \subseteq Paths
        /\ Path(p) = procs[p].req.path
    BY DEF Tree, Subtree, Path
  <2>3. /\ s \in Proc /\ s.req = procs[p].req /\ s.version = procs[p].version
        /\ s.at = IF Req(p).op = "move" THEN "moveEntry" ELSE "dropText"
        /\ s.left = Tree(Path(p))
    BY <1>1, <2>2, ProcTypes DEF Proc
  <2> HIDE DEF s
  <2>4. PointFits(s) /\ ~HasNotRead(s)
    BY <1>1, <1>3, <2>2, <2>3, Unfinished DEF PointFits, Asks, Req, HasNotRead
  <2>5. GoesOn(p) /\ ReadsNothing(p) /\ procs'[p] = s
    BY <1>1, <2>1, <2>3, <2>4 DEF GoesOn, ReadsNothing, TypeOK
  <2> QED
    BY <1>1, <2>1, <2>3, <2>5, ReadInv, Unfinished DEF counts
<1> QED
  BY <1>2, <1>3

\* On to the next path or the end, which says of the files what it should.
LEMMA GoOnGoesOn ==
  ASSUME VfsInv, NEW p \in Procs, NEW a \in {"dropText", "moveEntry"}, NEW f, GoOn(p, a, f),
         f \in [Paths -> Contents \cup {"dir", None}],
         procs[p].at \in {"dropText", "dropEntry", "moveEntry", "moveText"},
         a = "dropText" => Req(p).op = "delete", a = "moveEntry" => Req(p).op = "move"
  PROVE  /\ GoesOn(p) /\ ReadsNothing(p)
         /\ procs'[p].at \in {"idle", "dropText", "moveEntry"}
         /\ files' \in [Paths -> Contents \cup {"dir", None}]
         /\ UNCHANGED <<overlapped, interrupted, reused, shared>>
<1>1. TypeOK /\ PointFits(procs[p]) /\ Asks(procs[p], {"delete", "move"})
  BY Unfinished DEF PointFits, Asks
<1>2. CASE procs[p].left = {Current(p)} /\ Return(p, f)
  BY <1>1, <1>2, ReturnGoesOn DEF Idle
<1>3. CASE procs[p].left # {Current(p)}
  <2> DEFINE s == [procs[p] EXCEPT !.left = @ \ {Current(p)}, !.at = a]
  <2>1. procs' = [procs EXCEPT ![p] = s] /\ UNCHANGED history
    BY <1>1, <1>3 DEF GoOn, TypeOK
  <2>2. procs[p].left \ {Current(p)} # {}
    BY <1>1, <1>3 DEF PointFits
  <2>3. /\ s \in Proc /\ s.req = procs[p].req /\ s.version = procs[p].version
        /\ s.at = a /\ s.left = procs[p].left \ {Current(p)}
    BY <1>1, ProcTypes DEF Proc
  <2> HIDE DEF s
  <2>4. PointFits(s) /\ ~HasNotRead(s)
    BY <1>1, <2>2, <2>3 DEF PointFits, Asks, Req, HasNotRead
  <2>5. GoesOn(p) /\ ReadsNothing(p) /\ procs'[p] = s
    BY <1>1, <2>1, <2>3, <2>4 DEF GoesOn, ReadsNothing, TypeOK
  <2> QED
    BY <1>1, <2>1, <2>3, <2>5, Unfinished DEF history
<1> QED
  BY <1>2, <1>3 DEF GoOn

LEMMA DropTextInv ==
  ASSUME VfsInv, NEW p \in Procs, DropText(p)
  PROVE  VfsInv'
<1>1. /\ TypeOK /\ procs[p].at = "dropText" /\ Asks(procs[p], {"delete"}) /\ procs[p].at # "idle"
      /\ UNCHANGED <<entries, revisions, blobs, counts, history>>
  BY Unfinished DEF DropText, At, PointFits
<1>2. PointFits([procs[p] EXCEPT !.at = "dropEntry", !.wrote = TRUE])
  BY <1>1, Unfinished, ProcTypes DEF PointFits, Asks, Proc
<1>3. GoesOn(p) /\ procs'[p].at = "dropEntry" /\ procs'[p].version = procs[p].version
  BY <1>1, <1>2, WritesGoesOn DEF Points, DropText
<1>4. ReadsNothing(p)
  BY <1>3 DEF ReadsNothing, HasNotRead
<1>5. TypeOK'
  <2>1. texts' \in [Paths -> Text \cup {None}]
    BY <1>1 DEF TypeOK, DropText
  <2> QED
    BY <1>1, <1>3, <2>1 DEF TypeOK, GoesOn, counts, history
<1> QED
  BY <1>1, <1>3, <1>4, <1>5, StepInv DEF counts, history, At

LEMMA DropEntryInv ==
  ASSUME VfsInv, NEW p \in Procs, DropEntry(p)
  PROVE  VfsInv'
<1>1. /\ TypeOK /\ procs[p].at = "dropEntry" /\ Asks(procs[p], {"delete"}) /\ procs[p].at # "idle"
      /\ UNCHANGED <<texts, revisions, blobs, counts>> /\ Req(p).op = "delete"
      /\ entries' = [entries EXCEPT ![Current(p)] = None]
  BY Unfinished DEF DropEntry, At, PointFits, Asks, Req
<1>2. /\ GoesOn(p) /\ ReadsNothing(p) /\ procs'[p].at \in {"idle", "dropText", "moveEntry"}
      /\ files' \in [Paths -> Contents \cup {"dir", None}]
      /\ UNCHANGED <<overlapped, interrupted, reused, shared>>
  BY <1>1, GoOnGoesOn, FilesTypes DEF DropEntry
<1>3. Current(p) \notin Steady
  BY <1>1, LeftIsReused, Unfinished
<1>4. /\ entries' \in [Paths -> Entry \cup {None}]
      /\ \A x \in Paths : entries'[x] # None => entries'[x] = entries[x]
      /\ \A x \in Steady : entries'[x] = entries[x]
  BY <1>1, <1>3 DEF TypeOK, Steady
<1>5. TypeOK'
  BY <1>1, <1>2, <1>4 DEF TypeOK, GoesOn, counts
<1> QED
  BY <1>1, <1>2, <1>4, <1>5, StepInv DEF counts, At

LEMMA RenamedRows ==
  ASSUME NEW S, NEW rows \in [Paths -> S], NEW from \in Paths, NEW to, None \in S
  PROVE  /\ Renamed(rows, from, to) \in [Paths -> S]
         /\ \A x \in Paths : Renamed(rows, from, to)[x] # None =>
              \E y \in Paths : Renamed(rows, from, to)[x] = rows[y]
         /\ \A x \in Paths \ {from, to} : Renamed(rows, from, to)[x] = rows[x]
  BY DEF Renamed

LEMMA MoveEntryInv ==
  ASSUME VfsInv, NEW p \in Procs, MoveEntry(p)
  PROVE  VfsInv'
<1>1. /\ TypeOK /\ procs[p].at = "moveEntry" /\ Asks(procs[p], {"move"}) /\ procs[p].at # "idle"
      /\ UNCHANGED <<texts, revisions, blobs, counts>> /\ Req(p).op = "move"
  BY Unfinished DEF MoveEntry, At, PointFits, Asks, Req
<1>2. CASE Throw(p) /\ UNCHANGED entries
  BY <1>1, <1>2, ThrowInv, Unfinished DEF counts, tables
<1>3. CASE /\ entries' = Renamed(entries, Current(p), NewPath(p))
           /\ Writes(p, "moveText")
           /\ UNCHANGED history
  <2>1. PointFits([procs[p] EXCEPT !.at = "moveText", !.wrote = TRUE])
    BY <1>1, Unfinished, ProcTypes DEF PointFits, Asks, Proc
  <2>2. GoesOn(p) /\ procs'[p].at = "moveText" /\ procs'[p].version = procs[p].version
    BY <1>1, <1>3, <2>1, WritesGoesOn DEF Points
  <2>3. ReadsNothing(p)
    BY <2>2 DEF ReadsNothing, HasNotRead
  <2>4. Current(p) \in Paths /\ Current(p) \notin Steady /\ NewPath(p) \notin Steady
    BY <1>1, LeftIsReused, Unfinished
  <2>5. entries \in [Paths -> Entry \cup {None}]
    BY <1>1 DEF TypeOK
  <2>6. /\ entries' \in [Paths -> Entry \cup {None}]
        /\ \A x \in Paths : entries'[x] # None => \E y \in Paths : entries'[x] = entries[y]
        /\ \A x \in Steady : entries'[x] = entries[x]
    <3> DEFINE S == Entry \cup {None}
    <3>1. None \in S /\ entries \in [Paths -> S]
      BY <2>5
    <3> HIDE DEF S
    <3>2. /\ entries' \in [Paths -> S]
          /\ \A x \in Paths : entries'[x] # None => \E y \in Paths : entries'[x] = entries[y]
          /\ \A x \in Paths \ {Current(p), NewPath(p)} : entries'[x] = entries[x]
      BY <1>3, <2>4, <3>1, RenamedRows
    <3> QED
      BY <2>4, <3>2 DEF Steady, S
  <2>7. TypeOK'
    BY <1>1, <1>3, <2>2, <2>6 DEF TypeOK, GoesOn, counts, history
  <2> QED
    BY <1>1, <1>3, <2>2, <2>3, <2>6, <2>7, StepInv DEF counts, history, At
<1> QED
  BY <1>2, <1>3 DEF MoveEntry

LEMMA MoveTextInv ==
  ASSUME VfsInv, NEW p \in Procs, MoveText(p)
  PROVE  VfsInv'
<1>1. /\ TypeOK /\ procs[p].at = "moveText" /\ Asks(procs[p], {"move"}) /\ procs[p].at # "idle"
      /\ UNCHANGED <<entries, revisions, blobs, counts>> /\ Req(p).op = "move"
  BY Unfinished DEF MoveText, At, PointFits, Asks, Req
<1>2. CASE Throw(p) /\ UNCHANGED texts
  BY <1>1, <1>2, ThrowInv, Unfinished DEF counts, tables
<1>3. CASE /\ texts' = Renamed(texts, Current(p), NewPath(p))
           /\ GoOn(p, "moveEntry", MovedAway(p))
  <2>1. /\ GoesOn(p) /\ ReadsNothing(p) /\ procs'[p].at \in {"idle", "dropText", "moveEntry"}
        /\ files' \in [Paths -> Contents \cup {"dir", None}]
        /\ UNCHANGED <<overlapped, interrupted, reused, shared>>
    BY <1>1, <1>3, GoOnGoesOn, FilesTypes
  <2>2. Current(p) \in Paths
    BY <1>1, LeftIsReused, Unfinished
  <2>3. texts \in [Paths -> Text \cup {None}]
    BY <1>1 DEF TypeOK
  <2>4. texts' \in [Paths -> Text \cup {None}]
    BY <1>3, <2>2, <2>3, RenamedRows
  <2>5. TypeOK'
    BY <1>1, <2>1, <2>4 DEF TypeOK, GoesOn, counts
  <2> QED
    BY <1>1, <2>1, <2>5, StepInv DEF counts, At
<1> QED
  BY <1>2, <1>3 DEF MoveText

LEMMA FailsInv ==
  ASSUME VfsInv, NEW p \in Procs, Fails(p)
  PROVE  VfsInv'
<1>1. TypeOK /\ procs[p].at # "idle" /\ UNCHANGED <<tables, ops>> /\ faults' \in 0 .. MaxFaults
  BY Unfinished, ConstantTypes DEF Fails, Busy, At, Fault
<1>2. CASE Throw(p)
  BY <1>1, <1>2, ThrowInv
<1>3. CASE /\ procs[p].at \in {"entry", "text", "revision"} /\ ~StoredInD1(Req(p).content)
           /\ Goto(p, "cleanup") /\ UNCHANGED history
  <2>1. Asks(procs[p], {"put"})
    BY <1>3, Unfinished DEF PointFits
  <2>2. Req(p).content \in Large
    BY <1>3, <2>1, RequestTypes, ConstantTypes DEF Asks, Req, StoredInD1, Contents
  <2>3. PointFits([procs[p] EXCEPT !.at = "cleanup"])
    BY <1>1, <2>1, <2>2, Unfinished, ProcTypes DEF PointFits, Asks, IsStoring, Proc, Req
  <2>4. GoesOn(p) /\ procs'[p].at = "cleanup" /\ procs'[p].version = procs[p].version
    BY <1>1, <1>3, <2>3, GotoGoesOn DEF Points
  <2> QED
    BY <1>1, <1>3, <2>4, ReadInv DEF ReadsNothing, HasNotRead
<1> QED
  BY <1>2, <1>3 DEF Fails

LEMMA LostInv ==
  ASSUME VfsInv, NEW p \in Procs, Lost(p)
  PROVE  VfsInv'
<1>1. TypeOK /\ procs[p].at # "idle" /\ UNCHANGED <<tables, ops>> /\ faults' \in 0 .. MaxFaults
  BY Unfinished, ConstantTypes DEF Lost, Busy, At, Fault
<1> QED
  BY <1>1, ThrowInv DEF Lost

LEMMA BeginInv ==
  ASSUME VfsInv, NEW p \in Procs, NEW req \in Requested, Begin(p, req)
  PROVE  VfsInv'
<1> DEFINE s   == [Idle EXCEPT !.at = FirstStep(req), !.req = req]
           met == {q \in Busy : Meet(req, Req(q))}
<1>1. /\ TypeOK /\ procs[p].at = "idle" /\ ops < MaxOps /\ ops' = ops + 1 /\ ops \in Nat
      /\ procs' = [procs EXCEPT ![p] = s]
      /\ UNCHANGED <<tables, faults, files>>
  BY Unfinished, ConstantTypes DEF Begin, At, TypeOK
<1>2. /\ s \in Proc /\ s.req = req /\ s.at = FirstStep(req) /\ s.at \in {"parent", "stat"}
      /\ s.left = {} /\ s.version = 1
  BY ConstantTypes, IdleTypes DEF Idle, Proc, FirstStep
<1>3. /\ s.at = "parent" => req.op \in {"put", "mkdir"}
      /\ s.at = "stat" => req.op \in {"delete", "move"}
  BY <1>2, RequestTypes DEF FirstStep
<1> HIDE DEF s
<1>4. PointFits(s)
  BY <1>2, <1>3 DEF PointFits, Asks
<1>5. /\ procs' \in [Procs -> Proc] /\ procs'[p] = s
      /\ \A q \in Procs \ {p} : procs'[q] = procs[q]
  BY <1>1, <1>2 DEF TypeOK
<1>6. \A r : Below(r) \subseteq Paths
  BY DEF Below, Subtree
<1>7. /\ overlapped \subseteq overlapped' /\ overlapped' \subseteq Paths
      /\ \A q \in met : Below(req) \cup Below(Req(q)) \subseteq overlapped'
  BY <1>1, <1>6 DEF Begin, TypeOK
<1>8. /\ reused \subseteq reused' /\ reused' \subseteq Paths
      /\ req.op \in {"delete", "move"} => Below(req) \subseteq reused'
      /\ interrupted' \subseteq Paths
  BY <1>1, <1>6 DEF Begin, TypeOK
<1>9. /\ shared \subseteq shared' /\ shared' \subseteq Large
      /\ \A q \in Busy : Req(q).op = "put" /\ Req(q).content = req.content /\ req.content \in Large =>
           req.content \in shared'
  BY <1>1 DEF Begin, TypeOK
<1>10. TypeOK'
  <2>1. ops' \in 0 .. MaxOps
    BY <1>1, ConstantTypes
  <2> QED
    BY <1>1, <1>5, <1>7, <1>8, <1>9, <2>1 DEF TypeOK, tables
<1>11. PointsFit'
  BY <1>4, <1>5, Unfinished DEF PointsFit
<1>12. Busy' = Busy \cup {p} /\ p \notin Busy /\ Req(p)' = req
       /\ \A q \in Busy : procs'[q] = procs[q] /\ Req(q)' = Req(q)
  BY <1>1, <1>2, <1>5 DEF Busy, At, Req
<1>13. HistoryFits'
  <2>1. \A q \in Busy : Meet(Req(q), req) => Meet(req, Req(q))
    BY DEF Meet, Comparable
  <2>2. \A q1, q2 \in Busy' : q1 # q2 /\ Meet(Req(q1)', Req(q2)') =>
          Below(Req(q1)') \cup Below(Req(q2)') \subseteq overlapped'
    BY <1>7, <1>12, <2>1, Unfinished DEF HistoryFits
  <2>3. \A q1, q2 \in Busy' :
          /\ q1 # q2 /\ IsStoring(procs'[q1]) /\ IsStoring(procs'[q2])
          /\ Req(q1)'.content = Req(q2)'.content
          => Req(q1)'.content \in shared'
    <3>1. \A q \in Procs : IsStoring(procs'[q]) =>
            Req(q)'.op = "put" /\ Req(q)'.content \in Large
      BY DEF IsStoring, Asks, Req
    <3>2. \A q \in Busy : IsStoring(procs'[q]) => IsStoring(procs[q])
      BY <1>12
    <3> QED
      BY <1>9, <1>12, <3>1, <3>2, Unfinished DEF HistoryFits, Busy
  <2>4. \A q \in Busy' : Asks(procs'[q], {"delete", "move"}) => Below(Req(q)') \subseteq reused'
    BY <1>8, <1>12, Unfinished DEF HistoryFits, Asks, Req
  <2> QED
    BY <2>2, <2>3, <2>4 DEF HistoryFits, Meet, Below
<1>14. VersionsBounded'
  <2> DEFINE n == Cardinality(ToRead)
  <2>1. ToRead' = ToRead \/ ToRead' = ToRead \cup {p}
    BY <1>1, <1>5 DEF ToRead, HasNotRead
  <2>2. IsFiniteSet(ToRead) /\ n \in Nat /\ n <= ops
    BY FS_CardinalityType DEF VfsInv, VersionsBounded
  <2>3. IsFiniteSet(ToRead') /\ Cardinality(ToRead') \in {n, n + 1}
    BY <2>1, <2>2, FS_AddElement
  <2>4. \A q \in Procs : procs[q].version \in Nat /\ procs[q].version + n <= ops + 1
    BY <1>1, ProcTypes, ConstantTypes DEF VfsInv, VersionsBounded
  <2>5. \A x \in Paths : entries[x] # None =>
          entries[x].version \in Nat /\ entries[x].version + n <= ops + 1
    BY <1>1, ConstantTypes DEF VfsInv, VersionsBounded, TypeOK, Entry
  <2> HIDE DEF n
  <2>6. \A q \in Procs : procs'[q].version + Cardinality(ToRead') <= ops' + 1
    BY <1>1, <1>2, <1>5, <2>2, <2>3, <2>4
  <2>7. \A x \in Paths : entries'[x] # None => entries'[x].version + Cardinality(ToRead') <= ops' + 1
    BY <1>1, <2>2, <2>3, <2>5 DEF tables
  <2> QED
    BY <1>1, <2>2, <2>3, <2>6, <2>7 DEF VersionsBounded
<1>15. BlobsFit'
  <2>1. \A c : Referenced(c)' <=> Referenced(c)
    BY <1>1 DEF Referenced, IsFile, tables
  <2>2. \A q \in Procs : procs'[q].at \in {"entry", "text", "revision", "unlink"} =>
          procs'[q] = procs[q] /\ Req(q)' = Req(q)
    BY <1>2, <1>5 DEF Req
  <2>3. \A c \in Large \ shared' : Referenced(c)' => c \in blobs'
    BY <1>1, <1>9, <2>1 DEF VfsInv, BlobsFit, BlobsAreKept, tables
  <2>4. \A q \in Procs :
          procs'[q].at \in {"entry", "text", "revision"} /\ Req(q)'.content \in Large \ shared' =>
            Req(q)'.content \in blobs'
    BY <1>1, <1>9, <2>2 DEF VfsInv, BlobsFit, tables
  <2>5. ASSUME NEW q \in Procs, At(q, "unlink")', Req(q)'.content \in Large \ shared'
        PROVE  ~Referenced(Req(q).content)'
    <3>1. Req(q)' = Req(q) /\ ~Referenced(Req(q).content)
      BY <1>9, <2>2, <2>5 DEF VfsInv, BlobsFit, At
    <3> QED
      BY <1>1, <3>1 DEF Referenced, IsFile, tables
  <2> QED
    BY <2>3, <2>4, <2>5 DEF BlobsFit, BlobsAreKept
<1>16. RevisionsFit' /\ VersionsAreUnique'
  <2>1. Steady' \subseteq Steady /\ entries' = entries /\ revisions' = revisions
    BY <1>1, <1>7, <1>8 DEF Steady, tables
  <2>2. VersionsAreUnique'
    BY <1>7, <1>8, <2>1 DEF VfsInv, VersionsAreUnique
  <2>3. \A q \in Procs : procs'[q].at \in {"blob", "entry", "text", "revision"} =>
          procs'[q] = procs[q] /\ Path(q)' = Path(q)
    BY <1>2, <1>5 DEF Path
  <2> QED
    BY <2>1, <2>2, <2>3 DEF VfsInv, RevisionsFit
<1> QED
  BY <1>10, <1>11, <1>13, <1>14, <1>15, <1>16 DEF VfsInv

-----------------------------------------------------------------------------
(* Theorems. *)

LEMMA InitInv ==
  ASSUME Init
  PROVE  VfsInv
<1>1. \A p \in Procs : procs[p] = Idle /\ Idle.at = "idle" /\ Idle.version = 1
  BY DEF Init, Idle
<1>2. TypeOK
  BY ConstantTypes, IdleTypes DEF Init, TypeOK
<1>3. PointsFit
  BY <1>1, IdleTypes DEF PointsFit
<1>4. Busy = {}
  BY <1>1 DEF Busy, At
<1>5. VersionsBounded
  <2>1. ToRead = {}
    BY <1>1, IdleTypes DEF ToRead
  <2> QED
    BY <1>1, <2>1, FS_EmptySet DEF VersionsBounded, Init
<1>6. BlobsFit
  BY <1>1 DEF Init, BlobsFit, BlobsAreKept, Referenced, IsFile, At
<1>7. RevisionsFit /\ VersionsAreUnique
  BY <1>1 DEF Init, RevisionsFit, VersionsAreUnique
<1> QED
  BY <1>2, <1>3, <1>4, <1>5, <1>6, <1>7 DEF VfsInv, HistoryFits

LEMMA StutterInv ==
  ASSUME VfsInv, UNCHANGED vars
  PROVE  VfsInv'
<1>1. /\ UNCHANGED <<entries, texts, revisions, blobs, procs, ops, faults>>
      /\ UNCHANGED <<files, overlapped, interrupted, reused, shared>>
  BY DEF vars, tables, counts, history
<1>2. TypeOK'
  BY <1>1 DEF VfsInv, TypeOK
<1>3. PointsFit' /\ VersionsBounded'
  BY <1>1 DEF VfsInv, PointsFit, VersionsBounded, ToRead
<1>4. HistoryFits'
  BY <1>1 DEF VfsInv, HistoryFits, Busy, At, Req
<1>5. BlobsFit'
  BY <1>1 DEF VfsInv, BlobsFit, BlobsAreKept, Referenced, IsFile, At, Req
<1>6. RevisionsFit' /\ VersionsAreUnique'
  BY <1>1 DEF VfsInv, RevisionsFit, VersionsAreUnique, Steady, Path
<1> QED
  BY <1>2, <1>3, <1>4, <1>5, <1>6 DEF VfsInv

\* The invariant of the file system: blobs are there before and until nothing refers to them,
\* and the versions of a path follow one another.
THEOREM VfsInvariant == Spec => []VfsInv
<1>1. Init => VfsInv
  BY InitInv
<1>2. VfsInv /\ [Next]_vars => VfsInv'
  <2> SUFFICES ASSUME VfsInv, [Next]_vars PROVE VfsInv'
    OBVIOUS
  <2>1. CASE UNCHANGED vars
    BY <2>1, StutterInv
  <2>2. ASSUME NEW p \in Procs, Step(p) PROVE VfsInv'
    BY <2>2, BeginInv, FindParentInv, MakeParentInv, LookUpInv, MakeDirectoryInv, PutBlobInv,
       UpsertFileEntryInv, WriteTextContentInv, InsertFileRevisionInv, CleanUpInv, UnlinkInv,
       StatInv, ListDirectChildrenInv, FindTargetInv, ListTreeInv, DropTextInv, DropEntryInv,
       MoveEntryInv, MoveTextInv, FailsInv, LostInv DEF Step
  <2> QED
    BY <2>1, <2>2 DEF Next
<1> QED
  BY <1>1, <1>2, PTL DEF Spec

\* Every variable keeps its type; versions stay within the bound that the requests set.
THEOREM VfsTypes == Spec => []TypeOK
<1>1. VfsInv => TypeOK
  BY DEF VfsInv
<1> QED
  BY <1>1, VfsInvariant, PTL

\* No entry and no revision of a content that one put at a time writes loses its blob, through
\* whatever failed and was cleaned up.
THEOREM BlobsStay == Spec => []BlobsAreKept
<1>1. VfsInv => BlobsAreKept
  BY DEF VfsInv, BlobsFit
<1> QED
  BY <1>1, VfsInvariant, PTL

\* A version of a path that one request at a time writes to is one content.
THEOREM VersionsStayUnique == Spec => []VersionsAreUnique
<1>1. VfsInv => VersionsAreUnique
  BY DEF VfsInv
<1> QED
  BY <1>1, VfsInvariant, PTL

-----------------------------------------------------------------------------
(* Clean paths: the inductive invariant.  Beside VfsInv, it says of each await of a request  *)
(* what the rows of its clean paths hold by now.                                             *)

\* Paths of which the requests keep what they were asked for: requests that met there or
\* failed half way have left none of them, and what is above such a path is one too.
Clean == Paths \ (overlapped \cup interrupted)

CleanIsAbove == \A x \in Clean : \A y \in Paths : IsPrefix(y, x) => y \in Clean

\* The entry and the text that a path has when content c, "dir" or None is there.
EntryFits(e, c) ==
  /\ e = None <=> c = None
  /\ e # None => /\ e.kind = "dir" <=> c = "dir"
                 /\ e.key = IF c \in Large THEN c ELSE None

TextFits(t, c) == IF c \in Small THEN t # None /\ t.content = c ELSE t = None

RowsFit(e, t, c) == EntryFits(e, c) /\ TextFits(t, c)
Holds(x, c)      == RowsFit(entries[x], texts[x], c)

\* What is made lies in directories.
TreesFit ==
  \A x \in Clean : files[x] # None => \A y \in Paths : IsStrictPrefix(y, x) => files[y] = "dir"

\* No request is at work on the path: it has what was made of it.
UnownedFits ==
  \A x \in Clean : (\A q \in Busy : x \notin Below(Req(q))) => Holds(x, files[x])

\* A tree that is moved is clean as a whole, or nothing of it is.
MovesWhole(q) ==
  Req(q).op = "move" => Subtree(Path(q)) \subseteq Clean \/ Below(Req(q)) \cap Clean = {}

AfterParent == {"lookup", "make", "blob", "entry", "text", "revision", "moveEntry", "moveText"}
Writing     == {"text", "revision", "dropEntry", "moveText"}
MayHaveWritten == Writing \cup {"cleanup", "unlink", "dropText", "moveEntry"}
AfterTarget == {"parent", "makeParent", "list", "moveEntry", "moveText"}

\* The parents that a request has found or made are directories.
ParentsFit(q) ==
  /\ 1 <= procs[q].parent
  /\ At(q, "makeParent") => procs[q].parent < Len(Target(q))
  /\ \A y \in Clean : IsStrictPrefix(y, Target(q)) /\ Len(y) < procs[q].parent => files[y] = "dir"
  /\ (At(q, "list") /\ Req(q).op = "move") \/ procs[q].at \in AfterParent =>
       Len(Target(q)) <= procs[q].parent

WrittenFits(q) ==
  /\ procs[q].wrote => procs[q].at \in MayHaveWritten
  /\ procs[q].at \in Writing => procs[q].wrote
  /\ ~procs[q].wrote => \A x \in Clean \cap Below(Req(q)) : Holds(x, files[x])

PutFits(q) ==
  /\ procs[q].at \in {"blob", "entry", "text", "revision"} /\ Path(q) \in Clean =>
       files[Path(q)] # "dir"
  /\ procs[q].at \in {"text", "revision"} =>
       \A x \in Clean \cap Subtree(Path(q)) :
         IF x = Path(q) THEN /\ EntryFits(entries[x], Req(q).content)
                             /\ At(q, "revision") => TextFits(texts[x], Req(q).content)
         ELSE Holds(x, files[x])

\* A tree that is deleted or moved has lost what is no longer left.
LeavesFit(q) ==
  Req(q).op \in {"delete", "move"} /\ procs[q].left # {} =>
    \A x \in Clean \cap Subtree(Path(q)) :
      CASE x \notin procs[q].left -> Holds(x, None)
        [] x \in procs[q].left /\ x = Current(q) /\ At(q, "dropEntry") -> TextFits(texts[x], None)
        [] x \in procs[q].left /\ x = Current(q) /\ At(q, "moveText") ->
             EntryFits(entries[x], None) /\ TextFits(texts[x], files[x])
        [] OTHER -> Holds(x, files[x])

\* Where a tree is moved to is what has been moved.
ArrivesFit(q) ==
  Req(q).op = "move" /\ procs[q].at \in AfterTarget =>
    /\ Path(q) \in Clean => ~IsPrefix(Req(q).to, Path(q))
    /\ \A x \in Clean \cap Subtree(Req(q).to) :
         LET y == Moved(x, Req(q).to, Path(q)) IN
         /\ files[x] = None
         /\ procs[q].left # {} =>
              CASE y \notin Paths -> Holds(x, None)
                [] y \in Paths \ procs[q].left -> Holds(x, files[y])
                [] y \in procs[q].left /\ y = Current(q) /\ At(q, "moveText") ->
                     EntryFits(entries[x], files[y]) /\ TextFits(texts[x], None)
                [] OTHER -> Holds(x, None)

SourceFits(q) == At(q, "target") /\ Path(q) \in Clean => files[Path(q)] # None

RequestFits(q) ==
  /\ MovesWhole(q) /\ ParentsFit(q) /\ WrittenFits(q) /\ PutFits(q)
  /\ LeavesFit(q) /\ ArrivesFit(q) /\ SourceFits(q)

CleanInv ==
  /\ CleanIsAbove
  /\ TreesFit
  /\ UnownedFits
  /\ \A q \in Busy : RequestFits(q)

-----------------------------------------------------------------------------
(* Paths. *)

Names == UNION {Range(q) : q \in Paths}

LEMMA PathNames ==
  ASSUME NEW x \in Paths
  PROVE  x \in Seq(Names) /\ Len(x) \in Nat /\ Len(x) >= 1
<1>1. x \in Seq(Names) /\ x # <<>>
  BY VfsConstants DEF Names
<1> HIDE DEF Names
<1> QED
  BY <1>1

LEMMA PrefixPoints ==
  ASSUME NEW S, NEW s \in Seq(S), NEW t \in Seq(S)
  PROVE  IsPrefix(s, t) <=> Len(s) <= Len(t) /\ \A i \in 1 .. Len(s) : s[i] = t[i]
<1>1. ASSUME Len(s) <= Len(t)
      PROVE  /\ SubSeq(s, 1, Len(s)) = [i \in 1 .. Len(s) |-> s[i]]
             /\ SubSeq(t, 1, Len(s)) = [i \in 1 .. Len(s) |-> t[i]]
  BY <1>1
<1>2. ASSUME Len(s) <= Len(t), SubSeq(s, 1, Len(s)) = SubSeq(t, 1, Len(s)), NEW i \in 1 .. Len(s)
      PROVE  s[i] = t[i]
  BY <1>1, <1>2
<1>3. ASSUME Len(s) <= Len(t), \A i \in 1 .. Len(s) : s[i] = t[i]
      PROVE  SubSeq(s, 1, Len(s)) = SubSeq(t, 1, Len(s))
  BY <1>1, <1>3
<1> QED
  BY <1>2, <1>3 DEF IsPrefix

LEMMA SamePoints ==
  ASSUME NEW S, NEW s \in Seq(S), NEW t \in Seq(S), Len(s) = Len(t),
         \A i \in 1 .. Len(s) : s[i] = t[i]
  PROVE  s = t
  OBVIOUS

\* Prefixes order the paths, and those of one path are ordered one after the other.
LEMMA PrefixOrder ==
  ASSUME NEW x \in Paths, NEW y \in Paths, NEW z \in Paths
  PROVE  /\ IsPrefix(x, y) /\ IsPrefix(y, z) => IsPrefix(x, z)
         /\ IsPrefix(x, z) /\ IsPrefix(y, z) => Comparable(x, y)
         /\ IsPrefix(x, y) /\ Len(y) <= Len(x) => x = y
         /\ IsPrefix(x, y) => Len(x) <= Len(y)
         /\ IsStrictPrefix(x, y) => Len(x) < Len(y)
<1> USE PathNames, PrefixPoints
<1>1. IsPrefix(x, y) /\ IsPrefix(y, z) => IsPrefix(x, z)
  <2> SUFFICES ASSUME IsPrefix(x, y), IsPrefix(y, z) PROVE IsPrefix(x, z)
    OBVIOUS
  <2>1. \A i \in 1 .. Len(x) : i \in 1 .. Len(y) /\ x[i] = y[i] /\ y[i] = z[i]
    OBVIOUS
  <2> QED
    BY <2>1
<1>2. IsPrefix(x, z) /\ IsPrefix(y, z) => Comparable(x, y)
  <2> SUFFICES ASSUME IsPrefix(x, z), IsPrefix(y, z) PROVE IsPrefix(x, y) \/ IsPrefix(y, x)
    BY DEF Comparable
  <2>1. CASE Len(x) <= Len(y)
    <3>1. \A i \in 1 .. Len(x) : i \in 1 .. Len(y) /\ x[i] = z[i] /\ y[i] = z[i]
      BY <2>1
    <3> QED
      BY <2>1, <3>1
  <2>2. CASE Len(y) <= Len(x)
    <3>1. \A i \in 1 .. Len(y) : i \in 1 .. Len(x) /\ x[i] = z[i] /\ y[i] = z[i]
      BY <2>2
    <3> QED
      BY <2>2, <3>1
  <2> QED
    BY <2>1, <2>2
<1>3. IsPrefix(x, y) /\ Len(y) <= Len(x) => x = y
  <2> SUFFICES ASSUME IsPrefix(x, y), Len(y) <= Len(x) PROVE x = y
    OBVIOUS
  <2>1. Len(x) = Len(y) /\ \A i \in 1 .. Len(x) : x[i] = y[i]
    OBVIOUS
  <2> QED
    BY <2>1, SamePoints
<1>4. IsPrefix(x, y) => Len(x) <= Len(y)
  OBVIOUS
<1>5. IsStrictPrefix(x, y) => Len(x) < Len(y)
  BY <1>3, <1>4 DEF IsStrictPrefix
<1> QED
  BY <1>1, <1>2, <1>3, <1>4, <1>5

\* The paths above a path are its first names.
LEMMA Ancestors ==
  ASSUME NEW x \in Paths, NEW n \in 1 .. Len(x)
  PROVE  /\ SubSeq(x, 1, n) \in Paths
         /\ Len(SubSeq(x, 1, n)) = n
         /\ IsPrefix(SubSeq(x, 1, n), x)
         /\ \A y \in Paths : IsPrefix(y, x) /\ Len(y) = n => y = SubSeq(x, 1, n)
<1> DEFINE a == SubSeq(x, 1, n)
<1>1. a \in Paths
  BY VfsConstants
<1>2. x \in Seq(Names) /\ a \in Seq(Names) /\ Len(x) \in Nat
  BY <1>1, PathNames
<1>3. Len(a) = n /\ \A i \in 1 .. n : a[i] = x[i]
  BY <1>2
<1> HIDE DEF a
<1>4. IsPrefix(a, x)
  BY <1>2, <1>3, PrefixPoints
<1>5. ASSUME NEW y \in Paths, IsPrefix(y, x), Len(y) = n PROVE y = a
  <2>1. y \in Seq(Names) /\ \A i \in 1 .. n : y[i] = x[i]
    BY <1>2, <1>5, PathNames, PrefixPoints
  <2> QED
    BY <1>2, <1>3, <1>5, <2>1, SamePoints
<1> QED
  BY <1>1, <1>3, <1>4, <1>5 DEF a

LEMMA Joined ==
  ASSUME NEW S, NEW s \in Seq(S), NEW t \in Seq(S)
  PROVE  /\ s \o t \in Seq(S) /\ Len(s \o t) = Len(s) + Len(t)
         /\ \A i \in 1 .. Len(s) : (s \o t)[i] = s[i]
         /\ \A i \in (Len(s) + 1) .. (Len(s) + Len(t)) : (s \o t)[i] = t[i - Len(s)]
<1> DEFINE m == s \o t
<1>1. /\ m \in Seq(S) /\ Len(m) = Len(s) + Len(t) /\ Len(s) \in Nat /\ Len(t) \in Nat
      /\ \A i \in 1 .. Len(s) + Len(t) : m[i] = IF i <= Len(s) THEN s[i] ELSE t[i - Len(s)]
  BY ConcatProperties
<1> HIDE DEF m
<1>2. \A i \in 1 .. Len(s) : m[i] = s[i]
  BY <1>1
<1>3. \A i \in (Len(s) + 1) .. (Len(s) + Len(t)) : m[i] = t[i - Len(s)]
  BY <1>1
<1> QED
  BY <1>1, <1>2, <1>3 DEF m

LEMMA Rest ==
  ASSUME NEW S, NEW s \in Seq(S), NEW n \in 0 .. Len(s)
  PROVE  /\ SubSeq(s, n + 1, Len(s)) \in Seq(S)
         /\ Len(SubSeq(s, n + 1, Len(s))) = Len(s) - n
         /\ \A i \in 1 .. (Len(s) - n) : SubSeq(s, n + 1, Len(s))[i] = s[i + n]
<1>1. \A i \in (n + 1) .. Len(s) : s[i] \in S
  OBVIOUS
<1> QED
  BY <1>1

\* Moving a path changes its first names and keeps the rest.
LEMMA MovedPoints ==
  ASSUME NEW x \in Seq(Names), NEW from \in Paths, NEW to \in Paths, Len(from) <= Len(x)
  PROVE  /\ Moved(x, from, to) \in Seq(Names)
         /\ Len(Moved(x, from, to)) = Len(to) + (Len(x) - Len(from))
         /\ \A i \in 1 .. Len(to) : Moved(x, from, to)[i] = to[i]
         /\ \A i \in (Len(to) + 1) .. Len(Moved(x, from, to)) :
              Moved(x, from, to)[i] = x[i - Len(to) + Len(from)]
<1> DEFINE rest == SubSeq(x, Len(from) + 1, Len(x))
<1>1. /\ from \in Seq(Names) /\ to \in Seq(Names) /\ Len(from) \in Nat /\ Len(to) \in Nat
      /\ Len(x) \in Nat
  BY PathNames
<1>2. /\ rest \in Seq(Names)
      /\ Len(rest) = Len(x) - Len(from)
      /\ \A i \in 1 .. Len(rest) : rest[i] = x[i + Len(from)]
  BY <1>1, Rest
<1> HIDE DEF rest
<1> DEFINE m == to \o rest
<1>a. to \in Seq(Names) /\ rest \in Seq(Names)
  BY <1>1, <1>2
<1>3. /\ m \in Seq(Names) /\ Len(m) = Len(to) + Len(rest)
      /\ \A i \in 1 .. Len(to) : m[i] = to[i]
      /\ \A i \in (Len(to) + 1) .. (Len(to) + Len(rest)) : m[i] = rest[i - Len(to)]
  BY <1>a, Joined
<1> HIDE DEF m
<1>4. ASSUME NEW i \in (Len(to) + 1) .. Len(m) PROVE m[i] = x[i - Len(to) + Len(from)]
  <2>1. m[i] = rest[i - Len(to)] /\ i - Len(to) \in 1 .. Len(rest)
    BY <1>1, <1>2, <1>3
  <2>2. rest[i - Len(to)] = x[(i - Len(to)) + Len(from)]
    BY <1>2, <2>1
  <2> QED
    BY <2>1, <2>2
<1>5. m = Moved(x, from, to)
  BY DEF m, rest, Moved
<1> QED
  BY <1>2, <1>3, <1>4, <1>5

\* A path that is moved can be moved back.
LEMMA MovedBack ==
  ASSUME NEW x \in Paths, NEW from \in Paths, NEW to \in Paths, IsPrefix(from, x)
  PROVE  Moved(Moved(x, from, to), to, from) = x
<1> DEFINE m == Moved(x, from, to)
<1>1. /\ x \in Seq(Names) /\ from \in Seq(Names) /\ Len(x) \in Nat
      /\ Len(from) \in Nat /\ Len(to) \in Nat
      /\ Len(from) <= Len(x) /\ \A i \in 1 .. Len(from) : from[i] = x[i]
  BY PathNames, PrefixPoints
<1>2. /\ m \in Seq(Names) /\ Len(m) = Len(to) + (Len(x) - Len(from))
      /\ \A i \in (Len(to) + 1) .. Len(m) : m[i] = x[i - Len(to) + Len(from)]
  BY <1>1, MovedPoints
<1> HIDE DEF m
<1> DEFINE b == Moved(m, to, from)
<1>a. m \in Seq(Names) /\ Len(to) <= Len(m)
  BY <1>1, <1>2
<1>3. /\ b \in Seq(Names) /\ Len(b) = Len(from) + (Len(m) - Len(to))
      /\ \A i \in 1 .. Len(from) : b[i] = from[i]
      /\ \A i \in (Len(from) + 1) .. Len(b) : b[i] = m[i - Len(from) + Len(to)]
  BY <1>a, MovedPoints
<1> HIDE DEF b
<1>4. ASSUME NEW i \in 1 .. Len(x) PROVE b[i] = x[i]
  <2>1. CASE i <= Len(from)
    BY <1>1, <1>3, <2>1
  <2>2. CASE i > Len(from)
    <3>1. /\ i \in (Len(from) + 1) .. Len(b)
          /\ i - Len(from) + Len(to) \in (Len(to) + 1) .. Len(m)
          /\ (i - Len(from) + Len(to)) - Len(to) + Len(from) = i
      BY <1>1, <1>2, <1>3, <2>2
    <3> QED
      BY <1>2, <1>3, <3>1
  <2> QED
    BY <1>1, <2>1, <2>2
<1> QED
  BY <1>1, <1>2, <1>3, <1>4, SamePoints DEF m, b

\* What is above a path is moved above it.
LEMMA MovedAbove ==
  ASSUME NEW x \in Paths, NEW y \in Paths, NEW from \in Paths, NEW to \in Paths,
         IsPrefix(from, y), IsStrictPrefix(y, x), Moved(x, from, to) \in Paths
  PROVE  Moved(y, from, to) \in Paths /\ IsStrictPrefix(Moved(y, from, to), Moved(x, from, to))
<1> DEFINE m == Moved(x, from, to)
<1>1. /\ x \in Seq(Names) /\ y \in Seq(Names) /\ Len(x) \in Nat /\ Len(y) \in Nat
      /\ Len(from) \in Nat /\ Len(to) \in Nat /\ Len(to) >= 1
      /\ Len(from) <= Len(y) /\ Len(y) < Len(x) /\ \A i \in 1 .. Len(y) : y[i] = x[i]
  BY PathNames, PrefixPoints, PrefixOrder DEF IsStrictPrefix
<1>a. Len(from) <= Len(x) /\ x \in Seq(Names) /\ Len(from) <= Len(y) /\ y \in Seq(Names)
  BY <1>1
<1>2. /\ m \in Seq(Names) /\ Len(m) = Len(to) + (Len(x) - Len(from))
      /\ \A i \in 1 .. Len(to) : m[i] = to[i]
      /\ \A i \in (Len(to) + 1) .. Len(m) : m[i] = x[i - Len(to) + Len(from)]
  BY <1>a, MovedPoints
<1> HIDE DEF m
<1> DEFINE n == Moved(y, from, to)
<1>3. /\ n \in Seq(Names) /\ Len(n) = Len(to) + (Len(y) - Len(from))
      /\ \A i \in 1 .. Len(to) : n[i] = to[i]
      /\ \A i \in (Len(to) + 1) .. Len(n) : n[i] = y[i - Len(to) + Len(from)]
  BY <1>a, MovedPoints
<1> HIDE DEF n
<1>4. ASSUME NEW i \in 1 .. Len(n) PROVE n[i] = m[i]
  <2>1. CASE i <= Len(to)
    BY <1>1, <1>2, <1>3, <2>1
  <2>2. CASE i > Len(to)
    <3>1. /\ i \in (Len(to) + 1) .. Len(n) /\ i \in (Len(to) + 1) .. Len(m)
          /\ i - Len(to) + Len(from) \in 1 .. Len(y)
      BY <1>1, <1>2, <1>3, <2>2
    <3> QED
      BY <1>1, <1>2, <1>3, <3>1
  <2> QED
    BY <1>1, <2>1, <2>2
<1>5. Len(n) \in 1 .. Len(m) /\ Len(n) < Len(m)
  BY <1>1, <1>2, <1>3
<1> DEFINE a == SubSeq(m, 1, Len(n))
<1>6. a \in Paths /\ IsPrefix(a, m)
  BY <1>5, Ancestors DEF m
<1>7. a \in Seq(Names) /\ Len(a) = Len(n) /\ \A i \in 1 .. Len(n) : a[i] = m[i]
  BY <1>2, <1>3, <1>5
<1> HIDE DEF a
<1>8. a = n
  BY <1>3, <1>4, <1>7, SamePoints
<1> QED
  BY <1>5, <1>6, <1>8 DEF IsStrictPrefix, m, n

-----------------------------------------------------------------------------
(* What one request does is no other one's business. *)

LEMMA BelowFacts ==
  ASSUME NEW req \in Requested
  PROVE  /\ Roots(req) \subseteq Paths /\ Roots(req) \subseteq Below(req)
         /\ Below(req) \subseteq Paths
         /\ \A x \in Below(req) : \E r \in Roots(req) : IsPrefix(r, x)
         /\ \A x \in Below(req) : \A y \in Paths : IsPrefix(x, y) => y \in Below(req)
         /\ req.path \in Roots(req)
         /\ req.op = "move" => req.to \in Roots(req)
         /\ \A r \in Roots(req) : Subtree(r) \subseteq Below(req)
<1>1. /\ Roots(req) \subseteq Paths /\ req.path \in Roots(req)
      /\ req.op = "move" => req.to \in Roots(req)
  BY RequestTypes DEF Roots
<1>2. ASSUME NEW r \in Roots(req) PROVE Subtree(r) \subseteq Below(req) /\ r \in Subtree(r)
  <2>1. r \in Subtree(r)
    BY <1>1, PathTypes
  <2> QED
    BY <2>1 DEF Below
<1>3. Below(req) \subseteq Paths
  BY DEF Below, Subtree
<1>4. \A x \in Below(req) : \E r \in Roots(req) : IsPrefix(r, x)
  BY DEF Below, Subtree
<1>5. ASSUME NEW x \in Below(req), NEW y \in Paths, IsPrefix(x, y) PROVE y \in Below(req)
  <2>1. PICK r \in Roots(req) : IsPrefix(r, x)
    BY <1>4
  <2>a. r \in Paths /\ x \in Paths
    BY <1>1, <1>3
  <2>2. IsPrefix(r, y)
    BY <1>5, <2>a, <2>1, PrefixOrder
  <2> QED
    BY <2>2 DEF Below, Subtree
<1> QED
  BY <1>1, <1>2, <1>3, <1>4, <1>5

LEMMA BusyTypes ==
  ASSUME TypeOK, PointsFit, NEW p \in Busy
  PROVE  /\ p \in Procs /\ Req(p) \in Requested /\ Path(p) = Req(p).path
         /\ Path(p) \in Paths /\ Req(p).to \in Paths /\ Path(p) \in Roots(Req(p))
         /\ Target(p) \in Paths /\ Target(p) \in Roots(Req(p))
         /\ Req(p).op \in {"put", "mkdir", "delete", "move"}
<1>1. p \in Procs /\ Req(p) \in Requested /\ Path(p) = Req(p).path
  BY DEF Busy, At, PointsFit, PointFits, Req, Path
<1>2. /\ Req(p).path \in Paths /\ Req(p).to \in Paths
      /\ Req(p).op \in {"put", "mkdir", "delete", "move"}
  BY <1>1, RequestTypes
<1>3. Req(p).path \in Roots(Req(p)) /\ Target(p) \in Roots(Req(p))
  BY <1>1 DEF Roots, Target
<1> QED
  BY <1>1, <1>2, <1>3 DEF Target

\* A clean path that one request is at work on is neither below nor above those of another.
LEMMA Apart ==
  ASSUME VfsInv, NEW p \in Busy, NEW q \in Busy, p # q, NEW x \in Clean, x \in Below(Req(q))
  PROVE  x \notin Below(Req(p)) /\ \A r \in Roots(Req(p)) : ~IsPrefix(x, r)
<1>1. Req(p) \in Requested /\ Req(q) \in Requested
  BY BusyTypes DEF VfsInv
<1>2. ~Meet(Req(p), Req(q))
  BY DEF VfsInv, HistoryFits, Clean
<1>3. PICK s \in Roots(Req(q)) : IsPrefix(s, x)
  BY <1>1, BelowFacts
<1>4. x \in Paths /\ s \in Paths /\ Roots(Req(p)) \subseteq Paths
  BY <1>1, <1>3, BelowFacts DEF Clean
<1>5. ASSUME x \in Below(Req(p)) PROVE FALSE
  <2>1. PICK r \in Roots(Req(p)) : IsPrefix(r, x)
    BY <1>1, <1>5, BelowFacts
  <2> QED
    BY <1>2, <1>3, <1>4, <2>1, PrefixOrder DEF Meet
<1>6. ASSUME NEW r \in Roots(Req(p)), IsPrefix(x, r) PROVE FALSE
  <2>1. IsPrefix(s, r)
    BY <1>3, <1>4, <1>6, PrefixOrder
  <2> QED
    BY <1>2, <1>3, <2>1 DEF Meet, Comparable
<1> QED
  BY <1>5, <1>6

\* What a step of p changes is below its paths, or a parent that it makes.
StaysBelow(p) ==
  \A x \in Paths \ Below(Req(p)) :
    /\ texts'[x] = texts[x]
    /\ \/ entries'[x] = entries[x] /\ files'[x] = files[x]
       \/ /\ IsStrictPrefix(x, Target(p)) /\ entries[x] = None
          /\ entries'[x] = Directory /\ files'[x] = "dir"

\* And it leaves no other path unclean.
SpoilsOwn(p) ==
  overlapped' = overlapped /\ interrupted' \in {interrupted, interrupted \cup Below(Req(p))}

LEMMA CleanAfter ==
  ASSUME NEW p, SpoilsOwn(p)
  PROVE  /\ Clean' \subseteq Clean
         /\ \A x \in Clean : x \notin Below(Req(p)) => x \in Clean'
  BY DEF SpoilsOwn, Clean

LEMMA OthersApart ==
  ASSUME VfsInv, NEW p \in Busy, NEW q \in Busy, p # q, StaysBelow(p), SpoilsOwn(p),
         NEW x \in Clean, x \in Below(Req(q))
  PROVE  x \in Clean' /\ entries'[x] = entries[x] /\ texts'[x] = texts[x] /\ files'[x] = files[x]
<1>1. x \notin Below(Req(p)) /\ ~IsStrictPrefix(x, Target(p)) /\ x \in Paths
  BY Apart, BusyTypes DEF VfsInv, IsStrictPrefix, Clean
<1> QED
  BY <1>1, CleanAfter DEF StaysBelow

LEMMA OthersAbove ==
  ASSUME VfsInv, NEW p \in Busy, NEW q \in Busy, p # q, StaysBelow(p),
         NEW x \in Clean, IsStrictPrefix(x, Target(q)), files[x] = "dir"
  PROVE  files'[x] = "dir"
<1>1. x \notin Below(Req(p)) /\ x \in Paths
  <2>1. Target(q) \in Roots(Req(q)) /\ IsPrefix(x, Target(q))
    BY BusyTypes DEF VfsInv, IsStrictPrefix
  <2> QED
    BY <2>1, Apart DEF Clean
<1> QED
  BY <1>1 DEF StaysBelow

\* So it keeps what is known of the other requests.
LEMMA OtherFits ==
  ASSUME VfsInv, CleanInv, NEW p \in Busy, NEW q \in Busy, p # q, StaysBelow(p), SpoilsOwn(p),
         procs'[q] = procs[q]
  PROVE  RequestFits(q)'
<1>1. /\ Req(q)' = Req(q) /\ Path(q)' = Path(q) /\ Target(q)' = Target(q)
      /\ Current(q)' = Current(q) /\ \A a : At(q, a)' = At(q, a)
  BY DEF Req, Path, Target, Current, At
<1>2. /\ Req(q) \in Requested /\ Path(q) = Req(q).path /\ Path(q) \in Paths /\ Req(q).to \in Paths
      /\ Target(q) \in Paths /\ Subtree(Path(q)) \subseteq Below(Req(q))
      /\ Path(q) \in Subtree(Path(q)) /\ Subtree(Path(q)) \subseteq Paths
      /\ Req(q).op = "move" => Subtree(Req(q).to) \subseteq Below(Req(q))
  <2>1. Req(q) \in Requested /\ Path(q) = Req(q).path /\ Path(q) \in Paths /\ Req(q).to \in Paths
        /\ Target(q) \in Paths
    BY BusyTypes DEF VfsInv
  <2>2. Path(q) \in Subtree(Path(q)) /\ Subtree(Path(q)) \subseteq Paths
    BY <2>1, PathTypes DEF Subtree
  <2>3. /\ Subtree(Path(q)) \subseteq Below(Req(q))
        /\ Req(q).op = "move" => Subtree(Req(q).to) \subseteq Below(Req(q))
    BY <2>1 DEF Below, Roots
  <2> QED
    BY <2>1, <2>2, <2>3
<1>3. Clean' \subseteq Clean
  BY CleanAfter
<1>4. \A x \in Clean \cap Below(Req(q)) :
        x \in Clean' /\ entries'[x] = entries[x] /\ texts'[x] = texts[x] /\ files'[x] = files[x]
  BY OthersApart
<1>5. RequestFits(q)
  BY DEF CleanInv
<1>6. MovesWhole(q)'
  BY <1>1, <1>2, <1>3, <1>4, <1>5 DEF RequestFits, MovesWhole
<1>7. ParentsFit(q)'
  <2>1. \A y \in Clean : IsStrictPrefix(y, Target(q)) /\ files[y] = "dir" => files'[y] = "dir"
    BY OthersAbove
  <2> QED
    BY <1>1, <1>3, <1>5, <2>1 DEF RequestFits, ParentsFit
<1>8. WrittenFits(q)'
  BY <1>1, <1>3, <1>4, <1>5 DEF RequestFits, WrittenFits, Holds
<1>9. PutFits(q)'
  BY <1>1, <1>2, <1>3, <1>4, <1>5 DEF RequestFits, PutFits, Holds, RowsFit
<1>10. LeavesFit(q)'
  BY <1>1, <1>2, <1>3, <1>4, <1>5 DEF RequestFits, LeavesFit, Holds, RowsFit
<1>11. ArrivesFit(q)'
  <2> SUFFICES ASSUME Req(q).op = "move", procs[q].at \in AfterTarget
               PROVE  ArrivesFit(q)'
    BY <1>1 DEF ArrivesFit
  <2>1. Path(q) \in Clean' => ~IsPrefix(Req(q).to, Path(q))
    BY <1>3, <1>5 DEF RequestFits, ArrivesFit
  <2>2. ASSUME NEW x \in Clean', x \in Subtree(Req(q).to),
               NEW y, y = Moved(x, Req(q).to, Path(q))
        PROVE  /\ files'[x] = None
               /\ procs[q].left # {} =>
                    CASE y \notin Paths -> RowsFit(entries'[x], texts'[x], None)
                      [] y \in Paths \ procs[q].left -> RowsFit(entries'[x], texts'[x], files'[y])
                      [] y \in procs[q].left /\ y = Current(q) /\ At(q, "moveText") ->
                           EntryFits(entries'[x], files'[y]) /\ TextFits(texts'[x], None)
                      [] OTHER -> RowsFit(entries'[x], texts'[x], None)
    <3>1. x \in Clean \cap Below(Req(q)) /\ x \in Paths
      BY <1>2, <1>3, <2>2 DEF Subtree
    <3>2. entries'[x] = entries[x] /\ texts'[x] = texts[x] /\ files'[x] = files[x]
      BY <1>4, <3>1
    <3>3. y \in Paths => files'[y] = files[y]
      <4> HAVE y \in Paths
      <4>1. y \in Subtree(Path(q))
        BY <1>2, <2>2, <3>1, MovedBelow DEF Subtree
      <4>2. Subtree(Path(q)) \subseteq Clean
        BY <1>5, <3>1 DEF RequestFits, MovesWhole
      <4> QED
        BY <1>2, <1>4, <4>1, <4>2
    <3>4. /\ files[x] = None
          /\ procs[q].left # {} =>
               CASE y \notin Paths -> RowsFit(entries[x], texts[x], None)
                 [] y \in Paths \ procs[q].left -> RowsFit(entries[x], texts[x], files[y])
                 [] y \in procs[q].left /\ y = Current(q) /\ At(q, "moveText") ->
                      EntryFits(entries[x], files[y]) /\ TextFits(texts[x], None)
                 [] OTHER -> RowsFit(entries[x], texts[x], None)
      BY <1>5, <2>2, <3>1 DEF RequestFits, ArrivesFit, Holds
    <3>5. procs[q].left \subseteq Paths
      BY <1>2, ProcTypes DEF VfsInv, Busy
    <3> QED
      BY <3>2, <3>3, <3>4, <3>5
  <2> QED
    BY <1>1, <2>1, <2>2 DEF ArrivesFit, Holds
<1>12. SourceFits(q)'
  BY <1>1, <1>2, <1>3, <1>4, <1>5 DEF RequestFits, SourceFits
<1> QED
  BY <1>6, <1>7, <1>8, <1>9, <1>10, <1>11, <1>12 DEF RequestFits

-----------------------------------------------------------------------------
(* The steps of one request. *)

LEMMA DirectoryFits ==
  ASSUME NEW t, NEW c, RowsFit(None, t, c)
  PROVE  c = None /\ t = None /\ RowsFit(Directory, t, "dir")
<1>1. /\ None \notin Small /\ "dir" \notin Small /\ "dir" \notin Large /\ None # "dir"
      /\ Directory # None /\ Directory.kind = "dir" /\ Directory.key = None
  <2>1. Directory \in Entry
    BY VfsConstants DEF Directory, Entry
  <2> QED
    BY <2>1, VfsConstants DEF Directory
<1>2. c = None
  BY DEF RowsFit, EntryFits
<1>3. t = None
  BY <1>1, <1>2 DEF RowsFit, TextFits
<1> QED
  BY <1>1, <1>2, <1>3 DEF RowsFit, EntryFits, TextFits

LEMMA AboveStays ==
  ASSUME TypeOK, PointsFit, CleanIsAbove, NEW p \in Busy, SpoilsOwn(p)
  PROVE  CleanIsAbove'
<1> SUFFICES ASSUME NEW x \in Clean', NEW y \in Paths, IsPrefix(y, x)
             PROVE  y \in Clean'
  BY DEF CleanIsAbove
<1>1. x \in Clean /\ x \in Paths /\ y \in Clean
  BY CleanAfter DEF CleanIsAbove, Clean
<1>2. CASE y \notin Below(Req(p))
  BY <1>1, <1>2, CleanAfter
<1>3. CASE y \in Below(Req(p))
  <2>1. x \in Below(Req(p))
    BY <1>1, <1>3, BelowFacts, BusyTypes
  <2>2. interrupted' = interrupted
    BY <2>1 DEF SpoilsOwn, Clean
  <2> QED
    BY <1>1, <2>2 DEF SpoilsOwn, Clean
<1> QED
  BY <1>2, <1>3

\* What is clean after the step stays as it was.
LEMMA TreesStay ==
  ASSUME CleanIsAbove, TreesFit, Clean' \subseteq Clean, \A x \in Clean : files'[x] = files[x]
  PROVE  TreesFit'
<1>1. \A x \in Clean : x \in Paths
  BY DEF Clean
<1> QED
  BY <1>1 DEF CleanIsAbove, TreesFit, IsStrictPrefix

LEMMA StepClean ==
  ASSUME VfsInv, CleanInv, NEW p \in Busy, GoesOn(p), StaysBelow(p), SpoilsOwn(p), TreesFit',
         p \in Busy' => RequestFits(p)',
         p \notin Busy' =>
           \A x \in Clean' \cap Below(Req(p)) : RowsFit(entries'[x], texts'[x], files'[x])
  PROVE  CleanInv'
<1>1. TypeOK /\ PointsFit /\ CleanIsAbove /\ UnownedFits
  BY DEF VfsInv, CleanInv
<1>2. \A q \in Procs \ {p} : procs'[q] = procs[q] /\ Req(q)' = Req(q) /\ (q \in Busy' <=> q \in Busy)
  BY DEF GoesOn, Req, Busy, At
<1>3. CleanIsAbove'
  BY <1>1, AboveStays
<1>4. ASSUME NEW q \in Busy' PROVE RequestFits(q)'
  <2>1. q \in Procs
    BY DEF Busy
  <2>2. CASE q = p
    BY <2>2
  <2>3. CASE q # p
    <3>1. q \in Busy /\ procs'[q] = procs[q]
      BY <1>2, <2>1, <2>3
    <3> QED
      BY <2>3, <3>1, OtherFits
  <2> QED
    BY <2>2, <2>3
<1>5. UnownedFits'
  <2> SUFFICES ASSUME NEW x \in Clean', \A q \in Busy' : x \notin Below(Req(q)')
               PROVE  RowsFit(entries'[x], texts'[x], files'[x])
    BY DEF UnownedFits, Holds, Below
  <2>1. CASE x \in Below(Req(p))
    <3>1. p \in Busy' => Req(p)' = Req(p)
      BY DEF GoesOn, Busy, At, Req, Idle
    <3> QED
      BY <2>1, <3>1
  <2>2. CASE x \notin Below(Req(p))
    <3>1. x \in Clean /\ x \in Paths
      BY CleanAfter DEF Clean
    <3>2. \A q \in Busy : x \notin Below(Req(q))
      BY <1>2, <2>2 DEF Busy
    <3>3. RowsFit(entries[x], texts[x], files[x])
      BY <1>1, <3>1, <3>2 DEF UnownedFits, Holds
    <3>4. texts'[x] = texts[x]
      BY <2>2, <3>1 DEF StaysBelow
    <3>5. CASE entries'[x] = entries[x] /\ files'[x] = files[x]
      BY <3>3, <3>4, <3>5
    <3>6. CASE entries[x] = None /\ entries'[x] = Directory /\ files'[x] = "dir"
      <4>1. RowsFit(None, texts[x], files[x])
        BY <3>3, <3>6
      <4>2. RowsFit(Directory, texts[x], "dir")
        BY <4>1, DirectoryFits
      <4> QED
        BY <3>4, <3>6, <4>2
    <3> QED
      BY <2>2, <3>1, <3>5, <3>6 DEF StaysBelow
  <2> QED
    BY <2>1, <2>2
<1> QED
  BY <1>3, <1>4, <1>5 DEF CleanInv

\* A request that throws leaves its paths as they were, or unclean.
LEMMA ThrowClean ==
  ASSUME VfsInv, CleanInv, NEW p \in Busy, Throw(p), UNCHANGED <<entries, texts>>
  PROVE  CleanInv'
<1>1. GoesOn(p) /\ procs'[p] = Idle /\ UNCHANGED <<files, overlapped>> /\ p \notin Busy'
  <2>1. p \in Procs /\ TypeOK
    BY DEF Busy, VfsInv
  <2>2. GoesOn(p) /\ procs'[p] = Idle /\ UNCHANGED <<files, overlapped>>
    BY <2>1, ThrowGoesOn
  <2> QED
    BY <2>2 DEF Busy, At, Idle
<1>2. SpoilsOwn(p) /\ (procs[p].wrote => interrupted' = interrupted \cup Below(Req(p)))
  BY <1>1 DEF Throw, SpoilsOwn
<1>3. StaysBelow(p)
  BY <1>1 DEF StaysBelow
<1>4. TreesFit'
  BY <1>1, <1>2, CleanAfter, TreesStay DEF CleanInv
<1>5. ASSUME NEW x \in Clean' \cap Below(Req(p)) PROVE RowsFit(entries'[x], texts'[x], files'[x])
  <2>1. ~procs[p].wrote /\ x \in Clean
    BY <1>2, <1>5, CleanAfter DEF Clean
  <2> QED
    BY <1>1, <2>1 DEF CleanInv, RequestFits, WrittenFits, Holds
<1> QED
  BY <1>1, <1>2, <1>3, <1>4, <1>5, StepClean

\* A request that only reads goes on.
LEMMA ReadClean ==
  ASSUME VfsInv, CleanInv, NEW p \in Busy, GoesOn(p),
         UNCHANGED <<entries, texts, files, overlapped, interrupted>>,
         p \in Busy' => RequestFits(p)',
         p \notin Busy' => ~procs[p].wrote
  PROVE  CleanInv'
<1>1. SpoilsOwn(p) /\ StaysBelow(p)
  BY DEF SpoilsOwn, StaysBelow
<1>2. TreesFit' /\ Clean' \subseteq Clean
  BY <1>1, CleanAfter, TreesStay DEF CleanInv
<1>3. ASSUME p \notin Busy', NEW x \in Clean' \cap Below(Req(p))
      PROVE  RowsFit(entries'[x], texts'[x], files'[x])
  BY <1>2, <1>3 DEF CleanInv, RequestFits, WrittenFits, Holds
<1> QED
  BY <1>1, <1>2, <1>3, StepClean

\* What is known of a request whose next await changes nothing of it.
LEMMA GotoFits ==
  ASSUME NEW p, RequestFits(p), UNCHANGED <<entries, texts, files, overlapped, interrupted>>,
         NEW a, procs'[p].at = a, procs'[p].req = procs[p].req, procs'[p].left = procs[p].left,
         procs'[p].wrote = procs[p].wrote, procs'[p].parent = procs[p].parent,
         {procs[p].at, a} \cap {"dropEntry", "moveText"} = {},
         a = "makeParent" => procs[p].parent < Len(Target(p)),
         (a = "list" /\ Req(p).op = "move") \/ a \in AfterParent =>
           Len(Target(p)) <= procs[p].parent,
         procs[p].wrote => a \in MayHaveWritten,
         a \in Writing => procs[p].wrote,
         PutFits(p)', SourceFits(p)',
         a \in AfterTarget /\ Req(p).op = "move" => procs[p].at \in AfterTarget
  PROVE  RequestFits(p)'
<1>1. /\ Req(p)' = Req(p) /\ Path(p)' = Path(p) /\ Target(p)' = Target(p)
      /\ Current(p)' = Current(p) /\ Clean' = Clean /\ \A b : At(p, b)' <=> a = b
  BY DEF Req, Path, Target, Current, At, Clean
<1>2. MovesWhole(p)' /\ ParentsFit(p)' /\ WrittenFits(p)'
  BY <1>1 DEF RequestFits, MovesWhole, ParentsFit, WrittenFits, Holds
<1>3. ~At(p, "dropEntry") /\ ~At(p, "moveText") /\ ~At(p, "dropEntry")' /\ ~At(p, "moveText")'
  BY <1>1 DEF At
<1>4. LeavesFit(p)'
  <2>1. LeavesFit(p)
    BY DEF RequestFits
  <2> QED
    BY <1>1, <1>3, <2>1 DEF LeavesFit, Holds
<1>5. ArrivesFit(p)'
  <2>1. ArrivesFit(p)
    BY DEF RequestFits
  <2> QED
    BY <1>1, <1>3, <2>1 DEF ArrivesFit, Holds
<1> QED
  BY <1>2, <1>4, <1>5 DEF RequestFits

-----------------------------------------------------------------------------
(* One lemma per action. *)

LEMMA BusyHere ==
  ASSUME VfsInv, NEW p \in Procs, procs[p].at # "idle"
  PROVE  p \in Busy /\ TypeOK /\ PointsFit
  BY DEF Busy, At, VfsInv

LEMMA CleanHere ==
  ASSUME CleanInv, NEW p \in Busy
  PROVE  /\ CleanIsAbove /\ TreesFit /\ UnownedFits
         /\ MovesWhole(p) /\ ParentsFit(p) /\ WrittenFits(p) /\ PutFits(p)
         /\ LeavesFit(p) /\ ArrivesFit(p) /\ SourceFits(p) /\ RequestFits(p)
  BY DEF CleanInv, RequestFits

LEMMA GotoChanges ==
  ASSUME VfsInv, VfsInv', NEW p \in Procs, NEW a \in Points \ {"idle"}, Goto(p, a)
  PROVE  /\ GoesOn(p) /\ p \in Busy'
         /\ procs'[p].at = a /\ procs'[p].req = procs[p].req /\ procs'[p].left = procs[p].left
         /\ procs'[p].wrote = procs[p].wrote /\ procs'[p].parent = procs[p].parent
<1>1. procs \in [Procs -> Proc] /\ procs' \in [Procs -> Proc] /\ PointFits(procs'[p])
  BY DEF VfsInv, TypeOK, PointsFit
<1>2. procs'[p] = [procs[p] EXCEPT !.at = a] /\ \A q \in Procs \ {p} : procs'[q] = procs[q]
  BY <1>1 DEF Goto
<1>3. /\ procs'[p].at = a /\ procs'[p].req = procs[p].req /\ procs'[p].left = procs[p].left
      /\ procs'[p].wrote = procs[p].wrote /\ procs'[p].parent = procs[p].parent
  BY <1>1, <1>2 DEF Proc
<1> QED
  BY <1>1, <1>2, <1>3 DEF GoesOn, Busy, At

\* What is above the target of a request is nobody's, if it is clean.
LEMMA ParentsUnowned ==
  ASSUME VfsInv, CleanInv, NEW p \in Busy, Req(p).op \in {"put", "mkdir", "move"},
         NEW y \in Clean, IsStrictPrefix(y, Target(p))
  PROVE  y \notin Below(Req(p)) /\ Holds(y, files[y])
<1>1. /\ Req(p) \in Requested /\ Path(p) \in Paths /\ Target(p) \in Paths /\ y \in Paths
      /\ Target(p) \in Roots(Req(p)) /\ Path(p) = Req(p).path /\ Req(p).to \in Paths
  BY BusyTypes DEF VfsInv, Clean
<1>2. IsPrefix(y, Target(p)) /\ ~IsPrefix(Target(p), y)
  BY <1>1, PrefixOrder DEF IsStrictPrefix
<1>3. y \notin Below(Req(p))
  <2> SUFFICES ASSUME NEW r \in Roots(Req(p)), IsPrefix(r, y) PROVE FALSE
    BY <1>1, BelowFacts
  <2>1. r # Target(p)
    BY <1>2
  <2>2. Req(p).op = "move" /\ r = Path(p) /\ Target(p) = Req(p).to
    BY <1>1, <2>1 DEF Roots, Target
  <2>3. IsPrefix(Path(p), Req(p).to)
    BY <1>1, <1>2, <2>2, PrefixOrder
  <2> QED
    BY <1>1, <2>2, <2>3, VfsConstants
<1>4. ASSUME NEW q \in Busy, q # p PROVE y \notin Below(Req(q))
  BY <1>1, <1>2, <1>4, Apart
<1> QED
  BY <1>3, <1>4 DEF CleanInv, UnownedFits

LEMMA NextParentChanges ==
  ASSUME VfsInv, VfsInv', NEW p \in Busy, NextParent(p)
  PROVE  /\ GoesOn(p) /\ p \in Busy' /\ procs'[p].at = "parent"
         /\ procs'[p].req = procs[p].req /\ procs'[p].left = procs[p].left
         /\ procs'[p].wrote = procs[p].wrote /\ procs'[p].parent = procs[p].parent + 1
<1>1. /\ procs'[p] = [procs[p] EXCEPT !.parent = @ + 1, !.at = "parent"]
      /\ \A q \in Procs \ {p} : procs'[q] = procs[q]
      /\ procs[p] \in Proc /\ procs' \in [Procs -> Proc] /\ PointFits(procs'[p])
  BY DEF NextParent, VfsInv, TypeOK, PointsFit, Busy
<1>2. /\ procs'[p].at = "parent" /\ procs'[p].req = procs[p].req
      /\ procs'[p].left = procs[p].left
      /\ procs'[p].wrote = procs[p].wrote /\ procs'[p].parent = procs[p].parent + 1
  BY <1>1 DEF Proc
<1> QED
  BY <1>1, <1>2 DEF GoesOn, Busy, At

LEMMA FindParentClean ==
  ASSUME VfsInv, VfsInv', CleanInv, NEW p \in Procs, FindParent(p)
  PROVE  CleanInv'
<1>1. /\ procs[p].at = "parent" /\ p \in Busy /\ TypeOK /\ PointsFit
      /\ Req(p).op \in {"put", "mkdir", "move"} /\ UNCHANGED <<entries, texts>>
  BY BusyHere DEF FindParent, At, PointsFit, PointFits, Asks, Req, tables
<1>2. RequestFits(p) /\ ParentsFit(p) /\ ~procs[p].wrote
  BY <1>1, CleanHere DEF WrittenFits, MayHaveWritten, Writing
<1>3. procs[p].parent \in Nat /\ Len(Target(p)) \in Nat /\ Target(p) \in Paths
  BY <1>1, ProcTypes, BusyTypes, PathNames
<1>4. ASSUME NEW a \in {"lookup", "list", "moveEntry", "makeParent"}, Goto(p, a),
             UNCHANGED history,
             a # "makeParent" => procs[p].parent >= Len(Target(p)),
             a = "makeParent" => procs[p].parent < Len(Target(p)),
             a = "moveEntry" => procs[p].left # {}
      PROVE  CleanInv'
  <2>1. /\ GoesOn(p) /\ p \in Busy'
        /\ procs'[p].at = a /\ procs'[p].req = procs[p].req /\ procs'[p].left = procs[p].left
        /\ procs'[p].wrote = procs[p].wrote /\ procs'[p].parent = procs[p].parent
    BY <1>4, GotoChanges DEF Points
  <2>2. PutFits(p)' /\ SourceFits(p)'
    BY <2>1 DEF PutFits, SourceFits, At
  <2>3. RequestFits(p)'
    BY <1>1, <1>2, <1>3, <1>4, <2>1, <2>2, GotoFits
    DEF history, AfterParent, MayHaveWritten, Writing, AfterTarget
  <2> QED
    BY <1>1, <1>4, <2>1, <2>3, ReadClean DEF history
<1>5. CASE procs[p].parent >= Len(Target(p)) /\ Goto(p, AfterParents(p)) /\ UNCHANGED history
  <2>1. AfterParents(p) \in {"lookup", "list", "moveEntry"}
        /\ (AfterParents(p) = "moveEntry" => procs[p].left # {})
    BY <1>1 DEF AfterParents
  <2> QED
    BY <1>4, <1>5, <2>1
<1>6. CASE Throw(p)
  BY <1>1, <1>6, ThrowClean
<1>7. CASE /\ ~(procs[p].parent >= Len(Target(p))) /\ IsDir(Parent(p))
           /\ NextParent(p) /\ UNCHANGED history
  <2>1. /\ GoesOn(p) /\ p \in Busy' /\ procs'[p].at = "parent"
        /\ procs'[p].req = procs[p].req /\ procs'[p].left = procs[p].left
        /\ procs'[p].wrote = procs[p].wrote /\ procs'[p].parent = procs[p].parent + 1
    BY <1>1, <1>7, NextParentChanges
  <2>4. /\ Req(p)' = Req(p) /\ Path(p)' = Path(p) /\ Target(p)' = Target(p)
        /\ Current(p)' = Current(p) /\ Clean' = Clean /\ \A b : At(p, b)' <=> At(p, b)
    BY <1>1, <1>7, <2>1 DEF Req, Path, Target, Current, At, Clean, history
  <2>5. UNCHANGED <<entries, texts, files, overlapped, interrupted>>
    BY <1>1, <1>7 DEF history
  <2>6. ParentsFit(p)'
    <3>1. ASSUME NEW y \in Clean, IsStrictPrefix(y, Target(p)), Len(y) < procs[p].parent + 1
          PROVE  files[y] = "dir"
      <4>1. CASE Len(y) < procs[p].parent
        BY <1>2, <3>1, <4>1 DEF ParentsFit
      <4>2. CASE Len(y) = procs[p].parent
        <5>1. y \in Paths /\ IsPrefix(y, Target(p)) /\ procs[p].parent \in 1 .. Len(Target(p))
          BY <1>2, <1>3, <1>7, <3>1 DEF Clean, IsStrictPrefix, ParentsFit
        <5>2. y = Parent(p)
          BY <1>3, <4>2, <5>1, Ancestors DEF Parent
        <5>3. Holds(y, files[y])
          BY <1>1, <3>1, ParentsUnowned
        <5> QED
          BY <1>7, <5>2, <5>3 DEF Holds, RowsFit, EntryFits, IsDir
      <4>3. Len(y) \in Nat
        BY PathNames DEF Clean
      <4> QED
        BY <1>3, <3>1, <4>1, <4>2, <4>3
    <3>2. 1 <= procs[p].parent + 1
      BY <1>3
    <3> QED
      BY <1>1, <2>1, <2>4, <2>5, <3>1, <3>2 DEF ParentsFit, At, AfterParent
  <2>7. MovesWhole(p)' /\ WrittenFits(p)' /\ PutFits(p)' /\ SourceFits(p)'
    BY <1>1, <1>2, <2>1, <2>4, <2>5
    DEF RequestFits, MovesWhole, WrittenFits, PutFits, SourceFits, Holds
  <2>8. LeavesFit(p)'
    BY <1>2, <2>1, <2>4, <2>5 DEF RequestFits, LeavesFit, Holds
  <2>9. ArrivesFit(p)'
    <3>1. ArrivesFit(p)
      BY <1>2 DEF RequestFits
    <3> QED
      BY <1>1, <2>1, <2>4, <2>5, <3>1 DEF ArrivesFit, Holds
  <2> QED
    BY <1>1, <2>1, <2>5, <2>6, <2>7, <2>8, <2>9, ReadClean DEF RequestFits
<1>8. CASE ~(procs[p].parent >= Len(Target(p))) /\ Goto(p, "makeParent") /\ UNCHANGED history
  BY <1>3, <1>4, <1>8
<1> QED
  BY <1>5, <1>6, <1>7, <1>8 DEF FindParent

\* A path gets a new content in its directory: what is made still lies in directories.
LEMMA TreesGrow ==
  ASSUME TypeOK, CleanIsAbove, TreesFit, Clean' \subseteq Clean, NEW d \in Paths, NEW c,
         files' = [files EXCEPT ![d] = c],
         \A y \in Clean : IsStrictPrefix(y, d) => files[y] = "dir",
         c = "dir" \/ (d \in Clean => files[d] # "dir")
  PROVE  TreesFit'
<1> SUFFICES ASSUME NEW x \in Clean', files'[x] # None, NEW y \in Paths, IsStrictPrefix(y, x)
             PROVE  files'[y] = "dir"
  BY DEF TreesFit
<1>1. x \in Clean /\ x \in Paths /\ y \in Clean
  BY DEF CleanIsAbove, IsStrictPrefix, Clean
<1>2. \A z \in Paths : files'[z] = IF z = d THEN c ELSE files[z]
  BY DEF TypeOK
<1>3. files[y] = "dir"
  <2>1. CASE x = d
    BY <1>1, <2>1
  <2>2. CASE x # d
    BY <1>1, <1>2, <2>2 DEF TreesFit
  <2> QED
    BY <2>1, <2>2
<1> QED
  BY <1>1, <1>2, <1>3, VfsConstants

LEMMA MakeParentClean ==
  ASSUME VfsInv, VfsInv', CleanInv, NEW p \in Procs, MakeParent(p)
  PROVE  CleanInv'
<1> DEFINE d == Parent(p)
<1>1. /\ procs[p].at = "makeParent" /\ p \in Busy /\ TypeOK /\ PointsFit
      /\ Req(p).op \in {"put", "mkdir", "move"}
  BY BusyHere DEF MakeParent, At, PointsFit, PointFits, Asks, Req
<1>2. CASE Throw(p) /\ UNCHANGED tables
  BY <1>1, <1>2, ThrowClean DEF tables
<1>3. CASE entries[d] = None /\ InsertDirectory(d) /\ NextParent(p)
  <2>1. /\ RequestFits(p) /\ ParentsFit(p) /\ MovesWhole(p) /\ WrittenFits(p)
        /\ ~procs[p].wrote /\ CleanIsAbove /\ TreesFit
    BY <1>1, CleanHere DEF WrittenFits, MayHaveWritten, Writing
  <2>2. procs[p].parent \in 1 .. Len(Target(p)) /\ procs[p].parent < Len(Target(p))
        /\ Target(p) \in Paths
    BY <1>1, <2>1, ProcTypes, BusyTypes, PathNames DEF ParentsFit, At
  <2>3. /\ d \in Paths /\ Len(d) = procs[p].parent /\ IsStrictPrefix(d, Target(p))
        /\ \A y \in Paths : IsPrefix(y, Target(p)) /\ Len(y) = Len(d) => y = d
    <3>1. /\ d \in Paths /\ Len(d) = procs[p].parent /\ IsPrefix(d, Target(p))
          /\ \A y \in Paths : IsPrefix(y, Target(p)) /\ Len(y) = Len(d) => y = d
      BY <2>2, Ancestors DEF Parent
    <3> QED
      BY <2>2, <3>1 DEF IsStrictPrefix
  <2>4. d \in Clean => d \notin Below(Req(p))
    BY <1>1, <2>3, ParentsUnowned
  <2> HIDE DEF d
  <2>5. /\ entries' = [entries EXCEPT ![d] = Directory] /\ files' = [files EXCEPT ![d] = "dir"]
        /\ UNCHANGED <<texts, overlapped, interrupted>> /\ Clean' = Clean
    BY <1>3 DEF InsertDirectory, Directory, Clean
  <2>6. /\ entries'[d] = Directory /\ files'[d] = "dir"
        /\ \A x \in Paths : x # d => entries'[x] = entries[x] /\ files'[x] = files[x]
    BY <1>1, <2>3, <2>5 DEF TypeOK
  <2>7. /\ GoesOn(p) /\ p \in Busy' /\ procs'[p].at = "parent"
        /\ procs'[p].req = procs[p].req /\ procs'[p].left = procs[p].left
        /\ procs'[p].wrote = procs[p].wrote /\ procs'[p].parent = procs[p].parent + 1
    BY <1>1, <1>3, NextParentChanges
  <2>8. SpoilsOwn(p)
    BY <2>5 DEF SpoilsOwn
  <2>9. StaysBelow(p)
    BY <1>3, <2>3, <2>5, <2>6 DEF StaysBelow
  <2>10. \A y \in Clean : IsStrictPrefix(y, Target(p)) /\ Len(y) < Len(d) => files[y] = "dir"
    BY <2>1, <2>3 DEF ParentsFit
  <2>11. TreesFit'
    <3>1. ASSUME NEW y \in Clean, IsStrictPrefix(y, d) PROVE files[y] = "dir"
      <4>1. y \in Paths /\ Len(y) < Len(d) /\ IsPrefix(y, Target(p))
        BY <2>2, <2>3, <3>1, PrefixOrder DEF IsStrictPrefix, Clean
      <4>2. y # Target(p)
        BY <2>2, <2>3, <4>1
      <4> QED
        BY <2>10, <3>1, <4>1, <4>2 DEF IsStrictPrefix
    <3> QED
      BY <1>1, <2>1, <2>3, <2>5, <3>1, TreesGrow
  <2>12. \A x \in Clean \cap Below(Req(p)) :
           x \in Paths /\ entries'[x] = entries[x] /\ files'[x] = files[x] /\ texts'[x] = texts[x]
    BY <2>4, <2>5, <2>6 DEF Clean
  <2>13. /\ Req(p)' = Req(p) /\ Path(p)' = Path(p) /\ Target(p)' = Target(p)
         /\ Current(p)' = Current(p) /\ \A a : At(p, a)' <=> a = "parent"
    BY <2>7 DEF Req, Path, Target, Current, At
  <2>14. ParentsFit(p)'
    <3>1. ASSUME NEW y \in Clean, IsStrictPrefix(y, Target(p)), Len(y) < procs[p].parent + 1
          PROVE  files'[y] = "dir"
      <4>1. y \in Paths /\ Len(y) \in Nat /\ IsPrefix(y, Target(p))
        BY <3>1, PathNames DEF Clean, IsStrictPrefix
      <4>2. CASE Len(y) < Len(d)
        BY <2>6, <2>10, <3>1, <4>1, <4>2
      <4>3. CASE Len(y) = Len(d)
        BY <2>3, <2>6, <4>1, <4>3
      <4> QED
        BY <2>2, <2>3, <3>1, <4>1, <4>2, <4>3
    <3> QED
      BY <2>2, <2>5, <2>7, <2>13, <3>1 DEF ParentsFit, AfterParent
  <2>15. MovesWhole(p)' /\ WrittenFits(p)' /\ PutFits(p)' /\ SourceFits(p)'
    BY <2>1, <2>5, <2>7, <2>12, <2>13
    DEF MovesWhole, WrittenFits, PutFits, SourceFits, Holds, Writing
  <2>16. Subtree(Path(p)) \subseteq Below(Req(p))
         /\ (Req(p).op = "move" => Subtree(Req(p).to) \subseteq Below(Req(p)))
    BY <1>1, BusyTypes, BelowFacts
  <2>17. LeavesFit(p)'
    <3>1. LeavesFit(p) /\ ~At(p, "dropEntry") /\ ~At(p, "moveText")
      BY <1>1, <2>1 DEF RequestFits, At
    <3> QED
      BY <2>5, <2>7, <2>12, <2>13, <2>16, <3>1 DEF LeavesFit, Holds
  <2>18. ArrivesFit(p)'
    <3> SUFFICES ASSUME Req(p).op = "move" PROVE ArrivesFit(p)'
      BY <2>13 DEF ArrivesFit
    <3>1. ArrivesFit(p) /\ procs[p].at \in AfterTarget /\ ~At(p, "moveText")
      BY <1>1, <2>1 DEF RequestFits, AfterTarget, At
    <3>2. ASSUME NEW x \in Clean, x \in Subtree(Req(p).to),
                 NEW y, y = Moved(x, Req(p).to, Path(p))
          PROVE  /\ files'[x] = None
                 /\ procs[p].left # {} =>
                      CASE y \notin Paths -> RowsFit(entries'[x], texts'[x], None)
                        [] y \in Paths \ procs[p].left -> RowsFit(entries'[x], texts'[x], files'[y])
                        [] OTHER -> RowsFit(entries'[x], texts'[x], None)
      <4>1. x \in Clean \cap Below(Req(p)) /\ x \in Paths
        BY <2>16, <3>2 DEF Clean
      <4>2. entries'[x] = entries[x] /\ texts'[x] = texts[x] /\ files'[x] = files[x]
        BY <2>12, <4>1
      <4>3. y \in Paths => files'[y] = files[y]
        <5> HAVE y \in Paths
        <5>1. y \in Subtree(Path(p))
          BY <1>1, <3>2, <4>1, BusyTypes, MovedBelow DEF Subtree
        <5>2. Subtree(Path(p)) \subseteq Clean
          BY <2>1, <4>1 DEF MovesWhole
        <5> QED
          BY <2>12, <2>16, <5>1, <5>2
      <4>4. /\ files[x] = None
            /\ procs[p].left # {} =>
                 CASE y \notin Paths -> RowsFit(entries[x], texts[x], None)
                   [] y \in Paths \ procs[p].left -> RowsFit(entries[x], texts[x], files[y])
                   [] OTHER -> RowsFit(entries[x], texts[x], None)
        BY <3>1, <3>2 DEF ArrivesFit, Holds
      <4> QED
        BY <4>2, <4>3, <4>4
    <3>3. Path(p) \in Clean => ~IsPrefix(Req(p).to, Path(p))
      BY <3>1 DEF ArrivesFit
    <3> QED
      BY <2>5, <2>7, <2>13, <3>2, <3>3 DEF ArrivesFit, Holds
  <2>19. RequestFits(p)'
    BY <2>14, <2>15, <2>17, <2>18 DEF RequestFits
  <2> QED
    BY <1>1, <2>7, <2>8, <2>9, <2>11, <2>19, StepClean
<1> QED
  BY <1>2, <1>3 DEF MakeParent

LEMMA LookUpClean ==
  ASSUME VfsInv, VfsInv', CleanInv, NEW p \in Procs, LookUp(p)
  PROVE  CleanInv'
<1>1. /\ procs[p].at = "lookup" /\ p \in Busy /\ TypeOK /\ PointsFit
      /\ Req(p).op \in {"put", "mkdir"} /\ UNCHANGED <<entries, texts>>
      /\ Path(p) \in Paths /\ Path(p) \in Below(Req(p))
  <2>1. procs[p].at = "lookup" /\ p \in Busy /\ TypeOK /\ PointsFit /\ UNCHANGED <<entries, texts>>
    BY BusyHere DEF LookUp, At, tables
  <2> QED
    BY <2>1, BusyTypes, BelowFacts DEF PointsFit, PointFits, Asks, Req
<1>2. RequestFits(p) /\ ParentsFit(p) /\ WrittenFits(p) /\ ~procs[p].wrote
  BY <1>1, CleanHere DEF WrittenFits, MayHaveWritten, Writing
<1>3. ASSUME NEW a \in {"make", "entry", "blob"}, UNCHANGED history,
             procs'[p].at = a, procs'[p].req = procs[p].req, procs'[p].left = procs[p].left,
             procs'[p].wrote = procs[p].wrote, procs'[p].parent = procs[p].parent,
             GoesOn(p), a # "make" => ~IsDir(Path(p))
      PROVE  CleanInv'
  <2>1. PutFits(p)' /\ SourceFits(p)'
    <3>1. Path(p)' = Path(p) /\ Req(p)' = Req(p) /\ Clean' = Clean /\ files' = files
      BY <1>3 DEF Path, Req, Clean, history
    <3>2. ASSUME a # "make", Path(p) \in Clean PROVE files[Path(p)] # "dir"
      <4>1. Holds(Path(p), files[Path(p)])
        BY <1>1, <1>2, <3>2 DEF WrittenFits
      <4> QED
        BY <1>3, <3>2, <4>1, VfsConstants DEF Holds, RowsFit, EntryFits, IsDir
    <3> QED
      BY <1>3, <3>1, <3>2 DEF PutFits, SourceFits, At
  <2>2. RequestFits(p)'
    <3>1. Len(Target(p)) <= procs[p].parent
      BY <1>1, <1>2 DEF ParentsFit, AfterParent
    <3> QED
      BY <1>1, <1>2, <1>3, <2>1, <3>1, GotoFits
      DEF history, MayHaveWritten, Writing, AfterTarget
  <2>3. p \in Busy'
    BY <1>3 DEF Busy, At
  <2> QED
    BY <1>1, <1>3, <2>2, <2>3, ReadClean DEF history
<1>4. CASE Throw(p)
  BY <1>1, <1>4, ThrowClean
<1>5. CASE Return(p, files)
  <2>1. GoesOn(p) /\ procs'[p] = Idle /\ UNCHANGED <<files, overlapped, interrupted>>
    BY <1>1, <1>5, ReturnGoesOn DEF Return, TypeOK
  <2> QED
    BY <1>1, <1>2, <2>1, ReadClean DEF Busy, At, Idle
<1>6. CASE Goto(p, "make") /\ UNCHANGED history
  <2>1. /\ GoesOn(p)
        /\ procs'[p].at = "make" /\ procs'[p].req = procs[p].req /\ procs'[p].left = procs[p].left
        /\ procs'[p].wrote = procs[p].wrote /\ procs'[p].parent = procs[p].parent
    BY <1>1, <1>6, GotoChanges DEF Points
  <2> QED
    BY <1>3, <1>6, <2>1
<1>7. CASE /\ ~IsDir(Path(p)) /\ UNCHANGED history
           /\ procs' = [procs EXCEPT ![p].at = IF StoredInD1(Req(p).content) THEN "entry" ELSE "blob",
                                     ![p].version = NextVersion(entries[Path(p)])]
  <2> DEFINE a == IF StoredInD1(Req(p).content) THEN "entry" ELSE "blob"
             v == NextVersion(entries[Path(p)])
  <2>1. procs[p] \in Proc /\ procs \in [Procs -> Proc] /\ procs' \in [Procs -> Proc]
        /\ PointFits(procs'[p]) /\ a \in {"entry", "blob"}
    BY <1>1 DEF VfsInv, TypeOK, PointsFit
  <2>2. procs' = [procs EXCEPT ![p] = [procs[p] EXCEPT !.at = a, !.version = v]]
    BY <1>7, <2>1
  <2> HIDE DEF a, v
  <2>3. /\ procs'[p] = [procs[p] EXCEPT !.at = a, !.version = v]
        /\ \A q \in Procs \ {p} : procs'[q] = procs[q]
    BY <2>1, <2>2
  <2>4. /\ procs'[p].at = a /\ procs'[p].req = procs[p].req /\ procs'[p].left = procs[p].left
        /\ procs'[p].wrote = procs[p].wrote /\ procs'[p].parent = procs[p].parent
    BY <2>1, <2>3 DEF Proc
  <2>5. GoesOn(p)
    BY <2>1, <2>3, <2>4 DEF GoesOn
  <2> QED
    BY <1>3, <1>7, <2>1, <2>4, <2>5
<1>8. IsDir(Path(p)) \/ IsFile(Path(p)) \/ entries[Path(p)] = None
  BY <1>1 DEF TypeOK, Entry, IsDir, IsFile
<1>9. /\ ~(IsDir(Path(p)) /\ IsFile(Path(p)))
      /\ ~(entries[Path(p)] = None /\ (IsDir(Path(p)) \/ IsFile(Path(p))))
  BY DEF IsDir, IsFile
<1> QED
  BY <1>1, <1>4, <1>5, <1>6, <1>7, <1>8, <1>9 DEF LookUp

LEMMA MakeDirectoryClean ==
  ASSUME VfsInv, VfsInv', CleanInv, NEW p \in Procs, MakeDirectory(p)
  PROVE  CleanInv'
<1> DEFINE d == Path(p)
<1>1. /\ procs[p].at = "make" /\ p \in Busy /\ TypeOK /\ PointsFit /\ Req(p).op = "mkdir"
      /\ d \in Paths /\ d \in Below(Req(p)) /\ Target(p) = d
  <2>1. procs[p].at = "make" /\ p \in Busy /\ TypeOK /\ PointsFit
    BY BusyHere DEF MakeDirectory, At
  <2>2. Req(p).op = "mkdir"
    BY <2>1 DEF PointsFit, PointFits, Asks, Req
  <2> QED
    BY <2>1, <2>2, BusyTypes, BelowFacts DEF Target
<1>2. CASE Throw(p) /\ UNCHANGED tables
  BY <1>1, <1>2, ThrowClean DEF tables
<1>3. CASE entries[d] = None /\ InsertDirectory(d) /\ procs' = [procs EXCEPT ![p] = Idle]
  <2>1. /\ CleanIsAbove /\ TreesFit /\ ~procs[p].wrote
        /\ \A x \in Clean \cap Below(Req(p)) : Holds(x, files[x])
        /\ \A y \in Clean : IsStrictPrefix(y, d) /\ Len(y) < procs[p].parent => files[y] = "dir"
        /\ Len(d) <= procs[p].parent /\ procs[p].parent \in Nat
    BY <1>1, CleanHere, ProcTypes
    DEF WrittenFits, ParentsFit, MayHaveWritten, Writing, AfterParent
  <2>a. p \in Procs /\ GoesOn(p) /\ procs'[p] = Idle
    BY <1>1, <1>3, EndGoesOn
  <2>2. GoesOn(p) /\ procs'[p] = Idle /\ p \notin Busy'
    BY <2>a DEF Busy, At, Idle
  <2> HIDE DEF d
  <2>3. /\ entries' = [entries EXCEPT ![d] = Directory] /\ files' = [files EXCEPT ![d] = "dir"]
        /\ UNCHANGED <<texts, overlapped, interrupted>> /\ Clean' = Clean
    BY <1>3 DEF InsertDirectory, Directory, Clean
  <2>4. /\ entries'[d] = Directory /\ files'[d] = "dir"
        /\ \A x \in Paths : x # d => entries'[x] = entries[x] /\ files'[x] = files[x]
    BY <1>1, <2>3 DEF TypeOK
  <2>5. SpoilsOwn(p) /\ StaysBelow(p)
    BY <1>1, <2>3, <2>4 DEF SpoilsOwn, StaysBelow
  <2>6. TreesFit'
    <3>1. ASSUME NEW y \in Clean, IsStrictPrefix(y, d) PROVE files[y] = "dir"
      <4>1. Len(y) < Len(d) /\ Len(y) \in Nat /\ Len(d) \in Nat
        BY <1>1, <3>1, PrefixOrder, PathNames DEF Clean
      <4> QED
        BY <2>1, <3>1, <4>1
    <3> QED
      BY <1>1, <2>1, <2>3, <3>1, TreesGrow
  <2>7. ASSUME NEW x \in Clean' \cap Below(Req(p))
        PROVE  RowsFit(entries'[x], texts'[x], files'[x])
    <3>1. x \in Paths /\ RowsFit(entries[x], texts[x], files[x]) /\ texts'[x] = texts[x]
      BY <2>1, <2>3, <2>7 DEF Clean, Holds
    <3>2. CASE x = d
      <4>1. RowsFit(None, texts[x], files[x])
        BY <1>3, <3>1, <3>2
      <4>2. RowsFit(Directory, texts[x], "dir")
        BY <4>1, DirectoryFits
      <4> QED
        BY <2>4, <3>1, <3>2, <4>2
    <3> QED
      BY <2>4, <3>1, <3>2
  <2> QED
    BY <1>1, <2>2, <2>5, <2>6, <2>7, StepClean
<1> QED
  BY <1>2, <1>3 DEF MakeDirectory

LEMMA PutBlobClean ==
  ASSUME VfsInv, VfsInv', CleanInv, NEW p \in Procs, PutBlob(p)
  PROVE  CleanInv'
<1>1. /\ procs[p].at = "blob" /\ p \in Busy /\ TypeOK /\ PointsFit
      /\ Goto(p, "entry") /\ UNCHANGED <<entries, texts, files, overlapped, interrupted>>
  BY BusyHere DEF PutBlob, At, history
<1>2. RequestFits(p) /\ ParentsFit(p) /\ WrittenFits(p) /\ PutFits(p) /\ ~procs[p].wrote
  BY <1>1, CleanHere DEF WrittenFits, MayHaveWritten, Writing
<1>3. /\ GoesOn(p) /\ p \in Busy'
      /\ procs'[p].at = "entry" /\ procs'[p].req = procs[p].req /\ procs'[p].left = procs[p].left
      /\ procs'[p].wrote = procs[p].wrote /\ procs'[p].parent = procs[p].parent
  BY <1>1, GotoChanges DEF Points
<1>4. PutFits(p)' /\ SourceFits(p)'
  BY <1>1, <1>2, <1>3 DEF PutFits, SourceFits, At, Path, Req, Clean
<1>5. RequestFits(p)'
  <2>1. Len(Target(p)) <= procs[p].parent
    BY <1>1, <1>2 DEF ParentsFit, AfterParent
  <2> QED
    BY <1>1, <1>2, <1>3, <1>4, <2>1, GotoFits DEF MayHaveWritten, Writing, AfterTarget
<1> QED
  BY <1>1, <1>3, <1>5, ReadClean

LEMMA UpsertFileEntryClean ==
  ASSUME VfsInv, VfsInv', CleanInv, NEW p \in Procs, UpsertFileEntry(p)
  PROVE  CleanInv'
<1> DEFINE c == Req(p).content
           e == [kind |-> "file", version |-> procs[p].version,
                 key |-> IF StoredInD1(c) THEN None ELSE c]
<1>1. /\ procs[p].at = "entry" /\ p \in Busy /\ TypeOK /\ PointsFit /\ Req(p).op = "put"
      /\ Path(p) \in Paths /\ Subtree(Path(p)) \subseteq Below(Req(p)) /\ c \in Contents
      /\ UNCHANGED <<texts, files, overlapped, interrupted>> /\ Path(p) \in Subtree(Path(p))
      /\ Req(p) \in Requested
  <2>1. /\ procs[p].at = "entry" /\ p \in Busy /\ TypeOK /\ PointsFit
        /\ UNCHANGED <<texts, files, overlapped, interrupted>>
    BY BusyHere DEF UpsertFileEntry, At, history
  <2>2. Req(p).op = "put" /\ Req(p) \in Requested
    BY <2>1 DEF PointsFit, PointFits, Asks, Req
  <2> QED
    BY <2>1, <2>2, BusyTypes, BelowFacts, ConstantTypes, PathTypes
<1>2. /\ RequestFits(p) /\ ParentsFit(p) /\ PutFits(p) /\ ~procs[p].wrote
      /\ \A x \in Clean \cap Below(Req(p)) : Holds(x, files[x])
      /\ CleanIsAbove /\ TreesFit
  BY <1>1, CleanHere DEF WrittenFits, MayHaveWritten, Writing
<1>3. /\ entries'[Path(p)] = e /\ \A x \in Paths : x # Path(p) => entries'[x] = entries[x]
      /\ Clean' = Clean
  BY <1>1 DEF UpsertFileEntry, TypeOK, Clean
<1>4. EntryFits(e, c)
  BY <1>1, VfsConstants, ConstantTypes, ProcTypes DEF EntryFits, StoredInD1, Contents, Entry
<1> HIDE DEF e
<1>5. /\ procs'[p] = [procs[p] EXCEPT !.at = "text", !.wrote = TRUE]
      /\ \A q \in Procs \ {p} : procs'[q] = procs[q]
      /\ procs[p] \in Proc /\ procs' \in [Procs -> Proc] /\ PointFits(procs'[p])
  BY <1>1 DEF UpsertFileEntry, Writes, VfsInv, TypeOK, PointsFit
<1>6. /\ procs'[p].at = "text" /\ procs'[p].req = procs[p].req /\ procs'[p].wrote
      /\ procs'[p].parent = procs[p].parent
  BY <1>5 DEF Proc
<1>7. GoesOn(p) /\ p \in Busy'
  BY <1>5, <1>6 DEF GoesOn, Busy, At
<1>8. SpoilsOwn(p) /\ StaysBelow(p)
  BY <1>1, <1>3 DEF SpoilsOwn, StaysBelow
<1>9. TreesFit'
  BY <1>1, <1>2, <1>3, TreesStay
<1>10. Req(p)' = Req(p) /\ Path(p)' = Path(p) /\ Target(p)' = Target(p)
       /\ \A a : At(p, a)' <=> a = "text"
  BY <1>6 DEF Req, Path, Target, At
<1>11. PutFits(p)'
  <2>1. Path(p) \in Clean => files[Path(p)] # "dir"
    BY <1>1, <1>2 DEF PutFits
  <2>2. ASSUME NEW x \in Clean \cap Subtree(Path(p)), x # Path(p)
        PROVE  RowsFit(entries'[x], texts'[x], files'[x])
    <3>1. x \in Paths /\ Holds(x, files[x])
      BY <1>1, <1>2, <2>2 DEF Clean
    <3> QED
      BY <1>1, <1>3, <2>2, <3>1 DEF Holds
  <2> QED
    BY <1>1, <1>3, <1>4, <1>6, <1>10, <2>1, <2>2 DEF PutFits, Holds
<1>12. ParentsFit(p)' /\ MovesWhole(p)' /\ WrittenFits(p)' /\ SourceFits(p)'
  BY <1>1, <1>2, <1>3, <1>6, <1>10
  DEF ParentsFit, MovesWhole, WrittenFits, SourceFits, AfterParent, MayHaveWritten, Writing
<1>13. LeavesFit(p)' /\ ArrivesFit(p)'
  BY <1>1, <1>10 DEF LeavesFit, ArrivesFit
<1> QED
  BY <1>1, <1>7, <1>8, <1>9, <1>11, <1>12, <1>13, StepClean DEF RequestFits

LEMMA WriteTextContentClean ==
  ASSUME VfsInv, VfsInv', CleanInv, NEW p \in Procs, WriteTextContent(p)
  PROVE  CleanInv'
<1>1. /\ procs[p].at = "text" /\ p \in Busy /\ TypeOK /\ PointsFit /\ Req(p).op = "put"
      /\ Path(p) \in Paths /\ Subtree(Path(p)) \subseteq Below(Req(p))
      /\ UNCHANGED <<entries, files, overlapped, interrupted>> /\ Path(p) \in Subtree(Path(p))
      /\ Goto(p, "revision")
  <2>1. /\ procs[p].at = "text" /\ p \in Busy /\ TypeOK /\ PointsFit /\ Goto(p, "revision")
        /\ UNCHANGED <<entries, files, overlapped, interrupted>>
    BY BusyHere DEF WriteTextContent, At, history
  <2>2. Req(p).op = "put"
    BY <2>1 DEF PointsFit, PointFits, Asks, Req
  <2> QED
    BY <2>1, <2>2, BusyTypes, BelowFacts, PathTypes
<1>2. /\ ParentsFit(p) /\ PutFits(p) /\ WrittenFits(p) /\ CleanIsAbove /\ TreesFit
  BY <1>1, CleanHere
<1>3. /\ texts'[Path(p)] = WrittenText(p) /\ \A x \in Paths : x # Path(p) => texts'[x] = texts[x]
      /\ Clean' = Clean
  BY <1>1 DEF WriteTextContent, TypeOK, Clean
<1>4. TextFits(WrittenText(p), Req(p).content)
  <2> DEFINE t == [content |-> Req(p).content, version |-> procs[p].version]
  <2>1. Req(p).content \in Small => t \in Text
    BY <1>1, ProcTypes DEF Text
  <2>2. t.content = Req(p).content /\ None \notin Text
    BY ConstantTypes
  <2>3. WrittenText(p) = IF Req(p).content \in Small THEN t ELSE None
    BY DEF WrittenText, StoredInD1
  <2> HIDE DEF t
  <2> QED
    BY <2>1, <2>2, <2>3 DEF TextFits
<1>5. /\ GoesOn(p) /\ p \in Busy'
      /\ procs'[p].at = "revision" /\ procs'[p].req = procs[p].req
      /\ procs'[p].wrote = procs[p].wrote /\ procs'[p].parent = procs[p].parent
  BY <1>1, GotoChanges DEF Points
<1>6. SpoilsOwn(p) /\ StaysBelow(p)
  BY <1>1, <1>3 DEF SpoilsOwn, StaysBelow
<1>7. TreesFit'
  BY <1>1, <1>2, <1>3, TreesStay
<1>8. Req(p)' = Req(p) /\ Path(p)' = Path(p) /\ Target(p)' = Target(p)
      /\ \A a : At(p, a)' <=> a = "revision"
  BY <1>5 DEF Req, Path, Target, At
<1>9. PutFits(p)'
  <2>1. Path(p) \in Clean => files[Path(p)] # "dir"
    BY <1>1, <1>2 DEF PutFits
  <2>2. ASSUME NEW x \in Clean \cap Subtree(Path(p))
        PROVE  IF x = Path(p) THEN EntryFits(entries[x], Req(p).content)
               ELSE RowsFit(entries[x], texts'[x], files[x])
    <3>1. x \in Paths
      BY DEF Clean
    <3> QED
      BY <1>1, <1>2, <1>3, <2>2, <3>1 DEF PutFits, Holds
  <2> QED
    BY <1>1, <1>3, <1>4, <1>5, <1>8, <2>1, <2>2 DEF PutFits, Holds
<1>10. ParentsFit(p)' /\ MovesWhole(p)' /\ WrittenFits(p)' /\ SourceFits(p)'
  BY <1>1, <1>2, <1>3, <1>5, <1>8
  DEF ParentsFit, MovesWhole, WrittenFits, SourceFits, AfterParent, MayHaveWritten, Writing
<1>11. LeavesFit(p)' /\ ArrivesFit(p)'
  BY <1>1, <1>8 DEF LeavesFit, ArrivesFit
<1> QED
  BY <1>1, <1>5, <1>6, <1>7, <1>9, <1>10, <1>11, StepClean DEF RequestFits

LEMMA InsertFileRevisionClean ==
  ASSUME VfsInv, VfsInv', CleanInv, NEW p \in Procs, InsertFileRevision(p)
  PROVE  CleanInv'
<1> DEFINE d == Path(p)
           c == Req(p).content
<1>1. /\ procs[p].at = "revision" /\ p \in Busy /\ TypeOK /\ PointsFit /\ Req(p).op = "put"
      /\ d \in Paths /\ Below(Req(p)) = Subtree(d) /\ c \in Contents
      /\ UNCHANGED <<entries, texts>> /\ Target(p) = d /\ Return(p, [files EXCEPT ![d] = c])
  <2>1. /\ procs[p].at = "revision" /\ p \in Busy /\ TypeOK /\ PointsFit
        /\ UNCHANGED <<entries, texts>> /\ Return(p, [files EXCEPT ![d] = c])
    BY BusyHere DEF InsertFileRevision, At
  <2>2. Req(p).op = "put" /\ Req(p) \in Requested
    BY <2>1 DEF PointsFit, PointFits, Asks, Req
  <2>3. Below(Req(p)) = Subtree(d)
    BY <2>2 DEF Below, Roots, Path, Req
  <2> QED
    BY <2>1, <2>2, <2>3, BusyTypes, ConstantTypes DEF Target
<1>2. /\ PutFits(p) /\ CleanIsAbove /\ TreesFit
      /\ \A y \in Clean : IsStrictPrefix(y, d) /\ Len(y) < procs[p].parent => files[y] = "dir"
      /\ Len(d) <= procs[p].parent /\ procs[p].parent \in Nat
  BY <1>1, CleanHere, ProcTypes DEF ParentsFit, AfterParent
<1>3. /\ GoesOn(p) /\ procs'[p] = Idle /\ p \notin Busy'
      /\ UNCHANGED <<overlapped, interrupted>> /\ Clean' = Clean
  <2>1. p \in Procs /\ procs' = [procs EXCEPT ![p] = Idle] /\ UNCHANGED <<overlapped, interrupted>>
    BY <1>1 DEF Return
  <2>2. GoesOn(p) /\ procs'[p] = Idle
    BY <1>1, <2>1, EndGoesOn
  <2> QED
    BY <2>1, <2>2 DEF Busy, At, Idle, Clean
<1>4. /\ files' = [files EXCEPT ![d] = c] /\ files'[d] = c
      /\ \A x \in Paths : x # d => files'[x] = files[x]
  BY <1>1 DEF Return, TypeOK
<1>5. /\ d \in Clean => files[d] # "dir"
      /\ \A x \in Clean \cap Subtree(d) :
           IF x = d THEN RowsFit(entries[x], texts[x], c) ELSE Holds(x, files[x])
  BY <1>1, <1>2 DEF PutFits, RowsFit, At
<1> HIDE DEF d, c
<1>6. SpoilsOwn(p) /\ StaysBelow(p)
  <2>1. d \in Subtree(d)
    BY <1>1, PathTypes
  <2> QED
    BY <1>1, <1>3, <1>4, <2>1 DEF SpoilsOwn, StaysBelow
<1>7. TreesFit'
  <2>1. ASSUME NEW y \in Clean, IsStrictPrefix(y, d) PROVE files[y] = "dir"
    <3>1. Len(y) < Len(d) /\ Len(y) \in Nat /\ Len(d) \in Nat
      BY <1>1, <2>1, PrefixOrder, PathNames DEF Clean
    <3> QED
      BY <1>2, <2>1, <3>1
  <2> QED
    BY <1>1, <1>2, <1>3, <1>4, <1>5, <2>1, TreesGrow
<1>8. \A x \in Clean' \cap Below(Req(p)) : RowsFit(entries'[x], texts'[x], files'[x])
  BY <1>1, <1>3, <1>4, <1>5 DEF Holds, Clean
<1> QED
  BY <1>1, <1>3, <1>6, <1>7, <1>8, StepClean

LEMMA CleanUpClean ==
  ASSUME VfsInv, VfsInv', CleanInv, NEW p \in Procs, CleanUp(p)
  PROVE  CleanInv'
<1>1. procs[p].at = "cleanup" /\ p \in Busy /\ TypeOK /\ UNCHANGED <<entries, texts>>
  BY BusyHere DEF CleanUp, At, tables
<1>2. CASE Throw(p)
  BY <1>1, <1>2, ThrowClean
<1>3. CASE Goto(p, "unlink") /\ UNCHANGED history
  <2>1. /\ GoesOn(p) /\ p \in Busy'
        /\ procs'[p].at = "unlink" /\ procs'[p].req = procs[p].req
        /\ procs'[p].left = procs[p].left
        /\ procs'[p].wrote = procs[p].wrote /\ procs'[p].parent = procs[p].parent
    BY <1>1, <1>3, GotoChanges DEF Points
  <2>2. PutFits(p)' /\ SourceFits(p)'
    BY <2>1 DEF PutFits, SourceFits, At
  <2>3. RequestFits(p)'
    BY <1>1, <1>3, <2>1, <2>2, CleanHere, GotoFits
    DEF history, AfterParent, MayHaveWritten, Writing, AfterTarget
  <2> QED
    BY <1>1, <1>3, <2>1, <2>3, ReadClean DEF history
<1> QED
  BY <1>2, <1>3 DEF CleanUp

LEMMA FailsClean ==
  ASSUME VfsInv, VfsInv', CleanInv, NEW p \in Procs, Fails(p)
  PROVE  CleanInv'
<1>1. p \in Busy /\ TypeOK /\ UNCHANGED <<entries, texts>>
  BY DEF Fails, tables, VfsInv
<1>2. CASE Throw(p)
  BY <1>1, <1>2, ThrowClean
<1>3. CASE /\ procs[p].at \in {"entry", "text", "revision"}
           /\ Goto(p, "cleanup") /\ UNCHANGED history
  <2>1. /\ GoesOn(p) /\ p \in Busy'
        /\ procs'[p].at = "cleanup" /\ procs'[p].req = procs[p].req
        /\ procs'[p].left = procs[p].left
        /\ procs'[p].wrote = procs[p].wrote /\ procs'[p].parent = procs[p].parent
    BY <1>1, <1>3, GotoChanges DEF Points
  <2>2. PutFits(p)' /\ SourceFits(p)'
    BY <2>1 DEF PutFits, SourceFits, At
  <2>3. RequestFits(p)'
    BY <1>1, <1>3, <2>1, <2>2, CleanHere, GotoFits
    DEF history, AfterParent, MayHaveWritten, Writing, AfterTarget
  <2> QED
    BY <1>1, <1>3, <2>1, <2>3, ReadClean DEF history
<1> QED
  BY <1>2, <1>3 DEF Fails

LEMMA ThrowsClean ==
  ASSUME VfsInv, CleanInv, NEW p \in Procs, Unlink(p) \/ Lost(p)
  PROVE  CleanInv'
<1>1. p \in Busy /\ Throw(p) /\ UNCHANGED <<entries, texts>>
  BY DEF Unlink, Lost, tables, Busy, At
<1> QED
  BY <1>1, ThrowClean

\* A clean path below the target of a move comes from a clean one below the path moved.
LEMMA ComesFrom ==
  ASSUME VfsInv, CleanInv, NEW p \in Busy, Req(p).op = "move",
         NEW x \in Clean, x \in Subtree(Req(p).to)
  PROVE  /\ Subtree(Path(p)) \subseteq Clean /\ Path(p) \in Clean
         /\ \A y \in Paths : y = Moved(x, Req(p).to, Path(p)) => y \in Subtree(Path(p))
<1>1. /\ Path(p) \in Paths /\ Req(p).to \in Paths /\ x \in Paths
      /\ Subtree(Req(p).to) \subseteq Below(Req(p))
  BY BusyTypes, BelowFacts DEF VfsInv, Clean
<1>2. Subtree(Path(p)) \subseteq Clean
  BY <1>1, CleanHere DEF MovesWhole
<1>3. Path(p) \in Clean
  BY <1>1, <1>2, PathTypes
<1>4. \A y \in Paths : y = Moved(x, Req(p).to, Path(p)) => y \in Subtree(Path(p))
  BY <1>1, MovedBelow DEF Subtree
<1> QED
  BY <1>2, <1>3, <1>4

LEMMA StatClean ==
  ASSUME VfsInv, VfsInv', CleanInv, NEW p \in Procs, Stat(p)
  PROVE  CleanInv'
<1>1. /\ procs[p].at = "stat" /\ p \in Busy /\ TypeOK /\ PointsFit /\ UNCHANGED <<entries, texts>>
      /\ Req(p).op \in {"delete", "move"} /\ Req(p) \in Requested
      /\ Path(p) \in Paths /\ Subtree(Path(p)) \subseteq Below(Req(p)) /\ Path(p) \in Subtree(Path(p))
  <2>1. procs[p].at = "stat" /\ p \in Busy /\ TypeOK /\ PointsFit /\ UNCHANGED <<entries, texts>>
    BY BusyHere DEF Stat, At, tables
  <2> QED
    BY <2>1, BusyTypes, BelowFacts, PathTypes DEF PointsFit, PointFits, Asks, Req
<1>2. /\ CleanIsAbove /\ TreesFit /\ ~procs[p].wrote /\ MovesWhole(p) /\ ParentsFit(p)
      /\ \A x \in Clean \cap Below(Req(p)) : Holds(x, files[x])
  BY <1>1, CleanHere DEF WrittenFits, MayHaveWritten, Writing
<1>3. CASE Throw(p)
  BY <1>1, <1>3, ThrowClean
<1>4. CASE ~Throw(p)
  <2> DEFINE a == IF Req(p).op = "move" THEN "target"
                  ELSE IF IsDir(Path(p)) THEN "children" ELSE "dropText"
             l == IF IsDir(Path(p)) THEN {} ELSE {Path(p)}
  <2>1. /\ procs' = [procs EXCEPT ![p] = [procs[p] EXCEPT !.at = a, !.left = l]]
        /\ UNCHANGED history /\ entries[Path(p)] # None
    BY <1>1, <1>4 DEF Stat, TypeOK
  <2>2. a \in {"target", "children", "dropText"} /\ (a = "target" => Req(p).op = "move")
        /\ l \in {{}, {Path(p)}} /\ (l # {} => ~IsDir(Path(p)))
    OBVIOUS
  <2> HIDE DEF a, l
  <2>3. /\ procs'[p] = [procs[p] EXCEPT !.at = a, !.left = l]
        /\ \A q \in Procs \ {p} : procs'[q] = procs[q]
        /\ procs[p] \in Proc /\ procs' \in [Procs -> Proc] /\ PointFits(procs'[p])
    BY <1>1, <2>1 DEF VfsInv, TypeOK, PointsFit
  <2>4. /\ procs'[p].at = a /\ procs'[p].req = procs[p].req /\ procs'[p].left = l
        /\ procs'[p].wrote = procs[p].wrote /\ procs'[p].parent = procs[p].parent
    BY <2>3 DEF Proc
  <2>5. GoesOn(p) /\ p \in Busy'
    BY <2>2, <2>3, <2>4 DEF GoesOn, Busy, At
  <2>6. /\ Req(p)' = Req(p) /\ Path(p)' = Path(p) /\ Target(p)' = Target(p)
        /\ Clean' = Clean /\ files' = files /\ \A b : At(p, b)' <=> a = b
    BY <2>1, <2>4 DEF Req, Path, Target, At, Clean, history
  <2>7. MovesWhole(p)' /\ ParentsFit(p)' /\ WrittenFits(p)' /\ PutFits(p)' /\ ArrivesFit(p)'
    BY <1>1, <1>2, <2>2, <2>4, <2>6
    DEF MovesWhole, ParentsFit, WrittenFits, PutFits, ArrivesFit, Holds, AfterParent, Writing,
        AfterTarget
  <2>8. SourceFits(p)'
    <3>1. ASSUME Path(p) \in Clean PROVE files[Path(p)] # None
      BY <1>1, <1>2, <2>1, <3>1 DEF Holds, RowsFit, EntryFits
    <3> QED
      BY <2>6, <3>1 DEF SourceFits
  <2>9. LeavesFit(p)'
    <3> SUFFICES ASSUME l = {Path(p)}, NEW x \in Clean \cap Subtree(Path(p))
                 PROVE  IF x \in l THEN Holds(x, files[x]) ELSE Holds(x, None)
      BY <1>1, <2>2, <2>4, <2>6 DEF LeavesFit, Holds
    <3>1. Holds(x, files[x]) /\ x \in Paths
      BY <1>1, <1>2 DEF Clean
    <3>2. ASSUME x # Path(p) PROVE files[x] = None
      <4>1. IsStrictPrefix(Path(p), x) /\ Path(p) \in Clean
        BY <1>1, <1>2, <3>2 DEF IsStrictPrefix, Subtree, CleanIsAbove
      <4>2. files[Path(p)] # "dir"
        <5>1. Holds(Path(p), files[Path(p)]) /\ ~IsDir(Path(p))
          BY <1>1, <1>2, <2>2, <4>1
        <5> QED
          BY <2>1, <5>1 DEF Holds, RowsFit, EntryFits, IsDir
      <4> QED
        BY <1>1, <1>2, <4>1, <4>2 DEF TreesFit
    <3> QED
      BY <3>1, <3>2
  <2>10. UNCHANGED <<files, overlapped, interrupted>>
    BY <2>1 DEF history
  <2> QED
    BY <1>1, <2>5, <2>7, <2>8, <2>9, <2>10, ReadClean DEF RequestFits
<1> QED
  BY <1>3, <1>4

LEMMA ListDirectChildrenClean ==
  ASSUME VfsInv, VfsInv', CleanInv, NEW p \in Procs, ListDirectChildren(p)
  PROVE  CleanInv'
<1>1. /\ procs[p].at = "children" /\ p \in Busy /\ TypeOK /\ UNCHANGED <<entries, texts>>
      /\ Req(p).op = "delete"
  <2>1. /\ procs[p].at = "children" /\ p \in Busy /\ TypeOK /\ PointsFit
        /\ UNCHANGED <<entries, texts>>
    BY BusyHere DEF ListDirectChildren, At, tables
  <2> QED
    BY <2>1 DEF PointsFit, PointFits, Asks, Req
<1>2. CASE Throw(p)
  BY <1>1, <1>2, ThrowClean
<1>3. CASE Goto(p, "list") /\ UNCHANGED history
  <2>1. /\ GoesOn(p) /\ p \in Busy'
        /\ procs'[p].at = "list" /\ procs'[p].req = procs[p].req
        /\ procs'[p].left = procs[p].left
        /\ procs'[p].wrote = procs[p].wrote /\ procs'[p].parent = procs[p].parent
    BY <1>1, <1>3, GotoChanges DEF Points
  <2>2. PutFits(p)' /\ SourceFits(p)'
    BY <2>1 DEF PutFits, SourceFits, At
  <2>3. RequestFits(p) /\ ~procs[p].wrote
    BY <1>1, CleanHere DEF WrittenFits, MayHaveWritten, Writing
  <2>4. RequestFits(p)'
    BY <1>1, <1>3, <2>1, <2>2, <2>3, GotoFits
    DEF history, AfterParent, Writing
  <2> QED
    BY <1>1, <1>3, <2>1, <2>4, ReadClean DEF history
<1> QED
  BY <1>2, <1>3 DEF ListDirectChildren

\* There is nothing where the tree goes, and that is not above it.
LEMMA FindTargetClean ==
  ASSUME VfsInv, VfsInv', CleanInv, NEW p \in Procs, FindTarget(p)
  PROVE  CleanInv'
<1> DEFINE to == Req(p).to
<1>1. /\ procs[p].at = "target" /\ p \in Busy /\ TypeOK /\ PointsFit /\ UNCHANGED <<entries, texts>>
      /\ Req(p).op = "move" /\ Req(p) \in Requested /\ Path(p) \in Paths /\ to \in Paths
      /\ Subtree(Path(p)) \subseteq Below(Req(p)) /\ Subtree(to) \subseteq Below(Req(p))
      /\ to \in Subtree(to) /\ Path(p) \in Subtree(Path(p))
      /\ Subtree(to) \subseteq Paths
  <2>1. procs[p].at = "target" /\ p \in Busy /\ TypeOK /\ PointsFit /\ UNCHANGED <<entries, texts>>
    BY BusyHere DEF FindTarget, At, tables
  <2>2. Req(p).op = "move" /\ Req(p) \in Requested
    BY <2>1 DEF PointsFit, PointFits, Asks, Req
  <2>3. Path(p) \in Paths /\ to \in Paths
        /\ Subtree(Path(p)) \subseteq Below(Req(p)) /\ Subtree(to) \subseteq Below(Req(p))
    BY <2>1, <2>2, BusyTypes, BelowFacts
  <2> QED
    BY <2>1, <2>2, <2>3, PathTypes DEF Subtree
<1>2. /\ CleanIsAbove /\ TreesFit /\ ~procs[p].wrote /\ MovesWhole(p) /\ ParentsFit(p)
      /\ \A x \in Clean \cap Below(Req(p)) : Holds(x, files[x])
      /\ LeavesFit(p) /\ SourceFits(p)
  BY <1>1, CleanHere DEF WrittenFits, MayHaveWritten, Writing
<1>3. CASE Throw(p)
  BY <1>1, <1>3, ThrowClean
<1>4. CASE entries[to] = None /\ Goto(p, "parent") /\ UNCHANGED history
  <2>1. /\ GoesOn(p) /\ p \in Busy'
        /\ procs'[p].at = "parent" /\ procs'[p].req = procs[p].req
        /\ procs'[p].left = procs[p].left
        /\ procs'[p].wrote = procs[p].wrote /\ procs'[p].parent = procs[p].parent
    BY <1>1, <1>4, GotoChanges DEF Points
  <2>2. /\ Req(p)' = Req(p) /\ Path(p)' = Path(p) /\ Target(p)' = Target(p)
        /\ Current(p)' = Current(p) /\ UNCHANGED <<files, overlapped, interrupted>>
        /\ Clean' = Clean /\ \A b : At(p, b)' <=> b = "parent"
    BY <1>4, <2>1 DEF Req, Path, Target, Current, At, Clean, history
  <2>3. MovesWhole(p)' /\ ParentsFit(p)' /\ WrittenFits(p)' /\ PutFits(p)' /\ SourceFits(p)'
    BY <1>1, <1>2, <2>1, <2>2
    DEF MovesWhole, ParentsFit, WrittenFits, PutFits, SourceFits, Holds, AfterParent, Writing
  <2>4. LeavesFit(p)'
    BY <1>1, <1>2, <2>1, <2>2 DEF LeavesFit, Holds, At
  <2>5. to \in Clean => files[to] = None
    BY <1>1, <1>2, <1>4 DEF Holds, RowsFit, EntryFits
  <2>6. ASSUME Path(p) \in Clean, IsPrefix(to, Path(p)) PROVE FALSE
    <3>1. to \in Clean /\ files[Path(p)] # None
      BY <1>1, <1>2, <2>6 DEF CleanIsAbove, SourceFits, At
    <3>2. to = Path(p) \/ IsStrictPrefix(to, Path(p))
      BY <2>6 DEF IsStrictPrefix
    <3> QED
      BY <1>1, <1>2, <2>5, <2>6, <3>1, <3>2, VfsConstants DEF TreesFit
  <2>7. ASSUME NEW x \in Clean, x \in Subtree(to) PROVE files[x] = None
    <3>1. x \in Paths /\ IsPrefix(to, x) /\ to \in Clean
      BY <1>1, <1>2, <2>7 DEF CleanIsAbove, Subtree
    <3>2. x = to \/ IsStrictPrefix(to, x)
      BY <3>1 DEF IsStrictPrefix
    <3> QED
      BY <1>1, <1>2, <2>5, <2>7, <3>1, <3>2, VfsConstants DEF TreesFit
  <2>8. ASSUME procs[p].left # {}, NEW x \in Clean, x \in Subtree(to),
               NEW y, y = Moved(x, to, Path(p))
        PROVE  /\ RowsFit(entries[x], texts[x], None)
               /\ y \in Paths \ procs[p].left => RowsFit(entries[x], texts[x], files[y])
    <3>1. RowsFit(entries[x], texts[x], None)
      <4>1. Holds(x, files[x])
        BY <1>1, <1>2, <2>8
      <4> QED
        BY <2>7, <2>8, <4>1 DEF Holds
    <3>2. ASSUME y \in Paths \ procs[p].left PROVE files[y] = None
      <4>1. y \in Clean \cap Subtree(Path(p))
        BY <1>1, <2>8, <3>2, ComesFrom
      <4>2. Holds(y, None) /\ Holds(y, files[y])
        BY <1>1, <1>2, <2>8, <3>2, <4>1 DEF LeavesFit
      <4> QED
        BY <4>2 DEF Holds, RowsFit, EntryFits
    <3> QED
      BY <3>1, <3>2
  <2>9. ArrivesFit(p)'
    <3> HIDE DEF to
    <3>1. ASSUME NEW x \in Clean, x \in Subtree(to), NEW y, y = Moved(x, to, Path(p))
          PROVE  /\ files[x] = None
                 /\ procs[p].left # {} =>
                      CASE y \notin Paths -> RowsFit(entries[x], texts[x], None)
                        [] y \in Paths \ procs[p].left -> RowsFit(entries[x], texts[x], files[y])
                        [] OTHER -> RowsFit(entries[x], texts[x], None)
      BY <2>7, <2>8, <3>1
    <3> QED
      BY <1>1, <2>1, <2>2, <2>6, <3>1 DEF ArrivesFit, Holds, to
  <2> QED
    BY <1>1, <2>1, <2>2, <2>3, <2>4, <2>9, ReadClean DEF RequestFits
<1> QED
  BY <1>3, <1>4 DEF FindTarget

\* A tree without entries is none, and moving or deleting it changes nothing.
LEMMA ListTreeClean ==
  ASSUME VfsInv, VfsInv', CleanInv, NEW p \in Procs, ListTree(p)
  PROVE  CleanInv'
<1> DEFINE to == Req(p).to
<1>1. /\ procs[p].at = "list" /\ p \in Busy /\ TypeOK /\ PointsFit /\ UNCHANGED <<entries, texts>>
      /\ Req(p).op \in {"delete", "move"} /\ Path(p) \in Paths /\ to \in Paths
      /\ Req(p) \in Requested /\ Path(p) = Req(p).path
      /\ Subtree(Path(p)) \subseteq Below(Req(p)) /\ Subtree(Path(p)) \subseteq Paths
      /\ Req(p).op = "move" => Subtree(to) \subseteq Below(Req(p))
  <2>1. procs[p].at = "list" /\ p \in Busy /\ TypeOK /\ PointsFit /\ UNCHANGED <<entries, texts>>
    BY BusyHere DEF ListTree, At, tables
  <2>2. Req(p).op \in {"delete", "move"} /\ Req(p) \in Requested
    BY <2>1 DEF PointsFit, PointFits, Asks, Req
  <2>3. /\ Path(p) \in Paths /\ to \in Paths /\ Path(p) = Req(p).path
        /\ Subtree(Path(p)) \subseteq Below(Req(p))
        /\ Req(p).op = "move" => Subtree(to) \subseteq Below(Req(p))
    BY <2>1, <2>2, BusyTypes, BelowFacts
  <2> QED
    BY <2>1, <2>2, <2>3 DEF Subtree
<1>2. /\ CleanIsAbove /\ TreesFit /\ ~procs[p].wrote /\ MovesWhole(p) /\ ParentsFit(p)
      /\ \A x \in Clean \cap Below(Req(p)) : Holds(x, files[x])
      /\ ArrivesFit(p)
  BY <1>1, CleanHere DEF WrittenFits, MayHaveWritten, Writing
<1>3. ASSUME NEW x \in Clean \cap Subtree(Path(p)), x \notin Tree(Path(p))
      PROVE  files[x] = None /\ Holds(x, None)
  <2>1. Holds(x, files[x]) /\ entries[x] = None
    BY <1>1, <1>2, <1>3 DEF Tree
  <2> QED
    BY <2>1 DEF Holds, RowsFit, EntryFits
<1>4. ASSUME Req(p).op = "move", NEW x \in Clean, x \in Subtree(to)
      PROVE  files[x] = None /\ Holds(x, None)
  <2>1. files[x] = None
    BY <1>1, <1>2, <1>4 DEF ArrivesFit, AfterTarget
  <2>2. Holds(x, files[x])
    BY <1>1, <1>2, <1>4
  <2> QED
    BY <2>1, <2>2
<1> HIDE DEF to
<1>5. CASE Tree(Path(p)) = {}
  <2> DEFINE f == IF Req(p).op = "move" THEN MovedAway(p) ELSE Deleted(p)
  <2>1. Return(p, f)
    BY <1>5 DEF ListTree
  <2>2. procs' = [procs EXCEPT ![p] = Idle] /\ files' = f /\ UNCHANGED <<overlapped, interrupted>>
    BY <2>1 DEF Return
  <2>a. p \in Procs /\ GoesOn(p) /\ procs'[p] = Idle
    BY <1>1, <2>2, EndGoesOn
  <2>3. GoesOn(p) /\ p \notin Busy' /\ SpoilsOwn(p) /\ Clean' = Clean
    BY <2>2, <2>a DEF Busy, At, Idle, SpoilsOwn, Clean
  <2>4. ASSUME NEW x \in Paths
        PROVE  /\ x \notin Below(Req(p)) => files'[x] = files[x]
               /\ x \in Clean => files'[x] = files[x]
    <3>1. CASE x \in Subtree(Path(p))
      <4>1. files'[x] = None
        BY <2>2, <3>1 DEF MovedAway, Deleted
      <4> QED
        BY <1>1, <1>3, <1>5, <3>1, <4>1
    <3>2. CASE x \notin Subtree(Path(p)) /\ Req(p).op = "move" /\ x \in Subtree(to)
               /\ Moved(x, to, Path(p)) \in Paths
      <4> DEFINE y == Moved(x, to, Path(p))
      <4>1. files'[x] = files[y]
        BY <2>2, <3>2 DEF MovedAway, to
      <4>2. ASSUME x \in Clean PROVE files[y] = None /\ files[x] = None
        <5>1. y \in Clean \cap Subtree(Path(p))
          BY <1>1, <3>2, <4>2, ComesFrom DEF to
        <5> QED
          BY <1>3, <1>4, <1>5, <3>2, <4>2, <5>1
      <4> QED
        BY <1>1, <3>2, <4>1, <4>2
    <3>3. CASE x \notin Subtree(Path(p)) /\ ~(Req(p).op = "move" /\ x \in Subtree(to)
               /\ Moved(x, to, Path(p)) \in Paths)
      BY <2>2, <3>3 DEF MovedAway, Deleted, to
    <3> QED
      BY <3>1, <3>2, <3>3
  <2>5. StaysBelow(p)
    BY <1>1, <2>4 DEF StaysBelow
  <2>6. \A x \in Clean : x \in Paths /\ files'[x] = files[x]
    BY <2>4 DEF Clean
  <2>7. TreesFit'
    BY <1>2, <2>3, <2>6, TreesStay
  <2>8. \A x \in Clean' \cap Below(Req(p)) : RowsFit(entries'[x], texts'[x], files'[x])
    BY <1>1, <1>2, <2>3, <2>6 DEF Holds, Clean
  <2> QED
    BY <1>1, <2>3, <2>5, <2>7, <2>8, StepClean
<1>6. CASE Tree(Path(p)) # {}
  <2> DEFINE a == IF Req(p).op = "move" THEN "moveEntry" ELSE "dropText"
             l == Tree(Path(p))
  <2>1. procs' = [procs EXCEPT ![p] = [procs[p] EXCEPT !.left = l, !.at = a]] /\ UNCHANGED history
    BY <1>1, <1>6 DEF ListTree, TypeOK
  <2>2. a \in {"moveEntry", "dropText"} /\ (a = "moveEntry" <=> Req(p).op = "move")
    OBVIOUS
  <2> HIDE DEF a, l
  <2>3. /\ procs'[p] = [procs[p] EXCEPT !.left = l, !.at = a]
        /\ \A q \in Procs \ {p} : procs'[q] = procs[q]
        /\ procs[p] \in Proc /\ procs' \in [Procs -> Proc] /\ PointFits(procs'[p])
    BY <1>1, <2>1 DEF VfsInv, TypeOK, PointsFit
  <2>4. /\ procs'[p].at = a /\ procs'[p].req = procs[p].req /\ procs'[p].left = l
        /\ procs'[p].wrote = procs[p].wrote /\ procs'[p].parent = procs[p].parent
    BY <2>3 DEF Proc
  <2>5. GoesOn(p) /\ p \in Busy'
    BY <2>2, <2>3, <2>4 DEF GoesOn, Busy, At
  <2>6. /\ Req(p)' = Req(p) /\ Path(p)' = Path(p) /\ Target(p)' = Target(p)
        /\ UNCHANGED <<files, overlapped, interrupted>>
        /\ Clean' = Clean /\ \A b : At(p, b)' <=> a = b
    BY <2>1, <2>4 DEF Req, Path, Target, At, Clean, history
  <2>7. ParentsFit(p)'
    BY <1>1, <1>2, <2>2, <2>4, <2>6 DEF ParentsFit, AfterParent, At
  <2>8. MovesWhole(p)' /\ WrittenFits(p)' /\ PutFits(p)' /\ SourceFits(p)'
    BY <1>1, <1>2, <2>2, <2>4, <2>6
    DEF MovesWhole, WrittenFits, PutFits, SourceFits, Holds, Writing
  <2>9. LeavesFit(p)'
    <3>1. ASSUME NEW x \in Clean \cap Subtree(Path(p))
          PROVE  IF x \in l THEN Holds(x, files[x]) ELSE Holds(x, None)
      BY <1>1, <1>2, <1>3, <3>1 DEF l
    <3> QED
      BY <1>1, <2>2, <2>4, <2>6, <3>1 DEF LeavesFit, Holds
  <2>10. ArrivesFit(p)'
    <3> SUFFICES ASSUME Req(p).op = "move" PROVE ArrivesFit(p)'
      BY <2>6 DEF ArrivesFit
    <3>1. ASSUME NEW x \in Clean, x \in Subtree(to), NEW y, y = Moved(x, to, Path(p))
          PROVE  /\ files[x] = None
                 /\ CASE y \notin Paths -> RowsFit(entries[x], texts[x], None)
                      [] y \in Paths \ l -> RowsFit(entries[x], texts[x], files[y])
                      [] OTHER -> RowsFit(entries[x], texts[x], None)
      <4>1. files[x] = None /\ RowsFit(entries[x], texts[x], None)
        BY <1>4, <3>1 DEF Holds
      <4>2. ASSUME y \in Paths \ l PROVE files[y] = None
        <5>1. y \in Clean \cap Subtree(Path(p))
          BY <1>1, <3>1, <4>2, ComesFrom DEF to
        <5> QED
          BY <1>3, <4>2, <5>1 DEF l
      <4> QED
        BY <4>1, <4>2
    <3>2. Path(p) \in Clean => ~IsPrefix(to, Path(p))
      BY <1>1, <1>2 DEF ArrivesFit, AfterTarget, to
    <3> QED
      BY <1>1, <2>2, <2>4, <2>6, <3>1, <3>2 DEF ArrivesFit, Holds, to
  <2> QED
    BY <1>1, <2>5, <2>6, <2>7, <2>8, <2>9, <2>10, ReadClean DEF RequestFits
<1> QED
  BY <1>5, <1>6

LEMMA DropTextClean ==
  ASSUME VfsInv, VfsInv', CleanInv, NEW p \in Procs, DropText(p)
  PROVE  CleanInv'
<1> DEFINE c == Current(p)
<1>1. /\ procs[p].at = "dropText" /\ p \in Busy /\ TypeOK /\ PointsFit
      /\ Req(p).op = "delete" /\ procs[p].left # {} /\ procs[p].left \subseteq Subtree(Path(p))
      /\ UNCHANGED <<entries, files, overlapped, interrupted>>
      /\ Subtree(Path(p)) \subseteq Below(Req(p)) /\ Subtree(Path(p)) \subseteq Paths
      /\ c \in procs[p].left
  <2>1. /\ procs[p].at = "dropText" /\ p \in Busy /\ TypeOK /\ PointsFit
        /\ UNCHANGED <<entries, files, overlapped, interrupted>>
    BY BusyHere DEF DropText, At, history
  <2>2. /\ Req(p).op = "delete" /\ procs[p].left # {}
        /\ procs[p].left \subseteq Subtree(Path(p))
    BY <2>1 DEF PointsFit, PointFits, Asks, Req, Path
  <2>3. Subtree(Path(p)) \subseteq Below(Req(p)) /\ Subtree(Path(p)) \subseteq Paths
    BY <2>1, BusyTypes, BelowFacts
  <2> QED
    BY <2>1, <2>2, <2>3, CurrentIsLeft
<1>2. CleanIsAbove /\ TreesFit /\ LeavesFit(p) /\ ParentsFit(p)
  BY <1>1, CleanHere
<1> HIDE DEF c
<1>3. /\ texts' = [texts EXCEPT ![c] = None] /\ texts'[c] = None
      /\ \A x \in Paths : x # c => texts'[x] = texts[x]
      /\ Clean' = Clean
  BY <1>1 DEF DropText, TypeOK, Clean, c
<1>4. /\ procs'[p] = [procs[p] EXCEPT !.at = "dropEntry", !.wrote = TRUE]
      /\ \A q \in Procs \ {p} : procs'[q] = procs[q]
      /\ procs[p] \in Proc /\ procs' \in [Procs -> Proc] /\ PointFits(procs'[p])
  BY <1>1 DEF DropText, Writes, VfsInv, TypeOK, PointsFit
<1>5. /\ procs'[p].at = "dropEntry" /\ procs'[p].req = procs[p].req /\ procs'[p].wrote
      /\ procs'[p].parent = procs[p].parent /\ procs'[p].left = procs[p].left
  BY <1>4 DEF Proc
<1>6. GoesOn(p) /\ p \in Busy'
  BY <1>4, <1>5 DEF GoesOn, Busy, At
<1>7. SpoilsOwn(p) /\ StaysBelow(p)
  BY <1>1, <1>3 DEF SpoilsOwn, StaysBelow
<1>8. TreesFit'
  BY <1>1, <1>2, <1>3, TreesStay
<1>9. /\ Req(p)' = Req(p) /\ Path(p)' = Path(p) /\ Target(p)' = Target(p) /\ Current(p)' = c
      /\ \A a : At(p, a)' <=> a = "dropEntry"
  BY <1>5 DEF Req, Path, Target, At, Current, c
<1>10. LeavesFit(p)'
  <2>1. ASSUME NEW x \in Clean \cap Subtree(Path(p))
        PROVE  CASE x \notin procs[p].left -> RowsFit(entries[x], texts'[x], None)
                 [] x \in procs[p].left /\ x = c -> TextFits(texts'[x], None)
                 [] OTHER -> RowsFit(entries[x], texts'[x], files[x])
    <3>1. CASE x = c
      BY <1>1, <1>3, <3>1, VfsConstants DEF TextFits
    <3>2. CASE x # c
      <4>1. x \in Paths /\ texts'[x] = texts[x] /\ ~At(p, "dropEntry") /\ ~At(p, "moveText")
        BY <1>1, <1>3, <3>2 DEF Clean, At
      <4> QED
        BY <1>1, <1>2, <2>1, <3>2, <4>1 DEF LeavesFit, Holds
    <3> QED
      BY <3>1, <3>2
  <2> QED
    BY <1>1, <1>3, <1>5, <1>9, <2>1 DEF LeavesFit, Holds
<1>11. /\ MovesWhole(p)' /\ ParentsFit(p)' /\ WrittenFits(p)' /\ PutFits(p)'
       /\ ArrivesFit(p)' /\ SourceFits(p)'
  BY <1>1, <1>2, <1>3, <1>5, <1>9
  DEF MovesWhole, ParentsFit, WrittenFits, PutFits, ArrivesFit, SourceFits, AfterParent,
      MayHaveWritten, Writing
<1> QED
  BY <1>1, <1>6, <1>7, <1>8, <1>10, <1>11, StepClean DEF RequestFits

LEMMA DropEntryClean ==
  ASSUME VfsInv, VfsInv', CleanInv, NEW p \in Procs, DropEntry(p)
  PROVE  CleanInv'
<1> DEFINE c == Current(p)
<1>1. /\ procs[p].at = "dropEntry" /\ p \in Busy /\ TypeOK /\ PointsFit
      /\ Req(p).op = "delete" /\ procs[p].left # {} /\ procs[p].left \subseteq Subtree(Path(p))
      /\ texts' = texts /\ GoOn(p, "dropText", Deleted(p))
      /\ Below(Req(p)) = Subtree(Path(p)) /\ Subtree(Path(p)) \subseteq Paths
      /\ c \in procs[p].left /\ Path(p) \in Paths
  <2>1. /\ procs[p].at = "dropEntry" /\ p \in Busy /\ TypeOK /\ PointsFit
        /\ texts' = texts /\ GoOn(p, "dropText", Deleted(p))
    BY BusyHere DEF DropEntry, At
  <2>2. /\ Req(p).op = "delete" /\ procs[p].left # {}
        /\ procs[p].left \subseteq Subtree(Path(p))
    BY <2>1 DEF PointsFit, PointFits, Asks, Req, Path
  <2>3. Below(Req(p)) = Subtree(Path(p)) /\ Subtree(Path(p)) \subseteq Paths /\ Path(p) \in Paths
    BY <2>1, <2>2, BusyTypes DEF Below, Roots, Path, Req, Subtree
  <2> QED
    BY <2>1, <2>2, <2>3, CurrentIsLeft
<1>2. CleanIsAbove /\ TreesFit /\ LeavesFit(p) /\ ParentsFit(p) /\ procs[p].wrote
  BY <1>1, CleanHere DEF WrittenFits, Writing
<1> HIDE DEF c
<1>3. /\ entries' = [entries EXCEPT ![c] = None] /\ entries'[c] = None
      /\ \A x \in Paths : x # c => entries'[x] = entries[x]
  BY <1>1 DEF DropEntry, TypeOK, c
<1>4. ASSUME NEW x \in Clean \cap Subtree(Path(p))
      PROVE  IF x \in procs[p].left \ {c} THEN RowsFit(entries'[x], texts'[x], files[x])
             ELSE RowsFit(entries'[x], texts'[x], None)
  <2>1. CASE x = c
    <3>1. TextFits(texts[x], None)
      BY <1>1, <1>2, <1>4, <2>1 DEF LeavesFit, At, c
    <3>2. EntryFits(None, None)
      BY DEF EntryFits
    <3> QED
      BY <1>1, <1>3, <2>1, <3>1, <3>2 DEF RowsFit
  <2>2. CASE x # c
    <3>1. IF x \in procs[p].left THEN Holds(x, files[x]) ELSE Holds(x, None)
      BY <1>1, <1>2, <1>4, <2>2 DEF LeavesFit, c
    <3>2. x \in Paths
      BY DEF Clean
    <3> QED
      BY <1>1, <1>3, <2>2, <3>1, <3>2 DEF Holds
  <2> QED
    BY <2>1, <2>2
<1>5. CASE procs[p].left = {c}
  <2>1. Return(p, Deleted(p))
    BY <1>1, <1>5 DEF GoOn, c
  <2>2. /\ procs' = [procs EXCEPT ![p] = Idle] /\ UNCHANGED <<overlapped, interrupted>>
        /\ \A x \in Paths : files'[x] = IF x \in Subtree(Path(p)) THEN None ELSE files[x]
    BY <2>1 DEF Return, Deleted
  <2>a. p \in Procs /\ GoesOn(p) /\ procs'[p] = Idle
    BY <1>1, <2>2, EndGoesOn
  <2>3. GoesOn(p) /\ p \notin Busy' /\ SpoilsOwn(p) /\ Clean' = Clean
    BY <2>2, <2>a DEF Busy, At, Idle, SpoilsOwn, Clean
  <2>4. StaysBelow(p)
    BY <1>1, <1>3, <2>2 DEF StaysBelow
  <2>5. TreesFit'
    <3> SUFFICES ASSUME NEW x \in Clean, files'[x] # None, NEW y \in Paths, IsStrictPrefix(y, x)
                 PROVE  files'[y] = "dir"
      BY <2>3 DEF TreesFit
    <3>1. x \in Paths /\ x \notin Subtree(Path(p)) /\ files[x] # None
      BY <2>2 DEF Clean
    <3>2. y \notin Subtree(Path(p))
      BY <1>1, <3>1, PrefixOrder DEF Subtree, IsStrictPrefix
    <3> QED
      BY <1>2, <2>2, <3>1, <3>2 DEF TreesFit
  <2>6. \A x \in Clean' \cap Below(Req(p)) : RowsFit(entries'[x], texts'[x], files'[x])
    BY <1>1, <1>4, <1>5, <2>2, <2>3 DEF Clean
  <2> QED
    BY <1>1, <2>3, <2>4, <2>5, <2>6, StepClean
<1>6. CASE procs[p].left # {c}
  <2> DEFINE l == procs[p].left \ {c}
  <2>1. /\ procs' = [procs EXCEPT ![p] = [procs[p] EXCEPT !.left = l, !.at = "dropText"]]
        /\ UNCHANGED history
    BY <1>1, <1>6 DEF GoOn, TypeOK, c
  <2>2. /\ procs'[p] = [procs[p] EXCEPT !.left = l, !.at = "dropText"]
        /\ \A q \in Procs \ {p} : procs'[q] = procs[q]
        /\ procs[p] \in Proc /\ procs' \in [Procs -> Proc] /\ PointFits(procs'[p])
    BY <1>1, <2>1 DEF VfsInv, TypeOK, PointsFit
  <2>3. /\ procs'[p].at = "dropText" /\ procs'[p].req = procs[p].req /\ procs'[p].left = l
        /\ procs'[p].wrote = procs[p].wrote /\ procs'[p].parent = procs[p].parent
    BY <2>2 DEF Proc
  <2>4. GoesOn(p) /\ p \in Busy'
    BY <2>2, <2>3 DEF GoesOn, Busy, At
  <2>5. /\ Req(p)' = Req(p) /\ Path(p)' = Path(p) /\ Target(p)' = Target(p)
        /\ UNCHANGED <<files, overlapped, interrupted>>
        /\ Clean' = Clean /\ \A a : At(p, a)' <=> a = "dropText"
    BY <2>1, <2>3 DEF Req, Path, Target, At, Clean, history
  <2>6. SpoilsOwn(p) /\ StaysBelow(p)
    BY <1>1, <1>3, <2>5 DEF SpoilsOwn, StaysBelow
  <2>7. TreesFit'
    BY <1>2, <2>5, TreesStay
  <2>8. LeavesFit(p)'
    BY <1>4, <2>3, <2>5 DEF LeavesFit, Holds
  <2>9. /\ MovesWhole(p)' /\ ParentsFit(p)' /\ WrittenFits(p)' /\ PutFits(p)'
        /\ ArrivesFit(p)' /\ SourceFits(p)'
    BY <1>1, <1>2, <2>3, <2>5
    DEF MovesWhole, ParentsFit, WrittenFits, PutFits, ArrivesFit, SourceFits, AfterParent,
        MayHaveWritten, Writing
  <2> QED
    BY <1>1, <2>4, <2>6, <2>7, <2>8, <2>9, StepClean DEF RequestFits
<1> QED
  BY <1>5, <1>6

LEMMA MoveTypes ==
  ASSUME VfsInv, NEW p \in Busy, procs[p].at \in {"moveEntry", "moveText"}
  PROVE  /\ Req(p).op = "move" /\ Path(p) \in Paths /\ Req(p).to \in Paths /\ TypeOK
         /\ ~IsPrefix(Path(p), Req(p).to) /\ Target(p) = Req(p).to
         /\ procs[p].left \subseteq Subtree(Path(p))
         /\ Current(p) \in procs[p].left /\ Current(p) \in Paths /\ Current(p) \in Subtree(Path(p))
         /\ Below(Req(p)) = Subtree(Path(p)) \cup Subtree(Req(p).to)
         /\ \A x \in Paths \ Below(Req(p)) : x # Current(p) /\ x # NewPath(p)
<1>1. /\ Req(p).op = "move" /\ Req(p) \in Requested /\ Path(p) = Req(p).path
      /\ procs[p].left # {} /\ procs[p].left \subseteq Subtree(Path(p))
      /\ p \in Procs /\ TypeOK /\ PointsFit
  BY DEF VfsInv, PointsFit, PointFits, Asks, Req, Path, Busy
<1>2. Path(p) \in Paths /\ Req(p).to \in Paths /\ ~IsPrefix(Path(p), Req(p).to)
  BY <1>1, BusyTypes, VfsConstants
<1>3. /\ Current(p) \in procs[p].left /\ Current(p) \in Paths /\ Current(p) \in Subtree(Path(p))
      /\ IsPrefix(Path(p), Current(p))
  BY <1>1, CurrentIsLeft DEF Subtree
<1>4. Below(Req(p)) = Subtree(Path(p)) \cup Subtree(Req(p).to)
  BY <1>1 DEF Below, Roots
<1>5. NewPath(p) \in Paths => NewPath(p) \in Subtree(Req(p).to)
  BY <1>2, <1>3, MovedBelow DEF Subtree, NewPath
<1> QED
  BY <1>1, <1>2, <1>3, <1>4, <1>5 DEF Target

\* Where a clean tree comes from and where it goes to have nothing in common.
LEMMA TreesApart ==
  ASSUME VfsInv, CleanInv, NEW p \in Busy, procs[p].at \in {"moveEntry", "moveText"},
         Path(p) \in Clean, NEW x \in Subtree(Path(p))
  PROVE  x \notin Subtree(Req(p).to) /\ x # NewPath(p)
<1>1. /\ Path(p) \in Paths /\ Req(p).to \in Paths /\ ~IsPrefix(Path(p), Req(p).to) /\ x \in Paths
      /\ IsPrefix(Path(p), x) /\ Current(p) \in Paths /\ IsPrefix(Path(p), Current(p))
  BY MoveTypes DEF Subtree
<1>2. ~IsPrefix(Req(p).to, Path(p))
  BY MoveTypes, CleanHere DEF ArrivesFit, AfterTarget
<1>3. ~IsPrefix(Req(p).to, x)
  BY <1>1, <1>2, PrefixOrder DEF Comparable
<1>4. IsPrefix(Req(p).to, NewPath(p))
  BY <1>1, MovedBelow DEF NewPath
<1> QED
  BY <1>3, <1>4 DEF Subtree

\* One path goes to the new path: the one whose turn it is.
LEMMA ArrivesOnce ==
  ASSUME VfsInv, NEW p \in Busy, procs[p].at \in {"moveEntry", "moveText"},
         NEW x \in Subtree(Req(p).to)
  PROVE  x = NewPath(p) <=> Moved(x, Req(p).to, Path(p)) = Current(p)
<1>1. /\ Path(p) \in Paths /\ Req(p).to \in Paths /\ x \in Paths /\ IsPrefix(Req(p).to, x)
      /\ Current(p) \in Paths /\ IsPrefix(Path(p), Current(p))
  BY MoveTypes DEF Subtree
<1>2. Moved(Moved(x, Req(p).to, Path(p)), Path(p), Req(p).to) = x
  BY <1>1, MovedBack
<1>3. Moved(Moved(Current(p), Path(p), Req(p).to), Req(p).to, Path(p)) = Current(p)
  BY <1>1, MovedBack
<1> QED
  BY <1>2, <1>3 DEF NewPath

LEMMA RenamedRow ==
  ASSUME NEW S, NEW rows \in [Paths -> S], NEW from \in Paths, NEW to
  PROVE  /\ \A x \in Paths \ {from, to} : Renamed(rows, from, to)[x] = rows[x]
         /\ from # to => Renamed(rows, from, to)[from] = None
         /\ from # to /\ to \in Paths =>
              Renamed(rows, from, to)[to] = IF rows[from] = None THEN rows[to] ELSE rows[from]
  BY DEF Renamed

LEMMA MoveEntryClean ==
  ASSUME VfsInv, VfsInv', CleanInv, NEW p \in Procs, MoveEntry(p)
  PROVE  CleanInv'
<1> DEFINE c == Current(p)
           n == NewPath(p)
           to == Req(p).to
           left == procs[p].left
<1>1. procs[p].at = "moveEntry" /\ p \in Busy /\ texts' = texts
  BY BusyHere DEF MoveEntry, At
<1>2. /\ Req(p).op = "move" /\ Path(p) \in Paths /\ to \in Paths /\ TypeOK /\ Target(p) = to
      /\ left \subseteq Subtree(Path(p)) /\ c \in left /\ c \in Paths /\ c \in Subtree(Path(p))
      /\ Below(Req(p)) = Subtree(Path(p)) \cup Subtree(to)
      /\ \A x \in Paths \ Below(Req(p)) : x # c /\ x # n
  BY <1>1, MoveTypes
<1>3. CASE Throw(p) /\ UNCHANGED entries
  BY <1>1, <1>3, ThrowClean
<1>4. CASE /\ entries' = Renamed(entries, c, n) /\ Writes(p, "moveText") /\ UNCHANGED history
  <2>1. /\ procs'[p] = [procs[p] EXCEPT !.at = "moveText", !.wrote = TRUE]
        /\ \A q \in Procs \ {p} : procs'[q] = procs[q]
        /\ procs[p] \in Proc /\ procs' \in [Procs -> Proc] /\ PointFits(procs'[p])
    BY <1>2, <1>4 DEF Writes, VfsInv, TypeOK, PointsFit
  <2>2. /\ procs'[p].at = "moveText" /\ procs'[p].req = procs[p].req /\ procs'[p].wrote
        /\ procs'[p].parent = procs[p].parent /\ procs'[p].left = left
    BY <2>1 DEF Proc
  <2>3. GoesOn(p) /\ p \in Busy'
    BY <2>1, <2>2 DEF GoesOn, Busy, At
  <2>4. /\ Req(p)' = Req(p) /\ Path(p)' = Path(p) /\ Target(p)' = Target(p) /\ Current(p)' = c
        /\ UNCHANGED <<files, overlapped, interrupted>> /\ Clean' = Clean
        /\ \A a : At(p, a)' <=> a = "moveText"
    BY <1>4, <2>2 DEF Req, Path, Target, Current, At, Clean, history
  <2>5. /\ CleanIsAbove /\ TreesFit /\ MovesWhole(p) /\ ParentsFit(p) /\ LeavesFit(p) /\ ArrivesFit(p)
        /\ ~At(p, "dropEntry") /\ ~At(p, "moveText")
    BY <1>1, CleanHere DEF At
  <2>6. /\ \A x \in Paths \ {c, n} : entries'[x] = entries[x]
        /\ c # n => entries'[c] = None
        /\ c # n /\ n \in Paths => entries'[n] = IF entries[c] = None THEN entries[n] ELSE entries[c]
    <3> DEFINE S == Entry \cup {None}
    <3>1. entries \in [Paths -> S]
      BY <1>2 DEF TypeOK
    <3> HIDE DEF S, c, n
    <3>2. c \in Paths /\ entries' = Renamed(entries, c, n)
      BY <1>2, <1>4
    <3> QED
      BY <3>1, <3>2, RenamedRow
  <2>7. SpoilsOwn(p) /\ StaysBelow(p)
    BY <1>1, <1>2, <2>4, <2>6 DEF SpoilsOwn, StaysBelow
  <2>8. TreesFit'
    BY <2>4, <2>5, TreesStay
  <2>9. ASSUME NEW x \in Clean \cap Subtree(Path(p))
        PROVE  IF x \in left THEN Holds(x, files[x]) ELSE Holds(x, None)
    BY <1>1, <1>2, <2>5, <2>9 DEF LeavesFit
  <2>10. ASSUME NEW x \in Clean \cap Subtree(to), NEW y, y = Moved(x, to, Path(p))
         PROVE  /\ files[x] = None
                /\ IF y \in Paths \ left THEN Holds(x, files[y]) ELSE Holds(x, None)
    BY <1>1, <1>2, <2>5, <2>10 DEF ArrivesFit, AfterTarget
  <2>11. Path(p) \in Clean => c \in Clean /\ c # n
    <3> HAVE Path(p) \in Clean
    <3>1. Subtree(Path(p)) \subseteq Clean
      BY <1>2, <2>5, PathTypes DEF MovesWhole
    <3> QED
      BY <1>1, <1>2, <3>1, TreesApart
  <2>12. LeavesFit(p)'
    <3>1. ASSUME NEW x \in Clean \cap Subtree(Path(p))
          PROVE  CASE x \notin left -> RowsFit(entries'[x], texts[x], None)
                   [] x \in left /\ x = c ->
                        EntryFits(entries'[x], None) /\ TextFits(texts[x], files[x])
                   [] OTHER -> RowsFit(entries'[x], texts[x], files[x])
      <4>1. Path(p) \in Clean /\ x \in Paths
        BY <1>2, <2>5 DEF CleanIsAbove, Subtree, Clean
      <4>2. x # n /\ c # n
        BY <1>1, <1>2, <2>11, <4>1, TreesApart
      <4>3. CASE x = c
        <5>1. entries'[x] = None /\ EntryFits(None, None)
          BY <2>6, <4>2, <4>3 DEF EntryFits
        <5>2. Holds(x, files[x])
          BY <1>2, <2>9, <4>3
        <5> QED
          BY <1>2, <4>3, <5>1, <5>2 DEF Holds, RowsFit
      <4>4. CASE x # c
        BY <2>6, <2>9, <4>1, <4>2, <4>4 DEF Holds
      <4> QED
        BY <4>3, <4>4
    <3> HIDE DEF c, n, left
    <3> QED
      BY <1>1, <1>2, <2>2, <2>4, <3>1 DEF LeavesFit, Holds
  <2>13. ArrivesFit(p)'
    <3>1. ASSUME NEW x \in Clean, x \in Subtree(to), NEW y, y = Moved(x, to, Path(p))
          PROVE  /\ files[x] = None
                 /\ CASE y \notin Paths -> RowsFit(entries'[x], texts[x], None)
                      [] y \in Paths \ left -> RowsFit(entries'[x], texts[x], files[y])
                      [] y \in left /\ y = c ->
                           EntryFits(entries'[x], files[y]) /\ TextFits(texts[x], None)
                      [] OTHER -> RowsFit(entries'[x], texts[x], None)
      <4>1. Path(p) \in Clean /\ x \in Paths
        BY <1>1, <1>2, <3>1, ComesFrom DEF Clean
      <4>2. c \in Clean /\ c # n /\ x # c /\ (x = n <=> y = c)
        BY <1>1, <1>2, <2>11, <3>1, <4>1, TreesApart, ArrivesOnce
      <4>3. /\ files[x] = None
            /\ IF y \in Paths \ left THEN Holds(x, files[y]) ELSE Holds(x, None)
        BY <2>10, <3>1
      <4>4. CASE x = n
        <5>1. Holds(x, None) /\ Holds(c, files[c])
          BY <1>2, <2>9, <4>2, <4>3, <4>4
        <5>2. entries'[x] = entries[c]
          BY <2>6, <4>1, <4>2, <4>4, <5>1 DEF Holds, RowsFit, EntryFits
        <5>3. EntryFits(entries'[x], files[y]) /\ TextFits(texts[x], None)
          BY <4>2, <4>4, <5>1, <5>2 DEF Holds, RowsFit
        <5> QED
          BY <1>2, <4>2, <4>3, <4>4, <5>3
      <4>5. CASE x # n
        <5>1. entries'[x] = entries[x] /\ y # c
          BY <2>6, <4>1, <4>2, <4>5
        <5> QED
          BY <1>2, <4>3, <5>1 DEF Holds
      <4> QED
        BY <4>4, <4>5
    <3>2. Path(p) \in Clean => ~IsPrefix(to, Path(p))
      BY <1>1, <1>2, <2>5 DEF ArrivesFit, AfterTarget
    <3> HIDE DEF c, n, left, to
    <3> QED
      BY <1>1, <1>2, <2>2, <2>4, <3>1, <3>2 DEF ArrivesFit, Holds, to
  <2>14. /\ MovesWhole(p)' /\ ParentsFit(p)' /\ WrittenFits(p)' /\ PutFits(p)' /\ SourceFits(p)'
    BY <1>1, <1>2, <2>2, <2>4, <2>5
    DEF MovesWhole, ParentsFit, WrittenFits, PutFits, SourceFits, AfterParent,
        MayHaveWritten, Writing
  <2> QED
    BY <1>1, <2>3, <2>7, <2>8, <2>12, <2>13, <2>14, StepClean DEF RequestFits
<1> QED
  BY <1>3, <1>4 DEF MoveEntry

LEMMA MoveTextClean ==
  ASSUME VfsInv, VfsInv', CleanInv, NEW p \in Procs, MoveText(p)
  PROVE  CleanInv'
<1> DEFINE c == Current(p)
           n == NewPath(p)
           to == Req(p).to
           left == procs[p].left
<1>1. procs[p].at = "moveText" /\ p \in Busy /\ entries' = entries
  BY BusyHere DEF MoveText, At
<1>2. /\ Req(p).op = "move" /\ Path(p) \in Paths /\ to \in Paths /\ TypeOK /\ Target(p) = to
      /\ left \subseteq Subtree(Path(p)) /\ c \in left /\ c \in Paths /\ c \in Subtree(Path(p))
      /\ Below(Req(p)) = Subtree(Path(p)) \cup Subtree(to)
      /\ \A x \in Paths \ Below(Req(p)) : x # c /\ x # n
      /\ ~IsPrefix(Path(p), to)
  BY <1>1, MoveTypes
<1>3. CASE Throw(p) /\ UNCHANGED texts
  BY <1>1, <1>3, ThrowClean
<1>4. CASE texts' = Renamed(texts, c, n) /\ GoOn(p, "moveEntry", MovedAway(p))
  <2>1. /\ CleanIsAbove /\ TreesFit /\ MovesWhole(p) /\ ParentsFit(p) /\ LeavesFit(p) /\ ArrivesFit(p)
        /\ procs[p].wrote /\ ~At(p, "dropEntry") /\ At(p, "moveText")
    BY <1>1, CleanHere DEF At, WrittenFits, Writing
  <2>2. /\ \A x \in Paths \ {c, n} : texts'[x] = texts[x]
        /\ c # n => texts'[c] = None
        /\ c # n /\ n \in Paths => texts'[n] = IF texts[c] = None THEN texts[n] ELSE texts[c]
    <3> DEFINE S == Text \cup {None}
    <3>1. texts \in [Paths -> S]
      BY <1>2 DEF TypeOK
    <3> HIDE DEF S, c, n
    <3>2. c \in Paths /\ texts' = Renamed(texts, c, n)
      BY <1>2, <1>4
    <3> QED
      BY <3>1, <3>2, RenamedRow
  \* What is there once the text has moved.
  <2>3. ASSUME NEW x \in Clean \cap Subtree(Path(p))
        PROVE  /\ IF x \in left \ {c} THEN RowsFit(entries[x], texts'[x], files[x])
                  ELSE RowsFit(entries[x], texts'[x], None)
               /\ Path(p) \in Clean /\ x \notin Subtree(to)
    <3>1. Path(p) \in Clean /\ x \in Paths
      BY <1>2, <2>1 DEF CleanIsAbove, Subtree, Clean
    <3>2. x # n /\ c # n /\ x \notin Subtree(to)
      BY <1>1, <1>2, <3>1, TreesApart
    <3>3. CASE x = c
      <4>1. EntryFits(entries[x], None)
        BY <1>1, <1>2, <2>1, <2>3, <3>3 DEF LeavesFit
      <4>2. texts'[x] = None /\ TextFits(None, None)
        BY <2>2, <3>2, <3>3, VfsConstants DEF TextFits
      <4> QED
        BY <3>1, <3>2, <3>3, <4>1, <4>2 DEF RowsFit
    <3>4. CASE x # c
      <4>1. IF x \in left THEN Holds(x, files[x]) ELSE Holds(x, None)
        BY <1>1, <1>2, <2>1, <2>3, <3>4 DEF LeavesFit
      <4> QED
        BY <2>2, <3>1, <3>2, <3>4, <4>1 DEF Holds
    <3> QED
      BY <3>3, <3>4
  <2>4. ASSUME NEW x \in Clean \cap Subtree(to), NEW y, y = Moved(x, to, Path(p))
        PROVE  /\ files[x] = None /\ Path(p) \in Clean
               /\ IF y \in Paths \ (left \ {c}) THEN RowsFit(entries[x], texts'[x], files[y])
                  ELSE RowsFit(entries[x], texts'[x], None)
               /\ y \in Paths => y \in Clean \cap Subtree(Path(p))
    <3>1. /\ Path(p) \in Clean /\ x \in Paths /\ Subtree(Path(p)) \subseteq Clean
          /\ y \in Paths => y \in Clean \cap Subtree(Path(p))
      BY <1>1, <1>2, <2>4, ComesFrom DEF Clean
    <3>2. c \in Clean /\ c # n /\ x # c /\ (x = n <=> y = c)
      BY <1>1, <1>2, <2>4, <3>1, TreesApart, ArrivesOnce
    <3>3. /\ files[x] = None
          /\ CASE y \notin Paths -> Holds(x, None)
               [] y \in Paths \ left -> Holds(x, files[y])
               [] y \in left /\ y = c -> EntryFits(entries[x], files[y]) /\ TextFits(texts[x], None)
               [] OTHER -> Holds(x, None)
      BY <1>1, <1>2, <2>1, <2>4 DEF ArrivesFit, AfterTarget
    <3>4. CASE x = n
      <4>1. EntryFits(entries[x], files[c]) /\ TextFits(texts[x], None)
        BY <1>2, <3>2, <3>3, <3>4
      <4>2. TextFits(texts[c], files[c])
        BY <1>1, <1>2, <2>1, <3>2 DEF LeavesFit
      <4>3. texts'[x] = texts[c]
        BY <2>2, <3>1, <3>2, <3>4, <4>1, VfsConstants DEF TextFits
      <4>4. RowsFit(entries[x], texts'[x], files[c])
        BY <4>1, <4>2, <4>3 DEF RowsFit
      <4> QED
        BY <1>2, <3>1, <3>2, <3>3, <3>4, <4>4
    <3>5. CASE x # n
      <4>1. texts'[x] = texts[x] /\ y # c
        BY <2>2, <3>1, <3>2, <3>5
      <4>2. IF y \in Paths \ left THEN Holds(x, files[y]) ELSE Holds(x, None)
        BY <1>2, <3>3, <4>1
      <4> QED
        BY <3>1, <3>3, <4>1, <4>2 DEF Holds
    <3> QED
      BY <3>4, <3>5
  <2>5. CASE left = {c}
    <3>1. Return(p, MovedAway(p))
      BY <1>4, <2>5 DEF GoOn
    <3>2. /\ procs' = [procs EXCEPT ![p] = Idle] /\ UNCHANGED <<overlapped, interrupted>>
          /\ files' = MovedAway(p)
      BY <3>1 DEF Return
    <3>a. p \in Procs /\ GoesOn(p) /\ procs'[p] = Idle
      BY <1>2, <3>2, EndGoesOn
    <3>3. GoesOn(p) /\ p \notin Busy' /\ SpoilsOwn(p) /\ Clean' = Clean
      BY <3>2, <3>a DEF Busy, At, Idle, SpoilsOwn, Clean
    <3> HIDE DEF c, n, left
    <3>4. /\ \A x \in Subtree(Path(p)) : files'[x] = None
          /\ \A x \in Paths \ Below(Req(p)) : files'[x] = files[x]
      BY <1>2, <3>2 DEF MovedAway, Subtree
    <3>5. ASSUME NEW x \in Clean \cap Subtree(to), NEW y, y = Moved(x, to, Path(p))
          PROVE  files'[x] = IF y \in Paths THEN files[y] ELSE None
      <4>1. x \notin Subtree(Path(p)) /\ files[x] = None /\ x \in Paths
        BY <2>3, <2>4, <3>5 DEF Clean
      <4> QED
        BY <3>2, <3>5, <4>1 DEF MovedAway
    <3>6. StaysBelow(p)
      BY <1>1, <1>2, <2>2, <3>4 DEF StaysBelow
    <3>7. TreesFit'
      <4> SUFFICES ASSUME NEW x \in Clean, files'[x] # None, NEW y \in Paths, IsStrictPrefix(y, x)
                   PROVE  files'[y] = "dir"
        BY <3>3 DEF TreesFit
      <4>1. x \in Paths /\ x \notin Subtree(Path(p)) /\ y \in Clean /\ y \notin Subtree(Path(p))
            /\ IsPrefix(y, x)
        <5>1. x \in Paths /\ x \notin Subtree(Path(p)) /\ y \in Clean /\ IsPrefix(y, x)
          BY <2>1, <3>4 DEF Clean, CleanIsAbove, IsStrictPrefix
        <5> QED
          BY <1>2, <5>1, PrefixOrder DEF Subtree
      <4>2. CASE x \in Subtree(to)
        <5> DEFINE m == Moved(x, to, Path(p))
        <5>1. m \in Paths /\ files'[x] = files[m]
          BY <3>5, <4>2
        <5>2. m \in Clean /\ files[m] # None
          BY <2>4, <4>2, <5>1
        <5>3. CASE y \in Subtree(to)
          <6> DEFINE k == Moved(y, to, Path(p))
          <6>1. k \in Paths /\ IsStrictPrefix(k, m)
            BY <1>2, <4>1, <5>1, <5>3, MovedAbove DEF Subtree
          <6>2. files[k] = "dir"
            BY <2>1, <5>2, <6>1 DEF TreesFit
          <6> HIDE DEF k
          <6>3. k = Moved(y, to, Path(p))
            BY DEF k
          <6> QED
            BY <3>5, <4>1, <5>3, <6>1, <6>2, <6>3
        <5>4. CASE y \notin Subtree(to)
          <6>1. IsStrictPrefix(y, to)
            BY <1>2, <4>1, <4>2, <5>4, PrefixOrder, PathTypes DEF Subtree, Comparable, IsStrictPrefix
          <6>2. Len(y) < Len(to) /\ Len(y) \in Nat /\ Len(to) \in Nat
            BY <1>2, <6>1, PrefixOrder, PathNames
          <6>3. Len(to) <= procs[p].parent /\ procs[p].parent \in Nat
            BY <1>1, <1>2, <2>1, ProcTypes DEF ParentsFit, AfterParent, Busy
          <6>4. files[y] = "dir"
            BY <1>2, <2>1, <4>1, <6>1, <6>2, <6>3 DEF ParentsFit
          <6> QED
            BY <1>2, <3>4, <4>1, <5>4, <6>4
        <5> QED
          BY <5>3, <5>4
      <4>3. CASE x \notin Subtree(to)
        <5>1. y \notin Subtree(to)
          BY <1>2, <4>1, <4>3, PrefixOrder DEF Subtree
        <5>2. files'[x] = files[x] /\ files'[y] = files[y]
          BY <1>2, <3>4, <4>1, <4>3, <5>1
        <5> QED
          BY <2>1, <5>2 DEF TreesFit
      <4> QED
        BY <4>2, <4>3
    <3>8. ASSUME NEW x \in Clean' \cap Below(Req(p))
          PROVE  RowsFit(entries'[x], texts'[x], files'[x])
      <4>1. CASE x \in Subtree(Path(p))
        BY <1>1, <2>3, <2>5, <3>3, <3>4, <3>8, <4>1
      <4>2. CASE x \in Subtree(to)
        <5>1. PICK y : y = Moved(x, to, Path(p))
          OBVIOUS
        <5>2. files'[x] = IF y \in Paths THEN files[y] ELSE None
          BY <3>3, <3>5, <3>8, <4>2, <5>1
        <5>3. IF y \in Paths THEN RowsFit(entries[x], texts'[x], files[y])
              ELSE RowsFit(entries[x], texts'[x], None)
          BY <2>4, <2>5, <3>3, <3>8, <4>2, <5>1
        <5> QED
          BY <1>1, <5>2, <5>3
      <4> QED
        BY <1>2, <3>8, <4>1, <4>2
    <3> QED
      BY <1>1, <3>3, <3>6, <3>7, <3>8, StepClean
  <2>6. CASE left # {c}
    <3> DEFINE l == left \ {c}
    <3>1. /\ procs' = [procs EXCEPT ![p] = [procs[p] EXCEPT !.left = l, !.at = "moveEntry"]]
          /\ UNCHANGED history
      BY <1>2, <1>4, <2>6 DEF GoOn, TypeOK
    <3>2. /\ procs'[p] = [procs[p] EXCEPT !.left = l, !.at = "moveEntry"]
          /\ \A q \in Procs \ {p} : procs'[q] = procs[q]
          /\ procs[p] \in Proc /\ procs' \in [Procs -> Proc] /\ PointFits(procs'[p])
      BY <1>2, <3>1 DEF VfsInv, TypeOK, PointsFit
    <3>3. /\ procs'[p].at = "moveEntry" /\ procs'[p].req = procs[p].req /\ procs'[p].left = l
          /\ procs'[p].wrote = procs[p].wrote /\ procs'[p].parent = procs[p].parent
      BY <3>2 DEF Proc
    <3>4. GoesOn(p) /\ p \in Busy'
      BY <3>2, <3>3 DEF GoesOn, Busy, At
    <3>5. /\ Req(p)' = Req(p) /\ Path(p)' = Path(p) /\ Target(p)' = Target(p)
          /\ UNCHANGED <<files, overlapped, interrupted>>
          /\ Clean' = Clean /\ \A a : At(p, a)' <=> a = "moveEntry"
      BY <3>1, <3>3 DEF Req, Path, Target, At, Clean, history
    <3>6. SpoilsOwn(p) /\ StaysBelow(p)
      BY <1>1, <1>2, <2>2, <3>5 DEF SpoilsOwn, StaysBelow
    <3>7. TreesFit'
      BY <2>1, <3>5, TreesStay
    <3> HIDE DEF l
    <3>8. LeavesFit(p)'
      <4>1. ASSUME NEW x \in Clean \cap Subtree(Path(p))
            PROVE  IF x \in l THEN RowsFit(entries[x], texts'[x], files[x])
                   ELSE RowsFit(entries[x], texts'[x], None)
        BY <2>3, <4>1 DEF l
      <4> HIDE DEF c, n, left, to
      <4> QED
        BY <1>1, <3>3, <3>5, <4>1 DEF LeavesFit, Holds
    <3>9. ArrivesFit(p)'
      <4>1. ASSUME NEW x \in Clean, x \in Subtree(to), NEW y, y = Moved(x, to, Path(p))
            PROVE  /\ files[x] = None
                   /\ IF y \in Paths \ l THEN RowsFit(entries[x], texts'[x], files[y])
                      ELSE RowsFit(entries[x], texts'[x], None)
        BY <2>4, <4>1 DEF l
      <4>2. Path(p) \in Clean => ~IsPrefix(to, Path(p))
        BY <1>1, <1>2, <2>1 DEF ArrivesFit, AfterTarget
      <4> HIDE DEF c, n, left, to
      <4> QED
        BY <1>1, <1>2, <3>3, <3>5, <4>1, <4>2 DEF ArrivesFit, Holds, to
    <3>10. /\ MovesWhole(p)' /\ ParentsFit(p)' /\ WrittenFits(p)' /\ PutFits(p)' /\ SourceFits(p)'
      BY <1>1, <1>2, <2>1, <3>3, <3>5
      DEF MovesWhole, ParentsFit, WrittenFits, PutFits, SourceFits, AfterParent,
          MayHaveWritten, Writing
    <3> QED
      BY <1>1, <3>4, <3>6, <3>7, <3>8, <3>9, <3>10, StepClean DEF RequestFits
  <2> QED
    BY <2>5, <2>6
<1> QED
  BY <1>3, <1>4 DEF MoveText

\* A new request takes the paths it shares with others away, and finds the others clean.
LEMMA BeginClean ==
  ASSUME VfsInv, VfsInv', CleanInv, NEW p \in Procs, NEW req \in Requested, Begin(p, req)
  PROVE  CleanInv'
<1> DEFINE met == {q \in Busy : Meet(req, Req(q))}
           new == [Idle EXCEPT !.at = FirstStep(req), !.req = req]
<1>1. /\ procs[p].at = "idle" /\ procs' = [procs EXCEPT ![p] = new] /\ TypeOK
      /\ UNCHANGED <<entries, texts, files>>
  BY DEF Begin, At, tables, VfsInv
<1>2. /\ procs'[p] = new /\ \A q \in Procs \ {p} : procs'[q] = procs[q]
      /\ new.at = FirstStep(req) /\ new.req = req /\ new.left = {} /\ ~new.wrote /\ new.parent = 1
      /\ FirstStep(req) \in {"parent", "stat"} /\ (req.op = "move" => FirstStep(req) = "stat")
  BY <1>1 DEF TypeOK, Idle, FirstStep
<1> HIDE DEF new
<1>3. /\ p \notin Busy /\ Busy' = Busy \cup {p} /\ Req(p)' = req
      /\ \A q \in Busy : q # p /\ procs'[q] = procs[q] /\ Req(q)' = Req(q)
  BY <1>1, <1>2 DEF Busy, At, Req
<1>4. /\ overlapped \subseteq overlapped' /\ interrupted \subseteq interrupted'
      /\ interrupted' \subseteq interrupted \cup Below(req)
      /\ met # {} => Below(req) \subseteq overlapped'
      /\ \A q \in met : Below(Req(q)) \subseteq overlapped'
      /\ \A x \in overlapped' : x \in overlapped \/ x \in Below(req)
                                \/ \E q \in met : x \in Below(Req(q))
  BY DEF Begin
<1>5. /\ Clean' \subseteq Clean
      /\ \A x \in Clean : x \in Clean' \/ x \in Below(req) \/ \E q \in met : x \in Below(Req(q))
  BY <1>4 DEF Clean
<1>6. \A q \in Busy : Req(q) \in Requested
  BY BusyTypes DEF VfsInv
<1>7. ASSUME NEW r1 \in Requested, NEW r2 \in Requested, NEW x \in Below(r1) \cap Below(r2)
      PROVE  Meet(r1, r2)
  <2>1. PICK s1 \in Roots(r1) : IsPrefix(s1, x)
    BY BelowFacts
  <2>2. PICK s2 \in Roots(r2) : IsPrefix(s2, x)
    BY BelowFacts
  <2>3. s1 \in Paths /\ s2 \in Paths /\ x \in Paths
    BY BelowFacts
  <2> QED
    BY <2>1, <2>2, <2>3, PrefixOrder DEF Meet
<1>8. CleanIsAbove /\ TreesFit /\ UnownedFits /\ \A q \in Busy : RequestFits(q)
  BY DEF CleanInv
<1>9. CleanIsAbove'
  <2> SUFFICES ASSUME NEW x \in Clean', NEW y \in Paths, IsPrefix(y, x), y \notin Clean'
               PROVE  FALSE
    BY DEF CleanIsAbove
  <2>1. x \in Clean /\ y \in Clean /\ x \in Paths
    BY <1>5, <1>8 DEF CleanIsAbove, Clean
  <2>2. CASE y \in Below(req)
    <3>1. x \in Below(req)
      BY <2>1, <2>2, BelowFacts
    <3>2. PICK z : z \in overlapped' \cup interrupted' /\ z = y
      BY <2>1 DEF Clean
    <3> QED
      BY <2>1, <3>1, <2>2 DEF Begin, Clean
  <2>3. CASE \E q \in met : y \in Below(Req(q))
    <3>1. PICK q \in met : y \in Below(Req(q))
      BY <2>3
    <3>2. x \in Below(Req(q))
      BY <1>6, <2>1, <3>1, BelowFacts
    <3> QED
      BY <1>4, <3>1, <3>2 DEF Clean
  <2> QED
    BY <1>5, <2>1, <2>2, <2>3
<1>10. TreesFit'
  BY <1>1, <1>5, <1>8, TreesStay
<1>11. UnownedFits'
  <2> SUFFICES ASSUME NEW x \in Clean', \A q \in Busy' : x \notin Below(Req(q)')
               PROVE  RowsFit(entries[x], texts[x], files[x])
    BY <1>1 DEF UnownedFits, Holds, Below
  <2>1. x \in Clean /\ \A q \in Busy : x \notin Below(Req(q))
    BY <1>3, <1>5
  <2> QED
    BY <1>8, <2>1 DEF UnownedFits, Holds
<1>12. ASSUME NEW q \in Busy PROVE RequestFits(q)'
  <2>1. /\ Req(q)' = Req(q) /\ Path(q)' = Path(q) /\ Target(q)' = Target(q)
        /\ Current(q)' = Current(q) /\ procs'[q] = procs[q] /\ \A a : At(q, a)' <=> At(q, a)
    BY <1>3 DEF Req, Path, Target, Current, At
  <2>2. Below(Req(q)) \cap Clean' = {} \/ Clean \cap Below(Req(q)) \subseteq Clean'
    <3>1. CASE q \in met
      BY <1>4, <3>1 DEF Clean
    <3>2. CASE q \notin met
      <4> SUFFICES ASSUME NEW x \in Clean \cap Below(Req(q)), x \notin Clean' PROVE FALSE
        OBVIOUS
      <4>1. x \notin Below(req)
        BY <1>6, <1>7, <3>2
      <4>2. PICK r \in met : x \in Below(Req(r))
        BY <1>5, <4>1
      <4>3. r \in Busy /\ r # q /\ Meet(Req(r), Req(q))
        BY <1>6, <1>7, <3>2, <4>2
      <4>4. Below(Req(q)) \subseteq overlapped
        BY <4>3 DEF VfsInv, HistoryFits
      <4> QED
        BY <4>4 DEF Clean
    <3> QED
      BY <3>1, <3>2
  <2>3. /\ MovesWhole(q) /\ ParentsFit(q) /\ WrittenFits(q) /\ PutFits(q)
        /\ LeavesFit(q) /\ ArrivesFit(q) /\ SourceFits(q)
    BY <1>8 DEF RequestFits
  <2>4. MovesWhole(q)'
    <3>1. Subtree(Path(q)) \subseteq Below(Req(q))
      BY BusyTypes, BelowFacts DEF VfsInv
    <3> QED
      BY <1>5, <2>1, <2>2, <2>3, <3>1 DEF MovesWhole
  <2>5. ParentsFit(q)'
    BY <1>1, <1>5, <2>1, <2>3 DEF ParentsFit
  <2>6. WrittenFits(q)'
    BY <1>1, <1>5, <2>1, <2>3 DEF WrittenFits, Holds
  <2>7. PutFits(q)' /\ SourceFits(q)'
    BY <1>1, <1>5, <2>1, <2>3 DEF PutFits, SourceFits, Holds
  <2>8. LeavesFit(q)'
    BY <1>1, <1>5, <2>1, <2>3 DEF LeavesFit, Holds
  <2>9. ArrivesFit(q)'
    BY <1>1, <1>5, <2>1, <2>3 DEF ArrivesFit, Holds
  <2> QED
    BY <2>4, <2>5, <2>6, <2>7, <2>8, <2>9 DEF RequestFits
<1>13. RequestFits(p)'
  <2>1. /\ procs'[p].at \in {"parent", "stat"} /\ procs'[p].left = {} /\ ~procs'[p].wrote
        /\ procs'[p].parent = 1 /\ Req(p)' = req /\ Path(p)' = req.path
        /\ req.op = "move" => procs'[p].at = "stat"
    BY <1>2 DEF Req, Path
  <2>2. MovesWhole(p)'
    <3> SUFFICES ASSUME req.op = "move"
                 PROVE  Subtree(req.path) \subseteq Clean' \/ Below(req) \cap Clean' = {}
      BY <2>1 DEF MovesWhole
    <3>1. CASE (Subtree(req.path) \cap (overlapped' \cup interrupted)) # {}
      <4>1. Below(req) \subseteq interrupted'
        BY <3>1 DEF Begin
      <4> QED
        BY <4>1 DEF Clean
    <3>2. CASE (Subtree(req.path) \cap (overlapped' \cup interrupted)) = {}
      <4>1. interrupted' = interrupted
        BY <3>2 DEF Begin
      <4> QED
        BY <3>2, <4>1 DEF Clean, Subtree
    <3> QED
      BY <3>1, <3>2
  <2>3. ParentsFit(p)'
    <3>1. \A y \in Clean' : Len(y) \in Nat /\ Len(y) >= 1
      BY PathNames DEF Clean
    <3> QED
      BY <2>1, <3>1 DEF ParentsFit, At, AfterParent
  <2>4. WrittenFits(p)'
    <3>1. ASSUME NEW x \in Clean' \cap Below(req) PROVE RowsFit(entries[x], texts[x], files[x])
      <4>1. ASSUME NEW q \in Busy, x \in Below(Req(q)) PROVE FALSE
        <5>1. q \in met
          BY <1>6, <1>7, <3>1, <4>1
        <5> QED
          BY <1>4, <3>1, <5>1 DEF Clean
      <4>2. x \in Clean
        BY <1>5, <3>1
      <4> QED
        BY <1>8, <4>1, <4>2 DEF UnownedFits, Holds
    <3>2. Below(Req(p))' = Below(req)
      BY <2>1 DEF Below, Subtree
    <3> QED
      BY <1>1, <2>1, <3>1, <3>2 DEF WrittenFits, Holds, Writing
  <2>5. PutFits(p)' /\ LeavesFit(p)' /\ ArrivesFit(p)' /\ SourceFits(p)'
    BY <2>1 DEF PutFits, LeavesFit, ArrivesFit, SourceFits, At, AfterTarget
  <2> QED
    BY <2>2, <2>3, <2>4, <2>5 DEF RequestFits
<1> QED
  BY <1>3, <1>9, <1>10, <1>11, <1>12, <1>13 DEF CleanInv

LEMMA InitClean ==
  ASSUME Init
  PROVE  CleanInv
<1>1. Busy = {}
  BY DEF Init, Busy, At, Idle
<1>2. Clean = Paths
  BY DEF Init, Clean
<1>3. CleanIsAbove /\ TreesFit
  BY <1>2 DEF CleanIsAbove, TreesFit, Init
<1>4. UnownedFits
  <2>1. RowsFit(None, None, None)
    BY VfsConstants DEF RowsFit, EntryFits, TextFits
  <2> QED
    BY <1>2, <2>1 DEF UnownedFits, Holds, Init
<1> QED
  BY <1>1, <1>3, <1>4 DEF CleanInv

LEMMA StutterClean ==
  ASSUME CleanInv, UNCHANGED vars
  PROVE  CleanInv'
<1>1. UNCHANGED <<entries, texts, procs, files, overlapped, interrupted>>
  BY DEF vars, tables, history
<1>2. /\ Clean' = Clean /\ Busy' = Busy
      /\ \A q : /\ Req(q)' = Req(q) /\ Path(q)' = Path(q) /\ Target(q)' = Target(q)
                /\ Current(q)' = Current(q) /\ \A a : At(q, a)' <=> At(q, a)
  BY <1>1 DEF Clean, Busy, At, Req, Path, Target, Current
<1>3. CleanIsAbove' /\ TreesFit' /\ UnownedFits'
  BY <1>1, <1>2 DEF CleanInv, CleanIsAbove, TreesFit, UnownedFits, Holds
<1>4. ASSUME NEW q \in Busy PROVE RequestFits(q)'
  <2>1. RequestFits(q)
    BY DEF CleanInv
  <2>2. MovesWhole(q)' /\ ParentsFit(q)' /\ WrittenFits(q)' /\ PutFits(q)' /\ SourceFits(q)'
    BY <1>1, <1>2, <2>1
    DEF RequestFits, MovesWhole, ParentsFit, WrittenFits, PutFits, SourceFits, Holds
  <2>3. LeavesFit(q)'
    BY <1>1, <1>2, <2>1 DEF RequestFits, LeavesFit, Holds
  <2>4. ArrivesFit(q)'
    BY <1>1, <1>2, <2>1 DEF RequestFits, ArrivesFit, Holds
  <2> QED
    BY <2>2, <2>3, <2>4 DEF RequestFits
<1> QED
  BY <1>2, <1>3, <1>4 DEF CleanInv

\* A path that holds what was made of it reads back.
LEMMA HeldReadsBack ==
  ASSUME VfsInv, NEW x \in Paths, Holds(x, files[x]), files[x] \notin shared
  PROVE  ReadFile(x) = files[x]
<1> DEFINE c == files[x]
           e == entries[x]
<1>1. /\ e \in Entry \cup {None} /\ texts[x] \in Text \cup {None}
      /\ c \in Small \cup Large \cup {"dir", None} /\ BlobsAreKept
  BY DEF VfsInv, TypeOK, Contents, BlobsFit
<1>2. /\ None \notin Small \cup Large /\ "dir" \notin Small \cup Large /\ None # "dir"
      /\ Small \cap Large = {} /\ None \notin Entry /\ None \notin Text
  BY VfsConstants
<1>3. EntryFits(e, c) /\ TextFits(texts[x], c)
  BY DEF Holds, RowsFit
<1>4. CASE c = None
  <2>1. e = None /\ ~IsFile(x) /\ ~IsDir(x)
    BY <1>3, <1>4 DEF EntryFits, IsFile, IsDir
  <2> QED
    BY <1>4, <2>1 DEF ReadFile
<1>5. CASE c = "dir"
  <2>1. e # None /\ e.kind = "dir"
    BY <1>2, <1>3, <1>5 DEF EntryFits
  <2>2. IsDir(x) /\ ~IsFile(x)
    BY <2>1 DEF IsDir, IsFile
  <2> QED
    BY <1>5, <2>1, <2>2 DEF ReadFile
<1>6. CASE c \in Small \cup Large
  <2>1. e # None /\ e.kind = "file" /\ e.key = IF c \in Large THEN c ELSE None
    <3>1. e # None
      BY <1>2, <1>3, <1>6 DEF EntryFits
    <3>2. e.kind # "dir" /\ e.key = IF c \in Large THEN c ELSE None
      BY <1>2, <1>3, <1>6, <3>1 DEF EntryFits
    <3> QED
      BY <1>1, <3>1, <3>2 DEF Entry
  <2>2. IsFile(x) /\ ~IsDir(x)
    BY <2>1 DEF IsFile, IsDir
  <2>3. CASE c \in Small
    <3>1. texts[x] # None /\ texts[x].content = c
      BY <1>3, <2>3 DEF TextFits
    <3> QED
      BY <2>1, <2>2, <3>1 DEF ReadFile
  <2>4. CASE c \in Large
    <3>1. texts[x] = None
      BY <1>2, <1>3, <2>4 DEF TextFits
    <3>2. e.key = c /\ c \in blobs
      BY <1>1, <2>1, <2>2, <2>4 DEF BlobsAreKept, Referenced
    <3> QED
      BY <2>1, <2>2, <3>1, <3>2 DEF ReadFile
  <2> QED
    BY <1>6, <2>3, <2>4
<1> QED
  BY <1>1, <1>4, <1>5, <1>6

\* A clean path that no request is at work on reads back what the requests made of it.
THEOREM CleanPathsStay == Spec => []CleanPathsReadBack
<1>1. Init => CleanInv
  BY InitClean
<1>2. CleanInv /\ VfsInv /\ VfsInv' /\ [Next]_vars => CleanInv'
  <2> SUFFICES ASSUME CleanInv, VfsInv, VfsInv', [Next]_vars PROVE CleanInv'
    OBVIOUS
  <2>1. CASE UNCHANGED vars
    BY <2>1, StutterClean
  <2>2. ASSUME NEW p \in Procs, Step(p) PROVE CleanInv'
    BY <2>2, BeginClean, FindParentClean, MakeParentClean, LookUpClean, MakeDirectoryClean,
       PutBlobClean, UpsertFileEntryClean, WriteTextContentClean, InsertFileRevisionClean,
       CleanUpClean, ThrowsClean, StatClean, ListDirectChildrenClean, FindTargetClean,
       ListTreeClean, DropTextClean, DropEntryClean, MoveEntryClean, MoveTextClean, FailsClean
    DEF Step
  <2> QED
    BY <2>1, <2>2 DEF Next
<1>3. CleanInv /\ VfsInv => CleanPathsReadBack
  <2> SUFFICES ASSUME CleanInv, VfsInv, NEW x \in Paths, x \notin overlapped \cup interrupted,
                      files[x] \notin shared, IsQuiet(x)
               PROVE  ReadFile(x) = files[x]
    BY DEF CleanPathsReadBack
  <2>1. \A q \in Busy : x \notin Below(Req(q))
    <3>1. ASSUME NEW q \in Busy, x \in Below(Req(q)) PROVE FALSE
      <4>1. PICK r \in Roots(Req(q)) : IsPrefix(r, x)
        BY <3>1 DEF Below, Subtree
      <4> QED
        BY <4>1 DEF IsQuiet, Comparable
    <3> QED
      BY <3>1
  <2>2. Holds(x, files[x])
    BY <2>1 DEF CleanInv, UnownedFits, Clean
  <2> QED
    BY <2>2, HeldReadsBack
<1> QED
  BY <1>1, <1>2, <1>3, VfsInvariant, PTL DEF Spec

=============================================================================
