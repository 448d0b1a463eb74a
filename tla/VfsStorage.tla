------------------------------ MODULE VfsStorage ------------------------------
(***************************************************************************)
(* The virtual file system of one agent: src/vfs/storage/*.ts over the     *)
(* tables vfs_entries, vfs_contents and vfs_revisions of D1 and a blob     *)
(* storage.                                                                *)
(*                                                                         *)
(* A request writes, makes a directory, deletes or moves.  A step is one   *)
(* statement or one blob operation: nothing larger is atomic, and requests *)
(* of tools, skills and administrators run side by side.  A path is the    *)
(* sequence of its names, a content stands for its checksum and blob key.  *)
(* Mime types, times, authors and entries older than revisions (legacy_r2) *)
(* are left out, and so is that LIKE ignores case.                         *)
(***************************************************************************)
EXTENDS Naturals, Sequences, FiniteSets, SequencesExt

CONSTANTS
  None,       \* no entry, text or content
  Procs,      \* requests that may be under way at one time
  Paths,      \* paths, with their parents
  Small,      \* contents that are stored in D1
  Large,      \* contents that are stored as blobs
  Requested,  \* the requests that may be made
  MaxOps,     \* bound of the model: requests
  MaxFaults   \* bound of the model: rejected awaits and lost Workers

VARIABLES
  entries,     \* vfs_entries: kind, version and r2_key by path
  texts,       \* vfs_contents: content and version by path
  revisions,   \* vfs_revisions
  blobs,       \* the contents the blob storage has
  procs,       \* requests under way
  ops,         \* requests so far
  faults,      \* faults so far
  files,       \* what requests that were alone have made of each path (history)
  overlapped,  \* paths that two requests were at work on at once (history)
  interrupted, \* paths that a request which failed half way was at work on (history)
  reused,      \* paths that were deleted or moved to or from (history)
  shared       \* contents that two requests wrote at once (history)

tables  == <<entries, texts, revisions, blobs>>
counts  == <<ops, faults>>
history == <<files, overlapped, interrupted, reused, shared>>
vars    == <<tables, procs, counts, history>>

Contents == Small \cup Large
Request  == [op : {"put", "mkdir", "delete", "move"}, path : Paths, to : Paths,
             content : Contents \cup {None}, recursive : BOOLEAN]
Entry    == [kind : {"file", "dir"}, version : 1 .. (MaxOps + 1), key : Large \cup {None}]
Text     == [content : Small, version : 1 .. (MaxOps + 1)]
Revision == [path : Paths, version : 1 .. (MaxOps + 1), content : Contents]
Proc     == [at : {"idle", "parent", "makeParent", "lookup", "make", "blob", "entry", "text",
                   "revision", "cleanup", "unlink", "stat", "children", "list", "dropText",
                   "dropEntry", "target", "moveEntry", "moveText"},
             req : Requested \cup {None}, parent : Nat, version : 1 .. (MaxOps + 1),
             left : SUBSET Paths, wrote : BOOLEAN]

\* Paths are sequences of names and have their parents; the root has no row and no request
\* (isRootPath) and is not one of them.  Requests that are refused before their first
\* await are left out: so no directory is moved into itself.
ASSUME VfsConstants ==
  /\ \A p \in Paths : /\ p \in Seq(UNION {Range(q) : q \in Paths}) \ {<<>>}
                      /\ \A i \in 1 .. Len(p) : SubSeq(p, 1, i) \in Paths
  /\ Small \cap Large = {} /\ {None, "dir"} \cap (Small \cup Large) = {} /\ None # "dir"
  /\ None \notin Entry \cup Text \cup Requested
  /\ \A req \in Requested : /\ req \in Request
                            /\ req.op = "put" => req.content \in Contents
                            /\ req.op = "move" => ~IsPrefix(req.path, req.to)
  /\ {MaxOps, MaxFaults} \subseteq Nat

Idle == [at |-> "idle", req |-> None, parent |-> 1, version |-> 1, left |-> {}, wrote |-> FALSE]

TypeOK ==
  /\ entries \in [Paths -> Entry \cup {None}]
  /\ texts \in [Paths -> Text \cup {None}]
  /\ revisions \subseteq Revision
  /\ blobs \subseteq Large
  /\ procs \in [Procs -> Proc]
  /\ ops \in 0 .. MaxOps /\ faults \in 0 .. MaxFaults
  /\ files \in [Paths -> Contents \cup {"dir", None}]
  /\ overlapped \cup interrupted \cup reused \subseteq Paths
  /\ shared \subseteq Large

Init ==
  /\ entries = [p \in Paths |-> None]
  /\ texts = [p \in Paths |-> None]
  /\ revisions = {}
  /\ blobs = {}
  /\ procs = [p \in Procs |-> Idle]
  /\ ops = 0 /\ faults = 0
  /\ files = [p \in Paths |-> None]
  /\ overlapped = {} /\ interrupted = {} /\ reused = {} /\ shared = {}

-----------------------------------------------------------------------------
\* Paths and requests.

Subtree(p)      == {q \in Paths : IsPrefix(p, q)}
Comparable(p,q) == IsPrefix(p, q) \/ IsPrefix(q, p)

\* Where a path below from goes when from is moved to to.
Moved(p, from, to) == to \o SubSeq(p, Len(from) + 1, Len(p))

Roots(req) == IF req.op = "move" THEN {req.path, req.to} ELSE {req.path}
Below(req) == UNION {Subtree(p) : p \in Roots(req)}

Req(p)   == procs[p].req
Path(p)  == procs[p].req.path
At(p, a) == procs[p].at = a
Busy     == {p \in Procs : ~At(p, "idle")}

Meet(req1, req2) == \E p \in Roots(req1), q \in Roots(req2) : Comparable(p, q)

IsFile(p) == entries[p] # None /\ entries[p].kind = "file"
IsDir(p)  == entries[p] # None /\ entries[p].kind = "dir"

Goto(p, a) == procs' = [procs EXCEPT ![p].at = a]
Writes(p, a) == procs' = [procs EXCEPT ![p].at = a, ![p].wrote = TRUE]

\* The request throws.
Throw(p) ==
  /\ procs' = [procs EXCEPT ![p] = Idle]
  /\ interrupted' = IF procs[p].wrote THEN interrupted \cup Below(Req(p)) ELSE interrupted
  /\ UNCHANGED <<files, overlapped, reused, shared>>

\* The request ends well, having made of the paths what f says.
Return(p, f) ==
  /\ procs' = [procs EXCEPT ![p] = Idle]
  /\ files' = f
  /\ UNCHANGED <<overlapped, interrupted, reused, shared>>

Fault ==
  /\ faults < MaxFaults
  /\ faults' = faults + 1

\* Parents are looked at first, but for delete and move, which look at the path itself.
FirstStep(req) == IF req.op \in {"put", "mkdir"} THEN "parent" ELSE "stat"

Begin(p, req) ==
  /\ At(p, "idle")
  /\ ops < MaxOps
  /\ ops' = ops + 1
  /\ procs' = [procs EXCEPT ![p] = [Idle EXCEPT !.at = FirstStep(req), !.req = req]]
  /\ LET met == {q \in Busy : Meet(req, Req(q))} IN
     overlapped' = IF met = {} THEN overlapped
                   ELSE overlapped \cup Below(req) \cup UNION {Below(Req(q)) : q \in met}
  /\ interrupted' = IF req.op = "move" /\ (Subtree(req.path) \cap (overlapped' \cup interrupted)) # {}
                      THEN interrupted \cup Below(req) ELSE interrupted
  /\ reused' = IF req.op \in {"delete", "move"} THEN reused \cup Below(req) ELSE reused
  /\ shared' = IF \E q \in Busy : Req(q).op = "put" /\ Req(q).content = req.content
                 THEN shared \cup ({req.content} \cap Large) ELSE shared
  /\ UNCHANGED <<tables, faults, files>>

-----------------------------------------------------------------------------
\* ensureParentDirectories: one directory after the other is looked for and made.

Target(p) == IF Req(p).op = "move" THEN Req(p).to ELSE Path(p)
Parent(p) == SubSeq(Target(p), 1, procs[p].parent)

\* What follows when every parent is there.
AfterParents(p) ==
  CASE Req(p).op \in {"put", "mkdir"}             -> "lookup"
    [] Req(p).op = "move" /\ procs[p].left = {}   -> "list"
    [] Req(p).op = "move" /\ procs[p].left # {}   -> "moveEntry"

NextParent(p) == procs' = [procs EXCEPT ![p].parent = @ + 1, ![p].at = "parent"]

FindParent(p) ==
  /\ At(p, "parent")
  /\ IF procs[p].parent >= Len(Target(p))
       THEN Goto(p, AfterParents(p)) /\ UNCHANGED history
       ELSE IF IsFile(Parent(p)) THEN Throw(p)
       ELSE IF IsDir(Parent(p)) THEN NextParent(p) /\ UNCHANGED history
       ELSE Goto(p, "makeParent") /\ UNCHANGED history
  /\ UNCHANGED <<tables, counts>>

\* insertDirectory: the path is unique, so it throws when there is an entry by now.
InsertDirectory(d) ==
  /\ entries' = [entries EXCEPT ![d] = [kind |-> "dir", version |-> 1, key |-> None]]
  /\ files' = [files EXCEPT ![d] = "dir"]
  /\ UNCHANGED <<texts, revisions, blobs, overlapped, interrupted, reused, shared>>

MakeParent(p) ==
  /\ At(p, "makeParent")
  /\ IF entries[Parent(p)] # None
       THEN Throw(p) /\ UNCHANGED tables
       ELSE InsertDirectory(Parent(p)) /\ NextParent(p)
  /\ UNCHANGED counts

-----------------------------------------------------------------------------
\* createVfsDirectory and putVfsFile.

\* shouldStoreTextInD1
StoredInD1(c) == c \in Small

\* Mutant: the version of the file stays.
KeepsVersion(e) == IF e = None THEN 1 ELSE e.version

NextVersion(e) == IF e = None THEN 1 ELSE e.version + 1

LookUp(p) ==
  /\ At(p, "lookup")
  /\ CASE Req(p).op = "mkdir" /\ IsFile(Path(p)) -> Throw(p)
       [] Req(p).op = "mkdir" /\ IsDir(Path(p))  -> Return(p, files)
       [] Req(p).op = "mkdir" /\ entries[Path(p)] = None -> Goto(p, "make") /\ UNCHANGED history
       [] Req(p).op = "put" /\ IsDir(Path(p))    -> Throw(p)
       [] Req(p).op = "put" /\ ~IsDir(Path(p))   ->
            /\ procs' = [procs EXCEPT ![p].at = IF StoredInD1(Req(p).content) THEN "entry" ELSE "blob",
                                      ![p].version = NextVersion(entries[Path(p)])]
            /\ UNCHANGED history
  /\ UNCHANGED <<tables, counts>>

MakeDirectory(p) ==
  /\ At(p, "make")
  /\ IF entries[Path(p)] # None
       THEN Throw(p) /\ UNCHANGED tables
       ELSE InsertDirectory(Path(p)) /\ procs' = [procs EXCEPT ![p] = Idle]
  /\ UNCHANGED counts

PutBlob(p) ==
  /\ At(p, "blob")
  /\ blobs' = blobs \cup {Req(p).content}
  /\ Goto(p, "entry")
  /\ UNCHANGED <<entries, texts, revisions, counts, history>>

\* upsertFileEntry: whatever is at the path becomes a file.
UpsertFileEntry(p) ==
  /\ At(p, "entry")
  /\ entries' = [entries EXCEPT ![Path(p)] =
       [kind |-> "file", version |-> procs[p].version,
        key |-> IF StoredInD1(Req(p).content) THEN None ELSE Req(p).content]]
  /\ Writes(p, "text")
  /\ UNCHANGED <<texts, revisions, blobs, counts, history>>

\* Mutant: the text of a file that became large is left.
LeavesText(p) ==
  IF StoredInD1(Req(p).content) THEN [content |-> Req(p).content, version |-> procs[p].version]
  ELSE texts[Path(p)]

\* upsertTextContent or deleteTextContent.
WrittenText(p) ==
  IF StoredInD1(Req(p).content) THEN [content |-> Req(p).content, version |-> procs[p].version]
  ELSE None

WriteTextContent(p) ==
  /\ At(p, "text")
  /\ texts' = [texts EXCEPT ![Path(p)] = WrittenText(p)]
  /\ Goto(p, "revision")
  /\ UNCHANGED <<entries, revisions, blobs, counts, history>>

InsertFileRevision(p) ==
  /\ At(p, "revision")
  /\ revisions' = revisions \cup
       {[path |-> Path(p), version |-> procs[p].version, content |-> Req(p).content]}
  /\ Return(p, [files EXCEPT ![Path(p)] = Req(p).content])
  /\ UNCHANGED <<entries, texts, blobs, counts>>

Referenced(c) ==
  \/ \E q \in Paths : IsFile(q) /\ entries[q].key = c
  \/ \E r \in revisions : r.content = c

\* Mutant: the blob of a write that failed is always deleted.
NeverReferenced(c) == FALSE

\* The query of cleanupUnreferencedBlob.
IsReferenced(c) == Referenced(c)

\* cleanupUnreferencedBlob: the query, then the deletion; the write throws after them.
CleanUp(p) ==
  /\ At(p, "cleanup")
  /\ IF IsReferenced(Req(p).content)
       THEN Throw(p)
       ELSE Goto(p, "unlink") /\ UNCHANGED history
  /\ UNCHANGED <<tables, counts>>

Unlink(p) ==
  /\ At(p, "unlink")
  /\ blobs' = blobs \ {Req(p).content}
  /\ Throw(p)
  /\ UNCHANGED <<entries, texts, revisions, counts>>

-----------------------------------------------------------------------------
\* deleteVfsEntry and moveVfsEntry.

Children(d) == {q \in Subtree(d) : entries[q] # None /\ Len(q) = Len(d) + 1}
Tree(d)     == {q \in Subtree(d) : entries[q] # None}

\* getVfsEntry of the path.
Stat(p) ==
  /\ At(p, "stat")
  /\ IF entries[Path(p)] = None THEN Throw(p)
     ELSE /\ procs' = [procs EXCEPT
               ![p].at = IF Req(p).op = "move" THEN "target"
                         ELSE IF IsDir(Path(p)) THEN "children" ELSE "dropText",
               ![p].left = IF IsDir(Path(p)) THEN {} ELSE {Path(p)}]
          /\ UNCHANGED history
  /\ UNCHANGED <<tables, counts>>

ListDirectChildren(p) ==
  /\ At(p, "children")
  /\ IF Children(Path(p)) # {} /\ ~Req(p).recursive
       THEN Throw(p)
       ELSE Goto(p, "list") /\ UNCHANGED history
  /\ UNCHANGED <<tables, counts>>

\* findVfsEntry of the path to move to.
FindTarget(p) ==
  /\ At(p, "target")
  /\ IF entries[Req(p).to] # None
       THEN Throw(p)
       ELSE Goto(p, "parent") /\ UNCHANGED history
  /\ UNCHANGED <<tables, counts>>

Deleted(p)   == [q \in Paths |-> IF q \in Subtree(Path(p)) THEN None ELSE files[q]]
MovedAway(p) ==
  [q \in Paths |->
     IF q \in Subtree(Path(p)) THEN None
     ELSE IF q \in Subtree(Req(p).to) /\ Moved(q, Req(p).to, Path(p)) \in Paths
       THEN files[Moved(q, Req(p).to, Path(p))]
     ELSE files[q]]

\* listVfsTree, directories before what is in them.
ListTree(p) ==
  /\ At(p, "list")
  /\ IF Tree(Path(p)) = {}
       THEN Return(p, IF Req(p).op = "move" THEN MovedAway(p) ELSE Deleted(p))
       ELSE /\ procs' = [procs EXCEPT ![p].left = Tree(Path(p)),
                                      ![p].at = IF Req(p).op = "move" THEN "moveEntry" ELSE "dropText"]
            /\ UNCHANGED history
  /\ UNCHANGED <<tables, counts>>

\* The path whose turn it is.
Current(p) == CHOOSE q \in procs[p].left : \A r \in procs[p].left : ~IsStrictPrefix(r, q)

\* On to the next path, or the end.
GoOn(p, a, f) ==
  IF procs[p].left = {Current(p)}
    THEN Return(p, f)
    ELSE /\ procs' = [procs EXCEPT ![p].left = @ \ {Current(p)}, ![p].at = a]
         /\ UNCHANGED history

DropText(p) ==
  /\ At(p, "dropText")
  /\ texts' = [texts EXCEPT ![Current(p)] = None]
  /\ Writes(p, "dropEntry")
  /\ UNCHANGED <<entries, revisions, blobs, counts, history>>

DropEntry(p) ==
  /\ At(p, "dropEntry")
  /\ entries' = [entries EXCEPT ![Current(p)] = None]
  /\ GoOn(p, "dropText", Deleted(p))
  /\ UNCHANGED <<texts, revisions, blobs, counts>>

\* UPDATE ... SET path: nothing if there is no row, a conflict if there is one at the new path.
Renamed(rows, from, to)   == IF rows[from] = None THEN rows
                             ELSE [rows EXCEPT ![to] = rows[from], ![from] = None]
Conflicts(rows, from, to) == rows[from] # None /\ rows[to] # None

NewPath(p) == Moved(Current(p), Path(p), Req(p).to)

\* updateEntryPath
MoveEntry(p) ==
  /\ At(p, "moveEntry")
  /\ IF Conflicts(entries, Current(p), NewPath(p))
       THEN Throw(p) /\ UNCHANGED entries
       ELSE /\ entries' = Renamed(entries, Current(p), NewPath(p))
            /\ Writes(p, "moveText")
            /\ UNCHANGED history
  /\ UNCHANGED <<texts, revisions, blobs, counts>>

\* updateContentPath
MoveText(p) ==
  /\ At(p, "moveText")
  /\ IF Conflicts(texts, Current(p), NewPath(p))
       THEN Throw(p) /\ UNCHANGED texts
       ELSE /\ texts' = Renamed(texts, Current(p), NewPath(p))
            /\ GoOn(p, "moveEntry", MovedAway(p))
  /\ UNCHANGED <<entries, revisions, blobs, counts>>

-----------------------------------------------------------------------------
\* Failures.

\* An await rejects: a write that has stored its blob cleans up.
Fails(p) ==
  /\ p \in Busy
  /\ Fault
  /\ IF procs[p].at \in {"entry", "text", "revision"} /\ ~StoredInD1(Req(p).content)
       THEN Goto(p, "cleanup") /\ UNCHANGED history
       ELSE Throw(p)
  /\ UNCHANGED <<tables, ops>>

\* The Worker is gone.
Lost(p) ==
  /\ p \in Busy
  /\ Fault
  /\ Throw(p)
  /\ UNCHANGED <<tables, ops>>

-----------------------------------------------------------------------------
Step(p) ==
  \/ \E req \in Requested : Begin(p, req)
  \/ FindParent(p) \/ MakeParent(p) \/ LookUp(p) \/ MakeDirectory(p)
  \/ PutBlob(p) \/ UpsertFileEntry(p) \/ WriteTextContent(p) \/ InsertFileRevision(p)
  \/ CleanUp(p) \/ Unlink(p)
  \/ Stat(p) \/ ListDirectChildren(p) \/ FindTarget(p) \/ ListTree(p)
  \/ DropText(p) \/ DropEntry(p) \/ MoveEntry(p) \/ MoveText(p)
  \/ Fails(p) \/ Lost(p)

Next == \E p \in Procs : Step(p)

Spec == Init /\ [][Next]_vars

-----------------------------------------------------------------------------
\* Properties.

\* What getVfsFile returns for a path that no request is at work on.
ReadFile(p) ==
  CASE entries[p] = None                         -> None
    [] IsDir(p)                                  -> "dir"
    [] IsFile(p) /\ texts[p] # None              -> texts[p].content
    [] IsFile(p) /\ texts[p] = None /\ entries[p].key \in blobs -> entries[p].key
    [] OTHER                                     -> "not found"

IsQuiet(p) == \A q \in Busy : \A r \in Roots(Req(q)) : ~Comparable(p, r)

\* A path that no two requests were at work on at once and that none left half done reads
\* back what the requests made of it one after the other, whatever happens to other paths
\* beside it: the damage of overlapping and interrupted requests stays where they were.
CleanPathsReadBack ==
  \A p \in Paths : p \notin overlapped \cup interrupted /\ files[p] \notin shared /\ IsQuiet(p)
                    => ReadFile(p) = files[p]

\* The blob of an entry or a revision is there, through the clean-up of writes that fail,
\* unless two requests wrote that content at once (then the clean-up of the one may
\* delete what the other one is about to refer to).
BlobsAreKept == \A c \in Large \ shared : Referenced(c) => c \in blobs

\* A version of a file that was never deleted, moved or written by two requests at once
\* is one content, whichever writes failed half way: what a roll back to it restores.
VersionsAreUnique ==
  \A r1, r2 \in revisions :
    r1.path = r2.path /\ r1.version = r2.version /\ r1.path \notin overlapped \cup reused => r1 = r2
=============================================================================
