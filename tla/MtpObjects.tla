---------------------------- MODULE MtpObjects -----------------------------
(***************************************************************************)
(* The object cache of the MTP component: a table of a fixed number of     *)
(* slots that gives handles to the files of the registered storages, read  *)
(* afresh from the directories by every listing while the application      *)
(* creates and removes files behind its back. Each request runs under the  *)
(* MTP lock and is one step; the application's file calls take no lock of  *)
(* the component and come between requests here.                           *)
(***************************************************************************)
EXTENDS Integers, SequencesExt, FiniteSetsExt

CONSTANTS
  Paths,        \* the paths that may exist: <<storage, name, ...>>
  Folders,      \* those of them that are made as directories
  Remade,       \* those of them that may be made as either
  Names,        \* the names of files and directories
  Orders,       \* the orders in which a directory may list its entries
  MaxObjects,   \* CONFIG_TINYUSB_MTP_MAX_OBJECTS
  LastHandle,   \* bound: the last handle before the counter wraps to 1
  HandlesWrap,  \* the run goes on after that
  Generations,  \* bound: the width of next_scan_generation
  Scopes,       \* the storages it asks for, or -1 for all of them
  Requests,     \* the requests the host uses
  StaleTargets  \* names may be given that a stale object still holds

Storages == {p[1] : p \in Paths}
RootOf(s) == <<s>>
Dirs == Paths \union {RootOf(s) : s \in Storages}
DirOf(p) == Front(p)

ASSUME ObjectsAssumption ==
  /\ IsFiniteSet(Paths) /\ Paths \subseteq Seq(UNION {ToSet(p) : p \in Paths})
  /\ \A p \in Paths : Len(p) > 1 /\ DirOf(p) \in Dirs
  /\ Folders \union Remade \subseteq Paths
  /\ IsFiniteSet(Names) /\ Names # {} /\ Orders \subseteq SetToSeqs(Names)
  /\ {MaxObjects, LastHandle} \subseteq Nat \ {0} /\ LastHandle > MaxObjects
  /\ Generations \in Nat \ 0 .. 2 /\ {StaleTargets, HandlesWrap} \subseteq BOOLEAN

None == 0  \* MTP_OBJECT_HANDLE_INVALID
Root == -1 \* MTP_ROOT_PARENT, MTP_OBJECT_HANDLE_ALL: the same bits
Slots == 1 .. MaxObjects
Formats == {"any", "dir", "file"}

Object(handle, parent, path, directory, generation) ==
  [handle |-> handle, parent |-> parent, path |-> path, directory |-> directory,
   generation |-> generation]
NoObject == Object(None, Root, <<>>, FALSE, 0)

VARIABLE c \* the files (fs), the slots (objects), and the two counters

(***************************************************************************)
(* The table.                                                              *)
(***************************************************************************)
Used(d) == {i \in Slots : d.objects[i].handle # None}
Path(d, i) == d.objects[i].path
\* what a path is: the root of a storage is always a directory
Kind(d, p) == IF Len(p) = 1 THEN "dir" ELSE d.fs[p]
Exists(d, p) == Kind(d, p) # "none"
IsDirectory(d, p) == Kind(d, p) = "dir"
Gone(d, i) == ~Exists(d, Path(d, i))

First(S) == IF S = {} THEN 0 ELSE Min(S)
\* the slot of a handle, 0 when there is none; 0 and the root are no objects
SlotOf(d, h) == First({i \in Used(d) : d.objects[i].handle = h})
At(d, p) == {i \in Used(d) : Path(d, i) = p}
Free(d, I) ==
  [d EXCEPT !.objects = [i \in Slots |-> IF i \in I THEN NoObject ELSE d.objects[i]]]
Put(d, i, o) == [d EXCEPT !.objects[i] = o]

\* mtp_update_object_from_stat, with the parent and the mark of a listing
Seen(d, i, parent, mark) ==
  LET o == d.objects[i]
  IN Put(d, i, Object(o.handle, parent, o.path, IsDirectory(d, o.path), mark))
Refreshed(d, i) == Seen(d, i, d.objects[i].parent, d.objects[i].generation)

\* mutant: only what is below the path
DropBelow(d, p) == Free(d, {i \in Used(d) : IsStrictPrefix(p, Path(d, i))})

\* mtp_drop_objects_under_path_locked: what is below the path, and the first
\* object on it
DropUnder(d, p) ==
  LET below == {i \in Used(d) : IsStrictPrefix(p, Path(d, i))}
  IN Free(d, below \union {First(At(d, p))})

\* mtp_next_handle: the counter runs over the handles still in use
Successor(h) == IF h = LastHandle THEN 1 ELSE h + 1
Unused(d, h) == SlotOf(d, h) = 0

NextHandle(d) ==
  LET ahead(k) == IF d.next + k > LastHandle THEN d.next + k - LastHandle ELSE d.next + k
  IN ahead(Min({k \in 0 .. MaxObjects : Unused(d, ahead(k))}))

Added(d, i, p, parent) ==
  LET h == NextHandle(d)
  IN Put([d EXCEPT !.next = Successor(h)], i, Object(h, parent, p, IsDirectory(d, p), 0))

\* mtp_get_or_create_object_locked; the slot is 0 when the table is full of
\* objects whose files exist
GetOrCreate(d, p, parent) ==
  LET cached  == First(At(d, p))
      empty   == First(Slots \ Used(d))
      missing == First({i \in Used(d) : Gone(d, i)})
      got(e, i) == [d |-> e, slot |-> i]
  IN IF cached # 0
     THEN got(Seen(d, cached, parent, d.objects[cached].generation), cached)
     ELSE IF empty # 0 THEN got(Added(d, empty, p, parent), empty)
     ELSE IF missing # 0
     THEN got(Added(DropUnder(d, Path(d, missing)), missing, p, parent), missing)
     ELSE got(d, 0)

\* mtp_parent_handle_to_dir_locked: <<>> when the handle is no directory there
ParentDir(d, s, h) ==
  LET i == SlotOf(d, h)
  IN IF h \in {None, Root} THEN RootOf(s)
     ELSE IF i = 0 \/ ~d.objects[i].directory \/ Path(d, i)[1] # s THEN <<>>
     ELSE Path(d, i)
Normalized(h) == IF h = None THEN Root ELSE h

(***************************************************************************)
(* Listing.                                                                *)
(***************************************************************************)
\* mutant: the old marks stay
RoundAgain(d) ==
  IF d.generation # 0
  THEN [d |-> [d EXCEPT !.generation = (@ + 1) % Generations], mark |-> d.generation]
  ELSE [d |-> [d EXCEPT !.generation = 2], mark |-> 1]

\* mtp_begin_scan_generation_locked: the marks of the last round are cleared
\* when the counter has gone round
Unmark(o) == Object(o.handle, o.parent, o.path, o.directory, 0)
BeginGeneration(d) ==
  IF d.generation # 0
  THEN [d |-> [d EXCEPT !.generation = IF d.generation = Generations - 1 THEN 0 ELSE @ + 1],
        mark |-> d.generation]
  ELSE [d |-> [d EXCEPT !.generation = 2,
                 !.objects = [i \in Slots |-> Unmark(d.objects[i])]], mark |-> 1]
Matches(format, directory) ==
  format = "any" \/ (format = "dir") = directory

Answer(d, code, count, handles) ==
  [d |-> d, code |-> code, count |-> count, handles |-> handles]
Fails(d, code) == Answer(d, code, 0, <<>>)

\* one name of the directory: an object and a handle when it is asked for, a
\* mark when it is only seen
Entered(a, got, parent, mark) ==
  IF got.slot = 0 THEN Fails(got.d, "GENERAL_ERROR")
  ELSE Answer(Seen(got.d, got.slot, parent, mark), "OK", a.count + 1,
              Append(a.handles, got.d.objects[got.slot].handle))
Listed(a, p, parent, format, room, refresh, mark) ==
  LET i == First(At(a.d, p))
  IN IF a.code # "OK" \/ p \notin Paths \/ ~Exists(a.d, p) THEN a
     ELSE IF ~Matches(format, IsDirectory(a.d, p))
     THEN IF refresh /\ i # 0
          THEN Answer(Seen(a.d, i, parent, mark), "OK", a.count, a.handles) ELSE a
     ELSE IF ~refresh THEN Answer(a.d, "OK", a.count + 1, a.handles)
     ELSE IF a.count >= room THEN Fails(a.d, "STORE_FULL")
     ELSE Entered(a, GetOrCreate(a.d, p, parent), parent, mark)

ListEntries(d, dir, parent, format, room, refresh, mark, order) ==
  LET listed[k \in 0 .. Len(order)] ==
        IF k = 0 THEN Answer(d, "OK", 0, <<>>)
        ELSE Listed(listed[k - 1], Append(dir, order[k]), parent, format, room, refresh, mark)
  IN listed

\* mutant: whatever directory the object is in
UnlistedAnywhere(d, i, s, parent, mark) ==
  i \in Used(d) /\ d.objects[i].generation # mark

\* the sweep after a complete listing: the directory's objects without a mark
Unlisted(d, i, s, parent, mark) ==
  /\ i \in Used(d) /\ d.objects[i].generation # mark
  /\ Path(d, i)[1] = s /\ d.objects[i].parent = parent

SweepSlot(d, i, s, parent, mark) ==
  IF Unlisted(d, i, s, parent, mark) THEN DropUnder(d, Path(d, i)) ELSE d
Sweep(d, s, parent, mark) ==
  LET swept[i \in 0 .. MaxObjects] ==
        IF i = 0 THEN d ELSE SweepSlot(swept[i - 1], i, s, parent, mark)
  IN swept

\* mtp_scan_children_locked. read is how the directory reads: in some order, and
\* to its end or only to its last entry but one
Ended(a, s, parent, mark, refresh, broken) ==
  IF a.code # "OK" THEN a
  ELSE IF broken THEN Fails(a.d, "STORE_NOT_AVAILABLE")
  ELSE IF ~refresh THEN a
  ELSE Answer(Sweep(a.d, s, parent, mark)[MaxObjects], "OK", a.count, a.handles)
ScanChildren(d, s, h, format, room, refresh, read) ==
  LET dir    == ParentDir(d, s, h)
      parent == Normalized(h)
      begun  == IF refresh THEN BeginGeneration(d) ELSE [d |-> d, mark |-> 0]
      last   == IF read.broken THEN Len(read.order) - 1 ELSE Len(read.order)
      listed == ListEntries(begun.d, dir, parent, format, room, refresh, begun.mark, read.order)
  IN IF dir = <<>> THEN Fails(d, "INVALID_PARENT")
     ELSE IF ~IsDirectory(d, dir) THEN Fails(d, "INVALID_HANDLE")
     ELSE Ended(listed[last], s, parent, begun.mark, refresh, read.broken)

\* a list and a further one
Joined(a, b) == Answer(b.d, b.code, a.count + b.count, a.handles \o b.handles)

\* the directories of the list, each adding its children to it (room: what is
\* left of a list of MaxObjects)
DescendInto(a, k, read) ==
  LET h == a.handles[k]
      i == SlotOf(a.d, h)
      room == MaxObjects - Len(a.handles)
  IN IF a.code # "OK" \/ k > Len(a.handles) THEN a
     ELSE IF i = 0 THEN Fails(a.d, "GENERAL_ERROR")
     ELSE IF ~a.d.objects[i].directory THEN a
     ELSE Joined(a, ScanChildren(a.d, Path(a.d, i)[1], h, "any", room, TRUE, read))
Descend(first, read) ==
  LET into[k \in 0 .. MaxObjects] ==
        IF k = 0 THEN first ELSE DescendInto(into[k - 1], k, read)
  IN into

\* mtp_scan_tree_locked: the whole tree, and of it the objects of the format
Selected(a, format, room, refresh) ==
  LET found == SelectSeq(a.handles,
                 LAMBDA h : Matches(format, a.d.objects[SlotOf(a.d, h)].directory))
  IN IF a.code # "OK" THEN Fails(a.d, a.code)
     ELSE IF \E h \in ToSet(a.handles) : SlotOf(a.d, h) = 0 THEN Fails(a.d, "GENERAL_ERROR")
     ELSE IF refresh /\ Len(found) > room THEN Fails(a.d, "STORE_FULL")
     ELSE Answer(a.d, "OK", Len(found), IF refresh THEN found ELSE <<>>)
ScanTree(d, s, format, room, refresh, read) ==
  Selected(Descend(ScanChildren(d, s, Root, "any", MaxObjects, TRUE, read), read)[MaxObjects],
           format, room, refresh)

ScanStorage(d, s, format, parent, room, refresh, read) ==
  IF parent = Root THEN ScanTree(d, s, format, room, refresh, read)
  ELSE ScanChildren(d, s, parent, format, room, refresh, read)

\* mtp_scan_request_locked: one storage, or for all of them (s = Root) the one
\* the parent is on, or one after another
ScanNext(a, s, format, parent, refresh, read) ==
  IF a.code # "OK" THEN a
  ELSE Joined(a, ScanStorage(a.d, s, format, parent, MaxObjects - a.count, refresh, read))
ScanScope(d, scope, format, parent, refresh, read) ==
  LET scanned[k \in 0 .. Len(scope)] ==
        IF k = 0 THEN Answer(d, "OK", 0, <<>>)
        ELSE ScanNext(scanned[k - 1], scope[k], format, parent, refresh, read)
  IN scanned

ScanRequest(d, s, format, parent, refresh, read) ==
  LET i == SlotOf(d, parent)
      scope == IF s # Root THEN <<s>>
               ELSE IF parent \in {None, Root} THEN SetToSeq(Storages)
               ELSE <<Path(d, i)[1]>>
  IN IF s = Root /\ parent \notin {None, Root} /\ (i = 0 \/ ~d.objects[i].directory)
     THEN Fails(d, "INVALID_PARENT")
     ELSE ScanScope(d, scope, format, parent, refresh, read)[Len(scope)]

(***************************************************************************)
(* Property lists: the objects of a queue, and the children of those that  *)
(* are directories down to a depth (Root: all the way).                    *)
(***************************************************************************)
Queue(d, code, queue, props) == [d |-> d, code |-> code, queue |-> queue, props |-> props]

Extended(q, b, depth, props) ==
  LET children == [k \in 1 .. b.count |-> [handle |-> b.handles[k], depth |-> depth]]
  IN IF b.code # "OK" THEN Queue(b.d, b.code, q.queue, props)
     ELSE IF Len(q.queue) + b.count > MaxObjects THEN Queue(b.d, "STORE_FULL", q.queue, props)
     ELSE Queue(b.d, "OK", q.queue \o children, props)
Enqueued(q, s, h, depth, props, read) ==
  Extended(q, ScanChildren(q.d, s, h, "any", MaxObjects, TRUE, read), depth, props)

Visit(q, k, read) ==
  LET v == q.queue[k]
      i == SlotOf(q.d, v.handle)
      props == Append(q.props, v.handle)
  IN IF q.code # "OK" \/ k > Len(q.queue) THEN q
     ELSE IF i = 0 THEN q
     ELSE IF ~q.d.objects[i].directory \/ v.depth = 0 THEN Queue(q.d, "OK", q.queue, props)
     ELSE Enqueued(q, Path(q.d, i)[1], v.handle, IF v.depth = Root THEN Root ELSE v.depth - 1,
                   props, read)
Visited(first, read) ==
  LET visited[k \in 0 .. MaxObjects] ==
        IF k = 0 THEN first ELSE Visit(visited[k - 1], k, read)
  IN visited

ListStorage(q, s, read) ==
  IF q.code # "OK" THEN q
  ELSE Visited(Enqueued(Queue(q.d, "OK", <<>>, <<>>), s, Root, Root, q.props, read),
               read)[MaxObjects]
ListStorages(d, scope, read) ==
  LET done[k \in 0 .. Len(scope)] ==
        IF k = 0 THEN Queue(d, "OK", <<>>, <<>>) ELSE ListStorage(done[k - 1], scope[k], read)
  IN done

\* mtp_builder_append_prop_list_locked
PropList(d, h, depth, read) ==
  LET i == SlotOf(d, h)
      all == SetToSeq(Storages)
  IN IF h = Root THEN ListStorages(d, all, read)[Len(all)]
     ELSE IF i = 0 THEN Queue(d, "INVALID_HANDLE", <<>>, <<>>)
     ELSE IF Gone(d, i) THEN Queue(Free(d, {i}), "INVALID_HANDLE", <<>>, <<>>)
     ELSE Visited(Queue(Refreshed(d, i), "OK", <<[handle |-> h, depth |-> depth]>>, <<>>),
                  read)[MaxObjects]

\* mtp_op_get_object_prop_list: the list is measured, then built the same way
Built(a, b) ==
  IF b.code # "OK" THEN Fails(b.d, b.code)
  ELSE IF Len(b.props) > Len(a.props) THEN Fails(b.d, "GENERAL_ERROR")
  ELSE Answer(b.d, "OK", Len(b.props), b.props)
Measured(a, h, depth, read) ==
  IF a.code # "OK" THEN Fails(a.d, a.code) ELSE Built(a, PropList(a.d, h, depth, read))
GetPropList(d, h, depth, read) == Measured(PropList(d, h, depth, read), h, depth, read)

(***************************************************************************)
(* The requests that change the files.                                     *)
(***************************************************************************)
Below(p) == {q \in Paths : IsPrefix(p, q)}
RemoveAll(fs, P) == [p \in Paths |-> IF p \in P THEN "none" ELSE fs[p]]
\* rename of the file system: what is under p is then under q, and is lost when q
\* itself is under p
MoveTree(fs, p, q) ==
  LET from(r) == p \o SubSeq(r, Len(q) + 1, Len(r))
  IN [r \in Paths |->
        IF IsPrefix(p, r) THEN "none"
        ELSE IF ~IsPrefix(q, r) THEN fs[r]
        ELSE IF from(r) \in Paths THEN fs[from(r)] ELSE "none"]

\* mtp_drop_cached_children_under_path
DropChildren(d, p, keep) ==
  Free(d, {j \in Used(d) \ {keep} : IsPrefix(p, Path(d, j))})

\* what rename and move share: the target is new, the cached descendants of a
\* directory go, the object keeps its handle; the stat afterwards finds what was moved
Moved(d, i, q, parent) ==
  LET p == Path(d, i)
      o == d.objects[i]
      e == IF o.directory THEN DropChildren(d, p, i) ELSE d
      new == [e EXCEPT !.fs = MoveTree(d.fs, p, q)]
      is == IF Exists(new, q) THEN IsDirectory(new, q) ELSE o.directory
  IN Put(new, i, Object(o.handle, parent, q, is, o.generation))
Relocate(d, i, q, parent) ==
  LET p == Path(d, i)
  IN IF p = q THEN Fails(d, "OK")
     ELSE IF Exists(d, q) \/ ~Exists(d, p) \/ ~IsDirectory(d, DirOf(q)) THEN Fails(d, "ACCESS_DENIED")
     ELSE Fails(Moved(d, i, q, parent), "OK")

Target(dir, p) == Append(dir, Last(p))

Rename(d, h, n) ==
  LET i == SlotOf(d, h)
      dir == ParentDir(d, Path(d, i)[1], d.objects[i].parent)
  IN IF i = 0 THEN Fails(d, "INVALID_HANDLE")
     ELSE IF dir = <<>> THEN Fails(d, "INVALID_PARENT")
     ELSE Relocate(d, i, Append(dir, n), d.objects[i].parent)

Move(d, h, s, parent) ==
  LET i == SlotOf(d, h)
      p == Path(d, i)
      dir == ParentDir(d, s, parent)
  IN IF i = 0 THEN Fails(d, "INVALID_HANDLE")
     ELSE IF p[1] # s THEN Fails(d, "ACCESS_DENIED")
     ELSE IF dir = <<>> \/ (d.objects[i].directory /\ IsPrefix(p, dir))
     THEN Fails(d, "INVALID_PARENT")
     ELSE Relocate(d, i, Target(dir, p), Normalized(parent))

\* mtp_op_delete_object: the removal may fail with some of the tree gone, the
\* cache is then left as it is
Delete(d, h, gone) ==
  LET i == SlotOf(d, h)
      p == Path(d, i)
      removed == [d EXCEPT !.fs = RemoveAll(@, gone)]
  IN IF i = 0 THEN Fails(d, "INVALID_HANDLE")
     ELSE IF ~Exists(d, p) \/ gone # Below(p) THEN Fails(removed, "ACCESS_DENIED")
     ELSE Fails(DropUnder(removed, p), "OK")

\* the file or directory a SendObjectInfo makes; an existing one keeps its object
Create(d, s, parent, n, kind) ==
  LET dir == ParentDir(d, s, parent)
      p == Append(dir, n)
      made == IF Exists(d, p) THEN d ELSE [d EXCEPT !.fs[p] = kind]
      got == GetOrCreate(made, p, Normalized(parent))
  IN IF dir = <<>> THEN Fails(d, "INVALID_PARENT")
     ELSE IF ~IsDirectory(d, dir) \/ (Exists(d, p) /\ d.fs[p] # kind)
     THEN Fails(d, "ACCESS_DENIED")
     ELSE IF got.slot = 0 THEN Fails(d, "STORE_FULL")
     ELSE Fails(got.d, "OK")

\* GetObjectInfo, and the edits and reads that look at the file first
Look(d, h) ==
  LET i == SlotOf(d, h)
  IN IF i = 0 THEN Fails(d, "INVALID_HANDLE")
     ELSE IF Gone(d, i) THEN Fails(Free(d, {i}), "INVALID_HANDLE")
     ELSE Fails(Refreshed(d, i), "OK")

(***************************************************************************)
(* The system.                                                             *)
(***************************************************************************)
Host(op, r) ==
  /\ op \in Requests
  /\ HandlesWrap \/ r.d.next >= c.next
  /\ c' = r.d

KnownHandles == {c.objects[i].handle : i \in Used(c)}
Parents == KnownHandles \union {None, Root}
\* a handle that stands for nothing is like the invalid one
Offered == KnownHandles \union {None}
Reads == [order : Orders, broken : BOOLEAN]

\* the target is a path of the model and, unless StaleTargets, no other object is
\* cached for it
MayTake(h, q) == q \in Paths /\ (StaleTargets \/ \A i \in At(c, q) : c.objects[i].handle = h)
MayRename(h, n) ==
  LET i == SlotOf(c, h)
      dir == ParentDir(c, Path(c, i)[1], c.objects[i].parent)
  IN IF i = 0 THEN TRUE ELSE IF dir = <<>> THEN TRUE ELSE MayTake(h, Append(dir, n))
MayMove(h, s, parent) ==
  LET i == SlotOf(c, h)
      dir == ParentDir(c, s, parent)
  IN IF i = 0 \/ dir = <<>> THEN TRUE
     ELSE IF Path(c, i)[1] # s \/ (c.objects[i].directory /\ IsPrefix(Path(c, i), dir))
     THEN TRUE
     ELSE MayTake(h, Target(dir, Path(c, i)))

MadeAs(p, kind) == p \in Remade \/ (kind = "dir") = (p \in Folders)
\* the path is one of the model, and is made as what it is made as everywhere
MayCreate(s, parent, n, kind) ==
  LET dir == ParentDir(c, s, parent)
      p == Append(dir, n)
  IN IF dir = <<>> THEN TRUE ELSE IF p \notin Paths THEN FALSE
     ELSE Exists(c, p) \/ MadeAs(p, kind)

GetObjectHandles ==
  \E s \in Scopes, format \in Formats, parent \in Parents, read \in Reads :
    Host("GetObjectHandles", ScanRequest(c, s, format, parent, TRUE, read))

GetNumObjects ==
  \E s \in Scopes, format \in Formats, parent \in Parents, read \in Reads :
    Host("GetNumObjects", ScanRequest(c, s, format, parent, FALSE, read))

GetObjectPropList ==
  \E h \in Offered \union {Root}, depth \in {0, 1, Root}, read \in Reads :
    /\ h # None
    /\ Host("GetObjectPropList", GetPropList(c, h, depth, read))

RenameObject ==
  \E h \in Offered, n \in Names :
    MayRename(h, n) /\ Host("Rename", Rename(c, h, n))

MoveObject ==
  \E h \in Offered, s \in Storages, parent \in Parents :
    MayMove(h, s, parent) /\ Host("Move", Move(c, h, s, parent))

DeleteObject ==
  \E h \in Offered :
    LET p == IF h = None THEN <<>> ELSE Path(c, SlotOf(c, h))
        tree == {q \in Paths : h # None /\ IsPrefix(p, q)}
    IN \E gone \in {tree} \union SUBSET {q \in tree \ {p} : Exists(c, q)} :
         /\ \A q \in gone : \A r \in Below(q) \ gone : ~Exists(c, r)
         /\ Host("Delete", Delete(c, h, gone))

CreateObject ==
  \E s \in Storages, parent \in Parents, n \in Names, kind \in {"file", "dir"} :
    /\ MayCreate(s, parent, n, kind)
    /\ Host("SendObjectInfo", Create(c, s, parent, n, kind))

LookAtObject ==
  \E h \in Offered : Host("GetObjectInfo", Look(c, h))

AppCreates(p) ==
  /\ ~Exists(c, p) /\ IsDirectory(c, DirOf(p))
  /\ \E kind \in {"file", "dir"} : MadeAs(p, kind) /\ c' = [c EXCEPT !.fs[p] = kind]

AppRemoves(p) ==
  /\ Exists(c, p) /\ \A q \in Below(p) \ {p} : ~Exists(c, q)
  /\ c' = [c EXCEPT !.fs[p] = "none"]

Init ==
  /\ c = [fs |-> [p \in Paths |-> "none"], objects |-> [i \in Slots |-> NoObject],
          next |-> 1, generation |-> 1]

Next ==
  \/ GetObjectHandles \/ GetNumObjects \/ GetObjectPropList
  \/ RenameObject \/ MoveObject \/ DeleteObject \/ CreateObject \/ LookAtObject
  \/ \E p \in Paths : AppCreates(p) \/ AppRemoves(p)

Spec == Init /\ [][Next]_c

(***************************************************************************)
(* Properties.                                                             *)
(***************************************************************************)
\* The shape of the state, and the files a tree.
TypeOK ==
  /\ c.fs \in [Paths -> {"none", "file", "dir"}]
  /\ \A p \in Paths : Exists(c, p) => IsDirectory(c, DirOf(p))
  /\ \A i \in Slots : c.objects[i].handle \in 0 .. LastHandle
  /\ \A i \in Used(c) : Path(c, i) \in Paths
  /\ c.next \in 1 .. LastHandle /\ c.generation \in 0 .. Generations - 1

\* One object for one path and one handle for one object, also when the handle
\* counter has gone round (mtp_next_handle).
OneHandleOnePath ==
  \A i, j \in Used(c) : i # j =>
    c.objects[i].handle # c.objects[j].handle /\ Path(c, i) # Path(c, j)

Entries(d, s, format, parent) ==
  LET in(t) == IF parent \in {None, Root} THEN RootOf(t) ELSE Path(d, SlotOf(d, parent))
      roots == IF s # Root THEN {s}
               ELSE IF parent \in {None, Root} THEN Storages ELSE {in(Root)[1]}
  IN {p \in Paths : /\ Exists(d, p) /\ Matches(format, IsDirectory(d, p))
                    /\ \E t \in roots : IF parent = Root THEN p[1] = t ELSE DirOf(p) = in(t)}

PathOf(d, h) == IF SlotOf(d, h) = 0 THEN <<>> ELSE Path(d, SlotOf(d, h))

IsCurrent(r, want, parent, refresh) ==
  r.code = "OK" =>
    /\ r.count = Cardinality(want)
    /\ refresh =>
         /\ Len(r.handles) = r.count
         /\ {PathOf(r.d, h) : h \in ToSet(r.handles)} = want
         /\ parent \notin {None, Root} =>
              \A i \in Used(r.d) : r.d.objects[i].parent = parent => ~Gone(r.d, i)

\* A listing that is answered OK is the directory as it is now: the handles
\* returned stand for exactly its entries of the format, each once, the count is
\* theirs, and no object is left there whose file is gone.
ListingIsCurrent ==
  \A s \in Scopes, format \in Formats, parent \in Parents, read \in Reads, refresh \in BOOLEAN :
    IsCurrent(ScanRequest(c, s, format, parent, refresh, read), Entries(c, s, format, parent),
              parent, refresh)

\* The parent an object reports is the directory its file is in, also for the
\* objects a rename, a move or a deletion of a directory above them left behind.
ParentIsItsDirectory ==
  \A i \in Used(c) :
    LET o == c.objects[i]
        j == SlotOf(c, o.parent)
    IN Exists(c, o.path) =>
         IF o.parent = Root THEN Len(o.path) = 2 ELSE j # 0 => Path(c, j) = DirOf(o.path)

\* What the table says of the tree is so: the two above, as long as the handle
\* counter has not gone round and no path changes its kind behind the table.
TableMirrorsTree == ListingIsCurrent /\ ParentIsItsDirectory

\* A handle means the same file as long as the file is there: no listing, however
\* it fails, no reclaimed slot and no rename next to it drops its object or gives
\* the handle to another one.
HandlesAreStable ==
  [][\A i \in Used(c) :
       Exists(c, Path(c, i)) /\ Exists(c', Path(c, i)) =>
         \E j \in Used(c') : /\ c'.objects[j].handle = c.objects[i].handle
                             /\ Path(c', j) = Path(c, i)]_c

\* After a deletion that is answered OK nothing is known any more of what was
\* under the object (mtp_op_delete_object).
DeletedIsForgotten ==
  \A i \in Used(c) :
    LET p == Path(c, i)
        r == Delete(c, c.objects[i].handle, Below(p))
    IN r.code = "OK" => \A j \in Used(r.d) : ~IsPrefix(p, Path(r.d, j))

\* test_mtp_storage.c:820: the handles a refreshed directory answers with are
\* valid, whatever stale objects it removed.
ListedIsKnown ==
  \A s \in Scopes, parent \in Parents, read \in Reads :
    LET r == ScanRequest(c, s, "any", parent, TRUE, read)
    IN \A h \in ToSet(r.handles) : SlotOf(r.d, h) # 0

\* The table is sound by itself: handles and paths stand for one object each, also
\* when the handle counter has gone round, and a deletion leaves nothing behind.
ObjectsInv == TypeOK /\ OneHandleOnePath /\ DeletedIsForgotten

=============================================================================
