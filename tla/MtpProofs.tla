------------------------------ MODULE MtpProofs ------------------------------
(***************************************************************************)
(* MtpTransfer, for all names, storages, sizes, handles and tries: however *)
(* a transfer ends, no half and no hidden file is left behind, an upload   *)
(* answered OK is there, and unregistering a storage spares the others.    *)
(*                                                                         *)
(* Most of the state is one record, the context, and a handler is a        *)
(* function from a context to a context and an answer. So the invariant is *)
(* mostly about a context alone (Kept): what the pending write, the files  *)
(* and the objects have to do with each other. Each primitive keeps it     *)
(* (AbortKeeps, FreeKeeps, ...), then each handler (Handled: it keeps the  *)
(* context, and a replacement it ends leaves a closed file), then each     *)
(* action, where IInv adds what the context holds for the transaction the  *)
(* bus is in. Orderly says what the theorems need of the others: the host  *)
(* does not touch the file it is sending, the answers it is owed arrive,   *)
(* and the card removes what it is told to.                                *)
(***************************************************************************)
EXTENDS MtpTransfer, FiniteSetTheorems, WellFoundedInduction, TLAPS

-----------------------------------------------------------------------------
(* The shape of a context.                                                 *)

Paths       == Names \union {NoName}
HiddenPaths == Internal \union {NoName}
Files       == Names \union Internal
WriteStates == {"IDLE", "ZERO_SIZE_COMPLETE", "INFO_PREPARED", "WAITING_DATA", "RECEIVING_DATA"}

Writes ==
  [state : WriteStates, handle : HostHandles, path : Paths, write_path : HiddenPaths,
   backup_path : HiddenPaths, file : BOOLEAN, expected : Nat, written : Nat,
   created_path : BOOLEAN, created_object : BOOLEAN, directory : BOOLEAN]
ReadsOf   == [active : BOOLEAN, path : Paths, remaining : Nat]
Partials  == [active : BOOLEAN, handle : HostHandles, expected : Nat, written : Nat]
Deferreds == [op : OutOps \union {"none"}, code : Codes]

Contexts ==
  [session_open : BOOLEAN, registered : SUBSET Storages, object : [Handles -> Paths],
   next : Nat, pending : Writes, read : ReadsOf, edit : HostHandles, partial : Partials,
   buffer : {"none", "GetObjectHandles"}, deferred : Deferreds,
   cancelled : {"no", "this", "other"}, fs : [Files -> Contents]]

Receives(p) == p.state \in {"WAITING_DATA", "RECEIVING_DATA"}

\* A closed file is whole, or short where its close may fail.
LEMMA AsClosedSays ==
  /\ "whole" \in AsClosed /\ "none" \notin AsClosed /\ "dir" \notin AsClosed
  /\ "blank" \notin AsClosed /\ "part" \notin AsClosed /\ AsClosed \subseteq Contents
  /\ "close" \in Faults => "short" \in AsClosed
BY DEF AsClosed, Contents

\* The pending write: the object it is for, and what its files hold.
PendingInv(c) ==
  LET p == c.pending
  IN IF p.path = NoName
     THEN /\ p.handle = 0 /\ p.write_path = NoName /\ p.expected = 0 /\ p.written = 0
          /\ ~p.created_path /\ ~p.created_object
          /\ p.state \in {"IDLE", "ZERO_SIZE_COMPLETE"}
     ELSE /\ p.handle # 0 /\ c.object[p.handle] = p.path
          /\ c.session_open /\ StorageOf[p.path] \in c.registered
          /\ p.state \notin {"IDLE", "ZERO_SIZE_COMPLETE"}
          /\ p.written <= p.expected /\ c.fs[p.path] # "none"

ContentInv(c) ==
  LET p == c.pending
  IN p.path # NoName =>
       /\ Receives(p) => p.created_path
       /\ Receives(p) /\ p.written = p.expected => p.file \/ c.fs[WritePath(p)] \in AsClosed
       /\ Replaces(p) =>
            /\ p.backup_path \in Internal \ {p.write_path} /\ p.created_path
            /\ c.fs[p.path] \in AsClosed /\ c.fs[p.write_path] # "none"
            /\ Receives(p) \/ c.fs[p.write_path] \in AsClosed

\* Half a file, and a hidden file, belong to it.
HalfInv(c) ==
  \A n \in Names : c.fs[n] \in {"blank", "part"} =>
    n = c.pending.path /\ ~Replaces(c.pending) /\ Receives(c.pending)
HiddenInv(c) == \A f \in Internal : c.fs[f] # "none" => f = c.pending.write_path

\* Objects are on registered storages, and their handles were handed out.
ObjectInv(c) ==
  \A h \in Handles : c.object[h] # NoName =>
    StorageOf[c.object[h]] \in c.registered /\ h < c.next

\* Reads, edits and deferred answers.
OtherInv(c) ==
  /\ c.read.path # NoName => StorageOf[c.read.path] \in c.registered
  /\ ~c.read.active => c.read.path = NoName
  /\ ~c.session_open => c.edit = 0 /\ ~c.partial.active
  /\ c.next > 0
  /\ c.deferred # NoDeferred =>
       c.cancelled # "this" /\ c.deferred.op # "none" /\ c.pending.state # "ZERO_SIZE_COMPLETE"
  /\ c.cancelled = "this" => c.pending.state # "ZERO_SIZE_COMPLETE"

Kept(c) == /\ c \in Contexts /\ PendingInv(c) /\ ContentInv(c) /\ HalfInv(c)
           /\ HiddenInv(c) /\ ObjectInv(c) /\ OtherInv(c)

-----------------------------------------------------------------------------
(* What the primitives do to a context.                                    *)

\* A context with one field changed.
LEMMA ObjectSays ==
  ASSUME NEW c \in Contexts, NEW o \in [Handles -> Paths]
  PROVE  LET d == [c EXCEPT !.object = o]
         IN /\ d \in Contexts /\ d.object = o
            /\ d.session_open = c.session_open /\ d.registered = c.registered
            /\ d.next = c.next /\ d.pending = c.pending /\ d.read = c.read
            /\ d.edit = c.edit /\ d.partial = c.partial /\ d.buffer = c.buffer
            /\ d.deferred = c.deferred /\ d.cancelled = c.cancelled /\ d.fs = c.fs
BY DEF Contexts

\* An object is freed; 0 stands for none.
LEMMA FreeSays ==
  ASSUME NEW c \in Contexts, NEW h \in HostHandles
  PROVE  LET d == FreeObject(c, h)
         IN /\ d \in Contexts
            /\ \A k \in Handles : d.object[k] = IF k = h THEN NoName ELSE c.object[k]
            /\ d.session_open = c.session_open /\ d.registered = c.registered
            /\ d.next = c.next /\ d.pending = c.pending /\ d.read = c.read
            /\ d.edit = c.edit /\ d.partial = c.partial /\ d.buffer = c.buffer
            /\ d.deferred = c.deferred /\ d.cancelled = c.cancelled /\ d.fs = c.fs
<1>1. CASE h = 0
  BY <1>1, MtpAssumption DEF FreeObject, Handles
<1>2. CASE h # 0
  <2> DEFINE o == [c.object EXCEPT ![h] = NoName]
  <2>1. c.object \in [Handles -> Paths] /\ h \in Handles
    BY <1>2 DEF Contexts, HostHandles
  <2>2. /\ o \in [Handles -> Paths]
        /\ \A k \in Handles : o[k] = IF k = h THEN NoName ELSE c.object[k]
    BY <2>1 DEF Paths
  <2>3. FreeObject(c, h) = [c EXCEPT !.object = o]
    BY <1>2 DEF FreeObject
  <2> HIDE DEF o
  <2> QED
    BY <2>2, <2>3, ObjectSays
<1> QED
  BY <1>1, <1>2

LEMMA FreeKeeps ==
  ASSUME NEW c, Kept(c), NEW h \in HostHandles,
         c.pending.path = NoName \/ h # c.pending.handle
  PROVE  Kept(FreeObject(c, h))
<1> DEFINE d == FreeObject(c, h)
<1>1. /\ d \in Contexts
      /\ \A k \in Handles : d.object[k] = IF k = h THEN NoName ELSE c.object[k]
      /\ d.session_open = c.session_open /\ d.registered = c.registered
      /\ d.next = c.next /\ d.pending = c.pending /\ d.read = c.read
      /\ d.edit = c.edit /\ d.partial = c.partial /\ d.deferred = c.deferred
      /\ d.cancelled = c.cancelled /\ d.fs = c.fs
  BY FreeSays DEF Kept
<1> HIDE DEF d
<1>2. PendingInv(d)
  BY <1>1 DEF Kept, PendingInv, Contexts, Writes, HostHandles
<1>3. ContentInv(d) /\ HalfInv(d) /\ HiddenInv(d)
  BY <1>1 DEF Kept, ContentInv, HalfInv, HiddenInv
<1>4. ObjectInv(d) /\ OtherInv(d)
  BY <1>1 DEF Kept, ObjectInv, OtherInv
<1> QED
  BY <1>1, <1>2, <1>3, <1>4 DEF Kept, d

\* Nothing is pending and nothing of it is left.
Settled(c) ==
  /\ c.pending = IdleWrite
  /\ \A n \in Names : c.fs[n] \notin {"blank", "part"}
  /\ \A f \in Internal : c.fs[f] = "none"

LEMMA IdleWriteSays ==
  /\ IdleWrite \in Writes /\ ~Replaces(IdleWrite) /\ ~Receives(IdleWrite)
  /\ IdleWrite.state = "IDLE" /\ IdleWrite.path = NoName /\ IdleWrite.handle = 0
  /\ IdleWrite.write_path = NoName /\ IdleWrite.expected = 0 /\ IdleWrite.written = 0
  /\ ~IdleWrite.created_path /\ ~IdleWrite.created_object
BY DEF IdleWrite, Writes, WriteStates, HostHandles, Paths, HiddenPaths, Replaces, Receives

\* What is left of a context when its pending write is aborted.
LEMMA AbortSays ==
  ASSUME NEW c \in Contexts, PendingInv(c), ContentInv(c)
  PROVE  LET d == AbortPendingWrite(c)
             p == c.pending
         IN /\ d \in Contexts /\ d.pending = IdleWrite
            /\ \A f \in Files : d.fs[f] = IF p.created_path /\ p.path # NoName /\ f = WritePath(p)
                                          THEN "none" ELSE c.fs[f]
            /\ \A k \in Handles : d.object[k] = IF p.created_object /\ k = p.handle
                                                THEN NoName ELSE c.object[k]
            /\ d.session_open = c.session_open /\ d.registered = c.registered
            /\ d.next = c.next /\ d.read = c.read
            /\ d.edit = c.edit /\ d.partial = c.partial /\ d.buffer = c.buffer
            /\ d.deferred = c.deferred /\ d.cancelled = c.cancelled
<1> DEFINE p == c.pending
           fs == IF p.created_path /\ p.path # NoName THEN RemovePath(c.fs, WritePath(p)) ELSE c.fs
           b == [c EXCEPT !.fs = fs]
           e == IF p.created_object THEN FreeObject(b, p.handle) ELSE b
<1>1. /\ c.fs \in [Files -> Contents] /\ p \in Writes /\ c.pending = p
      /\ p.handle \in HostHandles /\ WritePath(p) \in Files \union {NoName}
  BY DEF Contexts, Writes, WritePath, Replaces, Files, Paths, HiddenPaths
<1> HIDE DEF p
<1>2. /\ fs \in [Files -> Contents]
      /\ \A f \in Files : fs[f] = IF p.created_path /\ p.path # NoName /\ f = WritePath(p)
                                  THEN "none" ELSE c.fs[f]
  <2>1. CASE p.created_path /\ p.path # NoName
    <3>1. fs = [c.fs EXCEPT ![WritePath(p)] = "none"]
      BY <2>1 DEF RemovePath
    <3> QED
      BY <1>1, <2>1, <3>1 DEF Contents
  <2>2. CASE ~(p.created_path /\ p.path # NoName)
    BY <1>1, <2>2
  <2> QED
    BY <2>1, <2>2
<1>3. (IF p.created_path /\ p.path # NoName THEN [c EXCEPT !.fs = RemovePath(@, WritePath(p))] ELSE c)
        = b
  BY DEF Contexts
<1> HIDE DEF fs
<1>4. /\ b \in Contexts /\ b.fs = fs
      /\ b.session_open = c.session_open /\ b.registered = c.registered
      /\ b.next = c.next /\ b.read = c.read /\ b.object = c.object
      /\ b.edit = c.edit /\ b.partial = c.partial /\ b.buffer = c.buffer
      /\ b.deferred = c.deferred /\ b.cancelled = c.cancelled
  BY <1>2 DEF Contexts
<1> HIDE DEF b
<1>5. /\ e \in Contexts /\ e.fs = fs
      /\ \A k \in Handles : e.object[k] = IF p.created_object /\ k = p.handle
                                          THEN NoName ELSE c.object[k]
      /\ e.session_open = c.session_open /\ e.registered = c.registered
      /\ e.next = c.next /\ e.read = c.read
      /\ e.edit = c.edit /\ e.partial = c.partial /\ e.buffer = c.buffer
      /\ e.deferred = c.deferred /\ e.cancelled = c.cancelled
  BY <1>1, <1>4, FreeSays
<1>6. AbortPendingWrite(c) = [e EXCEPT !.pending = IdleWrite]
  BY <1>3 DEF AbortPendingWrite, p
<1> HIDE DEF e
<1> QED
  BY <1>2, <1>5, <1>6, IdleWriteSays DEF Contexts, p

\* Names and hidden names are apart.
LEMMA NamesApart ==
  /\ \A n \in Names : n # NoName /\ n \notin Internal
  /\ NoName \notin Internal
BY MtpAssumption

\* The rest of a context that goes on with another pending write.
Beside(c, d) ==
  /\ d.session_open = c.session_open /\ d.registered = c.registered /\ d.next = c.next
  /\ d.read = c.read /\ d.edit = c.edit /\ d.partial = c.partial
  /\ d.deferred = c.deferred /\ d.cancelled = c.cancelled

\* A settled context keeps everything that is known of pending writes.
LEMMA SettledKept ==
  ASSUME NEW c, Kept(c), NEW d \in Contexts, Settled(d), Beside(c, d), ObjectInv(d)
  PROVE  Kept(d)
<1>1. PendingInv(d) /\ ContentInv(d) /\ HalfInv(d) /\ HiddenInv(d)
  BY IdleWriteSays DEF Settled, PendingInv, ContentInv, HalfInv, HiddenInv
<1>2. OtherInv(d)
  BY IdleWriteSays DEF Settled, Beside, Kept, OtherInv
<1> QED
  BY <1>1, <1>2 DEF Kept

\* However a transfer is aborted, nothing of it is left, and what it was to
\* replace is as it was.
LEMMA AbortKeeps ==
  ASSUME NEW c, Kept(c)
  PROVE  LET d == AbortPendingWrite(c)
         IN /\ Kept(d) /\ Settled(d) /\ Beside(c, d)
            /\ Replaces(c.pending) => /\ d.fs[c.pending.path] = c.fs[c.pending.path]
                                      /\ d.fs[c.pending.path] \in AsClosed
<1> DEFINE d == AbortPendingWrite(c)
           p == c.pending
<1>1. /\ d \in Contexts /\ d.pending = IdleWrite /\ Beside(c, d)
      /\ \A f \in Files : d.fs[f] = IF p.created_path /\ p.path # NoName /\ f = WritePath(p)
                                    THEN "none" ELSE c.fs[f]
      /\ \A k \in Handles : d.object[k] = IF p.created_object /\ k = p.handle
                                          THEN NoName ELSE c.object[k]
  BY AbortSays DEF Kept, Beside
<1> HIDE DEF d
<1>2. Settled(d)
  <2>1. ASSUME NEW n \in Names, d.fs[n] \in {"blank", "part"} PROVE FALSE
    <3>1. n \in Files /\ c.fs[n] \in {"blank", "part"}
      BY <1>1, <2>1 DEF Files
    <3>2. n = p.path /\ ~Replaces(p) /\ Receives(p)
      BY <3>1 DEF Kept, HalfInv
    <3>3. p.created_path /\ p.path # NoName /\ WritePath(p) = n
      BY <3>2, NamesApart DEF Kept, ContentInv, WritePath
    <3> QED
      BY <1>1, <2>1, <3>1, <3>3
  <2>2. ASSUME NEW f \in Internal, d.fs[f] # "none" PROVE FALSE
    <3>1. f \in Files /\ c.fs[f] # "none"
      BY <1>1, <2>2 DEF Files
    <3>2. f = p.write_path
      BY <3>1 DEF Kept, HiddenInv
    <3>3. p.path # NoName /\ Replaces(p)
      BY <3>2, NamesApart DEF Kept, PendingInv, Replaces
    <3>4. p.created_path /\ WritePath(p) = f
      BY <3>2, <3>3 DEF Kept, ContentInv, WritePath
    <3> QED
      BY <1>1, <2>2, <3>1, <3>3, <3>4
  <2> QED
    BY <1>1, <2>1, <2>2 DEF Settled
<1>3. ObjectInv(d)
  BY <1>1 DEF Kept, ObjectInv, Beside
<1>4. ASSUME Replaces(p) PROVE d.fs[p.path] = c.fs[p.path] /\ d.fs[p.path] \in AsClosed
  <2>1. p.path # NoName /\ p.path \in Names /\ c.fs[p.path] \in AsClosed
    BY <1>4 DEF Kept, PendingInv, ContentInv, Replaces, Contexts, Writes, Paths
  <2>2. WritePath(p) # p.path /\ p.path \in Files
    BY <1>4, <2>1, NamesApart DEF WritePath, Replaces, Kept, Contexts, Writes, HiddenPaths, Files
  <2> QED
    BY <1>1, <2>1, <2>2
<1>5. Kept(d)
  BY <1>1, <1>2, <1>3, SettledKept
<1> QED
  BY <1>1, <1>2, <1>4, <1>5 DEF d

-----------------------------------------------------------------------------
(* Handlers that leave the pending write and the files alone.              *)

Quiet(c, d) ==
  /\ d.pending = c.pending /\ d.fs = c.fs /\ d.next = c.next
  /\ d.session_open = c.session_open /\ d.registered = c.registered
  /\ d.cancelled = c.cancelled /\ d.deferred \in {c.deferred, NoDeferred}

\* Reads, edits, the buffer and the deferred answer do not touch the rest.
LEMMA SideKeeps ==
  ASSUME NEW c, Kept(c), NEW d \in Contexts, d.object = c.object, Quiet(c, d),
         d.read.path # NoName => StorageOf[d.read.path] \in c.registered,
         ~d.read.active => d.read.path = NoName,
         ~c.session_open => d.edit = 0 /\ ~d.partial.active
  PROVE  Kept(d)
<1>1. PendingInv(d) /\ ContentInv(d)
  BY DEF Kept, Quiet, PendingInv, ContentInv
<1>2. HalfInv(d) /\ HiddenInv(d) /\ ObjectInv(d)
  BY DEF Kept, Quiet, HalfInv, HiddenInv, ObjectInv
<1>3. OtherInv(d)
  BY DEF Kept, Quiet, OtherInv
<1> QED
  BY <1>1, <1>2, <1>3 DEF Kept

LEMMA ClearEditKeeps ==
  ASSUME NEW c, Kept(c)
  PROVE  Kept(ClearEdit(c)) /\ Quiet(c, ClearEdit(c)) /\ ClearEdit(c).object = c.object
<1>1. ClearEdit(c) \in Contexts /\ ClearEdit(c).object = c.object /\ Quiet(c, ClearEdit(c))
      /\ ClearEdit(c).edit = 0 /\ ClearEdit(c).partial = c.partial /\ ClearEdit(c).read = c.read
  BY DEF ClearEdit, Kept, Contexts, Quiet, HostHandles
<1> QED
  BY <1>1, SideKeeps DEF Kept, OtherInv

LEMMA ClearPartialKeeps ==
  ASSUME NEW c, Kept(c)
  PROVE  /\ Kept(ClearPartial(c)) /\ Quiet(c, ClearPartial(c)) /\ ClearPartial(c).object = c.object
         /\ ClearPartial(c).edit = c.edit
<1>1. NoPartial \in Partials /\ ~NoPartial.active
  BY DEF NoPartial, Partials, HostHandles
<1>2. ClearPartial(c) \in Contexts /\ ClearPartial(c).object = c.object /\ Quiet(c, ClearPartial(c))
      /\ ClearPartial(c).edit = c.edit /\ ClearPartial(c).partial = NoPartial
      /\ ClearPartial(c).read = c.read
  BY <1>1 DEF ClearPartial, Kept, Contexts, Quiet
<1> QED
  BY <1>1, <1>2, SideKeeps DEF Kept, OtherInv

LEMMA ClearBufferKeeps ==
  ASSUME NEW c, Kept(c)
  PROVE  Kept(ClearBuffer(c)) /\ Quiet(c, ClearBuffer(c))
<1>1. /\ ClearBuffer(c) \in Contexts /\ ClearBuffer(c).object = c.object /\ Quiet(c, ClearBuffer(c))
      /\ ClearBuffer(c).edit = c.edit /\ ClearBuffer(c).partial = c.partial
      /\ ClearBuffer(c).read = c.read
  BY DEF ClearBuffer, Kept, Contexts, Quiet
<1> QED
  BY <1>1, SideKeeps DEF Kept, OtherInv

NoReading(c) == [c EXCEPT !.read = NoRead]
LEMMA NoReadKeeps ==
  ASSUME NEW c, Kept(c)
  PROVE  Kept(NoReading(c)) /\ Quiet(c, NoReading(c))
<1>1. NoRead \in ReadsOf /\ NoRead.path = NoName
  BY DEF NoRead, ReadsOf, Paths
<1>2. /\ NoReading(c) \in Contexts /\ NoReading(c).object = c.object /\ Quiet(c, NoReading(c))
      /\ NoReading(c).edit = c.edit /\ NoReading(c).partial = c.partial
      /\ NoReading(c).read = NoRead
  BY <1>1 DEF NoReading, Kept, Contexts, Quiet
<1> QED
  BY <1>1, <1>2, SideKeeps DEF Kept, OtherInv

NotDeferred(c) == [c EXCEPT !.deferred = NoDeferred]
LEMMA NotDeferredKeeps ==
  ASSUME NEW c, Kept(c)
  PROVE  /\ Kept(NotDeferred(c)) /\ Quiet(c, NotDeferred(c))
         /\ NotDeferred(c).object = c.object /\ NotDeferred(c).partial = c.partial
         /\ NotDeferred(c).deferred = NoDeferred
<1>1. NoDeferred \in Deferreds
  BY DEF NoDeferred, Deferreds, Codes
<1>2. /\ NotDeferred(c) \in Contexts /\ NotDeferred(c).object = c.object /\ Quiet(c, NotDeferred(c))
      /\ NotDeferred(c).edit = c.edit /\ NotDeferred(c).partial = c.partial
      /\ NotDeferred(c).read = c.read /\ NotDeferred(c).deferred = NoDeferred
  BY <1>1 DEF NotDeferred, Kept, Contexts, Quiet
<1> QED
  BY <1>1, <1>2, SideKeeps DEF Kept, OtherInv

\* An object whose file is gone is not the one being received.
LEMMA MissingKeeps ==
  ASSUME NEW c, Kept(c), NEW h \in Used(c), Missing(c, h)
  PROVE  Kept(FreeObject(c, h)) /\ Quiet(c, FreeObject(c, h)) /\ FreeObject(c, h).partial = c.partial
<1>1. h \in HostHandles /\ h \in Handles /\ c \in Contexts
  BY DEF Used, HostHandles, Kept
<1>2. c.pending.path = NoName \/ h # c.pending.handle
  BY DEF Missing, Kept, PendingInv
<1>3. Quiet(c, FreeObject(c, h)) /\ FreeObject(c, h).partial = c.partial
  BY <1>1, FreeSays DEF Quiet
<1> QED
  BY <1>1, <1>2, <1>3, FreeKeeps

LEMMA RestatKeeps ==
  ASSUME NEW c, Kept(c), NEW h, Known(c, h)
  PROVE  Kept(Restat(c, h)) /\ Quiet(c, Restat(c, h)) /\ Restat(c, h).partial = c.partial
BY MissingKeeps DEF Restat, Known, Quiet

LEMMA QuietTransitive ==
  ASSUME NEW c, NEW d, NEW e, Quiet(c, d), Quiet(d, e)
  PROVE  Quiet(c, e)
BY DEF Quiet

Calm(c, r) == Kept(r.c) /\ Quiet(c, r.c) /\ r.code \in Codes

LEMMA ResultSays ==
  ASSUME NEW c, NEW code
  PROVE  /\ Result(c, code).c = c /\ Result(c, code).code = code
         /\ Err(c).c = c /\ Err(c).code = "ERR"
BY DEF Result, Err

LEMMA TakeKeeps ==
  ASSUME NEW c, Kept(c), NEW op
  PROVE  /\ Calm(c, TakeDeferred(c, op))
         /\ TakeDeferred(c, op).c.object = c.object
         /\ TakeDeferred(c, op).c.partial = c.partial
         /\ op = c.deferred.op => TakeDeferred(c, op).c.deferred = NoDeferred
<1>1. CASE c.deferred.op = op
  BY <1>1, NotDeferredKeeps DEF TakeDeferred, Calm, Result, NotDeferred, Kept, Contexts, Deferreds
<1>2. CASE c.deferred.op # op
  BY <1>2 DEF TakeDeferred, Calm, Result, Quiet, Codes
<1> QED
  BY <1>1, <1>2

LEMMA ActiveEditKeeps ==
  ASSUME NEW c, Kept(c), NEW h
  PROVE  Calm(c, ActiveEdit(c, h)) /\ (ActiveEdit(c, h).code = "OK" => ActiveEdit(c, h).c = c)
BY ClearEditKeeps, ResultSays DEF ActiveEdit, Calm, Codes, Quiet

LEMMA BeginEditKeeps ==
  ASSUME NEW c, Kept(c), NEW h \in HostHandles
  PROVE  Calm(c, BeginEdit(c, h))
<1>1. CASE ~c.session_open \/ ~IsFile(c, h) \/ (c.edit # 0 /\ c.edit # h)
  BY <1>1, ResultSays DEF BeginEdit, Calm, Codes, Quiet
<1>2. CASE c.session_open /\ IsFile(c, h) /\ Missing(c, h) /\ ~(c.edit # 0 /\ c.edit # h)
  <2>1. h \in Used(c)
    BY <1>2 DEF IsFile, Known
  <2>2. BeginEdit(c, h) = Err(FreeObject(c, h))
    BY <1>2 DEF BeginEdit
  <2>3. Kept(FreeObject(c, h)) /\ Quiet(c, FreeObject(c, h))
    BY <1>2, <2>1, MissingKeeps
  <2> QED
    BY <2>2, <2>3, ResultSays DEF Calm, Codes
<1>3. CASE c.session_open /\ IsFile(c, h) /\ ~Missing(c, h) /\ ~(c.edit # 0 /\ c.edit # h)
  <2> DEFINE b == ClearPartial(c)
             d == [b EXCEPT !.edit = h]
  <2>1. Kept(b) /\ Quiet(c, b) /\ b.object = c.object
    BY ClearPartialKeeps
  <2> HIDE DEF b
  <2>2. /\ d \in Contexts /\ d.object = b.object /\ Quiet(b, d)
        /\ d.partial = b.partial /\ d.read = b.read
    BY <2>1 DEF Kept, Contexts, Quiet
  <2>3. Kept(d)
    BY <1>3, <2>1, <2>2, SideKeeps, ZenonT(40) DEF Kept, OtherInv, Quiet
  <2>4. Quiet(c, d)
    BY <2>1, <2>2 DEF Quiet
  <2>5. BeginEdit(c, h) = Result(d, "OK")
    BY <1>3 DEF BeginEdit, b
  <2> QED
    BY <2>3, <2>4, <2>5, ResultSays DEF Calm, Codes
<1> QED
  BY <1>1, <1>2, <1>3

LEMMA PartialSays ==
  ASSUME NEW c, Kept(c), NEW p \in Partials, c.session_open
  PROVE  Kept([c EXCEPT !.partial = p]) /\ Quiet(c, [c EXCEPT !.partial = p])
<1> DEFINE d == [c EXCEPT !.partial = p]
<1>1. /\ d \in Contexts /\ d.object = c.object /\ Quiet(c, d) /\ d.edit = c.edit
      /\ d.read = c.read
  BY DEF Kept, Contexts, Quiet
<1> QED
  BY <1>1, SideKeeps DEF Kept, OtherInv

LEMMA SendPartialCommandKeeps ==
  ASSUME NEW c, Kept(c), NEW h \in HostHandles, NEW size \in Nat, NEW bad
  PROVE  Calm(c, SendPartialCommand(c, h, size, bad))
<1> DEFINE e == ActiveEdit(ClearPartial(c), h)
           p == [active |-> TRUE, handle |-> h, expected |-> size, written |-> 0]
<1>1. /\ Kept(ClearPartial(c)) /\ Quiet(c, ClearPartial(c))
      /\ Calm(ClearPartial(c), e) /\ (e.code = "OK" => e.c = ClearPartial(c))
  BY ClearPartialKeeps, ActiveEditKeeps
<1>2. e.code = "OK" => Known(e.c, h)
  BY ResultSays DEF ActiveEdit, IsFile
<1> HIDE DEF e
<1>3. Kept(e.c) /\ Quiet(c, e.c) /\ e.code \in Codes
  BY <1>1, QuietTransitive DEF Calm
<1>4. p \in Partials
  BY DEF Partials
<1> HIDE DEF p
<1>5. CASE ~c.session_open
  BY <1>5, ResultSays DEF SendPartialCommand, Calm, Codes, Quiet
<1>6. CASE c.session_open /\ e.code # "OK"
  BY <1>3, <1>6, ResultSays DEF SendPartialCommand, Calm, Codes, e
<1>7. CASE c.session_open /\ e.code = "OK"
  <2>1. Kept(Restat(e.c, h)) /\ Quiet(c, Restat(e.c, h))
    BY <1>2, <1>3, <1>7, RestatKeeps, QuietTransitive
  <2>2. e.c.session_open
    BY <1>3, <1>7 DEF Quiet
  <2>3. Kept([e.c EXCEPT !.partial = p]) /\ Quiet(c, [e.c EXCEPT !.partial = p])
    BY <1>3, <1>4, <2>2, PartialSays, QuietTransitive
  <2>4. SendPartialCommand(c, h, size, bad) \in
          {Result(Restat(e.c, h), "OK"), Err(e.c), Result([e.c EXCEPT !.partial = p], "DATA")}
    BY <1>7 DEF SendPartialCommand, e, p
  <2> QED
    BY <1>3, <2>1, <2>3, <2>4, ResultSays DEF Calm, Codes
<1> QED
  BY <1>5, <1>6, <1>7

LEMMA SendPartialDataKeeps ==
  ASSUME NEW c, Kept(c), NEW h, NEW packets \in Nat, NEW bad
  PROVE  Calm(c, SendPartialData(c, h, packets, bad))
<1> DEFINE k == Takes(c.partial.expected - c.partial.written, packets)
           q == [c.partial EXCEPT !.written = c.partial.written + k]
<1>1. CASE ~c.session_open \/ ~c.partial.active \/ c.partial.handle # h
  BY <1>1, ResultSays DEF SendPartialData, Calm, Codes, Quiet
<1>2. CASE c.session_open /\ c.partial.active /\ c.partial.handle = h
  <2>1. Kept(ClearPartial(c)) /\ Quiet(c, ClearPartial(c))
    BY ClearPartialKeeps
  <2>2. c.partial \in Partials
    BY DEF Kept, Contexts
  <2>3. c.partial.written + k \in Nat
    BY <2>2 DEF Takes, Partials
  <2>4. q \in Partials
    BY <2>2, <2>3 DEF Partials
  <2> HIDE DEF k, q
  <2>5. Kept([c EXCEPT !.partial = q]) /\ Quiet(c, [c EXCEPT !.partial = q])
    BY <1>2, <2>4, PartialSays
  <2>6. SendPartialData(c, h, packets, bad) \in
          {Err(ClearPartial(c)), Result([c EXCEPT !.partial = q], "DATA"),
           Result([c EXCEPT !.partial = q], "OK")}
    BY <1>2 DEF SendPartialData, k, q
  <2> QED
    BY <2>1, <2>5, <2>6, ResultSays DEF Calm, Codes
<1> QED
  BY <1>1, <1>2

LEMMA SendPartialCompleteKeeps ==
  ASSUME NEW c, Kept(c), c.deferred # NoDeferred => c.deferred.op = "SendPartialObject",
         NEW success, NEW bad
  PROVE  LET r == SendPartialComplete(c, success, bad)
         IN Calm(c, r) /\ r.c.deferred = NoDeferred
<1> DEFINE r == SendPartialComplete(c, success, bad)
           t == TakeDeferred(c, "SendPartialObject")
           h == c.partial.handle
           Done(d) == Kept(d) /\ Quiet(c, d) /\ d.deferred = NoDeferred
<1>1. Done(t.c) /\ t.c.object = c.object
  BY TakeKeeps DEF Calm, Quiet
<1> HIDE DEF t
<1>2. Done(NotDeferred(c))
  BY NotDeferredKeeps
<1>3. ASSUME NEW d, Done(d) PROVE Done(ClearPartial(d))
  BY <1>3, ClearPartialKeeps, QuietTransitive DEF Quiet
<1>4. Known(c, h) => Done(Restat(t.c, h))
  <2>1. Known(c, h) => Known(t.c, h)
    BY <1>1 DEF Known, Used
  <2>2. Known(t.c, h) => Kept(Restat(t.c, h)) /\ Quiet(t.c, Restat(t.c, h))
    BY <1>1, RestatKeeps
  <2> QED
    BY <1>1, <2>1, <2>2, QuietTransitive DEF Quiet
<1> HIDE DEF Done
<1>5. \/ r \in {Err(ClearPartial(t.c)), Err(ClearPartial(NotDeferred(c)))}
      \/ /\ Known(c, h)
         /\ r \in {Result(ClearPartial(Restat(t.c, h)), "OK"), Result(ClearPartial(Restat(t.c, h)), "ERR")}
  BY DEF SendPartialComplete, NotDeferred, t
<1> HIDE DEF r
<1>6. Done(r.c) /\ r.code \in Codes
  BY <1>1, <1>2, <1>3, <1>4, <1>5, ResultSays DEF Codes
<1> QED
  BY <1>6 DEF Calm, Done, r

LEMMA TruncateObjectKeeps ==
  ASSUME NEW c, Kept(c), NEW h
  PROVE  Calm(c, TruncateObject(c, h))
BY ActiveEditKeeps, ResultSays DEF TruncateObject, Truncated, Calm, Codes, Quiet

LEMMA EndEditKeeps ==
  ASSUME NEW c, Kept(c), NEW h
  PROVE  Calm(c, EndEdit(c, h))
<1>1. Calm(c, ActiveEdit(c, h)) /\ Calm(c, Err(c))
  BY ActiveEditKeeps, ResultSays DEF Calm, Codes, Quiet
<1>2. CASE ActiveEdit(c, h).code = "OK"
  <2>1. ActiveEdit(c, h).c = c /\ Known(c, h)
    BY <1>2, ActiveEditKeeps, ResultSays DEF ActiveEdit, IsFile
  <2> DEFINE e == ClearEdit(ClearPartial(Restat(c, h)))
  <2>2. Kept(e) /\ Quiet(c, e)
    BY <2>1, RestatKeeps, ClearPartialKeeps, ClearEditKeeps, QuietTransitive
  <2> HIDE DEF e
  <2>3. EndEdit(c, h) \in {Err(c), Result(e, "ERR"), Result(e, "OK")}
    BY <1>2, <2>1 DEF EndEdit, EditEnded, e
  <2> QED
    BY <1>1, <2>2, <2>3, ResultSays DEF Calm, Codes
<1> QED
  BY <1>1, <1>2 DEF EndEdit

LEMMA ReadSays ==
  ASSUME NEW c, Kept(c), NEW r \in ReadsOf, r.active,
         r.path # NoName => StorageOf[r.path] \in c.registered
  PROVE  Kept([c EXCEPT !.read = r]) /\ Quiet(c, [c EXCEPT !.read = r])
<1> DEFINE d == [c EXCEPT !.read = r]
<1>1. /\ d \in Contexts /\ d.object = c.object /\ Quiet(c, d) /\ d.edit = c.edit
      /\ d.partial = c.partial /\ d.read = r
  BY DEF Kept, Contexts, Quiet
<1> HIDE DEF d
<1>2. Kept(d)
  BY <1>1, SideKeeps DEF Kept, OtherInv
<1> QED
  BY <1>1, <1>2 DEF d

LEMMA StartReadKeeps ==
  ASSUME NEW c, Kept(c), NEW h, NEW size \in Nat, NEW bad
  PROVE  Calm(c, StartRead(c, h, size, bad))
<1> DEFINE left == IF size = 0 THEN 0 ELSE size - 1
           r == [active |-> TRUE, path |-> c.object[h], remaining |-> left]
<1>1. Calm(c, Err(c)) /\ Calm(c, Err(NoReading(c)))
  BY ResultSays, NoReadKeeps DEF Calm, Codes, Quiet
<1>2. CASE IsFile(c, h)
  <2>1. h \in Used(c) /\ h \in Handles /\ c.object[h] \in Paths /\ c.object[h] # NoName
    BY <1>2 DEF IsFile, Known, Used, Kept, Contexts
  <2>2. Missing(c, h) => Kept(FreeObject(c, h)) /\ Quiet(c, FreeObject(c, h))
    BY <2>1, MissingKeeps
  <2>3. r \in ReadsOf /\ r.active /\ r.path = c.object[h]
    <3>1. left \in Nat
      OBVIOUS
    <3> HIDE DEF left
    <3> QED
      BY <2>1, <3>1 DEF ReadsOf
  <2> HIDE DEF r
  <2>4. Kept([c EXCEPT !.read = r]) /\ Quiet(c, [c EXCEPT !.read = r])
    BY <2>1, <2>3, ReadSays DEF Kept, ObjectInv
  <2>5. \/ StartRead(c, h, size, bad) \in {Err(c), Err(NoReading(c)), Result([c EXCEPT !.read = r], "DATA")}
        \/ Missing(c, h) /\ StartRead(c, h, size, bad) = Err(FreeObject(c, h))
    BY <1>2 DEF StartRead, NoReading, r
  <2> QED
    BY <1>1, <2>2, <2>4, <2>5, ResultSays DEF Calm, Codes
<1> QED
  BY <1>1, <1>2 DEF StartRead

LEMMA ContinueReadKeeps ==
  ASSUME NEW c, Kept(c), NEW bad
  PROVE  Calm(c, ContinueRead(c, bad))
<1> DEFINE r == [c.read EXCEPT !.remaining = @ - 1]
<1>1. /\ Calm(c, Err(c)) /\ Calm(c, Err(NoReading(c))) /\ Calm(c, Result(c, "DATA"))
  BY ResultSays, NoReadKeeps DEF Calm, Codes, Quiet
<1>2. CASE c.read.active /\ c.read.remaining # 0
  <2>1. c.read \in ReadsOf
    BY DEF Kept, Contexts
  <2>2. c.read.remaining - 1 \in Nat
    BY <1>2, <2>1 DEF ReadsOf
  <2>3. r \in ReadsOf /\ r.active /\ r.path = c.read.path
    BY <1>2, <2>1, <2>2 DEF ReadsOf
  <2>4. [c EXCEPT !.read.remaining = @ - 1] = [c EXCEPT !.read = r]
    OBVIOUS
  <2> HIDE DEF r
  <2>5. Kept([c EXCEPT !.read = r]) /\ Quiet(c, [c EXCEPT !.read = r])
    BY <2>3, ReadSays DEF Kept, OtherInv
  <2>6. ContinueRead(c, bad) \in {Err(NoReading(c)), Result([c EXCEPT !.read = r], "DATA")}
    BY <1>2, <2>4 DEF ContinueRead, NoReading
  <2> QED
    BY <1>1, <2>5, <2>6, ResultSays DEF Calm, Codes
<1> QED
  BY <1>1, <1>2 DEF ContinueRead

LEMMA CompleteReadKeeps ==
  ASSUME NEW c, Kept(c), NEW success
  PROVE  Calm(c, CompleteRead(c, success))
<1>1. CompleteRead(c, success) \in {Result(NoReading(c), "OK"), Result(NoReading(c), "ERR")}
  BY DEF CompleteRead, NoReading
<1> QED
  BY <1>1, NoReadKeeps, ResultSays DEF Calm, Codes

LEMMA StartBufferKeeps ==
  ASSUME NEW c, Kept(c), NEW bad
  PROVE  Calm(c, StartBuffer(c, "GetObjectHandles", bad))
<1> DEFINE d == [c EXCEPT !.buffer = "GetObjectHandles"]
<1>1. /\ d \in Contexts /\ d.object = c.object /\ Quiet(c, d) /\ d.edit = c.edit
      /\ d.partial = c.partial /\ d.read = c.read
  BY DEF Kept, Contexts, Quiet
<1>2. StartBuffer(c, "GetObjectHandles", bad) \in {Err(ClearBuffer(c)), Result(d, "DATA")}
  BY DEF StartBuffer
<1> HIDE DEF d
<1>3. Kept(d)
  BY <1>1, SideKeeps DEF Kept, OtherInv
<1> QED
  BY <1>1, <1>2, <1>3, ClearBufferKeeps, ResultSays DEF Calm, Codes

LEMMA ContinueBufferKeeps ==
  ASSUME NEW c, Kept(c), NEW op, NEW bad
  PROVE  Calm(c, ContinueBuffer(c, op, bad))
BY ClearBufferKeeps, ResultSays DEF ContinueBuffer, Calm, Codes, Quiet

LEMMA GetObjectInfoKeeps ==
  ASSUME NEW c, Kept(c), NEW h, NEW bad
  PROVE  Calm(c, GetObjectInfo(c, h, bad))
<1>1. Known(c, h) /\ Missing(c, h) => Calm(c, Err(FreeObject(c, h)))
  BY MissingKeeps, ResultSays DEF Known, Calm, Codes
<1> QED
  BY <1>1, ResultSays DEF GetObjectInfo, Calm, Codes, Quiet

LEMMA SetPropValueCompleteKeeps ==
  ASSUME NEW c, Kept(c), c.deferred # NoDeferred => c.deferred.op = "SetObjectPropValue",
         NEW success
  PROVE  LET r == SetPropValueComplete(c, success)
         IN Calm(c, r) /\ r.c.deferred = NoDeferred
<1>1. Calm(c, Err(c)) /\ Calm(c, Err(NotDeferred(c)))
  BY NotDeferredKeeps, ResultSays DEF Calm, Codes, Quiet
<1>2. /\ Calm(c, TakeDeferred(c, "SetObjectPropValue"))
      /\ TakeDeferred(c, "SetObjectPropValue").c.deferred = NoDeferred
  BY TakeKeeps DEF Calm, Quiet
<1>3. \/ SetPropValueComplete(c, success) \in
           {Err(NotDeferred(c)), TakeDeferred(c, "SetObjectPropValue")}
      \/ c.deferred.op # "SetObjectPropValue" /\ SetPropValueComplete(c, success) = Err(c)
  BY DEF SetPropValueComplete, NotDeferred
<1> QED
  BY <1>1, <1>2, <1>3, NotDeferredKeeps, ResultSays

-----------------------------------------------------------------------------
(* Handlers that change files or the pending write.                        *)

\* What every handler keeps. When a replacement is over a closed file is there,
\* and after an error the old one.
Handled(c, r) ==
  /\ Kept(r.c) /\ r.code \in Codes
  /\ r.c.cancelled = "this" => c.cancelled = "this"
  /\ r.c.deferred \in {c.deferred, NoDeferred}
  /\ r.c.pending.state = "ZERO_SIZE_COMPLETE" => c.pending.state = "ZERO_SIZE_COMPLETE"
  /\ Replaces(c.pending) /\ r.c.pending.handle = 0 =>
       /\ r.c.fs[c.pending.path] \in AsClosed
       /\ r.code = "ERR" => r.c.fs[c.pending.path] = c.fs[c.pending.path]

LEMMA ReplacesSays ==
  ASSUME NEW c, Kept(c), Replaces(c.pending)
  PROVE  /\ c.pending.path \in Names /\ c.pending.handle # 0
         /\ c.fs[c.pending.path] \in AsClosed
         /\ c.pending.write_path \in Internal /\ c.pending.backup_path \in Internal
         /\ c.pending.write_path # c.pending.backup_path
         /\ c.pending.path \notin Internal
         /\ WritePath(c.pending) = c.pending.write_path
<1>1. c.pending \in Writes /\ c.pending.path # NoName
  BY DEF Kept, PendingInv, Replaces, Contexts
<1>2. c.pending.path \in Names /\ c.pending.write_path \in Internal
  BY <1>1 DEF Writes, Paths, HiddenPaths, Replaces
<1> QED
  BY <1>1, <1>2, NamesApart DEF Kept, PendingInv, ContentInv, WritePath

LEMMA CalmHandled ==
  ASSUME NEW c, Kept(c), NEW r, Calm(c, r)
  PROVE  Handled(c, r) /\ r.c.next = c.next
<1>1. Replaces(c.pending) => c.pending.handle # 0
  BY ReplacesSays
<1> QED
  BY <1>1 DEF Calm, Quiet, Handled

LEMMA AbortHandled ==
  ASSUME NEW c, Kept(c)
  PROVE  /\ Handled(c, Err(AbortPendingWrite(c))) /\ AbortPendingWrite(c).next = c.next
<1>1. IdleWrite.state = "IDLE"
  BY DEF IdleWrite
<1> QED
  BY <1>1, AbortKeeps, ResultSays DEF Handled, Settled, Beside, Codes

\* The files with one of them changed.
LEMMA FileSays ==
  ASSUME NEW c \in Contexts, NEW f \in Files, NEW v \in Contents
  PROVE  LET d == [c EXCEPT !.fs[f] = v]
         IN /\ d \in Contexts /\ Beside(c, d) /\ d.object = c.object /\ d.pending = c.pending
            /\ \A g \in Files : d.fs[g] = IF g = f THEN v ELSE c.fs[g]
<1> DEFINE fs == [c.fs EXCEPT ![f] = v]
<1>1. fs \in [Files -> Contents] /\ \A g \in Files : fs[g] = IF g = f THEN v ELSE c.fs[g]
  BY DEF Contexts
<1>2. [c EXCEPT !.fs[f] = v] = [c EXCEPT !.fs = fs]
  OBVIOUS
<1> HIDE DEF fs
<1> QED
  BY <1>1, <1>2 DEF Contexts, Beside

\* A file that is not being received comes, moves or goes as it was closed.
LEMMA FileKeeps ==
  ASSUME NEW c, Kept(c), NEW n \in Names, n # c.pending.path, 
         NEW v \in {"none", "dir"} \union AsClosed
  PROVE  LET d == [c EXCEPT !.fs[n] = v]
         IN Kept(d) /\ d.pending = c.pending /\ d.object = c.object /\ Beside(c, d)
<1> DEFINE d == [c EXCEPT !.fs[n] = v]
           p == c.pending
<1>1. n \in Files /\ v \in Contents /\ v \notin {"blank", "part"} /\ n \notin Internal
  BY NamesApart, AsClosedSays DEF Files, Contents
<1>2. /\ d \in Contexts /\ Beside(c, d) /\ d.object = c.object /\ d.pending = p
      /\ \A g \in Files : d.fs[g] = IF g = n THEN v ELSE c.fs[g]
  BY <1>1, FileSays DEF Kept
<1> HIDE DEF d
<1>3. p \in Writes
  BY DEF Kept, Contexts
<1>4. p.path # NoName => p.path \in Files /\ p.path # n /\ WritePath(p) \in Files /\ WritePath(p) # n
  BY <1>1, <1>3, NamesApart DEF Writes, Paths, HiddenPaths, Files, WritePath, Replaces
<1>5. Replaces(p) => p.write_path \in Files /\ p.write_path # n
  BY <1>1, <1>3 DEF Writes, HiddenPaths, Replaces, Files
<1>6. PendingInv(d)
  BY <1>2, <1>4 DEF Kept, PendingInv, Beside
<1>7. ContentInv(d)
  BY <1>2, <1>4, <1>5 DEF Kept, ContentInv
<1>8. HalfInv(d) /\ HiddenInv(d)
  BY <1>1, <1>2 DEF Kept, HalfInv, HiddenInv, Files
<1>9. ObjectInv(d) /\ OtherInv(d)
  BY <1>2 DEF Kept, ObjectInv, OtherInv, Beside
<1> QED
  BY <1>2, <1>6, <1>7, <1>8, <1>9 DEF Kept, d

\* The pending write's state moves on.
LEMMA StateSays ==
  ASSUME NEW c \in Contexts, NEW s \in WriteStates
  PROVE  LET d == [c EXCEPT !.pending.state = s]
         IN /\ d \in Contexts /\ Beside(c, d) /\ d.object = c.object /\ d.fs = c.fs
            /\ d.pending \in Writes /\ d.pending.state = s
            /\ d.pending.handle = c.pending.handle /\ d.pending.path = c.pending.path
            /\ d.pending.write_path = c.pending.write_path
            /\ d.pending.backup_path = c.pending.backup_path
            /\ d.pending.expected = c.pending.expected /\ d.pending.written = c.pending.written
            /\ d.pending.file = c.pending.file
            /\ d.pending.created_path = c.pending.created_path
            /\ d.pending.created_object = c.pending.created_object
            /\ d.pending.directory = c.pending.directory
<1> DEFINE p == [c.pending EXCEPT !.state = s]
<1>1. c.pending \in Writes
  BY DEF Contexts
<1>2. /\ p \in Writes /\ p.state = s
      /\ p.handle = c.pending.handle /\ p.path = c.pending.path
      /\ p.write_path = c.pending.write_path /\ p.backup_path = c.pending.backup_path
      /\ p.expected = c.pending.expected /\ p.written = c.pending.written
      /\ p.file = c.pending.file /\ p.created_path = c.pending.created_path /\ p.created_object = c.pending.created_object
      /\ p.directory = c.pending.directory
  BY <1>1 DEF Writes
<1>3. [c EXCEPT !.pending.state = s] = [c EXCEPT !.pending = p]
  OBVIOUS
<1> HIDE DEF p
<1> QED
  BY <1>2, <1>3 DEF Contexts, Beside

LEMMA StateKeeps ==
  ASSUME NEW c, Kept(c), NEW s \in WriteStates,
         \/ c.pending.path = NoName /\ s = "IDLE"
         \/ /\ c.pending.path = NoName /\ s = "ZERO_SIZE_COMPLETE"
            /\ c.deferred = NoDeferred /\ c.cancelled # "this"
         \/ c.pending.state = "WAITING_DATA" /\ s = "RECEIVING_DATA"
  PROVE  Kept([c EXCEPT !.pending.state = s])
<1> DEFINE d == [c EXCEPT !.pending.state = s]
<1>1. /\ d \in Contexts /\ Beside(c, d) /\ d.object = c.object /\ d.fs = c.fs
      /\ d.pending \in Writes /\ d.pending.state = s
      /\ d.pending.handle = c.pending.handle /\ d.pending.path = c.pending.path
      /\ d.pending.write_path = c.pending.write_path
      /\ d.pending.backup_path = c.pending.backup_path
      /\ d.pending.expected = c.pending.expected /\ d.pending.written = c.pending.written
      /\ d.pending.file = c.pending.file
      /\ d.pending.created_path = c.pending.created_path
      /\ d.pending.created_object = c.pending.created_object
      /\ d.pending.directory = c.pending.directory
  BY StateSays DEF Kept
<1> HIDE DEF d
<1>2. c.pending.path = NoName \/ (c.pending.path # NoName /\ c.pending.state = "WAITING_DATA" /\ s = "RECEIVING_DATA")
  BY DEF Kept, PendingInv
<1>3. WritePath(d.pending) = WritePath(c.pending) /\ (Replaces(d.pending) <=> Replaces(c.pending))
  BY <1>1 DEF WritePath, Replaces
<1>4. c.pending.path # NoName => Receives(c.pending) /\ Receives(d.pending)
  BY <1>1, <1>2 DEF Receives
<1>5. PendingInv(d)
  BY <1>1, <1>2 DEF Kept, PendingInv, Beside
<1>6. ContentInv(d)
  BY <1>1, <1>2, <1>3, <1>4 DEF Kept, ContentInv
<1>7. HalfInv(d)
  BY <1>1, <1>3, <1>4, NamesApart DEF Kept, HalfInv
<1>8. HiddenInv(d) /\ ObjectInv(d) /\ OtherInv(d)
  BY <1>1, <1>2 DEF Kept, HiddenInv, ObjectInv, OtherInv, Beside
<1> QED
  BY <1>1, <1>5, <1>6, <1>7, <1>8 DEF Kept, d

LEMMA SendObjectCommandKeeps ==
  ASSUME NEW c, Kept(c), NEW bad
  PROVE  Handled(c, SendObjectCommand(c, bad)) /\ SendObjectCommand(c, bad).c.next = c.next
<1> DEFINE r == SendObjectCommand(c, bad)
           state == c.pending.state
           d == [c EXCEPT !.pending.state = IF @ = "WAITING_DATA" THEN "RECEIVING_DATA" ELSE @]
           e == [c EXCEPT !.pending.state = "RECEIVING_DATA"]
           i == [c EXCEPT !.pending.state = "IDLE"]
<1>1. c \in Contexts /\ state \in WriteStates
  BY DEF Kept, Contexts, Writes
<1>2. Calm(c, Err(c))
  BY ResultSays DEF Calm, Codes, Quiet
<1>3. CASE state = "WAITING_DATA"
  <2>1. d = e
    BY <1>3
  <2>2. /\ Kept(e) /\ e.next = c.next /\ e.cancelled = c.cancelled /\ e.deferred = c.deferred
        /\ e.pending.state = "RECEIVING_DATA" /\ e.pending.handle = c.pending.handle
    BY <1>1, <1>3, StateKeeps, StateSays DEF WriteStates, Beside
  <2>3. r \in {Result(e, "DATA"), Err(AbortPendingWrite(c))}
    BY <1>3, <2>1 DEF SendObjectCommand
  <2> HIDE DEF e, r
  <2>4. Handled(c, Result(e, "DATA")) /\ e.next = c.next
    BY <2>2, ReplacesSays, ResultSays DEF Handled, Codes
  <2> QED
    BY <2>3, <2>4, AbortHandled, ResultSays DEF r
<1>4. CASE state = "RECEIVING_DATA"
  <2>1. d = c
    <3>1. c.pending = [c.pending EXCEPT !.state = state] /\ c = [c EXCEPT !.pending = c.pending]
      BY <1>1 DEF Contexts, Writes
    <3> QED
      BY <1>4, <3>1
  <2>2. r \in {Result(c, "DATA"), Err(AbortPendingWrite(c))}
    BY <1>4, <2>1 DEF SendObjectCommand
  <2> QED
    BY <2>2, AbortHandled, CalmHandled, ResultSays DEF Calm, Codes, Quiet
<1>5. CASE state = "ZERO_SIZE_COMPLETE"
  <2>1. d = c
    <3>1. c.pending = [c.pending EXCEPT !.state = state] /\ c = [c EXCEPT !.pending = c.pending]
      BY <1>1 DEF Contexts, Writes
    <3> QED
      BY <1>5, <3>1
  <2>2. c.pending.path = NoName
    BY <1>5 DEF Kept, PendingInv
  <2>3. Kept(i) /\ i.next = c.next /\ i.cancelled = c.cancelled /\ i.deferred = c.deferred
        /\ i.pending.state = "IDLE" /\ ~Replaces(c.pending)
    BY <1>1, <2>2, StateKeeps, StateSays, ZenonT(40) DEF WriteStates, Beside, Kept, PendingInv, Replaces
  <2>4. r \in {Result(c, "DATA"), Err(i)}
    BY <1>5, <2>1 DEF SendObjectCommand
  <2> HIDE DEF i, r
  <2>5. Handled(c, Err(i))
    BY <2>3, ResultSays DEF Handled, Codes
  <2> QED
    BY <2>3, <2>4, <2>5, CalmHandled, ResultSays DEF Calm, Codes, Quiet, r
<1>6. CASE state \notin {"ZERO_SIZE_COMPLETE", "WAITING_DATA", "RECEIVING_DATA"}
  BY <1>2, <1>6, CalmHandled, ResultSays DEF SendObjectCommand
<1> QED
  BY <1>3, <1>4, <1>5, <1>6

\* A packet of an object, kept in the file it is written to.
Packet(c, done, held) ==
  [c EXCEPT !.pending.file = TRUE, !.pending.written = done, !.fs[WritePath(c.pending)] = held]

LEMMA PacketKeeps ==
  ASSUME NEW c, Kept(c), Receives(c.pending),
         NEW done \in Nat, done <= c.pending.expected,
         NEW held \in {"blank", "part"}
  PROVE  LET d == Packet(c, done, held)
         IN /\ Kept(d) /\ d.next = c.next /\ d.cancelled = c.cancelled /\ d.deferred = c.deferred
            /\ d.pending.state = c.pending.state /\ d.pending.handle = c.pending.handle
<1> DEFINE p == c.pending
           w == WritePath(p)
           q == [p EXCEPT !.file = TRUE, !.written = done]
           fs == [c.fs EXCEPT ![w] = held]
           d == [c EXCEPT !.pending = q, !.fs = fs]
<1>1. Packet(c, done, held) = d
  BY DEF Packet
<1>2. p \in Writes /\ p.path \in Names /\ p.path \notin Internal /\ p.path \in Files
  BY NamesApart DEF Kept, Contexts, Receives, PendingInv, Writes, Paths, Files
<1>3. /\ w \in Files /\ w = (IF Replaces(p) THEN p.write_path ELSE p.path)
      /\ Replaces(p) => w \in Internal
      /\ c.fs[p.path] # "none" /\ p.created_path
  BY <1>2, NamesApart DEF WritePath, Replaces, Writes, HiddenPaths, Files, Kept, PendingInv, ContentInv
<1>4. /\ q \in Writes /\ q.path = p.path /\ q.write_path = p.write_path
      /\ q.backup_path = p.backup_path /\ q.state = p.state /\ q.handle = p.handle
      /\ q.expected = p.expected /\ q.written = done /\ q.file /\ q.created_path = p.created_path
      /\ WritePath(q) = w /\ (Replaces(q) <=> Replaces(p))
  BY <1>2 DEF Writes, WritePath, Replaces
<1>5. fs \in [Files -> Contents] /\ \A g \in Files : fs[g] = IF g = w THEN held ELSE c.fs[g]
  BY <1>3 DEF Kept, Contexts, Contents
<1> HIDE DEF q, fs, w
<1>6. /\ d \in Contexts /\ d.pending = q /\ d.fs = fs /\ Beside(c, d) /\ d.object = c.object
  BY <1>4, <1>5 DEF Kept, Contexts, Beside
<1> HIDE DEF d, p
<1>7. PendingInv(d)
  BY <1>2, <1>3, <1>4, <1>5, <1>6 DEF Kept, PendingInv, Beside, p, Receives
<1>8. ContentInv(d)
  <2>1. CASE Replaces(p)
    <3>1. /\ c.fs[p.path] \in AsClosed /\ p.backup_path \in Internal \ {p.write_path}
          /\ w = p.write_path /\ w # p.path
      BY <2>1, <1>2, <1>3, ReplacesSays DEF p
    <3>2. d.fs[w] = held /\ d.fs[p.path] \in AsClosed
      BY <1>2, <1>3, <1>5, <1>6, <3>1
    <3> QED
      BY <1>3, <1>4, <1>6, <3>1, <3>2 DEF ContentInv, Receives, p
  <2>2. CASE ~Replaces(p)
    BY <2>2, <1>3, <1>4, <1>5, <1>6 DEF ContentInv, Receives, p
  <2> QED
    BY <2>1, <2>2
<1>9. HalfInv(d)
  BY <1>2, <1>3, <1>4, <1>5, <1>6, NamesApart DEF Kept, HalfInv, Receives, p, Files
<1>10. HiddenInv(d)
  BY <1>2, <1>3, <1>4, <1>5, <1>6 DEF Kept, HiddenInv, p, Files
<1>11. ObjectInv(d) /\ OtherInv(d)
  BY <1>4, <1>6 DEF Kept, ObjectInv, OtherInv, Beside, p
<1>12. /\ Kept(d) /\ d.next = c.next /\ d.cancelled = c.cancelled /\ d.deferred = c.deferred
       /\ d.pending.state = c.pending.state /\ d.pending.handle = c.pending.handle
  BY <1>4, <1>6, <1>7, <1>8, <1>9, <1>10, <1>11 DEF Kept, Beside, p
<1> QED
  BY <1>1, <1>12

LEMMA SendObjectDataKeeps ==
  ASSUME NEW c, Kept(c), NEW packets \in Nat, NEW bad
  PROVE  LET r == SendObjectData(c, packets, bad)
         IN /\ Handled(c, r) /\ r.c.next = c.next /\ r.code # "OK"
            /\ r.code # "DATA" => c.pending.state # "ZERO_SIZE_COMPLETE"
<1> DEFINE r == SendObjectData(c, packets, bad)
           p == c.pending
           k == Takes(p.expected - p.written, packets)
           done == p.written + k
           held == IF done = 0 THEN "blank" ELSE "part"
<1>1. Calm(c, Result(c, "DATA")) /\ Calm(c, Err(c))
  BY ResultSays DEF Calm, Codes, Quiet
<1>2. CASE ~Receives(p)
  <2>1. r = IF p.state = "ZERO_SIZE_COMPLETE" THEN Result(c, "DATA") ELSE Err(c)
    BY <1>2 DEF SendObjectData, Receives
  <2> QED
    BY <1>1, <2>1, CalmHandled, ResultSays
<1>3. CASE Receives(p)
  <2>1. p.expected \in Nat /\ p.written \in Nat /\ p.written <= p.expected
    BY <1>3 DEF Kept, Contexts, Writes, PendingInv, Receives
  <2>2. done \in Nat /\ done <= p.expected /\ p.state # "ZERO_SIZE_COMPLETE"
    BY <1>3, <2>1 DEF Takes, Receives
  <2>3. held \in {"blank", "part"}
    OBVIOUS
  <2>4. r \in {Err(AbortPendingWrite(c)), Result(Packet(c, done, held), "DATA")}
    BY <1>3 DEF SendObjectData, Receives, Packet
  <2> HIDE DEF k, done, held, r
  <2>5. Handled(c, Result(Packet(c, done, held), "DATA"))
        /\ Packet(c, done, held).next = c.next
    BY <1>3, <2>2, <2>3, PacketKeeps, ReplacesSays, ResultSays DEF Handled, Codes
  <2> QED
    BY <2>2, <2>4, <2>5, AbortHandled, ResultSays DEF r
<1> QED
  BY <1>2, <1>3

\* The internal name chosen for an object is a free one.
LEMMA InternalPathFree ==
  ASSUME NEW c, NEW h \in Handles, NEW prefix \in {"tmp", "bak"}
  PROVE  LET f == InternalPath(c, prefix, h)
         IN f # NoName => f \in Internal /\ f.prefix = prefix /\ c.fs[f] = "none"
<1> DEFINE name(a) == [prefix |-> prefix, handle |-> h, attempt |-> a]
           free == {a \in 0 .. Attempts - 1 : c.fs[name(a)] = "none"}
           R == OpToRel(<, Nat)
<1>1. CASE free = {}
  BY <1>1 DEF InternalPath
<1>2. CASE free # {}
  <2>1. free \subseteq Nat
    BY MtpAssumption
  <2>2. \E x \in free : \A y \in free : ~(<<y, x>> \in R)
    <3>1. IsWellFoundedOn(R, Nat)
      BY NatLessThanWellFounded
    <3> HIDE DEF free, R
    <3> QED
      BY <1>2, <2>1, <3>1, WFMin
  <2>3. \E x \in free : \A y \in free : x <= y
    <3>1. PICK x \in free : \A y \in free : ~(<<y, x>> \in R)
      BY <2>2
    <3>2. \A y \in free : ~(y < x)
      BY <2>1, <3>1 DEF OpToRel
    <3>3. \A y \in free : x <= y
      BY <2>1, <3>2
    <3> QED
      BY <3>3
  <2>4. (CHOOSE x \in free : \A y \in free : x <= y) \in free
    BY <2>3
  <2>5. InternalPath(c, prefix, h) = name(CHOOSE x \in free : \A y \in free : x <= y)
    BY <1>2 DEF InternalPath
  <2>6. ASSUME NEW a \in free PROVE name(a) \in Internal /\ name(a).prefix = prefix /\ c.fs[name(a)] = "none"
    BY <2>6 DEF Internal
  <2> QED
    BY <2>4, <2>5, <2>6
<1> QED
  BY <1>1, <1>2

\* What GetOrCreate leaves alone, and the object it returns.
LEMMA GetOrCreateSays ==
  ASSUME NEW c \in Contexts, ObjectInv(c), c.next > 0,
         NEW n \in Names, StorageOf[n] \in c.registered
  PROVE  LET r == GetOrCreate(c, n)
             d == r.c
         IN /\ d \in Contexts /\ ObjectInv(d) /\ Beside([c EXCEPT !.next = d.next], d)
            /\ d.fs = c.fs /\ d.pending = c.pending /\ d.next >= c.next
            /\ \A k \in Handles : c.object[k] # NoName /\ c.fs[c.object[k]] # "none"
                                    => d.object[k] = c.object[k]
            /\ r.handle # 0 /\ d.next <= MaxHandle + 1
                 => r.handle \in Handles /\ d.object[r.handle] = n
            /\ r.handle = 0 => d = c
            /\ (\E k \in Used(c) : c.object[k] = n) => d.next = c.next
            /\ d.next <= c.next + 1
<1> DEFINE r == GetOrCreate(c, n)
           cached == {h \in Used(c) : c.object[h] = n}
           gone   == {h \in Used(c) : Missing(c, h)}
           slots  == IF Cardinality(Used(c)) < MaxObjects THEN {c}
                     ELSE {FreeObject(c, h) : h \in gone}
           slot   == CHOOSE s \in slots : TRUE
           made   == [slot EXCEPT !.object[c.next] = n, !.next = @ + 1]
<1>1. r = IF cached # {} THEN [c |-> c, handle |-> CHOOSE h \in cached : TRUE]
          ELSE IF slots = {} THEN [c |-> c, handle |-> 0]
          ELSE [c |-> made, handle |-> c.next]
  BY DEF GetOrCreate
<1>2. n # NoName /\ n \in Paths /\ c.next \in Nat /\ MaxHandle \in Nat
  BY NamesApart, MtpAssumption DEF Paths, Contexts
<1>3. Beside([c EXCEPT !.next = c.next], c)
  BY DEF Beside, Contexts
<1>4. CASE cached # {}
  <2> DEFINE a == CHOOSE h \in cached : TRUE
  <2>1. a \in cached
    BY <1>4
  <2>2. r.c = c /\ r.handle = a
    BY <1>1, <1>4
  <2> HIDE DEF a, r
  <2>3. a \in Handles /\ c.object[a] = n
    BY <2>1 DEF Used
  <2> QED
    BY <1>2, <1>3, <2>2, <2>3 DEF r, Handles
<1>5. CASE cached = {} /\ slots = {}
  <2>1. r.c = c /\ r.handle = 0
    BY <1>1, <1>5
  <2> HIDE DEF r
  <2> QED
    BY <1>2, <1>3, <2>1 DEF r
<1>6. CASE cached = {} /\ slots # {}
  <2>1. slot \in slots
    BY <1>6
  <2>2. slot = c \/ \E h \in gone : slot = FreeObject(c, h)
    BY <2>1
  <2> HIDE DEF slot
  <2>3. /\ slot \in Contexts /\ slot.session_open = c.session_open /\ slot.registered = c.registered
        /\ slot.next = c.next /\ slot.pending = c.pending /\ slot.read = c.read
        /\ slot.edit = c.edit /\ slot.partial = c.partial /\ slot.deferred = c.deferred
        /\ slot.cancelled = c.cancelled /\ slot.fs = c.fs
        /\ \A k \in Handles : \/ slot.object[k] = c.object[k]
                              \/ slot.object[k] = NoName /\ c.fs[c.object[k]] = "none"
    <3>1. CASE slot = c
      BY <3>1
    <3>2. CASE \E h \in gone : slot = FreeObject(c, h)
      <4>1. PICK h \in gone : slot = FreeObject(c, h)
        BY <3>2
      <4>2. h \in HostHandles /\ c.fs[c.object[h]] = "none"
        BY DEF Used, HostHandles, Missing
      <4> QED
        BY <4>1, <4>2, FreeSays
    <3> QED
      BY <2>2, <3>1, <3>2
  <2> DEFINE o == [slot.object EXCEPT ![c.next] = n]
  <2>4. /\ o \in [Handles -> Paths]
        /\ \A k \in Handles : o[k] = IF k = c.next THEN n ELSE slot.object[k]
    BY <1>2, <2>3 DEF Contexts
  <2> DEFINE e == [slot EXCEPT !.object = o]
  <2>5. made = [e EXCEPT !.next = e.next + 1]
    OBVIOUS
  <2> HIDE DEF o, made
  <2>5a. /\ e \in Contexts /\ e.object = o /\ e.next = slot.next
         /\ e.session_open = slot.session_open /\ e.registered = slot.registered
         /\ e.pending = slot.pending /\ e.read = slot.read
         /\ e.edit = slot.edit /\ e.partial = slot.partial /\ e.deferred = slot.deferred
         /\ e.cancelled = slot.cancelled /\ e.fs = slot.fs
    BY <2>3, <2>4, ObjectSays
  <2> HIDE DEF e
  <2>6. /\ made \in Contexts /\ made.object = o /\ made.next = c.next + 1
        /\ made.session_open = c.session_open /\ made.registered = c.registered
        /\ made.pending = c.pending /\ made.read = c.read
        /\ made.edit = c.edit /\ made.partial = c.partial /\ made.deferred = c.deferred
        /\ made.cancelled = c.cancelled /\ made.fs = c.fs
    BY <1>2, <2>3, <2>5, <2>5a DEF Contexts
  <2>7. \A k \in Handles : c.object[k] # NoName => k # c.next
    BY <1>2 DEF ObjectInv, Handles
  <2>8. ObjectInv(made)
    <3> SUFFICES ASSUME NEW h \in Handles, made.object[h] # NoName
                 PROVE  StorageOf[made.object[h]] \in made.registered /\ h < made.next
      BY DEF ObjectInv
    <3>1. CASE h = c.next
      BY <1>2, <2>4, <2>6, <3>1
    <3>2. CASE h # c.next
      <4>1. made.object[h] = c.object[h]
        BY <2>3, <2>4, <2>6, <3>2
      <4>2. StorageOf[c.object[h]] \in c.registered /\ h < c.next /\ h \in Int
        BY <4>1, <1>2 DEF ObjectInv, Handles
      <4> QED
        BY <1>2, <2>6, <4>1, <4>2
    <3> QED
      BY <3>1, <3>2
  <2>9. r.c = made /\ r.handle = c.next
    BY <1>1, <1>6
  <2>10. Beside([c EXCEPT !.next = made.next], made)
    BY <2>6 DEF Beside, Contexts
  <2>11. \A k \in Handles : c.object[k] # NoName /\ c.fs[c.object[k]] # "none"
                              => made.object[k] = c.object[k]
    BY <2>3, <2>4, <2>6, <2>7
  <2>12. c.next + 1 <= MaxHandle + 1 => c.next \in Handles
    BY <1>2 DEF Handles
  <2>13. ~\E k \in Used(c) : c.object[k] = n
    BY <1>6
  <2> HIDE DEF r, cached, slots
  <2> QED
    BY <1>2, <2>4, <2>6, <2>8, <2>9, <2>10, <2>11, <2>12, <2>13 DEF r
<1> QED
  BY <1>4, <1>5, <1>6

LEMMA GetOrCreateKeeps ==
  ASSUME NEW c, Kept(c), NEW n \in Names, StorageOf[n] \in c.registered
  PROVE  LET d == GetOrCreate(c, n).c
         IN /\ Kept(d) /\ d.pending = c.pending /\ d.fs = c.fs
            /\ d.cancelled = c.cancelled /\ d.deferred = c.deferred
            /\ d.registered = c.registered
<1> DEFINE d == GetOrCreate(c, n).c
<1>1. c \in Contexts /\ ObjectInv(c) /\ c.next > 0 /\ c.next \in Nat
  BY DEF Kept, OtherInv, Contexts
<1>2. /\ d \in Contexts /\ ObjectInv(d) /\ Beside([c EXCEPT !.next = d.next], d)
      /\ d.fs = c.fs /\ d.pending = c.pending /\ d.next >= c.next
      /\ \A k \in Handles : c.object[k] # NoName /\ c.fs[c.object[k]] # "none"
                              => d.object[k] = c.object[k]
  BY <1>1, GetOrCreateSays
<1> HIDE DEF d
<1>3. /\ d.session_open = c.session_open /\ d.registered = c.registered
      /\ d.read = c.read /\ d.edit = c.edit /\ d.partial = c.partial
      /\ d.deferred = c.deferred /\ d.cancelled = c.cancelled /\ d.next > 0
  BY <1>1, <1>2 DEF Beside, Contexts
<1>4. PendingInv(d)
  BY <1>2, <1>3 DEF Kept, PendingInv, Contexts, Writes, HostHandles
<1>5. ContentInv(d) /\ HalfInv(d) /\ HiddenInv(d)
  BY <1>2 DEF Kept, ContentInv, HalfInv, HiddenInv
<1>6. OtherInv(d)
  BY <1>2, <1>3 DEF Kept, OtherInv
<1> QED
  BY <1>2, <1>3, <1>4, <1>5, <1>6 DEF Kept, d

\* The target as the data of SendObjectInfo finds or leaves it.
Target(c, n, size, dir, present) ==
  IF present /\ ~dir THEN c.fs[n] \in AsClosed
  ELSE c.fs[n] = IF dir THEN "dir" ELSE IF size = 0 THEN "whole" ELSE "blank"

\* Nothing but the target of the next write may be unfinished.
Cleared(c, n) ==
  /\ c \in Contexts /\ ObjectInv(c) /\ OtherInv(c) /\ c.pending = IdleWrite
  /\ \A k \in Names \ {n} : c.fs[k] \notin {"blank", "part"}
  /\ \A f \in Internal : c.fs[f] = "none"

LEMMA PreparePendingWriteKeeps ==
  ASSUME NEW n \in Names, NEW c, Cleared(c, n), c.session_open, StorageOf[n] \in c.registered,
         NEW h \in Handles, c.object[h] = n, NEW size \in Nat,
         NEW dir \in BOOLEAN, NEW present \in BOOLEAN, NEW created_object \in BOOLEAN, NEW bad,
         Target(c, n, size, dir, present)
  PROVE  LET r == PreparePendingWrite(c, h, n, size, dir, present, created_object, bad)
         IN /\ Kept(r.c) /\ r.code \in {"DATA", "ERR"} /\ r.c.next = c.next
            /\ r.c.cancelled = c.cancelled /\ r.c.deferred = c.deferred
            /\ r.c.pending.state \in {"IDLE", "INFO_PREPARED", "WAITING_DATA"}
            /\ r.c.pending.handle = 0 => present /\ r.c.fs = c.fs
<1> DEFINE r == PreparePendingWrite(c, h, n, size, dir, present, created_object, bad)
           temp    == InternalPath(c, "tmp", h)
           backup  == InternalPath(c, "bak", h)
           replace == present /\ ~dir
           state   == IF ~dir /\ size > 0 THEN "WAITING_DATA" ELSE "INFO_PREPARED"
           wpath   == IF replace THEN temp ELSE NoName
           bpath   == IF replace THEN backup ELSE NoName
           cpath   == ~present \/ replace
           p == [IdleWrite EXCEPT !.state = state, !.handle = h, !.path = n, !.expected = size,
                   !.write_path = wpath, !.backup_path = bpath,
                   !.created_path = cpath, !.created_object = created_object, !.directory = dir]
           held == IF size = 0 THEN "whole" ELSE "blank"
           fs == IF replace THEN [c.fs EXCEPT ![temp] = held] ELSE c.fs
           d == [c EXCEPT !.pending = p, !.fs = fs]
           e == IF created_object THEN FreeObject(c, h) ELSE c
<1>1. /\ c \in Contexts /\ n # NoName /\ n \notin Internal /\ n \in Paths /\ n \in Files
      /\ h \in HostHandles /\ h # 0 /\ h \in Handles
  BY NamesApart DEF Cleared, Paths, Files, HostHandles, Handles
<1>2. CASE replace /\ (temp = NoName \/ backup = NoName \/ "open" \in bad)
  <2>1. r = Err(e)
    BY <1>2 DEF PreparePendingWrite
  <2>2. Settled(c) /\ Kept(c)
    <3>1. c.fs[n] \notin {"blank", "part"}
      BY <1>2, AsClosedSays DEF Target
    <3>2. Settled(c)
      BY <3>1 DEF Cleared, Settled
    <3>3. PendingInv(c) /\ ContentInv(c) /\ HalfInv(c) /\ HiddenInv(c)
      BY <3>2, IdleWriteSays DEF Settled, PendingInv, ContentInv, HalfInv, HiddenInv
    <3> QED
      BY <3>2, <3>3 DEF Cleared, Kept
  <2>3. /\ Kept(e) /\ e.next = c.next /\ e.cancelled = c.cancelled /\ e.deferred = c.deferred
        /\ e.pending = IdleWrite /\ e.fs = c.fs
    <3>1. c.pending = IdleWrite /\ c.pending.path = NoName
      BY <2>2, IdleWriteSays DEF Settled
    <3> QED
      BY <1>1, <2>2, <3>1, FreeKeeps, FreeSays
  <2>4. r.c = e /\ r.code = "ERR" /\ present
    BY <1>2, <2>1, ResultSays, ZenonT(40)
  <2> HIDE DEF e, r, temp, backup
  <2>5. r.c.pending.state = "IDLE" /\ r.c.fs = c.fs /\ Kept(r.c)
    BY <2>3, <2>4, IdleWriteSays
  <2> QED
    BY <2>3, <2>4, <2>5 DEF r
<1>3. CASE ~(replace /\ (temp = NoName \/ backup = NoName \/ "open" \in bad))
  <2>1. r = Result(d, "DATA")
    BY <1>3 DEF PreparePendingWrite
  <2>2. replace => /\ temp \in Internal /\ backup \in Internal /\ temp # backup
                   /\ temp # n /\ temp # NoName /\ temp \in Files
    <3>1. temp # NoName => temp \in Internal /\ temp.prefix = "tmp"
      BY InternalPathFree
    <3>2. backup # NoName => backup \in Internal /\ backup.prefix = "bak"
      BY InternalPathFree
    <3> HIDE DEF temp, backup
    <3> QED
      BY <1>1, <1>3, <3>1, <3>2 DEF Files
  <2> HIDE DEF temp, backup
  <2>3. /\ wpath \in HiddenPaths /\ bpath \in HiddenPaths /\ cpath \in BOOLEAN
        /\ state \in WriteStates /\ held \in {"whole", "blank"}
    BY <2>2 DEF HiddenPaths, WriteStates
  <2>4. (wpath # NoName <=> replace) /\ (replace => wpath = temp /\ bpath = backup)
    BY <2>2
  <2>5. /\ state \in {"INFO_PREPARED", "WAITING_DATA"}
        /\ state = "WAITING_DATA" <=> ~dir /\ size > 0
        /\ cpath <=> (~present \/ replace)
        /\ held = "blank" => size > 0
    OBVIOUS
  <2>6. /\ fs \in [Files -> Contents]
        /\ \A f \in Files : fs[f] = IF replace /\ f = temp THEN held ELSE c.fs[f]
    <3>1. c.fs \in [Files -> Contents] /\ held \in Contents
      BY <1>1, AsClosedSays DEF Contexts, Contents
    <3> HIDE DEF held
    <3>2. CASE replace
      BY <2>2, <3>1, <3>2
    <3>3. CASE ~replace
      BY <3>1, <3>3
    <3> QED
      BY <3>2, <3>3
  <2> HIDE DEF state, wpath, bpath, cpath
  <2>7. /\ p \in Writes /\ p.state = state /\ p.handle = h /\ p.path = n /\ p.expected = size
        /\ p.written = 0 /\ p.write_path = wpath /\ p.backup_path = bpath
        /\ p.created_path = cpath
    BY <1>1, <2>3 DEF IdleWrite, Writes
  <2> HIDE DEF p, fs, held
  <2>8. /\ d \in Contexts /\ Beside(c, d) /\ d.object = c.object /\ d.pending = p /\ d.fs = fs
    BY <1>1, <2>6, <2>7 DEF Contexts, Beside
  <2> HIDE DEF d, r
  <2>9. /\ replace <=> Replaces(p)
        /\ WritePath(p) = IF replace THEN temp ELSE n
        /\ Receives(p) <=> state = "WAITING_DATA"
    BY <2>4, <2>5, <2>7 DEF Replaces, WritePath, Receives
  <2>10. d.fs[n] = c.fs[n] /\ (replace => d.fs[temp] = held)
    BY <1>1, <2>2, <2>6, <2>8
  <2>11. PendingInv(d)
    <3>1. c.fs[n] # "none"
      BY AsClosedSays DEF Target
    <3> QED
      BY <1>1, <2>5, <2>7, <2>8, <2>10, <3>1 DEF PendingInv, Beside
  <2>12. ContentInv(d)
    <3>1. CASE replace
      <4>1. c.fs[n] \in AsClosed
        BY <3>1 DEF Target
      <4>2. WritePath(p) = temp /\ p.write_path = temp /\ p.backup_path = backup /\ p.created_path
        BY <3>1, <2>4, <2>5, <2>7, <2>9
      <4>3. state = "WAITING_DATA" => p.written # p.expected
        BY <2>5, <2>7
      <4>4. state = "INFO_PREPARED" => held \in AsClosed
        BY <2>5, <3>1, AsClosedSays DEF held
      <4>5. held # "none"
        BY <2>3
      <4> QED
        BY <2>2, <2>5, <2>7, <2>8, <2>9, <2>10, <3>1, <4>1, <4>2, <4>3, <4>4, <4>5 DEF ContentInv
    <3>2. CASE ~replace
      <4>1. ~Replaces(p)
        BY <3>2, <2>9
      <4>2. Receives(p) => p.created_path /\ p.written # p.expected
        BY <3>2, <2>5, <2>7, <2>9
      <4> QED
        BY <2>7, <2>8, <4>1, <4>2 DEF ContentInv
    <3> QED
      BY <3>1, <3>2
  <2>13. HalfInv(d)
    <3> SUFFICES ASSUME NEW k \in Names, d.fs[k] \in {"blank", "part"}
                 PROVE  k = n /\ ~replace /\ state = "WAITING_DATA"
      BY <2>7, <2>8, <2>9 DEF HalfInv
    <3>1. k \in Files /\ k \notin Internal
      BY NamesApart DEF Files
    <3>2. c.fs[k] \in {"blank", "part"}
      BY <2>2, <2>6, <2>8, <3>1
    <3>3. k = n
      BY <3>2 DEF Cleared
    <3> QED
      BY <2>5, <3>2, <3>3, AsClosedSays DEF Target
  <2>14. HiddenInv(d)
    <3> SUFFICES ASSUME NEW f \in Internal, d.fs[f] # "none" PROVE f = wpath
      BY <2>7, <2>8 DEF HiddenInv
    <3>1. f \in Files /\ c.fs[f] = "none"
      BY DEF Files, Cleared
    <3> QED
      BY <2>4, <2>6, <2>8, <3>1
  <2>15. ObjectInv(d) /\ OtherInv(d)
    BY <2>5, <2>7, <2>8 DEF Cleared, ObjectInv, OtherInv, Beside
  <2> QED
    BY <1>1, <2>1, <2>5, <2>7, <2>8, <2>11, <2>12, <2>13, <2>14, <2>15, ResultSays DEF Kept, Beside, r
<1> QED
  BY <1>2, <1>3

LEMMA SendObjectInfoDataKeeps ==
  ASSUME NEW c0, Kept(c0), NEW n \in Names, NEW size \in Nat, NEW dir \in BOOLEAN, NEW bad,
         c0.next <= MaxHandle + 1,
         \/ c0.next <= MaxHandle
         \/ \E h \in Used(AbortPendingWrite(c0)) : AbortPendingWrite(c0).object[h] = n
  PROVE  LET r == SendObjectInfoData(c0, n, size, dir, bad)
         IN /\ Handled(c0, r) /\ r.c.next <= MaxHandle + 1
            /\ r.code # "OK" /\ (r.code = "DATA" => r.c.pending.state # "RECEIVING_DATA")
<1> DEFINE r == SendObjectInfoData(c0, n, size, dir, bad)
           c == AbortPendingWrite(c0)
           present == c.fs[n] # "none"
           refused == \/ present /\ ((c.fs[n] = "dir") # dir)
                      \/ ~present /\ "open" \in bad
           new == IF dir THEN "dir" ELSE IF size = 0 THEN "whole" ELSE "blank"
           made == IF present THEN c ELSE [c EXCEPT !.fs[n] = new]
           got == GetOrCreate(made, n)
           created_object == ~present \/ \A h \in Used(c) : c.object[h] # n
           g == PreparePendingWrite(got.c, got.handle, n, size, dir, present, created_object, bad)
<1>1. /\ Kept(c) /\ Settled(c) /\ Beside(c0, c) /\ Handled(c0, Err(c))
      /\ Replaces(c0.pending) => /\ c.fs[c0.pending.path] \in AsClosed
                                 /\ c.fs[c0.pending.path] = c0.fs[c0.pending.path]
  BY AbortKeeps, AbortHandled
<1>2. r = IF ~c0.session_open \/ StorageOf[n] \notin c0.registered THEN Err(c0)
          ELSE IF refused \/ got.handle = 0 THEN Err(c) ELSE g
  BY DEF SendObjectInfoData
<1>3. Handled(c0, Err(c0)) /\ c0.next \in Nat /\ c0.next > 0 /\ c0.next <= c0.next + 1
  BY CalmHandled, ResultSays, SMTT(30) DEF Calm, Codes, Quiet, Kept, Contexts, OtherInv
<1>4. n \in Files /\ c \in Contexts /\ created_object \in BOOLEAN /\ present \in BOOLEAN
      /\ new \in Contents /\ n \notin Internal
  BY <1>1, NamesApart, AsClosedSays DEF Files, Contents, Kept
<1> HIDE DEF c
<1>5. CASE ~c0.session_open \/ StorageOf[n] \notin c0.registered \/ refused \/ got.handle = 0
  <2>1. r \in {Err(c0), Err(c)}
    BY <1>2, <1>5
  <2>2. r.c.next = c0.next /\ r.code = "ERR" /\ Handled(c0, r)
    BY <1>1, <1>3, <2>1, ResultSays DEF Beside
  <2> HIDE DEF r
  <2> QED
    BY <2>2 DEF r
<1>6. CASE c0.session_open /\ StorageOf[n] \in c0.registered /\ ~refused /\ got.handle # 0
  <2>1. r = g
    BY <1>2, <1>6
  <2>2. /\ made \in Contexts /\ made.object = c.object /\ made.pending = IdleWrite /\ Beside(c, made)
        /\ \A f \in Files : made.fs[f] = IF f = n /\ ~present THEN new ELSE c.fs[f]
    <3> HIDE DEF new
    <3>1. CASE present
      BY <3>1, <1>1, <1>4 DEF Beside, Settled
    <3>2. CASE ~present
      BY <3>2, <1>1, <1>4, FileSays DEF Settled
    <3> QED
      BY <3>1, <3>2
  <2>3. Target(made, n, size, dir, present)
    <3>1. c.fs[n] \in Contents /\ c.fs[n] \notin {"blank", "part"}
      BY <1>1, <1>4 DEF Settled, Contexts
    <3>2. CASE present
      <4>1. IF dir THEN c.fs[n] = "dir" ELSE c.fs[n] \in AsClosed
        BY <1>6, <3>1, <3>2 DEF Contents
      <4> QED
        BY <1>4, <2>2, <3>2, <4>1 DEF Target
    <3>3. CASE ~present
      BY <1>4, <2>2, <3>3 DEF Target
    <3> QED
      BY <3>2, <3>3
  <2> HIDE DEF new, present, created_object, made
  <2>4. ObjectInv(made) /\ OtherInv(made) /\ made.next = c0.next /\ made.registered = c0.registered
        /\ made.session_open
    BY <1>1, <1>6, <2>2, IdleWriteSays DEF Kept, ObjectInv, OtherInv, Beside
  <2> DEFINE d == got.c
  <2>5. /\ d \in Contexts /\ ObjectInv(d) /\ Beside([made EXCEPT !.next = d.next], d)
        /\ d.fs = made.fs /\ d.pending = made.pending /\ d.next >= made.next
        /\ (d.next <= MaxHandle + 1 => got.handle \in Handles /\ d.object[got.handle] = n)
        /\ (\E k \in Used(made) : made.object[k] = n) => d.next = made.next
        /\ d.next <= made.next + 1
    BY <1>3, <1>6, <2>2, <2>4, GetOrCreateSays
  <2> HIDE DEF got
  <2>6. /\ d.session_open /\ d.registered = c0.registered /\ d.read = c0.read /\ d.edit = c0.edit
        /\ d.partial = c0.partial /\ d.deferred = c0.deferred /\ d.cancelled = c0.cancelled
        /\ d.next \in Nat /\ d.next > 0
    BY <1>1, <1>3, <2>2, <2>4, <2>5 DEF Beside, Contexts
  <2>7. Cleared(d, n)
    <3>1. OtherInv(d)
      BY <2>2, <2>5, <2>6, IdleWriteSays DEF Kept, OtherInv
    <3>2. \A k \in Names \ {n} : d.fs[k] \notin {"blank", "part"}
      BY <1>1, <2>2, <2>5 DEF Settled, Files
    <3>3. \A f \in Internal : d.fs[f] = "none"
      BY <1>1, <1>4, <2>2, <2>5 DEF Settled, Files
    <3> QED
      BY <2>2, <2>5, <3>1, <3>2, <3>3 DEF Cleared
  <2>8. d.next <= MaxHandle + 1
    <3>1. MaxHandle \in Nat
      BY MtpAssumption
    <3>2. CASE c0.next <= MaxHandle
      BY <3>1, <3>2, <1>3, <2>4, <2>5, <2>6
    <3>3. CASE \E h \in Used(c) : c.object[h] = n
      <4>1. \E h \in Used(made) : made.object[h] = n
        BY <3>3, <2>2 DEF Used
      <4> QED
        BY <4>1, <3>1, <1>3, <2>4, <2>5, <2>6
    <3> QED
      BY <3>2, <3>3 DEF c
  <2>9. /\ Kept(g.c) /\ g.code \in {"DATA", "ERR"} /\ g.c.next = d.next
        /\ g.c.cancelled = d.cancelled /\ g.c.deferred = d.deferred
        /\ g.c.pending.state \in {"IDLE", "INFO_PREPARED", "WAITING_DATA"}
        /\ g.c.pending.handle = 0 => present /\ g.c.fs = d.fs
    <3>1. got.handle \in Handles /\ d.object[got.handle] = n
      BY <2>5, <2>8
    <3>2. d.session_open /\ StorageOf[n] \in d.registered
      BY <1>6, <2>6
    <3>3. Target(d, n, size, dir, present)
      BY <2>3, <2>5 DEF Target
    <3> QED
      BY <1>4, <2>7, <3>1, <3>2, <3>3, PreparePendingWriteKeeps
  <2> HIDE DEF r, g
  <2>10. Replaces(c0.pending) /\ r.c.pending.handle = 0 =>
           /\ r.c.fs[c0.pending.path] \in AsClosed
           /\ r.c.fs[c0.pending.path] = c0.fs[c0.pending.path]
    <3> SUFFICES ASSUME Replaces(c0.pending), r.c.pending.handle = 0
                 PROVE  /\ r.c.fs[c0.pending.path] \in AsClosed
                        /\ r.c.fs[c0.pending.path] = c0.fs[c0.pending.path]
      OBVIOUS
    <3>1. c0.pending.path \in Files
      BY ReplacesSays DEF Files
    <3>2. r.c.fs = made.fs /\ present
      BY <2>1, <2>5, <2>9
    <3> QED
      BY <1>1, <2>2, <3>1, <3>2
  <2> QED
    BY <2>1, <2>6, <2>8, <2>9, <2>10 DEF Handled, Codes, r
<1> QED
  BY <1>5, <1>6

\* A replacement whose temporary file is closed is over, and nothing hidden is
\* left.
LEMMA CommitReplacementSays ==
  ASSUME NEW c, Kept(c), Replaces(c.pending), c.fs[c.pending.write_path] \in AsClosed,
         NEW bad, bad \in Faulty(OnComplete), "unlink" \notin Faults
  PROVE  LET r == CommitReplacement(c, bad)
             d == [r.c EXCEPT !.pending = IdleWrite]
         IN /\ Kept(d) /\ Settled(d) /\ Beside(c, d) /\ d.fs[c.pending.path] \in AsClosed
            /\ r.code \in {"OK", "ERR"} /\ (r.code = "OK" => d.object = c.object)
            /\ r.code = "ERR" => d.fs[c.pending.path] = c.fs[c.pending.path]
<1> DEFINE p == c.pending
           t == p.path
           b == p.backup_path
           w == p.write_path
           backed == [c.fs EXCEPT ![b] = c.fs[t], ![t] = "none"]
           placed == [backed EXCEPT ![t] = c.fs[w], ![w] = "none"]
           r == CommitReplacement(c, bad)
           d == [r.c EXCEPT !.pending = IdleWrite]
<1>1. /\ t \in Names /\ t \notin Internal /\ b \in Internal /\ w \in Internal /\ b # w
      /\ p.handle # 0 /\ c.fs[t] \in AsClosed /\ t \in Files /\ b \in Files /\ w \in Files
      /\ c.fs \in [Files -> Contents] /\ c \in Contexts
  BY ReplacesSays DEF Files, Kept, Contexts
<1>2. c.fs[w] \in AsClosed /\ AsClosed \subseteq Contents \ {"none", "blank", "part"}
  BY AsClosedSays
<1>3. /\ \A f \in Internal : c.fs[f] # "none" => f = w
      /\ \A n \in Names : c.fs[n] \notin {"blank", "part"}
  BY DEF Kept, HiddenInv, HalfInv
<1>4. ~("replace" \in bad /\ "restore" \in bad) /\ "unlink" \notin bad
  BY DEF Faulty, OnComplete
<1> DEFINE Ended(fs) == /\ fs \in [Files -> Contents] /\ fs[t] \in AsClosed
                        /\ \A f \in Internal : fs[f] = "none"
                        /\ \A n \in Names : fs[n] \notin {"blank", "part"}
<1>5. ASSUME NEW fs, Ended(fs), NEW created \in BOOLEAN, NEW code \in {"OK", "ERR"},
             code = "ERR" => fs[t] = c.fs[t],
             r = Result([c EXCEPT !.pending.created_path = created, !.fs = fs], code)
      PROVE  /\ Kept(d) /\ Settled(d) /\ Beside(c, d) /\ d.fs[t] \in AsClosed
             /\ r.code \in {"OK", "ERR"} /\ d.object = c.object
             /\ r.code = "ERR" => d.fs[t] = c.fs[t]
  <2> DEFINE x == [c EXCEPT !.pending.created_path = created, !.fs = fs]
  <2>1. /\ x \in Contexts /\ x.fs = fs /\ x.object = c.object /\ Beside(c, x)
        /\ d = [x EXCEPT !.pending = IdleWrite]
    <3>1. [c.pending EXCEPT !.created_path = created] \in Writes
      BY <1>1 DEF Contexts, Writes
    <3>2. x \in Contexts /\ x.fs = fs /\ x.object = c.object /\ Beside(c, x)
      BY <1>1, <1>5, <3>1 DEF Contexts, Beside
    <3>3. r.c = x
      BY <1>5, ResultSays
    <3> QED
      BY <3>2, <3>3
  <2> HIDE DEF d, x
  <2>2. d \in Contexts /\ d.pending = IdleWrite /\ d.fs = fs /\ d.object = c.object /\ Beside(c, d)
    BY <2>1, IdleWriteSays DEF Contexts, Beside
  <2>3. Settled(d) /\ ObjectInv(d)
    BY <1>5, <2>2 DEF Settled, Kept, ObjectInv, Beside
  <2> QED
    BY <1>5, <2>2, <2>3, SettledKept, ResultSays
<1>6. CASE c.fs[t] = "none" \/ "backup" \in bad
  <2> DEFINE a == AbortPendingWrite(c)
  <2>1. r = Err(a)
    BY <1>6 DEF CommitReplacement
  <2>2. Kept(a) /\ Settled(a) /\ Beside(c, a) /\ a.fs[t] \in AsClosed /\ a.fs[t] = c.fs[t]
    BY AbortKeeps
  <2> HIDE DEF a
  <2>3. d = [a EXCEPT !.pending = a.pending]
    BY <2>1, <2>2, ResultSays DEF Settled
  <2>4. d = a
    BY <2>2, <2>3 DEF Kept, Contexts
  <2> QED
    BY <2>1, <2>2, <2>4, ResultSays
<1>7. CASE c.fs[t] # "none" /\ "backup" \notin bad /\ "replace" \in bad
  <2> DEFINE fs == RemovePath(c.fs, w)
  <2>1. Ended(fs) /\ fs[t] = c.fs[t]
    BY <1>1, <1>3 DEF RemovePath, Contents, Files
  <2>2. r = Err([c EXCEPT !.fs = fs, !.pending.created_path = FALSE])
    BY <1>4, <1>7 DEF CommitReplacement, Restored
  <2> HIDE DEF fs
  <2>3. r = Result([c EXCEPT !.pending.created_path = FALSE, !.fs = fs], "ERR")
    BY <1>1, <2>2 DEF Err, Contexts
  <2> HIDE DEF Ended, r, d
  <2> QED
    BY <1>5, <2>1, <2>3 DEF r, d
<1>8. CASE c.fs[t] # "none" /\ "backup" \notin bad /\ "replace" \notin bad
  <2> DEFINE fs == RemovePath(placed, b)
  <2>1. Ended(fs)
    <3>1. \A f \in Files : backed[f] = IF f = t THEN "none" ELSE IF f = b THEN c.fs[t] ELSE c.fs[f]
      BY <1>1
    <3>2. \A f \in Files : placed[f] = IF f = w THEN "none" ELSE IF f = t THEN c.fs[w] ELSE backed[f]
      BY <1>1
    <3>3. backed \in [Files -> Contents] /\ placed \in [Files -> Contents]
      BY <1>1 DEF Contents
    <3> HIDE DEF backed, placed
    <3>4. \A f \in Files : fs[f] = IF f = b THEN "none" ELSE placed[f]
      BY <1>1, <3>3 DEF RemovePath
    <3>5. fs \in [Files -> Contents]
      BY <1>1, <3>3 DEF RemovePath, Contents
    <3> HIDE DEF fs
    <3> QED
      BY <1>1, <1>2, <1>3, <3>1, <3>2, <3>4, <3>5 DEF Files
  <2>2. r = Result([c EXCEPT !.pending.created_path = FALSE, !.fs = fs], "OK")
    BY <1>4, <1>8 DEF CommitReplacement
  <2> HIDE DEF Ended, r, d, fs
  <2> QED
    BY <1>5, <2>1, <2>2 DEF r, d
<1> QED
  BY <1>6, <1>7, <1>8

\* Closing the file keeps everything, and what was all received is a closed file.
LEMMA ClosedKeeps ==
  ASSUME NEW c, Kept(c), c.pending.path # NoName, NEW bad, bad \in Faulty(OnComplete)
  PROVE  LET d == Closed(c, bad)
             p == c.pending
         IN /\ Kept(d) /\ Beside(c, d) /\ d.object = c.object
            /\ d.pending.path = p.path /\ d.pending.write_path = p.write_path
            /\ Receives(d.pending) <=> Receives(p)
            /\ Receives(p) /\ AllWritten(p) => d.fs[WritePath(p)] \in AsClosed
            /\ Replaces(p) => d.fs[p.path] = c.fs[p.path]
<1> DEFINE p == c.pending
           w == WritePath(p)
           v == IF "close" \in bad THEN "short" ELSE "whole"
           q == [p EXCEPT !.file = FALSE]
           fs == [c.fs EXCEPT ![w] = v]
           d == [c EXCEPT !.pending = q, !.fs = fs]
<1>1. CASE ~p.file
  <2>1. Closed(c, bad) = c /\ Beside(c, c)
    BY <1>1 DEF Closed, Beside
  <2>2. Receives(p) /\ AllWritten(p) => c.fs[w] \in AsClosed
    BY <1>1 DEF Kept, ContentInv, AllWritten
  <2> QED
    BY <2>1, <2>2
<1>2. CASE p.file
  <2>1. Closed(c, bad) = d
    BY <1>2 DEF Closed
  <2>2. v \in AsClosed /\ v \in Contents /\ v \notin {"none", "blank", "part"}
    BY AsClosedSays DEF Faulty
  <2>3. /\ p \in Writes /\ p.path \in Names /\ p.path \notin Internal /\ p.path \in Files
        /\ c \in Contexts /\ c.fs \in [Files -> Contents]
    BY NamesApart DEF Kept, Contexts, Writes, Paths, Files
  <2>4. w \in Files /\ (Replaces(p) => w = p.write_path /\ w \in Internal) /\ (~Replaces(p) => w = p.path)
    BY <2>3 DEF WritePath, Replaces, Writes, HiddenPaths, Files
  <2>5. /\ q \in Writes /\ q.path = p.path /\ q.write_path = p.write_path
        /\ q.backup_path = p.backup_path /\ q.state = p.state /\ q.handle = p.handle
        /\ q.expected = p.expected /\ q.written = p.written /\ q.created_path = p.created_path
        /\ q.created_object = p.created_object
        /\ WritePath(q) = w /\ (Replaces(q) <=> Replaces(p)) /\ (Receives(q) <=> Receives(p))
    BY <2>3 DEF Writes, WritePath, Replaces, Receives
  <2> HIDE DEF v
  <2>6. fs \in [Files -> Contents] /\ \A g \in Files : fs[g] = IF g = w THEN v ELSE c.fs[g]
    BY <2>2, <2>3, <2>4
  <2> HIDE DEF q, fs, w
  <2>7. /\ d \in Contexts /\ d.pending = q /\ d.fs = fs /\ Beside(c, d) /\ d.object = c.object
    BY <2>3, <2>5, <2>6 DEF Contexts, Beside
  <2> HIDE DEF d, p
  <2>8. PendingInv(d)
    BY <2>2, <2>3, <2>5, <2>6, <2>7 DEF Kept, PendingInv, Beside, p
  <2>9. ContentInv(d)
    <3>1. d.fs[w] \in AsClosed /\ d.fs[w] # "none"
      BY <2>2, <2>4, <2>6, <2>7
    <3>2. Replaces(p) => d.fs[p.path] = c.fs[p.path]
      BY <2>3, <2>4, <2>6, <2>7
    <3> QED
      BY <2>4, <2>5, <2>7, <3>1, <3>2 DEF Kept, ContentInv, p
  <2>10. HalfInv(d) /\ HiddenInv(d)
    BY <2>2, <2>3, <2>4, <2>5, <2>6, <2>7, NamesApart DEF Kept, HalfInv, HiddenInv, p, Files
  <2>11. ObjectInv(d) /\ OtherInv(d)
    BY <2>5, <2>7 DEF Kept, ObjectInv, OtherInv, Beside, p
  <2>12. d.fs[w] \in AsClosed /\ (Replaces(p) => d.fs[p.path] = c.fs[p.path])
    BY <2>2, <2>3, <2>4, <2>6, <2>7
  <2>13. Kept(d)
    BY <2>7, <2>8, <2>9, <2>10, <2>11 DEF Kept
  <2> QED
    BY <2>1, <2>5, <2>7, <2>12, <2>13 DEF p, w
<1> QED
  BY <1>1, <1>2

LEMMA FinishPendingWriteKeeps ==
  ASSUME NEW c, Kept(c), Receives(c.pending) => AllWritten(c.pending),
         NEW bad, bad \in Faulty(OnComplete), "unlink" \notin Faults
  PROVE  LET r == FinishPendingWrite(c, bad)
         IN /\ Handled(c, r) /\ r.c.next = c.next /\ r.code \in {"OK", "ERR"}
            /\ r.c.pending.path = NoName /\ r.c.cancelled = c.cancelled /\ r.c.deferred = c.deferred
            /\ Receives(c.pending) /\ r.code = "OK" =>
                 /\ r.c.fs[c.pending.path] \in AsClosed
                 /\ r.c.object[c.pending.handle] = c.pending.path
<1> DEFINE p == c.pending
           x == Closed(c, bad)
           r == FinishPendingWrite(c, bad)
           q == IF Replaces(p) THEN CommitReplacement(x, bad) ELSE Result(x, "OK")
           d == [q.c EXCEPT !.pending = IdleWrite]
<1>1. p.handle = 0 <=> p.path = NoName
  BY DEF Kept, PendingInv
<1>2. CASE p.path = NoName
  <2>1. r = Err(c) /\ ~Receives(p)
    BY <1>1, <1>2 DEF FinishPendingWrite, Kept, PendingInv, Receives
  <2>2. Calm(c, r)
    BY <2>1, ResultSays DEF Calm, Codes, Quiet
  <2>3. Handled(c, r) /\ r.c = c /\ r.code = "ERR"
    BY <2>1, <2>2, CalmHandled, ResultSays
  <2> HIDE DEF r
  <2> QED
    BY <1>2, <2>1, <2>3 DEF r
<1>3. CASE p.path # NoName
  <2>1. r = Result(d, q.code)
    BY <1>1, <1>3 DEF FinishPendingWrite
  <2>2. /\ Kept(x) /\ Beside(c, x) /\ x.object = c.object
        /\ x.pending.path = p.path /\ x.pending.write_path = p.write_path
        /\ Receives(x.pending) <=> Receives(p)
        /\ Receives(p) => x.fs[WritePath(p)] \in AsClosed
        /\ Replaces(p) => x.fs[p.path] = c.fs[p.path]
    BY <1>3, ClosedKeeps
  <2> HIDE DEF x
  <2>3. Replaces(x.pending) <=> Replaces(p)
    BY <2>2 DEF Replaces
  <2>4. /\ Kept(d) /\ Settled(d) /\ Beside(c, d) /\ q.code \in {"OK", "ERR"}
        /\ (q.code = "OK" => d.object = c.object)
        /\ (Replaces(p) => d.fs[p.path] \in AsClosed)
        /\ (Replaces(p) /\ q.code = "ERR" => d.fs[p.path] = c.fs[p.path])
        /\ (~Replaces(p) => d.fs = x.fs)
    <3>1. CASE Replaces(p)
      <4>1. x.fs[x.pending.write_path] \in AsClosed
        BY <2>2, <2>3, <3>1 DEF Kept, PendingInv, ContentInv, WritePath, Replaces
      <4>2. /\ Kept(d) /\ Settled(d) /\ Beside(x, d) /\ d.fs[x.pending.path] \in AsClosed
            /\ q.code \in {"OK", "ERR"} /\ (q.code = "OK" => d.object = x.object)
            /\ q.code = "ERR" => d.fs[x.pending.path] = x.fs[x.pending.path]
        BY <2>2, <2>3, <3>1, <4>1, CommitReplacementSays
      <4> HIDE DEF q, d
      <4> QED
        BY <2>2, <3>1, <4>2 DEF Beside
    <3>2. CASE ~Replaces(p)
      <4>1. q.c = x /\ q.code = "OK"
        BY <3>2, ResultSays
      <4> HIDE DEF q
      <4>2. d \in Contexts /\ d.pending = IdleWrite /\ d.fs = x.fs /\ d.object = c.object /\ Beside(c, d)
        BY <2>2, <4>1, IdleWriteSays DEF Kept, Contexts, Beside
      <4> HIDE DEF d
      <4>3. \A n \in Names : x.fs[n] \notin {"blank", "part"}
        <5> SUFFICES ASSUME NEW n \in Names, x.fs[n] \in {"blank", "part"} PROVE FALSE
          OBVIOUS
        <5>1. n = p.path /\ Receives(p)
          BY <2>2 DEF Kept, HalfInv
        <5>2. x.fs[n] \in AsClosed
          BY <2>2, <3>2, <5>1 DEF WritePath
        <5> QED
          BY <5>2, AsClosedSays
      <4>4. \A f \in Internal : x.fs[f] = "none"
        BY <2>2, <2>3, <3>2, NamesApart DEF Kept, HiddenInv, Replaces
      <4>5. Settled(d) /\ ObjectInv(d)
        BY <4>2, <4>3, <4>4 DEF Settled, Kept, ObjectInv, Beside
      <4> QED
        BY <3>2, <4>1, <4>2, <4>5, SettledKept
    <3> QED
      BY <3>1, <3>2
  <2> HIDE DEF q, d
  <2>5. r.c = d /\ r.code = q.code
    BY <2>1, ResultSays
  <2> HIDE DEF r
  <2>6. r.c.pending.path = NoName /\ r.c.pending.state = "IDLE"
    BY <2>4, <2>5, IdleWriteSays DEF Settled
  <2>7. Handled(c, r)
    BY <2>4, <2>5, <2>6 DEF Handled, Beside, Codes
  <2>8. Receives(p) /\ r.code = "OK" =>
          r.c.fs[p.path] \in AsClosed /\ r.c.object[p.handle] = p.path
    <3>1. d.fs[p.path] \in AsClosed \/ ~Receives(p)
      BY <2>2, <2>4 DEF WritePath
    <3> QED
      BY <1>3, <2>4, <2>5, <3>1 DEF Kept, PendingInv
  <2> QED
    BY <2>4, <2>5, <2>6, <2>7, <2>8 DEF Beside, r
<1> QED
  BY <1>2, <1>3

\* An answered data phase leaves nothing deferred.
Completed(c, r) ==
  /\ Kept(r.c) /\ r.code \in Codes /\ r.c.next = c.next /\ r.c.deferred = NoDeferred
  /\ Replaces(c.pending) /\ r.c.pending.handle = 0 =>
       /\ r.c.fs[c.pending.path] \in AsClosed
       /\ r.code = "ERR" => r.c.fs[c.pending.path] = c.fs[c.pending.path]

LEMMA TakeSays ==
  ASSUME NEW c, Kept(c), NEW op, c.deferred # NoDeferred => c.deferred.op = op
  PROVE  LET t == TakeDeferred(c, op)
         IN /\ Kept(t.c) /\ Quiet(c, t.c) /\ t.c.deferred = NoDeferred /\ t.c.object = c.object
            /\ Replaces(c.pending) => c.pending.handle # 0
BY TakeKeeps, ReplacesSays DEF Calm, Quiet

\* An abort after the deferred answer was taken or dropped.
LEMMA AbortCompletes ==
  ASSUME NEW c, Kept(c), NEW d, Kept(d), Quiet(c, d), d.deferred = NoDeferred
  PROVE  /\ Completed(c, Err(d))
         /\ Completed(c, Err(AbortPendingWrite(d)))
<1>1. Kept(AbortPendingWrite(d)) /\ Beside(d, AbortPendingWrite(d))
      /\ (Replaces(d.pending) => /\ AbortPendingWrite(d).fs[d.pending.path] = d.fs[d.pending.path]
                                 /\ AbortPendingWrite(d).fs[d.pending.path] \in AsClosed)
  BY AbortKeeps
<1>2. Replaces(c.pending) => c.pending.handle # 0
  BY ReplacesSays
<1> QED
  BY <1>1, <1>2, ResultSays DEF Completed, Quiet, Beside, Codes

LEMMA SendObjectInfoCompleteKeeps ==
  ASSUME NEW c, Kept(c), c.cancelled # "this",
         c.deferred # NoDeferred => c.deferred.op = "SendObjectInfo" /\ c.deferred.code # "OK",
         c.deferred = NoDeferred => c.pending.state # "RECEIVING_DATA",
         NEW success, NEW bad, bad \in Faulty(OnComplete), "unlink" \notin Faults
  PROVE  Completed(c, SendObjectInfoComplete(c, success, bad))
<1> DEFINE r == SendObjectInfoComplete(c, success, bad)
           t == TakeDeferred(c, "SendObjectInfo")
           f == FinishPendingWrite(t.c, bad)
           z == [f.c EXCEPT !.pending.state = "ZERO_SIZE_COMPLETE"]
           i == [f.c EXCEPT !.pending.state = "IDLE"]
           p == t.c.pending
<1>1. /\ Kept(t.c) /\ Quiet(c, t.c) /\ t.c.deferred = NoDeferred
      /\ Kept(NotDeferred(c)) /\ Quiet(c, NotDeferred(c)) /\ NotDeferred(c).deferred = NoDeferred
      /\ Replaces(c.pending) => c.pending.handle # 0
  BY TakeSays, NotDeferredKeeps
<1>2. t.code = "OK" => c.deferred = NoDeferred
  BY ResultSays DEF TakeDeferred
<1>3. /\ Completed(c, Err(t.c)) /\ Completed(c, Err(AbortPendingWrite(t.c)))
      /\ Completed(c, Err(AbortPendingWrite(NotDeferred(c))))
  BY <1>1, AbortCompletes
<1>4. Completed(c, Result(t.c, "OK"))
  BY <1>1, ResultSays DEF Completed, Quiet, Codes
<1>5. ASSUME t.code = "OK", p.state # "WAITING_DATA"
      PROVE  /\ f.code # "OK" => Completed(c, Err(f.c))
             /\ Completed(c, Result(z, "OK")) /\ Completed(c, Result(i, "OK"))
  <2>1. ~Receives(t.c.pending)
    BY <1>1, <1>2, <1>5 DEF Receives, Quiet
  <2> HIDE DEF t
  <2>2. /\ Handled(t.c, f) /\ f.c.next = t.c.next /\ f.c.pending.path = NoName
        /\ f.code \in {"OK", "ERR"} /\ f.c.cancelled = t.c.cancelled /\ f.c.deferred = t.c.deferred
    BY <1>1, <2>1, FinishPendingWriteKeeps
  <2> HIDE DEF f
  <2>3. /\ Kept(f.c) /\ f.c.next = c.next /\ f.c.deferred = NoDeferred /\ f.c.cancelled # "this"
        /\ f.c.pending.handle = 0
        /\ (Replaces(c.pending) => f.c.fs[c.pending.path] \in AsClosed)
        /\ (Replaces(c.pending) /\ f.code = "ERR" => f.c.fs[c.pending.path] = c.fs[c.pending.path])
    BY <1>1, <2>2 DEF Handled, Quiet, Kept, PendingInv
  <2>4. Kept(z) /\ Kept(i)
    BY <2>2, <2>3, StateKeeps DEF WriteStates
  <2>5. z.fs = f.c.fs /\ z.next = f.c.next /\ z.deferred = f.c.deferred
    BY <2>3, StateSays DEF Kept, WriteStates, Beside
  <2>6. i.fs = f.c.fs /\ i.next = f.c.next /\ i.deferred = f.c.deferred
    BY <2>3, StateSays DEF Kept, WriteStates, Beside
  <2> HIDE DEF z, i
  <2>7. f.code # "OK" => Completed(c, Err(f.c))
    BY <2>2, <2>3, ResultSays DEF Completed, Codes
  <2>8. Completed(c, Result(z, "OK")) /\ Completed(c, Result(i, "OK"))
    BY <2>3, <2>4, <2>5, <2>6, ResultSays DEF Completed, Codes
  <2> QED
    BY <2>7, <2>8
<1>6. \/ r \in {Err(t.c), Err(AbortPendingWrite(t.c)), Err(AbortPendingWrite(NotDeferred(c))),
               Result(t.c, "OK")}
      \/ /\ t.code = "OK" /\ p.state # "WAITING_DATA"
         /\ \/ f.code # "OK" /\ r = Err(f.c)
            \/ r \in {Result(z, "OK"), Result(i, "OK")}
  <2> HIDE DEF t
  <2>1. r = IF ~success THEN Err(AbortPendingWrite(NotDeferred(c)))
            ELSE IF t.code # "OK" THEN Err(AbortPendingWrite(t.c))
            ELSE IF p.handle = 0 THEN Err(t.c)
            ELSE IF p.state = "WAITING_DATA" THEN Result(t.c, "OK")
            ELSE IF f.code # "OK" THEN Err(f.c)
            ELSE Result([f.c EXCEPT !.pending.state =
                           IF ~p.directory /\ p.expected = 0
                           THEN "ZERO_SIZE_COMPLETE" ELSE "IDLE"], "OK")
    BY DEF SendObjectInfoComplete, NotDeferred, t
  <2> HIDE DEF r, f, p
  <2> QED
    BY <2>1
<1> QED
  BY <1>3, <1>4, <1>5, <1>6

LEMMA SendObjectCompleteKeeps ==
  ASSUME NEW c, Kept(c), c.deferred # NoDeferred => c.deferred.op = "SendObject",
         NEW success, NEW bad, bad \in Faulty(OnComplete), "unlink" \notin Faults
  PROVE  LET r == SendObjectComplete(c, success, bad)
         IN /\ Completed(c, r)
            /\ c.pending.state = "RECEIVING_DATA" /\ r.code = "OK" =>
                 /\ r.c.fs[c.pending.path] \in AsClosed
                 /\ r.c.object[c.pending.handle] = c.pending.path
<1> DEFINE r == SendObjectComplete(c, success, bad)
           t == TakeDeferred(c, "SendObject")
           p == t.c.pending
           f == FinishPendingWrite(t.c, bad)
           i == [c EXCEPT !.pending.state = "IDLE"]
<1>1. /\ Kept(t.c) /\ Quiet(c, t.c) /\ t.c.deferred = NoDeferred
      /\ Kept(NotDeferred(c)) /\ Quiet(c, NotDeferred(c)) /\ NotDeferred(c).deferred = NoDeferred
      /\ Replaces(c.pending) => c.pending.handle # 0
  BY TakeSays, NotDeferredKeeps
<1>2. /\ Completed(c, Err(t.c)) /\ Completed(c, Err(AbortPendingWrite(t.c)))
      /\ Completed(c, Err(AbortPendingWrite(NotDeferred(c))))
  BY <1>1, AbortCompletes
<1>3. CASE c.pending.state = "ZERO_SIZE_COMPLETE"
  <2>1. c.pending.path = NoName /\ c.deferred = NoDeferred /\ c \in Contexts
    BY <1>3 DEF Kept, PendingInv, OtherInv
  <2>2. Kept(i) /\ i.next = c.next /\ i.deferred = NoDeferred /\ ~Replaces(c.pending)
    BY <2>1, StateKeeps, StateSays, ZenonT(40) DEF WriteStates, Beside, Kept, PendingInv, Replaces
  <2>3. r \in {Result(i, "OK"), Result(i, "ERR")}
    BY <1>3 DEF SendObjectComplete
  <2> HIDE DEF i, r
  <2>4. Completed(c, r)
    BY <2>2, <2>3, ResultSays DEF Completed, Codes
  <2> QED
    BY <1>3, <2>4 DEF r
<1>4. CASE c.pending.state # "ZERO_SIZE_COMPLETE"
  <2>1. r = IF ~success THEN Err(AbortPendingWrite(NotDeferred(c)))
            ELSE IF t.code # "OK" \/ p.state # "RECEIVING_DATA" \/ p.path = NoName THEN Err(t.c)
            ELSE IF ~AllWritten(p) THEN Err(AbortPendingWrite(t.c))
            ELSE f
    BY <1>4 DEF SendObjectComplete, NotDeferred
  <2> HIDE DEF t
  <2> DEFINE ends == /\ success /\ t.code = "OK" /\ p.state = "RECEIVING_DATA"
                     /\ p.path # NoName /\ AllWritten(p)
  <2>2. CASE ~ends
    <3> HIDE DEF r, f, p
    <3>1. r \in {Err(t.c), Err(AbortPendingWrite(t.c)), Err(AbortPendingWrite(NotDeferred(c)))}
      BY <2>1, <2>2
    <3>2. Completed(c, r) /\ r.code = "ERR"
      BY <1>2, <3>1, ResultSays
    <3> QED
      BY <3>2 DEF r
  <2>3. CASE ends
    <3>0. r = f
      BY <2>1, <2>3
    <3>1. /\ Handled(t.c, f) /\ f.c.next = t.c.next /\ f.code \in {"OK", "ERR"}
          /\ f.c.pending.path = NoName /\ f.c.deferred = t.c.deferred
          /\ Receives(t.c.pending) /\ f.code = "OK" =>
               /\ f.c.fs[t.c.pending.path] \in AsClosed
               /\ f.c.object[t.c.pending.handle] = t.c.pending.path
      BY <1>1, <2>3, FinishPendingWriteKeeps
    <3> HIDE DEF f, r
    <3>2. Receives(t.c.pending) /\ t.c.pending = c.pending
      BY <1>1, <2>3 DEF Receives, Quiet
    <3>3. Completed(c, f)
      BY <1>1, <3>1, <3>2 DEF Completed, Handled, Quiet
    <3> QED
      BY <3>1, <3>2, <3>3, <3>0 DEF r
  <2> QED
    BY <2>2, <2>3
<1> QED
  BY <1>3, <1>4

-----------------------------------------------------------------------------
(* Renaming, deleting, listing.                                            *)

LEMMA RenameKeeps ==
  ASSUME NEW c, Kept(c), NEW h \in HostHandles, NEW n \in Names,
         Known(c, h) => c.object[h] # c.pending.path
  PROVE  LET r == Rename(c, h, n)
         IN /\ Handled(c, r) /\ r.c.next = c.next
            /\ r.c.pending = c.pending
            /\ Known(r.c, h) => r.c.object[h] # c.pending.path
<1> DEFINE r == Rename(c, h, n)
           old == c.object[h]
           fs == [c.fs EXCEPT ![n] = c.fs[old], ![old] = "none"]
           o == [c.object EXCEPT ![h] = n]
           e == [c EXCEPT !.object = o]
           d == [e EXCEPT !.fs = fs]
           moves == /\ Known(c, h) /\ old # n /\ c.fs[n] = "none" /\ ~Missing(c, h)
                    /\ StorageOf[n] = StorageOf[old]
<1>1. CASE ~moves
  <2>1. r \in {Err(c), Result(c, "OK")}
    BY <1>1 DEF Rename
  <2>2. Calm(c, r) /\ r.c = c
    BY <2>1, ResultSays DEF Calm, Codes, Quiet
  <2> HIDE DEF r
  <2> QED
    BY <2>2, CalmHandled DEF r
<1>2. CASE moves
  <2>1. /\ h \in Handles /\ old \in Names /\ old \in Files /\ n \in Files
        /\ n \notin Internal /\ old \notin Internal
        /\ c.object \in [Handles -> Paths] /\ c.fs \in [Files -> Contents] /\ n \in Paths
        /\ old # c.pending.path /\ c \in Contexts
    BY <1>2, NamesApart DEF Known, Used, Kept, Contexts, Paths, Files
  <2>2. n # c.pending.path
    BY <1>2, NamesApart DEF Kept, PendingInv
  <2>3. r = Result([c EXCEPT !.fs = fs, !.object[h] = n], "OK")
    BY <1>2 DEF Rename
  <2>4. [c EXCEPT !.fs = fs, !.object[h] = n] = d
    BY <2>1 DEF Contexts
  <2>5. /\ o \in [Handles -> Paths]
        /\ \A k \in Handles : o[k] = IF k = h THEN n ELSE c.object[k]
    BY <2>1
  <2>6. /\ fs \in [Files -> Contents]
        /\ \A f \in Files : fs[f] = IF f = old THEN "none" ELSE IF f = n THEN c.fs[old] ELSE c.fs[f]
    BY <2>1 DEF Contents
  <2>7. c.fs[old] \in {"dir"} \union AsClosed /\ c.fs[old] \notin {"blank", "part"}
    <3>1. c.fs[old] \in Contents /\ c.fs[old] # "none"
      BY <1>2, <2>1 DEF Missing
    <3> QED
      BY <2>1, <3>1 DEF Kept, HalfInv, Contents
  <2> HIDE DEF fs, o
  <2>8. /\ e \in Contexts /\ e.object = o
        /\ e.session_open = c.session_open /\ e.registered = c.registered
        /\ e.next = c.next /\ e.pending = c.pending /\ e.read = c.read
        /\ e.edit = c.edit /\ e.partial = c.partial
        /\ e.deferred = c.deferred /\ e.cancelled = c.cancelled
    BY <2>1, <2>5, ObjectSays
  <2> HIDE DEF e
  <2>9. d \in Contexts /\ d.object = o /\ d.fs = fs /\ d.pending = c.pending /\ Beside(c, d)
    BY <2>6, <2>8 DEF Contexts, Beside
  <2> HIDE DEF d, old
  <2>10. PendingInv(d)
    <3>1. c.pending.path # NoName => /\ c.pending.path \in Files /\ c.pending.handle \in Handles
                                     /\ c.pending.handle # h
      BY <2>1 DEF Kept, PendingInv, Contexts, Writes, Paths, Files, HostHandles, old
    <3> QED
      BY <2>1, <2>2, <2>5, <2>6, <2>9, <3>1 DEF Kept, PendingInv, Beside
  <2>11. \A f \in Files \ {n, old} : d.fs[f] = c.fs[f]
    BY <2>6, <2>9
  <2>12. ContentInv(d)
    <3> SUFFICES ASSUME c.pending.path # NoName PROVE ContentInv(d)
      BY <2>9 DEF ContentInv
    <3>1. c.pending.path \in Files \ {n, old} /\ WritePath(c.pending) \in Files \ {n, old}
          /\ (Replaces(c.pending) => c.pending.write_path \in Files \ {n, old})
      BY <2>1, <2>2, NamesApart DEF Kept, Contexts, Writes, Paths, HiddenPaths, Files, WritePath, Replaces
    <3> QED
      BY <2>9, <2>11, <3>1 DEF Kept, ContentInv
  <2>13. HalfInv(d) /\ HiddenInv(d)
    BY <2>1, <2>6, <2>7, <2>9 DEF Kept, HalfInv, HiddenInv, Files
  <2>14. ObjectInv(d)
    BY <1>2, <2>1, <2>5, <2>9 DEF Kept, ObjectInv, Beside, old, Known, Used
  <2>15. OtherInv(d)
    BY <2>9 DEF Kept, OtherInv, Beside
  <2>16. Kept(d)
    BY <2>9, <2>10, <2>12, <2>13, <2>14, <2>15 DEF Kept
  <2>17. r.c = d /\ r.code = "OK"
    BY <2>3, <2>4, ResultSays
  <2> HIDE DEF r
  <2>18. Handled(c, r)
    BY <2>9, <2>16, <2>17, ReplacesSays DEF Handled, Beside, Codes
  <2> QED
    BY <2>1, <2>2, <2>5, <2>9, <2>17, <2>18 DEF Beside, r
<1> QED
  BY <1>1, <1>2

LEMMA DeleteObjectKeeps ==
  ASSUME NEW c, Kept(c), NEW h \in HostHandles,
         Known(c, h) => c.object[h] # c.pending.path
  PROVE  LET r == DeleteObject(c, h)
         IN Handled(c, r) /\ r.c.next = c.next
<1> DEFINE r == DeleteObject(c, h)
           edited == c.edit # 0 /\ Known(c, c.edit) /\ c.object[c.edit] = c.object[h]
           freed == IF edited THEN ClearEdit(ClearPartial(c)) ELSE c
           e == FreeObject(freed, h)
           d == [e EXCEPT !.fs[c.object[h]] = "none"]
           deletes == c.session_open /\ Known(c, h) /\ ~Missing(c, h)
<1>1. CASE ~deletes
  <2>1. r = Err(c)
    BY <1>1 DEF DeleteObject
  <2>2. Calm(c, r) /\ r.c = c
    BY <2>1, ResultSays DEF Calm, Codes, Quiet
  <2> HIDE DEF r
  <2> QED
    BY <2>2, CalmHandled DEF r
<1>2. CASE deletes
  <2>1. h \in Handles /\ c.object[h] \in Names /\ c.object[h] # c.pending.path
    BY <1>2 DEF Known, Used, Kept, Contexts, Paths
  <2>2. Kept(freed) /\ Quiet(c, freed)
    <3>1. Kept(ClearPartial(c)) /\ Quiet(c, ClearPartial(c))
      BY ClearPartialKeeps
    <3>2. Kept(ClearEdit(ClearPartial(c))) /\ Quiet(c, ClearEdit(ClearPartial(c)))
      BY <3>1, ClearEditKeeps, QuietTransitive
    <3> QED
      BY <3>2 DEF Quiet
  <2>3. r = Result(d, "OK")
    BY <1>2 DEF DeleteObject
  <2>4. c.pending.path = NoName \/ c.pending.handle # h
    BY <2>1 DEF Kept, PendingInv
  <2> HIDE DEF freed
  <2>5. Kept(e) /\ Quiet(c, e)
    BY <2>2, <2>4, FreeKeeps, FreeSays DEF Quiet, Kept
  <2> HIDE DEF e
  <2>6. Kept(d) /\ d.pending = c.pending /\ Beside(e, d)
    BY <2>1, <2>5, FileKeeps DEF Quiet
  <2> HIDE DEF d
  <2>7. Handled(c, r) /\ r.c = d
    BY <2>3, <2>5, <2>6, ReplacesSays, ResultSays DEF Handled, Beside, Codes, Quiet
  <2> HIDE DEF r
  <2> QED
    BY <2>5, <2>6, <2>7 DEF Quiet, Beside, r
<1> QED
  BY <1>1, <1>2

\* A listing goes through the files one by one: the recursion has a value.
Listing(c, order, n) ==
  {l \in [0 .. n -> Contexts] : \A k \in 0 .. n :
     l[k] = IF k = 0 THEN c ELSE GetOrCreate(l[k - 1], order[k]).c}

LEMMA ListingExists ==
  ASSUME NEW c, Kept(c), NEW order \in Seq(Names), NEW n \in 0 .. Len(order),
         \A k \in 1 .. Len(order) : StorageOf[order[k]] \in c.registered
  PROVE  \E l \in Listing(c, order, n) : \A k \in 0 .. n :
           /\ Kept(l[k]) /\ l[k].pending = c.pending /\ l[k].fs = c.fs
           /\ l[k].cancelled = c.cancelled /\ l[k].deferred = c.deferred
           /\ l[k].registered = c.registered
<1> DEFINE Same(d) == /\ Kept(d) /\ d.pending = c.pending /\ d.fs = c.fs
                      /\ d.cancelled = c.cancelled /\ d.deferred = c.deferred
                      /\ d.registered = c.registered
           Lists(l, i) == /\ l \in [0 .. i -> Contexts]
                          /\ \A k \in 0 .. i :
                               /\ l[k] = IF k = 0 THEN c ELSE GetOrCreate(l[k - 1], order[k]).c
                               /\ Same(l[k])
           T == {i \in 0 .. Len(order) : ~\E l : Lists(l, i)}
           R == OpToRel(<, Nat)
<1>1. Same(c) /\ c \in Contexts /\ Len(order) \in Nat
  BY DEF Kept
<1>2. ASSUME NEW d, Same(d), NEW k \in 1 .. Len(order)
      PROVE  Same(GetOrCreate(d, order[k]).c) /\ GetOrCreate(d, order[k]).c \in Contexts
  <2>1. order[k] \in Names /\ StorageOf[order[k]] \in d.registered
    BY <1>2
  <2> QED
    BY <1>2, <2>1, GetOrCreateKeeps DEF Kept
<1> HIDE DEF Same
<1>3. Lists([k \in 0 .. 0 |-> c], 0)
  BY <1>1
<1>4. ASSUME NEW i \in 0 .. Len(order), i # 0, NEW l, Lists(l, i - 1)
      PROVE  \E q : Lists(q, i)
  <2> DEFINE last == GetOrCreate(l[i - 1], order[i]).c
             q == [k \in 0 .. i |-> IF k = i THEN last ELSE l[k]]
  <2>1. i \in 1 .. Len(order) /\ i - 1 \in 0 .. i - 1 /\ Same(l[i - 1])
    BY <1>1, <1>4
  <2>2. Same(last) /\ last \in Contexts
    BY <1>2, <2>1
  <2>3. q \in [0 .. i -> Contexts]
    BY <1>4, <2>2
  <2>4. ASSUME NEW k \in 0 .. i
        PROVE  /\ q[k] = IF k = 0 THEN c ELSE GetOrCreate(q[k - 1], order[k]).c
               /\ Same(q[k])
    <3>1. CASE k = i
      <4>1. q[k] = last /\ k # 0 /\ q[k - 1] = l[i - 1]
        BY <1>4, <3>1, <2>1
      <4> QED
        BY <2>2, <3>1, <4>1
    <3>2. CASE k # i
      <4>1. k \in 0 .. i - 1 /\ q[k] = l[k] /\ (k # 0 => k - 1 \in 0 .. i /\ k - 1 # i)
        BY <2>1, <3>2
      <4>2. k # 0 => q[k - 1] = l[k - 1]
        BY <4>1
      <4>3. /\ l[k] = IF k = 0 THEN c ELSE GetOrCreate(l[k - 1], order[k]).c
            /\ Same(l[k])
        BY <1>4, <4>1
      <4> HIDE DEF q
      <4> QED
        BY <4>1, <4>2, <4>3
    <3> QED
      BY <3>1, <3>2
  <2> HIDE DEF q
  <2> QED
    BY <2>3, <2>4
<1>5. T = {}
  <2> SUFFICES ASSUME T # {} PROVE FALSE
    OBVIOUS
  <2>1. T \subseteq Nat
    BY <1>1
  <2>2. IsWellFoundedOn(R, Nat)
    BY NatLessThanWellFounded
  <2>3. \E x \in T : \A y \in T : ~(<<y, x>> \in R)
    <3> HIDE DEF T, R
    <3> QED
      BY <2>1, <2>2, WFMin
  <2>4. PICK x \in T : \A y \in T : ~(<<y, x>> \in R)
    BY <2>3
  <2>5. \A y \in T : ~(y < x)
    <3> HIDE DEF T
    <3> QED
      BY <2>1, <2>4 DEF OpToRel
  <2>6. x # 0
    <3> HIDE DEF Lists
    <3> QED
      BY <1>3, <2>4
  <2>7. x - 1 \in 0 .. Len(order) /\ x - 1 \notin T /\ x \in 0 .. Len(order)
    <3> HIDE DEF Lists
    <3>1. x \in 0 .. Len(order)
      BY <2>4
    <3>2. x - 1 \in 0 .. Len(order) /\ x - 1 < x
      BY <1>1, <2>6, <3>1
    <3> QED
      BY <2>5, <3>1, <3>2
  <2>8. \E l : Lists(l, x - 1)
    BY <2>7
  <2> HIDE DEF Lists
  <2>9. \E q : Lists(q, x)
    BY <1>4, <2>6, <2>7, <2>8
  <2> QED
    BY <2>4, <2>9
<1>6. PICK l : Lists(l, n)
  BY <1>5
<1>7. l \in Listing(c, order, n) /\ \A k \in 0 .. n : Same(l[k])
  BY <1>6 DEF Listing
<1> QED
  BY <1>7 DEF Same

LEMMA ListedKeeps ==
  ASSUME NEW c, Kept(c), NEW order \in Seq(Names),
         \A k \in 1 .. Len(order) : StorageOf[order[k]] \in c.registered
  PROVE  LET d == Listed(c, order)
         IN /\ Kept(d) /\ d.pending = c.pending /\ d.fs = c.fs
            /\ d.cancelled = c.cancelled /\ d.deferred = c.deferred
<1> DEFINE n == Len(order)
           Eq(g) == g = [k \in 0 .. n |-> IF k = 0 THEN c ELSE GetOrCreate(g[k - 1], order[k]).c]
           L == CHOOSE g : Eq(g)
           R == OpToRel(<, Nat)
<1>1. n \in Nat /\ n \in 0 .. Len(order)
  OBVIOUS
<1>2. PICK l \in Listing(c, order, n) : \A k \in 0 .. n :
           /\ Kept(l[k]) /\ l[k].pending = c.pending /\ l[k].fs = c.fs
           /\ l[k].cancelled = c.cancelled /\ l[k].deferred = c.deferred
           /\ l[k].registered = c.registered
  BY <1>1, ListingExists
<1>3. Eq(l)
  <2> DEFINE e == [k \in 0 .. n |-> IF k = 0 THEN c ELSE GetOrCreate(l[k - 1], order[k]).c]
  <2>1. l \in [0 .. n -> Contexts] /\ \A k \in 0 .. n : l[k] = e[k]
    BY DEF Listing
  <2>2. DOMAIN l = 0 .. n /\ DOMAIN e = 0 .. n
    BY <2>1
  <2>3. l = [k \in 0 .. n |-> l[k]]
    BY <2>1
  <2>4. [k \in 0 .. n |-> l[k]] = e
    BY <2>1
  <2> QED
    BY <2>3, <2>4
<1>4. Eq(L)
  BY <1>3
<1>5. Listed(c, order) = L[n]
  BY DEF Listed
<1> HIDE DEF L
<1>6. \A k \in 0 .. n : /\ L[k] = IF k = 0 THEN c ELSE GetOrCreate(L[k - 1], order[k]).c
                        /\ l[k] = IF k = 0 THEN c ELSE GetOrCreate(l[k - 1], order[k]).c
  BY <1>3, <1>4
<1> DEFINE T == {k \in 0 .. n : L[k] # l[k]}
<1>7. T = {}
  <2> SUFFICES ASSUME T # {} PROVE FALSE
    OBVIOUS
  <2>1. T \subseteq Nat
    BY <1>1
  <2>2. \E x \in T : \A y \in T : ~(<<y, x>> \in R)
    <3>1. IsWellFoundedOn(R, Nat)
      BY NatLessThanWellFounded
    <3> HIDE DEF T, R
    <3> QED
      BY <2>1, <3>1, WFMin
  <2>3. PICK x \in T : \A y \in T : ~(<<y, x>> \in R)
    BY <2>2
  <2>4. \A y \in T : ~(y < x)
    <3> HIDE DEF T
    <3> QED
      BY <2>1, <2>3 DEF OpToRel
  <2>5. x \in 0 .. n /\ L[x] # l[x] /\ x # 0
    BY <1>6, <2>3
  <2>6. x - 1 \in 0 .. n /\ x - 1 < x
    BY <1>1, <2>5
  <2>7. L[x - 1] = l[x - 1]
    BY <2>4, <2>6
  <2> QED
    BY <1>6, <2>5, <2>7
<1>8. L[n] = l[n]
  BY <1>1, <1>7
<1> QED
  BY <1>1, <1>2, <1>5, <1>8

LEMMA ListObjectsKeeps ==
  ASSUME NEW c, Kept(c), NEW order \in Seq(Names), NEW bad,
         \A k \in 1 .. Len(order) : StorageOf[order[k]] \in c.registered
  PROVE  LET r == ListObjects(c, order, bad)
         IN Handled(c, r) /\ r.c.next = Listed(c, order).next
<1> DEFINE r == ListObjects(c, order, bad)
           l == Listed(c, order)
           o == [h \in Handles |-> IF Known(l, h) /\ Missing(l, h) THEN NoName ELSE l.object[h]]
           swept == [l EXCEPT !.object = o]
           b == StartBuffer(swept, "GetObjectHandles", bad)
<1>1. /\ Kept(l) /\ l.pending = c.pending /\ l.fs = c.fs
      /\ l.cancelled = c.cancelled /\ l.deferred = c.deferred
  BY ListedKeeps
<1>2. r \in {Err(l), b}
  BY DEF ListObjects
<1> HIDE DEF l
<1>3. o \in [Handles -> Paths] /\ \A h \in Handles : o[h] \in {l.object[h], NoName}
  BY <1>1 DEF Kept, Contexts, Paths
<1>4. \A h \in Handles : o[h] = l.object[h] \/ (Known(l, h) /\ Missing(l, h))
  OBVIOUS
<1> HIDE DEF o
<1>5. /\ swept \in Contexts /\ swept.object = o
      /\ swept.session_open = l.session_open /\ swept.registered = l.registered
      /\ swept.next = l.next /\ swept.pending = l.pending /\ swept.read = l.read
      /\ swept.edit = l.edit /\ swept.partial = l.partial /\ swept.deferred = l.deferred
      /\ swept.cancelled = l.cancelled /\ swept.fs = l.fs
  BY <1>1, <1>3, ObjectSays DEF Kept
<1> HIDE DEF swept
<1>6. Kept(swept)
  <2>1. PendingInv(swept)
    <3>1. l.pending.path # NoName => l.pending.handle \in Handles /\ l.fs[l.pending.path] # "none"
                                     /\ l.object[l.pending.handle] = l.pending.path
      BY <1>1 DEF Kept, PendingInv, Contexts, Writes, HostHandles
    <3>2. l.pending.path # NoName => o[l.pending.handle] = l.pending.path
      BY <1>4, <3>1 DEF Missing
    <3> QED
      BY <1>1, <1>5, <3>2 DEF Kept, PendingInv
  <2>2. ContentInv(swept) /\ HalfInv(swept) /\ HiddenInv(swept)
    BY <1>1, <1>5 DEF Kept, ContentInv, HalfInv, HiddenInv
  <2>3. ObjectInv(swept) /\ OtherInv(swept)
    BY <1>1, <1>3, <1>5 DEF Kept, ObjectInv, OtherInv
  <2> QED
    BY <1>5, <2>1, <2>2, <2>3 DEF Kept
<1>7. Calm(swept, b)
  BY <1>6, StartBufferKeeps
<1> HIDE DEF b, r
<1>8. Handled(c, r)
  <2>1. Replaces(c.pending) => c.pending.handle # 0
    BY ReplacesSays
  <2>2. CASE r = b
    BY <1>1, <1>5, <1>7, <2>1, <2>2 DEF Handled, Calm, Quiet
  <2>3. CASE r = Err(l)
    BY <1>1, <2>1, <2>3, ResultSays DEF Handled, Codes
  <2> QED
    BY <1>2, <2>2, <2>3
<1>9. r.c.next = l.next
  BY <1>2, <1>5, <1>7, ResultSays DEF Calm, Quiet
<1> QED
  BY <1>8, <1>9 DEF r, l

-----------------------------------------------------------------------------
(* Sessions, cancelling, and the application's calls.                      *)

\* What remains after all transfers were reset.
LEMMA ResetKeeps ==
  ASSUME NEW c, Kept(c), NEW open \in {FALSE, c.session_open}, NEW tid \in {"no", "this", "other"}
  PROVE  LET d == [ResetTransfers(c) EXCEPT !.session_open = open, !.cancelled = tid]
         IN /\ Kept(d) /\ Settled(d) /\ d.next = c.next /\ d.deferred = NoDeferred
            /\ (Replaces(c.pending) => /\ d.fs[c.pending.path] \in AsClosed
                                       /\ d.fs[c.pending.path] = c.fs[c.pending.path])
            /\ d.cancelled = tid /\ d.session_open = open
            /\ \A h \in Handles : d.object[h] \in {c.object[h], NoName}
<1> DEFINE a == AbortPendingWrite(c)
           b == ResetTransfers(c)
           d == [b EXCEPT !.session_open = open, !.cancelled = tid]
<1>1. /\ Kept(a) /\ Settled(a) /\ Beside(c, a)
      /\ (Replaces(c.pending) => /\ a.fs[c.pending.path] \in AsClosed
                                 /\ a.fs[c.pending.path] = c.fs[c.pending.path])
      /\ \A h \in Handles : a.object[h] \in {c.object[h], NoName}
  BY AbortKeeps, AbortSays DEF Kept
<1>2. b = [a EXCEPT !.read = NoRead, !.edit = 0, !.partial = NoPartial,
                    !.buffer = "none", !.deferred = NoDeferred, !.cancelled = "no"]
  BY DEF ResetTransfers
<1> HIDE DEF a, b
<1>3. /\ NoRead \in ReadsOf /\ NoRead.path = NoName /\ NoPartial \in Partials /\ ~NoPartial.active
      /\ NoDeferred \in Deferreds
  BY DEF NoRead, ReadsOf, Paths, NoPartial, Partials, HostHandles, NoDeferred, Deferreds, Codes
<1>4. /\ b \in Contexts /\ b.read = NoRead /\ b.edit = 0 /\ b.partial = NoPartial
      /\ b.deferred = NoDeferred /\ b.cancelled = "no" /\ b.object = a.object /\ b.fs = a.fs
      /\ b.pending = a.pending /\ b.next = a.next /\ b.registered = a.registered
  BY <1>1, <1>2, <1>3 DEF Kept, Contexts, HostHandles
<1>5. /\ d \in Contexts /\ d.read = NoRead /\ d.edit = 0 /\ d.partial = NoPartial
      /\ d.deferred = NoDeferred /\ d.cancelled = tid /\ d.object = a.object /\ d.fs = a.fs
      /\ d.pending = a.pending /\ d.next = a.next /\ d.registered = a.registered
      /\ d.session_open = open
  BY <1>4 DEF Kept, Contexts
<1> HIDE DEF d
<1>6. Settled(d)
  BY <1>1, <1>5 DEF Settled
<1>7. PendingInv(d) /\ ContentInv(d) /\ HalfInv(d) /\ HiddenInv(d)
  BY <1>6, IdleWriteSays DEF Settled, PendingInv, ContentInv, HalfInv, HiddenInv
<1>8. ObjectInv(d)
  BY <1>1, <1>5 DEF Kept, ObjectInv
<1>9. OtherInv(d)
  BY <1>1, <1>3, <1>5, IdleWriteSays DEF Kept, OtherInv, Settled
<1> QED
  BY <1>1, <1>5, <1>6, <1>7, <1>8, <1>9 DEF Kept, Beside, b, d

\* The same reset, as each caller writes it.
LEMMA ResetForms ==
  ASSUME NEW c, Kept(c)
  PROVE  LET b == ResetTransfers(c)
         IN /\ [b EXCEPT !.session_open = FALSE] = [b EXCEPT !.session_open = FALSE, !.cancelled = "no"]
            /\ \A tid \in {"no", "this", "other"} :
                 [b EXCEPT !.cancelled = tid] = [b EXCEPT !.session_open = c.session_open, !.cancelled = tid]
            /\ b = [b EXCEPT !.session_open = c.session_open, !.cancelled = "no"]
<1> DEFINE a == AbortPendingWrite(c)
           b == ResetTransfers(c)
<1>1. a \in Contexts /\ a.session_open = c.session_open
  BY AbortKeeps DEF Kept, Beside
<1>2. b = [a EXCEPT !.read = NoRead, !.edit = 0, !.partial = NoPartial,
                    !.buffer = "none", !.deferred = NoDeferred, !.cancelled = "no"]
  BY DEF ResetTransfers
<1> HIDE DEF a, b
<1>3. [b EXCEPT !.session_open = FALSE] = [b EXCEPT !.session_open = FALSE, !.cancelled = "no"]
  BY <1>1, <1>2 DEF Contexts
<1>4. ASSUME NEW tid \in {"no", "this", "other"}
      PROVE  [b EXCEPT !.cancelled = tid] = [b EXCEPT !.session_open = c.session_open, !.cancelled = tid]
  BY <1>1, <1>2 DEF Contexts
<1>5. b = [b EXCEPT !.session_open = c.session_open, !.cancelled = "no"]
  BY <1>1, <1>2 DEF Contexts
<1> QED
  BY <1>3, <1>4, <1>5 DEF b

LEMMA OpenSessionKeeps ==
  ASSUME NEW c, Kept(c)
  PROVE  Handled(c, OpenSession(c)) /\ OpenSession(c).c.next = c.next
<1> DEFINE d == [c EXCEPT !.session_open = TRUE]
<1>1. CASE c.session_open
  <2>1. Calm(c, Err(c))
    BY ResultSays DEF Calm, Codes, Quiet
  <2>2. OpenSession(c) = Err(c)
    BY <1>1 DEF OpenSession
  <2> QED
    BY <2>1, <2>2, CalmHandled, ResultSays
<1>2. CASE ~c.session_open
  <2>1. /\ d \in Contexts /\ d.object = c.object /\ d.fs = c.fs /\ d.pending = c.pending
        /\ d.registered = c.registered /\ d.next = c.next /\ d.read = c.read /\ d.edit = c.edit
        /\ d.partial = c.partial /\ d.deferred = c.deferred /\ d.cancelled = c.cancelled
        /\ d.session_open
    BY DEF Kept, Contexts
  <2>2. OpenSession(c) = Result(d, "OK")
    BY <1>2 DEF OpenSession
  <2> HIDE DEF d
  <2>3. PendingInv(d) /\ ContentInv(d) /\ HalfInv(d) /\ HiddenInv(d)
    BY <2>1 DEF Kept, PendingInv, ContentInv, HalfInv, HiddenInv
  <2>4. ObjectInv(d) /\ OtherInv(d)
    BY <2>1 DEF Kept, ObjectInv, OtherInv
  <2>5. Kept(d)
    BY <2>1, <2>3, <2>4 DEF Kept
  <2> QED
    BY <2>1, <2>2, <2>5, ReplacesSays, ResultSays DEF Handled, Codes
<1> QED
  BY <1>1, <1>2

LEMMA CloseSessionKeeps ==
  ASSUME NEW c, Kept(c)
  PROVE  Handled(c, CloseSession(c)) /\ CloseSession(c).c.next = c.next
<1> DEFINE d == [ResetTransfers(c) EXCEPT !.session_open = FALSE, !.cancelled = "no"]
           e == [ResetTransfers(c) EXCEPT !.session_open = FALSE]
<1>1. /\ Kept(d) /\ Settled(d) /\ d.next = c.next /\ d.deferred = NoDeferred
      /\ (Replaces(c.pending) => d.fs[c.pending.path] \in AsClosed)
      /\ d.cancelled = "no"
  BY ResetKeeps
<1>2. d = e
  BY ResetForms
<1>3. CloseSession(c) = IF ~c.session_open THEN Err(c) ELSE Result(d, "OK")
  BY <1>2 DEF CloseSession
<1> HIDE DEF d
<1>4. Handled(c, Result(d, "OK"))
  BY <1>1, IdleWriteSays, ResultSays DEF Handled, Settled, Codes
<1>5. Handled(c, Err(c))
  BY CalmHandled, ResultSays DEF Calm, Codes, Quiet
<1> QED
  BY <1>1, <1>3, <1>4, <1>5, ResultSays

\* mtp_dispatch, before its handler.
LEMMA PreparedKeeps ==
  ASSUME Kept(m), m.deferred = NoDeferred, NEW op
  PROVE  LET c == Prepared(op)
         IN /\ Kept(c) /\ c.next = m.next /\ c.deferred = NoDeferred /\ c.cancelled = "no"
            /\ c.object = m.object /\ c.fs = m.fs /\ c.registered = m.registered
            /\ c.pending.path = m.pending.path /\ c.pending.handle = m.pending.handle
            /\ c.pending.write_path = m.pending.write_path
            /\ op # "SendObject" => c.pending.state # "ZERO_SIZE_COMPLETE"
<1> DEFINE b == [m EXCEPT !.cancelled = "no"]
           i == [b EXCEPT !.pending.state = "IDLE"]
           s == b.pending.state
           empty == m.pending.state = "ZERO_SIZE_COMPLETE" /\ op # "SendObject"
<1>1. /\ b \in Contexts /\ b.object = m.object /\ b.fs = m.fs /\ b.pending = m.pending
      /\ b.registered = m.registered /\ b.next = m.next /\ b.read = m.read /\ b.edit = m.edit
      /\ b.partial = m.partial /\ b.deferred = m.deferred /\ b.session_open = m.session_open
      /\ b.cancelled = "no"
  BY DEF Kept, Contexts
<1>2. Prepared(op) = IF empty THEN i ELSE [b EXCEPT !.pending.state = s]
  BY DEF Prepared
<1> HIDE DEF b
<1>3. Kept(b)
  <2>1. PendingInv(b) /\ ContentInv(b) /\ HalfInv(b) /\ HiddenInv(b)
    BY <1>1 DEF Kept, PendingInv, ContentInv, HalfInv, HiddenInv
  <2>2. ObjectInv(b) /\ OtherInv(b)
    BY <1>1 DEF Kept, ObjectInv, OtherInv
  <2> QED
    BY <1>1, <2>1, <2>2 DEF Kept
<1>4. [b EXCEPT !.pending.state = s] = b
  <2>1. b.pending \in Writes
    BY <1>1 DEF Contexts
  <2>2. [b.pending EXCEPT !.state = s] = b.pending
    BY <2>1 DEF Writes
  <2>3. [b EXCEPT !.pending.state = s] = [b EXCEPT !.pending = b.pending]
    BY <2>2
  <2> QED
    BY <1>1, <2>3 DEF Contexts
<1>5. CASE empty
  <2>1. b.pending.path = NoName
    BY <1>1, <1>5 DEF Kept, PendingInv
  <2>2. Kept(i)
    BY <1>3, <2>1, StateKeeps DEF WriteStates
  <2>3. /\ Beside(b, i) /\ i.object = b.object /\ i.fs = b.fs /\ i.pending.state = "IDLE"
        /\ i.pending.handle = b.pending.handle /\ i.pending.path = b.pending.path
        /\ i.pending.write_path = b.pending.write_path
    BY <1>1, StateSays DEF WriteStates
  <2> HIDE DEF i
  <2> QED
    BY <1>1, <1>2, <1>5, <2>2, <2>3 DEF Beside
<1>6. CASE ~empty
  BY <1>1, <1>2, <1>3, <1>4, <1>6
<1> QED
  BY <1>5, <1>6

LEMMA DeferResponseKeeps ==
  ASSUME NEW c, Kept(c), NEW op \in OutOps, NEW code \in Codes,
         c.cancelled # "this", c.pending.state # "ZERO_SIZE_COMPLETE"
  PROVE  LET d == DeferResponse(c, op, code)
         IN /\ Kept(d) /\ d.pending = c.pending /\ d.fs = c.fs /\ d.object = c.object
            /\ d.next = c.next
            /\ d.deferred = IF c.deferred = NoDeferred THEN [op |-> op, code |-> code]
                            ELSE c.deferred
<1> DEFINE d == DeferResponse(c, op, code)
           q == [op |-> op, code |-> code]
<1>1. q \in Deferreds /\ q.op = op /\ op # "none"
  BY DEF Deferreds, OutOps
<1>2. CASE c.deferred # NoDeferred
  BY <1>2 DEF DeferResponse
<1>3. CASE c.deferred = NoDeferred
  <2>1. d = [c EXCEPT !.deferred = q]
    BY <1>3 DEF DeferResponse
  <2> HIDE DEF q, d
  <2>2. /\ d \in Contexts /\ d.object = c.object /\ d.fs = c.fs /\ d.pending = c.pending
        /\ d.registered = c.registered /\ d.next = c.next /\ d.read = c.read /\ d.edit = c.edit
        /\ d.partial = c.partial /\ d.cancelled = c.cancelled /\ d.session_open = c.session_open
        /\ d.deferred = q
    BY <1>1, <2>1 DEF Kept, Contexts
  <2>3. PendingInv(d) /\ ContentInv(d) /\ HalfInv(d) /\ HiddenInv(d)
    BY <2>2 DEF Kept, PendingInv, ContentInv, HalfInv, HiddenInv
  <2>4. ObjectInv(d) /\ OtherInv(d)
    BY <1>1, <2>2 DEF Kept, ObjectInv, OtherInv
  <2> QED
    BY <1>3, <2>2, <2>3, <2>4 DEF Kept, d, q
<1> QED
  BY <1>2, <1>3

LEMMA NewContextKeeps ==
  ASSUME NEW fs \in [Files -> Contents],
         \A n \in Names : fs[n] \notin {"blank", "part"}, \A f \in Internal : fs[f] = "none"
  PROVE  LET d == NewContext(fs)
         IN /\ Kept(d) /\ d.pending = IdleWrite /\ d.deferred = NoDeferred /\ d.fs = fs
            /\ d.next = 1 /\ d.object = [h \in Handles |-> NoName]
<1> DEFINE d == NewContext(fs)
<1>1. /\ NoRead \in ReadsOf /\ NoRead.path = NoName /\ NoPartial \in Partials /\ ~NoPartial.active
      /\ NoDeferred \in Deferreds
  BY DEF NoRead, ReadsOf, Paths, NoPartial, Partials, HostHandles, NoDeferred, Deferreds, Codes
<1>2. /\ d.session_open = FALSE /\ d.registered = {} /\ d.object = [h \in Handles |-> NoName]
      /\ d.next = 1 /\ d.pending = IdleWrite /\ d.read = NoRead /\ d.edit = 0
      /\ d.partial = NoPartial /\ d.buffer = "none" /\ d.deferred = NoDeferred
      /\ d.cancelled = "no" /\ d.fs = fs
  BY DEF NewContext
<1>3. d \in Contexts
  BY <1>1, IdleWriteSays DEF NewContext, Contexts, HostHandles, Paths
<1> HIDE DEF d
<1>4. PendingInv(d) /\ ContentInv(d) /\ HalfInv(d) /\ HiddenInv(d)
  BY <1>2, IdleWriteSays DEF PendingInv, ContentInv, HalfInv, HiddenInv
<1>5. ObjectInv(d) /\ OtherInv(d)
  BY <1>1, <1>2, IdleWriteSays DEF ObjectInv, OtherInv
<1> QED
  BY <1>2, <1>3, <1>4, <1>5 DEF Kept, d

LEMMA RegisterKeeps ==
  ASSUME NEW c, Kept(c), NEW s \in Storages
  PROVE  LET d == [c EXCEPT !.registered = @ \union {s}]
         IN /\ Kept(d) /\ d.pending = c.pending /\ d.object = c.object /\ d.fs = c.fs
            /\ d.next = c.next /\ d.deferred = c.deferred
<1> DEFINE d == [c EXCEPT !.registered = @ \union {s}]
<1>1. /\ d \in Contexts /\ d.object = c.object /\ d.fs = c.fs /\ d.pending = c.pending
      /\ d.registered = c.registered \union {s} /\ d.next = c.next /\ d.read = c.read
      /\ d.edit = c.edit /\ d.partial = c.partial /\ d.deferred = c.deferred
      /\ d.cancelled = c.cancelled /\ d.session_open = c.session_open
  BY DEF Kept, Contexts
<1> HIDE DEF d
<1>2. PendingInv(d) /\ ContentInv(d) /\ HalfInv(d) /\ HiddenInv(d)
  BY <1>1 DEF Kept, PendingInv, ContentInv, HalfInv, HiddenInv
<1>3. ObjectInv(d) /\ OtherInv(d)
  BY <1>1 DEF Kept, ObjectInv, OtherInv
<1> QED
  BY <1>1, <1>2, <1>3 DEF Kept, d

\* A storage goes only while nothing is under way; the edit of an object on
\* another one stays.
LEMMA UnregisterKeeps ==
  ASSUME NEW c, Kept(c), TransferIsIdle(c), NEW s \in Storages
  PROVE  LET d == [ClearObjects(DetachStorage(c, s), s) EXCEPT !.registered = @ \ {s}]
         IN /\ Kept(d) /\ d.pending = c.pending /\ d.fs = c.fs /\ d.next = c.next
            /\ d.deferred = c.deferred /\ d.registered = c.registered \ {s}
            /\ \A h \in Handles : d.object[h] \in {c.object[h], NoName}
            /\ Known(c, c.edit) /\ StorageOf[c.object[c.edit]] # s =>
                 d.edit = c.edit /\ d.object[c.edit] = c.object[c.edit]
<1> DEFINE a == DetachStorage(c, s)
           o == [h \in Handles |-> IF Known(a, h) /\ StorageOf[a.object[h]] = s
                                   THEN NoName ELSE a.object[h]]
           e == [a EXCEPT !.object = o]
           d == [e EXCEPT !.registered = @ \ {s}]
<1>1. a = (IF c.edit # 0 /\ OnStorage(c, c.edit, s) THEN ClearEdit(c) ELSE c)
  <2>1. /\ c.pending.path = NoName /\ ~c.read.active /\ ~c.partial.active
        /\ ~ClearEdit(c).partial.active
    BY DEF TransferIsIdle, ClearEdit, Kept, Contexts
  <2> QED
    BY <2>1 DEF DetachStorage
<1>2. /\ Kept(a) /\ Quiet(c, a) /\ a.object = c.object /\ a.deferred = c.deferred /\ a.read = c.read
      /\ a.partial = c.partial
      /\ (Known(c, c.edit) /\ StorageOf[c.object[c.edit]] # s => a.edit = c.edit)
  <2>1. ClearEdit(c).deferred = c.deferred /\ ClearEdit(c).read = c.read
        /\ ClearEdit(c).partial = c.partial
    BY DEF ClearEdit, Kept, Contexts
  <2> QED
    BY <1>1, <2>1, ClearEditKeeps DEF OnStorage, Quiet
<1> HIDE DEF a
<1>3. ClearObjects(a, s) = e
  <2>1. a \in Contexts
    BY <1>2 DEF Kept
  <2> QED
    BY <2>1 DEF ClearObjects, Contexts
<1>4. /\ o \in [Handles -> Paths]
      /\ \A h \in Handles : /\ o[h] \in {c.object[h], NoName}
                            /\ StorageOf[c.object[h]] # s => o[h] = c.object[h]
                            /\ o[h] # NoName => StorageOf[o[h]] # s
  BY <1>2 DEF Kept, Contexts, Paths, Known, Used
<1> HIDE DEF o
<1>5. /\ e \in Contexts /\ e.object = o
      /\ e.session_open = a.session_open /\ e.registered = a.registered
      /\ e.next = a.next /\ e.pending = a.pending /\ e.read = a.read
      /\ e.edit = a.edit /\ e.partial = a.partial /\ e.deferred = a.deferred
      /\ e.cancelled = a.cancelled /\ e.fs = a.fs
  BY <1>2, <1>4, ObjectSays DEF Kept
<1> HIDE DEF e
<1>6. /\ d \in Contexts /\ d.object = o /\ d.registered = c.registered \ {s}
      /\ d.session_open = c.session_open /\ d.next = c.next /\ d.pending = c.pending
      /\ d.read = c.read /\ d.edit = a.edit /\ d.partial = c.partial
      /\ d.deferred = c.deferred /\ d.cancelled = c.cancelled /\ d.fs = c.fs
  BY <1>2, <1>5 DEF Contexts, Quiet
<1> HIDE DEF d
<1>7. c.pending.path = NoName /\ ~c.read.active
  BY DEF TransferIsIdle
<1>8. PendingInv(d) /\ ContentInv(d)
  BY <1>6, <1>7 DEF Kept, PendingInv, ContentInv
<1>9. HalfInv(d) /\ HiddenInv(d)
  BY <1>6 DEF Kept, HalfInv, HiddenInv
<1>10. ObjectInv(d)
  BY <1>4, <1>6 DEF Kept, ObjectInv
<1>11. OtherInv(d)
  BY <1>2, <1>6, <1>7 DEF Kept, OtherInv, Quiet
<1>12. Known(c, c.edit) => c.edit \in Handles
  BY DEF Known, Used
<1>13. [ClearObjects(DetachStorage(c, s), s) EXCEPT !.registered = @ \ {s}] = d
  BY <1>3 DEF a, d
<1>14. Kept(d)
  BY <1>6, <1>8, <1>9, <1>10, <1>11 DEF Kept
<1>15. Known(c, c.edit) /\ StorageOf[c.object[c.edit]] # s =>
         d.edit = c.edit /\ d.object[c.edit] = c.object[c.edit]
  BY <1>2, <1>4, <1>6, <1>12
<1> QED
  BY <1>4, <1>6, <1>13, <1>14, <1>15

-----------------------------------------------------------------------------
(* The invariant of the component.                                         *)

Orderly == OrderlyHost /\ AnswersArrive /\ "unlink" \notin Faults

\* The object a rename is for is not the one being received.
Apart(c, h) == Known(c, h) => c.object[h] # c.pending.path

Transactions ==
  [op : Ops \union {"none"}, handle : HostHandles, stage : {"first", "data", "late", "complete"}]

\* The transaction the bus is in, and what the context holds for it.
XferInv ==
  /\ xfer \in Transactions /\ xfer.op # "unregister_storage"
  /\ m.deferred # NoDeferred =>
       /\ xfer.op = m.deferred.op /\ xfer.stage \in {"late", "complete"}
       /\ xfer.op = "SendObjectInfo" => m.deferred.code # "OK"
  /\ xfer.op = "SendObjectInfo" /\ xfer.stage # "first" /\ m.deferred = NoDeferred
       => m.pending.state # "RECEIVING_DATA"
  /\ xfer.op \in OutOps \ {"SendObject"} => m.pending.state # "ZERO_SIZE_COMPLETE"
  /\ xfer.op = "SetObjectPropValue" => Apart(m, xfer.handle)
  /\ ~installed => m.pending.path = NoName /\ m.deferred = NoDeferred

IInv ==
  /\ Kept(m) /\ m.next <= MaxHandle + 1 /\ XferInv
  /\ {installed, attached, aborted} \subseteq BOOLEAN /\ answer.code \in Codes

\* What no step may do to a replaced file, to a stored one, and to an edit.
ReplacedStep ==
  Replaces(m.pending) /\ m'.pending.handle = 0
    => /\ m'.fs[m.pending.path] \in AsClosed
       /\ answer' = [op |-> "SendObject", code |-> "ERR"]
            => m'.fs[m.pending.path] = m.fs[m.pending.path]
StoredStep ==
  answer'.op = "SendObject" /\ answer'.code = "OK" /\ m.pending.state = "RECEIVING_DATA"
    => /\ m'.fs[m.pending.path] \in AsClosed
       /\ m'.object[m.pending.handle] = m.pending.path
SparesStep ==
  /\ answer'.op = "unregister_storage" /\ answer'.code = "OK"
  /\ m.edit # 0 /\ Known(m, m.edit) /\ StorageOf[m.object[m.edit]] \in m'.registered
  => m'.edit = m.edit /\ m'.object[m.edit] = m.object[m.edit]

Steady == IInv' /\ ReplacedStep /\ StoredStep /\ SparesStep

LEMMA InitIInv == Init => IInv
<1> SUFFICES ASSUME Init PROVE IInv
  OBVIOUS
<1> DEFINE fs == [f \in Files |-> "none"]
<1>1. m = NewContext(fs) /\ fs \in [Files -> Contents]
  BY DEF Init, Files, Contents
<1>2. /\ \A n \in Names : fs[n] \notin {"blank", "part"}
      /\ \A f \in Internal : fs[f] = "none"
  BY DEF Files
<1> HIDE DEF fs
<1>3. /\ Kept(m) /\ m.pending = IdleWrite /\ m.deferred = NoDeferred /\ m.next = 1
  BY <1>1, <1>2, NewContextKeeps
<1>4. MaxHandle \in Nat
  BY MtpAssumption
<1>5. XferInv
  BY <1>3, IdleWriteSays DEF Init, XferInv, Transactions, NoXfer, HostHandles, OutOps
<1>6. {installed, attached, aborted} \subseteq BOOLEAN /\ answer.code \in Codes
  BY DEF Init, NoAnswer, Codes
<1>7. m.next <= MaxHandle + 1
  BY <1>3, <1>4
<1> QED
  BY <1>3, <1>5, <1>6, <1>7 DEF IInv

\* What Answers leaves in the history.
LEMMA AnswersSay ==
  ASSUME NEW op, NEW code \in Codes, Answers(op, code)
  PROVE  /\ answer'.code \in Codes
         /\ answer'.op \in {"none", op}
         /\ answer'.op = "unregister_storage" => op = "unregister_storage"
         /\ answer'.op = "SendObject" /\ answer'.code = "OK" => op = "SendObject" /\ code = "OK"
         /\ answer' = [op |-> "SendObject", code |-> "ERR"] => code = "ERR"
<1>1. CASE op \in {"SendObject", "unregister_storage"} /\ code # "DATA"
  BY <1>1 DEF Answers
<1>2. CASE ~(op \in {"SendObject", "unregister_storage"} /\ code # "DATA")
  BY <1>2 DEF Answers, NoAnswer, Codes
<1> QED
  BY <1>1, <1>2

LEMMA CommandStep ==
  ASSUME IInv, Orderly, NEW op, NEW h \in HostHandles, NEW r,
         op \notin {"none", "unregister_storage"},
         installed => Handled(Prepared(op), r) /\ r.c.next <= MaxHandle + 1,
         op = "SendObject" => r.code # "OK",
         op = "SetObjectPropValue" => Apart(r.c, h),
         CommandReceived(op, h, r)
  PROVE  Steady
<1> DEFINE c == Prepared(op)
<1>1. m.deferred = NoDeferred /\ Kept(m)
  BY DEF IInv, XferInv, CommandReceived, Kept, OtherInv
<1>2. /\ Kept(c) /\ c.deferred = NoDeferred
      /\ c.pending.path = m.pending.path /\ c.pending.handle = m.pending.handle
      /\ c.pending.write_path = m.pending.write_path /\ c.fs = m.fs
      /\ op # "SendObject" => c.pending.state # "ZERO_SIZE_COMPLETE"
  BY <1>1, PreparedKeeps
<1> HIDE DEF c
<1>3. PICK code : /\ code = (IF installed THEN r.code ELSE "ERR")
                  /\ xfer' = IF code = "DATA" THEN [op |-> op, handle |-> h, stage |-> "first"]
                             ELSE NoXfer
                  /\ Answers(op, code)
  BY DEF CommandReceived
<1>4. /\ m' = IF installed THEN r.c ELSE m
      /\ UNCHANGED <<installed, attached, aborted>> /\ op \in Ops
  BY DEF CommandReceived
<1>5. code \in Codes
  BY <1>3 DEF Handled, Codes
<1>6. /\ xfer' \in Transactions /\ xfer'.op \in {op, "none"}
      /\ xfer'.op # "none" => xfer'.handle = h /\ xfer'.stage = "first" /\ installed
  BY <1>3, <1>4 DEF Transactions, NoXfer, HostHandles
<1>7. /\ answer'.code \in Codes /\ answer'.op # "unregister_storage"
      /\ ~(answer'.op = "SendObject" /\ answer'.code = "OK")
      /\ answer' = [op |-> "SendObject", code |-> "ERR"] => code = "ERR"
  BY <1>3, <1>5, AnswersSay
<1>8. Kept(m)' /\ (m.next <= MaxHandle + 1)' /\ m'.deferred = NoDeferred /\ ReplacedStep
  <2>1. CASE installed
    <3>1. Replaces(c.pending) <=> Replaces(m.pending)
      BY <1>2 DEF Replaces
    <3>2. Kept(r.c) /\ r.c.next <= MaxHandle + 1 /\ r.c.deferred = NoDeferred /\ m' = r.c
      BY <1>2, <1>4, <2>1 DEF Handled, c
    <3>3. Replaces(m.pending) /\ m'.pending.handle = 0 =>
            /\ m'.fs[m.pending.path] \in AsClosed
            /\ r.code = "ERR" => m'.fs[m.pending.path] = m.fs[m.pending.path]
      BY <1>2, <2>1, <3>1, <3>2 DEF Handled, c
    <3> QED
      BY <1>3, <1>7, <2>1, <3>2, <3>3 DEF ReplacedStep
  <2>2. CASE ~installed
    BY <1>1, <1>4, <2>2, ReplacesSays DEF IInv, ReplacedStep
  <2> QED
    BY <2>1, <2>2
<1>9. XferInv'
  <2>1. op \in OutOps \ {"SendObject"} /\ installed => m'.pending.state # "ZERO_SIZE_COMPLETE"
    BY <1>2, <1>4 DEF Handled, c
  <2>2. op = "SetObjectPropValue" /\ installed => Apart(m, h)'
    BY <1>4 DEF Apart, Known, Used
  <2>3. ~installed => m'.pending.path = NoName
    BY <1>4 DEF IInv, XferInv
  <2> QED
    BY <1>4, <1>6, <1>8, <2>1, <2>2, <2>3 DEF XferInv, Apart, Known, Used, OutOps
<1> QED
  BY <1>4, <1>7, <1>8, <1>9 DEF Steady, IInv, StoredStep, SparesStep

\* The request that was cancelled is told so once.
LEMMA UncancelKeeps ==
  ASSUME NEW c, Kept(c)
  PROVE  LET d == [c EXCEPT !.cancelled = "no"]
         IN /\ Kept(d) /\ d.pending = c.pending /\ d.fs = c.fs /\ d.object = c.object
            /\ d.next = c.next /\ d.deferred = c.deferred /\ d.cancelled = "no"
<1> DEFINE d == [c EXCEPT !.cancelled = "no"]
<1>1. /\ d \in Contexts /\ d.object = c.object /\ d.fs = c.fs /\ d.pending = c.pending
      /\ d.registered = c.registered /\ d.next = c.next /\ d.read = c.read /\ d.edit = c.edit
      /\ d.partial = c.partial /\ d.deferred = c.deferred /\ d.session_open = c.session_open
      /\ d.cancelled = "no"
  BY DEF Kept, Contexts
<1> HIDE DEF d
<1>2. PendingInv(d) /\ ContentInv(d) /\ HalfInv(d) /\ HiddenInv(d)
  BY <1>1 DEF Kept, PendingInv, ContentInv, HalfInv, HiddenInv
<1>3. ObjectInv(d) /\ OtherInv(d)
  BY <1>1 DEF Kept, ObjectInv, OtherInv
<1> QED
  BY <1>1, <1>2, <1>3 DEF Kept, d

LEMMA DataStep ==
  ASSUME IInv, Orderly, NEW op, NEW r, NEW will \in BOOLEAN, NEW last \in BOOLEAN,
         op \notin {"none", "unregister_storage"},
         installed /\ m.cancelled # "this" => Handled(m, r) /\ r.c.next <= MaxHandle + 1,
         op = "SendObject" =>
           r.code # "OK" /\ (r.code # "DATA" => m.pending.state # "ZERO_SIZE_COMPLETE"),
         op = "SendObjectInfo" =>
           r.code # "OK" /\ (r.code = "DATA" => r.c.pending.state # "RECEIVING_DATA"),
         op = "SetObjectPropValue" => Apart(r.c, xfer.handle),
         DataReceived(op, r, will, last)
  PROVE  Steady
<1> DEFINE cancelled == m.cancelled = "this"
           c == IF cancelled THEN [m EXCEPT !.cancelled = "no"] ELSE r.c
           code == IF cancelled \/ ~installed THEN "ERR" ELSE r.code
           defers == code # "DATA" /\ op \in OutOps /\ will
           stage == IF last THEN "complete" ELSE IF will THEN "late" ELSE "data"
<1>1. /\ xfer.op = op /\ (xfer.stage = "late" => will) /\ xfer.stage # "complete"
      /\ aborted' = (defers /\ ~installed)
      /\ m' = IF ~installed THEN m ELSE IF defers THEN DeferResponse(c, op, code) ELSE c
      /\ xfer' = IF defers \/ code = "DATA" THEN [xfer EXCEPT !.stage = stage] ELSE NoXfer
      /\ Answers(op, IF defers THEN "DATA" ELSE code)
      /\ UNCHANGED <<installed, attached>>
  BY DEF DataReceived
<1> HIDE DEF c, code, defers, stage, cancelled
<1>2. code \in Codes /\ (code = "DATA" => r.code = "DATA" /\ installed /\ ~cancelled)
  BY DEF code, Codes, Handled, cancelled
<1>3. ASSUME installed
      PROVE  /\ Kept(c) /\ c.next <= MaxHandle + 1 /\ c.cancelled # "this"
             /\ c.deferred \in {m.deferred, NoDeferred}
             /\ c.pending.state = "ZERO_SIZE_COMPLETE" =>
                  m.pending.state = "ZERO_SIZE_COMPLETE" /\ ~cancelled
             /\ Replaces(m.pending) /\ c.pending.handle = 0 =>
                  /\ c.fs[m.pending.path] \in AsClosed
                  /\ code = "ERR" => c.fs[m.pending.path] = m.fs[m.pending.path]
             /\ c = r.c \/ (c.pending = m.pending /\ c.object = m.object)
  <2>1. CASE cancelled
    <3>1. c = [m EXCEPT !.cancelled = "no"] /\ m.pending.state # "ZERO_SIZE_COMPLETE" /\ Kept(m)
      BY <2>1 DEF c, cancelled, IInv, Kept, OtherInv
    <3> QED
      BY <3>1, UncancelKeeps, ReplacesSays DEF IInv
  <2>2. CASE ~cancelled
    <3>1. /\ c = r.c /\ m.cancelled # "this" /\ Handled(m, r) /\ r.c.next <= MaxHandle + 1
          /\ code = r.code
      BY <1>3, <2>2 DEF c, cancelled, code
    <3> QED
      BY <2>2, <3>1 DEF Handled
  <2> QED
    BY <2>1, <2>2
<1>4. ASSUME installed, defers PROVE c.pending.state # "ZERO_SIZE_COMPLETE"
  BY <1>3, <1>4, <1>1 DEF defers, code, cancelled, IInv, XferInv
<1>5. ASSUME installed
      PROVE  /\ Kept(m') /\ m'.next <= MaxHandle + 1
             /\ m'.pending = c.pending /\ m'.object = c.object /\ m'.fs = c.fs
             /\ m'.deferred = IF defers /\ c.deferred = NoDeferred THEN [op |-> op, code |-> code]
                              ELSE c.deferred
  <2>1. CASE defers
    <3>1. op \in OutOps /\ m' = DeferResponse(c, op, code)
      BY <1>1, <1>5, <2>1 DEF defers
    <3> QED
      BY <1>2, <1>3, <1>4, <1>5, <2>1, <3>1, DeferResponseKeeps
  <2>2. CASE ~defers
    BY <1>1, <1>3, <1>5, <2>2
  <2> QED
    BY <2>1, <2>2
<1>6. ~installed => /\ m' = m /\ m.pending.path = NoName /\ m.deferred = NoDeferred /\ Kept(m)
                    /\ ~Replaces(m.pending) /\ m.pending.state # "RECEIVING_DATA"
  BY <1>1 DEF IInv, XferInv, Kept, PendingInv, Replaces
<1>7. Kept(m)' /\ (m.next <= MaxHandle + 1)' /\ ReplacedStep
  <2>1. answer' = [op |-> "SendObject", code |-> "ERR"] => code = "ERR"
    <3>1. PICK said : said = (IF defers THEN "DATA" ELSE code) /\ Answers(op, said)
      BY <1>1
    <3>2. said \in Codes
      BY <1>2, <3>1 DEF Codes
    <3> QED
      BY <3>1, <3>2, AnswersSay
  <2> QED
    BY <1>3, <1>5, <1>6, <2>1 DEF IInv, ReplacedStep
<1>8. /\ xfer' \in Transactions /\ xfer'.op \in {op, "none"} /\ op \in Ops
      /\ xfer'.op = op => xfer'.handle = xfer.handle /\ xfer'.stage = stage /\ (defers \/ code = "DATA")
      /\ xfer'.op # op => ~defers /\ code # "DATA"
  <2>1. xfer \in Transactions /\ xfer.op = op
    BY <1>1 DEF IInv, XferInv
  <2>2. stage \in {"first", "data", "late", "complete"}
    BY DEF stage
  <2>3. CASE defers \/ code = "DATA"
    BY <1>1, <2>1, <2>2, <2>3 DEF Transactions
  <2>4. CASE ~(defers \/ code = "DATA")
    BY <1>1, <2>1, <2>4 DEF Transactions, NoXfer, HostHandles
  <2> QED
    BY <2>3, <2>4
<1>9. m'.deferred # NoDeferred =>
        /\ xfer'.op = m'.deferred.op /\ xfer'.stage \in {"late", "complete"}
        /\ xfer'.op = "SendObjectInfo" => m'.deferred.code # "OK"
  <2> SUFFICES ASSUME m'.deferred # NoDeferred
               PROVE  /\ xfer'.op = m'.deferred.op /\ xfer'.stage \in {"late", "complete"}
                      /\ xfer'.op = "SendObjectInfo" => m'.deferred.code # "OK"
    OBVIOUS
  <2>1. installed
    BY <1>6
  <2>2. CASE defers /\ c.deferred = NoDeferred
    <3>1. m'.deferred = [op |-> op, code |-> code] /\ will /\ xfer'.op = op /\ xfer'.stage = stage
      BY <1>5, <1>8, <2>1, <2>2 DEF defers
    <3>2. op = "SendObjectInfo" => code # "OK"
      BY DEF code
    <3> QED
      BY <3>1, <3>2 DEF stage
  <2>3. CASE ~(defers /\ c.deferred = NoDeferred)
    <3>1. m'.deferred = m.deferred
      BY <1>3, <1>5, <2>1, <2>3
    <3>2. /\ op = m.deferred.op /\ xfer.stage \in {"late", "complete"} /\ op \in OutOps
          /\ op = "SendObjectInfo" => m.deferred.code # "OK"
      BY <1>1, <3>1 DEF IInv, XferInv, Kept, Contexts, Deferreds
    <3>3. will /\ stage \in {"late", "complete"}
      BY <1>1, <3>2 DEF stage
    <3>4. xfer'.op = op
      BY <1>8, <3>2, <3>3 DEF defers
    <3> QED
      BY <1>8, <3>1, <3>2, <3>3, <3>4
  <2> QED
    BY <2>2, <2>3
<1>10. xfer'.op = "SendObjectInfo" /\ m'.deferred = NoDeferred => m'.pending.state # "RECEIVING_DATA"
  <2> SUFFICES ASSUME xfer'.op = "SendObjectInfo", m'.deferred = NoDeferred, installed
               PROVE  m'.pending.state # "RECEIVING_DATA"
    BY <1>6
  <2>1. op = "SendObjectInfo"
    BY <1>8
  <2>2. [op |-> op, code |-> code] # NoDeferred
    BY <2>1 DEF NoDeferred
  <2>3. ~defers
    BY <1>5, <2>2
  <2>4. code = "DATA"
    BY <1>8, <2>1, <2>3
  <2>5. r.code = "DATA" /\ c = r.c
    BY <1>2, <2>4 DEF c
  <2> QED
    BY <1>5, <2>1, <2>5
<1>11. op \in OutOps \ {"SendObject"} => m'.pending.state # "ZERO_SIZE_COMPLETE"
  <2>1. op \in OutOps \ {"SendObject"} => m.pending.state # "ZERO_SIZE_COMPLETE"
    BY <1>1 DEF IInv, XferInv
  <2> QED
    BY <1>3, <1>5, <1>6, <2>1
<1>12. xfer'.op = "SetObjectPropValue" => Apart(m', xfer'.handle)
  <2> SUFFICES ASSUME xfer'.op = "SetObjectPropValue" PROVE Apart(m', xfer'.handle)
    OBVIOUS
  <2>1. op = "SetObjectPropValue" /\ xfer'.handle = xfer.handle
    BY <1>8
  <2>2. Apart(m, xfer.handle) /\ Apart(r.c, xfer.handle)
    BY <1>1, <2>1 DEF IInv, XferInv
  <2>3. CASE installed
    <3>1. Apart(c, xfer.handle)
      BY <1>3, <2>2, <2>3 DEF Apart, Known, Used
    <3> QED
      BY <1>5, <2>1, <2>3, <3>1 DEF Apart, Known, Used
  <2>4. CASE ~installed
    BY <1>6, <2>1, <2>2, <2>4
  <2> QED
    BY <2>3, <2>4
<1>13. XferInv'
  <2>1. ~installed' => m'.pending.path = NoName /\ m'.deferred = NoDeferred
    BY <1>1, <1>6
  <2>2. xfer' \in Transactions /\ xfer'.op # "unregister_storage"
    BY <1>8
  <2>3. xfer'.op \in OutOps \ {"SendObject"} => m'.pending.state # "ZERO_SIZE_COMPLETE"
    BY <1>8, <1>11 DEF OutOps
  <2> QED
    BY <1>9, <1>10, <1>12, <2>1, <2>2, <2>3 DEF XferInv
<1>14. /\ answer'.code \in Codes /\ answer'.op # "unregister_storage"
       /\ ~(answer'.op = "SendObject" /\ answer'.code = "OK")
  <2>1. PICK said : said = (IF defers THEN "DATA" ELSE code) /\ Answers(op, said)
    BY <1>1
  <2>2. said \in Codes /\ (op = "SendObject" => said # "OK")
    BY <1>2, <2>1 DEF Codes, code
  <2> QED
    BY <2>1, <2>2, AnswersSay
<1>15. {installed, attached, aborted}' \subseteq BOOLEAN
  BY <1>1 DEF IInv
<1> QED
  BY <1>7, <1>13, <1>14, <1>15 DEF Steady, IInv, StoredStep, SparesStep

LEMMA CalmCompletes ==
  ASSUME NEW c, Kept(c), NEW r, Calm(c, r), r.c.deferred = NoDeferred
  PROVE  Completed(c, r)
BY CalmHandled DEF Calm, Handled, Completed

\* What the completion of a data phase leaves, whatever it was of.
LEMMA CompleteDataKeeps ==
  ASSUME IInv, Orderly, installed, m.cancelled # "this", xfer.stage = "complete" \/ xfer.op \notin OutOps,
         NEW success, NEW bad, bad \in Faulty(OnComplete)
  PROVE  LET r == CompleteData(xfer.op, success, bad)
         IN /\ Completed(m, r)
            /\ xfer.op = "SendObject" /\ r.code = "OK" /\ m.pending.state = "RECEIVING_DATA" =>
                 /\ r.c.fs[m.pending.path] \in AsClosed
                 /\ r.c.object[m.pending.handle] = m.pending.path
<1> DEFINE r == CompleteData(xfer.op, success, bad)
<1>1. Kept(m) /\ "unlink" \notin Faults
  BY DEF IInv, Orderly
<1>2. CASE xfer.op = "SendObjectInfo"
  <2>1. /\ m.deferred # NoDeferred => m.deferred.op = "SendObjectInfo" /\ m.deferred.code # "OK"
        /\ m.deferred = NoDeferred => m.pending.state # "RECEIVING_DATA"
    BY <1>2 DEF IInv, XferInv, OutOps
  <2>2. Completed(m, SendObjectInfoComplete(m, success, bad))
    BY <1>1, <2>1, SendObjectInfoCompleteKeeps
  <2> QED
    BY <1>2, <2>2 DEF CompleteData
<1>3. CASE xfer.op = "SendObject"
  <2>1. m.deferred # NoDeferred => m.deferred.op = "SendObject"
    BY <1>3 DEF IInv, XferInv
  <2>2. r = SendObjectComplete(m, success, bad)
    BY <1>3 DEF CompleteData
  <2> QED
    BY <1>1, <2>1, <2>2, SendObjectCompleteKeeps
<1>4. CASE xfer.op = "SetObjectPropValue"
  <2>1. m.deferred # NoDeferred => m.deferred.op = "SetObjectPropValue"
    BY <1>4 DEF IInv, XferInv
  <2>2. r = SetPropValueComplete(m, success)
    BY <1>4 DEF CompleteData
  <2> QED
    BY <1>1, <1>4, <2>1, <2>2, SetPropValueCompleteKeeps, CalmCompletes
<1>5. CASE xfer.op = "SendPartialObject"
  <2>1. m.deferred # NoDeferred => m.deferred.op = "SendPartialObject"
    BY <1>5 DEF IInv, XferInv
  <2>2. r = SendPartialComplete(m, success, bad)
    BY <1>5 DEF CompleteData
  <2> QED
    BY <1>1, <1>5, <2>1, <2>2, SendPartialCompleteKeeps, CalmCompletes
<1>6. CASE xfer.op \notin OutOps
  <2>1. m.deferred = NoDeferred
    BY <1>1, <1>6 DEF IInv, XferInv, Kept, Contexts, Deferreds, OtherInv
  <2>2. Calm(m, CompleteRead(m, success))
    BY <1>1, CompleteReadKeeps
  <2>3. \A code \in {"OK", "ERR"} : Calm(m, Result(ClearBuffer(m), code))
    BY <1>1, ClearBufferKeeps, ResultSays DEF Calm, Codes
  <2>4. r = CompleteRead(m, success) \/ r = Result(ClearBuffer(m), IF success THEN "OK" ELSE "ERR")
    BY <1>6 DEF CompleteData, OutOps
  <2>5. Calm(m, r)
    BY <2>2, <2>3, <2>4
  <2> HIDE DEF r
  <2>6. Completed(m, r)
    BY <1>1, <2>1, <2>5, CalmCompletes DEF Calm, Quiet
  <2> QED
    BY <1>6, <2>6 DEF OutOps, r
<1> QED
  BY <1>2, <1>3, <1>4, <1>5, <1>6 DEF OutOps

LEMMA DataCompleteStep ==
  ASSUME IInv, Orderly, DataComplete
  PROVE  Steady
<1>1. PICK success \in BOOLEAN, bad \in Faulty(OnComplete) :
        LET cancelled == m.cancelled = "this"
            r == CompleteData(xfer.op, success, bad)
        IN /\ xfer.op # "none" /\ (xfer.op \in OutOps => xfer.stage = "complete")
           /\ m' = IF ~installed THEN m
                   ELSE IF cancelled THEN [m EXCEPT !.cancelled = "no"] ELSE r.c
           /\ Answers(xfer.op, IF ~installed \/ cancelled THEN "ERR" ELSE r.code)
           /\ xfer' = NoXfer
           /\ UNCHANGED <<installed, attached, aborted>>
  BY DEF DataComplete
<1> DEFINE r == CompleteData(xfer.op, success, bad)
           code == IF ~installed \/ m.cancelled = "this" THEN "ERR" ELSE r.code
<1>2. Kept(m) /\ (Replaces(m.pending) => m.pending.handle # 0)
  BY ReplacesSays DEF IInv
<1>3. installed /\ m.cancelled # "this" =>
        /\ Completed(m, r)
        /\ xfer.op = "SendObject" /\ r.code = "OK" /\ m.pending.state = "RECEIVING_DATA" =>
             /\ r.c.fs[m.pending.path] \in AsClosed
             /\ r.c.object[m.pending.handle] = m.pending.path
  BY <1>1, CompleteDataKeeps
<1> HIDE DEF r
<1>4. code \in Codes
  BY <1>3 DEF Completed, Codes
<1>5. Kept(m)' /\ (m.next <= MaxHandle + 1)' /\ m'.deferred = NoDeferred /\ ReplacedStep
  <2>1. CASE installed /\ m.cancelled # "this"
    <3>1. m' = r.c /\ Answers(xfer.op, code) /\ code = r.code
      BY <1>1, <2>1 DEF r
    <3>2. answer' = [op |-> "SendObject", code |-> "ERR"] => r.code = "ERR"
      BY <1>4, <3>1, AnswersSay
    <3> QED
      BY <1>3, <2>1, <3>1, <3>2 DEF Completed, IInv, ReplacedStep
  <2>2. CASE installed /\ m.cancelled = "this"
    <3>1. m.deferred = NoDeferred
      BY <1>2, <2>2 DEF Kept, OtherInv
    <3> QED
      BY <1>1, <1>2, <2>2, <3>1, UncancelKeeps DEF IInv, ReplacedStep
  <2>3. CASE ~installed
    BY <1>1, <1>2, <2>3 DEF IInv, XferInv, ReplacedStep
  <2> QED
    BY <2>1, <2>2, <2>3
<1>6. XferInv'
  <2>1. ~installed => m'.pending.path = NoName
    BY <1>1 DEF IInv, XferInv
  <2> QED
    BY <1>1, <1>5, <2>1 DEF XferInv, Transactions, NoXfer, HostHandles, OutOps
<1>7. Answers(xfer.op, code) /\ xfer.op # "unregister_storage"
  BY <1>1 DEF IInv, XferInv, r
<1>8. answer'.code \in Codes /\ SparesStep
  BY <1>4, <1>7, AnswersSay DEF SparesStep
<1>9. StoredStep
  <2> SUFFICES ASSUME answer'.op = "SendObject", answer'.code = "OK", m.pending.state = "RECEIVING_DATA"
               PROVE  /\ m'.fs[m.pending.path] \in AsClosed
                      /\ m'.object[m.pending.handle] = m.pending.path
    BY DEF StoredStep
  <2>1. xfer.op = "SendObject" /\ code = "OK"
    BY <1>4, <1>7, AnswersSay
  <2>2. installed /\ m.cancelled # "this" /\ r.code = "OK" /\ m' = r.c
    BY <1>1, <2>1 DEF r
  <2> QED
    BY <1>3, <2>1, <2>2
<1> QED
  BY <1>1, <1>5, <1>6, <1>8, <1>9 DEF Steady, IInv

-----------------------------------------------------------------------------
(* Every step.                                                             *)

\* Under an orderly host the object is not the one being received.
LEMMA NotReceiving ==
  ASSUME Orderly, NEW h, ~OfReceiving(h)
  PROVE  Apart(m, h)
BY DEF Orderly, OfReceiving, Receiving, Apart, Known, Used

LEMMA CommandSteps ==
  ASSUME IInv, Orderly, Command
  PROVE  Steady
<1>1. PICK h \in Offered, bad \in Faulty(OnCommand) :
        \/ \E op \in {"SendObjectInfo", "SetObjectPropValue"} :
             /\ ~(op = "SetObjectPropValue" /\ OfReceiving(h))
             /\ CommandReceived(op, h,
                  LET c == Prepared(op)
                  IN IF ~c.session_open \/ "arm" \in bad THEN Err(c) ELSE Result(c, "DATA"))
        \/ CommandReceived("SendObject", h, SendObjectCommand(Prepared("SendObject"), bad))
        \/ CommandReceived("BeginEdit", h, BeginEdit(Prepared("BeginEdit"), h))
        \/ \E size \in Sizes :
             CommandReceived("SendPartialObject", h,
                             SendPartialCommand(Prepared("SendPartialObject"), h, size, bad))
        \/ CommandReceived("TruncateObject", h, TruncateObject(Prepared("TruncateObject"), h))
        \/ CommandReceived("EndEdit", h, EndEdit(Prepared("EndEdit"), h))
        \/ \E size \in Sizes :
             CommandReceived("GetObject", h, StartRead(Prepared("GetObject"), h, size, bad))
        \/ \E order \in SetToSeqs(Present(m)) :
             /\ MayList(order)
             /\ CommandReceived("GetObjectHandles", h,
                                ListObjects(Prepared("GetObjectHandles"), order, bad))
        \/ ~OfReceiving(h) /\ CommandReceived("DeleteObject", h, DeleteObject(Prepared("DeleteObject"), h))
        \/ CommandReceived("GetObjectInfo", h, GetObjectInfo(Prepared("GetObjectInfo"), h, bad))
        \/ CommandReceived("OpenSession", h, OpenSession(Prepared("OpenSession")))
        \/ CommandReceived("CloseSession", h, CloseSession(Prepared("CloseSession")))
  BY DEF Command
<1>2. h \in HostHandles
  BY DEF Offered, Used, IInv, Kept, Contexts, Partials, HostHandles
<1>3. Kept(m) /\ m.next <= MaxHandle + 1 /\ Sizes \subseteq Nat
  BY MtpAssumption DEF IInv
<1>4. ASSUME NEW op, NEW r, CommandReceived(op, h, r)
      PROVE  /\ Kept(Prepared(op)) /\ Prepared(op).next = m.next
             /\ Prepared(op).object = m.object /\ Prepared(op).fs = m.fs
             /\ Prepared(op).registered = m.registered
             /\ Prepared(op).pending.path = m.pending.path
  <2>1. m.deferred = NoDeferred
    BY <1>4 DEF CommandReceived, IInv, XferInv, Kept, OtherInv
  <2> QED
    BY <1>3, <2>1, PreparedKeeps
<1>5. ASSUME NEW op, op \notin {"none", "unregister_storage", "SendObject", "SetObjectPropValue"},
             NEW r, Calm(Prepared(op), r), CommandReceived(op, h, r)
      PROVE  Steady
  <2>1. Handled(Prepared(op), r) /\ r.c.next <= MaxHandle + 1
    BY <1>3, <1>4, <1>5, CalmHandled
  <2> QED
    BY <1>2, <1>5, <2>1, CommandStep
<1>6. ASSUME NEW op \in {"SendObjectInfo", "SetObjectPropValue"},
             ~(op = "SetObjectPropValue" /\ OfReceiving(h)),
             CommandReceived(op, h, LET c == Prepared(op)
                                    IN IF ~c.session_open \/ "arm" \in bad THEN Err(c) ELSE Result(c, "DATA"))
      PROVE  Steady
  <2> DEFINE c == Prepared(op)
             r == IF ~c.session_open \/ "arm" \in bad THEN Err(c) ELSE Result(c, "DATA")
  <2>1. Kept(c) /\ r.c = c /\ r.code \in Codes
    BY <1>4, <1>6, ResultSays DEF Codes
  <2>2. c.next = m.next /\ c.object = m.object /\ c.pending.path = m.pending.path
    BY <1>4, <1>6
  <2>3. CommandReceived(op, h, r)
    BY <1>6
  <2> HIDE DEF r
  <2>4. Calm(c, r)
    BY <2>1 DEF Calm, Quiet
  <2>5. Handled(c, r) /\ r.c.next <= MaxHandle + 1
    BY <1>3, <2>1, <2>2, <2>4, CalmHandled
  <2>6. op = "SetObjectPropValue" => Apart(r.c, h)
    BY <1>6, <2>1, <2>2, NotReceiving DEF Apart, Known, Used
  <2> QED
    BY <1>2, <2>3, <2>5, <2>6, CommandStep
<1>7. ASSUME CommandReceived("SendObject", h, SendObjectCommand(Prepared("SendObject"), bad))
      PROVE  Steady
  <2> DEFINE r == SendObjectCommand(Prepared("SendObject"), bad)
  <2>1. Handled(Prepared("SendObject"), r) /\ r.c.next <= MaxHandle + 1
    BY <1>3, <1>4, <1>7, SendObjectCommandKeeps
  <2>2. r.code # "OK"
    BY ResultSays DEF SendObjectCommand
  <2> HIDE DEF r
  <2> QED
    BY <1>2, <1>7, <2>1, <2>2, CommandStep DEF r
<1>8. ASSUME NEW order \in SetToSeqs(Present(m)), MayList(order),
             CommandReceived("GetObjectHandles", h, ListObjects(Prepared("GetObjectHandles"), order, bad))
      PROVE  Steady
  <2> DEFINE c == Prepared("GetObjectHandles")
             r == ListObjects(c, order, bad)
  <2>1. order \in Seq(Present(m))
    <3>1. IsFiniteSet(Present(m))
      BY MtpAssumption, FS_Subset DEF Present
    <3>2. Cardinality(Present(m)) \in Nat
      BY <3>1, FS_CardinalityType
    <3>3. order \in [1 .. Cardinality(Present(m)) -> Present(m)]
      BY <1>8 DEF SetToSeqs
    <3> QED
      BY <3>2, <3>3
  <2>2. order \in Seq(Names) /\ \A k \in 1 .. Len(order) : StorageOf[order[k]] \in c.registered
    BY <1>4, <1>8, <2>1 DEF Present
  <2>3. Handled(c, r) /\ r.c.next = Listed(c, order).next
    BY <1>4, <1>8, <2>2, ListObjectsKeeps
  <2>4. r.c.next <= MaxHandle + 1
    BY <1>8, <2>3 DEF MayList
  <2> HIDE DEF r
  <2> QED
    BY <1>2, <1>8, <2>3, <2>4, CommandStep DEF r
<1>9. ASSUME ~OfReceiving(h), CommandReceived("DeleteObject", h, DeleteObject(Prepared("DeleteObject"), h))
      PROVE  Steady
  <2>1. Known(Prepared("DeleteObject"), h) =>
          Prepared("DeleteObject").object[h] # Prepared("DeleteObject").pending.path
    BY <1>4, <1>9, NotReceiving DEF Apart, Known, Used
  <2>2. /\ Handled(Prepared("DeleteObject"), DeleteObject(Prepared("DeleteObject"), h))
        /\ DeleteObject(Prepared("DeleteObject"), h).c.next <= MaxHandle + 1
    BY <1>2, <1>3, <1>4, <1>9, <2>1, DeleteObjectKeeps
  <2> QED
    BY <1>2, <1>9, <2>2, CommandStep
<1>10. ASSUME CommandReceived("OpenSession", h, OpenSession(Prepared("OpenSession")))
       PROVE  Steady
  <2>1. /\ Handled(Prepared("OpenSession"), OpenSession(Prepared("OpenSession")))
        /\ OpenSession(Prepared("OpenSession")).c.next <= MaxHandle + 1
    BY <1>3, <1>4, <1>10, OpenSessionKeeps
  <2> QED
    BY <1>2, <1>10, <2>1, CommandStep
<1>11. ASSUME CommandReceived("CloseSession", h, CloseSession(Prepared("CloseSession")))
       PROVE  Steady
  <2>1. /\ Handled(Prepared("CloseSession"), CloseSession(Prepared("CloseSession")))
        /\ CloseSession(Prepared("CloseSession")).c.next <= MaxHandle + 1
    BY <1>3, <1>4, <1>11, CloseSessionKeeps
  <2> QED
    BY <1>2, <1>11, <2>1, CommandStep
<1>12. ASSUME CommandReceived("BeginEdit", h, BeginEdit(Prepared("BeginEdit"), h)) PROVE Steady
  BY <1>2, <1>4, <1>5, <1>12, BeginEditKeeps
<1>13. ASSUME NEW size \in Sizes,
              CommandReceived("SendPartialObject", h,
                              SendPartialCommand(Prepared("SendPartialObject"), h, size, bad))
       PROVE  Steady
  BY <1>2, <1>3, <1>4, <1>5, <1>13, SendPartialCommandKeeps
<1>14. ASSUME CommandReceived("TruncateObject", h, TruncateObject(Prepared("TruncateObject"), h))
       PROVE  Steady
  BY <1>4, <1>5, <1>14, TruncateObjectKeeps
<1>15. ASSUME CommandReceived("EndEdit", h, EndEdit(Prepared("EndEdit"), h)) PROVE Steady
  BY <1>4, <1>5, <1>15, EndEditKeeps
<1>16. ASSUME NEW size \in Sizes,
              CommandReceived("GetObject", h, StartRead(Prepared("GetObject"), h, size, bad))
       PROVE  Steady
  BY <1>3, <1>4, <1>5, <1>16, StartReadKeeps
<1>17. ASSUME CommandReceived("GetObjectInfo", h, GetObjectInfo(Prepared("GetObjectInfo"), h, bad))
       PROVE  Steady
  BY <1>4, <1>5, <1>17, GetObjectInfoKeeps

<1> QED
  BY <1>1, <1>6, <1>7, <1>8, <1>9, <1>10, <1>11, <1>12, <1>13, <1>14, <1>15, <1>16, <1>17

LEMMA DataPacketSteps ==
  ASSUME IInv, Orderly, DataPacket
  PROVE  Steady
<1>1. PICK will \in BOOLEAN, last \in BOOLEAN, bad \in Faulty(OnData) :
        \/ \E n \in Names, size \in Sizes, dir \in BOOLEAN :
             /\ xfer.stage = "first" /\ MayCreate(n)
             /\ DataReceived("SendObjectInfo", SendObjectInfoData(m, n, size, dir, bad), will, last)
        \/ \E op \in {"SendObjectInfo", "SetObjectPropValue"} : DataReceived(op, Err(m), will, last)
        \/ \E k \in Packets : DataReceived("SendObject", SendObjectData(m, k, bad), will, last)
        \/ \E n \in {n \in Names : \A h \in Used(m) \ {xfer.handle} : m.object[h] # n} :
             LET r == Rename(m, xfer.handle, n)
             IN /\ xfer.stage = "first"
                /\ DataReceived("SetObjectPropValue",
                     IF ~m.session_open THEN Err(m)
                     ELSE IF r.code = "OK" /\ ~will THEN Err(r.c) ELSE r, will, last)
        \/ \E k \in Packets :
             DataReceived("SendPartialObject", SendPartialData(m, xfer.handle, k, bad), will, last)
        \/ DataReceived("GetObject", ContinueRead(m, bad), will, FALSE)
        \/ DataReceived("GetObjectHandles", ContinueBuffer(m, "GetObjectHandles", bad), will, FALSE)
  BY DEF DataPacket
<1>2. Kept(m) /\ m.next <= MaxHandle + 1 /\ Sizes \subseteq Nat /\ Packets \subseteq Nat
  BY MtpAssumption DEF IInv, Packets
<1>3. ASSUME NEW op, op \notin {"none", "unregister_storage", "SendObject", "SendObjectInfo", "SetObjectPropValue"},
             NEW r, Calm(m, r), NEW final \in BOOLEAN, DataReceived(op, r, will, final)
      PROVE  Steady
  <2>1. Handled(m, r) /\ r.c.next <= MaxHandle + 1
    BY <1>2, <1>3, CalmHandled
  <2> QED
    BY <1>3, <2>1, DataStep
<1>4. ASSUME NEW n \in Names, NEW size \in Sizes, NEW dir \in BOOLEAN, MayCreate(n),
             DataReceived("SendObjectInfo", SendObjectInfoData(m, n, size, dir, bad), will, last)
      PROVE  Steady
  <2> DEFINE r == SendObjectInfoData(m, n, size, dir, bad)
             a == AbortPendingWrite(m)
  <2>1. m.next <= MaxHandle \/ \E h \in Used(a) : a.object[h] = n
    <3>1. \A h \in Handles : a.object[h] \in {m.object[h], NoName}
      BY <1>2, AbortSays DEF Kept
    <3>2. \A h \in Used(a) : a.object[h] = m.object[h]
      BY <3>1 DEF Used
    <3> QED
      BY <1>4, <3>2 DEF MayCreate
  <2>2. /\ Handled(m, r) /\ r.c.next <= MaxHandle + 1
        /\ r.code # "OK" /\ (r.code = "DATA" => r.c.pending.state # "RECEIVING_DATA")
    BY <1>2, <2>1, SendObjectInfoDataKeeps
  <2> HIDE DEF r
  <2> QED
    BY <1>4, <2>2, DataStep DEF r
<1>5. ASSUME NEW op \in {"SendObjectInfo", "SetObjectPropValue"}, DataReceived(op, Err(m), will, last)
      PROVE  Steady
  <2>1. Handled(m, Err(m)) /\ Err(m).c = m /\ Err(m).code = "ERR"
    BY <1>2, CalmHandled, ResultSays DEF Calm, Codes, Quiet
  <2>2. op = "SetObjectPropValue" => Apart(m, xfer.handle)
    BY <1>5 DEF DataReceived, IInv, XferInv
  <2> QED
    BY <1>2, <1>5, <2>1, <2>2, DataStep
<1>6. ASSUME NEW k \in Packets, DataReceived("SendObject", SendObjectData(m, k, bad), will, last)
      PROVE  Steady
  <2> DEFINE r == SendObjectData(m, k, bad)
  <2>1. /\ Handled(m, r) /\ r.c.next <= MaxHandle + 1 /\ r.code # "OK"
        /\ r.code # "DATA" => m.pending.state # "ZERO_SIZE_COMPLETE"
    BY <1>2, SendObjectDataKeeps
  <2> HIDE DEF r
  <2> QED
    BY <1>6, <2>1, DataStep DEF r
<1>7. ASSUME NEW n \in Names,
             LET r == Rename(m, xfer.handle, n)
             IN DataReceived("SetObjectPropValue",
                  IF ~m.session_open THEN Err(m)
                  ELSE IF r.code = "OK" /\ ~will THEN Err(r.c) ELSE r, will, last)
      PROVE  Steady
  <2> DEFINE r == Rename(m, xfer.handle, n)
             q == IF ~m.session_open THEN Err(m)
                  ELSE IF r.code = "OK" /\ ~will THEN Err(r.c) ELSE r
  <2>1. xfer.op = "SetObjectPropValue"
    BY <1>7 DEF DataReceived
  <2>2. Apart(m, xfer.handle) /\ xfer.handle \in HostHandles
    BY <2>1 DEF IInv, XferInv, Transactions
  <2>3. /\ Handled(m, r) /\ r.c.next = m.next /\ r.c.pending = m.pending
        /\ Apart(r.c, xfer.handle)
    BY <1>2, <2>2, RenameKeeps DEF Apart
  <2>4. Handled(m, Err(m))
    BY <1>2, CalmHandled, ResultSays DEF Calm, Codes, Quiet
  <2>5. DataReceived("SetObjectPropValue", q, will, last)
    BY <1>7
  <2>6. q \in {Err(m), Err(r.c), r}
    OBVIOUS
  <2> HIDE DEF r, q
  <2>7. Handled(m, Err(r.c))
    BY <1>2, <2>3, ReplacesSays, ResultSays DEF Handled, Codes
  <2>8. Handled(m, q) /\ q.c.next <= MaxHandle + 1 /\ Apart(q.c, xfer.handle)
    BY <1>2, <2>2, <2>3, <2>4, <2>6, <2>7, ResultSays
  <2> QED
    BY <2>5, <2>8, DataStep
<1>8. ASSUME NEW k \in Packets,
             DataReceived("SendPartialObject", SendPartialData(m, xfer.handle, k, bad), will, last)
      PROVE  Steady
  BY <1>2, <1>3, <1>8, SendPartialDataKeeps
<1>9. ASSUME DataReceived("GetObject", ContinueRead(m, bad), will, FALSE) PROVE Steady
  BY <1>2, <1>3, <1>9, ContinueReadKeeps
<1>10. ASSUME DataReceived("GetObjectHandles", ContinueBuffer(m, "GetObjectHandles", bad), will, FALSE)
       PROVE  Steady
  BY <1>2, <1>3, <1>10, ContinueBufferKeeps
<1> QED
  BY <1>1, <1>4, <1>5, <1>6, <1>7, <1>8, <1>9, <1>10

\* A step that ends or leaves the transaction and answers neither of the two
\* calls the history keeps.
LEMMA QuietStep ==
  ASSUME IInv, Kept(m)', m'.next <= MaxHandle + 1,
         \/ xfer' = NoXfer /\ m'.deferred = NoDeferred
         \/ /\ xfer' = xfer /\ \A h \in Handles : m'.object[h] \in {m.object[h], NoName}
            /\ \/ m'.pending.state = "IDLE" /\ m'.deferred = NoDeferred
               \/ m'.pending = m.pending /\ m'.deferred = m.deferred,
         ~installed' => m'.pending.path = NoName /\ m'.deferred = NoDeferred,
         {installed, attached, aborted}' \subseteq BOOLEAN,
         answer'.code \in Codes, answer'.op # "SendObject",
         ReplacedStep, SparesStep
  PROVE  Steady
<1>1. StoredStep
  BY DEF StoredStep
<1>2. XferInv'
  <2>1. CASE xfer' = NoXfer /\ m'.deferred = NoDeferred
    BY <2>1 DEF IInv, XferInv, Transactions, NoXfer, HostHandles, OutOps
  <2>2. CASE xfer' = xfer /\ ~(xfer' = NoXfer /\ m'.deferred = NoDeferred)
    <3>1. xfer \in Transactions /\ xfer'.op = xfer.op /\ xfer'.stage = xfer.stage
          /\ xfer'.handle = xfer.handle /\ xfer' \in Transactions /\ xfer'.op # "unregister_storage"
      BY <2>2 DEF IInv, XferInv
    <3>2. xfer.op = "SetObjectPropValue" => Apart(m', xfer.handle)
      <4>1. CASE m'.pending = m.pending
        BY <2>2, <4>1 DEF IInv, XferInv, Apart, Known, Used
      <4>2. CASE m'.pending.state = "IDLE"
        <5>1. m'.pending.path = NoName
          BY <4>2 DEF Kept, PendingInv
        <5> QED
          BY <5>1 DEF Apart, Known, Used
      <4> QED
        BY <2>2, <4>1, <4>2
    <3>3. CASE m'.pending.state = "IDLE" /\ m'.deferred = NoDeferred
      BY <2>2, <3>1, <3>2, <3>3 DEF XferInv
    <3>4. CASE m'.pending = m.pending /\ m'.deferred = m.deferred
      BY <2>2, <3>1, <3>2, <3>4 DEF IInv, XferInv
    <3> QED
      BY <2>1, <2>2, <3>3, <3>4
  <2> QED
    BY <2>1, <2>2
<1> QED
  BY <1>1, <1>2 DEF Steady, IInv

\* The control requests and the bus.
LEMMA RequestSteps ==
  ASSUME IInv, Orderly, CancelRequest \/ DeviceReset \/ BusLost \/ BusBack
  PROVE  Steady
<1>1. /\ Kept(m) /\ m.next <= MaxHandle + 1 /\ (Replaces(m.pending) => m.pending.handle # 0)
      /\ {installed, attached, aborted} \subseteq BOOLEAN
      /\ (~installed => m.pending.path = NoName /\ m.deferred = NoDeferred)
  BY ReplacesSays DEF IInv, XferInv
<1>2. ASSUME answer' = NoAnswer
      PROVE  answer'.code \in Codes /\ answer'.op # "SendObject" /\ SparesStep
  BY <1>2 DEF NoAnswer, Codes, SparesStep
<1>3. CASE CancelRequest
  <2>1. PICK tid \in {"this", "other", "no"} :
          /\ m' = IF installed THEN [ResetTransfers(m) EXCEPT !.cancelled = tid] ELSE m
          /\ xfer' \in {xfer, NoXfer} /\ answer' = NoAnswer
          /\ UNCHANGED <<installed, attached, aborted>>
    BY <1>3 DEF CancelRequest
  <2>2. CASE installed
    <3> DEFINE d == [ResetTransfers(m) EXCEPT !.session_open = m.session_open, !.cancelled = tid]
    <3>1. m' = d
      BY <1>1, <2>1, <2>2, ResetForms
    <3>0. m.session_open \in {FALSE, m.session_open} /\ tid \in {"no", "this", "other"}
      OBVIOUS
    <3>2. /\ Kept(d) /\ Settled(d) /\ d.next = m.next /\ d.deferred = NoDeferred
          /\ (Replaces(m.pending) => /\ d.fs[m.pending.path] \in AsClosed
                                     /\ d.fs[m.pending.path] = m.fs[m.pending.path])
          /\ \A h \in Handles : d.object[h] \in {m.object[h], NoName}
      BY <1>1, <3>0, ResetKeeps, ZenonT(30)
    <3> HIDE DEF d
    <3>3. /\ Kept(m)' /\ m'.next = m.next /\ m'.deferred = NoDeferred /\ m'.pending = IdleWrite
          /\ \A h \in Handles : m'.object[h] \in {m.object[h], NoName}
          /\ Replaces(m.pending) => /\ m'.fs[m.pending.path] \in AsClosed
                                    /\ m'.fs[m.pending.path] = m.fs[m.pending.path]
      BY <3>1, <3>2 DEF Settled
    <3> QED
      BY <1>1, <1>2, <2>1, <2>2, <3>3, QuietStep, IdleWriteSays DEF ReplacedStep
  <2>3. CASE ~installed
    BY <1>1, <1>2, <2>1, <2>3, QuietStep DEF ReplacedStep
  <2> QED
    BY <2>2, <2>3
<1>4. CASE DeviceReset
  <2>1. /\ m' = IF installed THEN [ResetTransfers(m) EXCEPT !.session_open = FALSE] ELSE m
        /\ xfer' = NoXfer /\ answer' = NoAnswer
        /\ UNCHANGED <<installed, attached, aborted>>
    BY <1>4 DEF DeviceReset
  <2>2. CASE installed
    <3> DEFINE d == [ResetTransfers(m) EXCEPT !.session_open = FALSE, !.cancelled = "no"]
    <3>1. m' = d
      BY <1>1, <2>1, <2>2, ResetForms
    <3>2. /\ Kept(d) /\ Settled(d) /\ d.next = m.next /\ d.deferred = NoDeferred
          /\ (Replaces(m.pending) => /\ d.fs[m.pending.path] \in AsClosed
                                     /\ d.fs[m.pending.path] = m.fs[m.pending.path])
          /\ \A h \in Handles : d.object[h] \in {m.object[h], NoName}
      BY <1>1, ResetKeeps
    <3> HIDE DEF d
    <3>3. /\ Kept(m)' /\ m'.next = m.next /\ m'.deferred = NoDeferred /\ m'.pending = IdleWrite
          /\ \A h \in Handles : m'.object[h] \in {m.object[h], NoName}
          /\ Replaces(m.pending) => /\ m'.fs[m.pending.path] \in AsClosed
                                    /\ m'.fs[m.pending.path] = m.fs[m.pending.path]
      BY <3>1, <3>2 DEF Settled
    <3> QED
      BY <1>1, <1>2, <2>1, <2>2, <3>3, QuietStep, IdleWriteSays DEF ReplacedStep
  <2>3. CASE ~installed
    BY <1>1, <1>2, <2>1, <2>3, QuietStep DEF ReplacedStep
  <2> QED
    BY <2>2, <2>3
<1>5. CASE BusLost
  BY <1>1, <1>2, <1>5, QuietStep DEF BusLost, Orderly, ReplacedStep
<1>6. CASE BusBack
  BY <1>1, <1>2, <1>6, QuietStep DEF BusBack, ReplacedStep
<1> QED
  BY <1>3, <1>4, <1>5, <1>6

\* The application's calls.
LEMMA AppSteps ==
  ASSUME IInv, Orderly, App
  PROVE  Steady
<1>1. /\ Kept(m) /\ m.next <= MaxHandle + 1 /\ (Replaces(m.pending) => m.pending.handle # 0)
      /\ {installed, attached, aborted} \subseteq BOOLEAN /\ m.fs \in [Files -> Contents]
      /\ (~installed => m.pending.path = NoName /\ m.deferred = NoDeferred)
      /\ MaxHandle \in Nat
  BY ReplacesSays, MtpAssumption DEF IInv, XferInv, Kept, Contexts
<1>2. ASSUME NEW op, NEW ok, NEW c, AppCall(op, ok, c), op # "SendObject"
      PROVE  /\ m' = c /\ UNCHANGED <<xfer, attached, aborted>>
             /\ answer'.code \in Codes /\ answer'.op # "SendObject"
             /\ op # "unregister_storage" => SparesStep
             /\ answer'.code = "OK" /\ answer'.op = "unregister_storage" => ok
  <2>1. m' = c /\ UNCHANGED <<xfer, attached, aborted>> /\ Answers(op, IF ok THEN "OK" ELSE "ERR")
    BY <1>2 DEF AppCall
  <2>2. /\ answer'.code \in Codes /\ answer'.op # "SendObject"
        /\ (answer'.op = "unregister_storage" => op = "unregister_storage")
    BY <1>2, <2>1, AnswersSay DEF Answers, NoAnswer, Codes
  <2>3. answer'.code = "OK" /\ answer'.op = "unregister_storage" => ok
    BY <2>1 DEF Answers, NoAnswer
  <2> QED
    BY <2>1, <2>2, <2>3 DEF SparesStep
<1>3. CASE InstallDriver
  <2>1. AppCall("install_driver", ~installed, IF installed THEN m ELSE NewContext(m.fs)) /\ installed'
    BY <1>3 DEF InstallDriver
  <2>2. /\ m' = (IF installed THEN m ELSE NewContext(m.fs)) /\ UNCHANGED <<xfer, attached, aborted>>
        /\ answer'.code \in Codes /\ answer'.op # "SendObject" /\ SparesStep
    BY <1>2, <2>1
  <2>3. CASE installed
    BY <1>1, <2>1, <2>2, <2>3, QuietStep DEF ReplacedStep
  <2>4. CASE ~installed
    <3>1. /\ \A n \in Names : m.fs[n] \notin {"blank", "part"}
          /\ \A f \in Internal : m.fs[f] = "none"
          /\ ~Replaces(m.pending)
      BY <1>1, <2>4, NamesApart DEF Kept, PendingInv, HalfInv, HiddenInv, Replaces
    <3>2. /\ Kept(m)' /\ m'.pending = IdleWrite /\ m'.deferred = NoDeferred
          /\ m'.next = 1 /\ m'.object = [h \in Handles |-> NoName]
      BY <1>1, <2>2, <2>4, <3>1, NewContextKeeps
    <3> QED
      BY <1>1, <2>1, <2>2, <3>1, <3>2, QuietStep, IdleWriteSays DEF ReplacedStep
  <2> QED
    BY <2>3, <2>4
<1>4. CASE UninstallDriver
  <2> DEFINE b == ResetTransfers(m)
  <2>1. /\ AppCall("uninstall_driver", installed, IF installed THEN NewContext(b.fs) ELSE m)
        /\ installed' = FALSE
    BY <1>4 DEF UninstallDriver
  <2>2. /\ m' = (IF installed THEN NewContext(b.fs) ELSE m) /\ UNCHANGED <<xfer, attached, aborted>>
        /\ answer'.code \in Codes /\ answer'.op # "SendObject" /\ SparesStep
    BY <1>2, <2>1
  <2>3. CASE ~installed
    BY <1>1, <2>1, <2>2, <2>3, QuietStep DEF ReplacedStep
  <2>4. CASE installed
    <3> DEFINE d == [b EXCEPT !.session_open = m.session_open, !.cancelled = "no"]
    <3>0. m.session_open \in {FALSE, m.session_open} /\ "no" \in {"no", "this", "other"} /\ b = d
      BY <1>1, ResetForms
    <3>1. /\ Settled(d) /\ Kept(d)
          /\ (Replaces(m.pending) => /\ d.fs[m.pending.path] \in AsClosed
                                     /\ d.fs[m.pending.path] = m.fs[m.pending.path])
      BY <1>1, <3>0, ResetKeeps, ZenonT(30)
    <3>4. /\ Settled(b) /\ Kept(b)
          /\ (Replaces(m.pending) => /\ b.fs[m.pending.path] \in AsClosed
                                     /\ b.fs[m.pending.path] = m.fs[m.pending.path])
      BY <3>0, <3>1
    <3> HIDE DEF b, d
    <3>2. b.fs \in [Files -> Contents]
      BY <3>4 DEF Kept, Contexts
    <3>3. /\ Kept(m)' /\ m'.pending = IdleWrite /\ m'.deferred = NoDeferred /\ m'.fs = b.fs
          /\ m'.next = 1 /\ m'.object = [h \in Handles |-> NoName]
      BY <2>2, <2>4, <3>2, <3>4, NewContextKeeps DEF Settled
    <3>5. ReplacedStep
      BY <3>3, <3>4 DEF ReplacedStep
    <3>6. /\ m'.next <= MaxHandle + 1 /\ m'.pending.state = "IDLE" /\ m'.pending.path = NoName
          /\ \A h \in Handles : m'.object[h] \in {m.object[h], NoName}
      BY <1>1, <3>3, IdleWriteSays
    <3>7. {installed, attached, aborted}' \subseteq BOOLEAN /\ xfer' = xfer
      BY <1>1, <2>1, <2>2
    <3> QED
      BY <2>2, <3>3, <3>5, <3>6, <3>7, QuietStep
  <2> QED
    BY <2>3, <2>4
<1>5. ASSUME NEW s \in Storages, RegisterStorage(s) PROVE Steady
  <2> DEFINE d == [m EXCEPT !.registered = @ \union {s}]
             ok == installed /\ s \notin m.registered
  <2>1. AppCall("register_storage", ok, IF ok THEN d ELSE m) /\ installed' = installed
    BY <1>5 DEF RegisterStorage
  <2>2. /\ m' = (IF ok THEN d ELSE m) /\ UNCHANGED <<xfer, attached, aborted>>
        /\ answer'.code \in Codes /\ answer'.op # "SendObject" /\ SparesStep
    BY <1>2, <2>1
  <2>3. /\ Kept(d) /\ d.pending = m.pending /\ d.object = m.object /\ d.fs = m.fs
        /\ d.next = m.next /\ d.deferred = m.deferred
    BY <1>1, RegisterKeeps
  <2> HIDE DEF d, ok
  <2>4. /\ Kept(m)' /\ m'.pending = m.pending /\ m'.object = m.object /\ m'.next = m.next
        /\ m'.deferred = m.deferred
    BY <1>1, <2>2, <2>3
  <2> QED
    BY <1>1, <2>1, <2>2, <2>4, QuietStep DEF ReplacedStep
<1>6. ASSUME NEW s \in Storages, UnregisterStorage(s) PROVE Steady
  <2> DEFINE ok == installed /\ s \in m.registered /\ TransferIsIdle(m)
             d == [ClearObjects(DetachStorage(m, s), s) EXCEPT !.registered = @ \ {s}]
  <2>1. AppCall("unregister_storage", ok, IF ok THEN d ELSE m) /\ installed' = installed
    BY <1>6 DEF UnregisterStorage
  <2>2. /\ m' = (IF ok THEN d ELSE m) /\ UNCHANGED <<xfer, attached, aborted>>
        /\ answer'.code \in Codes /\ answer'.op # "SendObject"
        /\ answer'.code = "OK" /\ answer'.op = "unregister_storage" => ok
    BY <1>2, <2>1
  <2>3. ok => /\ Kept(d) /\ d.pending = m.pending /\ d.next = m.next
              /\ d.deferred = m.deferred /\ d.registered = m.registered \ {s}
              /\ \A h \in Handles : d.object[h] \in {m.object[h], NoName}
              /\ Known(m, m.edit) /\ StorageOf[m.object[m.edit]] # s =>
                   d.edit = m.edit /\ d.object[m.edit] = m.object[m.edit]
    BY <1>1, UnregisterKeeps
  <2> HIDE DEF d, ok
  <2>4. /\ Kept(m)' /\ m'.pending = m.pending /\ m'.next = m.next /\ m'.deferred = m.deferred
        /\ \A h \in Handles : m'.object[h] \in {m.object[h], NoName}
    BY <1>1, <2>2, <2>3
  <2>5. SparesStep
    BY <2>2, <2>3 DEF SparesStep
  <2> QED
    BY <1>1, <2>1, <2>2, <2>4, <2>5, QuietStep DEF ReplacedStep
<1>7. ASSUME NEW n \in Names, NEW v \in {"whole", "none"}, ~Receiving(n),
             AppCall("app", TRUE, [m EXCEPT !.fs[n] = v]), installed' = installed
      PROVE  Steady
  <2> DEFINE d == [m EXCEPT !.fs[n] = v]
  <2>1. /\ m' = d /\ UNCHANGED <<xfer, attached, aborted>>
        /\ answer'.code \in Codes /\ answer'.op # "SendObject" /\ SparesStep
    <3>1. AppCall("app", TRUE, d)
      BY <1>7
    <3> HIDE DEF d
    <3>2. "app" # "SendObject" /\ "app" # "unregister_storage"
      OBVIOUS
    <3> QED
      BY <1>2, <3>1, <3>2, ZenonT(30)
  <2>2. n # m.pending.path
    BY <1>7, NamesApart DEF Receiving, Orderly
  <2>3. Kept(d) /\ d.pending = m.pending /\ d.object = m.object /\ Beside(m, d)
    <3>1. v \in {"none", "dir"} \union AsClosed
      BY AsClosedSays
    <3> QED
      BY <1>1, <2>2, <3>1, FileKeeps, ZenonT(30)
  <2> HIDE DEF d
  <2> QED
    BY <1>1, <1>7, <2>1, <2>3, QuietStep DEF ReplacedStep, Beside
<1>8. ASSUME NEW n \in Names, AppWrites(n) PROVE Steady
  BY <1>7, <1>8 DEF AppWrites
<1>9. ASSUME NEW n \in Names, AppRemoves(n) PROVE Steady
  BY <1>7, <1>9 DEF AppRemoves
<1> QED
  BY <1>3, <1>4, <1>5, <1>6, <1>8, <1>9 DEF App

LEMMA NextSteady ==
  ASSUME IInv, Orderly, Next
  PROVE  Steady
BY CommandSteps, DataPacketSteps, DataCompleteStep, RequestSteps, AppSteps DEF Next

LEMMA StutterIInv ==
  ASSUME IInv, UNCHANGED vars
  PROVE  IInv'
BY DEF vars, IInv, XferInv, Apart, Known, Used

-----------------------------------------------------------------------------
(* The theorems.                                                           *)

\* From IInv: what no end of a transfer leaves behind.
LEMMA IInvGives == IInv => WriteInv
<1> SUFFICES ASSUME IInv PROVE WriteInv
  OBVIOUS
<1>1. Kept(m) /\ m \in Contexts
  BY DEF IInv, Kept
<1>2. TypeOK
  <2>1. m.next \in 1 .. MaxHandle + 1
    BY <1>1, MtpAssumption DEF IInv, Kept, OtherInv, Contexts
  <2>2. m.pending.written \in 0 .. m.pending.expected
    BY <1>1 DEF Kept, PendingInv, Contexts, Writes
  <2>3. /\ m.registered \subseteq Storages /\ m.object \in [Handles -> Names \union {NoName}]
        /\ m.fs \in [Names \union Internal -> Contents]
        /\ m.edit \in HostHandles /\ m.partial.handle \in HostHandles
        /\ m.pending.handle \in HostHandles /\ m.pending.path \in Names \union {NoName}
    BY <1>1 DEF Contexts, Paths, Files, Writes, Partials
  <2>4. {installed, attached, aborted} \subseteq BOOLEAN /\ xfer.op \in Ops \union {"none"}
        /\ answer.code \in Codes
    BY DEF IInv, XferInv, Transactions
  <2> QED
    BY <2>1, <2>2, <2>3, <2>4 DEF TypeOK
<1>3. NoHalfFileIsLeft
  BY <1>1 DEF NoHalfFileIsLeft, Kept, HalfInv, Receives
<1>4. NoHiddenFileIsLeft
  BY <1>1 DEF NoHiddenFileIsLeft, Kept, HiddenInv
<1>5. SessionOwnsWrites
  BY <1>1 DEF SessionOwnsWrites, Kept, PendingInv, OtherInv
<1>6. NoUnregisteredUse
  BY <1>1 DEF NoUnregisteredUse, Kept, PendingInv, ObjectInv, OtherInv
<1> QED
  BY <1>2, <1>3, <1>4, <1>5, <1>6 DEF WriteInv

\* However a transfer ends, under an orderly host on a bus that stays up and a
\* card that removes what it is told to, no half and no hidden file is left,
\* and no upload or edit outlives its session or its storage. A close may fail:
\* a file all received and cut short by that is not half in this sense.
THEOREM WriteCorrect == Orderly => (Spec => []WriteInv)
<1>1. Init => IInv
  BY InitIInv
<1>2. Orderly /\ IInv /\ [Next]_vars => IInv'
  BY NextSteady, StutterIInv DEF Steady
<1>3. IInv => WriteInv
  BY IInvGives
<1> SUFFICES ASSUME Orderly PROVE Spec => []WriteInv
  OBVIOUS
<1>4. IInv /\ [Next]_vars => IInv'
  BY <1>2
<1> QED
  BY <1>1, <1>3, <1>4, PTL DEF Spec

\* Under the same conditions an OK of SendObject means that the file is there,
\* all received and closed, and the end of a replacement leaves a closed file,
\* the old one when the host is told of an error. Unless "close" is in Faults,
\* AsClosed is {"whole"} and these files are whole.
THEOREM UploadsCorrect == Orderly => (Spec => UploadsAreAtomic)
<1> SUFFICES ASSUME Orderly PROVE Spec => UploadsAreAtomic
  OBVIOUS
<1>1. Init => IInv
  BY InitIInv
<1>2. IInv /\ [Next]_vars => IInv'
  BY NextSteady, StutterIInv DEF Steady
<1>3. IInv /\ [Next]_vars =>
        [answer'.op = "SendObject" /\ answer'.code = "OK" /\ m.pending.state = "RECEIVING_DATA"
           => /\ m'.fs[m.pending.path] \in AsClosed
              /\ m'.object[m.pending.handle] = m.pending.path]_vars
  BY NextSteady DEF Steady, StoredStep
<1>4. IInv /\ [Next]_vars =>
        [Replaces(m.pending) /\ m'.pending.handle = 0
           => /\ m'.fs[m.pending.path] \in AsClosed
              /\ answer' = [op |-> "SendObject", code |-> "ERR"]
                   => m'.fs[m.pending.path] = m.fs[m.pending.path]]_vars
  BY NextSteady DEF Steady, ReplacedStep
<1> QED
  BY <1>1, <1>2, <1>3, <1>4, PTL DEF Spec, UploadsAreAtomic, OkMeansStored, ReplacementLeavesAFile

\* Unregistering a storage leaves the edit of an object on another one alone.
THEOREM UnregisterCorrect == Orderly => (Spec => UnregisterSparesOthers)
<1> SUFFICES ASSUME Orderly PROVE Spec => UnregisterSparesOthers
  OBVIOUS
<1>1. Init => IInv
  BY InitIInv
<1>2. IInv /\ [Next]_vars => IInv'
  BY NextSteady, StutterIInv DEF Steady
<1>3. IInv /\ [Next]_vars =>
        [(/\ answer'.op = "unregister_storage" /\ answer'.code = "OK"
          /\ m.edit # 0 /\ Known(m, m.edit) /\ StorageOf[m.object[m.edit]] \in m'.registered)
           => m'.edit = m.edit /\ m'.object[m.edit] = m.object[m.edit]]_vars
  BY NextSteady DEF Steady, SparesStep
<1> QED
  BY <1>1, <1>2, <1>3, PTL DEF Spec, UnregisterSparesOthers
=============================================================================
