---------------------------- MODULE MtpTransfer ----------------------------
(***************************************************************************)
(* The transactions of the MTP component: the three callbacks of the       *)
(* TinyUSB task (command, data packet, data complete), the two control     *)
(* requests (cancel, reset), the transfers they carry on from one callback *)
(* to the next, and the calls of the application that install the driver   *)
(* and register the storages. Every callback and every call holds the      *)
(* lifecycle lock from end to end, so each is one step.                    *)
(*                                                                         *)
(* A file is abstracted to how much of what its writer announced it holds, *)
(* or was given to hold: what fwrite has taken may still be in the buffer  *)
(* of its stream, and reaches the card when the stream is closed, if then. *)
(* The storages have no subdirectories here: MtpObjects models the tree.   *)
(***************************************************************************)
EXTENDS Integers, Sequences, FiniteSets, SequencesExt

CONSTANTS
  Storages, Names,  \* storages, and the paths on them
  StorageOf,        \* the storage each path is on
  NoName,
  MaxHandle,        \* bound: the handles one installation hands out
  MaxObjects,       \* CONFIG_TINYUSB_MTP_MAX_OBJECTS
  Attempts,         \* the internal names tried for one object (16)
  Sizes,            \* the sizes announced by the host, in packets
  Ops,              \* the operations the host uses
  Faults,           \* the calls that may fail
  OrderlyHost,      \* nobody renames or removes an object being received
  AnswersArrive     \* the bus is not lost before the completion of a data phase
                    \* whose answer waits for it

Handles  == 1 .. MaxHandle
Internal == [prefix : {"tmp", "bak"}, handle : Handles, attempt : 0 .. Attempts - 1]

ASSUME MtpAssumption ==
  /\ StorageOf \in [Names -> Storages] /\ IsFiniteSet(Names) /\ NoName \notin Names
  /\ (Names \union {NoName}) \cap Internal = {}
  /\ MaxHandle \in Nat /\ MaxObjects \in Nat \ {0} /\ Attempts \in Nat \ {0}
  /\ Sizes \subseteq Nat /\ {OrderlyHost, AnswersArrive} \subseteq BOOLEAN

\* What a file holds once closed: all, or less when its last close may fail.
AsClosed == IF "close" \in Faults THEN {"whole", "short"} ELSE {"whole"}
Contents == {"none", "dir", "blank", "part"} \union AsClosed

OutOps == {"SendObjectInfo", "SendObject", "SetObjectPropValue", "SendPartialObject"}
Codes  == {"DATA", "OK", "ERR"}

VARIABLES
  installed,  \* s_mtp_context.installed
  m,          \* s_mtp_context.mux_protected, and the files of the card (fs)
  xfer,       \* TinyUSB: the transaction the bus is in
  attached,   \* a host is on the bus
  answer,     \* what the last SendObject or unregister_storage answered (history)
  aborted     \* abort() was called

vars == <<installed, m, xfer, attached, answer, aborted>>

IdleWrite ==
  [state |-> "IDLE", handle |-> 0, path |-> NoName, write_path |-> NoName,
   backup_path |-> NoName, file |-> FALSE, expected |-> 0, written |-> 0,
   created_path |-> FALSE, created_object |-> FALSE, directory |-> FALSE]
NoRead     == [active |-> FALSE, path |-> NoName, remaining |-> 0]
NoPartial  == [active |-> FALSE, handle |-> 0, expected |-> 0, written |-> 0]
NoDeferred == [op |-> "none", code |-> "OK"]
NoXfer     == [op |-> "none", handle |-> 0, stage |-> "first"]

NewContext(fs) ==
  [session_open |-> FALSE, registered |-> {}, object |-> [h \in Handles |-> NoName],
   next |-> 1, pending |-> IdleWrite, read |-> NoRead, edit |-> 0,
   partial |-> NoPartial, buffer |-> "none", deferred |-> NoDeferred,
   cancelled |-> "no", fs |-> fs]

(***************************************************************************)
(* The object table: handles and the paths they stand for.                 *)
(***************************************************************************)
Used(c) == {h \in Handles : c.object[h] # NoName}
FreeObject(c, h) == IF h = 0 THEN c ELSE [c EXCEPT !.object[h] = NoName]
Known(c, h) == h \in Used(c)
IsFile(c, h) == Known(c, h) /\ c.fs[c.object[h]] # "dir"

\* mtp_update_object_stat_locked: an object whose file is gone is dropped
Missing(c, h) == c.fs[c.object[h]] = "none"
Restat(c, h) == IF Missing(c, h) THEN FreeObject(c, h) ELSE c

\* mtp_get_or_create_object_locked: the cached object, or a new one in a free
\* slot, or in the slot of an object whose file is gone; handle 0 when full
GetOrCreate(c, n) ==
  LET cached == {h \in Used(c) : c.object[h] = n}
      gone   == {h \in Used(c) : Missing(c, h)}
      slots  == IF Cardinality(Used(c)) < MaxObjects THEN {c}
                ELSE {FreeObject(c, h) : h \in gone}
  IN IF cached # {} THEN [c |-> c, handle |-> CHOOSE h \in cached : TRUE]
     ELSE IF slots = {} THEN [c |-> c, handle |-> 0]
     ELSE [c |-> [(CHOOSE s \in slots : TRUE)
                    EXCEPT !.object[c.next] = n, !.next = @ + 1],
           handle |-> c.next]

(***************************************************************************)
(* Ending transfers.                                                       *)
(***************************************************************************)
Replaces(p) == p.write_path # NoName
TargetPath(p) == p.path \* mutant: an abort removes the target, not the temporary file
WritePath(p) == IF Replaces(p) THEN p.write_path ELSE p.path
RemovePath(fs, f) == [fs EXCEPT ![f] = "none"]

AbortPendingWrite(c) ==
  LET p == c.pending
      d == IF p.created_path /\ p.path # NoName
           THEN [c EXCEPT !.fs = RemovePath(@, WritePath(p))] ELSE c
      e == IF p.created_object THEN FreeObject(d, p.handle) ELSE d
  IN [e EXCEPT !.pending = IdleWrite]

ClearEdit(c)    == [c EXCEPT !.edit = 0]
ClearPartial(c) == [c EXCEPT !.partial = NoPartial]

ResetTransfers(c) ==
  [AbortPendingWrite(c) EXCEPT !.read = NoRead, !.edit = 0, !.partial = NoPartial,
     !.buffer = "none", !.deferred = NoDeferred, !.cancelled = "no"]

AnyStorage(c, h, s) == TRUE \* mutant: whatever storage its object is on
OnStorage(c, h, s) == ~Known(c, h) \/ StorageOf[c.object[h]] = s

DetachStorage(c, s) ==
  LET a == IF c.pending.path # NoName /\ StorageOf[c.pending.path] = s
           THEN AbortPendingWrite(c) ELSE c
      b == IF a.read.active /\ StorageOf[a.read.path] = s
           THEN [a EXCEPT !.read = NoRead] ELSE a
      d == IF b.edit # 0 /\ OnStorage(b, b.edit, s) THEN ClearEdit(b) ELSE b
  IN IF d.partial.active /\ OnStorage(d, d.partial.handle, s)
     THEN ClearPartial(d) ELSE d

\* mtp_clear_objects_for_storage_locked
ClearObjects(c, s) ==
  [c EXCEPT !.object = [h \in Handles |->
     IF Known(c, h) /\ StorageOf[@[h]] = s THEN NoName ELSE @[h]]]

TransferIsIdle(c) ==
  /\ c.pending.path = NoName
  /\ c.pending.state \notin {"WAITING_DATA", "RECEIVING_DATA"}
  /\ ~c.read.active /\ ~c.partial.active
  /\ c.buffer = "none" /\ c.deferred = NoDeferred /\ c.cancelled = "no"

(***************************************************************************)
(* What a handler leaves behind and answers: OK and ERR end the            *)
(* transaction, DATA (0) goes on with its data phase.                      *)
(***************************************************************************)
NoAnswer == [op |-> "none", code |-> "OK"]
Answers(op, code) ==
  answer' = IF op \in {"SendObject", "unregister_storage"} /\ code # "DATA"
            THEN [op |-> op, code |-> code] ELSE NoAnswer

Result(c, code) == [c |-> c, code |-> code]
Err(c) == Result(c, "ERR")

(***************************************************************************)
(* SendObjectInfo and SendObject.                                          *)
(***************************************************************************)
InternalPath(c, prefix, h) ==
  LET free == {a \in 0 .. Attempts - 1 :
                 c.fs[[prefix |-> prefix, handle |-> h, attempt |-> a]] = "none"}
  IN IF free = {} THEN NoName
     ELSE [prefix |-> prefix, handle |-> h,
           attempt |-> CHOOSE a \in free : \A b \in free : a <= b]

\* the pending write of object h, whose target was present or was just made;
\* what replaces a file is written beside it, under two names found vacant
PreparePendingWrite(c, h, n, size, dir, present, created_object, bad) ==
  LET temp    == InternalPath(c, "tmp", h)
      backup  == InternalPath(c, "bak", h)
      replace == present /\ ~dir
      pending == [IdleWrite EXCEPT
                    !.state = IF ~dir /\ size > 0 THEN "WAITING_DATA" ELSE "INFO_PREPARED",
                    !.handle = h, !.path = n, !.expected = size,
                    !.write_path = IF replace THEN temp ELSE NoName,
                    !.backup_path = IF replace THEN backup ELSE NoName,
                    !.created_path = ~present \/ replace,
                    !.created_object = created_object, !.directory = dir]
  IN IF replace /\ (temp = NoName \/ backup = NoName \/ "open" \in bad)
     THEN Err(IF created_object THEN FreeObject(c, h) ELSE c)
     ELSE Result([c EXCEPT !.pending = pending,
                    !.fs = IF replace
                           THEN [@ EXCEPT ![temp] = IF size = 0 THEN "whole" ELSE "blank"]
                           ELSE @], "DATA")

\* the data packet of SendObjectInfo: name, size, and whether it is a folder
SendObjectInfoData(c0, n, size, dir, bad) ==
  LET c       == AbortPendingWrite(c0)
      present == c.fs[n] # "none"
      refused == \/ present /\ ((c.fs[n] = "dir") # dir)
                 \/ ~present /\ "open" \in bad
      made    == IF present THEN c
                 ELSE [c EXCEPT !.fs[n] = IF dir THEN "dir"
                                          ELSE IF size = 0 THEN "whole" ELSE "blank"]
      got     == GetOrCreate(made, n)
      created_object == ~present \/ \A h \in Used(c) : c.object[h] # n
  IN IF ~c0.session_open \/ StorageOf[n] \notin c0.registered THEN Err(c0)
     ELSE IF refused \/ got.handle = 0 THEN Err(c)
     ELSE PreparePendingWrite(got.c, got.handle, n, size, dir, present, created_object, bad)

SendObjectCommand(c, bad) ==
  LET state == c.pending.state
      ready == Result([c EXCEPT !.pending.state =
                         IF @ = "WAITING_DATA" THEN "RECEIVING_DATA" ELSE @], "DATA")
  IN IF state \notin {"ZERO_SIZE_COMPLETE", "WAITING_DATA", "RECEIVING_DATA"} THEN Err(c)
     ELSE IF "arm" \notin bad THEN ready
     ELSE IF state = "ZERO_SIZE_COMPLETE" THEN Err([c EXCEPT !.pending.state = "IDLE"])
     ELSE Err(AbortPendingWrite(c))

\* what is taken of a packet: nothing beyond what was announced
Takes(room, packets) == IF packets < room THEN packets ELSE room

SendObjectData(c, packets, bad) ==
  LET p == c.pending
      k == Takes(p.expected - p.written, packets)
      done == p.written + k
      held == IF done = 0 THEN "blank" ELSE "part"
      next == [c EXCEPT !.pending.file = TRUE, !.pending.written = done,
                        !.fs[WritePath(p)] = held]
  IN IF p.state = "ZERO_SIZE_COMPLETE" THEN Result(c, "DATA")
     ELSE IF p.state \notin {"WAITING_DATA", "RECEIVING_DATA"} THEN Err(c)
     ELSE IF \/ ~p.file /\ "open" \in bad
             \/ k > 0 /\ "write" \in bad
             \/ done < p.expected /\ "arm" \in bad
          THEN Err(AbortPendingWrite(c))
     ELSE Result(next, "DATA")

\* the old file goes back under its name, unless that fails too
StaysBackup(fs, backed, bad) == backed \* mutant: nobody puts it back
Restored(fs, backed, bad) == IF "restore" \in bad THEN backed ELSE fs

\* mtp_commit_replacement_locked: target to backup, temporary file to target,
\* and the target back again when that fails
CommitReplacement(c, bad) ==
  LET p == c.pending
      backed == [c.fs EXCEPT ![p.backup_path] = c.fs[p.path], ![p.path] = "none"]
      placed == [backed EXCEPT ![p.path] = c.fs[p.write_path], ![p.write_path] = "none"]
  IN IF c.fs[p.path] = "none" \/ "backup" \in bad THEN Err(AbortPendingWrite(c))
     ELSE IF "replace" \in bad
          THEN Err([c EXCEPT !.fs = RemovePath(Restored(c.fs, backed, bad), p.write_path),
                             !.pending.created_path = FALSE])
     ELSE Result([c EXCEPT !.pending.created_path = FALSE,
                    !.fs = IF "unlink" \in bad THEN placed
                           ELSE RemovePath(placed, p.backup_path)], "OK")

\* the file is closed: what its stream still held is stored, or lost unnoticed
Closed(c, bad) ==
  LET p == c.pending
  IN IF ~p.file THEN c
     ELSE [c EXCEPT !.pending.file = FALSE,
             !.fs[WritePath(p)] = IF "close" \in bad THEN "short" ELSE "whole"]

\* mtp_finish_pending_write_locked, and the clear_pending label of its callers
FinishPendingWrite(c, bad) ==
  LET p == c.pending
      d == Closed(c, bad)
      r == IF Replaces(p) THEN CommitReplacement(d, bad) ELSE Result(d, "OK")
  IN IF p.handle = 0 \/ p.path = NoName THEN Err(c)
     ELSE Result([r.c EXCEPT !.pending = IdleWrite], r.code)

TakeDeferred(c, op) ==
  IF c.deferred.op = op THEN Result([c EXCEPT !.deferred = NoDeferred], c.deferred.code)
  ELSE Result(c, "OK")

SendObjectInfoComplete(c, success, bad) ==
  LET t == TakeDeferred(c, "SendObjectInfo")
      p == t.c.pending
      f == FinishPendingWrite(t.c, bad)
  IN IF ~success THEN Err(AbortPendingWrite([c EXCEPT !.deferred = NoDeferred]))
     ELSE IF t.code # "OK" THEN Err(AbortPendingWrite(t.c))
     ELSE IF p.handle = 0 THEN Err(t.c)
     ELSE IF p.state = "WAITING_DATA" THEN Result(t.c, "OK")
     ELSE IF f.code # "OK" THEN Err(f.c)
     ELSE Result([f.c EXCEPT !.pending.state =
                    IF ~p.directory /\ p.expected = 0
                    THEN "ZERO_SIZE_COMPLETE" ELSE "IDLE"], "OK")

AllWritten(p) == p.written = p.expected

SendObjectComplete(c, success, bad) ==
  LET t == TakeDeferred(c, "SendObject")
      p == t.c.pending
  IN IF c.pending.state = "ZERO_SIZE_COMPLETE"
     THEN Result([c EXCEPT !.pending.state = "IDLE"], IF success THEN "OK" ELSE "ERR")
     ELSE IF ~success THEN Err(AbortPendingWrite([c EXCEPT !.deferred = NoDeferred]))
     ELSE IF t.code # "OK" \/ p.state # "RECEIVING_DATA" \/ p.path = NoName THEN Err(t.c)
     ELSE IF ~AllWritten(p) THEN Err(AbortPendingWrite(t.c))
     ELSE FinishPendingWrite(t.c, bad)

(***************************************************************************)
(* Editing in place.                                                       *)
(***************************************************************************)
\* mtp_get_active_edit_object_locked
ActiveEdit(c, h) ==
  IF h = 0 \/ c.edit # h THEN Err(c)
  ELSE IF ~IsFile(c, h) THEN Err(ClearEdit(c))
  ELSE Result(c, "OK")

BeginEdit(c, h) ==
  IF ~c.session_open \/ ~IsFile(c, h) \/ (c.edit # 0 /\ c.edit # h) THEN Err(c)
  ELSE IF Missing(c, h) THEN Err(FreeObject(c, h))
  ELSE Result([ClearPartial(c) EXCEPT !.edit = h], "OK")

SendPartialCommand(c0, h, size, bad) ==
  LET e == ActiveEdit(ClearPartial(c0), h)
      c == e.c
  IN IF ~c0.session_open THEN Err(c0)
     ELSE IF e.code # "OK" THEN Err(c)
     ELSE IF size = 0 THEN Result(Restat(c, h), "OK")
     ELSE IF Missing(c, h) \/ bad \cap {"open", "arm"} # {} THEN Err(c)
     ELSE Result([c EXCEPT !.partial = [active |-> TRUE, handle |-> h,
                                        expected |-> size, written |-> 0]], "DATA")

SendPartialData(c, h, packets, bad) ==
  LET p == c.partial
      k == Takes(p.expected - p.written, packets)
      more == p.written + k < p.expected
  IN IF ~c.session_open \/ ~p.active \/ p.handle # h THEN Err(c)
     ELSE IF \/ k > 0 /\ "write" \in bad
             \/ more /\ "arm" \in bad
          THEN Err(ClearPartial(c))
     ELSE Result([c EXCEPT !.partial.written = p.written + k],
                 IF more THEN "DATA" ELSE "OK")

SendPartialComplete(c, success, bad) ==
  LET t == TakeDeferred(c, "SendPartialObject")
      p == c.partial
  IN IF ~success THEN Err(ClearPartial([c EXCEPT !.deferred = NoDeferred]))
     ELSE IF t.code # "OK" \/ ~p.active \/ p.written # p.expected \/ "flush" \in bad
             \/ ~Known(c, p.handle)
          THEN Err(ClearPartial(t.c))
     ELSE Result(ClearPartial(Restat(t.c, p.handle)),
                 IF Missing(c, p.handle) THEN "ERR" ELSE "OK")

\* mtp_truncate_object_locked: it fails for a file that is gone; what an edit leaves
\* in a file is not modelled
Truncated(c, h) == IF Missing(c, h) THEN Err(c) ELSE Result(c, "OK")

TruncateObject(c, h) ==
  LET e == ActiveEdit(c, h)
  IN IF ~c.session_open THEN Err(c)
     ELSE IF e.code # "OK" THEN e
     ELSE Truncated(e.c, h)

\* mtp_end_edit_object_locked: over even when the file is gone
EditEnded(c, h) ==
  Result(ClearEdit(ClearPartial(Restat(c, h))), IF Missing(c, h) THEN "ERR" ELSE "OK")

EndEdit(c, h) ==
  LET e == ActiveEdit(c, h)
  IN IF ~c.session_open THEN Err(c)
     ELSE IF e.code # "OK" THEN e
     ELSE EditEnded(e.c, h)

(***************************************************************************)
(* Reading, listing, renaming and deleting.                                *)
(***************************************************************************)
\* mtp_start_read: the first packet goes out with the command
StartRead(c, h, size, bad) ==
  IF ~IsFile(c, h) THEN Err(c)
  ELSE IF Missing(c, h) THEN Err(FreeObject(c, h))
  ELSE IF "open" \in bad THEN Err(c)
  ELSE IF "arm" \in bad THEN Err([c EXCEPT !.read = NoRead])
  ELSE Result([c EXCEPT !.read = [active |-> TRUE, path |-> c.object[h],
                                  remaining |-> IF size = 0 THEN 0 ELSE size - 1]], "DATA")

ContinueRead(c, bad) ==
  IF ~c.read.active THEN Err(c)
  ELSE IF c.read.remaining = 0 THEN Result(c, "DATA")
  ELSE IF "arm" \in bad THEN Err([c EXCEPT !.read = NoRead])
  ELSE Result([c EXCEPT !.read.remaining = @ - 1], "DATA")

CompleteRead(c, success) ==
  Result([c EXCEPT !.read = NoRead], IF success THEN "OK" ELSE "ERR")

ClearBuffer(c) == [c EXCEPT !.buffer = "none"]

\* mtp_start_buffered_data: the reply is kept, its first packet goes out
StartBuffer(c, op, bad) ==
  IF "arm" \in bad THEN Err(ClearBuffer(c))
  ELSE Result([c EXCEPT !.buffer = op], "DATA")

Present(c) == {n \in Names : StorageOf[n] \in c.registered /\ c.fs[n] # "none"}
Listed(c, order) ==
  LET l[k \in 0 .. Len(order)] == IF k = 0 THEN c ELSE GetOrCreate(l[k - 1], order[k]).c
  IN l[Len(order)]
Unlisted(c) == {n \in Present(c) : \A h \in Used(c) : c.object[h] # n}

\* GetObjectHandles: every file gets an object, in the order the directories are
\* read, an object without file goes, and the list is kept for the data phase
ListObjects(c, order, bad) ==
  LET l == Listed(c, order)
      swept == [l EXCEPT !.object = [h \in Handles |->
                  IF Known(l, h) /\ Missing(l, h) THEN NoName ELSE l.object[h]]]
  IN IF Unlisted(l) # {} THEN Err(l)
     ELSE StartBuffer(swept, "GetObjectHandles", bad)

ContinueBuffer(c, op, bad) ==
  IF c.buffer # op THEN Err(c)
  ELSE IF "arm" \in bad THEN Err(ClearBuffer(c))
  ELSE Result(c, "DATA")

\* mtp_rename_object_locked
Rename(c, h, n) ==
  IF ~Known(c, h) THEN Err(c)
  ELSE IF c.object[h] = n THEN Result(c, "OK")
  ELSE IF \/ c.fs[n] # "none" \/ Missing(c, h)
          \/ StorageOf[n] # StorageOf[c.object[h]]
       THEN Err(c)
  ELSE Result([c EXCEPT !.fs = [@ EXCEPT ![n] = c.fs[c.object[h]],
                                         ![c.object[h]] = "none"],
                        !.object[h] = n], "OK")

DeleteObject(c, h) ==
  LET edited == c.edit # 0 /\ Known(c, c.edit) /\ c.object[c.edit] = c.object[h]
      freed == IF edited THEN ClearEdit(ClearPartial(c)) ELSE c
  IN IF ~c.session_open \/ ~Known(c, h) \/ Missing(c, h) THEN Err(c)
     ELSE Result([FreeObject(freed, h) EXCEPT !.fs[c.object[h]] = "none"], "OK")

GetObjectInfo(c, h, bad) ==
  IF ~Known(c, h) THEN Err(c)
  ELSE IF Missing(c, h) THEN Err(FreeObject(c, h))
  ELSE Result(c, IF "arm" \in bad THEN "ERR" ELSE "DATA")

OpenSession(c) ==
  IF c.session_open THEN Err(c) ELSE Result([c EXCEPT !.session_open = TRUE], "OK")

CloseSession(c) ==
  IF ~c.session_open THEN Err(c)
  ELSE Result([ResetTransfers(c) EXCEPT !.session_open = FALSE], "OK")

(***************************************************************************)
(* The callbacks.                                                          *)
(***************************************************************************)
Running == ~aborted
Receiving(n) == OrderlyHost /\ n # NoName /\ n = m.pending.path
OfReceiving(h) == Known(m, h) /\ Receiving(m.object[h])

\* a new handle is within the bound
MayCreate(n) == m.next <= MaxHandle \/ \E h \in Used(AbortPendingWrite(m)) : m.object[h] = n

\* before its handler mtp_dispatch forgets an empty file's SendObject that did not come
Prepared(op) ==
  [m EXCEPT !.cancelled = "no",
            !.pending.state = IF @ = "ZERO_SIZE_COMPLETE" /\ op # "SendObject"
                              THEN "IDLE" ELSE @]

\* so are a listing's handles
MayList(order) == Listed(Prepared("GetObjectHandles"), order).next <= MaxHandle + 1

\* tud_mtp_command_received_cb around a handler's result
CommandReceived(op, h, r) ==
  /\ Running /\ attached /\ xfer.op = "none" /\ op \in Ops
  /\ LET code == IF installed THEN r.code ELSE "ERR"
     IN /\ m' = IF installed THEN r.c ELSE m
        /\ xfer' = IF code = "DATA" THEN [op |-> op, handle |-> h, stage |-> "first"]
                   ELSE NoXfer
        /\ Answers(op, code)
  /\ UNCHANGED <<installed, attached, aborted>>

HostHandles == Handles \union {0}
\* a handle that stands for nothing is like 0
Offered == Used(m) \union {0, m.edit, m.partial.handle}
\* none of a callback's calls into the card and TinyUSB fails, or one does
Faulty(calls) == {{}} \union {{f} : f \in calls \cap Faults}
OnCommand  == {"open", "arm"}
OnData     == {"open", "write", "arm"}
OnComplete == {"close", "backup", "replace", "restore", "unlink", "flush"}

Command ==
  \E h \in Offered, bad \in Faulty(OnCommand) :
    \/ \E op \in {"SendObjectInfo", "SetObjectPropValue"} : \* these only ask for data
         /\ ~(op = "SetObjectPropValue" /\ OfReceiving(h))
         /\ CommandReceived(op, h,
              LET c == Prepared(op)
              IN IF ~c.session_open \/ "arm" \in bad THEN Err(c) ELSE Result(c, "DATA"))
    \/ /\ h = 0 /\ ~(OrderlyHost /\ m.pending.written > 0)
       /\ CommandReceived("SendObject", h, SendObjectCommand(Prepared("SendObject"), bad))
    \/ CommandReceived("BeginEdit", h, BeginEdit(Prepared("BeginEdit"), h))
    \/ \E size \in Sizes :
         CommandReceived("SendPartialObject", h,
                         SendPartialCommand(Prepared("SendPartialObject"), h, size, bad))
    \/ CommandReceived("TruncateObject", h, TruncateObject(Prepared("TruncateObject"), h))
    \/ CommandReceived("EndEdit", h, EndEdit(Prepared("EndEdit"), h))
    \/ \E size \in Sizes :
         CommandReceived("GetObject", h, StartRead(Prepared("GetObject"), h, size, bad))
    \/ /\ h = 0
       /\ \E order \in SetToSeqs(Present(m)) :
            /\ MayList(order)
            /\ CommandReceived("GetObjectHandles", h,
                               ListObjects(Prepared("GetObjectHandles"), order, bad))
    \/ /\ ~OfReceiving(h)
       /\ CommandReceived("DeleteObject", h, DeleteObject(Prepared("DeleteObject"), h))
    \/ CommandReceived("GetObjectInfo", h, GetObjectInfo(Prepared("GetObjectInfo"), h, bad))
    \/ /\ h = 0
       /\ CommandReceived("OpenSession", h, OpenSession(Prepared("OpenSession")))
    \/ /\ h = 0
       /\ CommandReceived("CloseSession", h, CloseSession(Prepared("CloseSession")))

\* mtp_defer_response_locked: the first error stays
DeferResponse(c, op, code) ==
  IF c.deferred # NoDeferred THEN c
  ELSE [c EXCEPT !.deferred = [op |-> op, code |-> code]]

\* tud_mtp_data_xfer_cb around a handler's result. An error of the last packet
\* of an upload waits for the completion; last is TinyUSB's view of the packet,
\* will what mtp_data_phase_will_complete makes of it
DataReceived(op, r, will, last) ==
  LET cancelled == m.cancelled = "this"
      c == IF cancelled THEN [m EXCEPT !.cancelled = "no"] ELSE r.c
      code == IF cancelled \/ ~installed THEN "ERR" ELSE r.code
      defers == code # "DATA" /\ op \in OutOps /\ will
      on == [xfer EXCEPT !.stage = IF last THEN "complete" ELSE IF will THEN "late" ELSE "data"]
  IN /\ Running /\ xfer.op = op /\ xfer.stage # "complete"
     /\ xfer.stage = "late" => will
     /\ aborted' = (defers /\ ~installed)
     /\ m' = IF ~installed THEN m
             ELSE IF defers THEN DeferResponse(c, op, code) ELSE c
     /\ xfer' = IF defers \/ code = "DATA" THEN on ELSE NoXfer
     /\ Answers(op, IF defers THEN "DATA" ELSE code)
     /\ UNCHANGED <<installed, attached>>

Packets == 0 .. 2

DataPacket ==
  \E will, last \in BOOLEAN, bad \in Faulty(OnData) :
    \/ \E n \in Names, size \in Sizes, dir \in BOOLEAN :
         /\ xfer.stage = "first" /\ MayCreate(n)
         /\ DataReceived("SendObjectInfo", SendObjectInfoData(m, n, size, dir, bad), will, last)
    \/ \E op \in {"SendObjectInfo", "SetObjectPropValue"} : \* malformed, or a second packet
         DataReceived(op, Err(m), will, last)
    \/ \E k \in Packets :
         DataReceived("SendObject", SendObjectData(m, k, bad), will, last)
    \/ \E n \in {n \in Names : \A h \in Used(m) \ {xfer.handle} : m.object[h] # n} :
         LET r == Rename(m, xfer.handle, n) \* (MtpObjects has the other names)
         IN /\ xfer.stage = "first"
            /\ DataReceived("SetObjectPropValue",
              IF ~m.session_open THEN Err(m)
              ELSE IF r.code = "OK" /\ ~will THEN Err(r.c) ELSE r, will, last)
    \/ \E k \in Packets :
         DataReceived("SendPartialObject", SendPartialData(m, xfer.handle, k, bad), will, last)
    \/ DataReceived("GetObject", ContinueRead(m, bad), will, FALSE)
    \/ DataReceived("GetObjectHandles", ContinueBuffer(m, "GetObjectHandles", bad), will, FALSE)

SetPropValueComplete(c, success) ==
  IF ~success THEN Err([c EXCEPT !.deferred = NoDeferred])
  ELSE IF c.deferred.op # "SetObjectPropValue" THEN Err(c)
  ELSE TakeDeferred(c, "SetObjectPropValue")

CompleteData(op, success, bad) ==
  CASE op = "SendObjectInfo" -> SendObjectInfoComplete(m, success, bad)
    [] op = "SendObject" -> SendObjectComplete(m, success, bad)
    [] op = "SetObjectPropValue" -> SetPropValueComplete(m, success)
    [] op = "SendPartialObject" -> SendPartialComplete(m, success, bad)
    [] op = "GetObject" -> CompleteRead(m, success)
    [] OTHER -> Result(ClearBuffer(m), IF success THEN "OK" ELSE "ERR")

\* tud_mtp_data_complete_cb
DataComplete ==
  \E success \in BOOLEAN, bad \in Faulty(OnComplete) :
    LET cancelled == m.cancelled = "this"
        r == CompleteData(xfer.op, success, bad)
    IN /\ Running /\ xfer.op # "none"
       /\ xfer.op \in OutOps => xfer.stage = "complete"
       /\ m' = IF ~installed THEN m
               ELSE IF cancelled THEN [m EXCEPT !.cancelled = "no"] ELSE r.c
       /\ Answers(xfer.op, IF ~installed \/ cancelled THEN "ERR" ELSE r.code)
       /\ xfer' = NoXfer
       /\ UNCHANGED <<installed, attached, aborted>>

\* tud_mtp_request_cancel_cb: the request names this transaction, another one,
\* or is malformed; the host may or may not go on with the data phase
CancelRequest ==
  \E tid \in {"this", "other", "no"} :
    /\ Running /\ attached
    /\ m' = IF installed THEN [ResetTransfers(m) EXCEPT !.cancelled = tid] ELSE m
    /\ xfer' \in {xfer, NoXfer}
    /\ answer' = NoAnswer
    /\ UNCHANGED <<installed, attached, aborted>>

DeviceReset ==
  /\ Running /\ attached
  /\ m' = IF installed THEN [ResetTransfers(m) EXCEPT !.session_open = FALSE] ELSE m
  /\ xfer' = NoXfer
  /\ answer' = NoAnswer
  /\ UNCHANGED <<installed, attached, aborted>>

\* The bus is reset or the cable pulled: no callback of this component runs
BusLost ==
  /\ Running /\ attached /\ (AnswersArrive => m.deferred = NoDeferred)
  /\ attached' = FALSE /\ xfer' = NoXfer /\ answer' = NoAnswer
  /\ UNCHANGED <<installed, m, aborted>>

BusBack ==
  /\ Running /\ ~attached
  /\ attached' = TRUE /\ answer' = NoAnswer
  /\ UNCHANGED <<installed, m, xfer, aborted>>

(***************************************************************************)
(* The application.                                                        *)
(***************************************************************************)
AppCall(op, ok, c) ==
  /\ Running
  /\ m' = c
  /\ Answers(op, IF ok THEN "OK" ELSE "ERR")
  /\ UNCHANGED <<xfer, attached, aborted>>

InstallDriver ==
  /\ AppCall("install_driver", ~installed, IF installed THEN m ELSE NewContext(m.fs))
  /\ installed' = TRUE

UninstallDriver ==
  /\ AppCall("uninstall_driver", installed, IF installed THEN NewContext(ResetTransfers(m).fs) ELSE m)
  /\ installed' = FALSE

RegisterStorage(s) ==
  LET ok == installed /\ s \notin m.registered
  IN /\ AppCall("register_storage", ok, IF ok THEN [m EXCEPT !.registered = @ \union {s}] ELSE m)
     /\ UNCHANGED installed

UnregisterStorage(s) ==
  LET ok == installed /\ s \in m.registered /\ TransferIsIdle(m)
      d == ClearObjects(DetachStorage(m, s), s)
  IN /\ s \in m.registered
     /\ AppCall("unregister_storage", ok,
          IF ok THEN [d EXCEPT !.registered = @ \ {s}] ELSE m)
     /\ UNCHANGED installed

\* the application writes and removes files of its own
AppWrites(n) ==
  /\ ~Receiving(n) /\ m.fs[n] # "dir"
  /\ AppCall("app", TRUE, [m EXCEPT !.fs[n] = "whole"]) /\ UNCHANGED installed

AppRemoves(n) ==
  /\ ~Receiving(n)
  /\ AppCall("app", TRUE, [m EXCEPT !.fs[n] = "none"]) /\ UNCHANGED installed

App ==
  \/ InstallDriver \/ UninstallDriver
  \/ \E s \in Storages : RegisterStorage(s) \/ UnregisterStorage(s)
  \/ \E n \in Names : AppWrites(n) \/ AppRemoves(n)

Init ==
  /\ installed = FALSE
  /\ m = NewContext([f \in Names \union Internal |-> "none"])
  /\ xfer = NoXfer /\ attached = TRUE
  /\ answer = NoAnswer
  /\ aborted = FALSE

Next ==
  \/ Command \/ DataPacket \/ DataComplete
  \/ CancelRequest \/ DeviceReset \/ BusLost \/ BusBack
  \/ App

Spec == Init /\ [][Next]_vars

(***************************************************************************)
(* Properties.                                                             *)
(***************************************************************************)
\* The shape of the state.
TypeOK ==
  /\ {installed, attached, aborted} \subseteq BOOLEAN
  /\ m.registered \subseteq Storages /\ m.next \in 1 .. MaxHandle + 1
  /\ m.object \in [Handles -> Names \union {NoName}]
  /\ m.fs \in [Names \union Internal -> Contents]
  /\ m.edit \in HostHandles /\ m.partial.handle \in HostHandles
  /\ m.pending.handle \in HostHandles /\ m.pending.path \in Names \union {NoName}
  /\ m.pending.written \in 0 .. m.pending.expected
  /\ xfer.op \in Ops \union {"none"} /\ answer.code \in Codes

\* A file whose announced content was not all received stands under its name only
\* while it is being received: every way a transfer can end (an error packet, a
\* short or failed completion, a cancel, a reset, the next SendObjectInfo, the
\* session or the driver going away) removes it (mtp_abort_pending_write_locked).
\* What a failed close loses of a file that was all received is another matter:
\* see NoFileIsCutShort.
NoHalfFileIsLeft ==
  \A n \in Names : m.fs[n] \in {"blank", "part"} =>
    /\ n = m.pending.path /\ ~Replaces(m.pending)
    /\ m.pending.state \in {"WAITING_DATA", "RECEIVING_DATA"}

\* The hidden files of a replacement do not outlive it, whichever rename failed:
\* a backup is gone with the commit, a temporary file belongs to the pending one.
NoHiddenFileIsLeft ==
  \A f \in Internal : m.fs[f] # "none" => f = m.pending.write_path

\* Ending a replacement, by its commit, a failed rename of it or an abort, leaves
\* a closed file under the name, and one as complete as before when the host is
\* told of an error (mtp_commit_replacement_locked).
ReplacementLeavesAFile ==
  [][Replaces(m.pending) /\ m'.pending.handle = 0
       => /\ m'.fs[m.pending.path] \in AsClosed
          /\ answer' = [op |-> "SendObject", code |-> "ERR"]
               => m'.fs[m.pending.path] = m.fs[m.pending.path]]_vars

\* A SendObject that is answered OK left its file, all received and closed, under
\* the path that the handle returned by SendObjectInfo still stands for. Where no
\* close fails the file is whole.
OkMeansStored ==
  [][answer'.op = "SendObject" /\ answer'.code = "OK" /\ m.pending.state = "RECEIVING_DATA"
       => /\ m'.fs[m.pending.path] \in AsClosed
          /\ m'.object[m.pending.handle] = m.pending.path]_vars

\* No upload and no edit goes on without a session: whatever closes the session
\* or the driver ends them, and none begins without one.
SessionOwnsWrites ==
  ~m.session_open => m.pending.path = NoName /\ m.edit = 0 /\ ~m.partial.active

\* Nothing refers to a storage that is not registered: no object, no transfer.
NoUnregisteredUse ==
  LET on(n) == n # NoName => StorageOf[n] \in m.registered
  IN /\ \A h \in Handles : on(m.object[h])
     /\ on(m.pending.path) /\ on(m.read.path)

\* Unregistering a storage leaves an edit of an object on another one alone
\* (tinyusb_mtp_unregister_storage, test_mtp_storage.c:676).
UnregisterSparesOthers ==
  [][(/\ answer'.op = "unregister_storage" /\ answer'.code = "OK"
      /\ m.edit # 0 /\ Known(m, m.edit) /\ StorageOf[m.object[m.edit]] \in m'.registered)
       => m'.edit = m.edit /\ m'.object[m.edit] = m.object[m.edit]]_vars

\* test_mtp_storage.c:423 has the driver uninstalled while callbacks arrive.
NeverAborts == ~aborted

\* A storage is refused to be unregistered because of a transfer only while a
\* host is there that the transfer could be with (tinyusb_mtp.h).
RefusedOnlyWithHost ==
  answer.op = "unregister_storage" /\ answer.code = "ERR" => ~installed \/ attached

\* Every write of an upload that fails is found out, as every write of an edit is
\* (tinyusb_mtp_transfer.c:492-505). The code does not do it: the result of the
\* fclose at line 287 is not looked at, and the host is told OK.
NoFileIsCutShort == \A n \in Names : m.fs[n] # "short"

\* What no end of a transfer may leave behind: the parts above.
WriteInv ==
  /\ TypeOK /\ NoHalfFileIsLeft /\ NoHiddenFileIsLeft
  /\ SessionOwnsWrites /\ NoUnregisteredUse

\* An upload is all or nothing as far as the code looks: the host's OK means the
\* new file is there, received to its end, and its error that the old one is.
UploadsAreAtomic == OkMeansStored /\ ReplacementLeavesAFile
=============================================================================
