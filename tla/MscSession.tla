----------------------------- MODULE MscSession -----------------------------
(***************************************************************************)
(* The safe-eject evidence kept by the patched TinyUSB MSC storage driver  *)
(* (components/esp_tinyusb/tinyusb_msc.c and patch_msc_core.py), at the    *)
(* granularity of its accesses to the shared atomics.                      *)
(*                                                                         *)
(* Three agents share state without a lock:                                *)
(*   - the TinyUSB task, which runs one SCSI command at a time and owns    *)
(*     every field of `storage';                                           *)
(*   - the USB interrupt, which bumps bus_generation on a bus reset or an  *)
(*     unplug between any two accesses of the other agents;                *)
(*   - the application task, which asks tinyusb_msc_host_released.         *)
(* A callback that reads bus_generation once is one action: everything     *)
(* else it touches is private to the task, so a bump inside it commutes    *)
(* with it. A callback that reads it n times is n actions.                 *)
(***************************************************************************)
EXTENDS Naturals

CONSTANTS
  MaxGeneration,      \* UINT_MAX of atomic_uint bus_generation
  MaxInvalidations    \* bound on the invalidations of a behaviour

\* The counter does not wrap within a behaviour: the code has no defence
\* against a wrap to 0, the value an empty released_generation holds.
ASSUME GenerationAssumption ==
  /\ MaxGeneration \in Nat \ {0}
  /\ MaxInvalidations \in Nat
  /\ MaxInvalidations < MaxGeneration

VARIABLES
  bus_generation,       \* bumped by every invalidation
  released_generation,  \* generation in which a release was published
  io_failed,            \* sticky failure of a physical read or write
  storage,              \* the fields private to the TinyUSB task
  stage,                \* where the task is in the current command
  cmd,                  \* the command being served
  passed,               \* the status of the command's CSW
  reader,               \* where the application is in host_released
  seen                  \* its copy of released_generation

\* History variables: what really happened since the last invalidation.
VARIABLES
  bumps,          \* invalidations so far
  ejectAccepted,  \* an eject was accepted in this session
  delivered,      \* ... and its passed CSW reached the host
  wroteSince      \* a physical write was started after that acceptance

taskVars   == <<storage, stage, cmd, passed>>
readerVars == <<reader, seen>>
history    == <<bumps, ejectAccepted, delivered, wroteSince>>
vars == <<bus_generation, released_generation, io_failed, taskVars,
          readerVars, history>>

Generation == 0 .. MaxGeneration
Commands   == {"EJECT", "START_STOP", "READ", "WRITE", "OTHER"}
Stages     == {"CMD", "IO", "FAULT", "STATUS_SENT", "DECIDE", "COMPLETE",
               "CHECK", "PUBLISH", "STATUS_LOST", "NEED_RESET"}
Readers    == {"idle", "released", "generation"}

StorageFields ==
  [session : Generation, accepted : Generation,
   prevented : BOOLEAN, ejected : BOOLEAN, succeeded : BOOLEAN]

TypeOK ==
  /\ bus_generation \in Generation
  /\ released_generation \in Generation
  /\ io_failed \in BOOLEAN
  /\ storage \in StorageFields
  /\ stage \in Stages
  /\ cmd \in Commands
  /\ passed \in BOOLEAN
  /\ reader \in Readers
  /\ seen \in Generation
  /\ bumps \in 0 .. MaxInvalidations
  /\ ejectAccepted \in BOOLEAN
  /\ delivered \in BOOLEAN
  /\ wroteSince \in BOOLEAN

Init ==
  /\ bus_generation = 1
  /\ released_generation = 0
  /\ io_failed = FALSE
  /\ storage = [session |-> 0, accepted |-> 0, prevented |-> FALSE,
                ejected |-> FALSE, succeeded |-> FALSE]
  /\ stage = "CMD"
  /\ cmd = "OTHER"
  /\ passed = FALSE
  /\ reader = "idle"
  /\ seen = 0
  /\ bumps = 0
  /\ ejectAccepted = FALSE
  /\ delivered = FALSE
  /\ wroteSince = FALSE

-----------------------------------------------------------------------------
(* Invalidation: tinyusb_msc_invalidate_session and its callers.           *)

\* Mutation: one event bumps the counter twice.
NextGenerationDouble(g) == g + 2

NextGeneration(g) == IF g = MaxGeneration THEN 0 ELSE g + 1

Invalidate ==
  /\ bumps < MaxInvalidations
  /\ bumps' = bumps + 1
  /\ bus_generation' = NextGeneration(bus_generation)
  /\ ejectAccepted' = FALSE
  /\ delivered' = FALSE
  /\ UNCHANGED wroteSince

\* The interrupt hook on BUS_RESET and UNPLUGGED; also the attach and detach
\* callback and install_usb, which bump the generation and nothing else here.
BusReset ==
  /\ Invalidate
  /\ UNCHANGED <<released_generation, io_failed, taskVars, readerVars>>

\* The task handles the queued reset event, or a BOT reset request: the
\* command in progress is forgotten.
ClassReset ==
  /\ stage \in {"CMD", "STATUS_SENT", "STATUS_LOST", "NEED_RESET"}
  /\ Invalidate
  /\ stage' = "CMD"
  /\ UNCHANGED <<released_generation, io_failed, storage, cmd, passed,
                 readerVars>>

\* A transfer ends in failure: nothing of it is parsed, both endpoints stall.
TransferFailed ==
  /\ stage \in {"CMD", "STATUS_SENT"}
  /\ Invalidate
  /\ stage' = "NEED_RESET"
  /\ UNCHANGED <<released_generation, io_failed, storage, cmd, passed,
                 readerVars>>

-----------------------------------------------------------------------------
(* session_storage: the first thing every callback does.                   *)

\* Mutation: the latches survive into the new session.
SyncedKeepingLatches ==
  IF storage.session = bus_generation THEN storage
  ELSE [storage EXCEPT !.session = bus_generation]

Synced ==
  IF storage.session = bus_generation THEN storage
  ELSE [session |-> bus_generation, accepted |-> 0, prevented |-> FALSE,
        ejected |-> FALSE, succeeded |-> FALSE]

\* Mutation: every command clears the published release.
ReleaseSyncedAlways == released_generation' = 0

ReleaseSynced ==
  released_generation' =
    IF storage.session = bus_generation THEN released_generation ELSE 0

\* A command's callback runs to its status stage in one action.
Answer(c, fields, ok) ==
  /\ stage = "CMD"
  /\ stage' = "STATUS_SENT"
  /\ cmd' = c
  /\ passed' = ok
  /\ storage' = fields
  /\ ReleaseSynced

-----------------------------------------------------------------------------
(* The SCSI callbacks.                                                     *)

EjectRefused ==
  /\ Synced.prevented \/ Synced.ejected \/ io_failed
  /\ Answer("EJECT",
            [Synced EXCEPT !.accepted = 0, !.succeeded = FALSE], FALSE)
  /\ UNCHANGED <<bus_generation, io_failed, readerVars, history>>

\* A CBW that also announces data is answered FAILED although the callback
\* has accepted the eject: wellFormed = FALSE.
EjectAccepted(wellFormed) ==
  /\ ~(Synced.prevented \/ Synced.ejected \/ io_failed)
  /\ Answer("EJECT",
            [Synced EXCEPT !.ejected = TRUE, !.accepted = bus_generation,
                           !.succeeded = FALSE],
            wellFormed)
  /\ ejectAccepted' = TRUE
  /\ delivered' = FALSE
  /\ wroteSince' = FALSE
  /\ UNCHANGED <<bus_generation, io_failed, readerVars, bumps>>

\* START STOP UNIT that does not eject: start, or stop without unload.
StartStop(wellFormed) ==
  /\ Answer("START_STOP", Synced, wellFormed)
  /\ UNCHANGED <<bus_generation, io_failed, readerVars, history>>

PreventAllow(prohibit) ==
  /\ Answer("OTHER",
            IF Synced.ejected THEN Synced
            ELSE [Synced EXCEPT !.prevented = prohibit],
            ~Synced.ejected)
  /\ UNCHANGED <<bus_generation, io_failed, readerVars, history>>

\* SYNCHRONIZE CACHE waits for the medium and fails on the sticky fault.
SyncCache ==
  /\ Answer("OTHER", Synced, ~Synced.ejected /\ ~io_failed)
  /\ UNCHANGED <<bus_generation, io_failed, readerVars, history>>

\* Mutation: READ10 and WRITE10 do not look at the eject latch.
MediumAlwaysReady == TRUE

MediumReady == ~Synced.ejected

\* READ10 or WRITE10 refused: ejected, or a write while the controller has
\* cleared usb_writable (any value, it belongs to another task).
AccessRefused(c) ==
  /\ ~MediumReady \/ c = "WRITE"
  /\ Answer(c, Synced, FALSE)
  /\ UNCHANGED <<bus_generation, io_failed, readerVars, history>>

\* The physical operation starts; the task is inside the driver until it ends.
AccessStarts(c) ==
  /\ stage = "CMD"
  /\ MediumReady
  /\ stage' = "IO"
  /\ cmd' = c
  /\ storage' = Synced
  /\ ReleaseSynced
  /\ wroteSince' = (wroteSince \/ c = "WRITE")
  /\ UNCHANGED <<bus_generation, io_failed, passed, readerVars, bumps,
                 ejectAccepted, delivered>>

AccessDone ==
  /\ stage = "IO"
  /\ stage' = "STATUS_SENT"
  /\ passed' = TRUE
  /\ UNCHANGED <<bus_generation, released_generation, io_failed, storage, cmd,
                 readerVars, history>>

\* tinyusb_io_error_cb: the sticky flag is stored first ...
AccessFails ==
  /\ stage = "IO"
  /\ io_failed' = TRUE
  /\ stage' = "FAULT"
  /\ UNCHANGED <<bus_generation, released_generation, storage, cmd, passed,
                 readerVars, history>>

\* ... the session is invalidated next.
FaultInvalidates ==
  /\ stage = "FAULT"
  /\ Invalidate
  /\ stage' = "STATUS_SENT"
  /\ passed' = FALSE
  /\ UNCHANGED <<released_generation, io_failed, storage, cmd, readerVars>>

-----------------------------------------------------------------------------
(* The CSW: command_status_cb, then scsi_complete_cb.                      *)

IsStartStop == cmd \in {"EJECT", "START_STOP"}

WithoutAcceptance ==
  IF IsStartStop
  THEN [Synced EXCEPT !.accepted = 0, !.succeeded = FALSE]
  ELSE Synced

\* The transfer of the CSW ends short of its 13 bytes: the stage stays, no
\* transfer is outstanding any more, and only a reset goes on from there.
ShortStatus ==
  /\ stage = "STATUS_SENT"
  /\ storage' = WithoutAcceptance
  /\ ReleaseSynced
  /\ stage' = "STATUS_LOST"
  /\ UNCHANGED <<bus_generation, io_failed, cmd, passed, readerVars, history>>

\* The CSW of a command other than START STOP UNIT reached the host.
OtherStatus ==
  /\ stage = "STATUS_SENT"
  /\ ~IsStartStop
  /\ storage' = [Synced EXCEPT !.succeeded = FALSE]
  /\ ReleaseSynced
  /\ stage' = "CMD"
  /\ UNCHANGED <<bus_generation, io_failed, cmd, passed, readerVars, history>>

FailedStatus ==
  /\ stage = "STATUS_SENT"
  /\ IsStartStop
  /\ ~passed
  /\ storage' = WithoutAcceptance
  /\ ReleaseSynced
  /\ stage' = "COMPLETE"
  /\ UNCHANGED <<bus_generation, io_failed, cmd, passed, readerVars, history>>

\* Mutation: the completion callback runs before the status callback.
PassedStageSwapped == "COMPLETE"

PassedStage == "DECIDE"

PassedStatus ==
  /\ stage = "STATUS_SENT"
  /\ IsStartStop
  /\ passed
  /\ storage' = Synced
  /\ ReleaseSynced
  /\ stage' = PassedStage
  /\ delivered' = (delivered \/ (cmd = "EJECT" /\ ejectAccepted))
  /\ UNCHANGED <<bus_generation, io_failed, cmd, passed, readerVars, bumps,
                 ejectAccepted, wroteSince>>

\* command_status_cb reads bus_generation a second time.
DecideStatus ==
  /\ stage = "DECIDE"
  /\ storage' = [storage EXCEPT !.succeeded =
                   storage.ejected /\ storage.accepted = bus_generation]
  /\ stage' = "COMPLETE"
  /\ UNCHANGED <<bus_generation, released_generation, io_failed, cmd, passed,
                 readerVars, history>>

\* scsi_complete_cb: only the completion of the eject itself goes on.
BeginComplete ==
  /\ stage = "COMPLETE"
  /\ LET goOn == cmd = "EJECT" /\ Synced.succeeded
     IN  /\ storage' = IF goOn THEN Synced
                       ELSE [Synced EXCEPT !.succeeded = FALSE]
         /\ stage' = IF goOn THEN "CHECK" ELSE "CMD"
  /\ ReleaseSynced
  /\ UNCHANGED <<bus_generation, io_failed, cmd, passed, readerVars, history>>

MayPublish == storage.accepted = bus_generation /\ ~io_failed

CheckComplete ==
  /\ stage = "CHECK"
  /\ storage' = IF MayPublish THEN storage
                ELSE [storage EXCEPT !.succeeded = FALSE]
  /\ stage' = IF MayPublish THEN "PUBLISH" ELSE "CMD"
  /\ UNCHANGED <<bus_generation, released_generation, io_failed, cmd, passed,
                 readerVars, history>>

\* Mutation: the generation is re-read when the release is published.
PublishedCurrent == bus_generation

Published == storage.accepted

\* The interrupt may have bumped the generation since the check: what is
\* published is the generation of the accepted eject.
Publish ==
  /\ stage = "PUBLISH"
  /\ released_generation' = Published
  /\ storage' = [storage EXCEPT !.succeeded = FALSE]
  /\ stage' = "CMD"
  /\ UNCHANGED <<bus_generation, io_failed, cmd, passed, readerVars, history>>

-----------------------------------------------------------------------------
(* tinyusb_msc_host_released, on the application task: three loads.        *)

ReadFault ==
  /\ reader = "idle"
  /\ ~io_failed
  /\ reader' = "released"
  /\ UNCHANGED <<bus_generation, released_generation, io_failed, taskVars,
                 seen, history>>

ReadReleased ==
  /\ reader = "released"
  /\ seen' = released_generation
  /\ reader' = "generation"
  /\ UNCHANGED <<bus_generation, released_generation, io_failed, taskVars,
                 history>>

\* The answer is seen = bus_generation at this load.
ReadGeneration ==
  /\ reader = "generation"
  /\ reader' = "idle"
  /\ UNCHANGED <<bus_generation, released_generation, io_failed, taskVars,
                 seen, history>>

-----------------------------------------------------------------------------
HostCommand ==
  \/ EjectRefused
  \/ \E w \in BOOLEAN : EjectAccepted(w) \/ StartStop(w) \/ PreventAllow(w)
  \/ SyncCache
  \/ \E c \in {"READ", "WRITE"} : AccessRefused(c) \/ AccessStarts(c)

\* Steps the TinyUSB task takes by itself once a transfer has ended.
TaskStep ==
  \/ AccessDone \/ AccessFails \/ FaultInvalidates
  \/ DecideStatus \/ BeginComplete \/ CheckComplete \/ Publish

StatusTransfer == ShortStatus \/ OtherStatus \/ FailedStatus \/ PassedStatus

Reset == BusReset \/ ClassReset \/ TransferFailed

Reader == ReadFault \/ ReadReleased \/ ReadGeneration

Next == HostCommand \/ TaskStep \/ StatusTransfer \/ Reset \/ Reader

Spec == Init /\ [][Next]_vars

\* The TinyUSB task is scheduled; the host owes it nothing.
FairSpec == Spec /\ WF_vars(TaskStep)

-----------------------------------------------------------------------------
HostReleased == ~io_failed /\ released_generation = bus_generation

\* A release counts only on the strength of an eject accepted in this very
\* session whose passed CSW reached the host, with no physical write started
\* since the acceptance (PATCHES.md patch 5, tinyusb_msc.c 1125-1172, 1242).
ReleaseIsEarned ==
  HostReleased => ejectAccepted /\ delivered /\ ~wroteSince

\* When the application's last load makes host_released answer true, the
\* release holds at that instant, whatever the interrupt and the task did
\* between its three loads (tinyusb_msc.c 1144-1149).
AnswerIsCurrent ==
  reader = "generation" /\ seen = bus_generation => HostReleased

\* While the host counts as having released the medium, no physical
\* operation of the host is in flight and none has just failed.
ReleasedIsQuiet == HostReleased => stage \notin {"IO", "FAULT"}

\* Nothing but an invalidation takes a published release back: a repeated
\* eject, a START or a refused access of the host does not.
OnlyInvalidationRevokes ==
  [][HostReleased /\ ~HostReleased' => bumps' # bumps]_vars

\* An eject whose passed status reached the host becomes a release unless
\* the session ends first: the two callbacks run in the order that lets the
\* first publish for the second (patch_msc_core.py 32-36).
DeliveredEjectReleases == delivered ~> (HostReleased \/ ~delivered)

\* The counters implement the evidence the storage controller relies on.
EvidenceNow ==
  IF released_generation = bus_generation THEN "released"
  ELSE IF storage.session = bus_generation /\ storage.ejected
       THEN IF storage.accepted = bus_generation THEN "pending" ELSE "blocked"
       ELSE "open"

Abstract == INSTANCE ReleaseEvidence
              WITH evidence <- EvidenceNow, faulty <- io_failed

ImplementsEvidence == Abstract!Spec
=============================================================================
