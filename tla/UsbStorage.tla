----------------------------- MODULE UsbStorage -----------------------------
(***************************************************************************)
(* The storage controller of the gateway: main/usb_storage.c with the      *)
(* ownership and mode models it keeps, the mount functions of the patched  *)
(* components/esp_tinyusb/tinyusb_msc.c and the TinyUSB task it installs   *)
(* and removes.                                                            *)
(*                                                                         *)
(* Agents: the application task runs one usb_storage_* operation at a time *)
(* (op, pc); a helper task enqueues the deferred disconnect; the TinyUSB   *)
(* task serves the host and parks for good when it reaches that deferred   *)
(* call; the USB interrupt ends the eject session at any instant; the host *)
(* does what it likes. Every wait of the application is bounded: its       *)
(* timeout may fire whenever the awaited event has not happened.           *)
(***************************************************************************)
EXTENDS Naturals

VARIABLES
  \* usb_storage.c, written by the application task only
  own,               \* ownership.state
  mode,              \* AUTO_RO, MAINTENANCE_RW or RECOVERY_RO
  op, pc,            \* operation in progress (or last one) and its next step
  started, storage,  \* start_app was called; a storage handle exists
  driver_installed, driver_uncertain, recovery_failed, task_quiesced,
  \* shared with the TinyUSB task
  disconnected,      \* result of tud_disconnect
  disconnect_done,   \* binary semaphore: the task has parked
  usb_writable, last_io_error,
  helper,            \* the helper task still has to enqueue the disconnect
  deferred,          \* the disconnect is queued for the TinyUSB task
  \* tinyusb_msc.c and the TinyUSB stack
  mount_point,       \* USB or APP
  disk, vfs,         \* FATFS volume registered; /sdcard registered
  mutex,             \* holder of the storage mutex
  task,              \* the TinyUSB task
  inited,            \* tud_inited
  connected, configured,  \* tud_connected, tud_mounted
  evidence, faulty,  \* the MSC session, see ReleaseEvidence
  \* history
  unreleased         \* the host wrote since its last completed safe eject

flags   == <<started, storage>>
drivers == <<driver_installed, driver_uncertain>>
parking == <<disconnected, disconnect_done, helper, deferred>>
fat     == <<mount_point, disk, vfs>>
stack   == <<inited, connected, configured>>
session == <<evidence, faulty, last_io_error, unreleased>>
vars == <<own, mode, op, pc, flags, drivers, recovery_failed, task_quiesced,
          parking, usb_writable, fat, mutex, task, stack, session>>

Owners     == {"APP", "TO_USB", "USB", "TO_APP", "ERROR"}
Modes      == {"AUTO_RO", "MAINTENANCE_RW", "RECOVERY_RO"}
Operations == {"none", "start", "expose", "acquire", "restore", "enter",
               "resume"}
Steps      == {"idle", "protect", "disconnect", "await", "recheck",
               "uninstall", "mount", "mounting", "handback", "unmount",
               "unmounting", "cleanup", "repoint", "install", "configure",
               "probe", "discard"}
Tasks      == {"absent", "starting", "idle", "read", "write", "fault",
               "parked"}

Session == INSTANCE ReleaseEvidence

StateTyped ==
  /\ own \in Owners /\ mode \in Modes /\ op \in Operations /\ pc \in Steps
  /\ mount_point \in {"USB", "APP"} /\ mutex \in {"free", "app", "usb"}
  /\ task \in Tasks /\ evidence \in Session!Evidence

FlagsTyped ==
  /\ started \in BOOLEAN /\ storage \in BOOLEAN
  /\ driver_installed \in BOOLEAN /\ driver_uncertain \in BOOLEAN
  /\ recovery_failed \in BOOLEAN /\ task_quiesced \in BOOLEAN
  /\ disconnected \in BOOLEAN /\ disconnect_done \in BOOLEAN
  /\ helper \in BOOLEAN /\ deferred \in BOOLEAN
  /\ usb_writable \in BOOLEAN /\ last_io_error \in BOOLEAN
  /\ disk \in BOOLEAN /\ vfs \in BOOLEAN
  /\ inited \in BOOLEAN /\ connected \in BOOLEAN /\ configured \in BOOLEAN
  /\ faulty \in BOOLEAN /\ unreleased \in BOOLEAN

TypeOK == StateTyped /\ FlagsTyped

Init ==
  /\ own = "ERROR" /\ mode = "AUTO_RO" /\ op = "none" /\ pc = "idle"
  /\ started = FALSE /\ storage = FALSE
  /\ driver_installed = FALSE /\ driver_uncertain = FALSE
  /\ recovery_failed = FALSE /\ task_quiesced = FALSE
  /\ disconnected = FALSE /\ disconnect_done = FALSE
  /\ helper = FALSE /\ deferred = FALSE
  /\ usb_writable = FALSE /\ last_io_error = FALSE
  /\ mount_point = "USB" /\ disk = FALSE /\ vfs = FALSE
  /\ mutex = "free" /\ task = "absent"
  /\ inited = FALSE /\ connected = FALSE /\ configured = FALSE
  /\ Session!Init /\ unreleased = FALSE

-----------------------------------------------------------------------------
(* How an operation ends: storage_handoff_complete_to_usb/app.             *)

Goto(step) == pc' = step

\* Failure before teardown, mount or installation is complete. A failed
\* expose with no USB stack left also discards the FAT registration.
Fail ==
  /\ own' = "ERROR"
  /\ usb_writable' = FALSE
  /\ recovery_failed' = (recovery_failed \/ op = "restore")
  /\ pc' = IF op = "expose" /\ ~driver_installed' /\ ~driver_uncertain'
                            /\ ~inited'
           THEN "discard" ELSE "idle"

Exposed ==
  /\ own' = "USB"
  /\ Goto("idle")
  /\ UNCHANGED <<usb_writable, recovery_failed>>

\* Mutation: resume_automatic trusts the release it read before parking.
AfterDisconnectUnchecked(o) == "uninstall"

\* Mutation: recovery goes on where there is nothing to go on with.
AfterUninstallUnhandled(o) ==
  CASE o \in {"acquire", "resume"} -> "mount"
    [] o = "enter"                 -> "install"
    [] OTHER                       -> "stuck"

\* The step taken once the disconnect, or the uninstall, has succeeded.
AfterDisconnect(o) == IF o = "resume" THEN "recheck" ELSE "uninstall"
AfterUninstall(o) ==
  CASE o \in {"acquire", "resume"} -> "mount"
    [] o = "enter"                 -> "install"
    [] OTHER                       -> "cleanup"

-----------------------------------------------------------------------------
(* Operations. A call whose guard fails returns an error and changes       *)
(* nothing; it is not an action.                                           *)

Call(o, owner, step) ==
  /\ pc = "idle"
  /\ op' = o
  /\ own' = owner
  /\ Goto(step)

\* start_app fails before a storage handle exists, or goes on to the mount.
StartApp ==
  /\ ~started
  /\ started' = TRUE
  /\ storage' \in BOOLEAN
  /\ Call("start", own, IF storage' THEN "mount" ELSE "idle")
  /\ usb_writable' = FALSE
  /\ UNCHANGED <<mode, drivers, recovery_failed, task_quiesced, parking, fat,
                 mutex, task, stack, session>>

Expose ==
  /\ storage /\ own = "APP"
  /\ Call("expose", "TO_USB", "unmount")
  /\ UNCHANGED <<mode, flags, drivers, recovery_failed, task_quiesced,
                 parking, usb_writable, fat, mutex, task, stack, session>>

Acquire ==
  /\ mode = "AUTO_RO" /\ storage /\ own = "USB"
  /\ Call("acquire", "TO_APP", "disconnect")
  /\ usb_writable' = FALSE
  /\ UNCHANGED <<mode, flags, drivers, recovery_failed, task_quiesced,
                 parking, fat, mutex, task, stack, session>>

\* Recovery stops whatever is left of the USB stack before anything else.
RecoveryEntry ==
  IF inited THEN "disconnect"
  ELSE IF driver_installed \/ driver_uncertain THEN "uninstall" ELSE "cleanup"

\* Mutation: a failed recovery may be tried again.
RecoveryRepeatable == storage /\ own = "ERROR"

RecoveryAllowed == storage /\ own = "ERROR" /\ ~recovery_failed

RestoreUsb ==
  /\ RecoveryAllowed
  /\ Call("restore", "TO_USB", RecoveryEntry)
  /\ usb_writable' = FALSE
  /\ UNCHANGED <<mode, flags, drivers, recovery_failed, task_quiesced,
                 parking, fat, mutex, task, stack, session>>

EnterMaintenance ==
  /\ mode = "AUTO_RO" /\ own = "USB" /\ ~last_io_error
  /\ Call("enter", "TO_USB", "disconnect")
  /\ UNCHANGED <<mode, flags, drivers, recovery_failed, task_quiesced,
                 parking, usb_writable, fat, mutex, task, stack, session>>

\* Mutation: an accepted eject counts before its status reached the host.
ReleasedOnAcceptance == ~faulty /\ evidence \in {"pending", "released"}

Released == ~faulty /\ evidence = "released"

\* The release is checked here, write protection follows one step later.
ResumeAutomatic ==
  /\ mode = "MAINTENANCE_RW" /\ storage /\ own = "USB"
  /\ ~last_io_error /\ Released
  /\ Call("resume", "TO_APP", "protect")
  /\ UNCHANGED <<mode, flags, drivers, recovery_failed, task_quiesced,
                 parking, usb_writable, fat, mutex, task, stack, session>>

Protect ==
  /\ pc = "protect"
  /\ usb_writable' = FALSE
  /\ Goto("disconnect")
  /\ UNCHANGED <<own, mode, op, flags, drivers, recovery_failed,
                 task_quiesced, parking, fat, mutex, task, stack, session>>

-----------------------------------------------------------------------------
(* disconnect_usb: the TinyUSB task must park before it may be deleted.    *)

\* The task is known to have parked: go on if tud_disconnect succeeded.
Acknowledged ==
  IF disconnected
  THEN /\ Goto(AfterDisconnect(op))
       /\ UNCHANGED <<own, usb_writable, recovery_failed>>
  ELSE Fail

unchangedInWait == <<mode, op, flags, drivers, disconnected, deferred, fat,
                     mutex, task, stack, session>>

AlreadyParked ==
  /\ pc = "disconnect"
  /\ task_quiesced
  /\ Acknowledged
  /\ UNCHANGED <<unchangedInWait, task_quiesced, disconnect_done, helper>>

\* Mutation: the late acknowledgement is looked at and left in place.
LateAcknowledgementKept ==
  /\ pc = "disconnect"
  /\ ~task_quiesced /\ disconnect_done
  /\ task_quiesced' = TRUE
  /\ Acknowledged
  /\ UNCHANGED <<unchangedInWait, disconnect_done, helper>>

\* An earlier wait had expired just before the task parked.
LateAcknowledgement ==
  /\ pc = "disconnect"
  /\ ~task_quiesced /\ disconnect_done
  /\ disconnect_done' = FALSE
  /\ task_quiesced' = TRUE
  /\ Acknowledged
  /\ UNCHANGED <<unchangedInWait, helper>>

CreateHelper ==
  /\ pc = "disconnect"
  /\ ~task_quiesced /\ ~disconnect_done
  /\ \/ /\ helper' = TRUE
        /\ Goto("await")
        /\ UNCHANGED <<own, usb_writable, recovery_failed>>
     \/ /\ Fail
        /\ UNCHANGED helper
  /\ UNCHANGED <<unchangedInWait, task_quiesced, disconnect_done>>

\* The helper task is deleted on every path out of the wait.
AwaitAcknowledged ==
  /\ pc = "await"
  /\ disconnect_done
  /\ disconnect_done' = FALSE
  /\ helper' = FALSE
  /\ task_quiesced' = TRUE
  /\ Acknowledged
  /\ UNCHANGED unchangedInWait

\* Mutation: the wait for the acknowledgement has no limit.
AwaitForever == FALSE

AwaitTimesOut ==
  /\ pc = "await"
  /\ ~disconnect_done
  /\ helper' = FALSE
  /\ Fail
  /\ UNCHANGED <<unchangedInWait, task_quiesced, disconnect_done>>

\* resume_automatic reads the evidence once more with the task parked.
Recheck ==
  /\ pc = "recheck"
  /\ IF Released
     THEN /\ Goto("uninstall")
          /\ UNCHANGED <<own, usb_writable, recovery_failed>>
     ELSE Fail
  /\ UNCHANGED <<unchangedInWait, task_quiesced, disconnect_done, helper>>

-----------------------------------------------------------------------------
(* uninstall_usb and tinyusb_driver_uninstall.                             *)

\* Mutation: a task that did not park in time is deleted all the same.
UninstallForced == TRUE

UninstallAllowed == ~((driver_installed \/ inited) /\ ~task_quiesced)

UninstallRefused ==
  /\ pc = "uninstall"
  /\ ~UninstallAllowed
  /\ Fail
  /\ UNCHANGED <<mode, op, flags, drivers, task_quiesced, parking, fat, mutex,
                 task, stack, session>>

HasContext == task \notin {"absent", "starting"}

\* Going on after a successful uninstall; enter_maintenance selects its mode
\* and opens writing before it installs USB again.
Uninstalled ==
  /\ Goto(AfterUninstall(op))
  /\ IF op = "enter"
     THEN mode' = "MAINTENANCE_RW" /\ usb_writable' = TRUE
     ELSE UNCHANGED <<mode, usb_writable>>
  /\ driver_installed' = FALSE
  /\ driver_uncertain' = FALSE
  /\ task_quiesced' = FALSE
  /\ disconnected' = FALSE
  /\ UNCHANGED <<own, recovery_failed>>

\* The TinyUSB task is deleted where it stands, the stack is torn down.
TearDown ==
  /\ pc = "uninstall"
  /\ UninstallAllowed
  /\ HasContext
  /\ task' = "absent"
  /\ deferred' = FALSE
  /\ connected' = FALSE
  /\ configured' = FALSE
  /\ \/ inited' = FALSE /\ Uninstalled
     \/ /\ inited' \in BOOLEAN
        /\ driver_uncertain' = TRUE
        /\ Fail
        /\ UNCHANGED <<mode, driver_installed, task_quiesced, disconnected>>
  /\ UNCHANGED <<op, flags, disconnect_done, helper, fat, mutex, session>>

\* Without a task context the driver reports ESP_ERR_INVALID_STATE, which
\* counts as success only if nothing was ever installed.
NothingToTearDown ==
  /\ pc = "uninstall"
  /\ UninstallAllowed
  /\ ~HasContext
  /\ IF ~driver_installed /\ ~inited
     THEN Uninstalled
     ELSE /\ driver_uncertain' = TRUE
          /\ Fail
          /\ UNCHANGED <<mode, driver_installed, task_quiesced, disconnected>>
  /\ UNCHANGED <<op, flags, disconnect_done, helper, deferred, fat, mutex,
                 task, stack, session>>

-----------------------------------------------------------------------------
(* set_mount(APP): FATFS takes the volume.                                 *)

unchangedInMount == <<flags, drivers, task_quiesced, parking, task, stack,
                      session>>

BeginMount ==
  /\ pc = "mount"
  /\ mutex = "free"
  /\ mutex' = "app"
  /\ Goto("mounting")
  /\ UNCHANGED <<own, mode, op, recovery_failed, usb_writable, fat,
                 unchangedInMount>>

Mounted ==
  /\ pc = "mounting"
  /\ mutex' = "free"
  /\ mount_point' = "APP" /\ disk' = TRUE /\ vfs' = TRUE
  /\ own' = "APP"
  /\ mode' = IF op = "resume" THEN "AUTO_RO" ELSE mode
  /\ Goto(IF op = "resume" THEN "handback" ELSE "idle")
  /\ UNCHANGED <<op, recovery_failed, usb_writable, unchangedInMount>>

\* start_app answers a failed mount with recovery, in recovery mode.
MountFailure ==
  IF op = "start"
  THEN /\ mode' = "RECOVERY_RO"
       /\ op' = "restore"
       /\ own' = "TO_USB"
       /\ Goto(RecoveryEntry)
       /\ UNCHANGED <<usb_writable, recovery_failed>>
  ELSE Fail /\ UNCHANGED <<mode, op>>

\* No volume could be mounted; its registrations may not all be undone.
MountFails ==
  /\ pc = "mounting"
  /\ mutex' = "free"
  /\ disk' \in BOOLEAN /\ vfs' \in BOOLEAN
  /\ UNCHANGED <<mount_point, unchangedInMount>>
  /\ MountFailure

\* Mounted, but /sdcard does not answer: wait_mount reports failure.
MountUnconfirmed ==
  /\ pc = "mounting"
  /\ mutex' = "free"
  /\ mount_point' = "APP" /\ disk' = TRUE /\ vfs' = TRUE
  /\ UNCHANGED unchangedInMount
  /\ MountFailure

\* resume_automatic exposes the card again at once.
HandBack ==
  /\ pc = "handback"
  /\ own' = "TO_USB"
  /\ op' = "expose"
  /\ Goto("unmount")
  /\ UNCHANGED <<mode, recovery_failed, usb_writable, fat, mutex,
                 unchangedInMount>>

-----------------------------------------------------------------------------
(* set_mount(USB) and remove_app_mount: FATFS lets the volume go.          *)

BeginUnmount ==
  /\ pc = "unmount"
  /\ mutex = "free"
  /\ mutex' = "app"
  /\ Goto("unmounting")
  /\ UNCHANGED <<own, mode, op, recovery_failed, usb_writable, fat,
                 unchangedInMount>>

\* Mutation: only recovery is read-only.
WritableUnlessRecovery == mode # "RECOVERY_RO"

WritableWhenExposed == mode = "MAINTENANCE_RW"

Unmounted ==
  /\ pc = "unmounting"
  /\ mutex' = "free"
  /\ mount_point' = "USB" /\ disk' = FALSE /\ vfs' = FALSE
  /\ usb_writable' = WritableWhenExposed
  /\ Goto("install")
  /\ UNCHANGED <<own, mode, op, recovery_failed, unchangedInMount>>

\* The volume cannot be unregistered, or only its path cannot.
UnmountFails ==
  /\ pc = "unmounting"
  /\ mutex' = "free"
  /\ disk' \in {disk, FALSE}
  /\ UNCHANGED <<mode, op, mount_point, vfs, unchangedInMount>>
  /\ Fail

\* remove_app_mount drops the volume first, then the path.
Removal ==
  /\ disk' \in {disk, FALSE}
  /\ vfs' = vfs \/ (~disk' /\ vfs' = FALSE)
  /\ UNCHANGED mount_point

\* A failed expose ignores the outcome: ownership is already ERROR.
Discard ==
  /\ pc = "discard"
  /\ Removal
  /\ Goto("idle")
  /\ UNCHANGED <<own, mode, op, recovery_failed, usb_writable, mutex,
                 unchangedInMount>>

\* Mutation: the path registration is not looked at.
CleanedVolumeOnly == ~disk'

Cleaned == ~disk' /\ ~vfs'

\* Recovery goes on only with both registrations gone.
Cleanup ==
  /\ pc = "cleanup"
  /\ Removal
  /\ \/ /\ Cleaned
        /\ Goto("repoint")
        /\ UNCHANGED <<own, usb_writable, recovery_failed>>
     \/ /\ ~Cleaned
        /\ Fail
  /\ UNCHANGED <<mode, op, mutex, unchangedInMount>>

\* The mount point of an unmounted volume is set back under the mutex.
Repoint ==
  /\ pc = "repoint"
  /\ mount_point = "USB" \/ mutex = "free"
  /\ mount_point' = "USB"
  /\ mode' = "RECOVERY_RO"
  /\ usb_writable' = FALSE
  /\ Goto("install")
  /\ UNCHANGED <<own, op, recovery_failed, disk, vfs, mutex,
                 unchangedInMount>>

-----------------------------------------------------------------------------
(* install_usb and wait_host_configuration.                                *)

InstallRefused ==
  /\ pc = "install"
  /\ driver_installed \/ driver_uncertain \/ inited
  /\ UNCHANGED <<mode, op, flags, drivers, task_quiesced, parking, fat, mutex,
                 task, stack, session>>
  /\ Fail

InstallAllowed ==
  pc = "install" /\ ~driver_installed /\ ~driver_uncertain /\ ~inited

InstallSucceeds ==
  /\ InstallAllowed
  /\ task = "absent"
  /\ task' = "idle"
  /\ inited' = TRUE /\ connected' = FALSE /\ configured' = FALSE
  /\ driver_installed' = TRUE
  /\ Session!Invalidate
  /\ Goto("configure")
  /\ UNCHANGED <<own, mode, op, flags, driver_uncertain, recovery_failed,
                 task_quiesced, parking, usb_writable, fat, mutex,
                 last_io_error, unreleased>>

\* tinyusb_driver_install fails. If it gave up waiting for the TinyUSB task,
\* that task may still start later.
InstallFails ==
  /\ InstallAllowed
  /\ driver_uncertain' = TRUE
  /\ task' \in {task, "starting"}
  /\ Session!Invalidate
  /\ UNCHANGED <<mode, op, flags, driver_installed, task_quiesced, parking,
                 fat, mutex, stack, last_io_error, unreleased>>
  /\ Fail

HostConfigured ==
  /\ pc = "configure"
  /\ configured
  /\ Exposed
  /\ UNCHANGED <<mode, op, flags, drivers, task_quiesced, parking, fat, mutex,
                 task, stack, session>>

ConfigurationTimesOut ==
  /\ pc = "configure"
  /\ ~configured
  /\ Goto("probe")
  /\ UNCHANGED <<own, mode, op, flags, drivers, recovery_failed,
                 task_quiesced, parking, usb_writable, fat, mutex, task,
                 stack, session>>

\* No detected host is success; a host that did not configure is a failure,
\* and leaves the stack running.
ProbeHost ==
  /\ pc = "probe"
  /\ UNCHANGED <<mode, op, flags, drivers, task_quiesced, parking, fat, mutex,
                 task, stack, session>>
  /\ IF connected THEN Fail ELSE Exposed

-----------------------------------------------------------------------------
(* The helper task and the TinyUSB task.                                   *)

unchangedByUsb == <<own, mode, op, pc, flags, drivers, recovery_failed,
                    task_quiesced, usb_writable, fat>>

\* The enqueue may block on a full queue for as long as the helper lives.
HelperEnqueues ==
  /\ helper
  /\ helper' = FALSE
  /\ deferred' = TRUE
  /\ UNCHANGED <<unchangedByUsb, disconnected, disconnect_done, mutex, task,
                 stack, session>>

\* disconnect_device runs between two MSC operations and never returns.
Park ==
  /\ task = "idle"
  /\ deferred
  /\ deferred' = FALSE
  /\ disconnected' \in BOOLEAN
  /\ disconnect_done' = TRUE
  /\ task' = "parked"
  /\ UNCHANGED <<unchangedByUsb, helper, mutex, stack, session>>

\* A task that start-up gave up on.
LateStart ==
  /\ task = "starting"
  /\ task' = "idle"
  /\ inited' = TRUE
  /\ UNCHANGED <<unchangedByUsb, parking, mutex, connected, configured,
                 session>>

\* READ10 or WRITE10 passes its checks and takes the storage mutex.
BeginAccess(kind) ==
  /\ task = "idle"
  /\ configured
  /\ mount_point = "USB"
  /\ evidence = "open"
  /\ kind = "write" => usb_writable
  /\ mutex = "free"
  /\ mutex' = "usb"
  /\ task' = kind
  /\ unreleased' = (unreleased \/ kind = "write")
  /\ UNCHANGED <<unchangedByUsb, parking, stack, evidence, faulty,
                 last_io_error>>

AccessDone ==
  /\ task \in {"read", "write"}
  /\ mutex' = "free"
  /\ task' = "idle"
  /\ UNCHANGED <<unchangedByUsb, parking, stack, session>>

\* The driver's own flag is set first, the session ends and the controller
\* learns of the error afterwards.
AccessFails ==
  /\ task \in {"read", "write"}
  /\ mutex' = "free"
  /\ task' = "fault"
  /\ Session!Fault
  /\ UNCHANGED <<unchangedByUsb, parking, stack, last_io_error, unreleased>>

ReportFault ==
  /\ task = "fault"
  /\ task' = "idle"
  /\ Session!Invalidate
  /\ last_io_error' = TRUE
  /\ UNCHANGED <<unchangedByUsb, parking, mutex, stack, unreleased>>

AcceptEject ==
  /\ task = "idle" /\ configured /\ mount_point = "USB"
  /\ Session!Accept
  /\ UNCHANGED <<unchangedByUsb, parking, mutex, task, stack, last_io_error,
                 unreleased>>

CompleteEject ==
  /\ task = "idle" /\ configured
  /\ \/ Session!Complete /\ unreleased' = FALSE
     \/ Session!Refuse /\ UNCHANGED unreleased
  /\ UNCHANGED <<unchangedByUsb, parking, mutex, task, stack, last_io_error>>

\* The task handles a bus reset, an enumeration or a detachment.
BusEvent ==
  /\ task = "idle"
  /\ connected' \in BOOLEAN
  /\ configured' \in {FALSE, connected'}
  /\ Session!Invalidate
  /\ UNCHANGED <<unchangedByUsb, parking, mutex, task, inited, last_io_error,
                 unreleased>>

\* The interrupt sees a reset or an unplug, whatever the task is doing.
BusInterrupt ==
  /\ inited
  /\ Session!Invalidate
  /\ UNCHANGED <<unchangedByUsb, parking, mutex, task, stack, last_io_error,
                 unreleased>>

-----------------------------------------------------------------------------
Calls == StartApp \/ Expose \/ Acquire \/ RestoreUsb \/ EnterMaintenance
         \/ ResumeAutomatic

DisconnectSteps == AlreadyParked \/ LateAcknowledgement \/ CreateHelper
                   \/ AwaitAcknowledged \/ AwaitTimesOut \/ Recheck

UninstallSteps == UninstallRefused \/ TearDown \/ NothingToTearDown

MountSteps == BeginMount \/ Mounted \/ MountFails \/ MountUnconfirmed
              \/ HandBack \/ BeginUnmount \/ Unmounted \/ UnmountFails
              \/ Discard \/ Cleanup \/ Repoint

InstallSteps == InstallRefused \/ InstallSucceeds \/ InstallFails
                \/ HostConfigured \/ ConfigurationTimesOut \/ ProbeHost

\* What the application task does by itself inside an operation.
Continue == Protect \/ DisconnectSteps \/ UninstallSteps \/ MountSteps
            \/ InstallSteps

Usb == \/ HelperEnqueues \/ Park \/ LateStart
       \/ \E kind \in {"read", "write"} : BeginAccess(kind)
       \/ AccessDone \/ AccessFails \/ ReportFault
       \/ AcceptEject \/ CompleteEject \/ BusEvent \/ BusInterrupt

Next == Calls \/ Continue \/ Usb

Spec == Init /\ [][Next]_vars

\* The application task is scheduled. Nothing is owed by the host, the
\* helper or the TinyUSB task: every wait on them has a timeout.
FairSpec == Spec /\ WF_vars(Continue)

-----------------------------------------------------------------------------
\* FATFS holds the volume, entirely or in part, or is taking it.
AppHolds == disk \/ vfs \/ pc = "mounting"

\* The TinyUSB task can start, or is inside, an operation on the card.
HostReaches == task \in {"idle", "read", "write", "fault"}

\* The ESP and the host never have the FAT volume at the same time, counting
\* a half-undone mount as held and a task that is not known to have parked as
\* reaching (2026-09-18-usb-msc-handoff-design.md 9).
ExclusiveCard == ~(AppHolds /\ HostReaches)

\* The application holds the volume only with every host write covered by an
\* eject the host saw complete (usb_storage.c 418-432).
AppHoldsReleasedVolume == AppHolds => ~unreleased

\* The host writes only under maintenance, never under recovery or while the
\* gateway is read-only, and the permission is gone once the card is leaving
\* the host's hands (usb_storage.c 314, 400-424).
WritesOnlyInMaintenance ==
  /\ task = "write" => mode = "MAINTENANCE_RW"
  /\ usb_writable =>
       mode = "MAINTENANCE_RW" /\ (own \in {"TO_USB", "USB"} \/ pc = "protect")

\* An acknowledgement or a quiesced flag always belongs to the TinyUSB task
\* installed now: one left from a wait that expired cannot license the
\* deletion of a later task (usb_storage.c 199-238).
AcknowledgementIsCurrent ==
  /\ disconnect_done => task = "parked" /\ ~task_quiesced
  /\ task_quiesced => ~HostReaches

\* The TinyUSB task is deleted only where it has parked, so never while it
\* holds the storage mutex (usb_storage.c 224-226).
OnlyParkedTaskIsDeleted ==
  [][task # "absent" /\ task' = "absent" => task = "parked"]_vars

\* Recovery is one-way: an ERROR is left only by restore_usb (or the first
\* mount of start_app), a failed recovery leaves nothing, and the recovery
\* mode never gives the application the card (usb_storage.h 28).
RecoveryIsOneWay ==
  [][/\ own = "ERROR" /\ own' # "ERROR" =>
          ~recovery_failed /\ (op' = "restore" \/ op = "start")
     /\ recovery_failed => recovery_failed' /\ own' = "ERROR"
     /\ mode = "RECOVERY_RO" => mode' = "RECOVERY_RO" /\ own' # "APP"]_vars

\* Every operation returns: no wait is unbounded, and the storage mutex is
\* never left behind by a deleted task (usb_storage.c 21-24, 224-226).
OperationsReturn == pc # "idle" ~> pc = "idle"

\* A hand-over to the host that failed on a timeout gives the host nothing:
\* the design's rule, "A timeout or failed transition enters an error state
\* and does not grant the other side access"
\* (2026-09-18-usb-msc-handoff-design.md 14, usb_storage.c 126-152, 310-323).
FailedExposeGrantsNothing ==
  [][own = "ERROR" /\ op = "expose" /\ driver_installed /\ task = "idle" =>
       task' # "read"]_vars

\* The controller implements the abstract sharing of the card.
Card == INSTANCE CardAccess
          WITH access <- IF AppHolds THEN "app"
                         ELSE IF HostReaches THEN "host" ELSE "nobody"

ImplementsCardAccess == Card!Spec

\* The controller keeps what the application relies on between its calls:
\* every call ends in one of the outcomes of its kind, and neither ownership
\* nor mode moves on its own. A failing start hands over to recovery and a
\* successful resume to expose (usb_storage.c 255-434).
Service == INSTANCE StorageService
             WITH call <- IF pc = "idle" THEN "none" ELSE op,
                  card <- IF pc = "idle" THEN <<own, mode>>
                          ELSE <<"MOVING", "MOVING">>,
                  handle <- storage,
                  io_error <- last_io_error,
                  released <- /\ pc = "idle" /\ own = "USB"
                              /\ ~last_io_error /\ Released

ImplementsService == Service!ServiceSpec
=============================================================================
