----------------------------- MODULE MscStorage -----------------------------
(***************************************************************************)
(* The life of a storage object in the mass-storage component: the driver  *)
(* is installed (by the application or by the first creation), a storage   *)
(* is created on a medium, mapped to a LUN, mounted to the application or  *)
(* to USB, used by the host through the callbacks of the TinyUSB task, and *)
(* deleted. Every critical section of the component and everything a call  *)
(* does while it holds a storage's mutex is one step; between those a call *)
(* can be overtaken by a call of another task and by the TinyUSB task.     *)
(*                                                                         *)
(* CreateAs, Formats, LastFirst, Quiesced and Movers say how the           *)
(* application uses the component.                                         *)
(***************************************************************************)
EXTENDS Naturals, FiniteSets

CONSTANTS
  Storage,    \* the media a storage can be created on, one object on each
  AppTask,    \* the application's tasks
  UsbTask,    \* the TinyUSB task
  Drive,      \* the FAT drive numbers (FF_VOLUMES of them)
  MaxLuns,    \* TINYUSB_MSC_STORAGE_MAX_LUNS
  None,
  CreateAs,   \* the mount points storages are created with
  Formats,    \* the media a mount may format (do_not_format is clear)
  LastFirst,  \* only the storage created last is deleted
  Quiesced,   \* USB is stopped while a storage is being deleted
  Movers      \* the tasks that move a storage between the application and USB

ASSUME MscStorageAssumption ==
  /\ MaxLuns \in Nat \ {0} /\ Drive \subseteq Nat /\ 0 \in Drive
  /\ None \notin Storage \union Drive /\ UsbTask \notin AppTask
  /\ CreateAs \subseteq {"APP", "USB"}
  /\ Movers \subseteq AppTask \union {UsbTask}
  /\ Formats \subseteq Storage /\ {LastFirst, Quiesced} \subseteq BOOLEAN

Task == AppTask \union {UsbTask}
Luns == 0 .. MaxLuns - 1

VARIABLES
  driver,     \* p_msc_driver: absent, installed by the application, or internal
  mapped,     \* which storage object each LUN points to
  lun_count,
  alive,      \* the storage objects that are allocated
  handles,    \* the storages the application has and has not deleted
  owner,      \* mount_point of each storage
  drive,      \* the FAT drive number each medium is registered under
  vfs,        \* the storages whose base path is registered with the VFS
  fat,        \* the storages whose volume is mounted in FatFs
  blank,      \* the media without a filesystem
  wiped,      \* history: the media that had one and were formatted
  active_io,  \* host accesses inside a read or write of each storage
  user,       \* the storage the host access of the TinyUSB task holds
  call,       \* the call each task is inside
  aborted     \* an ESP_ERROR_CHECK failed, or the absent driver was used

mapVars   == <<driver, mapped, lun_count>>
objVars   == <<alive, handles>>
mountVars == <<owner, drive, vfs, fat, blank, wiped>>
ioVars    == <<active_io, user>>
storageVars == <<mapVars, objVars, mountVars, ioVars, call, aborted>>

Idle == [op |-> "none", s |-> None, step |-> "none", at |-> "USB", mine |-> FALSE,
         pdrv |-> None]

Calls == [op : {"none", "new", "delete", "set"}, s : Storage \union {None},
          step : {"none", "install", "object", "map", "mount", "unmount", "unmap", "close"},
          at : {"APP", "USB"}, mine : BOOLEAN, pdrv : Drive \union {None}]

StorageTypeOK ==
  /\ driver \in {"absent", "application", "internal"}
  /\ mapped \in [Luns -> Storage \union {None}]
  /\ lun_count \in 0 .. MaxLuns
  /\ alive \subseteq Storage /\ handles \subseteq Storage
  /\ owner \in [Storage -> {"APP", "USB"}]
  /\ drive \in [Drive -> Storage \union {None}]
  /\ vfs \subseteq Storage /\ fat \subseteq Storage /\ blank \subseteq Storage
  /\ wiped \subseteq Storage
  /\ active_io \in [Storage -> {0, 1}]
  /\ user \in Storage \union {None}
  /\ call \in [Task -> Calls]
  /\ aborted \in {"no", "unmount", "uninstall", "driver"}

StorageInit ==
  /\ driver = "absent"
  /\ mapped = [l \in Luns |-> None]
  /\ lun_count = 0
  /\ alive = {} /\ handles = {}
  /\ owner = [s \in Storage |-> "USB"]
  /\ drive = [d \in Drive |-> None]
  /\ vfs = {} /\ fat = {}
  /\ blank \in SUBSET Storage /\ wiped = {}
  /\ active_io = [s \in Storage |-> 0]
  /\ user = None
  /\ call = [t \in Task |-> Idle]
  /\ aborted = "no"

At(t, op, step) == call[t].op = op /\ call[t].step = step
Goes(t, step)   == call' = [call EXCEPT ![t].step = step]
Returns(t)      == call' = [call EXCEPT ![t] = Idle]
Busy(s)         == \E t \in Task : call[t].s = s

\* A callback of the TinyUSB task may start.
UsbMayStart == Quiesced => \A t \in AppTask : call[t].op # "delete"

-----------------------------------------------------------------------------
(* The driver object.                                                       *)

\* msc_driver_install: a fresh driver without any storage.
NewDriver(kind) ==
  /\ driver = "absent"
  /\ driver' = kind
  /\ mapped' = [l \in Luns |-> None]
  /\ lun_count' = 0

InstallDriver(t) ==
  /\ call[t] = Idle
  /\ NewDriver("application")
  /\ UNCHANGED <<objVars, mountVars, ioVars, call, aborted>>

Uninstallable == driver # "absent" /\ lun_count = 0

UninstallDriver(t) ==
  /\ call[t] = Idle
  /\ Uninstallable
  /\ driver' = "absent"
  /\ UNCHANGED <<mapped, lun_count, objVars, mountVars, ioVars, call, aborted>>

\* What a failed creation does about the driver it installed itself.
GiveBackDriver(t) ==
  driver' = IF call[t].mine /\ Uninstallable THEN "absent" ELSE driver

-----------------------------------------------------------------------------
(* Creating a storage (new_storage_spiflash, _sdmmc).                        *)

NewStorage(t, s, at) ==
  /\ call[t] = Idle
  /\ s \notin handles /\ ~Busy(s)
  /\ call' = [call EXCEPT ![t] = [op |-> "new", s |-> s, at |-> at, pdrv |-> None,
                mine |-> (driver = "absent"),
                step |-> IF driver = "absent" THEN "install" ELSE "object"]]
  /\ UNCHANGED <<mapVars, objVars, mountVars, ioVars, aborted>>

\* The first creation installs the driver, unless another task was faster.
NewInstalls(t) ==
  /\ At(t, "new", "install")
  /\ \/ NewDriver("internal") /\ Goes(t, "object")
     \/ driver # "absent" /\ UNCHANGED mapVars /\ Returns(t)
  /\ UNCHANGED <<objVars, mountVars, ioVars, aborted>>

\* The medium is opened and the object allocated and filled.
NewObject(t) ==
  /\ At(t, "new", "object")
  /\ alive' = alive \union {call[t].s}
  /\ owner' = [owner EXCEPT ![call[t].s] = "USB"]
  /\ active_io' = [active_io EXCEPT ![call[t].s] = 0]
  /\ Goes(t, "map")
  /\ UNCHANGED <<mapVars, handles, drive, vfs, fat, blank, wiped, user, aborted>>

\* No memory, or the medium does not tell its size.
NewObjectFails(t) ==
  /\ At(t, "new", "object")
  /\ GiveBackDriver(t)
  /\ Returns(t)
  /\ UNCHANGED <<mapped, lun_count, objVars, mountVars, ioVars, aborted>>

Mappable == lun_count < MaxLuns

MapToLun(s) ==
  /\ mapped' = [mapped EXCEPT ![lun_count] = s]
  /\ lun_count' = lun_count + 1

NewMaps(t) ==
  /\ At(t, "new", "map")
  /\ driver # "absent" /\ Mappable
  /\ MapToLun(call[t].s)
  /\ IF call[t].at = "APP"
       THEN Goes(t, "mount") /\ UNCHANGED handles
       ELSE Returns(t) /\ handles' = handles \union {call[t].s}
  /\ UNCHANGED <<driver, alive, mountVars, ioVars, aborted>>

\* msc_storage_delete
Frees(s) == alive' = alive \ {s}

\* map_err: the object is freed and the medium closed; nothing unmaps it.
NewUndone(t) ==
  /\ Frees(call[t].s)
  /\ GiveBackDriver(t)
  /\ Returns(t)
  /\ UNCHANGED <<mapped, lun_count, handles>>

NewUnmappable(t) ==
  /\ At(t, "new", "map")
  /\ driver # "absent" /\ ~Mappable
  /\ NewUndone(t)
  /\ UNCHANGED <<mountVars, ioVars, aborted>>

-----------------------------------------------------------------------------
(* Moving a storage to the application (msc_storage_mount) and to USB       *)
(* (msc_storage_unmount), from a creation, from the application's setter    *)
(* or from the bus events the TinyUSB task handles.                         *)

Free(d)     == drive[d] = None
DrivesOf(s) == {d \in Drive : drive[d] = s}

\* tinyusb_msc_set_storage_mount_point, or the bus was attached or detached.
Moves(t, s, at) ==
  /\ t \in Movers
  /\ call[t] = Idle
  /\ driver # "absent"
  /\ IF t = UsbTask THEN \E l \in Luns : mapped[l] = s /\ user = None
                    ELSE s \in handles /\ ~\E u \in AppTask : call[u].s = s
  /\ t = UsbTask => UsbMayStart
  /\ owner[s] # at
  /\ call' = [call EXCEPT ![t] = [Idle EXCEPT !.op = "set", !.s = s, !.at = at,
                !.step = IF at = "APP" THEN "mount" ELSE "unmount"]]
  /\ UNCHANGED <<mapVars, objVars, mountVars, ioVars, aborted>>

\* The mount returned: the setter hands the result on, a creation either has
\* its storage or gives up.
AfterMount(t, ok) ==
  \/ /\ call[t].op = "set"
     /\ Returns(t)
     /\ UNCHANGED <<mapVars, objVars>>
  \/ /\ call[t].op = "new" /\ ok
     /\ Returns(t)
     /\ handles' = handles \union {call[t].s}
     /\ UNCHANGED <<mapVars, alive>>
  \/ /\ call[t].op = "new" /\ ~ok
     /\ NewUndone(t)

\* A vacant drive number is taken before the mutex is.
PicksDrive(t) ==
  /\ call[t].step = "mount" /\ call[t].pdrv = None
  /\ owner[call[t].s] # "APP"
  /\ \E d \in Drive :
       /\ Free(d) /\ \A e \in Drive : e < d => ~Free(e)
       /\ call' = [call EXCEPT ![t].pdrv = d]
  /\ UNCHANGED <<mapVars, objVars, mountVars, ioVars, aborted>>

\* Already mounted, or no drive number is vacant.
MountReturns(t) ==
  /\ call[t].step = "mount" /\ call[t].pdrv = None
  /\ \/ owner[call[t].s] = "APP" /\ AfterMount(t, TRUE)
     \/ /\ owner[call[t].s] # "APP"
        /\ \A d \in Drive : ~Free(d)
        /\ AfterMount(t, FALSE)
  /\ UNCHANGED <<mountVars, ioVars, aborted>>

Registered(t)   == [drive EXCEPT ![call[t].pdrv] = call[t].s]
\* storage_*_unmount: the medium leaves the one drive it is found under.
Unregistered(s, table) ==
  LET found == {d \in Drive : table[d] = s}
  IN  [d \in Drive |-> IF d \in found /\ \A e \in found : d <= e THEN None ELSE table[d]]

\* What the format of a mount makes a filesystem on: f_mkfs is given the
\* default volume, drive number 0.
FormatTarget(t) == Registered(t)[0]

\* FatFs finds a filesystem, or makes one where it may. When the base path
\* was registered before, FatFs is given no volume object, looks for no
\* filesystem and drops the volume it has.
MountSucceeds(t) ==
  LET s == call[t].s
      formats == s \in blank /\ s \notin vfs
      made == {FormatTarget(t)}
  IN
  /\ call[t].step = "mount" /\ call[t].pdrv # None
  /\ formats => s \in Formats /\ FormatTarget(t) # None
  /\ blank' = IF formats THEN blank \ made ELSE blank
  /\ wiped' = IF formats THEN wiped \union (made \ blank) ELSE wiped
  /\ drive' = Registered(t)
  /\ fat' = IF s \in vfs THEN fat \ {s} ELSE fat \union {s}
  /\ vfs' = vfs \union {s}
  /\ owner' = [owner EXCEPT ![s] = "APP"]
  /\ AfterMount(t, TRUE)
  /\ UNCHANGED <<ioVars, aborted>>

TakesBack(t) ==
  /\ drive' \in {Unregistered(call[t].s, drive), Unregistered(call[t].s, Registered(t))}
  /\ fat' = fat \ {call[t].s}
  /\ UNCHANGED <<vfs, blank, wiped, owner>>
  /\ AfterMount(t, FALSE)
  /\ UNCHANGED <<ioVars, aborted>>

\* The medium, the VFS or FatFs refuses, or the format fails: what this mount
\* registered is taken back.
MountFails(t) ==
  /\ call[t].step = "mount" /\ call[t].pdrv # None
  /\ TakesBack(t)

\* There is no filesystem and none may be made (do_not_format): the event
\* FORMAT_REQUIRED, and the mount fails like any other.
FormatRequired(t) ==
  /\ call[t].step = "mount" /\ call[t].pdrv # None
  /\ call[t].s \in blank \ (vfs \union Formats)
  /\ TakesBack(t)

AfterUnmount(t, ok) ==
  IF call[t].op = "set" THEN Returns(t) /\ UNCHANGED aborted
  ELSE IF ok            THEN Goes(t, "unmap") /\ UNCHANGED aborted
  ELSE aborted' = "unmount" /\ UNCHANGED call    \* ESP_ERROR_CHECK

Unmounts(t) ==
  LET s == call[t].s IN
  /\ call[t].step = "unmount"
  /\ IF owner[s] = "USB"
       THEN UNCHANGED mountVars
       ELSE /\ drive' = Unregistered(s, drive)
            /\ fat' = fat \ {s}
            /\ vfs' = vfs \ {s}
            /\ owner' = [owner EXCEPT ![s] = "USB"]
            /\ UNCHANGED <<blank, wiped>>
  /\ AfterUnmount(t, TRUE)
  /\ UNCHANGED <<mapVars, objVars, ioVars>>

\* The FAT unmount fails and nothing changed, or the VFS refuses after it;
\* the owner stays the application.
UnmountFails(t) ==
  LET s == call[t].s IN
  /\ call[t].step = "unmount" /\ owner[s] = "APP"
  /\ \/ UNCHANGED <<drive, fat>>
     \/ drive' = Unregistered(s, drive) /\ fat' = fat \ {s}
  /\ UNCHANGED <<vfs, owner, blank, wiped>>
  /\ AfterUnmount(t, FALSE)
  /\ UNCHANGED <<mapVars, objVars, ioVars>>

-----------------------------------------------------------------------------
(* Deleting a storage (tinyusb_msc_delete_storage).                         *)

\* mutant: the accesses under way are not looked at
DeleteWhileUsed(t, s) ==
  /\ call[t] = Idle
  /\ s \in handles /\ ~\E u \in AppTask : call[u].s = s
  /\ Quiesced => call[UsbTask] = Idle
  /\ LastFirst => mapped[lun_count - 1] = s
  /\ driver # "absent" /\ lun_count > 0
  /\ call' = [call EXCEPT ![t] = [Idle EXCEPT !.op = "delete", !.s = s,
                !.step = IF owner[s] = "APP" THEN "unmount" ELSE "unmap"]]
  /\ UNCHANGED <<mapVars, objVars, mountVars, ioVars, aborted>>

DeleteStorage(t, s) ==
  /\ call[t] = Idle
  /\ s \in handles /\ ~\E u \in AppTask : call[u].s = s
  /\ Quiesced => call[UsbTask] = Idle
  /\ LastFirst => mapped[lun_count - 1] = s
  /\ driver # "absent" /\ lun_count > 0 /\ active_io[s] = 0
  /\ call' = [call EXCEPT ![t] = [Idle EXCEPT !.op = "delete", !.s = s,
                !.step = IF owner[s] = "APP" THEN "unmount" ELSE "unmap"]]
  /\ UNCHANGED <<mapVars, objVars, mountVars, ioVars, aborted>>

UsesNoDriver(t) ==
  /\ driver = "absent"
  /\ At(t, "new", "map") \/ (At(t, "delete", "close") /\ call[t].mine)

LunsOf(s) == {l \in Luns : mapped[l] = s}

DeleteUnmaps(t) ==
  LET s == call[t].s IN
  /\ At(t, "delete", "unmap")
  /\ IF LunsOf(s) = {}
       THEN Returns(t) /\ UNCHANGED <<mapped, lun_count>>
       ELSE /\ \E l \in LunsOf(s) : /\ \A m \in LunsOf(s) : l <= m
                                    /\ mapped' = [mapped EXCEPT ![l] = None]
            /\ lun_count' = lun_count - 1
            /\ call' = [call EXCEPT ![t].step = "close", ![t].mine = (lun_count' = 0)]
  /\ UNCHANGED <<driver, objVars, mountVars, ioVars, aborted>>

\* The medium is closed, the driver of the last storage goes with it when it
\* was installed internally, and the object is freed.
DeleteFrees(t) ==
  LET s == call[t].s
      drops == call[t].mine /\ driver = "internal"
  IN
  /\ At(t, "delete", "close")
  /\ ~UsesNoDriver(t)
  /\ IF drops /\ ~Uninstallable
       THEN aborted' = "uninstall" /\ UNCHANGED <<driver, objVars, call>>
       ELSE /\ driver' = IF drops THEN "absent" ELSE driver
            /\ Frees(s) /\ handles' = handles \ {s}
            /\ Returns(t)
            /\ UNCHANGED aborted
  /\ UNCHANGED <<mapped, lun_count, mountVars, ioVars>>

\* Another task uninstalled the driver since this call looked at it: its LUN
\* table or its flags are read through a null pointer.
DriverGone(t) ==
  /\ UsesNoDriver(t)
  /\ aborted' = "driver"
  /\ UNCHANGED <<mapVars, objVars, mountVars, ioVars, call>>

-----------------------------------------------------------------------------
(* The host reads or writes a LUN: the TinyUSB task counts itself in, waits *)
(* for the mutex, uses the medium and counts itself out.                    *)

BeginAccess(l) ==
  /\ user = None /\ call[UsbTask] = Idle
  /\ driver # "absent" /\ mapped[l] # None
  /\ UsbMayStart
  /\ user' = mapped[l]
  /\ active_io' = [active_io EXCEPT ![mapped[l]] = 1]
  /\ UNCHANGED <<mapVars, objVars, mountVars, call, aborted>>

EndAccess ==
  /\ user # None
  /\ active_io' = [active_io EXCEPT ![user] = 0]
  /\ user' = None
  /\ UNCHANGED <<mapVars, objVars, mountVars, call, aborted>>

\* The number of LUNs the host is told.
MaxLun == IF driver # "absent" /\ lun_count > 0 THEN lun_count ELSE 1

AppNext(t) ==
  \/ InstallDriver(t) \/ UninstallDriver(t)
  \/ \E s \in Storage : \/ \E at \in CreateAs : NewStorage(t, s, at)
                        \/ DeleteStorage(t, s)
  \/ NewInstalls(t) \/ NewObject(t) \/ NewObjectFails(t)
  \/ NewMaps(t) \/ NewUnmappable(t)
  \/ DeleteUnmaps(t) \/ DeleteFrees(t) \/ DriverGone(t)

MoveNext(t) ==
  \/ \E s \in Storage, at \in {"APP", "USB"} : Moves(t, s, at)
  \/ PicksDrive(t) \/ MountReturns(t) \/ MountSucceeds(t) \/ MountFails(t)
  \/ FormatRequired(t)
  \/ Unmounts(t) \/ UnmountFails(t)

StorageNext ==
  /\ aborted = "no"
  /\ \/ \E t \in AppTask : AppNext(t)
     \/ \E t \in Task : MoveNext(t)
     \/ \E l \in Luns : BeginAccess(l)
     \/ EndAccess

StorageSpec == StorageInit /\ [][StorageNext]_storageVars

-----------------------------------------------------------------------------
(* What the component owes its application and the host.                    *)

AtRest(s) == ~Busy(s)

\* The callbacks of the TinyUSB task never meet a storage object that was
\* freed: no LUN points to one, and none is freed while an access holds it.
\* (tinyusb_msc.c:277-338 against 934-973.)
NoUseAfterFree ==
  /\ user # None => user \in alive
  /\ \A l \in Luns : mapped[l] # None => mapped[l] \in alive

\* When a storage belongs to USB and no call is moving it, nothing of the
\* application's FAT stack is left on its medium: no volume, no base path and
\* no drive number, whichever step of a mount or unmount failed before.
\* (tinyusb_msc.c:408-539.)
UsbHasNoVolume ==
  \A s \in handles : AtRest(s) /\ owner[s] = "USB" =>
    s \notin fat /\ s \notin vfs /\ DrivesOf(s) = {}

\* A medium is never registered under two drive numbers, so that taking one
\* away takes it from FatFs. (tinyusb_msc.c:424-436, storage_sdmmc.c:29-44.)
OneDrivePerMedium == \A s \in Storage : Cardinality(DrivesOf(s)) <= 1

\* What holds whatever fails and whichever tasks call: the parts above.
StorageInv == StorageTypeOK /\ NoUseAfterFree /\ UsbHasNoVolume /\ OneDrivePerMedium
=============================================================================
