# A verification project for the scanner gateway

The gateway is an ESP32-S3 between a sheet-fed Wi-Fi scanner (Epson ES-60W) and
a Windows PC. It owns one microSD card and lets exactly one side at a time reach
it: the PC, through a USB mass-storage drive, or its own FAT driver, while a page
is captured. Modules in this directory model that behaviour in TLA+, TLC checks
them on small instances, and TLAPS proves the central properties for every
instance.

All paths below are relative to the repository's root.

1. [Inventory](#1-inventory)
2. [Modules](#2-modules)
3. [Runs](#3-runs)
4. [Proofs](#4-proofs)
5. [Where the code and what is said of it differ](#5-where-the-code-and-what-is-said-of-it-differ)
6. [Not modelled](#6-not-modelled)

## 1. Inventory

| Part | State it keeps | Operations | Hard behaviour | Correct when |
|---|---|---|---|---|
| Storage controller, `main/usb_storage.c`, `storage_handoff_model.c`, `storage_mode_model.c` | owner (`APP`, `TO_USB`, `USB`, `TO_APP`, `ERROR`), mode (`AUTO_RO`, `MAINTENANCE_RW`, `RECOVERY_RO`), driver flags, parked-task flags, sticky I/O error | `start_app`, `expose`, `acquire`, `restore_usb`, `enter_maintenance`, `resume_automatic`, getters | every wait is bounded and may end late; each step may fail half-way; the task it deletes may hold a mutex | the card is never open to both sides; writes of the host are released before the gateway mounts; operations return |
| MSC session, patched `components/esp_tinyusb/tinyusb_msc.c`, `patch_msc_core.py` | generation counter, eject latches, sticky fault | SCSI callbacks, CSW hooks, `tinyusb_msc_host_released` | interrupt, task and application share atomics without a lock | a release is reported only for an eject of this session that the host saw succeed |
| MSC mount functions and SD adapter, `tinyusb_msc.c`, `storage_sdmmc.c` | mount point, FATFS and VFS registration, storage mutex | mount, unmount, sector read and write | partial mounts and unmounts | what remains registered keeps the host out |
| TinyUSB driver and task, `tinyusb.c`, `tinyusb_task.c` | task context, `tud_inited`, deferred calls | install, uninstall | a start that was given up on completes later; a teardown fails after the task is gone | nothing is installed over a live stack |
| TinyUSB MSC class, `tests/vendor/tinyusb/src/class/msc/msc_device.c` | stage of the bulk-only transport | `mscd_xfer_cb`, resets | short and misplaced status transfers | callbacks run for the status they belong to |
| Application loop, `main/main.c`, `gateway_state_model.c`, `page_trigger.h` | phase, last result, sticky `storage_uncertain`, page trigger | polling, capture, button dispatch, recovery | decisions taken on a status that is seconds old; events queued before and consumed after a capture | one sheet, one capture; no storage operation after ownership became uncertain |
| Diagnostics ring, `gateway_diagnostics.c` | 64 entries | record | wrap-around | the ring holds the newest entries in order |
| Storage objects, `tinyusb_msc.c` | the driver object, LUNs, owner, FAT drive and VFS registration of each storage | install, create, map, mount, move, delete | other tasks and the TinyUSB task come between its critical sections | no callback meets a freed storage; a medium that belongs to USB has no FAT volume |
| MTP transfers, `mtp/tinyusb_mtp_transfer.c`, `_write.c`, `_read.c`, `_transport.c`, `tinyusb_mtp.c` | pending upload, edit, partial write, read, deferred answer | callbacks of a transaction, cancel, reset, register and unregister a storage | an upload ends at any of a dozen points; what a stream buffers is stored when it is closed | no half-received file and no hidden file stays; OK means received and closed |
| MTP objects, `mtp/tinyusb_mtp_object_store.c`, `_operations.c`, `_properties.c` | a table of handles, paths and parents | list, rename, move, delete, create | the tree changes behind the table; the table is full | a handle keeps its meaning; a listing is the directory |
| Button, `scanner_button.c`, `scanner_button_model.c` | debounce and hold state, queue of eight | 10 ms task, `take_event` | context changes during a press, full queue | a press that only wakes the screen does nothing else |
| Visual idle, `scanner_idle_model.c` | requested and confirmed state of screen and LED | activity, sleep, retry | one of the two devices fails | at most three attempts, then a stable answer |
| Display and LED, `scanner_display.c`, `scanner_display_model.c`, `scanner_led.c`, `scanner_led_model.c` | what panel, backlight and pixel show; the last status drawn | show, set awake, draw, colour and tone of a state | an SPI transfer of unknown outcome; two cascades over the same state | a doubtful panel is left alone; both devices say the same |
| Capture transaction, `scanner_capture.c`, `scan_files.c` | five names per page number, ownership of temporaries | reserve, write, sync, validate, publish, crop | full card, failed sync, power loss | a `.JPG` name always shows a validated page and is never replaced |
| ESC/I session, `esci_scan.c` | lock, command alignment, scan in progress | status, scan, cancel, finish | failures in the middle of a frame, headers nobody can read | the scanner is left unlocked |
| JPEG validation and crop, `jpeg_stream.c`, `jpeg_crop.c`, `jpeg_width_crop.c` | decoder state | inspect, normalise, crop | boundary arithmetic | accepted dimensions agree with the page end |
| Wi-Fi and clock, `scanner_wifi.c`, `scanner_clock_model.c` | event bits, address of the scanner, clock validity | two-phase start, reconnect | events of the first network arrive in the second phase | an address is only used while connected |

How the parts interact. The application task runs `app_main` and calls every
storage operation synchronously; the TinyUSB task calls back into
`tinyusb_msc.c` and, through `storage_event` and `usb_event`, into
`usb_storage.c`; the USB interrupt calls `tud_event_hook_cb`. The application
asks the MSC session for the host's release (`tinyusb_msc_host_released`), and
stops the TinyUSB task by deferring a call to it that acknowledges and never
returns. `scan_files.c` and `scanner_capture.c` check `usb_storage_app_owned`
before every file operation. The button task reads a context the application
publishes and sends it events through a queue. The MTP component belongs to the
same vendored USB component as the mass-storage class; the gateway is built
without it, but it is the largest body of logic in the repository, and its
callbacks run in the TinyUSB task while the application registers storages.

The hazards of this code, each at its line, are listed in `PROJECT.json`
together with the properties that cover them.

## 2. Modules

| Module | What it is | Models |
|---|---|---|
| `ReleaseEvidence` | abstract: the standing of the host's eject in one session and the sticky fault | what `MscSession` promises |
| `MscSession` | the MSC session at the granularity of its atomics | `tinyusb_msc.c`, `patch_msc_core.py` |
| `CardAccess` | abstract: who may touch the card, and whether the host has unreleased writes | what `UsbStorage` promises about the card |
| `StorageService` | abstract: the calls of `usb_storage.h` and how each may end | what `UsbStorage` promises to the application |
| `UsbStorage` | the storage controller, the mount functions and the TinyUSB task, on top of `ReleaseEvidence` | `usb_storage.c`, `storage_*_model.c`, parts of `tinyusb*.c` |
| `MscStorage` | the life of storage objects, called by several tasks | `tinyusb_msc.c`, `storage_sdmmc.c`, `storage_spiflash.c` |
| `ButtonGesture` | abstract: gestures and the events they give, without timing | what `ScannerButton` promises |
| `ScannerButton` | debounce, hold, context and queue | `scanner_button.c`, `scanner_button_model.c` |
| `Gateway` | the application loop, on top of `StorageService` and `ButtonGesture` | `main.c`, `gateway_state_model.c`, `page_trigger.h` |
| `StatusView` | what LED and screen show of a state | `scanner_led_model.c`, `scanner_display_model.c` |
| `VisualIdle` | putting screen and LED to sleep and waking them | `scanner_idle_model.c`, `main.c`, the two drivers |
| `ScanNames`, `ScanArchive` | abstract: the final names on the card | what `Capture` promises |
| `Capture` | one page from the scanner to the card | `scanner_capture.c`, `scan_files.c` |
| `EsciSession` | a status or scan session with the scanner | `esci_scan.c` |
| `JpegPage` | validation, normalization and cropping of an image | `jpeg_stream.c`, `jpeg_crop.c`, `jpeg_width_crop.c` |
| `WifiClock` | the two networks and the clock | `scanner_wifi.c`, `scanner_clock_model.c` |
| `DiagnosticsLog`, `DiagnosticsRing` | abstract log of the last records; the ring | `gateway_diagnostics.c` |
| `MtpTransfer` | MTP transactions and the transfers they carry on | `mtp/` transfer, write, read, transport |
| `MtpObjects` | the MTP object table over a changing tree | `mtp/` object store, operations, properties |
| `UsbStorageProofs`, `MscProofs`, `GatewayProofs`, `CaptureProofs`, `ScannerProofs`, `OperatorProofs`, `MtpProofs`, `MtpObjectsProofs` | proofs, see section 4 | |
| `MC*` | instances for TLC, see section 3 | |

How they compose. Five detailed modules implement an abstract one, and the
larger ones are written on the abstract level of their parts:

    MscSession ----implements--> ReleaseEvidence <--uses-- UsbStorage
    UsbStorage ----implements--> CardAccess
    UsbStorage ----implements--> StorageService  <--uses-- Gateway
    ScannerButton -implements--> ButtonGesture   <--uses-- Gateway
    Capture -------implements--> ScanArchive
    DiagnosticsRing implements-> DiagnosticsLog

So what `Gateway` relies on in a storage call is what the controller does, and
what the controller relies on in a release is what counters and interrupt
provide. One module for all would multiply the interrupt's interleavings with
the controller's and these with the loop's.

### 2.1 MscSession

Three agents: the TinyUSB task, the USB interrupt, and the application inside
`tinyusb_msc_host_released`.

| In the module | In the code |
|---|---|
| `bus_generation`, `released_generation`, `io_failed` | the three atomics of `tinyusb_msc.c:52-75, 107` |
| `storage` | `session_generation`, `accepted_generation`, `removal_prevented`, `eject_accepted`, `status_succeeded`, which only the TinyUSB task touches |
| `stage`, `cmd`, `passed` | `MSC_STAGE_*` of the class driver, the command of the CBW, the status of its CSW |
| `Synced`, `ReleaseSynced` | `session_storage`, the first call of every callback |
| `EjectAccepted`, `EjectRefused`, `StartStop`, `PreventAllow`, `SyncCache`, `AccessStarts`, `AccessRefused` | the SCSI callbacks |
| `PassedStatus`, `FailedStatus`, `ShortStatus`, `OtherStatus`, `DecideStatus` | `tinyusb_msc_command_status_cb` as `patch_msc_core.py` inserts it |
| `BeginComplete`, `CheckComplete`, `Publish` | `tud_msc_scsi_complete_cb` |
| `BusReset`, `ClassReset`, `TransferFailed`, `FaultInvalidates` | the callers of `tinyusb_msc_invalidate_session` |
| `ReadFault`, `ReadReleased`, `ReadGeneration` | the three loads of `tinyusb_msc_host_released` |
| `bumps`, `ejectAccepted`, `delivered`, `wroteSince` | history: what really happened in this session |

Granularity. A callback that reads `bus_generation` once is one action: all
else it touches is private to the task, so a bump inside it commutes with it. A
callback that reads it n times is n actions. WRITE10 synchronises the session
twice before it writes; the second call repeats the first and is folded into it.
A data transfer in several chunks is several accesses. The mount point is `USB`
whenever this task runs: that is part of what `UsbStorage` shows.
`usb_writable` belongs to another task and takes any value here. A CSW transfer
that ends short leaves the class driver in `STATUS_SENT` with no transfer
outstanding; the model calls that stage `STATUS_LOST`.

Bounds. `MaxGeneration = 5`, `MaxInvalidations = 4`: four invalidations allow an
old session, a current one and a newer one at each of the three readers of the
counter at once, with one to spare. The counter does not wrap
(`GenerationAssumption`): `atomic_uint` is 32 bits wide and the code has no
defence against its becoming 0, the value of an empty `released_generation`.

Fairness. `WF(TaskStep)`: the TinyUSB task is scheduled. The host owes it no
command and no transfer. Deadlock is not checked: with the invalidation bound
used up, a task that has just failed an access cannot go on.

### 2.2 UsbStorage

| In the module | In the code |
|---|---|
| `own`, `mode`, `started`, `storage`, `driver_installed`, `driver_uncertain`, `recovery_failed`, `task_quiesced`, `disconnected`, `usb_writable`, `last_io_error` | the statics of `usb_storage.c:26-43` under the same names (`own` is `ownership.state`) |
| `op`, `pc` | the `usb_storage_*` call in progress and the next call it makes |
| `disconnect_done`, `helper`, `deferred` | the binary semaphore, the `msc_detach` task, its entry in TinyUSB's queue |
| `mount_point`, `disk`, `vfs`, `mutex` | `storage->mount_point`, the diskio registration, the `/sdcard` registration, `mux_lock` |
| `task` | the TinyUSB task: absent, created but not started, idle between operations, in a read or write, about to report its failure, parked in `disconnect_device` |
| `inited`, `connected`, `configured` | `tud_inited`, `tud_connected`, `tud_mounted` |
| `evidence`, `faulty` | the MSC session |
| `unreleased` | history: the host has written since its last completed eject |
| `StartApp` ... `ResumeAutomatic` | entry of the operation up to its first call that can wait or fail |
| `AlreadyParked`, `LateAcknowledgement`, `CreateHelper`, `AwaitAcknowledged`, `AwaitTimesOut` | `disconnect_usb` |
| `UninstallRefused`, `TearDown`, `NothingToTearDown` | `uninstall_usb` and `tinyusb_driver_uninstall` |
| `BeginMount`, `Mounted`, `MountFails`, `MountUnconfirmed`, `BeginUnmount`, `Unmounted`, `UnmountFails` | `set_mount`, `msc_storage_mount`, `msc_storage_unmount` |
| `Cleanup`, `Discard` (both `Removal`), `Repoint` | `remove_app_mount` and what follows it in `usb_storage_restore_usb` |
| `InstallRefused`, `InstallSucceeds`, `InstallFails`, `HostConfigured`, `ConfigurationTimesOut`, `ProbeHost` | `install_usb` and `wait_host_configuration` |
| `Park`, `HelperEnqueues`, `LateStart` | `disconnect_device`, `queue_disconnect`, a TinyUSB task that start-up gave up on |
| `BeginAccess` ... `BusInterrupt` | what the host, the task and the interrupt do |

An operation is a path through `pc`; where it may go next depends on `op`
(`AfterDisconnect`, `AfterUninstall`, `RecoveryEntry`), and all its failures
meet in `Fail`, as they meet in `storage_handoff_complete_*` in the code. A call
whose guard fails returns an error, changes nothing, and is not an action.

Left out of this module, with the reason:

- `mount_done` and `mount_event`: the callback that gives the semaphore runs in
  the caller's own task, inside the call that precedes the wait.
- `host_configured` and `host_changed`: the semaphore only wakes a polling loop,
  the flag only feeds a getter.
- `_task_is_running`: its refusal is a failure of the installation; a task that
  was created and has not ended always makes the installation fail.
- A freed task context that a late task goes on using: its outcome is taken to
  be a normal start.
- SYNCHRONIZE CACHE, which takes the mutex for one load: a read covers it.
- Time: a wait may expire whenever its event has not happened.
- Power loss and reset: every static is RAM, and a restart is a new behaviour
  from `Init`.

Bounds. None: the module has no constants and its state space is finite.

Fairness. `WF(Continue)`: the application task is scheduled. Nothing is assumed
of the host, of the helper task or of the TinyUSB task: each wait on them has a
timeout in the code. Deadlock is not checked because the gateway does stop: a
failed start, or a failed recovery, waits for a reset.

`UsbStorage` also maps to `StorageService` (`Service`, `ImplementsService`):
between two operations the card is the pair of owner and mode, during one it is
`Moving`, and each operation ends only in one of the outcomes the service lists.

### 2.3 MscStorage

The life of a storage object when several application tasks and the TinyUSB task
use the component. Each critical section, and each stretch of a call that holds
the storage's mutex, is one step.

| In the module | In the code |
|---|---|
| `driver`, `mapped`, `lun_count` | `p_msc_driver`, its LUN table and count |
| `alive`, `handles` | the objects allocated; those the application has and has not deleted |
| `owner`, `drive`, `vfs`, `fat` | `mount_point`, diskio, VFS and FatFs registrations |
| `active_io`, `user` | the accesses of the callbacks |
| `NewStorage` ... `NewUnmappable` | `tinyusb_msc_new_storage_*` with each failure |
| `Moves`, `PicksDrive`, `MountSucceeds`, `MountFails`, `FormatRequired`, `Unmounts`, `UnmountFails` | `msc_storage_mount`, `msc_storage_unmount` |
| `DeleteStorage`, `DeleteUnmaps`, `DeleteFrees`, `DriverGone` | `tinyusb_msc_delete_storage` |
| `BeginAccess`, `EndAccess` | READ10 and WRITE10 |

The constants say how the application uses the component. The run uses what the
gateway does (storages created for USB, `usb_storage.c:284-298`) and more: a
second task, a second medium, moves by either task, deletions while USB is
stopped. Section 5 says which uses break which promise.

### 2.4 ScannerButton and Gateway

`ScannerButton`: one step reads the published context (`Look`), one steps the
model with a sample of the pin taken up to `MaxLate` polls after the last; time
is kept as ages. `ButtonGesture` is the same without time: a gesture is live,
only wakes, or is spent, and may be spoiled by a context that forbids events.

`Gateway`: `pc` is the place in `app_main`.

| In the module | In the code |
|---|---|
| `Start` ... `EnterLoop` | `main.c:253-286` |
| `TakeEvent`, `Acknowledge`, `SelectMode`, `NothingToSelect`, `Select`, `Selected` | `service_button` |
| `Restore`, `Restored` | `stop_storage`, `restore_storage` |
| `StorageBlocks`, `StatusNotDue`, `StatusDue`, `Probe`, `ButtonsServed`, `NoPage`, `Page` | one turn of the loop up to the decision to scan |
| `Acquire` ... `Exposed` | the capture cycle |
| `ShowMode`, `Render` | `show_storage_mode`, `show_status`, `publish_button_context` |
| `Armed`, `Counts`, `SecondReading`, `Finished` | `page_trigger_poll`, `page_trigger_finished` |
| `failed_sheet`, `streak` | history: a sheet whose capture failed; loaded readings in a row |

The probe of the feeder and the capture take seconds in which the button may
queue events and the host may eject or fail: they are steps of the button and of
the service between two steps of the loop. Left out: file names and sizes of a
result, diagnostics records, messages.

Bounds. `QueueLength = 1` in the run (8 in the code): the loop takes one event
per visit, so a longer queue only repeats what one event can do; the theorems
hold for every length. Nothing else is bounded.

Fairness. The application task is scheduled (`WF(Application)`), a storage call
returns (shown of `UsbStorage` by `OperationsReturn`), and the poll interval of
two seconds passes (`SF(StatusDue)`: the loop is between two polls again and
again). Nothing is assumed of the button, the host or the scanner.

### 2.5 StatusView and VisualIdle

`StatusView` has the two cascades as functions (`Led`, `Tone`), the poll with the
fields it compares (`Applied`), and the steps after which the application
redraws. `VisualIdle` has the idle policy as functions on its record (`Activity`,
`RequestSleep`, ...), each device call as a step that may fail or leave a
transfer of unknown outcome, and the points at which the button's context is
published. Time is the difference to the last activity and to the next attempt.

Bounds. `Timeout = 2`, `RetryDelay = 1`: seconds matter only as reached or not
reached. Fairness: device calls return (the transfer wait is one second), time
passes, and the loop reaches `service_visual_idle` every turn.

### 2.6 Capture

The steps of `scanner_capture_observed` with `scan_files.c` over a FAT volume:
`Reserve`, `Connect`, `Receive`, `Sync`, `Inspect`, `Normalize`, `Reinspect`,
`PublishOriginal`, `CreateCrop`, `WriteCrop`, `InspectCrop`, `PublishCrop`; any
may fail as its call may. `Crash` is a loss of power between any two steps, or in
the middle of a rename: what was being written reaches the card in part, a rename
may leave both names. `HostEdits` is what the PC does in maintenance mode. A file
is who made it and what it holds. The checks of ownership cannot fail while the
one task that changes it is inside the capture, and are left out.

Bounds. Two numbers, three pages, two host edits: a number is used, skipped and
found taken, and more pages than numbers are asked for. The code's last number
is 9999; the model's is 2, with the same way out.

### 2.7 EsciSession

One session, frame by frame: `Send`, then `ReplyLost`, `Refused`, `Malformed` or
`Answered`, `Data`, and for images `ImgHeader`, `Piece`, `BlockLost`, `Polled`, and `Unlock`.
The scanner is what it has sent and not been read (`pending`), its lock and its
conversation state, and the tokens it has told. It may refuse, err, announce data
with an error, end early or fall silent at any frame; the card may fill at any
piece. `broken` is history: some frame was not read whole.

A header clears `aligned` once its length is read and not zero
(`esci_scan.c:82`, `Header`), also when it goes on to report an error. A header
with another command's echo or a bad digit in its length returns before that
(lines 74 and 79): in `Malformed` the stream stays aligned although the scanner
may have data to send, and the cleanup goes out into the middle of the exchange.
`garbled` is history for it; from then on the model does not rely on the scanner
obeying what it is sent (`Obeyed`, and `heeded` in `Unlock`).

Bounds. Four pieces and five polls (`Total`, `MaxPolls`): a block of several
pieces, several blocks, and the poll limit are reached. Fairness: every socket
call returns, because it has a timeout and the session a deadline.

### 2.8 JpegPage

Here the question is what an algorithm does to data, so the model keeps it: a
header is a sequence of segments with their offsets, a row of MCUs the brightness
differences the DC predictor gives. `JpegInspect` is `jpeg_inspect` in both modes,
`Proposal` the crop decision with the code's thresholds, `Normalized` the patches
of height, `Cropped` the width crop. The actions run them in the order of the
capture and of the host tools. Entropy coding and AC coefficients are left out.

Bounds. The constants of `MCJpegPage`: canvases of ten and twelve MCUs, pages of
8 to 13 rows so that nine tenths of the rows is less than all of them, every dark
edge, every removed, doubled or swapped header segment, every row fault the code
looks for. The code's canvases are 2550 and 5100 pixels wide: the same
arithmetic with more columns, and `PagesDecode` holds for them.

### 2.9 WifiClock

`App` is the application in `scanner_wifi_start` and `synchronize_clock`,
`Current` the poll of `scanner_wifi_current`, `Join`, `Drop` and `GetAddress` the
driver and the interface, `DeliverEvent` the handler, which runs in order and
arbitrarily late. `late` is history: the end of the home network was not noticed
within the second the code waits for it.

Bounds. `MaxDrops = 2`: the scanner's network is lost or not joined twice, once
during start-up and once after it; `WifiCorrect` holds for any number. Fairness: waits have timeouts, events are
delivered, an access point that is there is joined and gives an address.

### 2.10 DiagnosticsRing

`Record` and the reading operators; it implements `DiagnosticsLog`, the sequence
of the last `Capacity` records. Proved, not run.

### 2.11 MtpTransfer

Every callback and call holds the lifecycle lock from end to end and is one step.
`m` is the context (`s_mtp_context.mux_protected`) with the files of the card;
`xfer` is the transaction the bus is in.

| In the module | In the code |
|---|---|
| `Command`, `DataPacket`, `DataComplete` | the three callbacks, with the handler of each operation |
| `CancelRequest`, `DeviceReset` | the two control requests |
| `BusLost`, `BusBack` | the bus goes away between any two callbacks and tells nobody |
| `InstallDriver`, `UninstallDriver`, `RegisterStorage`, `UnregisterStorage` | the calls of `tinyusb_mtp.c` |
| `AbortPendingWrite`, `FinishPendingWrite`, `CommitReplacement`, `BeginEdit`, `EndEdit`, ... | the functions of those names in `tinyusb_mtp_transfer.c` |

A file is how much of what its writer announced it holds, or was given to hold:
`fwrite` fills the buffer of a stream, and the end of an upload is on the card
only when `fclose` has stored it. A file under way is `"blank"` or `"part"`
however much of it was received, and `Closed` makes it `"whole"`, or `"short"`
when the close fails: the code does not look at its result
(`tinyusb_mtp_transfer.c:287`). An edit is closed with each packet, and checked
(lines 492-505). Of the calls that one callback makes into the card and TinyUSB
none fails or one does (`Faulty`), whichever of `Faults` the callback can meet.

Two constants say what
host the run has: `OrderlyHost` (nobody renames or removes an object while it is
being received) and `AnswersArrive` (the bus is not lost between the last packet
and the completion that answers its error). Section 5 says what happens without.

A listing meets the files in any order (`SetToSeqs`) and gives each its object
(`Listed`). Names and the hidden names of replacements are disjoint
(`MtpAssumption`), as the prefixes and the filter of the listing make them. A
removal succeeds, except that of a backup under the fault `"unlink"`.

Bounds. Two storages with one name each, one handle, one object, one attempt for
an internal name, files of no or two packets, failures of writes, of closes and
of the second rename: an upload, a replacement and an edit each meet every end. The run
takes the two storages, each with its file, as symmetric: the code prefers none.

### 2.12 MtpObjects

`c` holds the files, the slots and the two counters. The helpers carry the names
of the functions (`GetOrCreate`, `ScanChildren`, `ScanTree`, `DropUnder`,
`Rename`, `Move`, `RemoveAll`, `PropList`), the actions are the requests, and
`AppCreates`, `AppRemoves` are what the application does to the files between
two of them. A directory may be read to its end or not. Each loop of the code is a
recursive function of the number of rounds (`ListEntries`, `Sweep`, `Descend`,
`ScanScope`, `Visited`, `ListStorages`) over the operator that is one round.

Bounds. A directory with a file in it next to another file, and two slots: the
table is full and is reclaimed. Handles run to 5 and do not wrap, the scan
generation has three values and does. `Remade` is empty: a path that is made again
is made as what it was (the gateway makes `/sdcard/scans` and files in it). Section
5 says what is different when a directory can come back as a file.

## 3. Runs

| Run | Module | Distinct states | Asks |
|---|---|---|---|
| `msc_session` | `MCMscSession` | 33,720 | does the lock-free evidence hold up against the interrupt, and does it implement `ReleaseEvidence`? |
| `usb_storage` | `MCUsbStorage` | 2,221 | does the controller keep the two sides apart over every order of operations, failures and host activity, does it always return, and does it implement `CardAccess` and `StorageService`? |
| `usb_storage_expose` | `MCUsbStorage` | about 150 to the violation | does a failed expose give the host nothing? |
| `gateway` | `MCGateway` | 665,040 | does the loop survive every outcome of its calls, take each sheet once, and forget none? |
| `visual_idle` | `MCVisualIdle` | 16,533 | does the button know what the user sees, whichever device call fails? |
| `capture` | `MCCapture` | 93,575 | what is on the card after a failure or a loss of power at any step? |
| `esci_session` | `MCEsciSession` | 10,867 | is the scanner given back, and is the result true, whatever frame goes wrong? |
| `jpeg_page` | `MCJpegPage` | 3,896 | is an image that passed validation safe in all that follows? |
| `wifi_clock` | `MCWifiClock` | 1,980 | is the scanner reached with events in any order and late, and only the scanner when the end of the home connection came in time? |
| `msc_storage` | `MCMscStorage` | 50,064 | do storage objects live safely under several tasks and any failing mount? |
| `mtp_write` | `MCMtpTransfer` | 598,354 | what does a transfer leave behind, however it ends? |
| `mtp_objects` | `MCMtpObjects` | 15,372 | do handles and listings stay true to a tree that changes? |

Some properties of a run are conjunctions of named parts; a part that a comment,
header or document of the code speaks of is stated beside it in the module.

`msc_session` checks

- `ReleaseIsEarned`: a release counts only for an eject accepted in this very
  session, whose passed status reached the host, with no write since;
- `AnswerIsCurrent`: when the last of the three loads says "released", it is true
  at that instant;
- `ReleasedIsQuiet`: no physical operation is under way while a release counts;
- `OnlyInvalidationRevokes`: only the end of the session takes a release back;
- `DeliveredEjectReleases`: an eject the host saw succeed becomes a release;
- `ImplementsEvidence`: every step is one of `ReleaseEvidence`, or none.

`usb_storage` checks

- `ExclusiveCard`: FATFS, counting a half-undone mount, and a TinyUSB task not
  known to have parked never meet;
- `AppHoldsReleasedVolume`: the gateway holds the volume only with every host
  write covered by a completed eject;
- `WritesOnlyInMaintenance`: the host writes only in maintenance, and permission
  ends before the card leaves its hands;
- `AcknowledgementIsCurrent`: a late acknowledgement never licenses the deletion
  of a later task;
- `OnlyParkedTaskIsDeleted`: so no mutex dies with its holder;
- `RecoveryIsOneWay`: what the header says of recovery, over all sequences of
  calls;
- `OperationsReturn`: no operation hangs;
- `ImplementsCardAccess`, `ImplementsService`: every step is one of the abstract
  specification, or none.

`usb_storage_expose` is expected to fail: see section 5.

`gateway` checks

- `GatewayInv`: `ScreenTellsOwnership` (what the idle gateway shows is what the
  card is; in doubt it shows STOPPED) and `PagesAreScannedOnOwnCard` (a page is
  captured only onto a card the application holds, and neither the call that
  takes it nor the one that hands it back can be refused, although seconds lie
  between the check and the call);
- `SheetsAreTakenOnce`: two loaded readings for a capture, and no second capture
  of a sheet whose first failed until the feeder was read empty;
- `LoopRecovers`: `LoopGoesOn` (the buttons are served again and again, stopped
  or not) and `FailureIsRecovered` (a failed hand-over leads to the end of a
  recovery);
- `PageIsNotForgotten`: a page that stays loaded in front of an idle gateway is
  scanned.

`visual_idle` checks

- `PanelInv`: `CommandsAreSeen` (a press counts as a command only with something
  lit), `RestIsDark`, `ThreeAttemptsAtMost`, `ContextIsCurrent` (between two
  calls the button task knows the present state);
- `PanelSteps`: `UncertainPanelIsLeftAlone` (no panel command after a transfer
  that may still own the panel) and `IdleEnds` (an idle gateway goes dark or
  gives up).

`capture` checks

- `CaptureInv`: `OneNumberOnePage` (all the gateway's files of one number are of
  one page, also when the host has removed some) and `ResultIsTrue` (the result
  says what is on the card);
- `OthersAreUntouched`: no file of an earlier page or of the host is changed,
  and no final name;
- `ImplementsArchive`: final names appear whole, one page for a number, also over
  a loss of power.

`esci_session` checks

- `SessionInv`: `CleanupAtBoundary` (cancel, FIN and unlock leave at a frame
  boundary) and `ReleasedIsFree`, both as long as no unreadable header has
  announced data, and `EveryExitUnlocks`;
- `ResultInv`: `CompleteIsWhole`, `FullCardIsTold`, `PaperIsReported`;
- `SessionEnds`: a session ends whatever the scanner does.

`jpeg_page` checks

- `PageInv`: `ValidatedIsEnough` (no later inspection refuses what validation
  passed) and `PublishedDecodes` (an independent reading of header and rows:
  declared sizes, tables, restart intervals and rows fit together);
- `OnlyDarkIsLost`: the crop keeps every pixel of a prefix of at least half of
  the width, and cuts columns that are dark in nine rows of ten.

`wifi_clock` checks

- `WifiInv`: `GatewayIsScanners` (connected means to the scanner, unless the end
  of the home connection came later than the second the code waits for it),
  `ClockOrReason`, `HomeIsLeft`;
- `ScannerIsReached`: with the scanner's network available the gateway ends up
  connected to it for good.

`msc_storage` checks `StorageInv`: `NoUseAfterFree` (no callback meets a freed
storage), `UsbHasNoVolume` (a medium at rest that belongs to USB has nothing of
the FAT stack on it, whichever step of a mount failed), `OneDrivePerMedium`. It
does so for a user that stops USB while it deletes a storage (`Quiesced`) and
does not move storages from the TinyUSB task (`Movers`), as the gateway does: the
window between the look at `active_io` and the unmapping
(`tinyusb_msc.c:941`) is closed by that and not by the component, and section 5
says what happens without.

`mtp_write` checks

- `WriteInv`: `NoHalfFileIsLeft`, `NoHiddenFileIsLeft`, `SessionOwnsWrites`,
  `NoUnregisteredUse`, over every way a transfer can end;
- `UploadsAreAtomic`: `OkMeansStored` (OK means received to the end and closed
  under the name) and `ReplacementLeavesAFile` (a closed file, and the old one
  when the host is told of an error). How much of a file its last close stored
  the code does not know, and these do not say: `NoFileIsCutShort` in section 5;
- `UnregisterSparesOthers`: a storage that goes takes no edit of another one
  with it.

`mtp_objects` checks

- `ObjectsInv`, what the table is by itself: `OneHandleOnePath`,
  `DeletedIsForgotten`, and in `TypeOK` that the files are a tree;
- `TableMirrorsTree`, what it says of the files: `ListingIsCurrent` (a listing
  answered OK is the directory as it is) and `ParentIsItsDirectory`;
- `HandlesAreStable`: a handle means the same file as long as the file is there,
  through full tables, failed listings and renames next to it.

Deadlock is checked in the runs in which the system never stops. It is not in
`msc_session` and `usb_storage` (sections 2.1, 2.2), nor where a program may come
to its end: an aborted component, a session that is over, a capture out of
numbers, a start that failed.

Each property of a passing run has a mutant in `PROJECT.json`: a plausible bug in
a mapped definition (the operators whose comment says mutation, mutant or defect) with
which TLC finds the property violated.

## 4. Proofs

All proofs are checked by TLAPS with Z3, Zenon and LS4. Every theorem is about
the specification the runs check, for every value of its constants; what a module
assumes of them is named below. One pattern serves throughout: the property is
not inductive, so an invariant says, place by place of the code, what has been
settled there and what is still open; it is proved for `Init` and for each action
apart, and the properties follow from it. Before a proof was tried its invariant
was checked by TLC on the run of the module.

| Run's property | Theorem | Run's property | Theorem |
|---|---|---|---|
| `ExclusiveCard` | `Exclusive` | `CaptureInv` | `CaptureCorrect` |
| `AppHoldsReleasedVolume` | `ReleasedBeforeMount` | `OthersAreUntouched` | `CaptureLeavesOthers` |
| `AcknowledgementIsCurrent` | `CurrentAcknowledgement` | `ImplementsArchive` | `CaptureImplementsArchive` |
| `OnlyParkedTaskIsDeleted` | `DeletesOnlyParkedTask` | `SessionInv` | `SessionCorrect` |
| `WritesOnlyInMaintenance` | `WritesInMaintenance` | `ResultInv` | `ResultCorrect` |
| `RecoveryIsOneWay` | `OneWayRecovery` | `PanelInv` | `PanelCorrect` |
| `ImplementsCardAccess` | `Refinement` | `PanelSteps`, its safety half | `UncertainPanelAlone` |
| `ImplementsService` | `ServiceRefinement` | `WifiInv` | `WifiCorrect` |
| `ReleaseIsEarned` | `EarnedRelease` | `StorageInv` | `StorageCorrect` |
| `AnswerIsCurrent` | `CurrentAnswer` | `WriteInv` | `WriteCorrect` |
| `ReleasedIsQuiet` | `QuietRelease` | `UploadsAreAtomic` | `UploadsCorrect` |
| `OnlyInvalidationRevokes` | `RevokedOnlyByInvalidation` | `UnregisterSparesOthers` | `UnregisterCorrect` |
| `ImplementsEvidence` | `Refinement` | `GatewayInv` | `GatewayCorrect` |
| `PageInv` | `PagesDecode` | `SheetsAreTakenOnce` | `OneSheetOneCapture` |
| `OnlyDarkIsLost` | `PixelsSurvive` | `ObjectsInv` | `TableIsSound` |

### UsbStorageProofs

`TypeCorrect`, `Exclusive`, `ReleasedBeforeMount`, `CurrentAcknowledgement`,
`DeletesOnlyParkedTask`, `WritesInMaintenance`, `OneWayRecovery`, `Refinement`
(of `CardAccess`) and `ServiceRefinement` (of `StorageService`). They need no
assumption: the module has no constants. Three invariants stand on each other.

`IInv` is `TypeOK` and `Structure`. `ExclusiveCard` is not inductive: whether
FATFS may take the volume is decided by a local step of the application, so
`Structure` says for each step what is left of the USB stack and of the FAT
registration at that point:

- `CardWithoutUsb`: what FATFS holds, and the steps that give it the volume,
  exclude a TinyUSB task that runs or may start;
- `UsbWithoutCard`: the converse for the steps that start the stack;
- `OwnerOfStep`: ownership and operation agree with the step;
- `DriverPresent`, `NotStarted`: the driver flags agree with the task;
- `Quiesced`: a pending acknowledgement or the quiesced flag means a parked task;
- `HostDataCovered`: host writes without an eject exist only where no step leads
  to a mount that does not re-check the release.

`Moded` adds the modes: `Permission` (writing is allowed, or under way, only in
maintenance and while the host has the card or is about to lose it),
`ModeOfStep` (which operation, in which mode, reaches a step) and `ErrorOfStep`
(in `ERROR` only a cleanup or the first mount can be under way).
`WritesOnlyInMaintenance` alone is not inductive: that `Unmounted` opens writing,
for instance, is harmless only because an expose is the only operation that
gets there.

`Kept` adds what a caller was promised when a step is reached: which operation
can be at it, with which mode and with which handles. With it each of the
controller's steps is classified (`ServedStep`): it begins a call the service
accepts, hands it over to another one, ends it in a listed outcome, is news of
the host, or is not seen by the service at all.

### MscProofs

Two components. Of `MscSession`: `TypeCorrect`, `EarnedRelease`, `CurrentAnswer`,
`QuietRelease`, `RevokedOnlyByInvalidation` and `Refinement` (of
`ReleaseEvidence`), for every `MaxGeneration` and `MaxInvalidations` under
`GenerationAssumption` (the counter does not wrap within a behaviour). The
inductive invariant ties the counters to what really happened: a value that
equals `bus_generation` belongs to this session (`NoWrap`, `OldOrCurrent`), an
eject latch of this session closes the medium (`EjectCloses`), a publication
under way has its status delivered (`StatusDelivered`), and the reader's copy is
current as long as it equals the counter (`CopyIsCurrent`).

Of `MscStorage`: `StorageCorrect`, for any number of tasks, storages, LUNs and
drive numbers under `CarefulUse`: storages are created for USB, the TinyUSB task
is stopped while one is deleted, and the bus events do not move one. The gateway
is such a user (`usb_storage.c:284-298` creates one storage for USB, with
`auto_mount_off`, and deletes none), and section 5 has what happens to others.
`StorageIInv` says what a call knows of the storage it works on at each of its
critical sections (`StepKnows`), that two calls never work on the same one
(`ExclusiveInv`), and that everything which belongs to USB, known to the
application or not, is free of the FAT stack (`MountInv`): the last is what every
error path of a mount must restore.

### GatewayProofs

`GatewayCorrect`, `OneSheetOneCapture` and `StaysStopped` (nothing but a reset
leaves a doubtful storage). Assumption: `QueueLengthAssumption` (the event queue
holds at least one). The inductive invariant `IInv` adds to `GatewayInv` what the
loop knows at each place: the card has an owner exactly between calls
(`Settled`), a call is under way only where the loop waits for it (`Mid`), where
there is and is not doubt (`Sure`), what was checked before a call still holds
when it is made (`Places`), and phase and card agree (`Agree`). `Places` is the
point of the proof: seconds lie between the check and the call, and only the
application's own calls move the card. `SheetInv` is a second invariant on top of
it: it relates the trigger (`armed`, `loaded`) to what was really read (`streak`,
`failed_sheet`) at each place of the loop, across the button handling that may
come between a reading and the decision taken on it.

### CaptureProofs

`CaptureCorrect`, `CaptureLeavesOthers` and `CaptureImplementsArchive`, for every
set of numbers and pages and any number of host edits (`CaptureAssumption`).
`StepInv` says for each step of a capture what stands under the five names of its
number (`ScratchOfStep` until the original is published, `DerivativeOfStep`
after), which file is being written (`WritingOfStep`; it is the one a loss of
power may cut short) and how much of the result is settled (`ResultOfStep`).
`FirstFree` is the lemma about the reservation: the smallest free number exists
when there is a free one. In the refinement a capture is invisible except for its
two renames, and a rename cut by a loss of power is one whose old name remains.

The page of the transaction is in the same module: `PagesDecode`, `PixelsSurvive`
and `WideImagesAreAnswered`, for all canvases, page heights and brightness ranges
and for files with any segments and rows, under `JpegAssumption` (both canvases are wider than
80 pixels, the page is not higher than the larger canvas, a file has a header).
A pass over the segments is a recursive function, and the library's induction
theorems cannot be used. `CountUp` takes their place: a set of numbers that holds
0 and the successor of each of its numbers below `N` holds all up to `N`, proved
from the well-foundedness of `<` on the naturals. From it follow `ParseRuns` and
`EndsGrow` (what the two functions are, and that fields lie apart), and
`AllKnown`: after `n` segments the parser's record says which of the first `n`
are frames, intervals and tables and where their fields lie. For an accepted
header this is `HeaderSays`. `Patched` and `Apart` then give that a write at a
recorded offset changes that one field, and `Redeclared` that the header with it
is accepted again and found to say the new value. `PageIInv` states stage by stage
that the file is `Sound`, what the last inspection reported, and that the proposal is
a whole number of MCUs that leaves half of the width (`Narrows`); soundness of the
cropped file rests on `CutKeeps`, which says that the levels of a prefix of a row
are the prefix of its levels. That is where 80 pixels come in: half of five MCUs and one
more is 48 pixels, below the 64 that the crop demands; above 80 it cannot happen.

### ScannerProofs

The scanner's side; the two modules share no state.

- `EsciSession`: `SessionCorrect` and `ResultCorrect`, for every length of an image
  and every limit of polls. Both conjunctions speak of a session that is over; the
  work is to carry what they need through the frames. `BoundaryInv` is the centre:
  until an unreadable header has announced data, `aligned` is the truth about the
  wire, so a session that knows it lost its place in a frame sends nothing more.
  `LockInv` then has the client's idea of the lock and of the
  FS/X conversation agree with the scanner's, `ImageInv` the file with what was
  sent until a write failed, and `StatusInv` a status with what the scanner told.
- `WifiClock`: `WifiCorrect`, for any number of losses of the scanner's network and
  events delivered as late as may be. `HomeGatewayInv` says where the home gateway
  can still be in the interface: while home is joined, or its end is on the way.
  `TimelyInv` is the part that was missing in a first attempt, and it speaks of the
  case that the code's wait of a second was long enough: then an end is the last
  event in the queue, nothing is joined before it is delivered, and an announced
  address is still the interface's when the announcement arrives. Without the
  restriction `GatewayIsScanners` is false, which is one of the notes of section 5.

### OperatorProofs

What the operator sees and presses; the four modules share no state.

- `VisualIdle`: `PanelCorrect` and `UncertainPanelAlone`, for every timeout and
  retry delay. The invariant has what holds between the idle record and the
  devices at each place of the calls (`DeviceInv`: a transfer's outcome is known
  to the code before the record has it), that attempts made and failures counted
  differ by the one under way (`TriesInv`), and that the button's context is
  current where it can be used (`ShowInv`).
- `StatusView`: `ViewCorrect`, `DevicesTellTheSame`, `RedOutlasts`. `ViewInv`
  adds that the phase is STOPPED exactly when the storage is in doubt, and that
  what was last drawn is the view of the present state. The lemma that matters is
  `QuietPoll`: a poll that reports no change has changed no field that shows.
- `DiagnosticsRing`: `RingTypeCorrect` and `RingImplementsLog`, under
  `RingAssumption` (a positive capacity): the ring reads as the last `Capacity`
  records in order, through the wrap and while it fills.
- `ScannerButton`: `BootPressIgnored`, `OneEvent`, `Undisturbed` and
  `ButtonRefinement` (of `ButtonGesture`), under `ButtonAssumption` (times,
  lateness and queue length are positive). `ButtonInv` says that a debounced
  press not yet used up was judged awake and idle and never spoiled (`Judged`),
  that what a gesture has given used it up (`Once`), and that a debounced press
  comes from a candidate of a button that was released before (`Touched`). A step
  that debounces and at once acts on a press maps to one gesture step or to none.

`StatusView`, `DiagnosticsRing` and `ScannerButton` have no run of their own:
their properties are proved only.

### MtpProofs

`WriteCorrect`, `UploadsCorrect` and `UnregisterCorrect`, for all names,
storages, sizes, handles and tries, under `Orderly`: the host does not touch the
file it is sending (`OrderlyHost`), the answers it is owed arrive
(`AnswersArrive`), and the card removes the backup of a replacement when it is
told to (no `"unlink"` fault). The run has the same. Writes, renames and closes
may fail; a closed file is `"whole"` or `"short"` with `"close"` among the
faults and `"whole"` without (`AsClosed`), which is where the theorems promise
complete files. Section 5 says what the first two exclude; a backup the card
will not remove stays, and nothing in the code comes back to it.

Nearly all the state is one record and a handler is a function on it, so the
proof is about functions. `Kept` says of a context what its pending write, its
files and its objects have to do with each other: a half-received file and a
hidden file belong to the write that is going on (`HalfInv`, `HiddenInv`), a
write has its object, its session and its storage (`PendingInv`), a replacement has the old
file closed under the name until the renames and the new one when they start,
and a write that was all received has its stream still open or its file closed
(`ContentInv`); `ClosedKeeps` is the step from the one to the other, whether the
close stored everything or not. Each primitive keeps it (`AbortKeeps`,
`FinishPendingWriteKeeps`, ...), then each handler. `XferInv` adds what the
context holds for the transaction the bus is in, with the point at which an
answer is deferred until the data phase has ended.

### MtpObjectsProofs

`TableIsSound` and `HandlesAreUnique`, for every finite tree of paths, every size
of the table, every width of the two counters and every set of requests, under
`ObjectsAssumption`: paths are sequences of names whose directory is a path too,
there are more handles than slots, and there are at least three generations. The
first has the hypothesis `~StaleTargets` of the run, that nothing is renamed or
moved onto a name a stale object still holds: without it two objects may have
one path (section 5). The second has no hypothesis: handles are unique even then.

A request is a function from a context to a context, so the invariant is about a
context, `Good`: its parts are of their types, what exists is in a directory
(`Tree`), each used slot has a path and a handle of its own (`Handles`), and, unless
`StaleTargets`, a path of its own (`OwnPaths`). One lemma for each function says
that it keeps a context good, in the order in which the functions call each other,
from `FreeKeeps` and `PutKeeps` to `MoveKeeps` and `GetPropListKeeps`. Four
arguments carry the proof:

- A new handle is new (`NextHandleIsNew`): among the counter's next `MaxObjects + 1`
  values one is not in use, which is the pigeonhole principle over the slots, also
  across the wrap of the counter. This is where `LastHandle > MaxObjects` is needed.
- A full table gives up a slot with everything below its path, and the slot is then
  free of any other object with that path (`GetOrCreateKeeps`).
- Loops: that a recursive function exists and every round keeps the context good
  goes by `CountUp`, a set of numbers that holds 0 and with each the next, which
  follows from the well-foundedness of the numbers without an induction theorem.
- A rename of a directory leaves a tree (`MovedIsTree`): what is below the source
  and comes to be below the target has its directory moved with it, and the parent
  of the target is a directory that was not moved.

### Only model-checked

- Liveness: `DeliveredEjectReleases`, `OperationsReturn`, `LoopRecovers`,
  `PageIsNotForgotten`, `SessionEnds`, `ScannerIsReached` and `IdleEnds`, the
  second half of `PanelSteps`. The prover does not handle liveness under
  fairness.
- `MtpObjects`: `TableMirrorsTree` and `HandlesAreStable`. Both are false for some
  values of the constants (section 5), and what makes them true in the run is a
  history, that no handle is given out again and no path comes back as another
  kind. `ListingIsCurrent` also needs what a listing computes, that the handles of a
  whole traversal are the files found, which is induction over data.
- `FailedExposeGrantsNothing` is false (section 5).

## 5. Where the code and what is said of it differ

### A failed expose (run `usb_storage_expose`)

`docs/superpowers/specs/2026-09-18-usb-msc-handoff-design.md:14` says: "A timeout
or failed transition enters an error state and does not grant the other side
access." In the code, `wait_host_configuration` fails when a host has been
detected but has not configured within five seconds (`usb_storage.c:143-151`).
`usb_storage_expose` then sets ownership to `ERROR`, and leaves the driver and its
task running (`usb_storage.c:317-319` cleans up only when no driver is left). If
the host configures after that, it can read the card. `FailedExposeGrantsNothing`
states the rule; the trace is: start, mount, expose, unmount, install,
configuration expires, the host connects and configures, the operation fails, the
host reads. No data is at risk: FATFS has already let the volume go
(`ExclusiveCard` holds in those states), writing is off, and `app_main` normally
follows with a recovery. After the first expose of a start-up it does not
(`main.c:275-278`), and the state lasts until a reset.

### Statements kept beside the modules that the code does not satisfy in general

Each of these is a definition that says what a comment, a header or a test says,
and TLC finds it violated under the constants given. They are not among the runs;
the runs use the component as its users do.

| Definition | Said in | Violated with | Why |
|---|---|---|---|
| `MCMscStorage!EveryStorageHasItsLun` | the mapping of storages to LUNs | the run's constants | LUNs are filled at the count and emptied in place; the deletion of any but the last storage leaves the count at a LUN in use |
| `MCMscStorage!UninstallNeverFails` | "Should never fail", `tinyusb_msc.c:968` | the run's constants | another task creates a storage between the count and the uninstall |
| `MCMscStorage!OnlyBlankIsFormatted` | `tinyusb_msc.h:82` | `CreateAs = {"APP"}`, both media in `Formats` | the format of a mount names the default volume and not the drive it mounts |
| `MCMscStorage!RefusedOnlyWithStorage`, `MscStorage!NoUseAfterFree` | `tinyusb_msc.h:147` | `CreateAs = {"APP"}` | a creation that fails in its mount frees the object and keeps it mapped |
| `MCMscStorage!UnformattedStorageIsKept` | `test_msc_storage.c:508-520` | `CreateAs = {"APP"}`, `Formats = {}` | the failed mount fails the creation |
| `MscStorage!UsbHasNoVolume` | section 2.3 | `Movers` with the TinyUSB task | two moves overlap between choosing and registering a drive; the gateway switches the moves of the bus events off (`auto_mount_off`) |
| `EsciSession!DrainedBeforeCleanup` | "Data must be drained before another command.", `esci_scan.c:82` | the run's constants | a header with the wrong echo or a bad length digit fails before its length is looked at, with the stream taken for aligned; FIN is sent while the data it announced wait |
| `EsciSession!ReleasedIsFree` without `~garbled` | `esci_scan.c:215-220` | the run's constants | as above; the scanner may not have heeded what was sent then |
| `MscStorage!NoUseAfterFree` | section 2.3 | `Quiesced = FALSE` | a callback starts between the look at `active_io` and the unmapping, on a storage that is then freed |
| `MtpTransfer!NoFileIsCutShort` | the checks of an edit, `tinyusb_mtp_transfer.c:492-505` | the run's constants | the result of the `fclose` that ends an upload is ignored (line 287): a file whose last part did not fit is answered OK, and replaces the old one |
| `MtpTransfer!NeverAborts` | `test_mtp_storage.c:423` | the run's constants | the driver is uninstalled between two callbacks of one transaction |
| `MtpTransfer!RefusedOnlyWithHost` | `tinyusb_mtp.h` | the run's constants | a transfer whose bus is lost is never ended and stays active |
| `MtpTransfer!WriteInv`, `UploadsAreAtomic` | comments of the same functions | `AnswersArrive = FALSE` | a deferred answer the bus lost is given to the next transaction, which ends the transfer that is pending by then |
| `MtpTransfer!UploadsAreAtomic` | as above | `OrderlyHost = FALSE` | the file is removed while its replacement is received, and the replacement is then aborted |
| `MtpObjects!ListedIsKnown` | `test_mtp_storage.c:820` | `StaleTargets = TRUE` | a rename gives an object a path a stale object still holds |
| `MtpObjects!ParentIsItsDirectory` | its comment | `HandlesWrap = TRUE` | a child keeps the handle of a parent that is gone and whose number is given out again |
| `MtpObjects!ParentIsItsDirectory`, `HandlesAreStable` | their comments | `Remade <- FolderA` | a directory is removed and its path is used for a file, which keeps its object; a rename then leaves what was cached below the directory, with the handle of that object as its parent, and when both directories exist again a listing of the renamed one drops the other's child |
| `JpegPage!ValidIsAnswered` | `jpeg_width_crop.h:4` | images 64 to 80 pixels wide, for instance `ScannerFiles = Pages(64, 96)` | half of the width, rounded to MCUs, is below the smallest width the crop accepts; the scanner sends no such image, and `WideImagesAreAnswered` proves that there are no other cases |

Three more were met while modelling and concern what the repository's `README.md` says of the
loop. A BOOT press let go just before a page is scanned acknowledges that page's
result, because the event waits in the queue while the capture runs
(`README.md:23`, `main.c:195`). After a reset in maintenance the gateway mounts a
card nobody ejected, because ownership is not stored (`README.md:21`,
`usb_storage.c:255`). And the home router passes for the scanner until the
disconnect event arrives when it arrives later than the second the code waits:
`GatewayIsScanners` therefore speaks of the case that it does not.

## 6. Not modelled

- **Power management** (`tinyusb_pm.c`), remote wake-up, descriptors and the PHY:
  they keep no state the card or the session depends on.
- **`tinyusb_msc_format_storage`**: the gateway never calls it.
- **CDC** (`tinyusb_cdc_acm.c`), `led_strip`, the rest of the TinyUSB copy: not
  used by the gateway, or third-party.
- **Host tools and build scripts**: they do not run on the gateway; the two JPEG
  tools that share code with it are in `JpegPage`.
- **Entropy decoding**, AC coefficients and chroma: arithmetic on image data with
  no control that the properties tell apart.
- **The datasets of MTP**: the bytes of property lists, object infos and storage
  infos, sizes and times, and the queries that only build them. A property list
  is measured and then built by a second traversal; both are one step here.
- **Power loss in MTP**: the code has no recovery for it. A loss between the two
  renames of a replacement leaves the file under its hidden backup name.
- **The wrap of `bus_generation`** (`tinyusb_msc.c:111`): 2^32 resets.
- **Restart** of the controller: every static of `usb_storage.c` is RAM, so a
  restart is a new behaviour from `Init`; what the card holds over a loss of
  power is in `Capture`.
