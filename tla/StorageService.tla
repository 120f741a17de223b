--------------------------- MODULE StorageService ---------------------------
(***************************************************************************)
(* What the storage controller promises to the application task: the       *)
(* usb_storage_* calls of usb_storage.h and the getters read between them. *)
(* A call in progress shows nothing of itself; it ends in one of the       *)
(* outcomes of its kind. UsbStorage implements this module, and Gateway is *)
(* written on top of it.                                                   *)
(***************************************************************************)

VARIABLES
  call,             \* the operation in progress, or "none"
  card,             \* <<owner, mode>> between operations, or Moving
  handle,           \* start_app obtained a storage handle
  recovery_failed,  \* recovery failed once: a reset is required
  io_error,         \* usb_storage_last_io_error() # ESP_OK, sticky
  released          \* usb_storage_host_released()

service == <<call, card, handle, recovery_failed, io_error, released>>

ServiceOwners == {"APP", "USB", "ERROR"}
ServiceModes  == {"AUTO_RO", "MAINTENANCE_RW", "RECOVERY_RO"}
ServiceCalls  == {"start", "expose", "acquire", "restore", "enter", "resume"}
Moving        == <<"MOVING", "MOVING">>

ServiceTypeOK ==
  /\ call \in ServiceCalls \cup {"none"}
  /\ card \in (ServiceOwners \X ServiceModes) \cup {Moving}
  /\ handle \in BOOLEAN /\ recovery_failed \in BOOLEAN
  /\ io_error \in BOOLEAN /\ released \in BOOLEAN

ServiceInit ==
  /\ call = "none" /\ card = <<"ERROR", "AUTO_RO">> /\ handle = FALSE
  /\ recovery_failed = FALSE /\ io_error = FALSE /\ released = FALSE

\* usb_storage_transport_ready and usb_storage_capture_allowed.
TransportReady == card[1] = "USB"
CaptureAllowed == card = <<"USB", "AUTO_RO">>

\* The conditions under which a call is not refused outright.
Accepts(c) ==
  CASE c = "start"   -> ~handle
    [] c = "expose"  -> handle /\ card[1] = "APP"
    [] c = "acquire" -> CaptureAllowed
    [] c = "restore" -> handle /\ card[1] = "ERROR" /\ ~recovery_failed
    [] c = "enter"   -> CaptureAllowed /\ ~io_error
    [] c = "resume"  -> card = <<"USB", "MAINTENANCE_RW">> /\ released

\* How a call can end. start_app hands a failed mount over to restore_usb,
\* resume_automatic hands the mounted card over to expose.
Outcomes(c) ==
  CASE c = "start"   -> {<<"APP", "AUTO_RO">>}
    [] c = "expose"  -> {<<"USB", "AUTO_RO">>, <<"ERROR", "AUTO_RO">>}
    [] c = "acquire" -> {<<"APP", "AUTO_RO">>, <<"ERROR", "AUTO_RO">>}
    [] c = "restore" -> {<<"USB", "RECOVERY_RO">>}
                          \cup ({"ERROR"} \X ServiceModes)
    [] c = "enter"   -> {<<"USB", "MAINTENANCE_RW">>,
                         <<"ERROR", "MAINTENANCE_RW">>,
                         <<"ERROR", "AUTO_RO">>}
    [] c = "resume"  -> {<<"ERROR", "MAINTENANCE_RW">>}
    [] OTHER         -> {}

\* The evidence of a release exists only for a card the host has.
ReleasePossible == released' = TRUE => card'[1] = "USB" /\ ~io_error'

Begin(c) ==
  /\ call = "none"
  /\ Accepts(c)
  /\ call' = c
  /\ card' = Moving
  /\ handle' = TRUE
  /\ released' = FALSE
  /\ UNCHANGED <<recovery_failed, io_error>>

Delegate ==
  /\ \/ call = "start" /\ call' = "restore"
     \/ call = "resume" /\ call' = "expose"
  /\ UNCHANGED <<card, handle, recovery_failed, io_error, released>>

Return ==
  /\ call # "none"
  /\ call' = "none"
  /\ card' \in Outcomes(call)
  /\ recovery_failed' = (call = "restore" /\ card'[1] = "ERROR")
  /\ released' \in BOOLEAN
  /\ UNCHANGED <<handle, io_error>>
  /\ ReleasePossible

\* What the host does on its own: a fault, an eject, a bus reset.
HostNews ==
  /\ handle
  /\ io_error' \in {io_error, TRUE}
  /\ released' \in BOOLEAN
  /\ UNCHANGED <<call, card, handle, recovery_failed>>
  /\ ReleasePossible

ServiceNext == (\E c \in ServiceCalls : Begin(c)) \/ Delegate \/ Return
               \/ HostNews

ServiceSpec == ServiceInit /\ [][ServiceNext]_service
=============================================================================
