------------------------------ MODULE WifiClock ------------------------------
(***************************************************************************)
(* Joining networks: scanner_wifi.c briefly joins the home network to set  *)
(* the clock, leaves it, then joins the scanner's network for good. The    *)
(* application task waits on two event bits with timeouts; the event task  *)
(* delivers the driver's events in order, but later than they happened,    *)
(* and from then on joins again after every loss.                          *)
(***************************************************************************)
EXTENDS Naturals, SequencesExt

CONSTANT
  MaxDrops       \* how often the scanner's network is lost or not joined

ASSUME WifiAssumption == MaxDrops \in Nat

VARIABLES
  step,        \* where the application task is in scanner_wifi_start
  config,      \* the network of the station configuration
  reconnect_scanner,
  bits,        \* the event group: a subset of {"CONNECTED", "DISCONNECTED"}
  clock,       \* scanner_clock_state_t
  result,      \* the last scanner_wifi_result_t
  ap, joining, \* the driver: the network it is in, whether it tries to join
  dhcp, gateway, \* the interface: asking for an address; whose gateway it has
  events,      \* posted to the event loop and not yet delivered
  drops,
  late         \* history: the event of the end of the home network took longer
               \* than the second that synchronize_clock waits for it

wifi == <<config, ap, joining, dhcp, gateway, events>>
wifiVars == <<step, reconnect_scanner, bits, clock, result, drops, late, wifi>>

Networks == {"NONE", "HOME", "SCANNER"}

WifiTypeOK ==
  /\ step \in {"NVS", "HOME", "HOME_WAIT", "SNTP", "CLEAR", "LEAVE", "LEAVE_WAIT",
             "CONFIGURE", "CONNECT", "SCANNER_WAIT", "RUN", "OFF"}
  /\ config \in Networks /\ ap \in Networks /\ gateway \in Networks
  /\ reconnect_scanner \in BOOLEAN /\ joining \in BOOLEAN /\ dhcp \in BOOLEAN
  /\ bits \subseteq {"CONNECTED", "DISCONNECTED"}
  /\ clock \in [valid : BOOLEAN,
                error : {"NONE", "NOT_CONFIGURED", "HOME_AP_TIMEOUT", "SNTP_INIT",
                         "SNTP_TIMEOUT", "INVALID_TIME"}]
  /\ result \in [connected : BOOLEAN, gateway : Networks]
  /\ events \in Seq({"JOINED", "DISCONNECTED", "GOT_IP"})
  /\ drops \in 0..MaxDrops /\ late \in BOOLEAN

WifiInit ==
  /\ step = "NVS"
  /\ config = "NONE" /\ reconnect_scanner = FALSE /\ bits = {}
  /\ clock = [valid |-> FALSE, error |-> "NONE"]
  /\ result = [connected |-> FALSE, gateway |-> "NONE"]
  /\ ap = "NONE" /\ joining = FALSE /\ dhcp = FALSE /\ gateway = "NONE"
  /\ events = <<>> /\ drops = 0 /\ late = FALSE

-----------------------------------------------------------------------------
(* The driver and the interface. *)

\* esp_wifi_connect: nothing while it joins or is joined.
DriverConnects == joining' = (joining \/ ap = "NONE")

Join ==
  /\ joining
  /\ joining' = FALSE /\ ap' = config
  /\ events' = Append(events, "JOINED")
  /\ UNCHANGED <<step, reconnect_scanner, bits, clock, result, drops, config, dhcp, gateway, late>>

\* A join fails or a network is lost. The scanner's does so MaxDrops times.
Drop ==
  /\ joining \/ ap # "NONE"
  /\ IF config = "SCANNER" THEN drops < MaxDrops /\ drops' = drops + 1
     ELSE UNCHANGED drops
  /\ joining' = FALSE /\ ap' = "NONE"
  /\ events' = Append(events, "DISCONNECTED")
  /\ UNCHANGED <<step, reconnect_scanner, bits, clock, result, config, dhcp, gateway, late>>

GetAddress ==
  /\ dhcp /\ ap # "NONE"
  /\ dhcp' = FALSE /\ gateway' = ap
  /\ events' = Append(events, "GOT_IP")
  /\ UNCHANGED <<step, reconnect_scanner, bits, clock, result, drops, config, ap, joining, late>>

\* Defect: no new attempt after a loss.
NoReconnect ==
  /\ events # <<>>
  /\ events' = Tail(events)
  /\ bits' = CASE Head(events) = "DISCONNECTED" -> {"DISCONNECTED"}
               [] Head(events) = "GOT_IP" -> {"CONNECTED"}
               [] OTHER -> bits
  /\ dhcp' = IF Head(events) = "JOINED" THEN TRUE ELSE dhcp /\ Head(events) # "DISCONNECTED"
  /\ gateway' = IF Head(events) = "DISCONNECTED" THEN "NONE" ELSE gateway
  /\ UNCHANGED <<step, reconnect_scanner, clock, result, drops, config, ap, joining, late>>

\* The interface's own handlers, then wifi_event_handler.
DeliverEvent ==
  /\ events # <<>>
  /\ events' = Tail(events)
  /\ \/ /\ Head(events) = "JOINED"
        /\ dhcp' = TRUE
        /\ UNCHANGED <<bits, gateway, joining>>
     \/ /\ Head(events) = "DISCONNECTED"
        /\ dhcp' = FALSE /\ gateway' = "NONE"
        /\ bits' = {"DISCONNECTED"}
        /\ IF reconnect_scanner THEN DriverConnects ELSE UNCHANGED joining
     \/ /\ Head(events) = "GOT_IP"
        /\ bits' = {"CONNECTED"}
        /\ UNCHANGED <<dhcp, gateway, joining>>
  /\ UNCHANGED <<step, reconnect_scanner, clock, result, drops, config, ap, late>>

-----------------------------------------------------------------------------
(* The clock's state, and the steps of scanner_wifi_start and              *)
(* synchronize_clock in the application task.                              *)

\* A failure leaves a clock that was set valid.
RecordSyncFailure(error) == clock' = [clock EXCEPT !.error = error]
RecordNtpSuccess == clock' = [clock EXCEPT !.valid = TRUE, !.error = "NONE"]

StationConfig(network) == config' = network
ConnectedToScanner == ap = "SCANNER"

\* nvs_flash_init, the interface or the event group may fail: no Wi-Fi. The
\* build may configure no network at all, or only the scanner's.
Begin ==
  /\ step = "NVS"
  /\ \/ step' = "HOME" /\ UNCHANGED clock
     \/ step' = "OFF" /\ UNCHANGED clock
     \/ step' \in {"CONFIGURE", "OFF"} /\ RecordSyncFailure("NOT_CONFIGURED")
  /\ UNCHANGED <<reconnect_scanner, bits, result, drops, wifi, late>>

JoinHome ==
  /\ step = "HOME"
  /\ StationConfig("HOME")
  /\ DriverConnects
  /\ step' = "HOME_WAIT"
  /\ UNCHANGED <<reconnect_scanner, bits, clock, result, drops, ap, dhcp, gateway, events, late>>

HomeWait ==
  /\ step = "HOME_WAIT"
  /\ \/ "CONNECTED" \in bits /\ step' = "SNTP" /\ UNCHANGED clock
     \/ /\ "CONNECTED" \notin bits   \* 12 s have passed
        /\ step' = "CLEAR"
        /\ RecordSyncFailure("HOME_AP_TIMEOUT")
  /\ UNCHANGED <<reconnect_scanner, bits, result, drops, wifi, late>>

SynchronizeClock ==
  /\ step = "SNTP"
  /\ \/ RecordNtpSuccess
     \/ \E error \in {"SNTP_INIT", "SNTP_TIMEOUT", "INVALID_TIME"} : RecordSyncFailure(error)
  /\ step' = "CLEAR"
  /\ UNCHANGED <<reconnect_scanner, bits, result, drops, wifi, late>>

ClearBits ==
  /\ step = "CLEAR"
  /\ bits' = {}
  /\ step' = "LEAVE"
  /\ UNCHANGED <<reconnect_scanner, clock, result, drops, wifi, late>>

LeaveHome ==
  /\ step = "LEAVE"
  /\ events' = IF joining \/ ap # "NONE" THEN Append(events, "DISCONNECTED") ELSE events
  /\ joining' = FALSE /\ ap' = "NONE"
  /\ step' = "LEAVE_WAIT"
  /\ UNCHANGED <<reconnect_scanner, bits, clock, result, drops, config, dhcp, gateway, late>>

\* Defect: the end of the home network is not waited for.
LeaveUnwaited ==
  /\ step = "LEAVE_WAIT"
  /\ bits' = {}
  /\ step' = "CONFIGURE"
  /\ UNCHANGED <<reconnect_scanner, clock, result, drops, wifi, late>>

\* The bit, or one second without it.
LeaveWait ==
  /\ step = "LEAVE_WAIT"
  /\ late' = ("DISCONNECTED" \notin bits /\ Contains(events, "DISCONNECTED"))
  /\ bits' = {}
  /\ step' = "CONFIGURE"
  /\ UNCHANGED <<reconnect_scanner, clock, result, drops, wifi>>

ConfigureScanner ==
  /\ step = "CONFIGURE"
  /\ StationConfig("SCANNER")
  /\ reconnect_scanner' = TRUE
  /\ step' = "CONNECT"
  /\ UNCHANGED <<bits, clock, result, drops, ap, joining, dhcp, gateway, events, late>>

ConnectScanner ==
  /\ step = "CONNECT"
  /\ DriverConnects
  /\ step' = "SCANNER_WAIT"
  /\ UNCHANGED <<reconnect_scanner, bits, clock, result, drops, config, ap, dhcp, gateway, events, late>>

NotConnected == [connected |-> FALSE, gateway |-> "NONE"]

\* The end of scanner_wifi_start: connected even without a gateway's address.
FirstResult ==
  IF "CONNECTED" \in bits /\ ConnectedToScanner
  THEN [connected |-> TRUE, gateway |-> gateway] ELSE NotConnected

\* scanner_wifi_current
Result ==
  IF "CONNECTED" \in bits /\ ConnectedToScanner /\ gateway # "NONE"
  THEN [connected |-> TRUE, gateway |-> gateway] ELSE NotConnected

\* The bit, or 30 s without it.
ScannerWait ==
  /\ step = "SCANNER_WAIT"
  /\ result' = FirstResult
  /\ step' = "RUN"
  /\ UNCHANGED <<reconnect_scanner, bits, clock, drops, wifi, late>>

Current ==
  /\ step = "RUN"
  /\ result' = Result
  /\ UNCHANGED <<step, reconnect_scanner, bits, clock, drops, wifi, late>>

App ==
  \/ Begin \/ JoinHome \/ HomeWait \/ SynchronizeClock \/ ClearBits
  \/ LeaveHome \/ LeaveWait \/ ConfigureScanner \/ ConnectScanner \/ ScannerWait

WifiNext == App \/ Current \/ Join \/ Drop \/ GetAddress \/ DeliverEvent

\* Waits have timeouts and the main loop polls; the event loop delivers; an
\* access point that is there is joined and gives an address.
WifiSpec ==
  /\ WifiInit /\ [][WifiNext]_wifiVars
  /\ WF_wifiVars(App) /\ WF_wifiVars(Current)
  /\ WF_wifiVars(DeliverEvent) /\ WF_wifiVars(Join) /\ WF_wifiVars(GetAddress)

-----------------------------------------------------------------------------
(* A scanner connection is opened only to the scanner's own gateway, never *)
(* to the home router whose address the interface had before, as long as   *)
(* the end of the home network was noticed within its second               *)
(* (scanner_wifi.c:104-108, 162-176, 223-240).                             *)
GatewayIsScanners == result.connected /\ ~late => result.gateway = "SCANNER"

(* Once the clock has been tried, either it is valid or the reason is      *)
(* kept, and joining the scanner afterwards does not lose either           *)
(* (README.md:57, scanner_clock_model.c).                                  *)
ClockOrReason ==
  step \in {"CONFIGURE", "CONNECT", "SCANNER_WAIT", "RUN"} =>
    clock.valid <=> clock.error = "NONE"

(* The application's home network attempt is over before it configures the *)
(* scanner: no rejoin can go home, whatever events are still to come.      *)
HomeIsLeft == reconnect_scanner => config = "SCANNER" /\ ap # "HOME"

(* When the scanner's network stays available the gateway is finally       *)
(* connected to it and stays so, however its attempts, the losses and the  *)
(* late events of the home network were ordered, and although the          *)
(* application tries only once (scanner_wifi.c:66-70, 230-236).            *)
ScannerIsReached ==
  <>(step = "OFF") \/ <>[](result = [connected |-> TRUE, gateway |-> "SCANNER"])

(* What holds whatever the driver delivers when: the parts above.          *)
WifiInv == WifiTypeOK /\ GatewayIsScanners /\ ClockOrReason /\ HomeIsLeft
==============================================================================
