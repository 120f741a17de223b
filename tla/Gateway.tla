------------------------------ MODULE Gateway -------------------------------
(***************************************************************************)
(* The application task of the gateway: app_main of main/main.c, with the  *)
(* state model it keeps (gateway_state_model.c) and the feeder trigger     *)
(* (page_trigger.h), over the storage service and the BOOT button.         *)
(*                                                                         *)
(* Agents: the application task, one step of its loop at a time; the       *)
(* storage service, whose calls end in any of their outcomes; the host,    *)
(* that ejects and fails on its own; the button task, that queues events   *)
(* at any moment. A call's return is a step of its own, and so is what the *)
(* application does between two visits of the event queue.                 *)
(***************************************************************************)
EXTENDS StorageService, ButtonGesture

VARIABLES
  pc,
  phase,       \* gateway.phase
  uncertain,   \* gateway.storage_uncertain
  alert,       \* gateway.last_result is present and not acknowledged
  busy,        \* control_busy
  event,       \* service_button: the event in hand, and whether the gateway
  could,       \*   was idle and awake when it was taken
  back,        \* what follows service_button, or restore_storage
  armed, loaded,  \* page_trigger_t
  paper,       \* esci_status_t: the reading the loop is about to act on
  complete,    \* capture.scan.complete
  \* history
  failed_sheet,  \* a capture failed and no empty feeder was read since
  streak         \* consecutive LOADED readings, up to two

trigger == <<armed, loaded>>
shown   == <<phase, uncertain>>
visible == <<busy, context>>
sheets  == <<failed_sheet, streak>>
pressed == <<seen, gesture>>
vars == <<service, button, pc, shown, alert, busy, event, could, back, trigger,
          paper, complete, sheets>>

Phases == {"STARTING", "READY", "ACQUIRING", "CAPTURING", "FINALIZING",
           "RESTORING", "MAINTENANCE", "TIME_SYNC", "STOPPED"}
Papers == {"EMPTY", "LOADED", "UNKNOWN"}
Steps  == {"start", "starting", "sync", "first_expose", "buttons", "handle",
           "enter", "resume", "selecting", "probe", "gate_buttons", "gate",
           "acquire", "acquiring", "capture", "hand_back", "exposing",
           "restore", "restoring"}

GatewayTypeOK ==
  /\ pc \in Steps /\ phase \in Phases
  /\ uncertain \in BOOLEAN /\ busy \in BOOLEAN
  /\ alert \in BOOLEAN
  /\ event \in ButtonEvents \cup {"none"} /\ could \in BOOLEAN
  /\ back \in {"buttons", "gate_buttons", "failed", "finish"}
  /\ armed \in BOOLEAN /\ loaded \in {0, 1}
  /\ paper \in Papers /\ complete \in BOOLEAN
  /\ failed_sheet \in BOOLEAN /\ streak \in 0 .. 2

TypeOK == ServiceTypeOK /\ GestureTypeOK /\ GatewayTypeOK

Init ==
  /\ ServiceInit /\ GestureInit
  /\ pc = "start" /\ phase = "STARTING" /\ uncertain = FALSE
  /\ alert = FALSE /\ busy = TRUE
  /\ event = "none" /\ could = FALSE
  /\ back = "buttons" /\ armed = TRUE /\ loaded = 0
  /\ paper = "UNKNOWN" /\ complete = FALSE
  /\ failed_sheet = FALSE /\ streak = 0

-----------------------------------------------------------------------------
(* gateway_state_model.c, page_trigger.h and the context the button sees.  *)

\* gateway_state_stop, if it is called, then gateway_state_set_phase.
Show(stopped, p) ==
  /\ uncertain' = (uncertain \/ stopped)
  /\ phase' = IF uncertain' THEN "STOPPED" ELSE p

Stop == Show(TRUE, "STOPPED")

ButtonIdle(b, p) == ~b /\ p \in {"READY", "MAINTENANCE", "STOPPED"}

\* A step that renders may find the visuals awake or not (VisualIdle), and
\* publishes what it found. Outside a transition the published value is
\* visuals_awake().
Awake == context[1]

Render(b) ==
  /\ busy' = b
  /\ \E awake \in BOOLEAN : context' = <<awake, ButtonIdle(b, phase')>>
  /\ UNCHANGED pressed

\* page_trigger_poll: an empty feeder arms, a loaded one counts if armed.
Armed == armed \/ paper = "EMPTY"
Counts(reading) == reading = "LOADED" /\ Armed

\* Mutation: a failed capture leaves the trigger armed.
FinishedArmed(success) == armed' = TRUE /\ loaded' = 0

\* page_trigger_finished.
Finished(success) == armed' = success /\ loaded' = 0

-----------------------------------------------------------------------------
(* show_storage_mode. Recovery, a lost transport and uncertainty stop the  *)
(* gateway for good; otherwise the phase p is shown, or MAINTENANCE.       *)

ModeStops == ~TransportReady \/ card[2] = "RECOVERY_RO"

ShowMode(stopped, p) ==
  /\ uncertain' = (uncertain \/ stopped \/ ModeStops)
  /\ phase' = IF uncertain' THEN "STOPPED"
              ELSE IF card[2] = "MAINTENANCE_RW" THEN "MAINTENANCE" ELSE p

Blocked == uncertain' \/ card[2] = "MAINTENANCE_RW"

-----------------------------------------------------------------------------
(* Start-up.                                                               *)

Returned == call = "none"
CallFailed(owner) == card[1] # owner

\* A call that is refused returns an error at once.
Call(c) == IF Accepts(c) THEN Begin(c) ELSE UNCHANGED service

Start ==
  /\ pc = "start"
  /\ \/ Call("start") /\ pc' = "starting" /\ UNCHANGED <<shown, visible>>
        /\ UNCHANGED pressed
     \/ UNCHANGED service /\ pc' = "sync" /\ Show(TRUE, "TIME_SYNC")
        /\ Render(TRUE)
  /\ UNCHANGED <<events, alert, event, could, back, trigger, paper,
                 complete, sheets>>

Started ==
  /\ pc = "starting" /\ Returned
  /\ pc' = "sync"
  /\ Show(CallFailed("APP"), "TIME_SYNC")
  /\ Render(TRUE)
  /\ UNCHANGED <<service, events, alert, event, could, back, trigger, paper,
                 complete, sheets>>

\* The clock and the Wi-Fi connection have had their bounded attempts.
FirstExpose ==
  /\ pc = "sync" /\ ~uncertain
  /\ pc' = "first_expose"
  /\ Show(FALSE, "RESTORING") /\ Call("expose") /\ Render(TRUE)
  /\ UNCHANGED <<events, alert, event, could, back, trigger, paper, complete,
                 sheets>>

EnterLoop ==
  /\ \/ pc = "sync" /\ uncertain
     \/ pc = "first_expose" /\ Returned
  /\ pc' = "buttons"
  /\ ShowMode(CallFailed("USB"), "READY") /\ Render(FALSE)
  /\ UNCHANGED <<service, events, alert, event, could, back, trigger, paper,
                 complete, sheets>>

-----------------------------------------------------------------------------
(* service_button, called twice in every turn of the loop.                 *)

\* The condition an event is judged by, taken before it is shown.
Acts == ButtonIdle(busy, phase) /\ Awake

TakeEvent ==
  /\ pc \in {"buttons", "gate_buttons"} /\ events # <<>>
  /\ event' = Head(events) /\ events' = Tail(events)
  /\ could' = Acts
  /\ back' = pc /\ pc' = "handle"
  /\ UNCHANGED shown /\ Render(TRUE)
  /\ UNCHANGED <<service, alert, trigger, paper, complete, sheets>>

unchangedInHandling == <<events, trigger, paper, complete, sheets>>

\* The event in hand goes out of scope when control returns.
Done ==
  /\ pc' = back /\ Render(FALSE)
  /\ event' = "none" /\ could' = FALSE /\ back' = "buttons"

held == <<event, could, back>>

Acknowledge ==
  /\ pc = "handle" /\ event = "ACK" /\ could
  /\ alert' = FALSE
  /\ UNCHANGED shown /\ Done
  /\ UNCHANGED <<service, unchangedInHandling>>

Selects == event = "HOLD" /\ could /\ ~uncertain /\ TransportReady

SelectMode ==
  /\ pc = "handle" /\ Selects
  /\ \/ CaptureAllowed /\ pc' = "enter"
     \/ card[2] = "MAINTENANCE_RW" /\ released /\ pc' = "resume"
  /\ UNCHANGED <<service, button, shown, busy, alert, event, could,
                 back, trigger, paper, complete, sheets>>

\* A hold before the host has ejected, or none of this.
NothingToSelect ==
  /\ pc = "handle"
  /\ \/ /\ Selects /\ ~CaptureAllowed
        /\ ~(card[2] = "MAINTENANCE_RW" /\ released)
        /\ ShowMode(FALSE, phase)
     \/ ~Selects /\ ~(event = "ACK" /\ could) /\ UNCHANGED shown
  /\ Done
  /\ UNCHANGED <<service, alert, unchangedInHandling>>

\* The release may have been revoked, or an I/O error be latched: refused.
Select ==
  /\ pc \in {"enter", "resume"}
  /\ Call(pc)
  /\ IF Accepts(pc)
     THEN pc' = "selecting" /\ UNCHANGED <<shown, visible, pressed>>
     ELSE pc' = "restore" /\ Stop /\ Render(TRUE)
  /\ UNCHANGED <<alert, held, unchangedInHandling>>

Selected ==
  /\ pc = "selecting" /\ Returned
  /\ IF CallFailed("USB")
     THEN pc' = "restore" /\ Stop /\ Render(TRUE) /\ UNCHANGED held
     ELSE ShowMode(FALSE, "READY") /\ Done
  /\ UNCHANGED <<service, alert, unchangedInHandling>>

-----------------------------------------------------------------------------
(* restore_storage, after stop_storage; then on to where it was called.    *)

\* Mutation: the hand-over that failed is tried once more instead.
RecoveryRetries == "expose"

Recovery == "restore"

Restore ==
  /\ pc = "restore"
  /\ pc' = "restoring"
  /\ Call(Recovery) /\ UNCHANGED shown /\ Render(busy)
  /\ UNCHANGED <<alert, held, unchangedInHandling>>

Restored ==
  /\ pc = "restoring" /\ Returned
  /\ ShowMode(CallFailed("USB"), phase)
  /\ IF back \in {"failed", "finish"}
     THEN /\ pc' = "buttons" /\ Render(FALSE) /\ back' = "buttons"
          /\ Finished(back = "finish" /\ complete) /\ complete' = FALSE
          /\ UNCHANGED <<event, could>>
     ELSE Done /\ UNCHANGED <<trigger, complete>>
  /\ UNCHANGED <<service, events, alert, paper, sheets>>

-----------------------------------------------------------------------------
(* The loop: watch the storage mode, and the feeder every two seconds.     *)

unchangedInLoop == <<service, events, alert, event, could, back, complete>>

StorageBlocks ==
  /\ pc \in {"buttons", "gate"}
  /\ pc = "buttons" => events = <<>>
  /\ ShowMode(FALSE, phase) /\ Blocked
  /\ loaded' = 0 /\ pc' = "buttons" /\ paper' = "UNKNOWN" /\ Render(FALSE)
  /\ UNCHANGED <<unchangedInLoop, armed, sheets>>

StatusNotDue ==
  /\ pc = "buttons" /\ events = <<>>
  /\ ShowMode(FALSE, phase) /\ ~Blocked
  /\ UNCHANGED pc /\ Render(FALSE)
  /\ UNCHANGED <<unchangedInLoop, trigger, paper, sheets>>

StatusDue ==
  /\ pc = "buttons" /\ events = <<>>
  /\ ShowMode(FALSE, phase) /\ ~Blocked
  /\ pc' = "probe" /\ Render(FALSE)
  /\ UNCHANGED <<unchangedInLoop, trigger, paper, sheets>>

\* scanner_status takes seconds; an absent scanner reads UNKNOWN.
Probe ==
  /\ pc = "probe"
  /\ paper' \in Papers
  /\ failed_sheet' = (failed_sheet /\ paper' # "EMPTY")
  /\ streak' = IF paper' # "LOADED" THEN 0 ELSE IF streak < 2 THEN streak + 1
               ELSE 2
  /\ pc' = "gate_buttons"
  /\ UNCHANGED <<unchangedInLoop, shown, visible, pressed, trigger>>

ButtonsServed ==
  /\ pc = "gate_buttons" /\ events = <<>>
  /\ pc' = "gate"
  /\ UNCHANGED <<unchangedInLoop, shown, visible, pressed, trigger, paper,
                 sheets>>

NoPage ==
  /\ pc = "gate"
  /\ ShowMode(FALSE, phase) /\ ~Blocked
  /\ IF CaptureAllowed
     THEN /\ Counts(paper) => loaded = 0
          /\ armed' = Armed
          /\ loaded' = IF Counts(paper) THEN 1 ELSE 0
     ELSE UNCHANGED trigger
  /\ pc' = "buttons" /\ paper' = "UNKNOWN" /\ Render(FALSE)
  /\ UNCHANGED <<unchangedInLoop, sheets>>

\* Mutation: the counter never gets where it is compared.
ThirdReading == loaded = 2

SecondReading == loaded = 1

\* Mutation: what was checked before the probe still holds.
GateAlwaysOpen == TRUE

\* show_storage_mode and capture_allowed, asked again after the probe.
GateOpen ==
  ~(uncertain \/ ModeStops \/ card[2] = "MAINTENANCE_RW") /\ CaptureAllowed

Page ==
  /\ pc = "gate"
  /\ GateOpen /\ Counts(paper) /\ SecondReading
  /\ armed' = FALSE /\ loaded' = 0
  /\ pc' = "acquire" /\ paper' = "UNKNOWN"
  /\ Show(FALSE, "ACQUIRING") /\ Render(TRUE)
  /\ UNCHANGED <<unchangedInLoop, sheets>>

-----------------------------------------------------------------------------
(* One page: acquire the card, capture, give the card back.                *)

unchangedInPage == <<events, event, could, paper>>

Acquire ==
  /\ pc = "acquire"
  /\ Call("acquire") /\ pc' = "acquiring"
  /\ streak' = 0
  /\ UNCHANGED <<unchangedInPage, shown, visible, pressed, alert, back,
                 trigger, complete, failed_sheet>>

\* record_capture.
NewResult == alert' = TRUE

Acquired ==
  /\ pc = "acquiring" /\ Returned
  /\ IF CallFailed("APP")
     THEN /\ Stop /\ pc' = "restore" /\ back' = "failed"
          /\ NewResult /\ failed_sheet' = TRUE
     ELSE /\ Show(FALSE, "CAPTURING") /\ pc' = "capture"
          /\ UNCHANGED <<back, alert, failed_sheet>>
  /\ Render(TRUE)
  /\ UNCHANGED <<service, unchangedInPage, trigger, complete, streak>>

\* The callbacks of scanner_capture_observed.
CapturePhase ==
  /\ pc = "capture"
  /\ \E p \in {"CAPTURING", "FINALIZING"} : Show(FALSE, p)
  /\ UNCHANGED pc /\ Render(TRUE)
  /\ UNCHANGED <<service, unchangedInPage, alert, back, trigger, complete,
                 sheets>>

Captured ==
  /\ pc = "capture"
  /\ complete' \in BOOLEAN
  /\ failed_sheet' = ~complete'
  /\ NewResult
  /\ Show(FALSE, "RESTORING") /\ pc' = "hand_back" /\ Render(TRUE)
  /\ UNCHANGED <<service, unchangedInPage, back, trigger, streak>>

HandBack ==
  /\ pc = "hand_back"
  /\ Call("expose") /\ pc' = "exposing"
  /\ UNCHANGED <<unchangedInPage, shown, visible, pressed, alert, back,
                 trigger, complete, sheets>>

Exposed ==
  /\ pc = "exposing" /\ Returned
  /\ IF CallFailed("USB")
     THEN /\ Stop /\ pc' = "restore" /\ back' = "finish" /\ Render(TRUE)
          /\ UNCHANGED trigger
     ELSE /\ ShowMode(FALSE, "READY") /\ pc' = "buttons" /\ Render(FALSE)
          /\ Finished(complete) /\ UNCHANGED back
  /\ complete' = (complete /\ CallFailed("USB"))
  /\ UNCHANGED <<service, unchangedInPage, alert, sheets>>

-----------------------------------------------------------------------------
gateway == <<pc, shown, alert, busy, event, could, back, trigger,
             paper, complete, sheets>>

Application ==
  \/ Start \/ Started \/ FirstExpose \/ EnterLoop
  \/ TakeEvent \/ Acknowledge \/ SelectMode \/ NothingToSelect \/ Select
  \/ Selected \/ Restore \/ Restored
  \/ StorageBlocks \/ StatusNotDue \/ StatusDue \/ Probe \/ ButtonsServed
  \/ NoPage \/ Page \/ Acquire \/ Acquired \/ Captured \/ HandBack \/ Exposed

Storage == (Delegate \/ Return \/ HostNews) /\ UNCHANGED <<button, gateway>>
Button  == ButtonTask /\ UNCHANGED <<service, gateway>>

Next == Application \/ CapturePhase \/ Storage \/ Button

Spec == Init /\ [][Next]_vars

\* The application task is scheduled, a storage call returns (UsbStorage,
\* OperationsReturn) and two seconds pass sooner or later.
FairSpec ==
  /\ Spec
  /\ WF_vars(Application)
  /\ WF_vars(Return /\ UNCHANGED <<button, gateway>>)
  /\ SF_vars(StatusDue)

-----------------------------------------------------------------------------
InLoop == pc \in {"buttons", "probe", "gate_buttons", "gate"}

\* What the idle gateway shows is what the card is: READY means the host
\* reads and pages are taken, and no failed hand-over looks idle
\* (main.c 156-183, 279-284, 341-347).
ScreenTellsOwnership ==
  /\ uncertain <=> phase = "STOPPED"
  /\ InLoop => /\ phase \in {"READY", "MAINTENANCE", "STOPPED"}
               /\ phase = "READY" => CaptureAllowed
               /\ phase = "MAINTENANCE" => card = <<"USB", "MAINTENANCE_RW">>

\* Pages are captured only onto a card the application owns in automatic
\* mode, and neither the call that takes the card nor the one that gives it
\* back can be refused, however long before the decision was made
\* (main.c 301-313, 336).
PagesAreScannedOnOwnCard ==
  /\ pc = "acquire" => Accepts("acquire") /\ call = "none"
  /\ pc \in {"capture", "hand_back"} =>
       card = <<"APP", "AUTO_RO">> /\ call = "none" /\ ~uncertain
  /\ pc = "hand_back" => Accepts("expose")

\* A stopped gateway stays stopped: no phase change, acknowledgement or hold
\* brings it back, and the only call it still makes is the recovery
\* (main.c 148-149, gateway_state_model.h 31).
StoppedForGood ==
  [][uncertain => /\ uncertain' /\ phase' = "STOPPED"
                  /\ call = "none" /\ call' # "none" => call' = "restore"]_vars

\* One sheet gives one capture: it takes two loaded readings in a row, and a
\* sheet whose capture failed is not tried again before the feeder has been
\* read empty (page_trigger.h 3-14, main.c 293-308, 346).
SheetsAreTakenOnce ==
  [][call = "none" /\ call' = "acquire" => streak = 2 /\ ~failed_sheet]_vars

\* The application task comes back to its buttons whatever fails: a stopped
\* gateway stays responsive (2026-09-19-reliability.md 225, main.c 287-350).
LoopGoesOn == []<>(pc \in {"buttons", "gate_buttons"} /\ ~busy)

\* A hand-over that fails after start-up is followed by the recovery, to its
\* end (main.c 212, 319, 339).
FailureIsRecovered ==
  pc \in {"selecting", "acquiring", "exposing"} /\ card[1] = "ERROR"
    ~> card = <<"USB", "RECOVERY_RO">> \/ recovery_failed

\* A page that stays loaded in front of an idle gateway is scanned: neither
\* the trigger nor the gate can hold it back for ever (main.c 293-308).
PageIsNotForgotten ==
  ~<>[](/\ CaptureAllowed /\ ~uncertain /\ events = <<>>
        /\ streak = 2 /\ armed)

\* Whatever fails, the loop serves its buttons again and the recovery runs:
\* the two above as one.
LoopRecovers == LoopGoesOn /\ FailureIsRecovered

\* What holds in every state of the loop: the parts above.
GatewayInv == TypeOK /\ ScreenTellsOwnership /\ PagesAreScannedOnOwnCard
=============================================================================
