----------------------------- MODULE GatewayProofs -----------------------------
(***************************************************************************)
(* The application loop, for every length of its event queue and whatever  *)
(* the storage calls, the host, the feeder and the button do: what the     *)
(* screen says is what the card is, pages are scanned only onto a card the *)
(* application holds, a gateway once stopped stays stopped, and one sheet  *)
(* gives one capture. The invariant adds to these what the loop knows at   *)
(* each of its places, and that a call is under way only where the loop    *)
(* waits for it.                                                           *)
(***************************************************************************)
EXTENDS Gateway, TLAPS

\* Between two calls, and only then, the card has an owner.
Settled == call = "none" <=> card # Moving

\* The application holds the card in automatic mode only.
Own == card[1] = "APP" => card = <<"APP", "AUTO_RO">>

Waiting == {"starting", "first_expose", "selecting", "acquiring", "exposing"}
Mid     == call # "none" => pc \in Waiting \cup {"restoring"}

Doubt == uncertain <=> phase = "STOPPED"

\* Where the loop has no doubt about its storage, and where it has.
Sure ==
  /\ pc \in Waiting \cup {"start", "enter", "resume", "acquire", "capture", "hand_back"}
       => ~uncertain
  /\ pc \in {"restore", "restoring"} => uncertain

Handled == pc # "start" /\ ~uncertain => handle

\* What was checked before a call still holds when it is made.
Places ==
  /\ pc = "sync" /\ ~uncertain => card[1] = "APP"
  /\ pc \in {"enter", "acquire"} => CaptureAllowed
  /\ pc = "resume" => card = <<"USB", "MAINTENANCE_RW">>
  /\ pc \in {"capture", "hand_back"} => card[1] = "APP"

\* The phase and the card of an idle gateway.
Agree ==
  \/ uncertain
  \/ phase = "READY" /\ card = <<"USB", "AUTO_RO">>
  \/ phase = "MAINTENANCE" /\ card = <<"USB", "MAINTENANCE_RW">>

LoopShows == InLoop \/ pc = "handle" => Agree

\* Where an event in hand is gone back from.
Backs == pc \in {"handle", "enter", "resume", "selecting"}
           => back \in {"buttons", "gate_buttons"}

ServiceInv == ServiceTypeOK /\ Settled /\ Own
LoopInv    == /\ GatewayTypeOK
              /\ Mid /\ Doubt /\ Sure /\ Handled /\ Places /\ LoopShows /\ Backs
IInv       == ServiceInv /\ GestureTypeOK /\ LoopInv

-----------------------------------------------------------------------------
(* The storage service.                                                    *)

LEMMA AcceptsValues ==
  /\ Accepts("start") <=> ~handle
  /\ Accepts("expose") <=> handle /\ card[1] = "APP"
  /\ Accepts("acquire") <=> CaptureAllowed
  /\ Accepts("restore") <=> handle /\ card[1] = "ERROR" /\ ~recovery_failed
  /\ Accepts("enter") <=> CaptureAllowed /\ ~io_error
  /\ Accepts("resume") <=> card = <<"USB", "MAINTENANCE_RW">> /\ released
BY SMT DEF Accepts

(* However a call ends, the card has an owner, and the application only in *)
(* automatic mode.                                                         *)
LEMMA OutcomeValues ==
  ASSUME NEW c \in ServiceCalls, NEW o \in Outcomes(c)
  PROVE  /\ o \in ServiceOwners \X ServiceModes
         /\ o # Moving
         /\ o[1] = "APP" => o = <<"APP", "AUTO_RO">>
BY SMT DEF Outcomes, ServiceCalls, ServiceOwners, ServiceModes, Moving

LEMMA ServiceStep ==
  ASSUME ServiceInv,
         \/ \E c \in ServiceCalls : Begin(c)
         \/ Delegate
         \/ Return
         \/ HostNews
         \/ UNCHANGED service
  PROVE  ServiceInv'
<1> USE DEF ServiceInv
<1>1. ASSUME NEW c \in ServiceCalls, Begin(c) PROVE ServiceInv'
  <2>1. ServiceTypeOK'
    BY <1>1 DEF Begin, ServiceTypeOK, ServiceCalls
  <2>2. Settled' /\ Own'
    BY <1>1 DEF Begin, Settled, Own, Moving, ServiceCalls
  <2> QED
    BY <2>1, <2>2
<1>2. CASE Delegate
  BY <1>2 DEF Delegate, ServiceTypeOK, Settled, Own, ServiceCalls
<1>3. CASE Return
  <2>1. call \in ServiceCalls /\ card' \in Outcomes(call) /\ call' = "none"
    BY <1>3 DEF Return, ServiceTypeOK
  <2>2. /\ card' \in ServiceOwners \X ServiceModes /\ card' # Moving
        /\ card'[1] = "APP" => card' = <<"APP", "AUTO_RO">>
    BY <2>1, OutcomeValues
  <2>3. recovery_failed' \in BOOLEAN
    BY <1>3 DEF Return
  <2>4. ServiceTypeOK'
    BY <1>3, <2>1, <2>2, <2>3 DEF Return, ServiceTypeOK
  <2> QED
    BY <2>1, <2>2, <2>4 DEF Settled, Own
<1>4. CASE HostNews
  BY <1>4 DEF HostNews, ServiceTypeOK, Settled, Own
<1>5. CASE UNCHANGED service
  BY <1>5 DEF service, ServiceTypeOK, Settled, Own
<1> QED
  BY <1>1, <1>2, <1>3, <1>4, <1>5

(* What a call leaves behind, refused or not.                              *)
LEMMA CallEffect ==
  ASSUME NEW c \in ServiceCalls, Call(c), ServiceInv
  PROVE  /\ ServiceInv'
         /\ ~Accepts(c) => UNCHANGED service
         /\ Accepts(c) => call' # "none" /\ handle'
         /\ handle => handle'
<1>1. Accepts(c) => Begin(c)
  BY DEF Call
<1>2. ~Accepts(c) => UNCHANGED service
  BY DEF Call
<1>3. ServiceInv'
  BY <1>1, <1>2, ServiceStep
<1> QED
  BY <1>1, <1>2, <1>3 DEF Begin, ServiceCalls, service

-----------------------------------------------------------------------------
(* The button and what is shown.                                           *)

LEMMA SendType ==
  ASSUME NEW e \in ButtonEvents, GestureTypeOK, Send(e)
  PROVE  events' \in Seq(ButtonEvents) /\ Len(events') <= QueueLength
BY QueueLengthAssumption DEF Send, GestureTypeOK

LEMMA GestureStep ==
  ASSUME GestureTypeOK,
         \/ ButtonTask
         \/ /\ UNCHANGED pressed
            /\ context' \in Contexts
            /\ UNCHANGED events \/ (events # <<>> /\ events' = Tail(events))
         \/ UNCHANGED button
  PROVE  GestureTypeOK'
<1>1. CASE Look
  BY <1>1 DEF Look, GestureTypeOK
<1>2. CASE Act
  <2>1. events' \in Seq(ButtonEvents) /\ Len(events') <= QueueLength
    BY <1>2, SendType DEF Act, Touch, Spoil, Wake, Hold, LetGo, Nothing, GestureTypeOK,
                          ButtonEvents
  <2>2. gesture' \in Gestures
    BY <1>2 DEF Act, Touch, Spoil, Wake, Hold, LetGo, Nothing, GestureTypeOK, Gestures
  <2> QED
    BY <1>2, <2>1, <2>2 DEF Act, GestureTypeOK
<1>3. CASE /\ UNCHANGED pressed
           /\ context' \in Contexts
           /\ UNCHANGED events \/ (events # <<>> /\ events' = Tail(events))
  <2>1. events' \in Seq(ButtonEvents) /\ Len(events') <= QueueLength
    BY <1>3, QueueLengthAssumption DEF GestureTypeOK
  <2> QED
    BY <1>3, <2>1 DEF pressed, GestureTypeOK
<1>4. CASE UNCHANGED button
  BY <1>4 DEF button, GestureTypeOK
<1> QED
  BY <1>1, <1>2, <1>3, <1>4 DEF ButtonTask

LEMMA RenderEffect ==
  ASSUME NEW b \in BOOLEAN, Render(b)
  PROVE  busy' \in BOOLEAN /\ context' \in Contexts /\ UNCHANGED pressed
<1>1. ButtonIdle(b, phase') \in BOOLEAN
  BY DEF ButtonIdle
<1> QED
  BY <1>1 DEF Render, Contexts

\* What a change of the phase keeps.
ShownOK == phase' \in Phases /\ uncertain' \in BOOLEAN /\ Doubt'

LEMMA ShowEffect ==
  ASSUME NEW stopped \in BOOLEAN, NEW p \in Phases, Show(stopped, p),
         uncertain \in BOOLEAN, p = "STOPPED" => uncertain \/ stopped
  PROVE  /\ ShownOK
         /\ uncertain' <=> uncertain \/ stopped
         /\ ~uncertain' => phase' = p
<1>1. uncertain' = (uncertain \/ stopped)
  BY DEF Show
<1>2. uncertain' \in BOOLEAN
  BY <1>1
<1>3. phase' = IF uncertain' THEN "STOPPED" ELSE p
  BY DEF Show
<1>4. phase' \in Phases /\ Doubt'
  BY <1>1, <1>2, <1>3 DEF Phases, Doubt
<1> QED
  BY <1>1, <1>2, <1>3, <1>4 DEF ShownOK

(* show_storage_mode with no call under way: without doubt the phase tells *)
(* what the card is (main.c:156-183).                                      *)
LEMMA ShowModeEffect ==
  ASSUME NEW stopped \in BOOLEAN, NEW p \in Phases, ShowMode(stopped, p),
         ServiceInv, call = "none", UNCHANGED card,
         uncertain \in BOOLEAN, p = "STOPPED" => uncertain \/ stopped
  PROVE  /\ ShownOK
         /\ uncertain \/ stopped => uncertain'
         /\ p = "READY" => Agree'
         /\ ~uncertain' => card[1] = "USB" /\ (phase' = p \/ phase' = "MAINTENANCE")
         /\ ~uncertain' /\ card[2] # "MAINTENANCE_RW" => card = <<"USB", "AUTO_RO">> /\ phase' = p
         /\ ~uncertain' /\ card[2] = "MAINTENANCE_RW"
              => card = <<"USB", "MAINTENANCE_RW">> /\ phase' = "MAINTENANCE"
<1>1. uncertain' = (uncertain \/ stopped \/ ModeStops)
  BY DEF ShowMode
<1>2. uncertain' \in BOOLEAN
  BY <1>1 DEF ModeStops
<1>3. phase' = IF uncertain' THEN "STOPPED"
               ELSE IF card[2] = "MAINTENANCE_RW" THEN "MAINTENANCE" ELSE p
  BY DEF ShowMode
<1>4. phase' \in Phases /\ Doubt'
  BY <1>1, <1>2, <1>3 DEF Phases, Doubt
<1>5. card \in ServiceOwners \X ServiceModes
  BY DEF ServiceInv, ServiceTypeOK, Settled
<1>6. ~uncertain' => card[1] = "USB" /\ card[2] # "RECOVERY_RO"
  BY <1>1 DEF ModeStops, TransportReady
<1>7. ~uncertain' => \/ card = <<"USB", "AUTO_RO">> /\ phase' = p
                     \/ card = <<"USB", "MAINTENANCE_RW">> /\ phase' = "MAINTENANCE"
  BY <1>3, <1>5, <1>6 DEF ServiceOwners, ServiceModes
<1> QED
  BY <1>1, <1>2, <1>3, <1>4, <1>6, <1>7 DEF ShownOK, Agree

-----------------------------------------------------------------------------
(* The steps of the loop that change no call: what is left to show is the  *)
(* control part of the invariant.                                          *)

\* The part of LoopInv beyond what Show and ShowMode keep.
Flow == /\ pc \in Steps /\ busy \in BOOLEAN /\ alert \in BOOLEAN
        /\ event \in ButtonEvents \cup {"none"} /\ could \in BOOLEAN
        /\ back \in {"buttons", "gate_buttons", "failed", "finish"}
        /\ armed \in BOOLEAN /\ loaded \in {0, 1}
        /\ paper \in Papers /\ complete \in BOOLEAN
        /\ failed_sheet \in BOOLEAN /\ streak \in 0 .. 2
        /\ Mid /\ Sure /\ Handled /\ Places /\ LoopShows /\ Backs

ShownNow == phase \in Phases /\ uncertain \in BOOLEAN /\ Doubt

LEMMA Parts == LoopInv <=> Flow /\ ShownNow
BY DEF LoopInv, Flow, ShownNow, GatewayTypeOK

LEMMA Joined == Flow' /\ ShownNow' => LoopInv'
BY DEF LoopInv, Flow, ShownNow, GatewayTypeOK


LEMMA StartStep == ASSUME IInv, Start PROVE IInv'
<1> USE DEF IInv
<1>0. Flow /\ ShownNow /\ pc = "start" /\ call = "none"
  BY Parts DEF Start, Flow, Mid, Waiting
<1>1. CASE Call("start") /\ pc' = "starting" /\ UNCHANGED <<shown, visible>> /\ UNCHANGED pressed
  <2>1. ServiceInv' /\ (handle => handle')
    BY <1>1, CallEffect DEF ServiceCalls
  <2>2. GestureTypeOK'
    BY <1>1, GestureStep DEF Start, button, pressed, visible
  <2>3. handle'
    BY <1>1, <2>1, CallEffect, AcceptsValues DEF ServiceCalls, ServiceInv, ServiceTypeOK
  <2>4. ShownNow'
    BY <1>0, <1>1 DEF shown, ShownNow, Doubt
  <2>5. Flow'
    BY <1>0, <1>1, <2>3 DEF Start, Flow, Steps, Mid, Sure, Handled, Places, Backs, LoopShows,
       InLoop, Waiting, trigger, sheets, shown, visible
  <2> QED
    BY <2>1, <2>2, <2>4, <2>5, Joined
<1>2. CASE UNCHANGED service /\ pc' = "sync" /\ Show(TRUE, "TIME_SYNC") /\ Render(TRUE)
  <2>1. ServiceInv'
    BY <1>2, ServiceStep
  <2>2. busy' \in BOOLEAN /\ GestureTypeOK'
    BY <1>2, RenderEffect, GestureStep DEF Start
  <2>3. ShownNow' /\ uncertain'
    BY <1>0, <1>2, ShowEffect DEF Phases, ShownOK, ShownNow
  <2>4. Flow'
    BY <1>0, <1>2, <2>2, <2>3 DEF Start, Flow, Steps, Mid, Sure, Handled, Places, Backs, LoopShows,
       InLoop, Waiting, trigger, sheets, service
  <2> QED
    BY <2>1, <2>2, <2>3, <2>4, Joined
<1> QED
  BY <1>1, <1>2 DEF Start

LEMMA StartedStep == ASSUME IInv, Started PROVE IInv'
<1> USE DEF IInv
<1>0. Flow /\ ShownNow /\ pc = "starting" /\ call = "none" /\ UNCHANGED service
  BY Parts DEF Started, Returned
<1>1. ServiceInv'
  BY <1>0, ServiceStep
<1>2. busy' \in BOOLEAN /\ GestureTypeOK'
  BY RenderEffect, GestureStep DEF Started
<1>3. ShownNow' /\ (uncertain' <=> uncertain \/ card[1] # "APP")
  BY <1>0, ShowEffect DEF Started, CallFailed, Phases, ShownOK, ShownNow
<1>4. Flow'
  BY <1>0, <1>2, <1>3 DEF Started, Flow, Steps, Mid, Sure, Handled, Places, Backs, LoopShows,
     InLoop, Waiting, trigger, sheets, service
<1> QED
  BY <1>1, <1>2, <1>3, <1>4, Joined

LEMMA FirstExposeStep == ASSUME IInv, FirstExpose PROVE IInv'
<1> USE DEF IInv
<1>0. Flow /\ ShownNow /\ pc = "sync" /\ call = "none" /\ ~uncertain /\ handle
  BY Parts DEF FirstExpose, Flow, Mid, Waiting, Handled
<1>1. ServiceInv' /\ handle'
  BY <1>0, CallEffect DEF FirstExpose, ServiceCalls
<1>2. busy' \in BOOLEAN /\ GestureTypeOK'
  BY RenderEffect, GestureStep DEF FirstExpose
<1>3. ShownNow' /\ ~uncertain'
  BY <1>0, ShowEffect DEF FirstExpose, Phases, ShownOK, ShownNow
<1>4. Flow'
  BY <1>0, <1>1, <1>2, <1>3 DEF FirstExpose, Flow, Steps, Mid, Sure, Handled, Places, Backs, LoopShows,
     InLoop, Waiting, trigger, sheets
<1> QED
  BY <1>1, <1>2, <1>3, <1>4, Joined

LEMMA EnterLoopStep == ASSUME IInv, EnterLoop PROVE IInv'
<1> USE DEF IInv
<1>0. Flow /\ ShownNow /\ pc \in {"sync", "first_expose"} /\ call = "none" /\ UNCHANGED service
  BY Parts DEF EnterLoop, Flow, Mid, Waiting, Returned
<1>1. ServiceInv'
  BY <1>0, ServiceStep
<1>2. busy' \in BOOLEAN /\ GestureTypeOK'
  BY RenderEffect, GestureStep DEF EnterLoop
<1>3. ShownNow' /\ Agree' /\ (uncertain => uncertain')
  BY <1>0, ShowModeEffect DEF EnterLoop, CallFailed, Phases, ShownOK, ShownNow, service
<1>4. Flow'
  BY <1>0, <1>2, <1>3 DEF EnterLoop, Flow, Steps, Mid, Sure, Handled, Places, Backs, LoopShows,
     InLoop, Waiting, trigger, sheets, service
<1> QED
  BY <1>1, <1>2, <1>3, <1>4, Joined

-----------------------------------------------------------------------------
(* The steps that serve the button.                                        *)

LEMMA AgreeKept == Agree /\ UNCHANGED <<shown, card>> => Agree'
BY DEF Agree, shown

LEMMA ShownKept == ShownNow /\ UNCHANGED shown => ShownNow'
BY DEF ShownNow, shown, Doubt

(* show_storage_mode on the phase that is shown.                           *)
LEMMA ShowPhaseEffect ==
  ASSUME ShowMode(FALSE, phase), ShownNow, ServiceInv, call = "none", UNCHANGED card
  PROVE  /\ ShownNow' /\ (uncertain => uncertain')
         /\ Agree => Agree'
<1>1. /\ ShownOK
      /\ uncertain => uncertain'
      /\ ~uncertain' /\ card[2] # "MAINTENANCE_RW" => card = <<"USB", "AUTO_RO">> /\ phase' = phase
      /\ ~uncertain' /\ card[2] = "MAINTENANCE_RW"
           => card = <<"USB", "MAINTENANCE_RW">> /\ phase' = "MAINTENANCE"
  BY ShowModeEffect DEF ShownNow, Doubt
<1>2. Agree => Agree'
  BY <1>1 DEF Agree
<1> QED
  BY <1>1, <1>2 DEF ShownOK, ShownNow

LEMMA DoneEffect ==
  ASSUME Done
  PROVE  /\ pc' = back /\ busy' \in BOOLEAN /\ could' \in BOOLEAN
         /\ event' = "none" /\ back' = "buttons"
         /\ context' \in Contexts /\ UNCHANGED pressed
<1>1. busy' \in BOOLEAN /\ context' \in Contexts /\ UNCHANGED pressed
  BY RenderEffect DEF Done
<1>2. could' \in BOOLEAN
  BY DEF Done
<1> QED
  BY <1>1, <1>2 DEF Done

LEMMA TakeEventStep == ASSUME IInv, TakeEvent PROVE IInv'
<1> USE DEF IInv
<1>0. /\ Flow /\ ShownNow /\ pc \in {"buttons", "gate_buttons"}
      /\ UNCHANGED <<service, shown>>
  BY Parts DEF TakeEvent
<1>1. ServiceInv' /\ call = "none" /\ UNCHANGED card
  BY <1>0, ServiceStep DEF Flow, Mid, Waiting, service
<1>2. busy' \in BOOLEAN /\ GestureTypeOK'
  BY RenderEffect, GestureStep DEF TakeEvent
<1>3. ShownNow' /\ Agree'
  BY <1>0, <1>1, ShownKept, AgreeKept DEF Flow, LoopShows, InLoop
<1>4. could' \in BOOLEAN
  BY DEF TakeEvent, Acts, ButtonIdle
<1>5. event' \in ButtonEvents
  BY DEF TakeEvent, GestureTypeOK
<1>6. Flow'
  BY <1>0, <1>1, <1>2, <1>3, <1>4, <1>5 DEF TakeEvent, Flow, Steps, Mid, Sure, Handled,
     Places, Backs, LoopShows, InLoop, Waiting, trigger, sheets, service, shown
<1> QED
  BY <1>1, <1>2, <1>3, <1>6, Joined

LEMMA AcknowledgeStep == ASSUME IInv, Acknowledge PROVE IInv'
<1> USE DEF IInv
<1>0. /\ Flow /\ ShownNow /\ pc = "handle"
      /\ UNCHANGED <<service, shown, events>> /\ Done
  BY Parts DEF Acknowledge, unchangedInHandling
<1>1. ServiceInv' /\ call = "none" /\ UNCHANGED <<card, call>>
  BY <1>0, ServiceStep DEF Flow, Mid, Waiting, service
<1>2. GestureTypeOK'
  BY <1>0, DoneEffect, GestureStep
<1>3. ShownNow' /\ Agree'
  BY <1>0, <1>1, ShownKept, AgreeKept DEF Flow, LoopShows, InLoop
<1>4. alert' \in BOOLEAN
  BY DEF Acknowledge
<1>5. pc' \in {"buttons", "gate_buttons"}
  BY <1>0, DoneEffect DEF Flow, Backs
<1>6. Flow'
  BY <1>0, <1>1, <1>3, <1>4, <1>5, DoneEffect DEF Acknowledge, Flow, Steps, Mid, Sure,
     Handled, Places, Backs, LoopShows, InLoop, Waiting, trigger, sheets, service, shown,
     unchangedInHandling
<1> QED
  BY <1>1, <1>2, <1>3, <1>6, Joined

LEMMA SelectModeStep == ASSUME IInv, SelectMode PROVE IInv'
<1> USE DEF IInv
<1>0. Flow /\ ShownNow /\ pc = "handle" /\ UNCHANGED <<service, shown, button>> /\ ~uncertain
  BY Parts DEF SelectMode, Selects
<1>1. ServiceInv' /\ call = "none" /\ UNCHANGED <<card, call>>
  BY <1>0, ServiceStep DEF Flow, Mid, Waiting, service
<1>2. GestureTypeOK' /\ ShownNow'
  BY <1>0, GestureStep, ShownKept
<1>3. \/ pc' = "enter" /\ CaptureAllowed'
      \/ pc' = "resume" /\ card' = <<"USB", "MAINTENANCE_RW">>
  BY <1>0, <1>1 DEF SelectMode, CaptureAllowed, Flow, LoopShows, Agree
<1>4. Flow'
  BY <1>0, <1>1, <1>3 DEF SelectMode, Flow, Steps, Mid, Sure, Handled, Places, Backs,
     LoopShows, InLoop, Waiting, trigger, sheets, service, shown
<1> QED
  BY <1>1, <1>2, <1>4, Joined

LEMMA NothingToSelectStep == ASSUME IInv, NothingToSelect PROVE IInv'
<1> USE DEF IInv
<1>0. /\ Flow /\ ShownNow /\ pc = "handle" /\ UNCHANGED <<service, events>> /\ Done
      /\ ShowMode(FALSE, phase) \/ UNCHANGED shown
  BY Parts DEF NothingToSelect, unchangedInHandling
<1>1. ServiceInv' /\ call = "none" /\ UNCHANGED <<card, call>>
  BY <1>0, ServiceStep DEF Flow, Mid, Waiting, service
<1>2. GestureTypeOK'
  BY <1>0, DoneEffect, GestureStep
<1>3. ShownNow' /\ Agree' /\ (uncertain => uncertain')
  <2>1. Agree
    BY <1>0 DEF Flow, LoopShows
  <2>2. CASE ShowMode(FALSE, phase)
    BY <1>0, <1>1, <2>1, <2>2, ShowPhaseEffect
  <2>3. CASE UNCHANGED shown
    BY <1>0, <1>1, <2>1, <2>3, ShownKept, AgreeKept DEF shown
  <2> QED
    BY <1>0, <2>2, <2>3
<1>5. pc' \in {"buttons", "gate_buttons"}
  BY <1>0, DoneEffect DEF Flow, Backs
<1>6. Flow'
  BY <1>0, <1>1, <1>3, <1>5, DoneEffect DEF NothingToSelect, Flow, Steps, Mid, Sure,
     Handled, Places, Backs, LoopShows, InLoop, Waiting, trigger, sheets, service,
     unchangedInHandling
<1> QED
  BY <1>1, <1>2, <1>3, <1>6, Joined

LEMMA SelectStep == ASSUME IInv, Select PROVE IInv'
<1> USE DEF IInv
<1>0. /\ Flow /\ ShownNow /\ pc \in {"enter", "resume"} /\ ~uncertain /\ Call(pc)
      /\ call = "none" /\ pc \in ServiceCalls
  BY Parts DEF Select, Flow, Sure, Mid, Waiting, ServiceCalls
<1>1. ServiceInv' /\ (handle => handle')
  BY <1>0, CallEffect
<1>2. CASE Accepts(pc)
  <2>1. pc' = "selecting" /\ UNCHANGED <<shown, visible, pressed, events>>
    BY <1>2 DEF Select, unchangedInHandling
  <2>2. GestureTypeOK' /\ ShownNow' /\ ~uncertain' /\ UNCHANGED busy
    BY <1>0, <2>1, GestureStep, ShownKept DEF button, visible, pressed, shown
  <2>3. Flow'
    BY <1>0, <1>1, <2>1, <2>2 DEF Select, Flow, Steps, Mid, Sure, Handled, Places, Backs,
       LoopShows, InLoop, Waiting, trigger, sheets, held, unchangedInHandling
  <2> QED
    BY <1>1, <2>2, <2>3, Joined
<1>3. CASE ~Accepts(pc)
  <2>1. pc' = "restore" /\ Stop /\ Render(TRUE) /\ UNCHANGED <<events, service>>
    BY <1>0, <1>1, <1>3, CallEffect DEF Select, unchangedInHandling
  <2>2. GestureTypeOK' /\ busy' \in BOOLEAN
    BY <2>1, RenderEffect, GestureStep
  <2>3. ShownNow' /\ uncertain'
    BY <1>0, <2>1, ShowEffect DEF Stop, Phases, ShownOK, ShownNow
  <2>4. Flow'
    BY <1>0, <1>1, <2>1, <2>2, <2>3 DEF Select, Flow, Steps, Mid, Sure, Handled, Places,
       Backs, LoopShows, InLoop, Waiting, trigger, sheets, held, unchangedInHandling, service
  <2> QED
    BY <1>1, <2>2, <2>3, <2>4, Joined
<1> QED
  BY <1>2, <1>3

LEMMA SelectedStep == ASSUME IInv, Selected PROVE IInv'
<1> USE DEF IInv
<1>0. Flow /\ ShownNow /\ pc = "selecting" /\ call = "none" /\ UNCHANGED <<service, events>>
  BY Parts DEF Selected, Returned, unchangedInHandling
<1>1. ServiceInv' /\ UNCHANGED <<card, call, handle>> /\ ~uncertain /\ handle
  BY <1>0, ServiceStep DEF Flow, Sure, Handled, Waiting, service
<1>2. CASE CallFailed("USB")
  <2>1. pc' = "restore" /\ Stop /\ Render(TRUE) /\ UNCHANGED held
    BY <1>2 DEF Selected
  <2>2. GestureTypeOK' /\ busy' \in BOOLEAN
    BY <1>0, <2>1, RenderEffect, GestureStep
  <2>3. ShownNow' /\ uncertain'
    BY <1>0, <2>1, ShowEffect DEF Stop, Phases, ShownOK, ShownNow
  <2>4. Flow'
    BY <1>0, <1>1, <2>1, <2>2, <2>3 DEF Selected, Flow, Steps, Mid, Sure, Handled, Places,
       Backs, LoopShows, InLoop, Waiting, trigger, sheets, held, unchangedInHandling
  <2> QED
    BY <1>1, <2>2, <2>3, <2>4, Joined
<1>3. CASE ~CallFailed("USB")
  <2>1. ShowMode(FALSE, "READY") /\ Done
    BY <1>3 DEF Selected
  <2>2. GestureTypeOK'
    BY <1>0, <2>1, DoneEffect, GestureStep
  <2>3. ShownNow' /\ Agree'
    BY <1>0, <1>1, <2>1, ShowModeEffect DEF Phases, ShownOK, ShownNow
  <2>4. pc' \in {"buttons", "gate_buttons"}
    BY <1>0, <2>1, DoneEffect DEF Flow, Backs
  <2>5. Flow'
    BY <1>0, <1>1, <2>1, <2>3, <2>4, DoneEffect DEF Selected, Flow, Steps, Mid, Sure, Handled,
       Places, Backs, LoopShows, InLoop, Waiting, trigger, sheets, unchangedInHandling
  <2> QED
    BY <1>1, <2>2, <2>3, <2>5, Joined
<1> QED
  BY <1>2, <1>3

-----------------------------------------------------------------------------
(* The recovery, and the loop that watches the feeder.                     *)

LEMMA RestoreStep == ASSUME IInv, Restore PROVE IInv'
<1> USE DEF IInv
<1>0. Flow /\ ShownNow /\ pc = "restore" /\ uncertain /\ Call("restore") /\ UNCHANGED <<shown, events>>
  BY Parts DEF Restore, Recovery, Flow, Sure, unchangedInHandling
<1>1. ServiceInv' /\ (handle => handle')
  BY <1>0, CallEffect DEF ServiceCalls
<1>2. busy' \in BOOLEAN /\ GestureTypeOK'
  <2>1. Render(busy) /\ busy \in BOOLEAN
    BY <1>0 DEF Restore, Flow
  <2> QED
    BY <1>0, <2>1, RenderEffect, GestureStep
<1>3. ShownNow' /\ uncertain'
  BY <1>0, ShownKept DEF shown
<1>4. Flow'
  BY <1>0, <1>1, <1>2, <1>3 DEF Restore, Flow, Steps, Mid, Sure, Handled, Places, Backs,
     LoopShows, InLoop, Waiting, trigger, sheets, held, unchangedInHandling
<1> QED
  BY <1>1, <1>2, <1>3, <1>4, Joined

LEMMA FinishedType ==
  ASSUME NEW success \in BOOLEAN, Finished(success)
  PROVE  armed' \in BOOLEAN /\ loaded' \in {0, 1}
BY DEF Finished

LEMMA RestoredStep == ASSUME IInv, Restored PROVE IInv'
<1> USE DEF IInv
<1>0. /\ Flow /\ ShownNow /\ pc = "restoring" /\ call = "none" /\ uncertain
      /\ UNCHANGED <<service, events>> /\ ShowMode(CallFailed("USB"), phase)
  BY Parts DEF Restored, Returned, Flow, Sure
<1>1. ServiceInv' /\ UNCHANGED <<card, call, handle>>
  BY <1>0, ServiceStep DEF service
<1>2. ShownNow' /\ uncertain' /\ Agree'
  <2>1. ShownOK /\ uncertain'
    BY <1>0, <1>1, ShowModeEffect DEF ShownNow, CallFailed
  <2> QED
    BY <2>1 DEF ShownOK, ShownNow, Agree
<1>3. CASE back \in {"failed", "finish"}
  <2>1. pc' = "buttons" /\ Render(FALSE) /\ back' = "buttons" /\ UNCHANGED <<event, could>>
    BY <1>3 DEF Restored
  <2>2. armed' \in BOOLEAN /\ loaded' \in {0, 1}
    <3>1. (back = "finish" /\ complete) \in BOOLEAN
      OBVIOUS
    <3> QED
      BY <1>3, <3>1, FinishedType DEF Restored
  <2>3. complete' \in BOOLEAN
    BY <1>3 DEF Restored
  <2>4. GestureTypeOK' /\ busy' \in BOOLEAN
    BY <1>0, <2>1, RenderEffect, GestureStep
  <2>5. Flow'
    BY <1>0, <1>1, <1>2, <2>1, <2>2, <2>3, <2>4 DEF Restored, Flow, Steps, Mid, Sure, Handled,
       Places, Backs, LoopShows, InLoop, Waiting, sheets
  <2> QED
    BY <1>1, <1>2, <2>4, <2>5, Joined
<1>4. CASE back \notin {"failed", "finish"}
  <2>1. Done /\ UNCHANGED <<trigger, complete>>
    BY <1>4 DEF Restored
  <2>2. GestureTypeOK'
    BY <1>0, <2>1, DoneEffect, GestureStep
  <2>3. pc' \in {"buttons", "gate_buttons"}
    BY <1>0, <1>4, <2>1, DoneEffect DEF Flow
  <2>4. Flow'
    BY <1>0, <1>1, <1>2, <2>1, <2>3, DoneEffect DEF Restored, Flow, Steps, Mid, Sure, Handled,
       Places, Backs, LoopShows, InLoop, Waiting, trigger, sheets
  <2> QED
    BY <1>1, <1>2, <2>2, <2>4, Joined
<1> QED
  BY <1>3, <1>4

(* A turn of the loop that looks at the storage mode.                      *)
LEMMA WatchEffect ==
  ASSUME IInv, pc \in {"buttons", "gate"}, ShowMode(FALSE, phase), Render(FALSE),
         UNCHANGED <<service, events>>
  PROVE  /\ ServiceInv' /\ UNCHANGED <<card, call, handle>> /\ call = "none"
         /\ Flow /\ ShownNow /\ ShownNow' /\ Agree' /\ (uncertain => uncertain')
         /\ busy' \in BOOLEAN /\ GestureTypeOK'
<1> USE DEF IInv
<1>1. Flow /\ ShownNow
  BY Parts
<1>2. call = "none" /\ Agree
  BY <1>1 DEF Flow, Mid, Waiting, LoopShows, InLoop
<1>3. ServiceInv' /\ UNCHANGED <<card, call, handle>>
  BY ServiceStep DEF service
<1>4. ShownNow' /\ Agree' /\ (uncertain => uncertain')
  BY <1>1, <1>2, <1>3, ShowPhaseEffect
<1>5. busy' \in BOOLEAN /\ GestureTypeOK'
  BY RenderEffect, GestureStep
<1> QED
  BY <1>1, <1>2, <1>3, <1>4, <1>5

LEMMA StorageBlocksStep == ASSUME IInv, StorageBlocks PROVE IInv'
<1>0. /\ ServiceInv' /\ UNCHANGED <<card, call, handle>> /\ call = "none"
      /\ Flow /\ ShownNow /\ ShownNow' /\ Agree' /\ (uncertain => uncertain')
      /\ busy' \in BOOLEAN /\ GestureTypeOK'
  BY WatchEffect DEF StorageBlocks, unchangedInLoop
<1>1. Flow'
  BY <1>0 DEF StorageBlocks, unchangedInLoop, Flow, Steps, Mid, Sure, Handled, Places,
     Backs, LoopShows, InLoop, Waiting, sheets, Papers
<1> QED
  BY <1>0, <1>1, Joined DEF IInv

LEMMA StatusStep == ASSUME IInv, StatusNotDue \/ StatusDue PROVE IInv'
<1>0. /\ ServiceInv' /\ UNCHANGED <<card, call, handle>> /\ call = "none"
      /\ Flow /\ ShownNow /\ ShownNow' /\ Agree' /\ (uncertain => uncertain')
      /\ busy' \in BOOLEAN /\ GestureTypeOK'
  BY WatchEffect DEF StatusNotDue, StatusDue, unchangedInLoop
<1>a. /\ pc = "buttons" /\ pc' \in {"buttons", "probe"}
      /\ UNCHANGED <<unchangedInLoop, trigger, paper, sheets>>
  BY DEF StatusNotDue, StatusDue
<1>1. Flow'
  BY <1>0, <1>a DEF unchangedInLoop, Flow, Steps, Mid, Sure, Handled,
     Places, Backs, LoopShows, InLoop, Waiting, sheets, trigger
<1> QED
  BY <1>0, <1>1, Joined DEF IInv

LEMMA NoPageStep == ASSUME IInv, NoPage PROVE IInv'
<1>0. /\ ServiceInv' /\ UNCHANGED <<card, call, handle>> /\ call = "none"
      /\ Flow /\ ShownNow /\ ShownNow' /\ Agree' /\ (uncertain => uncertain')
      /\ busy' \in BOOLEAN /\ GestureTypeOK'
  BY WatchEffect DEF NoPage, unchangedInLoop
<1>1. armed' \in BOOLEAN /\ loaded' \in {0, 1}
  BY <1>0 DEF NoPage, Armed, Flow, trigger
<1>2. Flow'
  BY <1>0, <1>1 DEF NoPage, unchangedInLoop, Flow, Steps, Mid, Sure, Handled, Places,
     Backs, LoopShows, InLoop, Waiting, sheets, Papers
<1> QED
  BY <1>0, <1>2, Joined DEF IInv

LEMMA ProbeStep == ASSUME IInv, Probe \/ ButtonsServed PROVE IInv'
<1> USE DEF IInv
<1>0. /\ Flow /\ ShownNow /\ pc \in {"probe", "gate_buttons"} /\ pc' \in {"gate_buttons", "gate"}
      /\ UNCHANGED <<service, shown, visible, pressed, events, alert, event, could, back,
                     complete, trigger>>
  BY Parts DEF Probe, ButtonsServed, unchangedInLoop
<1>1. ServiceInv' /\ call = "none" /\ UNCHANGED <<card, call, handle>>
  BY <1>0, ServiceStep DEF Flow, Mid, Waiting, service
<1>2. GestureTypeOK' /\ ShownNow' /\ Agree'
  BY <1>0, <1>1, GestureStep, ShownKept, AgreeKept DEF button, visible, pressed, Flow,
     LoopShows, InLoop
<1>3. paper' \in Papers /\ failed_sheet' \in BOOLEAN /\ streak' \in 0 .. 2
  <2>1. CASE Probe
    <3>1. failed_sheet' \in BOOLEAN
      BY <2>1 DEF Probe
    <3>2. paper' \in Papers /\ streak' \in 0 .. 2
      BY <1>0, <2>1 DEF Probe, Flow
    <3> QED
      BY <3>1, <3>2
  <2>2. CASE ButtonsServed
    BY <1>0, <2>2 DEF ButtonsServed, Flow, sheets
  <2> QED
    BY <2>1, <2>2 DEF Probe, ButtonsServed
<1>4. Flow'
  BY <1>0, <1>1, <1>2, <1>3 DEF Flow, Steps, Mid, Sure, Handled, Places, Backs,
     LoopShows, InLoop, Waiting, trigger, service, shown, visible
<1> QED
  BY <1>1, <1>2, <1>4, Joined

LEMMA PageStep == ASSUME IInv, Page PROVE IInv'
<1> USE DEF IInv
<1>0. /\ Flow /\ ShownNow /\ pc = "gate" /\ ~uncertain /\ CaptureAllowed
      /\ UNCHANGED <<service, events>>
  BY Parts DEF Page, GateOpen, unchangedInLoop
<1>1. ServiceInv' /\ call = "none" /\ UNCHANGED <<card, call, handle>>
  BY <1>0, ServiceStep DEF Flow, Mid, Waiting, service
<1>2. busy' \in BOOLEAN /\ GestureTypeOK'
  BY <1>0, RenderEffect, GestureStep DEF Page
<1>3. ShownNow' /\ ~uncertain'
  BY <1>0, ShowEffect DEF Page, Phases, ShownOK, ShownNow
<1>4. armed' \in BOOLEAN /\ CaptureAllowed'
  BY <1>0, <1>1 DEF Page, CaptureAllowed
<1>5. Flow'
  BY <1>0, <1>1, <1>2, <1>3, <1>4 DEF Page, unchangedInLoop, Flow, Steps, Mid, Sure, Handled,
     Places, Backs, LoopShows, InLoop, Waiting, sheets, Papers
<1> QED
  BY <1>1, <1>2, <1>3, <1>5, Joined

-----------------------------------------------------------------------------
(* One page.                                                               *)

LEMMA AcquireStep == ASSUME IInv, Acquire PROVE IInv'
<1> USE DEF IInv
<1>0. /\ Flow /\ ShownNow /\ pc = "acquire" /\ ~uncertain /\ handle /\ Call("acquire")
      /\ UNCHANGED <<shown, visible, pressed, events>>
  BY Parts DEF Acquire, unchangedInPage, Flow, Sure, Handled
<1>1. ServiceInv' /\ handle'
  BY <1>0, CallEffect DEF ServiceCalls
<1>2. GestureTypeOK' /\ ShownNow' /\ ~uncertain' /\ UNCHANGED busy
  BY <1>0, GestureStep, ShownKept DEF button, visible, pressed, shown
<1>3. Flow'
  BY <1>0, <1>1, <1>2 DEF Acquire, unchangedInPage, Flow, Steps, Mid, Sure, Handled,
     Places, Backs, LoopShows, InLoop, Waiting, trigger
<1> QED
  BY <1>1, <1>2, <1>3, Joined

LEMMA AcquiredStep == ASSUME IInv, Acquired PROVE IInv'
<1> USE DEF IInv
<1>0. /\ Flow /\ ShownNow /\ pc = "acquiring" /\ ~uncertain /\ handle /\ call = "none"
      /\ UNCHANGED <<service, events>>
  BY Parts DEF Acquired, Returned, unchangedInPage, Flow, Sure, Handled, Waiting
<1>1. ServiceInv' /\ UNCHANGED <<card, call, handle>>
  BY <1>0, ServiceStep DEF service
<1>2. busy' \in BOOLEAN /\ GestureTypeOK'
  BY <1>0, RenderEffect, GestureStep DEF Acquired
<1>3. CASE CallFailed("APP")
  <2>1. ShownNow' /\ uncertain'
    BY <1>0, <1>3, ShowEffect DEF Acquired, Stop, Phases, ShownOK, ShownNow
  <2>2. alert' \in BOOLEAN /\ failed_sheet' \in BOOLEAN
    BY <1>3 DEF Acquired, NewResult
  <2>3. Flow'
    BY <1>0, <1>1, <1>2, <1>3, <2>1, <2>2 DEF Acquired, unchangedInPage, Flow, Steps, Mid,
       Sure, Handled, Places, Backs, LoopShows, InLoop, Waiting, trigger
  <2> QED
    BY <1>1, <1>2, <2>1, <2>3, Joined
<1>4. CASE ~CallFailed("APP")
  <2>1. ShownNow' /\ ~uncertain'
    BY <1>0, <1>4, ShowEffect DEF Acquired, Phases, ShownOK, ShownNow
  <2>2. card'[1] = "APP"
    BY <1>1, <1>4 DEF CallFailed
  <2>3. Flow'
    BY <1>0, <1>1, <1>2, <1>4, <2>1, <2>2 DEF Acquired, unchangedInPage, Flow, Steps, Mid,
       Sure, Handled, Places, Backs, LoopShows, InLoop, Waiting, trigger
  <2> QED
    BY <1>1, <1>2, <2>1, <2>3, Joined
<1> QED
  BY <1>3, <1>4

(* What holds in and after a capture.                                      *)
LEMMA CaptureEffect ==
  ASSUME IInv, pc = "capture", NEW p \in Phases \ {"STOPPED"}, Show(FALSE, p), Render(TRUE),
         UNCHANGED <<service, events>>
  PROVE  /\ ServiceInv' /\ UNCHANGED <<card, call, handle>> /\ call = "none"
         /\ Flow /\ ~uncertain /\ handle /\ card[1] = "APP"
         /\ ShownNow' /\ ~uncertain'
         /\ busy' \in BOOLEAN /\ GestureTypeOK'
<1> USE DEF IInv
<1>1. /\ Flow /\ ShownNow /\ ~uncertain /\ handle /\ call = "none" /\ card[1] = "APP"
  BY Parts DEF Flow, Sure, Handled, Mid, Waiting, Places
<1>2. ServiceInv' /\ UNCHANGED <<card, call, handle>>
  BY ServiceStep DEF service
<1>3. ShownNow' /\ ~uncertain'
  BY <1>1, ShowEffect DEF ShownOK, ShownNow
<1>4. busy' \in BOOLEAN /\ GestureTypeOK'
  BY RenderEffect, GestureStep
<1> QED
  BY <1>1, <1>2, <1>3, <1>4

LEMMA CapturePhaseStep == ASSUME IInv, CapturePhase PROVE IInv'
<1>0. PICK p \in {"CAPTURING", "FINALIZING"} : Show(FALSE, p)
  BY DEF CapturePhase
<1>1. /\ ServiceInv' /\ UNCHANGED <<card, call, handle>> /\ call = "none"
      /\ Flow /\ ~uncertain /\ handle /\ card[1] = "APP"
      /\ ShownNow' /\ ~uncertain'
      /\ busy' \in BOOLEAN /\ GestureTypeOK'
  BY <1>0, CaptureEffect DEF CapturePhase, unchangedInPage, Phases
<1>2. Flow'
  BY <1>1 DEF CapturePhase, unchangedInPage, Flow, Steps, Mid, Sure, Handled, Places,
     Backs, LoopShows, InLoop, Waiting, trigger, sheets
<1> QED
  BY <1>1, <1>2, Joined DEF IInv

LEMMA CapturedStep == ASSUME IInv, Captured PROVE IInv'
<1>1. /\ ServiceInv' /\ UNCHANGED <<card, call, handle>> /\ call = "none"
      /\ Flow /\ ~uncertain /\ handle /\ card[1] = "APP"
      /\ ShownNow' /\ ~uncertain'
      /\ busy' \in BOOLEAN /\ GestureTypeOK'
  BY CaptureEffect DEF Captured, unchangedInPage, Phases
<1>2. alert' \in BOOLEAN /\ failed_sheet' \in BOOLEAN /\ complete' \in BOOLEAN
  BY DEF Captured, NewResult
<1>3. Flow'
  BY <1>1, <1>2 DEF Captured, unchangedInPage, Flow, Steps, Mid, Sure, Handled, Places,
     Backs, LoopShows, InLoop, Waiting, trigger
<1> QED
  BY <1>1, <1>3, Joined DEF IInv

LEMMA HandBackStep == ASSUME IInv, HandBack PROVE IInv'
<1> USE DEF IInv
<1>0. /\ Flow /\ ShownNow /\ pc = "hand_back" /\ ~uncertain /\ handle /\ Call("expose")
      /\ UNCHANGED <<shown, visible, pressed, events>>
  BY Parts DEF HandBack, unchangedInPage, Flow, Sure, Handled
<1>1. ServiceInv' /\ handle'
  BY <1>0, CallEffect DEF ServiceCalls
<1>2. GestureTypeOK' /\ ShownNow' /\ ~uncertain' /\ UNCHANGED busy
  BY <1>0, GestureStep, ShownKept DEF button, visible, pressed, shown
<1>3. Flow'
  BY <1>0, <1>1, <1>2 DEF HandBack, unchangedInPage, Flow, Steps, Mid, Sure, Handled,
     Places, Backs, LoopShows, InLoop, Waiting, trigger, sheets
<1> QED
  BY <1>1, <1>2, <1>3, Joined

LEMMA ExposedStep == ASSUME IInv, Exposed PROVE IInv'
<1> USE DEF IInv
<1>0. /\ Flow /\ ShownNow /\ pc = "exposing" /\ ~uncertain /\ handle /\ call = "none"
      /\ UNCHANGED <<service, events>>
  BY Parts DEF Exposed, Returned, unchangedInPage, Flow, Sure, Handled, Waiting
<1>1. ServiceInv' /\ UNCHANGED <<card, call, handle>>
  BY <1>0, ServiceStep DEF service
<1>2. complete' \in BOOLEAN
  BY DEF Exposed
<1>3. CASE CallFailed("USB")
  <2>1. busy' \in BOOLEAN /\ GestureTypeOK'
    BY <1>0, <1>3, RenderEffect, GestureStep DEF Exposed
  <2>2. ShownNow' /\ uncertain'
    BY <1>0, <1>3, ShowEffect DEF Exposed, Stop, Phases, ShownOK, ShownNow
  <2>3. Flow'
    BY <1>0, <1>1, <1>2, <1>3, <2>1, <2>2 DEF Exposed, unchangedInPage, Flow, Steps, Mid,
       Sure, Handled, Places, Backs, LoopShows, InLoop, Waiting, trigger, sheets
  <2> QED
    BY <1>1, <2>1, <2>2, <2>3, Joined
<1>4. CASE ~CallFailed("USB")
  <2>1. busy' \in BOOLEAN /\ GestureTypeOK'
    BY <1>0, <1>4, RenderEffect, GestureStep DEF Exposed
  <2>2. ShownNow' /\ Agree'
    BY <1>0, <1>1, <1>4, ShowModeEffect DEF Exposed, Phases, ShownOK, ShownNow
  <2>3. armed' \in BOOLEAN /\ loaded' \in {0, 1}
    BY <1>0, <1>4, FinishedType DEF Exposed, Flow
  <2>4. Flow'
    BY <1>0, <1>1, <1>2, <1>4, <2>1, <2>2, <2>3 DEF Exposed, unchangedInPage, Flow, Steps,
       Mid, Sure, Handled, Places, Backs, LoopShows, InLoop, Waiting, sheets
  <2> QED
    BY <1>1, <2>1, <2>2, <2>4, Joined
<1> QED
  BY <1>3, <1>4

-----------------------------------------------------------------------------
(* The storage service and the button task on their own.                   *)

LEMMA StorageStep == ASSUME IInv, Storage PROVE IInv'
<1> USE DEF IInv
<1>0. Flow /\ ShownNow /\ UNCHANGED <<button, gateway>> /\ (Delegate \/ Return \/ HostNews)
  BY Parts DEF Storage
<1>1. ServiceInv'
  BY <1>0, ServiceStep
<1>2. GestureTypeOK' /\ ShownNow' /\ UNCHANGED <<shown, pc>>
  BY <1>0, GestureStep, ShownKept DEF gateway
<1>3. /\ UNCHANGED handle
      /\ call = "none" => call' = "none" /\ UNCHANGED card
  BY <1>0 DEF Delegate, Return, HostNews
<1>4. CASE pc \in Waiting \cup {"restoring"}
  <2>1. Flow'
    BY <1>0, <1>2, <1>3, <1>4 DEF gateway, Flow, Steps, Mid, Sure, Handled, Places, Backs,
       LoopShows, InLoop, Waiting, trigger, sheets, shown
  <2> QED
    BY <1>1, <1>2, <2>1, Joined
<1>5. CASE pc \notin Waiting \cup {"restoring"}
  <2>1. call = "none" /\ call' = "none" /\ UNCHANGED card
    BY <1>0, <1>3, <1>5 DEF Flow, Mid
  <2>2. CaptureAllowed' = CaptureAllowed /\ (Agree => Agree')
    BY <1>2, <2>1, AgreeKept DEF CaptureAllowed
  <2>3. Flow'
    BY <1>0, <1>2, <1>3, <2>1, <2>2 DEF gateway, Flow, Steps, Mid, Sure, Handled, Places,
       Backs, LoopShows, InLoop, Waiting, trigger, sheets, shown
  <2> QED
    BY <1>1, <1>2, <2>3, Joined
<1> QED
  BY <1>1, <1>2, <1>4, <1>5, Joined

LEMMA UntouchedStep ==
  ASSUME IInv, UNCHANGED <<service, gateway>>, ButtonTask \/ UNCHANGED button
  PROVE  IInv'
<1> USE DEF IInv
<1>0. Flow /\ ShownNow /\ UNCHANGED <<shown, card, call, handle, pc>>
  BY Parts DEF gateway, service
<1>1. ServiceInv' /\ GestureTypeOK' /\ ShownNow' /\ (Agree => Agree')
  BY <1>0, ServiceStep, GestureStep, ShownKept, AgreeKept
<1>2. Flow'
  BY <1>0, <1>1 DEF gateway, Flow, Steps, Mid, Sure, Handled, Places, Backs, LoopShows,
     InLoop, Waiting, trigger, sheets, shown, CaptureAllowed
<1> QED
  BY <1>1, <1>2, Joined

(* IInv is inductive.                                                      *)
LEMMA LoopStep == IInv /\ [Next]_vars => IInv'
<1> SUFFICES ASSUME IInv, [Next]_vars PROVE IInv'
  OBVIOUS
<1>1. CASE Application
  BY <1>1, StartStep, StartedStep, FirstExposeStep, EnterLoopStep, TakeEventStep,
     AcknowledgeStep, SelectModeStep, NothingToSelectStep, SelectStep, SelectedStep,
     RestoreStep, RestoredStep, StorageBlocksStep, StatusStep, ProbeStep, NoPageStep,
     PageStep, AcquireStep, AcquiredStep, CapturedStep, HandBackStep, ExposedStep
  DEF Application
<1>2. CASE CapturePhase
  BY <1>2, CapturePhaseStep
<1>3. CASE Storage
  BY <1>3, StorageStep
<1>4. CASE Button
  BY <1>4, UntouchedStep DEF Button
<1>5. CASE UNCHANGED vars
  <2>1. UNCHANGED <<service, gateway>> /\ UNCHANGED button
    BY <1>5 DEF vars, gateway
  <2> QED
    BY <2>1, UntouchedStep
<1> QED
  BY <1>1, <1>2, <1>3, <1>4, <1>5 DEF Next

(* Every start satisfies it.                                               *)
LEMMA LoopInit == Init => IInv
<1> SUFFICES ASSUME Init PROVE IInv
  OBVIOUS
<1>1. ServiceInv
  BY DEF Init, ServiceInit, ServiceInv, ServiceTypeOK, ServiceOwners, ServiceModes,
         ServiceCalls, Settled, Own, Moving
<1>2. GestureTypeOK
  <2>1. context \in Contexts
    BY DEF Init, GestureInit, Contexts
  <2>2. events \in Seq(ButtonEvents) /\ Len(events) <= QueueLength
    BY QueueLengthAssumption DEF Init, GestureInit
  <2> QED
    BY <2>1, <2>2 DEF Init, GestureInit, GestureTypeOK, Gestures
<1>3. LoopInv
  <2>1. /\ pc = "start" /\ phase = "STARTING" /\ ~uncertain /\ call = "none"
        /\ uncertain \in BOOLEAN /\ busy \in BOOLEAN /\ alert \in BOOLEAN
        /\ could \in BOOLEAN /\ armed \in BOOLEAN /\ complete \in BOOLEAN
        /\ failed_sheet \in BOOLEAN
    BY DEF Init, ServiceInit
  <2>2. GatewayTypeOK
    BY <2>1 DEF Init, GatewayTypeOK, Steps, Phases, Papers
  <2>3. Mid /\ Doubt /\ Sure /\ Handled /\ Places /\ LoopShows /\ Backs
    BY <2>1 DEF Mid, Doubt, Sure, Handled, Places, LoopShows, InLoop, Backs, Waiting
  <2> QED
    BY <2>2, <2>3 DEF LoopInv
<1> QED
  BY <1>1, <1>2, <1>3 DEF IInv

-----------------------------------------------------------------------------
(* IInv holds in every state.                                              *)
LEMMA LoopCorrect == Spec => []IInv
BY LoopInit, LoopStep, PTL DEF Spec

(* Whatever the storage calls, the host, the feeder and the button do,     *)
(* what an idle gateway shows is what the card is, and a page is captured  *)
(* only onto a card the application holds in automatic mode; neither the   *)
(* call that takes the card nor the one that gives it back is refused      *)
(* (main.c:156-183, 279-347).                                              *)
THEOREM GatewayCorrect == FairSpec => []GatewayInv
<1>1. IInv => TypeOK
  BY DEF IInv, ServiceInv, LoopInv, TypeOK
<1>2. IInv => ScreenTellsOwnership
  BY DEF IInv, LoopInv, Doubt, LoopShows, Agree, ScreenTellsOwnership, InLoop, CaptureAllowed
<1>3. IInv => PagesAreScannedOnOwnCard
  <2> SUFFICES ASSUME IInv PROVE PagesAreScannedOnOwnCard
    OBVIOUS
  <2>1. pc \in {"acquire", "capture", "hand_back"} => call = "none" /\ ~uncertain /\ handle
    BY DEF IInv, LoopInv, Mid, Sure, Handled, Waiting
  <2>2. pc = "acquire" => CaptureAllowed
    BY DEF IInv, LoopInv, Places
  <2>3. pc \in {"capture", "hand_back"} => card = <<"APP", "AUTO_RO">> /\ card[1] = "APP"
    BY DEF IInv, LoopInv, ServiceInv, Places, Own
  <2> QED
    BY <2>1, <2>2, <2>3, AcceptsValues DEF PagesAreScannedOnOwnCard
<1>4. IInv => GatewayInv
  BY <1>1, <1>2, <1>3 DEF GatewayInv
<1> QED
  BY <1>4, LoopCorrect, PTL DEF FairSpec

(* No phase change takes the doubt away.                                   *)
LEMMA DoubtStays ==
  ASSUME uncertain, NEW stopped, NEW p,
         Show(stopped, p) \/ ShowMode(stopped, p) \/ Stop \/ UNCHANGED shown
  PROVE  uncertain'
BY DEF Show, ShowMode, Stop, shown

(* Where the loop starts a call.                                           *)
LEMMA CallPlaces ==
  ASSUME IInv, [Next]_vars, call = "none", call' # "none"
  PROVE  \/ pc \in {"start", "sync", "enter", "resume", "acquire", "hand_back"} /\ ~uncertain
         \/ pc = "restore" /\ call' = "restore"
<1>1. call' # call
  OBVIOUS
<1>2. ~(UNCHANGED service)
  BY <1>1 DEF service
<1>3. pc \in {"start", "enter", "resume", "acquire", "hand_back"} => ~uncertain
  BY DEF IInv, LoopInv, Sure, Waiting
<1>4. CASE Application
  <2>1. \/ Start \/ FirstExpose \/ Select \/ Restore \/ Acquire \/ HandBack
    BY <1>2, <1>4 DEF Application, Started, EnterLoop, TakeEvent, Acknowledge, SelectMode,
       NothingToSelect, Selected, Restored, StorageBlocks, StatusNotDue, StatusDue, Probe,
       ButtonsServed, NoPage, Page, Acquired, Captured, Exposed, unchangedInLoop
  <2>2. CASE Restore
    BY <1>2, <2>2 DEF Restore, Recovery, Call, Begin
  <2> QED
    BY <1>3, <2>1, <2>2 DEF Start, FirstExpose, Select, Acquire, HandBack
<1>5. CASE Storage
  BY <1>1, <1>5 DEF Storage, Delegate, Return, HostNews
<1> QED
  BY <1>2, <1>4, <1>5 DEF Next, CapturePhase, Button, vars

(* A stopped gateway stays stopped whatever follows, and the only call it  *)
(* still makes is the recovery (gateway_state_model.h:29, main.c:148-149). *)
THEOREM StaysStopped == Spec => StoppedForGood
<1> DEFINE Stays ==
      uncertain => /\ uncertain' /\ phase' = "STOPPED"
                   /\ call = "none" /\ call' # "none" => call' = "restore"
<1>1. IInv /\ [Next]_vars => Stays
  <2> SUFFICES ASSUME IInv, [Next]_vars, uncertain PROVE Stays
    OBVIOUS
  <2>1. uncertain'
    <3>1. CASE Start \/ Started \/ FirstExpose \/ EnterLoop \/ TakeEvent \/ Acknowledge
               \/ SelectMode \/ NothingToSelect \/ Select
      BY <3>1, DoubtStays DEF Start, Started, FirstExpose, EnterLoop, TakeEvent, Acknowledge,
         SelectMode, NothingToSelect, Select
    <3>2. CASE Selected \/ Restore \/ Restored \/ StorageBlocks \/ StatusNotDue \/ StatusDue
               \/ Probe \/ ButtonsServed \/ NoPage
      BY <3>2, DoubtStays DEF Selected, Restore, Restored, StorageBlocks, StatusNotDue,
         StatusDue, Probe, ButtonsServed, NoPage
    <3>3. CASE Page \/ Acquire \/ Acquired \/ Captured \/ HandBack \/ Exposed \/ CapturePhase
      BY <3>3, DoubtStays DEF Page, Acquire, Acquired, Captured, HandBack, Exposed,
         CapturePhase
    <3>4. CASE Storage \/ Button \/ UNCHANGED vars
      BY <3>4, DoubtStays DEF Storage, Button, gateway, vars
    <3> QED
      BY <3>1, <3>2, <3>3, <3>4 DEF Next, Application
  <2>2. phase' = "STOPPED"
    BY <2>1, LoopStep DEF IInv, LoopInv, Doubt
  <2> QED
    BY <2>1, <2>2, CallPlaces DEF IInv, LoopInv, Doubt
<1>2. IInv /\ [Next]_vars => [Stays]_vars
  BY <1>1
<1> QED
  BY <1>2, LoopCorrect, PTL DEF Spec, StoppedForGood

-----------------------------------------------------------------------------
(* One sheet, one capture. What the trigger and the two readings know of   *)
(* each other at each place of the loop.                                   *)

Handling == {"handle", "enter", "resume", "selecting", "restore", "restoring"}
InPage   == {"acquire", "acquiring", "capture", "hand_back", "exposing"}

\* The reading of this turn is known and not yet acted on.
After == pc \in {"gate_buttons", "gate"} \/ back = "gate_buttons"

SheetInv ==
  /\ pc \notin Handling => back = "buttons"
  /\ ~After => paper = "UNKNOWN"
  /\ paper = "LOADED" => streak >= 1
  /\ paper = "EMPTY" => ~failed_sheet
  /\ loaded = 1 /\ After /\ paper = "LOADED" => streak >= 2
  /\ loaded = 1 /\ ~After => streak >= 1
  /\ pc \in InPage \/ back \in {"failed", "finish"} => ~armed /\ loaded = 0
  /\ failed_sheet => ~armed
  /\ pc \in {"hand_back", "exposing"} \/ back = "finish" => (failed_sheet <=> ~complete)
  /\ pc = "acquire" => streak >= 2 /\ ~failed_sheet

\* Steps that leave the trigger and the readings alone, by how the loop
\* gets from one place to the next.
Carried == UNCHANGED <<armed, loaded, paper, complete, failed_sheet, streak>>

LEMMA CarriedStep ==
  ASSUME SheetInv, IInv, Carried,
         \/ pc \in Handling /\ pc' \in Handling /\ UNCHANGED back
         \/ pc \in Handling /\ back \in {"buttons", "gate_buttons"} /\ pc' = back /\ back' = "buttons"
         \/ pc \in {"buttons", "gate_buttons"} /\ pc' = "handle" /\ back' = pc
         \/ pc \notin Handling /\ UNCHANGED <<pc, back>>
         \/ /\ pc \in {"start", "starting", "sync", "first_expose", "buttons"}
            /\ pc' \in {"starting", "sync", "first_expose", "buttons", "probe"}
            /\ UNCHANGED back
         \/ pc = "gate_buttons" /\ pc' = "gate" /\ UNCHANGED back
  PROVE  SheetInv'
BY DEF SheetInv, Carried, Handling, InPage, After

LEMMA ServedStep ==
  ASSUME SheetInv, IInv,
         \/ Start \/ Started \/ FirstExpose \/ EnterLoop \/ TakeEvent \/ Acknowledge
         \/ SelectMode \/ NothingToSelect \/ Select \/ Selected \/ Restore
         \/ StatusNotDue \/ StatusDue \/ ButtonsServed
  PROVE  SheetInv'
<1>0. pc = "handle" \/ pc = "selecting" => back \in {"buttons", "gate_buttons"}
  BY DEF IInv, LoopInv, Backs
<1>1. CASE Start \/ Started \/ FirstExpose \/ EnterLoop
  <2>1. /\ Carried /\ UNCHANGED back
        /\ pc \in {"start", "starting", "sync", "first_expose"}
        /\ pc' \in {"starting", "sync", "first_expose", "buttons"}
    BY <1>1 DEF Start, Started, FirstExpose, EnterLoop, Carried, trigger, sheets
  <2> QED
    BY <2>1, CarriedStep
<1>2. CASE TakeEvent
  <2>1. Carried /\ pc \in {"buttons", "gate_buttons"} /\ pc' = "handle" /\ back' = pc
    BY <1>2 DEF TakeEvent, Carried, trigger, sheets
  <2> QED
    BY <2>1, CarriedStep
<1>3. CASE Acknowledge \/ NothingToSelect
  <2>1. Carried /\ pc = "handle" /\ pc' = back /\ back' = "buttons"
    BY <1>3 DEF Acknowledge, NothingToSelect, Done, Carried, trigger, sheets,
       unchangedInHandling
  <2> QED
    BY <1>0, <2>1, CarriedStep DEF Handling
<1>4. CASE SelectMode \/ Select \/ Restore
  <2>1. Carried /\ pc \in Handling /\ pc' \in Handling /\ UNCHANGED back
    BY <1>4 DEF SelectMode, Select, Restore, Carried, trigger, sheets,
       unchangedInHandling, held, Handling
  <2> QED
    BY <2>1, CarriedStep
<1>5. CASE Selected
  <2>1. Carried /\ pc = "selecting"
    BY <1>5 DEF Selected, Carried, trigger, sheets, unchangedInHandling
  <2>2. \/ pc' = "restore" /\ UNCHANGED back
        \/ pc' = back /\ back' = "buttons"
    BY <1>5 DEF Selected, Done, held
  <2> QED
    BY <1>0, <2>1, <2>2, CarriedStep DEF Handling
<1>6. CASE StatusNotDue \/ StatusDue
  <2>1. Carried /\ pc = "buttons" /\ pc' \in {"buttons", "probe"} /\ UNCHANGED back
    BY <1>6 DEF StatusNotDue, StatusDue, Carried, trigger, sheets, unchangedInLoop
  <2> QED
    BY <2>1, CarriedStep
<1>7. CASE ButtonsServed
  <2>1. Carried /\ pc = "gate_buttons" /\ pc' = "gate" /\ UNCHANGED back
    BY <1>7 DEF ButtonsServed, Carried, trigger, sheets, unchangedInLoop
  <2> QED
    BY <2>1, CarriedStep
<1> QED
  BY <1>1, <1>2, <1>3, <1>4, <1>5, <1>6, <1>7

LEMMA RestoredSheet == ASSUME SheetInv, IInv, Restored PROVE SheetInv'
<1>0. pc = "restoring" /\ UNCHANGED <<paper, failed_sheet, streak>>
  BY DEF Restored, sheets
<1>1. CASE back \in {"failed", "finish"}
  <2>1. pc' = "buttons" /\ back' = "buttons" /\ Finished(back = "finish" /\ complete)
    BY <1>1 DEF Restored
  <2>2. loaded' = 0 /\ (armed' => back = "finish" /\ complete)
    BY <2>1 DEF Finished
  <2>3. paper = "UNKNOWN"
    BY <1>0, <1>1 DEF SheetInv, After
  <2>4. failed_sheet => ~armed'
    BY <2>2 DEF SheetInv
  <2> QED
    BY <1>0, <2>1, <2>2, <2>3, <2>4 DEF SheetInv, Handling, InPage, After
<1>2. CASE back \notin {"failed", "finish"}
  <2>1. back \in {"buttons", "gate_buttons"}
    BY <1>2 DEF IInv, LoopInv, GatewayTypeOK
  <2>2. Carried /\ pc' = back /\ back' = "buttons"
    BY <1>0, <1>2 DEF Restored, Done, Carried, trigger
  <2> QED
    BY <1>0, <2>1, <2>2, CarriedStep DEF Handling
<1> QED
  BY <1>1, <1>2

LEMMA ProbeSheet == ASSUME SheetInv, IInv, Probe PROVE SheetInv'
<1>0. pc = "probe" /\ pc' = "gate_buttons" /\ UNCHANGED <<back, armed, loaded, complete>>
  BY DEF Probe, unchangedInLoop, trigger
<1>1. failed_sheet' <=> failed_sheet /\ paper' # "EMPTY"
  BY DEF Probe
<1>2. paper' = "LOADED" => streak' >= 1 /\ (streak >= 1 => streak' >= 2)
  BY DEF Probe, IInv, LoopInv, GatewayTypeOK
<1>3. back = "buttons" /\ ~After
  BY <1>0 DEF SheetInv, Handling, After
<1> QED
  BY <1>0, <1>1, <1>2, <1>3 DEF SheetInv, Handling, InPage, After

LEMMA GateSheet ==
  ASSUME SheetInv, IInv, StorageBlocks \/ NoPage \/ Page
  PROVE  SheetInv'
<1>0. /\ pc \in {"buttons", "gate"} /\ back = "buttons" /\ paper' = "UNKNOWN"
      /\ UNCHANGED <<back, complete, failed_sheet, streak>>
  BY DEF StorageBlocks, NoPage, Page, unchangedInLoop, sheets, SheetInv, Handling
<1>1. CASE StorageBlocks
  <2>1. pc' = "buttons" /\ loaded' = 0 /\ UNCHANGED armed
    BY <1>1 DEF StorageBlocks
  <2> QED
    BY <1>0, <2>1 DEF SheetInv, Handling, InPage, After
<1>2. CASE NoPage
  <2>1. pc = "gate" /\ pc' = "buttons" /\ CaptureAllowed
    <3>1. UNCHANGED <<service, events>>
      BY <1>2 DEF NoPage, unchangedInLoop
    <3>2. Agree' /\ UNCHANGED card
      BY <1>2, <3>1, WatchEffect DEF NoPage
    <3>3. ~uncertain' /\ card[2] # "MAINTENANCE_RW"
      BY <1>2 DEF NoPage, Blocked
    <3> QED
      BY <1>2, <3>2, <3>3 DEF NoPage, Agree, CaptureAllowed
  <2>2. /\ armed' = (armed \/ paper = "EMPTY")
        /\ loaded' = 1 => paper = "LOADED"
    <3>1. armed' = (armed \/ paper = "EMPTY")
      BY <1>2, <2>1, Zenon DEF NoPage, Armed
    <3>2. loaded' = IF Counts(paper) THEN 1 ELSE 0
      BY <1>2, <2>1 DEF NoPage
    <3>3. loaded' = 1 => Counts(paper)
      BY <3>2
    <3>4. Counts(paper) => paper = "LOADED"
      BY DEF Counts
    <3> QED
      BY <3>1, <3>3, <3>4
  <2>3. failed_sheet => ~armed'
    BY <2>2 DEF SheetInv
  <2>4. loaded' = 1 => streak >= 1
    BY <2>2 DEF SheetInv
  <2> QED
    BY <1>0, <2>1, <2>3, <2>4 DEF SheetInv, Handling, InPage, After
<1>3. CASE Page
  <2>1. /\ pc = "gate" /\ pc' = "acquire" /\ ~armed' /\ loaded' = 0
        /\ paper = "LOADED" /\ armed /\ loaded = 1
    BY <1>3 DEF Page, Counts, Armed, SecondReading
  <2>2. streak >= 2 /\ ~failed_sheet
    BY <2>1 DEF SheetInv, After
  <2> QED
    BY <1>0, <2>1, <2>2 DEF SheetInv, Handling, InPage, After
<1> QED
  BY <1>1, <1>2, <1>3

LEMMA PageSheet ==
  ASSUME SheetInv, IInv,
         Acquire \/ Acquired \/ CapturePhase \/ Captured \/ HandBack \/ Exposed
  PROVE  SheetInv'
<1>0. pc \in InPage /\ ~armed /\ loaded = 0 /\ back = "buttons" /\ paper = "UNKNOWN"
  BY DEF Acquire, Acquired, CapturePhase, Captured, HandBack, Exposed, SheetInv, InPage,
         Handling, After
<1>1. UNCHANGED paper
  BY DEF Acquire, Acquired, CapturePhase, Captured, HandBack, Exposed, unchangedInPage
<1>2. CASE Acquire
  <2>1. pc' = "acquiring" /\ UNCHANGED <<back, armed, loaded, complete, failed_sheet>>
    BY <1>2 DEF Acquire, trigger
  <2> QED
    BY <1>0, <1>1, <2>1 DEF SheetInv, Handling, InPage, After
<1>3. CASE Acquired
  <2>1. /\ UNCHANGED <<armed, loaded, complete>>
        /\ \/ pc' = "restore" /\ back' = "failed"
           \/ pc' = "capture" /\ back' = back
    BY <1>3 DEF Acquired, trigger
  <2> QED
    BY <1>0, <1>1, <2>1 DEF SheetInv, Handling, InPage, After
<1>4. CASE CapturePhase
  <2>1. pc' = "capture" /\ UNCHANGED <<back, armed, loaded, complete, failed_sheet>>
    BY <1>4 DEF CapturePhase, trigger, sheets
  <2> QED
    BY <1>0, <1>1, <2>1 DEF SheetInv, Handling, InPage, After
<1>5. CASE Captured
  <2>1. /\ pc' = "hand_back" /\ UNCHANGED <<back, armed, loaded>>
        /\ failed_sheet' <=> ~complete'
    BY <1>5 DEF Captured, trigger
  <2> QED
    BY <1>0, <1>1, <2>1 DEF SheetInv, Handling, InPage, After
<1>6. CASE HandBack
  <2>1. /\ pc = "hand_back" /\ pc' = "exposing"
        /\ UNCHANGED <<back, armed, loaded, complete, failed_sheet>>
    BY <1>6 DEF HandBack, trigger, sheets
  <2> QED
    BY <1>0, <1>1, <2>1 DEF SheetInv, Handling, InPage, After
<1>7. CASE Exposed
  <2>0. pc = "exposing" /\ UNCHANGED <<failed_sheet, streak>> /\ (failed_sheet <=> ~complete)
    BY <1>7 DEF Exposed, sheets, SheetInv
  <2>1. CASE CallFailed("USB")
    <3>1. /\ pc' = "restore" /\ back' = "finish" /\ UNCHANGED <<armed, loaded>>
          /\ complete' <=> complete
      BY <1>7, <2>1 DEF Exposed, trigger
    <3> QED
      BY <1>0, <1>1, <2>0, <3>1 DEF SheetInv, Handling, InPage, After
  <2>2. CASE ~CallFailed("USB")
    <3>1. /\ pc' = "buttons" /\ UNCHANGED back /\ loaded' = 0
          /\ armed' <=> complete
      BY <1>7, <2>2 DEF Exposed, Finished
    <3> QED
      BY <1>0, <1>1, <2>0, <3>1 DEF SheetInv, Handling, InPage, After
  <2> QED
    BY <2>1, <2>2
<1> QED
  BY <1>2, <1>3, <1>4, <1>5, <1>6, <1>7

LEMMA SheetStep == SheetInv /\ IInv /\ [Next]_vars => SheetInv'
<1> SUFFICES ASSUME SheetInv, IInv, [Next]_vars PROVE SheetInv'
  OBVIOUS
<1>1. CASE Application \/ CapturePhase
  BY <1>1, ServedStep, RestoredSheet, ProbeSheet, GateSheet, PageSheet DEF Application
<1>2. CASE Storage \/ Button \/ UNCHANGED vars
  <2>1. UNCHANGED gateway
    BY <1>2 DEF Storage, Button, vars, gateway
  <2> QED
    BY <2>1 DEF gateway, trigger, sheets, SheetInv, Handling, InPage, After
<1> QED
  BY <1>1, <1>2 DEF Next

(* A capture begins only after two loaded readings in a row, and never for *)
(* a sheet whose capture failed before the feeder was read empty           *)
(* (page_trigger.h:3-14, main.c:293-308, 346).                             *)
THEOREM OneSheetOneCapture == FairSpec => SheetsAreTakenOnce
<1> DEFINE Once == call = "none" /\ call' = "acquire" => streak = 2 /\ ~failed_sheet
<1>1. Init => SheetInv
  BY DEF Init, SheetInv, Handling, InPage, After
<1>2. SheetInv /\ IInv /\ [Next]_vars => Once
  <2> SUFFICES ASSUME SheetInv, IInv, [Next]_vars, call = "none", call' = "acquire"
               PROVE  streak = 2 /\ ~failed_sheet
    OBVIOUS
  <2>1. pc = "acquire"
    <3>1. ~(UNCHANGED call)
      OBVIOUS
    <3>2. ~(UNCHANGED service)
      BY <3>1 DEF service
    <3>3. ~Storage
      BY DEF Storage, Delegate, Return, HostNews
    <3>4. Application
      BY <3>2, <3>3 DEF Next, CapturePhase, Button, vars
    <3>5. Start \/ FirstExpose \/ Select \/ Restore \/ Acquire \/ HandBack
      BY <3>2, <3>4 DEF Application, Started, EnterLoop, TakeEvent, Acknowledge, SelectMode,
         NothingToSelect, Selected, Restored, StorageBlocks, StatusNotDue, StatusDue, Probe,
         ButtonsServed, NoPage, Page, Acquired, Captured, Exposed, unchangedInLoop
    <3>6. ASSUME NEW c, Call(c) PROVE c = "acquire"
      BY <3>2, <3>6 DEF Call, Begin
    <3> QED
      BY <3>2, <3>5, <3>6 DEF Start, FirstExpose, Select, Restore, Recovery, Acquire, HandBack
  <2>2. streak >= 2 /\ streak \in 0 .. 2
    BY <2>1 DEF SheetInv, IInv, LoopInv, GatewayTypeOK
  <2> QED
    BY <2>1, <2>2 DEF SheetInv
<1>3. SheetInv /\ IInv /\ [Next]_vars => [Once]_vars
  BY <1>2
<1> QED
  BY <1>1, <1>3, SheetStep, LoopCorrect, PTL DEF FairSpec, Spec, SheetsAreTakenOnce
==============================================================================
