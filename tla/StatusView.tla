------------------------------ MODULE StatusView ------------------------------
(***************************************************************************)
(* What the operator sees: the colour of the LED (scanner_led_model.c) and *)
(* the tone of the screen (scanner_display_model.c) as functions of the    *)
(* gateway state, the last result and the scanner's status. The            *)
(* application draws at the end of every block that changes them, and      *)
(* after a status poll only when the poll says that something changed.     *)
(* The order of the blocks is Gateway's; here they come in any order.      *)
(* Whether the panels are awake is VisualIdle's.                           *)
(***************************************************************************)

VARIABLES
  display_phase, \* gateway_phase_t
  uncertain,   \* gateway.storage_uncertain
  result,      \* gateway_result_t
  status,      \* the fields of scanner_display_state_t a poll sets
  drawn        \* what was last drawn

viewed == <<display_phase, uncertain, result, status, drawn>>

Busy   == {"ACQUIRING", "CAPTURING", "FINALIZING", "RESTORING"}
DisplayPhases == {"STARTING", "READY", "MAINTENANCE", "TIME_SYNC", "STOPPED"} \cup Busy
Papers == {"UNKNOWN", "EMPTY", "LOADED"}

Results == [present : BOOLEAN, saved : BOOLEAN, failed : BOOLEAN, cleanup_warning : BOOLEAN,
            crop_warning : BOOLEAN, acknowledged : BOOLEAN]
Status  == [wifi_connected : BOOLEAN, scanner_available : BOOLEAN, paper : Papers,
            battery_low : BOOLEAN]

Colors == {"RED", "ORANGE", "BLUE", "WHITE", "AMBER", "CYAN", "GREEN"}
Tones  == {"WARNING", "READY", "ACTIVE", "ERROR"}

ViewTypeOK ==
  /\ display_phase \in DisplayPhases /\ uncertain \in BOOLEAN
  /\ result \in Results /\ status \in Status
  /\ drawn \in [led : Colors, tone : Tones, status : Status]

-----------------------------------------------------------------------------
Unseen(r) == r.present /\ ~r.acknowledged
Warned(r) == r.cleanup_warning \/ r.crop_warning

\* scanner_led_color: the first of these that holds.
Led(p, r, s) ==
  LET red    == p = "STOPPED" \/ (Unseen(r) /\ r.failed)
      orange == Unseen(r) /\ Warned(r)
  IN  IF red THEN "RED"
      ELSE IF orange THEN "ORANGE"
      ELSE IF p \in Busy THEN "BLUE"
      ELSE IF p \in {"MAINTENANCE", "TIME_SYNC"} \/ s.battery_low THEN "ORANGE"
      ELSE IF p = "STARTING" THEN "WHITE"
      ELSE IF ~s.wifi_connected \/ ~s.scanner_available THEN "AMBER"
      ELSE IF s.paper = "LOADED" THEN "CYAN" ELSE "GREEN"

PhaseTone(p) ==
  CASE p = "READY" -> "READY"
    [] p \in Busy -> "ACTIVE"
    [] p = "STOPPED" -> "ERROR"
    [] OTHER -> "WARNING"

\* format_gateway: the phase, overridden by an unseen result, then by a stop.
Tone(p, r) ==
  IF p = "STOPPED" THEN "ERROR"
  ELSE IF Unseen(r) /\ r.failed THEN "ERROR"
  ELSE IF Unseen(r) /\ Warned(r) THEN "WARNING"
  ELSE PhaseTone(p)

\* scanner_led_show and scanner_display_show; the screen has a line for each
\* field of the status besides.
View(p, r, s) == [led |-> Led(p, r, s), tone |-> Tone(p, r), status |-> s]

Redraw == drawn' = View(display_phase', result', status')

ViewInit ==
  /\ display_phase = "STARTING" /\ uncertain = FALSE
  /\ result = [present |-> FALSE, saved |-> FALSE, failed |-> FALSE, cleanup_warning |-> FALSE,
               crop_warning |-> FALSE, acknowledged |-> FALSE]
  /\ status = [wifi_connected |-> FALSE, scanner_available |-> FALSE, paper |-> "UNKNOWN",
               battery_low |-> FALSE]
  /\ drawn = View(display_phase, result, status)

-----------------------------------------------------------------------------
\* gateway_state_set_phase: a stopped gateway stays stopped.
Entered(p) == IF uncertain THEN display_phase ELSE p

Enter(p) ==
  /\ p # "STOPPED"
  /\ display_phase' = Entered(p)
  /\ UNCHANGED <<uncertain, result, status>>
  /\ Redraw

\* gateway_state_stop
Stop ==
  /\ display_phase' = "STOPPED" /\ uncertain' = TRUE
  /\ UNCHANGED <<result, status>>
  /\ Redraw

\* record_capture after a capture; the next phase and the drawing follow in
\* the same block. A page that was not saved has no warnings.
Captured(r) ==
  /\ r.present /\ ~r.acknowledged
  /\ r.failed = ~r.saved
  /\ Warned(r) => r.saved
  /\ result' = r
  /\ display_phase' = Entered("RESTORING")
  /\ UNCHANGED <<uncertain, status>>
  /\ Redraw

\* gateway_state_acknowledge_result
Acknowledge ==
  /\ display_phase \in {"READY", "MAINTENANCE", "STOPPED"}
  /\ result' = [result EXCEPT !.acknowledged = TRUE]
  /\ UNCHANGED <<display_phase, uncertain, status>>
  /\ Redraw

\* scanner_display_apply_scanner_status: an invalid status says nothing of
\* the battery.
Applied(connected, s) ==
  [after |-> [wifi_connected |-> connected, scanner_available |-> s.valid, paper |-> s.paper,
              battery_low |-> IF s.valid THEN s.battery_low ELSE status.battery_low],
   changed |-> \/ status.wifi_connected # connected
               \/ status.scanner_available # s.valid
               \/ status.paper # s.paper
               \/ s.valid /\ status.battery_low # s.battery_low]

\* The poll of the loop. esci_scanner_status knows the paper of a valid
\* status only, and may know the battery of an invalid one.
Poll(connected, s) ==
  /\ ~uncertain /\ display_phase = "READY"
  /\ ~connected => ~s.valid /\ ~s.battery_low
  /\ ~s.valid => s.paper = "UNKNOWN"
  /\ s.valid => s.paper # "UNKNOWN"
  /\ LET poll == Applied(connected, s)
     IN  /\ status' = poll.after
         /\ UNCHANGED <<display_phase, uncertain, result>>
         /\ IF poll.changed THEN Redraw ELSE UNCHANGED drawn

ViewNext ==
  \/ \E p \in DisplayPhases : Enter(p)
  \/ Stop
  \/ \E r \in Results : Captured(r)
  \/ Acknowledge
  \/ \E connected \in BOOLEAN, s \in [valid : BOOLEAN, paper : Papers, battery_low : BOOLEAN] :
       Poll(connected, s)

ViewSpec == ViewInit /\ [][ViewNext]_viewed

-----------------------------------------------------------------------------
(* What is lit and drawn is what the state says, after every poll too: a   *)
(* poll that reports no change has changed nothing that shows              *)
(* (scanner_display_model.c:16-25, main.c:303-307).                        *)
ShownIsCurrent == drawn = View(display_phase, result, status)

(* The two devices, which decide by different code, tell the same: red and *)
(* the error tone for a stop and for a failure not yet acknowledged, in    *)
(* every phase; a green or cyan light only on a screen that says ready,    *)
(* blue only on one that says active (scanner_led_model.c:8-19,            *)
(* scanner_display_model.c:27-73).                                         *)
DevicesAgree ==
  /\ drawn.led = "RED" <=> drawn.tone = "ERROR"
  /\ drawn.led \in {"GREEN", "CYAN"} => drawn.tone = "READY"
  /\ drawn.led = "BLUE" <=> drawn.tone = "ACTIVE"

(* A red light goes out only because the failure was acknowledged or the   *)
(* result of a later page took its place, and a stopped gateway's never:   *)
(* "routine phase changes cannot resume a stopped storage owner"           *)
(* (gateway_state_model.h:29).                                             *)
RedStays ==
  [][drawn.led = "RED" /\ drawn'.led # "RED" =>
       /\ ~uncertain
       /\ Unseen(result)
       /\ \/ result' = [result EXCEPT !.acknowledged = TRUE]
          \/ Unseen(result') /\ result'.saved]_viewed
==============================================================================
