----------------------------- MODULE VisualIdle -----------------------------
(***************************************************************************)
(* The screen and the status LED of the gateway, and the policy that       *)
(* darkens both after five idle minutes: scanner_idle_model.c (pure        *)
(* state), the display and LED drivers (whose hardware calls may fail at   *)
(* any time) and the functions of main.c that drive them and publish to    *)
(* the button task whether the user can see anything.                      *)
(*                                                                         *)
(* Time is kept as differences: `since` is the time from the last activity,*)
(* `wait` the time left before the next off attempt, both in seconds that  *)
(* pass whenever Tick is taken, also while a device call blocks.           *)
(***************************************************************************)
EXTENDS Integers

CONSTANTS Timeout,      \* VISUAL_IDLE_TIMEOUT_US in seconds
          RetryDelay    \* the 1000000 us of scanner_idle_transition_result

ASSUME IdleAssumption == Timeout \in Nat \ {0} /\ RetryDelay \in Nat \ {0}

VARIABLES
  idle,           \* scanner_idle_model_t visual_idle
  since, wait,    \* now - last_activity_us, next_attempt_us - now
  display, led,   \* the static state of scanner_display.c and scanner_led.c
  lit,            \* what the hardware shows: panel, backlight and LED pixel
  phase,          \* display_state.phase: "WAITING" or one that bars sleep
  control_busy,
  context,        \* scanner_button_set_context: [awake, idle]
  pc, call,       \* where app_main is, and the locals of the calls it is in
  tries           \* off attempts since the last activity (history)

vars == <<idle, since, wait, display, led, lit, phase, control_busy, context,
          pc, call, tries>>

OffAttempts == 3
Phases == {"WAITING", "SCANNING"}
Places == {"LOOP", "WORK", "SCREEN", "LED", "RESULT", "DRAW", "LIGHT", "SHOWN"}

TypeOK ==
  /\ idle \in [asleep : BOOLEAN, requested_awake : BOOLEAN,
               display_awake : BOOLEAN, display_valid : BOOLEAN,
               led_awake : BOOLEAN, led_valid : BOOLEAN,
               pending : BOOLEAN, exhausted : BOOLEAN,
               off_attempts : 0..OffAttempts]
  /\ since \in 0..Timeout /\ wait \in 0..RetryDelay
  /\ display \in [enabled : BOOLEAN, panel : BOOLEAN, backlight_ready : BOOLEAN,
                  dma_uncertain : BOOLEAN, sleeping : BOOLEAN]
  /\ led \in [enabled : BOOLEAN]
  /\ lit \in [panel : BOOLEAN, backlight : BOOLEAN, pixel : BOOLEAN]
  /\ phase \in Phases /\ control_busy \in BOOLEAN
  /\ context \in [awake : BOOLEAN, idle : BOOLEAN]
  /\ pc \in Places
  /\ call \in [busy : BOOLEAN, show : BOOLEAN, screen : BOOLEAN, led : BOOLEAN]
  /\ tries \in 0..(OffAttempts + 1)

-----------------------------------------------------------------------------
(* scanner_idle_model.c: functions of the idle record. *)

\* Defect: the LED is not asked.
ConfirmedScreenOnly(i) == i.display_valid /\ i.display_awake

Confirmed(i) == i.display_valid /\ i.display_awake /\ i.led_valid /\ i.led_awake

Activity(i) ==
  [i EXCEPT !.asleep = FALSE, !.requested_awake = TRUE, !.exhausted = FALSE,
            !.off_attempts = 0, !.pending = ~Confirmed(i)]

IdleDue ==
  /\ ~idle.asleep /\ ~idle.exhausted
  /\ phase # "SCANNING"
  /\ since = Timeout

RequestSleep(i) ==
  IF ~i.requested_awake /\ (i.pending \/ i.exhausted \/ i.asleep)
  THEN i
  ELSE [i EXCEPT !.requested_awake = FALSE, !.pending = TRUE,
                 !.off_attempts = 0]

TransitionDue(i, left) == i.pending /\ ~i.exhausted /\ left = 0

\* Defect: failures are not counted.
ResultUncounted(i, displayOk, ledOk) ==
  [i EXCEPT !.display_valid = displayOk, !.led_valid = ledOk,
            !.asleep = ~i.requested_awake /\ displayOk /\ ledOk,
            !.pending = ~i.requested_awake /\ ~(displayOk /\ ledOk)]

TransitionResult(i, displayOk, ledOk) ==
  LET told == [i EXCEPT !.display_valid = displayOk, !.led_valid = ledOk,
                        !.display_awake = IF displayOk THEN i.requested_awake ELSE @,
                        !.led_awake = IF ledOk THEN i.requested_awake ELSE @,
                        !.asleep = ~i.requested_awake /\ displayOk /\ ledOk]
      failures == i.off_attempts + 1
  IN  CASE i.requested_awake \/ (displayOk /\ ledOk) -> [told EXCEPT !.pending = FALSE]
        [] OTHER -> [told EXCEPT !.off_attempts = failures,
                                 !.exhausted = failures >= OffAttempts,
                                 !.pending = failures < OffAttempts]

-----------------------------------------------------------------------------
(* main.c: what the button task is told. *)

VisualsAwake(i) == i.requested_awake /\ ~i.asleep /\ Confirmed(i)

\* button_idle: READY, MAINTENANCE and STOPPED are all shown as "WAITING".
Published(i, busy, p) ==
  [awake |-> VisualsAwake(i), idle |-> ~busy /\ p = "WAITING"]

WakeOnly == [awake |-> FALSE, idle |-> FALSE]

-----------------------------------------------------------------------------
(* scanner_display_start and scanner_led_start may fail at any call.  A    *)
(* failed start has freed the panel but may have left light on.  Init is   *)
(* the state in which app_main has recorded both results and enters        *)
(* show_status(false).                                                     *)

DisplayStarted(ok) ==
  /\ display \in [enabled : {ok}, panel : {ok}, backlight_ready : BOOLEAN,
                  dma_uncertain : {FALSE}, sleeping : {FALSE}]
  /\ ok => display.backlight_ready /\ lit.panel /\ lit.backlight

LedStarted(ok) ==
  /\ led \in [enabled : BOOLEAN]
  /\ ok => led.enabled

Init ==
  /\ lit \in [panel : BOOLEAN, backlight : BOOLEAN, pixel : BOOLEAN]
  /\ \E screenOk, ledOk \in BOOLEAN :
       /\ DisplayStarted(screenOk)
       /\ LedStarted(ledOk)
       /\ idle = [asleep |-> FALSE, requested_awake |-> TRUE,
                  display_awake |-> screenOk, display_valid |-> screenOk,
                  led_awake |-> ledOk, led_valid |-> ledOk,
                  pending |-> FALSE, exhausted |-> FALSE, off_attempts |-> 0]
  /\ since = 0 /\ wait = 0 /\ tries = 0
  /\ phase = "SCANNING" /\ control_busy = TRUE
  /\ context = Published(idle, TRUE, phase)
  /\ pc = "DRAW"
  /\ call = [busy |-> TRUE, show |-> TRUE, screen |-> TRUE, led |-> TRUE]

-----------------------------------------------------------------------------
(* main.c: show_status, service_visual_idle and apply_visual_transition.   *)

AfterTransition(show, awake) ==
  CASE ~show -> "LOOP" [] show /\ awake -> "DRAW" [] OTHER -> "SHOWN"

\* apply_visual_transition up to its first device call; `told` is what the
\* caller has published before.
BeginTransition(i, left, show, told) ==
  /\ idle' = i
  /\ IF TransitionDue(i, left)
     THEN pc' = "SCREEN" /\ context' = WakeOnly
     ELSE pc' = AfterTransition(show, i.requested_awake) /\ context' = told

ShowStatus(activity, p) ==
  /\ pc \in {"LOOP", "WORK"}
  /\ phase' = p
  /\ control_busy' = TRUE
  /\ call' = [call EXCEPT !.busy = control_busy, !.show = TRUE]
  /\ since' = IF activity THEN 0 ELSE since
  /\ wait' = IF activity THEN 0 ELSE wait
  /\ tries' = IF activity THEN 0 ELSE tries
  /\ BeginTransition(IF activity THEN Activity(idle) ELSE idle, wait', TRUE,
                     Published(idle, TRUE, p))
  /\ UNCHANGED <<display, led, lit>>

\* A wake decision, a changed status, an instruction: the phase stays.
LoopShows(activity) == pc = "LOOP" /\ ShowStatus(activity, phase)

\* A page or a maintenance change begins: busy until EndWork.
StartWork ==
  /\ pc = "LOOP"
  /\ phase' = "SCANNING"
  /\ control_busy' = TRUE
  /\ call' = [call EXCEPT !.busy = TRUE, !.show = TRUE]
  /\ since' = 0 /\ wait' = 0 /\ tries' = 0
  /\ BeginTransition(Activity(idle), 0, TRUE, Published(idle, TRUE, "SCANNING"))
  /\ UNCHANGED <<display, led, lit>>

\* Progress of the work (no activity) and its changes of phase (activity).
WorkShows(activity) ==
  /\ pc = "WORK"
  /\ \E p \in Phases : (activity \/ p = phase) /\ ShowStatus(activity, p)

EndWork ==
  /\ pc = "WORK" /\ phase = "WAITING"
  /\ control_busy' = FALSE
  /\ context' = Published(idle, FALSE, phase)
  /\ pc' = "LOOP"
  /\ UNCHANGED <<idle, since, wait, display, led, lit, phase, call, tries>>

ServiceVisualIdle ==
  /\ pc = "LOOP"
  /\ LET asked == IF IdleDue THEN RequestSleep(idle) ELSE idle
         left == IF asked # idle THEN 0 ELSE wait
     IN  /\ wait' = left
         /\ BeginTransition(asked, left, FALSE, context)
  /\ call' = [call EXCEPT !.show = FALSE]
  /\ UNCHANGED <<since, display, led, lit, phase, control_busy, tries>>

\* scanner_display_set_awake(false): the backlight first, whatever happened
\* to the panel; then the panel unless a transfer may still own it.
ScreenOff ==
  /\ pc = "SCREEN" /\ ~idle.requested_awake
  /\ \E configured, level, off, effect \in BOOLEAN :
       LET ready == display.backlight_ready \/ configured
           light == ready /\ level
           commanded == ~display.dma_uncertain /\ display.panel
           screen == ~display.dma_uncertain /\ (display.panel => off)
           result == light /\ screen
       IN  /\ display' = [display EXCEPT !.backlight_ready = ready,
                                         !.sleeping = result]
           /\ lit' = [lit EXCEPT !.backlight = @ /\ ~light,
                                 !.panel = IF commanded
                                           THEN @ /\ ~(off \/ effect) ELSE @]
           /\ call' = [call EXCEPT !.screen = result]
  /\ tries' = IF tries <= OffAttempts THEN tries + 1 ELSE tries
  /\ pc' = "LED"
  /\ UNCHANGED <<idle, since, wait, led, phase, control_busy, context>>

\* scanner_display_set_awake(true): refused for good once a call has failed.
ScreenOn ==
  /\ pc = "SCREEN" /\ idle.requested_awake
  /\ \/ /\ ~display.enabled
        /\ call' = [call EXCEPT !.screen = FALSE]
        /\ UNCHANGED <<display, lit>>
     \/ /\ display.enabled
        /\ \E on, level, effect \in BOOLEAN :
             /\ display' = [display EXCEPT !.sleeping = ~(on /\ level)]
             /\ lit' = [lit EXCEPT !.panel = @ \/ on \/ effect,
                                   !.backlight = @ \/ (on /\ level)]
             /\ call' = [call EXCEPT !.screen = on /\ level]
  /\ pc' = "LED"
  /\ UNCHANGED <<idle, since, wait, led, phase, control_busy, context, tries>>

\* scanner_led_set_awake: clear to sleep; to wake, refresh what clear left.
LedSetAwake ==
  /\ pc = "LED"
  /\ \E sent, effect \in BOOLEAN :
       LET ok == led.enabled /\ sent
       IN  /\ lit' = [lit EXCEPT !.pixel =
                        IF led.enabled /\ (sent \/ effect) /\ ~idle.requested_awake
                        THEN FALSE ELSE @]
           /\ call' = [call EXCEPT !.led = ok]
  /\ pc' = "RESULT"
  /\ UNCHANGED <<idle, since, wait, display, led, phase, control_busy, context, tries>>

Result ==
  /\ pc = "RESULT"
  /\ LET i == TransitionResult(idle, call.screen, call.led)
     IN  /\ idle' = i
         /\ wait' = IF i.pending THEN RetryDelay ELSE wait
         /\ context' = Published(i, control_busy, phase)
         /\ pc' = AfterTransition(call.show, i.requested_awake)
  /\ call' = [call EXCEPT !.screen = TRUE, !.led = TRUE]
  /\ UNCHANGED <<since, display, led, lit, phase, control_busy, tries>>

\* scanner_display_show: one lost transfer disables rendering for good.
Draw ==
  /\ pc = "DRAW"
  /\ LET failed(d) ==
           /\ display' = d
           /\ idle' = [idle EXCEPT !.display_valid = FALSE]
           /\ context' = Published(idle', control_busy, phase)
     IN  \/ /\ display.enabled /\ ~display.sleeping
            /\ UNCHANGED <<display, idle, context>>
         \/ /\ display.enabled /\ ~display.sleeping
            /\ failed([display EXCEPT !.dma_uncertain = TRUE, !.enabled = FALSE])
         \/ /\ ~display.enabled \/ display.sleeping
            /\ failed(display)
  /\ pc' = "LIGHT"
  /\ UNCHANGED <<since, wait, led, lit, phase, control_busy, call, tries>>

\* scanner_led_show: a colour that is never black.
Light ==
  /\ pc = "LIGHT"
  /\ \E sent, effect \in BOOLEAN :
       LET ok == led.enabled /\ sent
       IN  /\ lit' = [lit EXCEPT !.pixel = @ \/ (led.enabled /\ (sent \/ effect))]
           /\ idle' = [idle EXCEPT !.led_valid = @ /\ ok]
           /\ context' = IF ok THEN context ELSE Published(idle', control_busy, phase)
  /\ pc' = "SHOWN"
  /\ UNCHANGED <<since, wait, display, led, phase, control_busy, call, tries>>

Shown ==
  /\ pc = "SHOWN"
  /\ control_busy' = call.busy
  /\ context' = Published(idle, call.busy, phase)
  /\ pc' = IF call.busy THEN "WORK" ELSE "LOOP"
  /\ call' = [call EXCEPT !.busy = TRUE, !.show = TRUE]
  /\ UNCHANGED <<idle, since, wait, display, led, lit, phase, tries>>

Tick ==
  /\ since < Timeout \/ wait > 0
  /\ since' = IF since < Timeout THEN since + 1 ELSE since
  /\ wait' = IF wait > 0 THEN wait - 1 ELSE wait
  /\ UNCHANGED <<idle, display, led, lit, phase, control_busy, context, pc, call, tries>>

Devices == ScreenOff \/ ScreenOn \/ LedSetAwake \/ Result \/ Draw \/ Light \/ Shown

Next ==
  \/ \E activity \in BOOLEAN : LoopShows(activity) \/ WorkShows(activity)
  \/ StartWork
  \/ EndWork
  \/ ServiceVisualIdle
  \/ Devices
  \/ Tick

\* Device calls return (the transfer wait is one second at most), time
\* passes, the loop reaches service_visual_idle every iteration.
Fairness ==
  /\ WF_vars(Devices) /\ WF_vars(Tick)
  /\ SF_vars(ServiceVisualIdle)

Spec == Init /\ [][Next]_vars /\ Fairness

-----------------------------------------------------------------------------
ScreenVisible == lit.panel /\ lit.backlight

(* The button task treats a press as a command only when it was told that  *)
(* the visuals are awake and the application idle: then the screen and the *)
(* LED really show something (main.c:50-58, 79-118).                       *)
CommandsAreSeen == context.awake /\ context.idle => ScreenVisible /\ lit.pixel

(* A model that believes it is asleep has darkened both devices, and one   *)
(* that gave up has darkened each device whose last call succeeded         *)
(* (scanner_idle_transition_result).                                       *)
RestIsDark ==
  /\ idle.asleep => ~lit.backlight /\ ~lit.pixel
  /\ idle.exhausted => /\ idle.display_valid => ~lit.backlight
                       /\ idle.led_valid => ~lit.pixel

(* "Failed off transitions are retried at one-second intervals, at most    *)
(* three times" (README.md:37-41): no fourth attempt without activity,     *)
(* however often the loop finds the visuals still awake.                   *)
ThreeAttemptsAtMost == tries <= OffAttempts

(* After a transfer may still own the panel no panel command is issued     *)
(* (the panel keeps its state), whatever wakes and sleeps follow.          *)
UncertainPanelIsLeftAlone ==
  [][display.dma_uncertain => UNCHANGED <<lit.panel, display.enabled>>]_vars

(* Between two calls of the application, the button task always knows the  *)
(* present state of the visuals and of the work, whichever of the device   *)
(* calls failed and whichever path published last: no stale "awake" and no *)
(* stale "busy" (main.c:55-58, 79-125).                                    *)
ContextIsCurrent ==
  pc \in {"LOOP", "WORK"} => context = Published(idle, control_busy, phase)

(* An idle gateway goes dark, or gives up after its three attempts, unless *)
(* something happens first; a failing device cannot keep it retrying.      *)
IdleEnds ==
  (since = Timeout /\ phase = "WAITING" /\ pc = "LOOP")
    ~> (idle.asleep \/ idle.exhausted \/ since = 0)

(* What holds between the policy, the two devices and the button task: the *)
(* parts above.                                                            *)
PanelInv ==
  TypeOK /\ CommandsAreSeen /\ RestIsDark /\ ThreeAttemptsAtMost /\ ContextIsCurrent

(* What its steps may and must do: leave a doubtful panel alone, and come  *)
(* to rest.                                                                *)
PanelSteps == UncertainPanelIsLeftAlone /\ IdleEnds
====
