---------------------------- MODULE OperatorProofs ----------------------------
(***************************************************************************)
(* Proofs about what the operator is given: whether the screen and the LED *)
(* are on (VisualIdle), what they show (StatusView), the records kept to   *)
(* be read later (DiagnosticsRing), and the button (ScannerButton). The    *)
(* four share no state; each part below is about one of them.              *)
(***************************************************************************)
EXTENDS VisualIdle, StatusView, DiagnosticsRing, ScannerButton, TLAPS

-----------------------------------------------------------------------------
(* VisualIdle. The inductive invariant says, place by place of the calls   *)
(* in main.c, how the idle record, the two devices and the context of the  *)
(* button task stand to each other.                                        *)

InDevice == pc \in {"SCREEN", "LED", "RESULT"}

\* The idle record: awake it is at rest; asked to sleep it is trying, has
\* given up or is asleep, and counts what fails.
ModelInv ==
  /\ idle.requested_awake => ~idle.asleep /\ ~idle.exhausted /\ idle.off_attempts = 0 /\ tries = 0
  /\ idle.requested_awake => (idle.pending <=> InDevice)
  /\ ~idle.requested_awake => idle.pending \/ idle.exhausted \/ idle.asleep
  /\ idle.pending => ~idle.exhausted /\ ~idle.asleep /\ idle.off_attempts < OffAttempts
  /\ idle.asleep => ~idle.exhausted
  /\ InDevice => idle.pending
  /\ pc \in {"DRAW", "LIGHT"} => idle.requested_awake

\* The attempts made are those that failed, the one being made, and the one
\* that succeeded.
TriesInv ==
  /\ tries <= OffAttempts
  /\ ~idle.requested_awake =>
       tries = idle.off_attempts + (IF pc \in {"LED", "RESULT"} \/ idle.asleep THEN 1 ELSE 0)
  /\ idle.asleep => idle.off_attempts < OffAttempts

\* The busy flag and the draw to come.
ShowInv ==
  /\ pc \in {"DRAW", "LIGHT", "SHOWN"} => control_busy /\ ~context.idle
  /\ InDevice => context = WakeOnly /\ (call.show => control_busy)
  /\ InDevice /\ idle.requested_awake => call.show
  /\ ContextIsCurrent

\* The devices, as the record has them.
DeviceInv ==
  /\ /\ idle.display_valid /\ idle.display_awake
     /\ idle.requested_awake \/ pc \notin {"LED", "RESULT"}
     => ScreenVisible
  /\ pc \in {"LED", "RESULT"} /\ call.screen =>
       IF idle.requested_awake THEN ScreenVisible ELSE ~lit.backlight
  /\ pc = "RESULT" /\ call.led /\ ~idle.requested_awake => ~lit.pixel
  /\ pc \in {"SHOWN", "LOOP", "WORK"} /\ idle.requested_awake /\ idle.led_valid => lit.pixel
  /\ display.dma_uncertain => ~display.enabled
  /\ RestIsDark

PanelIInv == TypeOK /\ ModelInv /\ TriesInv /\ ShowInv /\ DeviceInv

-----------------------------------------------------------------------------
(* The records and the functions of scanner_idle_model.c.                  *)

Idles == [asleep : BOOLEAN, requested_awake : BOOLEAN,
          display_awake : BOOLEAN, display_valid : BOOLEAN,
          led_awake : BOOLEAN, led_valid : BOOLEAN,
          pending : BOOLEAN, exhausted : BOOLEAN, off_attempts : 0..OffAttempts]
Displays == [enabled : BOOLEAN, panel : BOOLEAN, backlight_ready : BOOLEAN,
             dma_uncertain : BOOLEAN, sleeping : BOOLEAN]
Lights == [panel : BOOLEAN, backlight : BOOLEAN, pixel : BOOLEAN]
Contexts == [awake : BOOLEAN, idle : BOOLEAN]
Calls == [busy : BOOLEAN, show : BOOLEAN, screen : BOOLEAN, led : BOOLEAN]
Small == /\ since \in 0..Timeout /\ wait \in 0..RetryDelay /\ led \in [enabled : BOOLEAN]
         /\ phase \in Phases /\ control_busy \in BOOLEAN /\ pc \in Places
         /\ tries \in 0..(OffAttempts + 1)

(* The types, record by record.                                            *)
LEMMA TypeParts ==
  /\ TypeOK <=> /\ idle \in Idles /\ display \in Displays /\ lit \in Lights
                /\ context \in Contexts /\ call \in Calls /\ Small
  /\ TypeOK' <=> /\ idle' \in Idles /\ display' \in Displays /\ lit' \in Lights
                 /\ context' \in Contexts /\ call' \in Calls /\ Small'
BY DEF TypeOK, Idles, Displays, Lights, Contexts, Calls, Small

(* scanner_idle_note_activity                                              *)
LEMMA ActivitySays ==
  ASSUME NEW i \in Idles
  PROVE  LET a == Activity(i)
         IN  /\ a \in Idles
             /\ ~a.asleep /\ a.requested_awake /\ ~a.exhausted /\ a.off_attempts = 0
             /\ a.pending <=> ~Confirmed(i)
             /\ a.display_valid = i.display_valid /\ a.display_awake = i.display_awake
             /\ a.led_valid = i.led_valid /\ a.led_awake = i.led_awake
<1>1. PICK b \in BOOLEAN : b = ~Confirmed(i)
  BY DEF Confirmed
<1>2. Activity(i) = [i EXCEPT !.asleep = FALSE, !.requested_awake = TRUE, !.exhausted = FALSE,
                              !.off_attempts = 0, !.pending = b]
  BY <1>1 DEF Activity
<1>3. 0 \in 0..OffAttempts
  BY DEF OffAttempts
<1> QED
  BY <1>1, <1>2, <1>3 DEF Idles

(* scanner_idle_request_sleep, of a model that is awake.                   *)
LEMMA RequestSleepSays ==
  ASSUME NEW i \in Idles, i.requested_awake, ~i.exhausted, ~i.asleep, i.off_attempts = 0
  PROVE  LET a == RequestSleep(i)
         IN  /\ a \in Idles
             /\ ~a.asleep /\ ~a.requested_awake /\ ~a.exhausted /\ a.off_attempts = 0
             /\ a.pending
             /\ a.display_valid = i.display_valid /\ a.display_awake = i.display_awake
             /\ a.led_valid = i.led_valid /\ a.led_awake = i.led_awake
BY DEF RequestSleep, Idles, OffAttempts

(* scanner_idle_transition_result: what each device is believed to do now, *)
(* and whether the attempt succeeded, is retried or was the last.          *)
LEMMA ResultSays ==
  ASSUME NEW i \in Idles, NEW d \in BOOLEAN, NEW l \in BOOLEAN,
         i.off_attempts < OffAttempts
  PROVE  LET r == TransitionResult(i, d, l)
         IN  /\ r \in Idles
             /\ r.requested_awake = i.requested_awake
             /\ r.display_valid = d /\ r.led_valid = l
             /\ r.display_awake = IF d THEN i.requested_awake ELSE i.display_awake
             /\ r.led_awake = IF l THEN i.requested_awake ELSE i.led_awake
             /\ r.asleep <=> ~i.requested_awake /\ d /\ l
             /\ i.requested_awake \/ (d /\ l) =>
                  ~r.pending /\ r.exhausted = i.exhausted /\ r.off_attempts = i.off_attempts
             /\ ~(i.requested_awake \/ (d /\ l)) =>
                  /\ r.off_attempts = i.off_attempts + 1
                  /\ r.exhausted <=> r.off_attempts = OffAttempts
                  /\ r.pending <=> r.off_attempts < OffAttempts
<1>1. PICK da \in BOOLEAN : da = IF d THEN i.requested_awake ELSE i.display_awake
  BY DEF Idles
<1>2. PICK la \in BOOLEAN : la = IF l THEN i.requested_awake ELSE i.led_awake
  BY DEF Idles
<1>3. PICK rest \in BOOLEAN : rest = (~i.requested_awake /\ d /\ l)
  OBVIOUS
<1> DEFINE told == [i EXCEPT !.display_valid = d, !.led_valid = l, !.display_awake = da,
                             !.led_awake = la, !.asleep = rest]
<1>4. TransitionResult(i, d, l) =
        IF i.requested_awake \/ (d /\ l) THEN [told EXCEPT !.pending = FALSE]
        ELSE [told EXCEPT !.off_attempts = i.off_attempts + 1,
                          !.exhausted = i.off_attempts + 1 >= OffAttempts,
                          !.pending = i.off_attempts + 1 < OffAttempts]
  BY <1>1, <1>2, <1>3 DEF TransitionResult
<1>5. /\ told \in Idles /\ told.display_valid = d /\ told.led_valid = l
      /\ told.display_awake = da /\ told.led_awake = la /\ told.asleep = rest
      /\ told.requested_awake = i.requested_awake /\ told.exhausted = i.exhausted
      /\ told.off_attempts = i.off_attempts
  <2>1. da \in BOOLEAN /\ la \in BOOLEAN /\ rest \in BOOLEAN
    BY <1>1, <1>2, <1>3
  <2>2. told \in Idles
    BY <2>1 DEF Idles
  <2>3. told.display_valid = d /\ told.led_valid = l /\ told.display_awake = da
    BY DEF Idles
  <2>4. told.led_awake = la /\ told.asleep = rest
    BY DEF Idles
  <2>5. /\ told.requested_awake = i.requested_awake /\ told.exhausted = i.exhausted
        /\ told.off_attempts = i.off_attempts
    BY DEF Idles
  <2> QED
    BY <2>2, <2>3, <2>4, <2>5
<1> HIDE DEF told
<1>6. CASE i.requested_awake \/ (d /\ l)
  <2>1. TransitionResult(i, d, l) = [told EXCEPT !.pending = FALSE]
    BY <1>4, <1>6
  <2> QED
    BY <1>1, <1>2, <1>3, <1>5, <1>6, <2>1, ZenonT(40) DEF Idles
<1>7. CASE ~(i.requested_awake \/ (d /\ l))
  <2>1. PICK n \in 0..OffAttempts : n = i.off_attempts + 1
    BY DEF Idles, OffAttempts
  <2>2. CASE n = OffAttempts
    <3>1. (n >= OffAttempts) = TRUE /\ (n < OffAttempts) = FALSE
      BY <2>2 DEF OffAttempts
    <3>2. TransitionResult(i, d, l) =
            [told EXCEPT !.off_attempts = n, !.exhausted = TRUE, !.pending = FALSE]
      BY <1>4, <1>7, <2>1, <3>1
    <3>3. PICK r : r = [told EXCEPT !.off_attempts = n, !.exhausted = TRUE, !.pending = FALSE]
      OBVIOUS
    <3>4. r \in Idles
      BY <1>5, <2>1, <3>3 DEF Idles
    <3>5. /\ r.off_attempts = n /\ r.exhausted = TRUE /\ r.pending = FALSE
          /\ r.requested_awake = told.requested_awake /\ r.display_valid = told.display_valid
          /\ r.led_valid = told.led_valid /\ r.display_awake = told.display_awake
          /\ r.led_awake = told.led_awake /\ r.asleep = told.asleep
      BY <1>5, <3>3 DEF Idles
    <3>6. /\ r.off_attempts = i.off_attempts + 1
          /\ r.exhausted <=> r.off_attempts = OffAttempts
          /\ r.pending <=> r.off_attempts < OffAttempts
      BY <2>1, <2>2, <3>5 DEF OffAttempts
    <3>7. r.asleep <=> ~i.requested_awake /\ d /\ l
      BY <1>3, <1>5, <3>5
    <3> QED
      BY <1>1, <1>2, <1>5, <1>7, <3>2, <3>3, <3>4, <3>5, <3>6, <3>7, ZenonT(40)
  <2>3. CASE n < OffAttempts
    <3>1. (n >= OffAttempts) = FALSE /\ (n < OffAttempts) = TRUE
      BY <2>1, <2>3 DEF OffAttempts
    <3>2. TransitionResult(i, d, l) =
            [told EXCEPT !.off_attempts = n, !.exhausted = FALSE, !.pending = TRUE]
      BY <1>4, <1>7, <2>1, <3>1
    <3>3. PICK r : r = [told EXCEPT !.off_attempts = n, !.exhausted = FALSE, !.pending = TRUE]
      OBVIOUS
    <3>4. r \in Idles
      BY <1>5, <2>1, <3>3 DEF Idles
    <3>5. /\ r.off_attempts = n /\ r.exhausted = FALSE /\ r.pending = TRUE
          /\ r.requested_awake = told.requested_awake /\ r.display_valid = told.display_valid
          /\ r.led_valid = told.led_valid /\ r.display_awake = told.display_awake
          /\ r.led_awake = told.led_awake /\ r.asleep = told.asleep
      BY <1>5, <3>3 DEF Idles
    <3>6. /\ r.off_attempts = i.off_attempts + 1
          /\ r.exhausted <=> r.off_attempts = OffAttempts
          /\ r.pending <=> r.off_attempts < OffAttempts
      BY <2>1, <2>3, <3>5 DEF OffAttempts
    <3>7. r.asleep <=> ~i.requested_awake /\ d /\ l
      BY <1>3, <1>5, <3>5
    <3> QED
      BY <1>1, <1>2, <1>5, <1>7, <3>2, <3>3, <3>4, <3>5, <3>6, <3>7
  <2> QED
    BY <2>1, <2>2, <2>3 DEF OffAttempts
<1> QED
  BY <1>6, <1>7

(* What the button task is told is true of the model and of the work.      *)
LEMMA PublishedSays ==
  ASSUME NEW i \in Idles, NEW busy \in BOOLEAN, NEW p \in Phases
  PROVE  LET c == Published(i, busy, p)
         IN  /\ c \in Contexts
             /\ c.awake => i.requested_awake /\ ~i.asleep /\ Confirmed(i)
             /\ c.idle => ~busy /\ p = "WAITING"
<1>1. PICK a \in BOOLEAN : a = VisualsAwake(i)
  BY DEF VisualsAwake
<1>2. PICK b \in BOOLEAN : b = (~busy /\ p = "WAITING")
  OBVIOUS
<1>3. Published(i, busy, p) = [awake |-> a, idle |-> b]
  BY <1>1, <1>2 DEF Published
<1>4. a => i.requested_awake /\ ~i.asleep /\ Confirmed(i)
  BY <1>1 DEF VisualsAwake
<1>5. b => ~busy /\ p = "WAITING"
  BY <1>2
<1>6. Published(i, busy, p).awake = a /\ Published(i, busy, p).idle = b
  BY <1>3
<1>7. Published(i, busy, p) \in Contexts
  BY <1>1, <1>2, <1>3 DEF Contexts
<1> QED
  BY <1>4, <1>5, <1>6, <1>7

LEMMA WakeOnlySays == WakeOnly \in Contexts /\ ~WakeOnly.awake /\ ~WakeOnly.idle
BY DEF WakeOnly, Contexts

-----------------------------------------------------------------------------
(* The device calls.                                                       *)

(* scanner_display_set_awake(false)                                        *)
LEMMA ScreenOffSays ==
  ASSUME TypeOK, ScreenOff
  PROVE  /\ display' \in Displays /\ lit' \in Lights /\ call' \in Calls
         /\ display'.enabled = display.enabled
         /\ display'.dma_uncertain = display.dma_uncertain
         /\ display.dma_uncertain => lit'.panel = lit.panel
         /\ call'.screen => ~lit'.backlight
         /\ call'.show = call.show
<1>1. PICK configured \in BOOLEAN, level \in BOOLEAN, off \in BOOLEAN, effect \in BOOLEAN :
        LET ready == display.backlight_ready \/ configured
            light == ready /\ level
            commanded == ~display.dma_uncertain /\ display.panel
            screen == ~display.dma_uncertain /\ (display.panel => off)
            result_ == light /\ screen
        IN  /\ display' = [display EXCEPT !.backlight_ready = ready, !.sleeping = result_]
            /\ lit' = [lit EXCEPT !.backlight = lit.backlight /\ ~light,
                                  !.panel = IF commanded
                                            THEN lit.panel /\ ~(off \/ effect) ELSE lit.panel]
            /\ call' = [call EXCEPT !.screen = result_]
  BY DEF ScreenOff
<1>2. display \in Displays /\ lit \in Lights /\ call \in Calls
  BY TypeParts
<1>3. PICK ready \in BOOLEAN : ready = (display.backlight_ready \/ configured)
  BY <1>2 DEF Displays
<1>4. PICK light \in BOOLEAN : light = (ready /\ level)
  OBVIOUS
<1>5. PICK result_ \in BOOLEAN :
        result_ = (light /\ ~display.dma_uncertain /\ (display.panel => off))
  BY <1>2 DEF Displays
<1>6. PICK back \in BOOLEAN : back = (lit.backlight /\ ~light)
  BY <1>2 DEF Lights
<1>7. PICK panel \in BOOLEAN :
        panel = IF ~display.dma_uncertain /\ display.panel
                THEN lit.panel /\ ~(off \/ effect) ELSE lit.panel
  BY <1>2 DEF Lights
<1>8. /\ display' = [display EXCEPT !.backlight_ready = ready, !.sleeping = result_]
      /\ lit' = [lit EXCEPT !.backlight = back, !.panel = panel]
      /\ call' = [call EXCEPT !.screen = result_]
  BY <1>1, <1>3, <1>4, <1>5, <1>6, <1>7
<1>9. /\ display' \in Displays /\ display'.enabled = display.enabled
      /\ display'.dma_uncertain = display.dma_uncertain
  BY <1>2, <1>3, <1>5, <1>8 DEF Displays
<1>10. lit' \in Lights /\ lit'.panel = panel /\ lit'.backlight = back
  BY <1>2, <1>6, <1>7, <1>8 DEF Lights
<1>11. call' \in Calls /\ call'.screen = result_ /\ call'.show = call.show
  BY <1>2, <1>5, <1>8 DEF Calls
<1>12. result_ => ~back
  BY <1>5, <1>6
<1>13. display.dma_uncertain => panel = lit.panel
  BY <1>7
<1> QED
  BY <1>9, <1>10, <1>11, <1>12, <1>13

(* scanner_display_set_awake(true)                                         *)
LEMMA ScreenOnSays ==
  ASSUME TypeOK, ScreenOn
  PROVE  /\ display' \in Displays /\ lit' \in Lights /\ call' \in Calls
         /\ display'.enabled = display.enabled
         /\ display'.dma_uncertain = display.dma_uncertain
         /\ ~display.enabled => lit'.panel = lit.panel
         /\ ScreenVisible \/ call'.screen => ScreenVisible'
         /\ call'.show = call.show
<1>1. display \in Displays /\ lit \in Lights /\ call \in Calls
  BY TypeParts
<1>2. CASE ~display.enabled
  <2>1. call' = [call EXCEPT !.screen = FALSE] /\ display' = display /\ lit' = lit
    BY <1>2 DEF ScreenOn
  <2> QED
    BY <1>1, <2>1 DEF Calls, ScreenVisible
<1>3. CASE display.enabled
  <2>1. PICK on \in BOOLEAN, level \in BOOLEAN, effect \in BOOLEAN :
          /\ display' = [display EXCEPT !.sleeping = ~(on /\ level)]
          /\ lit' = [lit EXCEPT !.panel = lit.panel \/ on \/ effect,
                                !.backlight = lit.backlight \/ (on /\ level)]
          /\ call' = [call EXCEPT !.screen = on /\ level]
    BY <1>3 DEF ScreenOn
  <2>2. PICK done \in BOOLEAN : done = (on /\ level)
    OBVIOUS
  <2>3. PICK sleeping \in BOOLEAN : sleeping = (~(on /\ level))
    OBVIOUS
  <2>4. PICK panel \in BOOLEAN : panel = (lit.panel \/ on \/ effect)
    BY <1>1 DEF Lights
  <2>5. PICK back \in BOOLEAN : back = (lit.backlight \/ (on /\ level))
    BY <1>1 DEF Lights
  <2>6. /\ display' = [display EXCEPT !.sleeping = sleeping]
        /\ lit' = [lit EXCEPT !.panel = panel, !.backlight = back]
        /\ call' = [call EXCEPT !.screen = done]
    BY <2>1, <2>2, <2>3, <2>4, <2>5
  <2>7. /\ display' \in Displays /\ display'.enabled = display.enabled
        /\ display'.dma_uncertain = display.dma_uncertain
    BY <1>1, <2>3, <2>6 DEF Displays
  <2>8. lit' \in Lights /\ lit'.panel = panel /\ lit'.backlight = back
    BY <1>1, <2>4, <2>5, <2>6 DEF Lights
  <2>9. call' \in Calls /\ call'.screen = done /\ call'.show = call.show
    BY <1>1, <2>2, <2>6 DEF Calls
  <2>10. done => panel /\ back
    BY <2>2, <2>4, <2>5
  <2>11. lit.panel /\ lit.backlight => panel /\ back
    BY <2>4, <2>5
  <2> QED
    BY <1>3, <2>7, <2>8, <2>9, <2>10, <2>11 DEF ScreenVisible
<1> QED
  BY <1>2, <1>3

(* scanner_led_set_awake                                                   *)
LEMMA LedSetAwakeSays ==
  ASSUME TypeOK, LedSetAwake
  PROVE  /\ lit' \in Lights /\ call' \in Calls
         /\ lit'.panel = lit.panel /\ lit'.backlight = lit.backlight
         /\ call'.led /\ ~idle.requested_awake => ~lit'.pixel
         /\ call'.show = call.show /\ call'.screen = call.screen
<1>1. lit \in Lights /\ call \in Calls /\ led.enabled \in BOOLEAN
  BY TypeParts DEF Small
<1>2. PICK sent \in BOOLEAN, effect \in BOOLEAN :
        /\ lit' = [lit EXCEPT !.pixel =
                     IF led.enabled /\ (sent \/ effect) /\ ~idle.requested_awake
                     THEN FALSE ELSE lit.pixel]
        /\ call' = [call EXCEPT !.led = led.enabled /\ sent]
  BY DEF LedSetAwake
<1>3. PICK ok \in BOOLEAN : ok = (led.enabled /\ sent)
  BY <1>1
<1>4. PICK pixel \in BOOLEAN :
        pixel = IF led.enabled /\ (sent \/ effect) /\ ~idle.requested_awake
                THEN FALSE ELSE lit.pixel
  BY <1>1 DEF Lights
<1>5. lit' = [lit EXCEPT !.pixel = pixel] /\ call' = [call EXCEPT !.led = ok]
  BY <1>2, <1>3, <1>4
<1>6. /\ lit' \in Lights /\ lit'.panel = lit.panel /\ lit'.backlight = lit.backlight
      /\ lit'.pixel = pixel
  BY <1>1, <1>4, <1>5 DEF Lights
<1>7. /\ call' \in Calls /\ call'.led = ok /\ call'.show = call.show
      /\ call'.screen = call.screen
  BY <1>1, <1>3, <1>5 DEF Calls
<1>8. ok /\ ~idle.requested_awake => ~pixel
  BY <1>3, <1>4
<1> QED
  BY <1>6, <1>7, <1>8

\* What drawing and lighting leave of the idle record.
RestOfIdle == <<idle.asleep, idle.requested_awake, idle.display_awake, idle.led_awake,
                idle.pending, idle.exhausted, idle.off_attempts>>

(* scanner_display_show: a lost transfer or a refused drawing costs the    *)
(* screen its place in the model, a lost transfer also its rendering.      *)
LEMMA DrawSays ==
  ASSUME TypeOK, Draw, control_busy, ~context.idle, display.dma_uncertain => ~display.enabled
  PROVE  /\ display' \in Displays /\ idle' \in Idles /\ context' \in Contexts
         /\ ~context'.idle
         /\ UNCHANGED RestOfIdle /\ idle'.led_valid = idle.led_valid
         /\ idle'.display_valid => idle.display_valid
         /\ display.dma_uncertain => UNCHANGED display
         /\ display'.dma_uncertain => ~display'.enabled
<1>1. /\ idle \in Idles /\ display \in Displays /\ context \in Contexts
      /\ control_busy \in BOOLEAN /\ phase \in Phases
  BY TypeParts DEF Small
<1> DEFINE failed(d) == /\ display' = d
                        /\ idle' = [idle EXCEPT !.display_valid = FALSE]
                        /\ context' = Published(idle', control_busy, phase)
<1>2. \/ display' = display /\ idle' = idle /\ context' = context
      \/ display.enabled /\ failed([display EXCEPT !.dma_uncertain = TRUE, !.enabled = FALSE])
      \/ failed(display)
  BY DEF Draw
<1>3. CASE display' = display /\ idle' = idle /\ context' = context
  BY <1>1, <1>3 DEF RestOfIdle
<1>4. ASSUME NEW d \in Displays, failed(d)
      PROVE  /\ idle' \in Idles /\ context' \in Contexts /\ ~context'.idle
             /\ UNCHANGED RestOfIdle /\ idle'.led_valid = idle.led_valid
             /\ idle'.display_valid => idle.display_valid
  <2>1. /\ idle' \in Idles /\ ~idle'.display_valid /\ UNCHANGED RestOfIdle
        /\ idle'.led_valid = idle.led_valid
    BY <1>1, <1>4 DEF Idles, RestOfIdle
  <2> QED
    BY <1>1, <1>4, <2>1, PublishedSays
<1>5. CASE failed(display)
  BY <1>1, <1>4, <1>5
<1>6. CASE /\ display.enabled
           /\ failed([display EXCEPT !.dma_uncertain = TRUE, !.enabled = FALSE])
  <2>1. /\ display' \in Displays /\ display'.dma_uncertain /\ ~display'.enabled
        /\ display' = [display EXCEPT !.dma_uncertain = TRUE, !.enabled = FALSE]
    BY <1>1, <1>6 DEF Displays
  <2> QED
    BY <1>1, <1>4, <1>6, <2>1
<1> QED
  BY <1>2, <1>3, <1>5, <1>6

(* scanner_led_show: after it, an LED the model counts on is lit.          *)
LEMMA LightSays ==
  ASSUME TypeOK, Light, control_busy, ~context.idle
  PROVE  /\ lit' \in Lights /\ idle' \in Idles /\ context' \in Contexts
         /\ ~context'.idle
         /\ lit'.panel = lit.panel /\ lit'.backlight = lit.backlight
         /\ UNCHANGED RestOfIdle /\ idle'.display_valid = idle.display_valid
         /\ idle'.led_valid => lit'.pixel
<1>1. /\ idle \in Idles /\ lit \in Lights /\ context \in Contexts /\ led.enabled \in BOOLEAN
      /\ control_busy \in BOOLEAN /\ phase \in Phases
  BY TypeParts DEF Small
<1>2. PICK sent \in BOOLEAN, effect \in BOOLEAN :
        /\ lit' = [lit EXCEPT !.pixel = lit.pixel \/ (led.enabled /\ (sent \/ effect))]
        /\ idle' = [idle EXCEPT !.led_valid = idle.led_valid /\ led.enabled /\ sent]
        /\ context' = IF led.enabled /\ sent THEN context
                      ELSE Published(idle', control_busy, phase)
  BY DEF Light
<1>3. PICK pixel \in BOOLEAN : pixel = (lit.pixel \/ (led.enabled /\ (sent \/ effect)))
  BY <1>1 DEF Lights
<1>4. PICK valid \in BOOLEAN : valid = (idle.led_valid /\ led.enabled /\ sent)
  BY <1>1 DEF Idles
<1>5. lit' = [lit EXCEPT !.pixel = pixel] /\ idle' = [idle EXCEPT !.led_valid = valid]
  BY <1>2, <1>3, <1>4
<1>6. /\ lit' \in Lights /\ lit'.panel = lit.panel /\ lit'.backlight = lit.backlight
      /\ lit'.pixel = pixel
  BY <1>1, <1>3, <1>5 DEF Lights
<1>7. /\ idle' \in Idles /\ UNCHANGED RestOfIdle /\ idle'.display_valid = idle.display_valid
      /\ idle'.led_valid = valid
  BY <1>1, <1>4, <1>5 DEF Idles, RestOfIdle
<1>8. valid => pixel
  BY <1>3, <1>4
<1>9. context' \in Contexts /\ ~context'.idle
  BY <1>1, <1>2, <1>7, PublishedSays
<1> QED
  BY <1>6, <1>7, <1>8, <1>9

-----------------------------------------------------------------------------
(* PanelIInv is inductive: a lemma for each place of the calls.            *)

(* apply_visual_transition, entered by show_status with the record i.      *)
LEMMA ShowStep ==
  ASSUME PanelIInv, pc \in {"LOOP", "WORK"}, NEW i, NEW p \in Phases, idle' = i,
         \/ i = idle /\ wait' = wait /\ since' = since /\ tries' = tries
         \/ i = Activity(idle) /\ wait' = 0 /\ since' = 0 /\ tries' = 0,
         phase' = p, control_busy' = TRUE, call' \in Calls, call'.show,
         BeginTransition(i, wait', TRUE, Published(idle, TRUE, p)),
         UNCHANGED <<display, led, lit>>
  PROVE  PanelIInv'
<1>1. /\ idle \in Idles /\ display \in Displays /\ lit \in Lights /\ context \in Contexts
      /\ call \in Calls /\ Small
  BY TypeParts DEF PanelIInv
<1>2. ModelInv /\ TriesInv /\ ShowInv /\ DeviceInv
  BY DEF PanelIInv
<1>3. LET c == Published(idle, TRUE, p) IN c \in Contexts /\ ~c.idle
  BY <1>1, PublishedSays
<1>4. \/ /\ i.pending /\ ~i.exhausted /\ wait' = 0
         /\ pc' = "SCREEN" /\ context' = WakeOnly
      \/ /\ ~(i.pending /\ ~i.exhausted /\ wait' = 0)
         /\ pc' = IF i.requested_awake THEN "DRAW" ELSE "SHOWN"
         /\ context' = Published(idle, TRUE, p)
  BY DEF BeginTransition, TransitionDue, AfterTransition
<1>5. context' \in Contexts /\ ~context'.idle
  BY <1>3, <1>4, WakeOnlySays
<1>6. i \in Idles
  BY <1>1, ActivitySays
<1>7. TypeOK'
  <2>1. Small'
    <3>1. since' \in 0..Timeout /\ wait' \in 0..RetryDelay /\ tries' \in 0..(OffAttempts + 1)
      BY <1>1, IdleAssumption DEF Small, OffAttempts
    <3>2. pc' \in Places
      BY <1>4 DEF Places
    <3> QED
      BY <1>1, <3>1, <3>2 DEF Small
  <2> QED
    BY <1>1, <1>5, <1>6, <2>1, TypeParts
<1>8. ModelInv' /\ TriesInv'
  <2>1. CASE i = idle /\ tries' = tries
    BY <1>2, <1>4, <2>1 DEF ModelInv, TriesInv, InDevice
  <2>2. CASE i = Activity(idle) /\ wait' = 0 /\ tries' = 0
    <3>1. /\ ~i.asleep /\ i.requested_awake /\ ~i.exhausted /\ i.off_attempts = 0
          /\ i.pending \in BOOLEAN
      BY <1>1, <1>6, <2>2, ActivitySays DEF Idles
    <3>2. i.pending <=> InDevice'
      BY <1>4, <2>2, <3>1 DEF InDevice
    <3>3. pc' \in {"SCREEN", "DRAW"}
      BY <1>4, <3>1
    <3> QED
      BY <2>2, <3>1, <3>2, <3>3 DEF ModelInv, TriesInv, InDevice, OffAttempts
  <2> QED
    BY <2>1, <2>2
<1>9. ShowInv'
  BY <1>4, <1>5 DEF ShowInv, InDevice, ContextIsCurrent
<1>10. DeviceInv'
  <2>1. /\ i.display_valid = idle.display_valid /\ i.display_awake = idle.display_awake
        /\ i.asleep \/ i.exhausted => i = idle
    BY <1>1, ActivitySays
  <2>2. idle.display_valid /\ idle.display_awake => ScreenVisible
    BY <1>2 DEF DeviceInv
  <2> QED
    BY <1>2, <1>4, <2>1, <2>2 DEF DeviceInv, RestIsDark, ScreenVisible
<1> QED
  BY <1>7, <1>8, <1>9, <1>10 DEF PanelIInv

(* show_status, and the start of a page or a maintenance change.           *)
LEMMA ShowStatusStep ==
  ASSUME PanelIInv, NEW activity \in BOOLEAN, NEW p \in Phases, ShowStatus(activity, p)
  PROVE  PanelIInv'
<1>1. call \in Calls /\ control_busy \in BOOLEAN
  BY TypeParts DEF PanelIInv, Small
<1>2. call' \in Calls /\ call'.show
  BY <1>1 DEF ShowStatus, Calls
<1>3. CASE activity
  <2>1. /\ idle' = Activity(idle) /\ wait' = 0 /\ since' = 0 /\ tries' = 0
        /\ BeginTransition(Activity(idle), wait', TRUE, Published(idle, TRUE, p))
    BY <1>3 DEF ShowStatus, BeginTransition
  <2> QED
    BY <1>2, <2>1, ShowStep DEF ShowStatus
<1>4. CASE ~activity
  <2>1. /\ idle' = idle /\ wait' = wait /\ since' = since /\ tries' = tries
        /\ BeginTransition(idle, wait', TRUE, Published(idle, TRUE, p))
    BY <1>4 DEF ShowStatus, BeginTransition
  <2> QED
    BY <1>2, <2>1, ShowStep DEF ShowStatus
<1> QED
  BY <1>3, <1>4

LEMMA StartWorkStep ==
  ASSUME PanelIInv, StartWork
  PROVE  PanelIInv'
<1>1. call \in Calls
  BY TypeParts DEF PanelIInv
<1>2. call' \in Calls /\ call'.show
  BY <1>1 DEF StartWork, Calls
<1>3. /\ idle' = Activity(idle) /\ wait' = 0
      /\ BeginTransition(Activity(idle), wait', TRUE, Published(idle, TRUE, "SCANNING"))
  BY DEF StartWork, BeginTransition
<1>4. "SCANNING" \in Phases
  BY DEF Phases
<1> QED
  BY <1>2, <1>3, <1>4, ShowStep DEF StartWork

(* service_visual_idle: nothing, or an attempt to turn the devices off.    *)
LEMMA ServiceStep ==
  ASSUME PanelIInv, ServiceVisualIdle
  PROVE  PanelIInv'
<1>1. /\ idle \in Idles /\ display \in Displays /\ lit \in Lights /\ context \in Contexts
      /\ call \in Calls /\ Small
  BY TypeParts DEF PanelIInv
<1>2. ModelInv /\ TriesInv /\ ShowInv /\ DeviceInv
  BY DEF PanelIInv
<1>3. pc = "LOOP" /\ UNCHANGED <<since, display, led, lit, phase, control_busy, tries>>
  BY DEF ServiceVisualIdle
<1>4. call' \in Calls /\ ~call'.show
  BY <1>1 DEF ServiceVisualIdle, Calls
<1> DEFINE asked == IF IdleDue THEN RequestSleep(idle) ELSE idle
           left == IF asked # idle THEN 0 ELSE wait
<1>5. wait' = left /\ BeginTransition(asked, left, FALSE, context)
  BY DEF ServiceVisualIdle
<1>6. idle' = asked
  BY <1>5 DEF BeginTransition
<1>7. \/ /\ asked.pending /\ ~asked.exhausted /\ left = 0
         /\ pc' = "SCREEN" /\ context' = WakeOnly
      \/ /\ ~(asked.pending /\ ~asked.exhausted /\ left = 0)
         /\ pc' = "LOOP" /\ context' = context
  BY <1>5 DEF BeginTransition, TransitionDue, AfterTransition
<1>8. \/ asked = idle /\ left = wait
      \/ /\ asked = RequestSleep(idle) /\ asked # idle /\ left = 0
         /\ idle.requested_awake /\ ~idle.exhausted /\ ~idle.asleep /\ idle.off_attempts = 0
         /\ tries = 0
  <2>1. ASSUME ~idle.requested_awake, IdleDue PROVE RequestSleep(idle) = idle
    BY <1>2, <2>1 DEF ModelInv, RequestSleep
  <2> QED
    BY <1>2, <2>1 DEF ModelInv, IdleDue
<1> HIDE DEF asked, left
<1>9. CASE asked = idle /\ left = wait
  <2>1. Small'
    BY <1>1, <1>3, <1>5, <1>7, <1>9 DEF Small, Places
  <2>2. context' \in Contexts
    BY <1>1, <1>7, WakeOnlySays
  <2>3. TypeOK'
    BY <1>1, <1>3, <1>4, <1>6, <1>9, <2>1, <2>2, TypeParts
  <2>4. ModelInv' /\ TriesInv'
    BY <1>2, <1>3, <1>6, <1>7, <1>9 DEF ModelInv, TriesInv, InDevice
  <2>5. ShowInv'
    BY <1>2, <1>3, <1>4, <1>6, <1>7, <1>9 DEF ModelInv, ShowInv, InDevice, ContextIsCurrent
  <2>6. DeviceInv'
    BY <1>2, <1>3, <1>6, <1>7, <1>9 DEF DeviceInv, RestIsDark, ScreenVisible
  <2> QED
    BY <2>3, <2>4, <2>5, <2>6 DEF PanelIInv
<1>10. CASE /\ asked = RequestSleep(idle) /\ left = 0
            /\ idle.requested_awake /\ ~idle.exhausted /\ ~idle.asleep /\ idle.off_attempts = 0
            /\ tries = 0
  <2>1. /\ asked \in Idles /\ ~asked.asleep /\ ~asked.requested_awake /\ ~asked.exhausted
        /\ asked.off_attempts = 0 /\ asked.pending
        /\ asked.display_valid = idle.display_valid /\ asked.display_awake = idle.display_awake
    BY <1>1, <1>10, RequestSleepSays
  <2>2. pc' = "SCREEN" /\ context' = WakeOnly
    BY <1>7, <1>10, <2>1
  <2>3. Small'
    BY <1>1, <1>3, <1>5, <1>10, <2>2, IdleAssumption DEF Small, Places
  <2>4. TypeOK'
    BY <1>1, <1>3, <1>4, <1>6, <2>1, <2>2, <2>3, WakeOnlySays, TypeParts
  <2>5. ModelInv' /\ TriesInv'
    BY <1>3, <1>6, <1>10, <2>1, <2>2 DEF ModelInv, TriesInv, InDevice, OffAttempts
  <2>6. ShowInv'
    BY <1>4, <1>6, <2>1, <2>2 DEF ShowInv, InDevice, ContextIsCurrent
  <2>7. DeviceInv'
    BY <1>2, <1>3, <1>6, <2>1, <2>2 DEF DeviceInv, RestIsDark, ScreenVisible
  <2> QED
    BY <2>4, <2>5, <2>6, <2>7 DEF PanelIInv
<1> QED
  BY <1>8, <1>9, <1>10

(* The screen is turned off: an attempt is counted when it begins.         *)
LEMMA ScreenOffStep ==
  ASSUME PanelIInv, ScreenOff
  PROVE  PanelIInv'
<1>1. /\ TypeOK /\ idle \in Idles /\ display \in Displays /\ context \in Contexts /\ Small
      /\ ModelInv /\ TriesInv /\ ShowInv /\ DeviceInv
  BY TypeParts DEF PanelIInv
<1>2. /\ pc = "SCREEN" /\ ~idle.requested_awake /\ pc' = "LED"
      /\ UNCHANGED <<idle, since, wait, led, phase, control_busy, context>>
      /\ tries' = IF tries <= OffAttempts THEN tries + 1 ELSE tries
  BY DEF ScreenOff
<1>3. /\ display' \in Displays /\ lit' \in Lights /\ call' \in Calls
      /\ display'.enabled = display.enabled
      /\ display'.dma_uncertain = display.dma_uncertain
      /\ call'.screen => ~lit'.backlight
      /\ call'.show = call.show
  BY <1>1, ScreenOffSays
<1>4. idle.pending /\ ~idle.asleep /\ ~idle.exhausted /\ idle.off_attempts < OffAttempts
  BY <1>1, <1>2 DEF ModelInv, InDevice
<1>5. tries = idle.off_attempts /\ tries' = tries + 1 /\ tries' <= OffAttempts
  BY <1>1, <1>2, <1>4 DEF TriesInv, OffAttempts, Idles
<1>6. TypeOK'
  <2>1. Small'
    BY <1>1, <1>2, <1>5 DEF Small, Places, OffAttempts
  <2> QED
    BY <1>1, <1>2, <1>3, <2>1, TypeParts
<1>7. ModelInv' /\ TriesInv'
  BY <1>1, <1>2, <1>4, <1>5 DEF ModelInv, TriesInv, InDevice
<1>8. ShowInv'
  BY <1>1, <1>2, <1>3 DEF ShowInv, InDevice, ContextIsCurrent
<1>9. DeviceInv'
  BY <1>1, <1>2, <1>3, <1>4 DEF DeviceInv, RestIsDark
<1> QED
  BY <1>6, <1>7, <1>8, <1>9 DEF PanelIInv

(* The screen is turned on.                                                *)
LEMMA ScreenOnStep ==
  ASSUME PanelIInv, ScreenOn
  PROVE  PanelIInv'
<1>1. /\ TypeOK /\ idle \in Idles /\ display \in Displays /\ context \in Contexts /\ Small
      /\ ModelInv /\ TriesInv /\ ShowInv /\ DeviceInv
  BY TypeParts DEF PanelIInv
<1>2. /\ pc = "SCREEN" /\ idle.requested_awake /\ pc' = "LED"
      /\ UNCHANGED <<idle, since, wait, led, phase, control_busy, context, tries>>
  BY DEF ScreenOn
<1>3. /\ display' \in Displays /\ lit' \in Lights /\ call' \in Calls
      /\ display'.enabled = display.enabled
      /\ display'.dma_uncertain = display.dma_uncertain
      /\ ScreenVisible \/ call'.screen => ScreenVisible'
      /\ call'.show = call.show
  BY <1>1, ScreenOnSays
<1>4. TypeOK'
  <2>1. Small'
    BY <1>1, <1>2 DEF Small, Places
  <2> QED
    BY <1>1, <1>2, <1>3, <2>1, TypeParts
<1>5. ModelInv' /\ TriesInv'
  BY <1>1, <1>2 DEF ModelInv, TriesInv, InDevice
<1>6. ShowInv'
  BY <1>1, <1>2, <1>3 DEF ShowInv, InDevice, ContextIsCurrent
<1>7. DeviceInv'
  BY <1>1, <1>2, <1>3 DEF ModelInv, DeviceInv, RestIsDark
<1> QED
  BY <1>4, <1>5, <1>6, <1>7 DEF PanelIInv

(* The LED is cleared or refreshed.                                        *)
LEMMA LedStep ==
  ASSUME PanelIInv, LedSetAwake
  PROVE  PanelIInv'
<1>1. /\ TypeOK /\ idle \in Idles /\ display \in Displays /\ context \in Contexts /\ Small
      /\ ModelInv /\ TriesInv /\ ShowInv /\ DeviceInv
  BY TypeParts DEF PanelIInv
<1>2. /\ pc = "LED" /\ pc' = "RESULT"
      /\ UNCHANGED <<idle, since, wait, display, led, phase, control_busy, context, tries>>
  BY DEF LedSetAwake
<1>3. /\ lit' \in Lights /\ call' \in Calls
      /\ lit'.panel = lit.panel /\ lit'.backlight = lit.backlight
      /\ call'.led /\ ~idle.requested_awake => ~lit'.pixel
      /\ call'.show = call.show /\ call'.screen = call.screen
  BY <1>1, LedSetAwakeSays
<1>4. TypeOK'
  <2>1. Small'
    BY <1>1, <1>2 DEF Small, Places
  <2> QED
    BY <1>1, <1>2, <1>3, <2>1, TypeParts
<1>5. ModelInv' /\ TriesInv'
  BY <1>1, <1>2 DEF ModelInv, TriesInv, InDevice
<1>6. ShowInv'
  BY <1>1, <1>2, <1>3 DEF ShowInv, InDevice, ContextIsCurrent
<1>7. DeviceInv'
  <2>1. ~idle.asleep /\ ~idle.exhausted
    BY <1>1, <1>2 DEF ModelInv, InDevice
  <2> QED
    BY <1>1, <1>2, <1>3, <2>1 DEF DeviceInv, RestIsDark, ScreenVisible
<1> QED
  BY <1>4, <1>5, <1>6, <1>7 DEF PanelIInv

(* The result of the two calls is recorded and published.                  *)
LEMMA ResultStep ==
  ASSUME PanelIInv, Result
  PROVE  PanelIInv'
<1>1. /\ TypeOK /\ idle \in Idles /\ display \in Displays /\ context \in Contexts /\ Small
      /\ lit \in Lights /\ call \in Calls
      /\ ModelInv /\ TriesInv /\ ShowInv /\ DeviceInv
  BY TypeParts DEF PanelIInv
<1> DEFINE i == TransitionResult(idle, call.screen, call.led)
<1>2. /\ pc = "RESULT" /\ idle' = i /\ wait' = IF i.pending THEN RetryDelay ELSE wait
      /\ context' = Published(i, control_busy, phase)
      /\ pc' = AfterTransition(call.show, i.requested_awake)
      /\ call' = [call EXCEPT !.screen = TRUE, !.led = TRUE]
      /\ UNCHANGED <<since, display, led, lit, phase, control_busy, tries>>
  BY DEF Result
<1>3. /\ idle.pending /\ ~idle.asleep /\ ~idle.exhausted /\ idle.off_attempts < OffAttempts
      /\ call.screen \in BOOLEAN /\ call.led \in BOOLEAN
  BY <1>1, <1>2 DEF ModelInv, InDevice, Calls
<1>4. /\ i \in Idles
      /\ i.requested_awake = idle.requested_awake
      /\ i.display_valid = call.screen /\ i.led_valid = call.led
      /\ i.display_awake = IF call.screen THEN idle.requested_awake ELSE idle.display_awake
      /\ i.asleep <=> ~idle.requested_awake /\ call.screen /\ call.led
      /\ idle.requested_awake \/ (call.screen /\ call.led) =>
           ~i.pending /\ i.exhausted = idle.exhausted /\ i.off_attempts = idle.off_attempts
      /\ ~(idle.requested_awake \/ (call.screen /\ call.led)) =>
           /\ i.off_attempts = idle.off_attempts + 1
           /\ i.exhausted <=> i.off_attempts = OffAttempts
           /\ i.pending <=> i.off_attempts < OffAttempts
  BY <1>1, <1>3, ResultSays
<1> HIDE DEF i
<1>5. /\ call' \in Calls
      /\ context' \in Contexts /\ (context'.idle => ~control_busy)
  BY <1>1, <1>2, <1>4, PublishedSays DEF Calls, Small
<1>6. pc' \in {"LOOP", "DRAW", "SHOWN"} /\ (pc' = "LOOP" <=> ~call.show)
      /\ (pc' = "DRAW" <=> call.show /\ i.requested_awake)
  BY <1>1, <1>2, <1>4 DEF AfterTransition, Calls, Idles
<1>7. TypeOK'
  <2>1. Small'
    BY <1>1, <1>2, <1>6, IdleAssumption DEF Small, Places
  <2> QED
    BY <1>1, <1>2, <1>4, <1>5, <2>1, TypeParts
<1>8. ModelInv'
  <2>1. CASE idle.requested_awake
    BY <1>1, <1>2, <1>3, <1>4, <1>6, <2>1 DEF ModelInv, InDevice
  <2>2. CASE ~idle.requested_awake
    BY <1>1, <1>2, <1>3, <1>4, <1>6, <2>2 DEF ModelInv, InDevice, Idles, OffAttempts
  <2> QED
    BY <2>1, <2>2
<1>9. TriesInv'
  <2>1. tries <= OffAttempts /\ (~idle.requested_awake => tries = idle.off_attempts + 1)
    BY <1>1, <1>2 DEF TriesInv
  <2>2. CASE idle.requested_awake \/ (call.screen /\ call.led)
    BY <1>2, <1>3, <1>4, <1>6, <2>1, <2>2 DEF TriesInv, Idles
  <2>3. CASE ~(idle.requested_awake \/ (call.screen /\ call.led))
    BY <1>2, <1>3, <1>4, <1>6, <2>1, <2>3 DEF TriesInv, Idles, OffAttempts
  <2> QED
    BY <2>2, <2>3
<1>10. ShowInv'
  <2>1. call.show => control_busy
    BY <1>1, <1>2 DEF ShowInv, InDevice
  <2> QED
    BY <1>2, <1>5, <1>6, <2>1 DEF ShowInv, InDevice, ContextIsCurrent
<1>11. DeviceInv'
  <2>1. /\ call.screen => IF idle.requested_awake THEN ScreenVisible ELSE ~lit.backlight
        /\ call.led /\ ~idle.requested_awake => ~lit.pixel
        /\ display.dma_uncertain => ~display.enabled
    BY <1>1, <1>2 DEF DeviceInv
  <2>2. i.display_valid /\ i.display_awake => ScreenVisible
    BY <1>4, <2>1
  <2>3. idle.requested_awake => pc' = "DRAW"
    BY <1>1, <1>2, <1>4, <1>6 DEF ShowInv, InDevice
  <2>4. idle.requested_awake => ~i.asleep /\ ~i.exhausted
    BY <1>3, <1>4
  <2> QED
    BY <1>2, <1>4, <1>6, <2>1, <2>2, <2>3, <2>4 DEF DeviceInv, RestIsDark, ScreenVisible
<1> QED
  BY <1>7, <1>8, <1>9, <1>10, <1>11 DEF PanelIInv

(* The screen is drawn.                                                    *)
LEMMA DrawStep ==
  ASSUME PanelIInv, Draw
  PROVE  PanelIInv'
<1>1. /\ TypeOK /\ lit \in Lights /\ call \in Calls /\ Small
      /\ ModelInv /\ TriesInv /\ ShowInv /\ DeviceInv
  BY TypeParts DEF PanelIInv
<1>2. /\ pc = "DRAW" /\ pc' = "LIGHT"
      /\ UNCHANGED <<since, wait, led, lit, phase, control_busy, call, tries>>
  BY DEF Draw
<1>3. control_busy /\ ~context.idle /\ (display.dma_uncertain => ~display.enabled)
  BY <1>1, <1>2 DEF ShowInv, DeviceInv
<1>4. /\ display' \in Displays /\ idle' \in Idles /\ context' \in Contexts
      /\ ~context'.idle /\ UNCHANGED RestOfIdle
      /\ idle'.display_valid => idle.display_valid
      /\ display'.dma_uncertain => ~display'.enabled
  BY <1>1, <1>3, DrawSays
<1>5. TypeOK'
  <2>1. Small'
    BY <1>1, <1>2 DEF Small, Places
  <2> QED
    BY <1>1, <1>2, <1>4, <2>1, TypeParts
<1>6. ModelInv' /\ TriesInv'
  BY <1>1, <1>2, <1>4 DEF ModelInv, TriesInv, InDevice, RestOfIdle
<1>7. ShowInv'
  BY <1>2, <1>3, <1>4 DEF ShowInv, InDevice, ContextIsCurrent
<1>8. DeviceInv'
  <2>1. ~idle.asleep /\ ~idle.exhausted /\ idle.requested_awake
    BY <1>1, <1>2 DEF ModelInv
  <2> QED
    BY <1>1, <1>2, <1>4, <2>1 DEF DeviceInv, RestIsDark, ScreenVisible, RestOfIdle
<1> QED
  BY <1>5, <1>6, <1>7, <1>8 DEF PanelIInv

(* The LED gets its colour.                                                *)
LEMMA LightStep ==
  ASSUME PanelIInv, Light
  PROVE  PanelIInv'
<1>1. /\ TypeOK /\ display \in Displays /\ call \in Calls /\ Small
      /\ ModelInv /\ TriesInv /\ ShowInv /\ DeviceInv
  BY TypeParts DEF PanelIInv
<1>2. /\ pc = "LIGHT" /\ pc' = "SHOWN"
      /\ UNCHANGED <<since, wait, display, led, phase, control_busy, call, tries>>
  BY DEF Light
<1>3. control_busy /\ ~context.idle
  BY <1>1, <1>2 DEF ShowInv
<1>4. /\ lit' \in Lights /\ idle' \in Idles /\ context' \in Contexts
      /\ ~context'.idle
      /\ lit'.panel = lit.panel /\ lit'.backlight = lit.backlight
      /\ UNCHANGED RestOfIdle /\ idle'.display_valid = idle.display_valid
      /\ idle'.led_valid => lit'.pixel
  BY <1>1, <1>3, LightSays
<1>5. TypeOK'
  <2>1. Small'
    BY <1>1, <1>2 DEF Small, Places
  <2> QED
    BY <1>1, <1>2, <1>4, <2>1, TypeParts
<1>6. ModelInv' /\ TriesInv'
  BY <1>1, <1>2, <1>4 DEF ModelInv, TriesInv, InDevice, RestOfIdle
<1>7. ShowInv'
  BY <1>2, <1>3, <1>4 DEF ShowInv, InDevice, ContextIsCurrent
<1>8. DeviceInv'
  <2>1. ~idle.asleep /\ ~idle.exhausted /\ idle.requested_awake
    BY <1>1, <1>2 DEF ModelInv
  <2> QED
    BY <1>1, <1>2, <1>4, <2>1 DEF DeviceInv, RestIsDark, ScreenVisible, RestOfIdle
<1> QED
  BY <1>5, <1>6, <1>7, <1>8 DEF PanelIInv

(* show_status returns, the work ends, or time passes.                     *)
LEMMA QuietStep ==
  ASSUME PanelIInv, Shown \/ EndWork \/ Tick
  PROVE  PanelIInv'
<1>1. /\ TypeOK /\ idle \in Idles /\ display \in Displays /\ lit \in Lights
      /\ context \in Contexts /\ call \in Calls /\ Small
      /\ ModelInv /\ TriesInv /\ ShowInv /\ DeviceInv
  BY TypeParts DEF PanelIInv
<1>2. UNCHANGED <<idle, display, led, lit, phase, tries>>
  BY DEF Shown, EndWork, Tick
<1>3. CASE Shown
  <2>1. /\ pc = "SHOWN" /\ control_busy' = call.busy /\ UNCHANGED <<since, wait>>
        /\ context' = Published(idle, call.busy, phase)
        /\ pc' = IF call.busy THEN "WORK" ELSE "LOOP"
        /\ call' = [call EXCEPT !.busy = TRUE, !.show = TRUE]
    BY <1>3 DEF Shown
  <2>2. call.busy \in BOOLEAN /\ call' \in Calls
    BY <1>1, <2>1 DEF Calls
  <2>3. context' \in Contexts /\ pc' \in {"LOOP", "WORK"}
    BY <1>1, <2>1, <2>2, PublishedSays DEF Small
  <2>4. Small'
    BY <1>1, <1>2, <2>1, <2>2, <2>3 DEF Small, Places
  <2>5. TypeOK'
    BY <1>1, <1>2, <2>2, <2>3, <2>4, TypeParts
  <2>6. ModelInv' /\ TriesInv'
    BY <1>1, <1>2, <2>1, <2>3 DEF ModelInv, TriesInv, InDevice
  <2>7. ShowInv'
    BY <1>2, <2>1, <2>3 DEF ShowInv, InDevice, ContextIsCurrent
  <2>8. DeviceInv'
    BY <1>1, <1>2, <2>1, <2>3 DEF DeviceInv, RestIsDark, ScreenVisible
  <2> QED
    BY <2>5, <2>6, <2>7, <2>8 DEF PanelIInv
<1>4. CASE EndWork
  <2>1. /\ pc = "WORK" /\ control_busy' = FALSE /\ UNCHANGED <<since, wait, call>>
        /\ context' = Published(idle, FALSE, phase) /\ pc' = "LOOP"
    BY <1>4 DEF EndWork
  <2>2. context' \in Contexts
    BY <1>1, <2>1, PublishedSays DEF Small
  <2>3. Small'
    BY <1>1, <1>2, <2>1 DEF Small, Places
  <2>4. TypeOK'
    BY <1>1, <1>2, <2>1, <2>2, <2>3, TypeParts
  <2>5. ModelInv' /\ TriesInv'
    BY <1>1, <1>2, <2>1 DEF ModelInv, TriesInv, InDevice
  <2>6. ShowInv'
    BY <1>2, <2>1 DEF ShowInv, InDevice, ContextIsCurrent
  <2>7. DeviceInv'
    BY <1>1, <1>2, <2>1 DEF DeviceInv, RestIsDark, ScreenVisible
  <2> QED
    BY <2>4, <2>5, <2>6, <2>7 DEF PanelIInv
<1>5. CASE Tick
  <2>1. /\ UNCHANGED <<control_busy, context, pc, call>>
        /\ since' = IF since < Timeout THEN since + 1 ELSE since
        /\ wait' = IF wait > 0 THEN wait - 1 ELSE wait
    BY <1>5 DEF Tick
  <2>2. since' \in 0..Timeout /\ wait' \in 0..RetryDelay
    BY <1>1, <2>1, IdleAssumption DEF Small
  <2>3. Small'
    BY <1>1, <1>2, <2>1, <2>2 DEF Small
  <2>4. TypeOK'
    BY <1>1, <1>2, <2>1, <2>3, TypeParts
  <2>5. ModelInv' /\ TriesInv' /\ ShowInv' /\ DeviceInv'
    BY <1>1, <1>2, <2>1 DEF ModelInv, TriesInv, ShowInv, InDevice, ContextIsCurrent, DeviceInv,
                            RestIsDark, ScreenVisible
  <2> QED
    BY <2>4, <2>5 DEF PanelIInv
<1> QED
  BY <1>3, <1>4, <1>5

LEMMA PanelStep == PanelIInv /\ [Next]_vars => PanelIInv'
<1> SUFFICES ASSUME PanelIInv, [Next]_vars PROVE PanelIInv'
  OBVIOUS
<1>1. ASSUME NEW activity \in BOOLEAN, LoopShows(activity) PROVE PanelIInv'
  <2>1. phase \in Phases
    BY DEF PanelIInv, TypeOK
  <2> QED
    BY <1>1, <2>1, ShowStatusStep DEF LoopShows
<1>2. ASSUME NEW activity \in BOOLEAN, WorkShows(activity) PROVE PanelIInv'
  BY <1>2, ShowStatusStep DEF WorkShows
<1>3. CASE UNCHANGED vars
  <2>1. PanelIInv /\ UNCHANGED <<idle, since, wait, display, led, lit, phase, control_busy,
                                 context, pc, call, tries>>
    BY <1>3 DEF vars
  <2>2. TypeOK'
    BY <2>1, TypeParts DEF PanelIInv, Small
  <2>3. ModelInv' /\ TriesInv' /\ ShowInv' /\ DeviceInv'
    BY <2>1 DEF PanelIInv, ModelInv, TriesInv, ShowInv, InDevice, ContextIsCurrent, DeviceInv,
                RestIsDark, ScreenVisible
  <2> QED
    BY <2>2, <2>3 DEF PanelIInv
<1> QED
  BY <1>1, <1>2, <1>3, StartWorkStep, ServiceStep, ScreenOffStep, ScreenOnStep, LedStep,
     ResultStep, DrawStep, LightStep, QuietStep
  DEF Next, Devices

LEMMA PanelInit == Init => PanelIInv
<1> SUFFICES ASSUME Init PROVE PanelIInv
  OBVIOUS
<1>1. PICK screenOk \in BOOLEAN, ledOk \in BOOLEAN :
        /\ DisplayStarted(screenOk) /\ LedStarted(ledOk)
        /\ idle = [asleep |-> FALSE, requested_awake |-> TRUE,
                   display_awake |-> screenOk, display_valid |-> screenOk,
                   led_awake |-> ledOk, led_valid |-> ledOk,
                   pending |-> FALSE, exhausted |-> FALSE, off_attempts |-> 0]
  BY DEF Init
<1>2. /\ lit \in Lights /\ since = 0 /\ wait = 0 /\ tries = 0
      /\ phase = "SCANNING" /\ control_busy = TRUE /\ pc = "DRAW"
      /\ context = Published(idle, TRUE, phase)
      /\ call = [busy |-> TRUE, show |-> TRUE, screen |-> TRUE, led |-> TRUE]
  BY DEF Init, Lights
<1>3. /\ display \in Displays /\ ~display.dma_uncertain /\ led \in [enabled : BOOLEAN]
      /\ screenOk => ScreenVisible
  BY <1>1 DEF DisplayStarted, LedStarted, Displays, ScreenVisible
<1>4. /\ idle \in Idles /\ ~idle.asleep /\ idle.requested_awake /\ ~idle.pending
      /\ ~idle.exhausted /\ idle.off_attempts = 0 /\ (idle.display_valid => screenOk)
  <2>1. 0 \in 0..OffAttempts
    BY DEF OffAttempts
  <2> QED
    BY <1>1, <2>1 DEF Idles
<1>5. context \in Contexts /\ ~context.idle
  BY <1>2, <1>4, PublishedSays DEF Phases
<1>6. TypeOK
  <2>1. call \in Calls
    BY <1>2 DEF Calls
  <2>2. Small
    BY <1>2, <1>3, IdleAssumption DEF Small, Phases, Places, OffAttempts
  <2> QED
    BY <1>2, <1>3, <1>4, <1>5, <2>1, <2>2, TypeParts
<1>7. ModelInv /\ TriesInv
  BY <1>2, <1>4 DEF ModelInv, TriesInv, InDevice, OffAttempts
<1>8. ShowInv
  BY <1>2, <1>5 DEF ShowInv, InDevice, ContextIsCurrent
<1>9. DeviceInv
  BY <1>2, <1>3, <1>4 DEF DeviceInv, RestIsDark
<1> QED
  BY <1>6, <1>7, <1>8, <1>9 DEF PanelIInv

(* Whichever device calls fail, however often: a press is a command only   *)
(* when the screen and the LED show something, what rests is dark, three   *)
(* off attempts are the most, and between two calls of the application the *)
(* button task knows the present state (main.c:50-125,                     *)
(* scanner_idle_model.c).                                                  *)
THEOREM PanelCorrect == Spec => []PanelInv
<1>1. PanelIInv => PanelInv
  <2> SUFFICES ASSUME PanelIInv PROVE CommandsAreSeen
    BY DEF PanelIInv, PanelInv, DeviceInv, TriesInv, ThreeAttemptsAtMost, ShowInv
  <2> SUFFICES ASSUME context.awake, context.idle PROVE ScreenVisible /\ lit.pixel
    BY DEF CommandsAreSeen
  <2>1. /\ idle \in Idles /\ Small /\ ModelInv /\ ShowInv /\ DeviceInv
    BY TypeParts DEF PanelIInv
  <2>2. pc \in {"LOOP", "WORK"}
    BY <2>1, WakeOnlySays DEF ShowInv, InDevice, Small, Places
  <2>3. context = Published(idle, control_busy, phase)
    BY <2>1, <2>2 DEF ShowInv, ContextIsCurrent
  <2>4. idle.requested_awake /\ Confirmed(idle)
    BY <2>1, <2>3, PublishedSays DEF Small
  <2> QED
    BY <2>1, <2>2, <2>4 DEF DeviceInv, Confirmed
<1> QED
  BY <1>1, PanelInit, PanelStep, PTL DEF Spec

(* Once a transfer may still own the panel, no step commands it            *)
(* (scanner_display.c: dma_uncertain), whatever wakes and sleeps follow.   *)
THEOREM UncertainPanelAlone == Spec => UncertainPanelIsLeftAlone
<1> DEFINE Alone == display.dma_uncertain => UNCHANGED <<lit.panel, display.enabled>>
<1>1. PanelIInv /\ [Next]_vars => [Alone]_vars
  <2> SUFFICES ASSUME PanelIInv, Next, display.dma_uncertain
               PROVE  UNCHANGED <<lit.panel, display.enabled>>
    OBVIOUS
  <2>1. TypeOK /\ ShowInv /\ ~display.enabled
    BY DEF PanelIInv, DeviceInv
  <2>2. CASE ScreenOff
    BY <2>1, <2>2, ScreenOffSays
  <2>3. CASE ScreenOn
    BY <2>1, <2>3, ScreenOnSays
  <2>4. CASE LedSetAwake
    BY <2>1, <2>4, LedSetAwakeSays DEF LedSetAwake
  <2>5. CASE Draw
    <3>1. control_busy /\ ~context.idle /\ lit' = lit
      BY <2>1, <2>5 DEF ShowInv, Draw
    <3> QED
      BY <2>1, <2>5, <3>1, DrawSays
  <2>6. CASE Light
    <3>1. control_busy /\ ~context.idle /\ display' = display
      BY <2>1, <2>6 DEF ShowInv, Light
    <3> QED
      BY <2>1, <2>6, <3>1, LightSays
  <2>7. CASE UNCHANGED <<display, lit>>
    BY <2>7
  <2> QED
    BY <2>2, <2>3, <2>4, <2>5, <2>6, <2>7
    DEF Next, Devices, LoopShows, WorkShows, ShowStatus, StartWork, EndWork, ServiceVisualIdle,
        Result, Shown, Tick
<1> QED
  BY <1>1, PanelInit, PanelStep, PTL DEF Spec, UncertainPanelIsLeftAlone

-----------------------------------------------------------------------------
(* StatusView. What is lit and drawn is always what the state says, the    *)
(* LED and the screen tell the same, and a red light goes out only when    *)
(* its failure was acknowledged or a later page took its place. The        *)
(* invariant adds to the types that a gateway stands in the stopped phase  *)
(* exactly when its storage is in doubt.                                   *)
StoppedInDoubt == display_phase = "STOPPED" <=> uncertain

ViewInv == ViewTypeOK /\ StoppedInDoubt /\ ShownIsCurrent

Shows == [led : Colors, tone : Tones, status : Status]

(* What is shown for a state that has its type has its type.               *)
LEMMA ViewType ==
  ASSUME NEW p \in DisplayPhases, NEW r \in Results, NEW s \in Status
  PROVE  View(p, r, s) \in Shows
<1>1. Led(p, r, s) \in Colors
  BY DEF Led, Colors
<1>2. PhaseTone(p) \in Tones
  BY DEF PhaseTone, Tones, DisplayPhases, Busy
<1>3. Tone(p, r) \in Tones
  BY <1>2 DEF Tone, Tones
<1> QED
  BY <1>1, <1>3 DEF View, Shows

(* A poll that reports no change leaves every field that shows as it was   *)
(* (scanner_display_model.c:16-25).                                        *)
LEMMA QuietPoll ==
  ASSUME NEW connected \in BOOLEAN,
         NEW s \in [valid : BOOLEAN, paper : Papers, battery_low : BOOLEAN],
         status \in Status
  PROVE  /\ Applied(connected, s).after \in Status
         /\ ~Applied(connected, s).changed => Applied(connected, s).after = status
<1> DEFINE battery == IF s.valid THEN s.battery_low ELSE status.battery_low
           after == [wifi_connected |-> connected, scanner_available |-> s.valid,
                     paper |-> s.paper, battery_low |-> battery]
           changed == \/ status.wifi_connected # connected
                      \/ status.scanner_available # s.valid
                      \/ status.paper # s.paper
                      \/ s.valid /\ status.battery_low # s.battery_low
<1>1. Applied(connected, s).after = after /\ Applied(connected, s).changed = changed
  BY DEF Applied
<1>2. s.valid \in BOOLEAN /\ s.paper \in Papers /\ battery \in BOOLEAN
  BY DEF Status
<1>3. after \in Status
  BY <1>2 DEF Status
<1>4. ~changed => /\ after.wifi_connected = status.wifi_connected
                  /\ after.scanner_available = status.scanner_available
                  /\ after.paper = status.paper
                  /\ after.battery_low = status.battery_low
  BY <1>2
<1>5. ~changed => after = status
  BY <1>3, <1>4 DEF Status
<1> QED
  BY <1>1, <1>3, <1>5

(* ViewInv is inductive.                                                   *)
LEMMA ViewStep == ViewInv /\ [ViewNext]_viewed => ViewInv'
<1> SUFFICES ASSUME ViewInv, [ViewNext]_viewed PROVE ViewInv'
  OBVIOUS
<1> USE DEF ViewInv
<1>1. ViewTypeOK /\ StoppedInDoubt /\ ShownIsCurrent
  OBVIOUS
<1>d. ASSUME display_phase' \in DisplayPhases, uncertain' \in BOOLEAN, result' \in Results,
             status' \in Status, Redraw
      PROVE  ViewTypeOK' /\ ShownIsCurrent'
  BY <1>d, ViewType DEF ViewTypeOK, ShownIsCurrent, Redraw, Shows
<1>2. ASSUME NEW p \in DisplayPhases, Enter(p) PROVE ViewInv'
  <2>1. display_phase' \in DisplayPhases /\ StoppedInDoubt'
    BY <1>1, <1>2 DEF ViewTypeOK, StoppedInDoubt, Enter, Entered
  <2> QED
    BY <1>1, <1>2, <1>d, <2>1 DEF ViewTypeOK, Enter
<1>3. CASE Stop
  <2>1. display_phase' \in DisplayPhases /\ StoppedInDoubt' /\ uncertain' \in BOOLEAN
    BY <1>3 DEF Stop, StoppedInDoubt, DisplayPhases
  <2> QED
    BY <1>1, <1>3, <1>d, <2>1 DEF ViewTypeOK, Stop
<1>4. ASSUME NEW r \in Results, Captured(r) PROVE ViewInv'
  <2>1. display_phase' \in DisplayPhases /\ StoppedInDoubt'
    BY <1>1, <1>4 DEF ViewTypeOK, StoppedInDoubt, Captured, Entered, DisplayPhases, Busy
  <2> QED
    BY <1>1, <1>4, <1>d, <2>1 DEF ViewTypeOK, Captured
<1>5. CASE Acknowledge
  <2>1. result' \in Results /\ StoppedInDoubt'
    BY <1>1, <1>5 DEF ViewTypeOK, Acknowledge, Results, StoppedInDoubt
  <2> QED
    BY <1>1, <1>5, <1>d, <2>1 DEF ViewTypeOK, Acknowledge
<1>6. ASSUME NEW connected \in BOOLEAN,
             NEW s \in [valid : BOOLEAN, paper : Papers, battery_low : BOOLEAN],
             Poll(connected, s)
      PROVE  ViewInv'
  <2>1. status' \in Status /\ StoppedInDoubt'
    BY <1>1, <1>6, QuietPoll DEF ViewTypeOK, Poll, StoppedInDoubt
  <2>2. CASE Applied(connected, s).changed
    BY <1>1, <1>6, <1>d, <2>1, <2>2 DEF ViewTypeOK, Poll
  <2>3. CASE ~Applied(connected, s).changed
    <3>1. UNCHANGED viewed
      BY <1>1, <1>6, <2>3, QuietPoll DEF ViewTypeOK, Poll, viewed
    <3> QED
      BY <1>1, <3>1 DEF ViewTypeOK, StoppedInDoubt, ShownIsCurrent, viewed
  <2> QED
    BY <2>2, <2>3
<1>7. CASE UNCHANGED viewed
  BY <1>1, <1>7 DEF ViewTypeOK, StoppedInDoubt, ShownIsCurrent, viewed
<1> QED
  BY <1>2, <1>3, <1>4, <1>5, <1>6, <1>7 DEF ViewNext

(* ViewInv holds in every state.                                           *)
THEOREM ViewCorrect == ViewSpec => []ViewInv
<1>1. ViewInit => ViewInv
  <2> SUFFICES ASSUME ViewInit PROVE ViewInv
    OBVIOUS
  <2>1. /\ display_phase \in DisplayPhases /\ uncertain \in BOOLEAN
        /\ result \in Results /\ status \in Status
    BY DEF ViewInit, DisplayPhases, Results, Status, Papers
  <2> QED
    BY <2>1, ViewType DEF ViewInit, ViewInv, ViewTypeOK, StoppedInDoubt, ShownIsCurrent, Shows
<1> QED
  BY <1>1, ViewStep, PTL DEF ViewSpec

(* The two devices tell the operator the same in every state: red and the  *)
(* error tone together, green and cyan only over a ready screen, blue and  *)
(* the active tone together (scanner_led_model.c:8-19,                     *)
(* scanner_display_model.c:27-73).                                         *)
THEOREM DevicesTellTheSame == ViewSpec => []DevicesAgree
<1>1. ViewInv => DevicesAgree
  <2> SUFFICES ASSUME ViewInv PROVE DevicesAgree
    OBVIOUS
  <2>1. drawn.led = Led(display_phase, result, status) /\ drawn.tone = Tone(display_phase, result)
    BY DEF ViewInv, ShownIsCurrent, View
  <2>2. display_phase \in DisplayPhases
    BY DEF ViewInv, ViewTypeOK
  <2> QED
    BY <2>1, <2>2 DEF DevicesAgree, Led, Tone, PhaseTone, DisplayPhases, Busy
<1> QED
  BY <1>1, ViewCorrect, PTL

(* A red light goes out only because the failure was acknowledged or a     *)
(* later page was saved, and never once the storage is in doubt            *)
(* (gateway_state_model.h:29, scanner_led_model.c:8-10).                   *)
THEOREM RedOutlasts == ViewSpec => RedStays
<1> DEFINE Kept ==
      drawn.led = "RED" /\ drawn'.led # "RED" =>
        /\ ~uncertain
        /\ Unseen(result)
        /\ \/ result' = [result EXCEPT !.acknowledged = TRUE]
           \/ Unseen(result') /\ result'.saved
<1>1. ViewInv /\ [ViewNext]_viewed => [Kept]_viewed
  <2> SUFFICES ASSUME ViewInv, [ViewNext]_viewed, drawn.led = "RED", drawn'.led # "RED"
               PROVE  Kept
    OBVIOUS
  <2>0. ViewInv'
    BY ViewStep
  <2>1. /\ display_phase = "STOPPED" \/ (Unseen(result) /\ result.failed)
        /\ display_phase' # "STOPPED" /\ ~(Unseen(result') /\ result'.failed)
    <3>1. drawn.led = Led(display_phase, result, status)
      BY DEF ViewInv, ShownIsCurrent, View
    <3>2. drawn'.led = Led(display_phase', result', status')
      BY <2>0 DEF ViewInv, ShownIsCurrent, View
    <3> QED
      BY <3>1, <3>2 DEF Led
  <2>2. ~uncertain /\ display_phase # "STOPPED"
    BY <2>1 DEF ViewInv, StoppedInDoubt, ViewNext, Enter, Entered, Stop, Captured,
                Acknowledge, Poll, viewed
  <2>3. Unseen(result) /\ result.failed /\ result' # result
    BY <2>1, <2>2
  <2>4. \/ Acknowledge
        \/ \E r \in Results : Captured(r)
    BY <2>3 DEF ViewNext, Enter, Stop, Poll, viewed
  <2>5. CASE Acknowledge
    BY <2>2, <2>3, <2>5 DEF Acknowledge
  <2>6. ASSUME NEW r \in Results, Captured(r) PROVE Kept
    <3>1. result' = r /\ r.present /\ ~r.acknowledged /\ (r.failed = ~r.saved)
      BY <2>6 DEF Captured
    <3>2. Unseen(result') /\ ~r.failed
      BY <2>1, <3>1 DEF Unseen
    <3>3. result'.saved
      BY <3>1, <3>2 DEF Results
    <3> QED
      BY <2>2, <2>3, <3>2, <3>3
  <2> QED
    BY <2>4, <2>5, <2>6
<1> QED
  BY <1>1, ViewCorrect, PTL DEF ViewSpec, RedStays

-----------------------------------------------------------------------------
(* DiagnosticsRing. The ring keeps the last Capacity records in order, for *)
(* every capacity and every sequence of records: it implements             *)
(* DiagnosticsLog. Beyond the types the proof needs only the value of a    *)
(* slot number that is at most one turn past the end of the array.         *)
(* One turn of the ring: a slot number below two capacities is taken down  *)
(* by one capacity when it is past the end (gateway_diagnostics.c:5, 12).  *)
LEMMA OneTurn ==
  ASSUME NEW C \in Nat \ {0}, NEW x \in Nat, x < C + C
  PROVE  x % C = IF x < C THEN x ELSE x - C
OBVIOUS

(* RingTypeOK is inductive.                                                    *)
LEMMA RingTypeStep ==
  ASSUME RingAssumption
  PROVE  RingTypeOK /\ [RingNext]_ring => RingTypeOK'
<1> SUFFICES ASSUME RingTypeOK, [RingNext]_ring PROVE RingTypeOK'
  OBVIOUS
<1> USE DEF RingAssumption, RingTypeOK, Slots
<1>1. ASSUME NEW entry \in Entries, Record(entry)
      PROVE  RingTypeOK'
  <2>1. next + 1 \in 0..2 * Capacity - 1
    OBVIOUS
  <2>2. next' \in Slots
    BY <1>1, <2>1, OneTurn DEF Record
  <2> QED
    BY <1>1, <2>2 DEF Record
<1>2. CASE UNCHANGED ring
  BY <1>2 DEF ring
<1> QED
  BY <1>1, <1>2 DEF RingNext

(* The next slot, the slots and the count stay in range, whatever is       *)
(* recorded (gateway_diagnostics.c:4-6).                                   *)
THEOREM RingTypeCorrect ==
  ASSUME RingAssumption
  PROVE  RingSpec => []RingTypeOK
<1>1. RingInit => RingTypeOK
  BY DEF RingAssumption, RingInit, RingTypeOK, Slots
<1>2. RingTypeOK /\ [RingNext]_ring => RingTypeOK'
  BY RingTypeStep
<1> QED
  BY <1>1, <1>2, PTL DEF RingSpec

(* What Slot computes, without the remainder.                              *)
LEMMA SlotValue ==
  ASSUME RingAssumption, RingTypeOK, NEW i \in 0..count - 1
  PROVE  Slot(i) = IF next + i < count THEN next + i + Capacity - count
                                       ELSE next + i - count
<1> DEFINE x == next + Capacity - count + i
<1>1. x \in Nat /\ x < Capacity + Capacity /\ Capacity \in Nat \ {0}
  BY DEF RingAssumption, RingTypeOK, Slots
<1>2. x % Capacity = IF x < Capacity THEN x ELSE x - Capacity
  <2> HIDE DEF x
  <2> QED
    BY <1>1, OneTurn
<1> QED
  BY <1>2 DEF RingAssumption, RingTypeOK, Slots, Slot

(* The slot after next.                                                    *)
LEMMA NextValue ==
  ASSUME RingAssumption, RingTypeOK
  PROVE  (next + 1) % Capacity = IF next + 1 < Capacity THEN next + 1 ELSE 0
<1> DEFINE x == next + 1
<1>1. x \in Nat /\ x < Capacity + Capacity /\ Capacity \in Nat \ {0}
  BY DEF RingAssumption, RingTypeOK, Slots
<1>2. x % Capacity = IF x < Capacity THEN x ELSE x - Capacity
  <2> HIDE DEF x
  <2> QED
    BY <1>1, OneTurn
<1> QED
  BY <1>2 DEF RingAssumption, RingTypeOK, Slots

(* What can be read: count records, the i-th from count slots behind next. *)
Behind(i) == IF next + i <= count THEN next + (i - 1) + Capacity - count
                                  ELSE next + (i - 1) - count
Reads ==
  /\ Readable \in Seq(Entries) /\ Len(Readable) = count
  /\ \A i \in 1..count : Behind(i) \in Slots /\ Readable[i] = records[Behind(i)]

(* Every readable index is in the array, behind the next slot.             *)
LEMMA ReadableValue ==
  ASSUME RingAssumption
  PROVE  RingTypeOK => Reads
<1> SUFFICES ASSUME RingTypeOK PROVE Reads
  OBVIOUS
<1>1. \A i \in 1..count : Slot(i - 1) = Behind(i) /\ Behind(i) \in Slots
  BY SlotValue DEF RingAssumption, RingTypeOK, Slots, Behind
<1>2. count \in Nat /\ Readable \in [1..count -> Entries]
  BY <1>1 DEF Readable, Get, RingTypeOK
<1> QED
  BY <1>1, <1>2 DEF Readable, Get, Reads

(* Recording an entry appends it to what can be read, and once the ring is *)
(* full drops the oldest (gateway_diagnostics.c:4-6, 12).                  *)
LEMMA RecordAppends ==
  ASSUME RingAssumption, RingTypeOK, NEW entry \in Entries, Record(entry)
  PROVE  Log!LogRecord(entry)
<1>1. RingTypeOK'
  BY RingTypeStep DEF RingNext
<1>2. Reads /\ Reads'
  BY <1>1, ReadableValue, PTL
<1>3. next' = IF next + 1 < Capacity THEN next + 1 ELSE 0
  BY NextValue DEF Record
<1>4. count' = IF count < Capacity THEN count + 1 ELSE count
  BY DEF Record
<1>5. \A slot \in Slots : records'[slot] = IF slot = next THEN entry ELSE records[slot]
  BY DEF Record, RingTypeOK
<1>6. /\ Readable \in Seq(Entries) /\ Len(Readable) = count
      /\ Readable' \in Seq(Entries) /\ Len(Readable') = count'
  BY <1>2 DEF Reads
<1>7. CASE count < Capacity
  <2>a. \A i \in 1..count : Behind(i)' = Behind(i) /\ Behind(i) # next
    BY <1>3, <1>4, <1>7 DEF RingAssumption, Behind, RingTypeOK, Slots
  <2>b. Behind(count)' = next
    BY <1>3, <1>4, <1>7 DEF RingAssumption, Behind, RingTypeOK, Slots
  <2>1. Len(Readable') = count + 1 /\ Readable'[count + 1] = entry
    BY <1>2, <1>4, <1>5, <1>7, <2>b DEF Reads, RingTypeOK
  <2>2. \A i \in 1..count : Readable'[i] = Readable[i]
    BY <1>2, <1>4, <1>5, <1>7, <2>a DEF Reads, RingTypeOK
  <2>3. Readable' = Append(Readable, entry)
    BY <1>6, <2>1, <2>2, <1>4, <1>7
  <2> QED
    BY <1>6, <1>7, <2>3 DEF Log!LogRecord
<1>8. CASE count = Capacity
  <2>1. Len(Readable') = count /\ Readable'[count] = entry
    BY <1>1, <1>2, <1>3, <1>4, <1>5, <1>8 DEF RingAssumption, Reads, Behind, RingTypeOK, Slots
  <2>a. \A i \in 1..count - 1 : Behind(i)' = Behind(i + 1) /\ Behind(i + 1) # next
    BY <1>3, <1>4, <1>8 DEF RingAssumption, Behind, RingTypeOK, Slots
  <2>2. \A i \in 1..count - 1 : Readable'[i] = Readable[i + 1]
    BY <1>2, <1>4, <1>5, <1>8, <2>a DEF RingAssumption, Reads, RingTypeOK
  <2>3. Readable' = Append(Tail(Readable), entry)
    BY <1>6, <2>1, <2>2, <1>4, <1>8 DEF RingAssumption
  <2> QED
    BY <1>6, <1>8, <2>3 DEF RingAssumption, Log!LogRecord
<1> QED
  BY <1>7, <1>8 DEF RingAssumption, RingTypeOK

(* For every capacity and every sequence of records, reading the ring      *)
(* gives the last Capacity of them in order (gateway_diagnostics.h:19).    *)
THEOREM RingImplementsLog ==
  ASSUME RingAssumption
  PROVE  RingSpec => ImplementsLog
<1>1. RingInit => Log!LogInit
  <2> SUFFICES ASSUME RingInit PROVE Readable = <<>>
    BY DEF Log!LogInit
  <2> QED
    BY DEF RingInit, Readable
<1>2. RingTypeOK /\ [RingNext]_ring => [Log!LogNext]_Readable
  <2> SUFFICES ASSUME RingTypeOK, [RingNext]_ring PROVE [Log!LogNext]_Readable
    OBVIOUS
  <2>1. ASSUME NEW entry \in Entries, Record(entry)
        PROVE  Log!LogNext
    BY <2>1, RecordAppends DEF Log!LogNext
  <2>2. CASE UNCHANGED ring
    BY <2>2 DEF ring, Readable, Get, Slot
  <2> QED
    BY <2>1, <2>2 DEF RingNext
<1> QED
  BY <1>1, <1>2, RingTypeCorrect, PTL DEF RingSpec, ImplementsLog, Log!LogSpec

-----------------------------------------------------------------------------
(* The BOOT button, for every debounce time, hold time, lateness of the    *)
(* task and queue length: a gesture gives at most one event, none that a   *)
(* context read since the press forbade, none while held through start-up, *)
(* and the timed, debounced model implements the untimed gestures of       *)
(* ButtonGesture, which the application loop is checked with.              *)

\* A debounced press not yet used up began, and stayed, awake and idle.
Judged == stable_pressed /\ ~consumed => ~wake_only /\ idle_at_start /\ ~spoiled

\* What a gesture has given so far uses its press up.
Once ==
  \/ given = <<>>
  \/ /\ stable_pressed /\ consumed
     /\ \E e \in ButtonEvents : given = <<e>>

\* A pressed sample makes a candidate, which lasts until the button is let
\* go; only a press of a button released before is debounced.
Touched ==
  /\ raw_pressed => candidate
  /\ stable_pressed => candidate /\ released_at_boot
  /\ consumed => stable_pressed

ButtonInv == ButtonTypeOK /\ Judged /\ Once /\ Touched /\ BootPressIsIgnored

(* What a pressed step of a debounced button finds: the sample before it   *)
(* was pressed too (scanner_button_model.c:17-40).                         *)
LEMMA DebouncedPress ==
  ASSUME ButtonAssumption, ButtonInv, NEW elapsed \in 1 .. MaxLate,
         Stable(TRUE, elapsed)
  PROVE  /\ candidate
         /\ UNCHANGED <<wake_only, idle_at_start>>
<1>1. raw_pressed
  BY DEF Stable, Sample, ButtonAssumption
<1> QED
  BY <1>1 DEF Stable, Sample, ButtonInv, Touched

(* The sample alone keeps its types.                                       *)
LEMMA SampleType ==
  ASSUME ButtonAssumption, ButtonTypeOK, NEW pressed \in BOOLEAN,
         NEW elapsed \in 1 .. MaxLate, Sample(pressed, elapsed)
  PROVE  /\ initialized' \in BOOLEAN /\ raw_pressed' \in BOOLEAN
         /\ raw_age' \in 0 .. Debounce
         /\ wake_only' \in BOOLEAN /\ idle_at_start' \in BOOLEAN
<1>1. seen[1] \in BOOLEAN /\ seen[2] \in BOOLEAN
  BY DEF ButtonTypeOK, ButtonContexts
<1>2. initialized' \in BOOLEAN /\ raw_pressed' \in BOOLEAN
  BY DEF Sample
<1>3. raw_age' \in 0 .. Debounce
  BY DEF Sample, Capped, ButtonTypeOK, ButtonAssumption
<1>4. wake_only' \in BOOLEAN /\ idle_at_start' \in BOOLEAN
  BY <1>1 DEF Sample, ButtonTypeOK
<1> QED
  BY <1>2, <1>3, <1>4

\* The queue after a step that returned an event.
Sent(e) ==
  events' = IF e # "NONE" /\ QueueRoom THEN Append(events, e) ELSE events

LEMMA SentType ==
  ASSUME ButtonAssumption, ButtonTypeOK, NEW e \in ButtonEvents \cup {"NONE"}, Sent(e)
  PROVE  events' \in Seq(ButtonEvents) /\ Len(events') <= QueueLength
BY DEF Sent, QueueRoom, ButtonTypeOK, ButtonAssumption, ButtonEvents

LEMMA GivenType ==
  ASSUME ButtonInv, NEW e \in ButtonEvents \cup {"NONE"}, Gives(e), Sent(returned'),
         ButtonAssumption
  PROVE  /\ returned' = e
         /\ given' \in Seq(ButtonEvents)
         /\ events' \in Seq(ButtonEvents) /\ Len(events') <= QueueLength
<1>1. returned' = e
  BY DEF Gives
<1>2. given' \in Seq(ButtonEvents)
  BY DEF Gives, ButtonInv, ButtonTypeOK, ButtonEvents
<1> QED
  BY <1>1, <1>2, SentType DEF ButtonInv

-----------------------------------------------------------------------------
(* Each kind of step keeps the invariant.                                  *)

LEMMA BouncingStep ==
  ASSUME ButtonAssumption, ButtonInv, NEW pressed \in BOOLEAN,
         NEW elapsed \in 1 .. MaxLate, Bouncing(pressed, elapsed),
         Sent(returned'), task' = "look", UNCHANGED <<published, seen>>
  PROVE  ButtonInv'
<1> USE DEF ButtonInv
<1>1. returned' = "NONE" /\ given' = given /\ UNCHANGED events
  BY DEF Bouncing, Gives, Sent
<1>2. /\ UNCHANGED <<stable_pressed, released_at_boot, consumed, spoiled>>
      /\ candidate' = (candidate \/ pressed) /\ raw_pressed' = pressed
  BY DEF Bouncing, Sample
<1>3. candidate => UNCHANGED <<wake_only, idle_at_start>>
  BY DEF Bouncing, Sample
<1>4. ButtonTypeOK'
  <2>1. held' \in 0 .. LongPress
    BY DEF Bouncing, Capped, ButtonTypeOK, ButtonAssumption
  <2>2. candidate' \in BOOLEAN
    BY <1>2 DEF ButtonTypeOK
  <2> QED
    BY <1>1, <1>2, <2>1, <2>2, SampleType DEF Bouncing, ButtonTypeOK
<1>5. Judged'
  BY <1>2, <1>3 DEF Judged, Touched
<1>5a. raw_pressed' => candidate'
  <2>1. raw_pressed' => pressed
    BY <1>2
  <2>2. pressed => candidate'
    BY <1>2
  <2> QED
    BY <2>1, <2>2
<1>5b. Touched'
  <2>1. candidate => candidate'
    BY <1>2
  <2> QED
    BY <1>2, <1>5a, <2>1 DEF Touched
<1>6. Once' /\ BootPressIsIgnored'
  BY <1>1, <1>2 DEF Once, BootPressIsIgnored
<1> QED
  BY <1>4, <1>5, <1>5b, <1>6

LEMMA LetGoStep ==
  ASSUME ButtonAssumption, ButtonInv, NEW elapsed \in 1 .. MaxLate,
         LetGo(elapsed), Sent(returned'), task' = "look",
         UNCHANGED <<published, seen>>
  PROVE  ButtonInv'
<1> USE DEF ButtonInv
<1>1. returned' \in ButtonEvents \cup {"NONE"}
  BY DEF LetGo, ButtonEvents
<1>2. /\ candidate' = FALSE /\ stable_pressed' = FALSE /\ consumed' = FALSE
      /\ released_at_boot' = TRUE /\ spoiled' = FALSE /\ given' = <<>> /\ held' = 0
      /\ raw_pressed' = FALSE
  BY DEF LetGo, Stable, Sample
<1>3. ButtonTypeOK'
  <2>1. held' \in 0 .. LongPress
    BY <1>2 DEF ButtonAssumption
  <2>2. given' \in Seq(ButtonEvents)
    BY <1>2
  <2>3. Sample(FALSE, elapsed)
    BY DEF LetGo, Stable
  <2>4. /\ candidate' \in BOOLEAN /\ stable_pressed' \in BOOLEAN
        /\ consumed' \in BOOLEAN /\ released_at_boot' \in BOOLEAN
        /\ spoiled' \in BOOLEAN
    BY <1>2
  <2> QED
    BY <1>1, <2>1, <2>2, <2>3, <2>4, SampleType, SentType DEF ButtonTypeOK
<1>4. Judged' /\ Touched' /\ Once' /\ BootPressIsIgnored'
  BY <1>2 DEF Judged, Touched, Once, BootPressIsIgnored
<1> QED
  BY <1>3, <1>4

LEMMA BootStep ==
  ASSUME ButtonAssumption, ButtonInv, NEW elapsed \in 1 .. MaxLate,
         HeldSinceBoot(elapsed), Sent(returned'), task' = "look",
         UNCHANGED <<published, seen>>
  PROVE  ButtonInv'
<1> USE DEF ButtonInv
<1>1. returned' = "NONE" /\ given' = given /\ UNCHANGED events
  BY DEF HeldSinceBoot, Gives, Sent
<1>2. /\ UNCHANGED <<stable_pressed, released_at_boot, consumed, held, spoiled>>
      /\ candidate' = TRUE /\ ~released_at_boot
  BY DEF HeldSinceBoot, HeldAtBoot
<1>3. ButtonTypeOK'
  <2>1. Sample(TRUE, elapsed)
    BY DEF HeldSinceBoot, Stable
  <2> QED
    BY <1>1, <1>2, <2>1, SampleType DEF ButtonTypeOK
<1>4. Judged' /\ Touched' /\ Once' /\ BootPressIsIgnored'
  BY <1>1, <1>2 DEF Judged, Touched, Once, BootPressIsIgnored
<1> QED
  BY <1>3, <1>4

LEMMA PressStep ==
  ASSUME ButtonAssumption, ButtonInv, NEW elapsed \in 1 .. MaxLate,
         Press(elapsed), Sent(returned'), task' = "look",
         UNCHANGED <<published, seen>>
  PROVE  ButtonInv'
<1> USE DEF ButtonInv
<1>1. /\ candidate' = TRUE /\ stable_pressed' = TRUE /\ held' = 0
      /\ released_at_boot /\ UNCHANGED released_at_boot
      /\ ~stable_pressed
  BY DEF Press, HeldAtBoot
<1>2. Sample(TRUE, elapsed)
  BY DEF Press, Stable
<1>3. /\ wake_only' \in BOOLEAN /\ idle_at_start' \in BOOLEAN
      /\ initialized' \in BOOLEAN /\ raw_pressed' \in BOOLEAN
      /\ raw_age' \in 0 .. Debounce
  BY <1>2, SampleType
<1>4. /\ consumed' = spoiled'
      /\ spoiled' = (wake_only' \/ ~idle_at_start' \/ seen # AwakeIdle)
  BY <1>3 DEF Press, UsedUp
<1>5. consumed' \in BOOLEAN /\ spoiled' \in BOOLEAN
  BY <1>4
<1>6. ~consumed' => ~wake_only' /\ idle_at_start' /\ ~spoiled'
  BY <1>3, <1>4
<1>7. given = <<>>
  BY <1>1 DEF Once
<1>8. CASE wake_only'
  <2>a. Gives("WAKE")
    BY <1>8 DEF Press
  <2>b. spoiled'
    BY <1>4, <1>8
  <2>1. Gives("WAKE") /\ consumed'
    BY <1>4, <2>a, <2>b
  <2>2. given' = <<"WAKE">>
    BY <1>7, <2>1 DEF Gives
  <2>3. ButtonTypeOK'
    BY <1>1, <1>3, <1>5, <2>1, GivenType DEF ButtonTypeOK, ButtonEvents, ButtonAssumption
  <2>4. Judged' /\ Touched' /\ Once' /\ BootPressIsIgnored'
    BY <1>1, <1>6, <2>1, <2>2 DEF Judged, Touched, Once, BootPressIsIgnored, ButtonEvents
  <2> QED
    BY <2>3, <2>4
<1>9. CASE ~wake_only'
  <2>1. Gives("NONE")
    BY <1>9 DEF Press
  <2>2. given' = <<>>
    BY <1>7, <2>1 DEF Gives
  <2>3. ButtonTypeOK'
    BY <1>1, <1>3, <1>5, <2>1, GivenType DEF ButtonTypeOK, ButtonEvents, ButtonAssumption
  <2>4. Judged' /\ Touched' /\ Once' /\ BootPressIsIgnored'
    BY <1>1, <1>6, <2>2 DEF Judged, Touched, Once, BootPressIsIgnored
  <2> QED
    BY <2>3, <2>4
<1> QED
  BY <1>8, <1>9

LEMMA KeepPressedStep ==
  ASSUME ButtonAssumption, ButtonInv, NEW elapsed \in 1 .. MaxLate,
         KeepPressed(elapsed), Sent(returned'), task' = "look",
         UNCHANGED <<published, seen>>
  PROVE  ButtonInv'
<1> USE DEF ButtonInv
<1>1. /\ candidate' = TRUE /\ stable_pressed /\ released_at_boot
      /\ UNCHANGED <<stable_pressed, released_at_boot>>
  BY DEF KeepPressed, HeldAtBoot
<1>2. Stable(TRUE, elapsed) /\ Sample(TRUE, elapsed)
  BY DEF KeepPressed, Stable
<1>3. /\ wake_only' \in BOOLEAN /\ idle_at_start' \in BOOLEAN
      /\ initialized' \in BOOLEAN /\ raw_pressed' \in BOOLEAN
      /\ raw_age' \in 0 .. Debounce
      /\ UNCHANGED <<wake_only, idle_at_start>>
  BY <1>2, SampleType, DebouncedPress
<1>4. held' \in 0 .. LongPress
  BY DEF KeepPressed, Capped, ButtonTypeOK, ButtonAssumption
<1>5. spoiled' = (spoiled \/ seen # AwakeIdle) /\ spoiled' \in BOOLEAN
  BY DEF KeepPressed
<1>6. CASE ~Consumed /\ held' = LongPress
  <2>1. Gives("HOLD") /\ consumed' = TRUE
    BY <1>6 DEF KeepPressed
  <2>2. given = <<>>
    BY <1>6 DEF Once, Consumed
  <2>3. given' = <<"HOLD">>
    BY <2>1, <2>2 DEF Gives
  <2>4. ButtonTypeOK'
    BY <1>1, <1>3, <1>4, <1>5, <2>1, GivenType DEF ButtonTypeOK, ButtonEvents
  <2>5. Judged' /\ Touched' /\ Once' /\ BootPressIsIgnored'
    BY <1>1, <2>1, <2>3 DEF Judged, Touched, Once, BootPressIsIgnored, ButtonEvents
  <2> QED
    BY <2>4, <2>5
<1>7. CASE ~(~Consumed /\ held' = LongPress)
  <2>1. Gives("NONE") /\ consumed' = Consumed
    BY <1>7 DEF KeepPressed
  <2>2. given' = given /\ (consumed => consumed')
    BY <2>1 DEF Gives, Consumed
  <2>3. consumed' \in BOOLEAN
    BY <2>1 DEF Consumed
  <2>4. ButtonTypeOK'
    BY <1>1, <1>3, <1>4, <1>5, <2>1, <2>3, GivenType DEF ButtonTypeOK, ButtonEvents
  <2>5. Judged'
    BY <1>1, <1>3, <1>5, <2>1 DEF Judged, Consumed
  <2>6. Touched' /\ Once' /\ BootPressIsIgnored'
    BY <1>1, <2>2 DEF Touched, Once, BootPressIsIgnored
  <2> QED
    BY <2>4, <2>5, <2>6
<1> QED
  BY <1>6, <1>7

-----------------------------------------------------------------------------
(* ButtonInv is inductive.                                                 *)
LEMMA ButtonStep ==
  ASSUME ButtonAssumption
  PROVE  ButtonInv /\ [ButtonNext]_buttonVars => ButtonInv'
<1> SUFFICES ASSUME ButtonInv, [ButtonNext]_buttonVars PROVE ButtonInv'
  OBVIOUS
<1>1. CASE Look
  <2>1. ButtonTypeOK'
    BY <1>1 DEF Look, ButtonInv, ButtonTypeOK, debouncer, past
  <2> QED
    BY <1>1, <2>1 DEF Look, ButtonInv, Judged, Once, Touched, BootPressIsIgnored,
                      debouncer, past
<1>2. CASE Take
  <2>a. events' \in Seq(ButtonEvents) /\ Len(events') <= QueueLength
    BY <1>2 DEF Take, ButtonInv, ButtonTypeOK, ButtonAssumption
  <2>1. ButtonTypeOK'
    BY <1>2, <2>a DEF Take, ButtonInv, ButtonTypeOK, debouncer, past
  <2> QED
    BY <1>2, <2>1 DEF Take, ButtonInv, Judged, Once, Touched, BootPressIsIgnored,
                      debouncer, past
<1>3. ASSUME NEW pressed \in BOOLEAN, NEW elapsed \in 1 .. MaxLate,
             Step(pressed, elapsed)
      PROVE  ButtonInv'
  <2>1. Sent(returned') /\ task' = "look" /\ UNCHANGED <<published, seen>>
    BY <1>3 DEF Step, Sent
  <2>2. \/ Bouncing(pressed, elapsed) \/ LetGo(elapsed)
        \/ HeldSinceBoot(elapsed) \/ Press(elapsed) \/ KeepPressed(elapsed)
    BY <1>3 DEF Step
  <2> QED
    BY <2>1, <2>2, BouncingStep, LetGoStep, BootStep, PressStep, KeepPressedStep
<1>4. ASSUME NEW c \in ButtonContexts, Publish(c) PROVE ButtonInv'
  <2>1. ButtonTypeOK'
    BY <1>4 DEF Publish, ButtonInv, ButtonTypeOK, debouncer, past
  <2> QED
    BY <1>4, <2>1 DEF Publish, ButtonInv, Judged, Once, Touched, BootPressIsIgnored,
                      debouncer, past
<1>5. CASE UNCHANGED buttonVars
  BY <1>5 DEF buttonVars, ButtonInv, ButtonTypeOK, Judged, Once, Touched, BootPressIsIgnored,
              debouncer, past
<1> QED
  BY <1>1, <1>2, <1>3, <1>4, <1>5 DEF ButtonNext

(* ButtonInv holds in every state.                                         *)
THEOREM ButtonCorrect ==
  ASSUME ButtonAssumption
  PROVE  ButtonSpec => []ButtonInv
<1>1. ButtonInit => ButtonInv
  <2> SUFFICES ASSUME ButtonInit PROVE ButtonInv
    OBVIOUS
  <2>1. raw_age \in 0 .. Debounce /\ held \in 0 .. LongPress
    BY DEF ButtonInit, ButtonAssumption
  <2>2. given \in Seq(ButtonEvents) /\ events \in Seq(ButtonEvents)
        /\ Len(events) <= QueueLength
    BY DEF ButtonInit, ButtonAssumption
  <2>3. published \in ButtonContexts /\ seen \in ButtonContexts
    BY DEF ButtonInit, ButtonContexts
  <2>4. ButtonTypeOK
    BY <2>1, <2>2, <2>3 DEF ButtonInit, ButtonTypeOK
  <2> QED
    BY <2>4 DEF ButtonInit, ButtonInv, Judged, Once, Touched, BootPressIsIgnored
<1>2. ButtonInv /\ [ButtonNext]_buttonVars => ButtonInv'
  BY ButtonStep
<1> QED
  BY <1>1, <1>2, PTL DEF ButtonSpec

(* A button held through reset gives nothing before it has been let go     *)
(* (scanner_button_model.c:30, 81, 86).                                    *)
THEOREM BootPressIgnored ==
  ASSUME ButtonAssumption
  PROVE  ButtonSpec => []BootPressIsIgnored
<1>1. ButtonInv => BootPressIsIgnored
  BY DEF ButtonInv
<1> QED
  BY <1>1, ButtonCorrect, PTL

(* A step of the button task, by its kind.                                 *)
LEMMA StepKinds ==
  ASSUME [ButtonNext]_buttonVars, task = "step", task' = "look"
  PROVE  \E pressed \in BOOLEAN, elapsed \in 1 .. MaxLate :
           /\ Sent(returned')
           /\ UNCHANGED <<published, seen>>
           /\ \/ Bouncing(pressed, elapsed) \/ LetGo(elapsed)
              \/ HeldSinceBoot(elapsed) \/ Press(elapsed) \/ KeepPressed(elapsed)
<1>1. PICK pressed \in BOOLEAN, elapsed \in 1 .. MaxLate : Step(pressed, elapsed)
  BY DEF ButtonNext, Look, Take, Publish, buttonVars
<1> QED
  BY <1>1 DEF Step, Sent

(* A gesture gives at most one event: neither a hold nor a press that      *)
(* woke the gateway is acknowledged again when the button is let go        *)
(* (scanner_button_model.c:62-105).                                        *)
THEOREM OneEvent ==
  ASSUME ButtonAssumption
  PROVE  ButtonSpec => OneEventPerGesture
<1> DEFINE Single ==
      /\ Len(given') <= 1
      /\ task = "step" /\ task' = "look" /\ returned' = "ACK" => given = <<>>
<1>1. ButtonInv /\ [ButtonNext]_buttonVars => Single
  <2> SUFFICES ASSUME ButtonInv, [ButtonNext]_buttonVars PROVE Single
    OBVIOUS
  <2>1. Once'
    BY ButtonStep DEF ButtonInv
  <2>2. Len(given') <= 1
    <3>1. CASE given' = <<>>
      BY <3>1
    <3>2. ASSUME NEW e \in ButtonEvents, given' = <<e>> PROVE Len(given') <= 1
      BY <3>2
    <3> QED
      BY <2>1, <3>1, <3>2 DEF Once
  <2>3. ASSUME task = "step", task' = "look", returned' = "ACK" PROVE given = <<>>
    <3>1. PICK pressed \in BOOLEAN, elapsed \in 1 .. MaxLate :
            \/ Bouncing(pressed, elapsed) \/ LetGo(elapsed)
            \/ HeldSinceBoot(elapsed) \/ Press(elapsed) \/ KeepPressed(elapsed)
      BY <2>3, StepKinds
    <3>2. LetGo(elapsed)
      BY <2>3, <3>1 DEF Bouncing, HeldSinceBoot, Press, KeepPressed, Gives
    <3>3. ~consumed
      BY <2>3, <3>2 DEF LetGo, Acknowledges
    <3> QED
      BY <3>3 DEF ButtonInv, Once
  <2> QED
    BY <2>2, <2>3
<1>2. ButtonInv /\ [ButtonNext]_buttonVars => [Single]_buttonVars
  BY <1>1
<1> QED
  BY <1>2, ButtonCorrect, PTL DEF ButtonSpec, OneEventPerGesture

(* No hold and no acknowledgement comes from a gesture under which a       *)
(* context was read that forbade it (README.md:23,                         *)
(* scanner_button_model.c:77-102).                                         *)
THEOREM Undisturbed ==
  ASSUME ButtonAssumption
  PROVE  ButtonSpec => EventsAreUndisturbed
<1> DEFINE Clean ==
      task = "step" /\ task' = "look" =>
        /\ returned' = "HOLD" => ~spoiled' /\ held' = LongPress
        /\ returned' = "ACK" => ~spoiled /\ seen = AwakeIdle
<1>1. ButtonInv /\ [ButtonNext]_buttonVars => Clean
  <2> SUFFICES ASSUME ButtonInv, [ButtonNext]_buttonVars, task = "step", task' = "look"
               PROVE  Clean
    OBVIOUS
  <2>1. PICK pressed \in BOOLEAN, elapsed \in 1 .. MaxLate :
          \/ Bouncing(pressed, elapsed) \/ LetGo(elapsed)
          \/ HeldSinceBoot(elapsed) \/ Press(elapsed) \/ KeepPressed(elapsed)
    BY StepKinds
  <2>2. ASSUME returned' = "HOLD" PROVE ~spoiled' /\ held' = LongPress
    <3>1. KeepPressed(elapsed)
      BY <2>1, <2>2 DEF Bouncing, HeldSinceBoot, Press, LetGo, Gives
    <3>2. ~Consumed /\ held' = LongPress
      BY <2>2, <3>1 DEF KeepPressed, Gives
    <3>3. stable_pressed /\ ~spoiled /\ seen = AwakeIdle
      BY <3>1, <3>2 DEF KeepPressed, Consumed, ButtonInv, Judged
    <3>4. spoiled' = (spoiled \/ seen # AwakeIdle)
      BY <3>1 DEF KeepPressed
    <3> QED
      BY <3>2, <3>3, <3>4
  <2>3. ASSUME returned' = "ACK" PROVE ~spoiled /\ seen = AwakeIdle
    <3>1. LetGo(elapsed)
      BY <2>1, <2>3 DEF Bouncing, HeldSinceBoot, Press, KeepPressed, Gives
    <3>2. Acknowledges(seen[1], seen[2])
      BY <2>3, <3>1 DEF LetGo
    <3>3. seen[1] /\ seen[2] /\ seen \in ButtonContexts
      BY <3>2 DEF Acknowledges, ButtonInv, ButtonTypeOK
    <3>4. seen = AwakeIdle
      <4>1. PICK awake \in BOOLEAN, rests \in BOOLEAN : seen = <<awake, rests>>
        BY <3>3 DEF ButtonContexts
      <4>2. awake = TRUE /\ rests = TRUE
        BY <3>3, <4>1
      <4> QED
        BY <4>1, <4>2 DEF AwakeIdle
    <3> QED
      BY <3>2, <3>4 DEF Acknowledges, ButtonInv, Judged
  <2> QED
    BY <2>2, <2>3
<1>2. ButtonInv /\ [ButtonNext]_buttonVars => [Clean]_buttonVars
  BY <1>1
<1> QED
  BY <1>2, ButtonCorrect, PTL DEF ButtonSpec, EventsAreUndisturbed

-----------------------------------------------------------------------------
(* The refinement: what the gesture is, and how each kind of step changes  *)
(* it and the queue.                                                       *)

GestureNow ==
  IF ~released_at_boot THEN "boot"
  ELSE IF ~candidate THEN "up"
  ELSE IF consumed THEN "spent"
  ELSE IF wake_only THEN "asleep"
  ELSE IF idle_at_start THEN "live" ELSE "spent"

\* The abstract steps, over what the button task has just seen.
Kept    == GestureNow' = GestureNow /\ UNCHANGED events
Touches == /\ GestureNow = "up" /\ UNCHANGED events
           /\ GestureNow' = IF ~seen[1] THEN "asleep"
                            ELSE IF seen[2] THEN "live" ELSE "spent"
Spoils  == /\ GestureNow = "live" /\ seen # AwakeIdle
           /\ GestureNow' = "spent" /\ UNCHANGED events
Wakes   == GestureNow = "asleep" /\ GestureNow' = "spent" /\ Sent("WAKE")
Holds   == /\ GestureNow = "live" /\ seen = AwakeIdle
           /\ GestureNow' = "spent" /\ Sent("HOLD")
Ends    == /\ GestureNow' = "up"
           /\ \/ GestureNow = "live" /\ seen = AwakeIdle /\ Sent("ACK")
              \/ UNCHANGED events

Acts == Kept \/ Touches \/ Spoils \/ Wakes \/ Holds \/ Ends

LEMMA BouncingActs ==
  ASSUME ButtonInv, NEW pressed \in BOOLEAN, NEW elapsed \in 1 .. MaxLate,
         Bouncing(pressed, elapsed), Sent(returned')
  PROVE  Acts
<1>1. UNCHANGED <<events, released_at_boot, consumed>>
  BY DEF Bouncing, Gives, Sent
<1>2. CASE ~pressed \/ candidate
  <2>1. UNCHANGED <<wake_only, idle_at_start>>
    BY <1>2 DEF Bouncing, Sample
  <2>2. candidate' <=> candidate
    BY <1>2 DEF Bouncing
  <2>3. Kept
    BY <1>1, <2>1, <2>2 DEF Kept, GestureNow
  <2> QED
    BY <2>3 DEF Acts
<1>3. CASE pressed /\ ~candidate
  <2>1. wake_only' = ~seen[1] /\ idle_at_start' = seen[2]
    BY <1>3 DEF Bouncing, Sample
  <2>2. candidate'
    BY <1>3 DEF Bouncing
  <2>3. ~consumed
    BY <1>3 DEF ButtonInv, Touched
  <2>4. CASE released_at_boot
    <3>1. GestureNow = "up"
      BY <1>3, <2>4 DEF GestureNow
    <3>2. GestureNow' = IF ~seen[1] THEN "asleep" ELSE IF seen[2] THEN "live" ELSE "spent"
      BY <1>1, <2>1, <2>2, <2>3, <2>4 DEF GestureNow
    <3>3. Touches
      BY <1>1, <3>1, <3>2 DEF Touches
    <3> QED
      BY <3>3 DEF Acts
  <2>5. CASE ~released_at_boot
    <3>1. Kept
      BY <1>1, <2>5 DEF Kept, GestureNow
    <3> QED
      BY <3>1 DEF Acts
  <2> QED
    BY <2>4, <2>5
<1> QED
  BY <1>2, <1>3

LEMMA LetGoActs ==
  ASSUME ButtonInv, NEW elapsed \in 1 .. MaxLate, LetGo(elapsed), Sent(returned')
  PROVE  Acts
<1>1. GestureNow' = "up"
  BY DEF LetGo, GestureNow
<1>2. CASE ~Acknowledges(seen[1], seen[2])
  BY <1>1, <1>2 DEF LetGo, Sent, Ends, Acts
<1>3. CASE Acknowledges(seen[1], seen[2])
  <2>1. returned' = "ACK"
    BY <1>3 DEF LetGo
  <2>2. /\ released_at_boot /\ candidate /\ ~consumed /\ ~wake_only /\ idle_at_start
        /\ seen[1] /\ seen[2] /\ seen \in ButtonContexts
    BY <1>3 DEF Acknowledges, ButtonInv, Touched, ButtonTypeOK
  <2>3. GestureNow = "live"
    BY <2>2 DEF GestureNow
  <2>4. seen = AwakeIdle
    <3>1. PICK awake \in BOOLEAN, rests \in BOOLEAN : seen = <<awake, rests>>
      BY <2>2 DEF ButtonContexts
    <3>2. awake = TRUE /\ rests = TRUE
      BY <2>2, <3>1
    <3> QED
      BY <3>1, <3>2 DEF AwakeIdle
  <2> QED
    BY <1>1, <2>1, <2>3, <2>4 DEF Ends, Acts
<1> QED
  BY <1>2, <1>3

LEMMA PressActs ==
  ASSUME ButtonAssumption, ButtonInv, NEW elapsed \in 1 .. MaxLate,
         Press(elapsed), Sent(returned')
  PROVE  Acts
<1>1. candidate /\ UNCHANGED <<wake_only, idle_at_start>>
  BY DebouncedPress DEF Press
<1>2. /\ released_at_boot /\ UNCHANGED released_at_boot
      /\ ~consumed /\ candidate'
  BY DEF Press, HeldAtBoot, ButtonInv, Touched
<1>3. consumed' <=> wake_only \/ ~idle_at_start \/ seen # AwakeIdle
  BY <1>1 DEF Press, UsedUp
<1>4. CASE wake_only
  <2>1. returned' = "WAKE"
    BY <1>1, <1>4 DEF Press, Gives
  <2>2. GestureNow = "asleep" /\ GestureNow' = "spent"
    BY <1>1, <1>2, <1>3, <1>4 DEF GestureNow
  <2> QED
    BY <2>1, <2>2 DEF Wakes, Acts
<1>5. CASE ~wake_only
  <2>1. UNCHANGED events
    BY <1>1, <1>5 DEF Press, Gives, Sent
  <2>2. CASE idle_at_start /\ seen # AwakeIdle
    <3>1. GestureNow = "live" /\ GestureNow' = "spent"
      BY <1>1, <1>2, <1>3, <1>5, <2>2 DEF GestureNow
    <3> QED
      BY <2>1, <2>2, <3>1 DEF Spoils, Acts
  <2>3. CASE ~idle_at_start \/ seen = AwakeIdle
    <3>1. GestureNow' = GestureNow
      BY <1>1, <1>2, <1>3, <1>5, <2>3 DEF GestureNow
    <3> QED
      BY <2>1, <3>1 DEF Kept, Acts
  <2> QED
    BY <2>2, <2>3
<1> QED
  BY <1>4, <1>5

LEMMA KeepPressedActs ==
  ASSUME ButtonAssumption, ButtonInv, NEW elapsed \in 1 .. MaxLate,
         KeepPressed(elapsed), Sent(returned')
  PROVE  Acts
<1>1. candidate /\ UNCHANGED <<wake_only, idle_at_start>>
  BY DebouncedPress DEF KeepPressed
<1>2. stable_pressed /\ released_at_boot /\ UNCHANGED released_at_boot /\ candidate'
  BY DEF KeepPressed, HeldAtBoot
<1>3. ~consumed => GestureNow = "live"
  BY <1>1, <1>2 DEF GestureNow, ButtonInv, Judged
<1>4. consumed => GestureNow = "spent"
  BY <1>1, <1>2 DEF GestureNow
<1>5. CASE ~Consumed /\ held' = LongPress
  <2>1. returned' = "HOLD" /\ consumed' = TRUE
    BY <1>5 DEF KeepPressed, Gives
  <2>2. GestureNow' = "spent"
    BY <1>2, <2>1 DEF GestureNow
  <2>3. ~consumed /\ seen = AwakeIdle
    BY <1>5 DEF Consumed
  <2> QED
    BY <1>3, <2>1, <2>2, <2>3 DEF Holds, Acts
<1>6. CASE ~(~Consumed /\ held' = LongPress)
  <2>1. consumed' = Consumed /\ UNCHANGED events
    BY <1>6 DEF KeepPressed, Gives, Sent
  <2>2. CASE ~consumed /\ seen # AwakeIdle
    <3>1. consumed'
      BY <2>1, <2>2 DEF Consumed
    <3>2. GestureNow' = "spent"
      BY <1>2, <3>1 DEF GestureNow
    <3> QED
      BY <1>3, <2>1, <2>2, <3>2 DEF Spoils, Acts
  <2>3. CASE consumed \/ seen = AwakeIdle
    <3>1. consumed' <=> consumed
      BY <2>1, <2>3 DEF Consumed
    <3>2. GestureNow' = GestureNow
      BY <1>1, <1>2, <3>1 DEF GestureNow
    <3> QED
      BY <2>1, <3>2 DEF Kept, Acts
  <2> QED
    BY <2>2, <2>3
<1> QED
  BY <1>5, <1>6

LEMMA BootActs ==
  ASSUME ButtonInv, NEW elapsed \in 1 .. MaxLate, HeldSinceBoot(elapsed),
         Sent(returned')
  PROVE  Acts
<1>1. Kept
  BY DEF HeldSinceBoot, HeldAtBoot, Gives, Sent, Kept, GestureNow
<1> QED
  BY <1>1 DEF Acts

(* For every timing and every moment at which the application publishes    *)
(* and takes, the button's task only does what ButtonGesture lets it, and  *)
(* it is that module the application loop is checked with                  *)
(* (scanner_button.c:14-60, scanner_button_model.c:14-108).                *)
THEOREM ButtonRefinement ==
  ASSUME ButtonAssumption
  PROVE  ButtonSpec => ImplementsGesture
<1> USE DEF Gesture!button
<1>1. ButtonInit => Gesture!GestureInit
  BY DEF ButtonInit, Gesture!GestureInit, Gesture!NotLooked
<1>2. ButtonInv /\ [ButtonNext]_buttonVars => [Gesture!GestureNext]_(Gesture!button)
  <2> SUFFICES ASSUME ButtonInv, [ButtonNext]_buttonVars
               PROVE  Gesture!GestureNext \/ UNCHANGED Gesture!button
    BY DEF Gesture!button
  <2>1. CASE Look
    <3>1. GestureNow' = GestureNow
      BY <2>1 DEF Look, GestureNow, debouncer
    <3>2. Gesture!Look
      BY <2>1, <3>1 DEF Look, Gesture!Look, Gesture!NotLooked, GestureNow
    <3> QED
      BY <3>2 DEF Gesture!GestureNext, Gesture!ButtonTask
  <2>2. CASE Take
    <3>1. GestureNow' = GestureNow
      BY <2>2 DEF Take, GestureNow, debouncer
    <3>2. Gesture!Take
      BY <2>2, <3>1 DEF Take, Gesture!Take, GestureNow
    <3> QED
      BY <3>2 DEF Gesture!GestureNext
  <2>3. ASSUME NEW pressed \in BOOLEAN, NEW elapsed \in 1 .. MaxLate,
               Step(pressed, elapsed)
        PROVE  Gesture!GestureNext
    <3>1. Sent(returned') /\ task = "step" /\ task' = "look" /\ UNCHANGED <<published, seen>>
      BY <2>3 DEF Step, Sent
    <3>2. \/ Bouncing(pressed, elapsed) \/ LetGo(elapsed)
          \/ HeldSinceBoot(elapsed) \/ Press(elapsed) \/ KeepPressed(elapsed)
      BY <2>3 DEF Step
    <3>3. Acts
      BY <3>1, <3>2, BouncingActs, LetGoActs, BootActs, PressActs, KeepPressedActs
    <3>4. seen # <<>>
      <4>1. PICK awake \in BOOLEAN, rests \in BOOLEAN : seen = <<awake, rests>>
        BY DEF ButtonInv, ButtonTypeOK, ButtonContexts
      <4> QED
        BY <4>1
    <3>5. Gesture!Nothing \/ Gesture!Touch \/ Gesture!Spoil \/ Gesture!Wake
          \/ Gesture!Hold \/ Gesture!LetGo
      BY <3>1, <3>3 DEF Acts, Kept, Touches, Spoils, Wakes, Holds, Ends, Sent, QueueRoom,
         GestureNow, AwakeIdle, Gesture!AwakeIdle, Gesture!Send, Gesture!Nothing,
         Gesture!Touch, Gesture!Spoil, Gesture!Wake, Gesture!Hold, Gesture!LetGo
    <3>6. Gesture!Act
      BY <3>1, <3>4, <3>5 DEF Gesture!Act, Gesture!NotLooked
    <3> QED
      BY <3>6 DEF Gesture!GestureNext, Gesture!ButtonTask
  <2>4. ASSUME NEW c \in ButtonContexts, Publish(c) PROVE Gesture!GestureNext
    <3>1. GestureNow' = GestureNow
      BY <2>4 DEF Publish, GestureNow, debouncer
    <3>2. Gesture!Publish(c)
      BY <2>4, <3>1 DEF Publish, Gesture!Publish, GestureNow
    <3> QED
      BY <3>2 DEF Gesture!GestureNext, Gesture!Contexts, ButtonContexts
  <2>5. CASE UNCHANGED buttonVars
    BY <2>5 DEF buttonVars, debouncer, Gesture!button
  <2> QED
    BY <2>1, <2>2, <2>3, <2>4, <2>5 DEF ButtonNext
<1> QED
  BY <1>1, <1>2, ButtonCorrect, PTL DEF ButtonSpec, ImplementsGesture, Gesture!GestureSpec
=============================================================================
