--------------------------- MODULE ScannerButton ----------------------------
(***************************************************************************)
(* The BOOT button: scanner_button.c and scanner_button_model.c. A task of *)
(* its own samples the context and the pin every poll, debounces, and      *)
(* queues at most one event per gesture. The application task publishes    *)
(* the context and takes the events whenever it gets there.                *)
(*                                                                         *)
(* Time is kept as ages, in polls of the task. A poll may come late; a pin *)
(* that bounces between two polls is not seen.                             *)
(***************************************************************************)
EXTENDS Naturals, Sequences

CONSTANTS
  Debounce,     \* 30 ms
  LongPress,    \* 2 s
  MaxLate,      \* the latest a poll comes, in polls
  QueueLength   \* 8 events

\* What the theorems assume of the constants.
ButtonAssumption ==
  /\ Debounce \in Nat \ {0} /\ LongPress \in Nat \ {0}
  /\ MaxLate \in Nat \ {0} /\ QueueLength \in Nat \ {0}

VARIABLES
  \* scanner_button_model_t, private to the button task
  initialized, raw_pressed, stable_pressed, released_at_boot,
  candidate, wake_only, idle_at_start, consumed,
  raw_age,    \* now - raw_since, up to Debounce
  held,       \* now - pressed_since, up to LongPress
  \* the task's loop and what it shares
  task,       \* "look": about to read the context; "step": has read it
  returned,   \* the event of the last step
  published, seen, events,
  \* history
  spoiled,    \* a context read since the press was debounced forbade events
  given       \* events of the gesture in progress

debouncer  == <<initialized, raw_pressed, stable_pressed, released_at_boot,
                candidate, wake_only, idle_at_start, consumed, raw_age, held>>
past       == <<spoiled, given>>
buttonVars == <<debouncer, task, returned, published, seen, events, past>>

ButtonContexts == BOOLEAN \X BOOLEAN
AwakeIdle      == <<TRUE, TRUE>>
ButtonEvents   == {"WAKE", "HOLD", "ACK"}

ButtonTypeOK ==
  /\ initialized \in BOOLEAN /\ raw_pressed \in BOOLEAN
  /\ stable_pressed \in BOOLEAN /\ released_at_boot \in BOOLEAN
  /\ candidate \in BOOLEAN /\ wake_only \in BOOLEAN
  /\ idle_at_start \in BOOLEAN /\ consumed \in BOOLEAN
  /\ raw_age \in 0 .. Debounce /\ held \in 0 .. LongPress
  /\ task \in {"look", "step"}
  /\ published \in ButtonContexts /\ seen \in ButtonContexts
  /\ events \in Seq(ButtonEvents) /\ Len(events) <= QueueLength
  /\ returned \in ButtonEvents \cup {"NONE"}
  /\ spoiled \in BOOLEAN /\ given \in Seq(ButtonEvents)

ButtonInit ==
  /\ initialized = FALSE /\ raw_pressed = FALSE /\ stable_pressed = FALSE
  /\ released_at_boot = FALSE /\ candidate = FALSE /\ wake_only = FALSE
  /\ idle_at_start = FALSE /\ consumed = FALSE /\ raw_age = 0 /\ held = 0
  /\ task = "look" /\ published = <<TRUE, FALSE>> /\ seen = <<TRUE, FALSE>>
  /\ events = <<>> /\ returned = "NONE" /\ spoiled = FALSE /\ given = <<>>

-----------------------------------------------------------------------------
Capped(n, limit) == IF n < limit THEN n ELSE limit

\* The first half of scanner_button_step: the age of the pin's level, and
\* the context a press is judged by, taken at its first sample.
Sample(pressed, elapsed) ==
  /\ initialized' = TRUE
  /\ raw_pressed' = pressed
  /\ raw_age' = IF ~initialized \/ pressed # raw_pressed THEN 0
                ELSE Capped(raw_age + elapsed, Debounce)
  /\ IF pressed /\ ~candidate
     THEN wake_only' = ~seen[1] /\ idle_at_start' = seen[2]
     ELSE UNCHANGED <<wake_only, idle_at_start>>

Stable(pressed, elapsed) == Sample(pressed, elapsed) /\ raw_age' = Debounce

\* The step's result, and the gesture's events so far.
Gives(e) ==
  /\ returned' = e
  /\ given' = IF e = "NONE" THEN given ELSE Append(given, e)

Bouncing(pressed, elapsed) ==
  /\ Sample(pressed, elapsed)
  /\ raw_age' < Debounce
  /\ candidate' = (candidate \/ pressed)
  /\ held' = IF stable_pressed THEN Capped(held + elapsed, LongPress) ELSE 0
  /\ Gives("NONE")
  /\ UNCHANGED <<stable_pressed, released_at_boot, consumed, spoiled>>

Acknowledges(awake, rests) ==
  /\ stable_pressed /\ released_at_boot /\ ~consumed
  /\ ~wake_only /\ idle_at_start /\ awake /\ rests

LetGo(elapsed) ==
  /\ Stable(FALSE, elapsed)
  /\ candidate' = FALSE /\ stable_pressed' = FALSE /\ consumed' = FALSE
  /\ released_at_boot' = TRUE
  /\ held' = 0 /\ spoiled' = FALSE
  /\ returned' = IF Acknowledges(seen[1], seen[2]) THEN "ACK" ELSE "NONE"
  /\ given' = <<>>

HeldAtBoot == ~released_at_boot

HeldSinceBoot(elapsed) ==
  /\ HeldAtBoot
  /\ Stable(TRUE, elapsed)
  /\ candidate' = TRUE
  /\ Gives("NONE")
  /\ UNCHANGED <<stable_pressed, released_at_boot, consumed, held, spoiled>>

\* Whether a debounced press is used up at once.
UsedUp(wakes, rests) == wakes \/ ~rests

Press(elapsed) ==
  /\ ~HeldAtBoot /\ ~stable_pressed
  /\ Stable(TRUE, elapsed)
  /\ candidate' = TRUE /\ stable_pressed' = TRUE
  /\ held' = 0
  /\ consumed' = (UsedUp(wake_only', idle_at_start') \/ seen # AwakeIdle)
  /\ spoiled' = (wake_only' \/ ~idle_at_start' \/ seen # AwakeIdle)
  /\ Gives(IF wake_only' THEN "WAKE" ELSE "NONE")
  /\ UNCHANGED released_at_boot

Consumed == consumed \/ seen # AwakeIdle

KeepPressed(elapsed) ==
  /\ ~HeldAtBoot /\ stable_pressed
  /\ Stable(TRUE, elapsed)
  /\ candidate' = TRUE
  /\ held' = Capped(held + elapsed, LongPress)
  /\ spoiled' = (spoiled \/ seen # AwakeIdle)
  /\ IF ~Consumed /\ held' = LongPress
     THEN Gives("HOLD") /\ consumed' = TRUE
     ELSE Gives("NONE") /\ consumed' = Consumed
  /\ UNCHANGED <<stable_pressed, released_at_boot>>

-----------------------------------------------------------------------------
QueueRoom == Len(events) < QueueLength

\* button_task: read the context, step, send what the step returned
\* without waiting for room.
Look ==
  /\ task = "look"
  /\ seen' = published
  /\ task' = "step"
  /\ UNCHANGED <<debouncer, returned, published, events, past>>

Step(pressed, elapsed) ==
  /\ task = "step"
  /\ task' = "look"
  /\ \/ Bouncing(pressed, elapsed)
     \/ ~pressed /\ LetGo(elapsed)
     \/ pressed /\ (HeldSinceBoot(elapsed) \/ Press(elapsed)
                    \/ KeepPressed(elapsed))
  /\ events' = IF returned' # "NONE" /\ QueueRoom
               THEN Append(events, returned') ELSE events
  /\ UNCHANGED <<published, seen>>

\* scanner_button_set_context.
Publish(c) ==
  /\ published' = c
  /\ UNCHANGED <<debouncer, task, returned, seen, events, past>>

\* scanner_button_take_event.
Take ==
  /\ events # <<>>
  /\ events' = Tail(events)
  /\ UNCHANGED <<debouncer, task, returned, published, seen, past>>

ButtonNext ==
  \/ Look \/ Take
  \/ \E pressed \in BOOLEAN, elapsed \in 1 .. MaxLate : Step(pressed, elapsed)
  \/ \E c \in ButtonContexts : Publish(c)

ButtonSpec == ButtonInit /\ [][ButtonNext]_buttonVars

-----------------------------------------------------------------------------
\* An event other than WAKE comes from a gesture that started, and stayed,
\* under a context that allowed it: "Gestures begun during scanning or a
\* storage transition cannot select a mode" (README.md 23,
\* scanner_button_model.c 77-102).
EventsAreUndisturbed ==
  [][task = "step" /\ task' = "look" =>
       /\ returned' = "HOLD" => ~spoiled' /\ held' = LongPress
       /\ returned' = "ACK" => ~spoiled /\ seen = AwakeIdle]_buttonVars

\* A gesture gives at most one event: a hold is not acknowledged again when
\* the button is let go, and a press that wakes does nothing else
\* (scanner_button_model.c 62-105).
OneEventPerGesture ==
  [][/\ Len(given') <= 1
     /\ task = "step" /\ task' = "look" /\ returned' = "ACK" => given = <<>>]_buttonVars

\* A button held through reset, as for a download, gives nothing before it
\* has been let go (scanner_button_model.c 30, 81, 86).
BootPressIsIgnored == ~released_at_boot => returned = "NONE" /\ events = <<>>

\* The debounced, timed gestures are the untimed ones the application loop
\* is checked with.
Gesture == INSTANCE ButtonGesture
  WITH context <- published,
       gesture <- IF ~released_at_boot THEN "boot"
                  ELSE IF ~candidate THEN "up"
                  ELSE IF consumed THEN "spent"
                  ELSE IF wake_only THEN "asleep"
                  ELSE IF idle_at_start THEN "live" ELSE "spent",
       seen <- IF task = "step" THEN seen ELSE <<>>

ImplementsGesture == Gesture!GestureSpec
=============================================================================
