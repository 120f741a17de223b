--------------------------- MODULE ButtonGesture ----------------------------
(***************************************************************************)
(* What the BOOT button promises to the application task: gestures, as     *)
(* scanner_button.c turns them into events of a bounded queue, without     *)
(* their timing. A gesture is judged by the context the application        *)
(* published; the button task looks at it once per step, then acts on what *)
(* it saw, which may just have changed. ScannerButton implements this      *)
(* module.                                                                 *)
(***************************************************************************)
EXTENDS Naturals, Sequences

CONSTANT QueueLength   \* xQueueCreate(8, ...)

ASSUME QueueLengthAssumption == QueueLength \in Nat \ {0}

VARIABLES
  context,  \* the published <<awake, idle>>
  seen,     \* the context the button task is acting on, or NotLooked
  gesture,  \* the press in progress
  events    \* the event queue

button == <<context, seen, gesture, events>>

Contexts      == BOOLEAN \X BOOLEAN
AwakeIdle     == <<TRUE, TRUE>>
NotLooked     == <<>>
ButtonEvents  == {"WAKE", "HOLD", "ACK"}
\* boot: not released since start-up; asleep: wakes only; spent: no effect.
Gestures      == {"boot", "up", "live", "asleep", "spent"}

GestureTypeOK ==
  /\ context \in Contexts /\ seen \in Contexts \cup {NotLooked}
  /\ gesture \in Gestures
  /\ events \in Seq(ButtonEvents) /\ Len(events) <= QueueLength

\* Awake, but busy until the application publishes idle.
GestureInit ==
  /\ context = <<TRUE, FALSE>> /\ seen = NotLooked
  /\ gesture = "boot" /\ events = <<>>

\* xQueueSend without waiting: an event that does not fit is lost.
Send(e) == events' = IF Len(events) < QueueLength THEN Append(events, e)
                     ELSE events

Look ==
  /\ seen = NotLooked
  /\ seen' = context
  /\ UNCHANGED <<context, gesture, events>>

Touch ==
  /\ gesture = "up"
  /\ gesture' = IF ~seen[1] THEN "asleep"
                ELSE IF seen[2] THEN "live" ELSE "spent"
  /\ UNCHANGED events

Spoil ==
  /\ gesture = "live" /\ seen # AwakeIdle
  /\ gesture' = "spent"
  /\ UNCHANGED events

Wake ==
  /\ gesture = "asleep"
  /\ gesture' = "spent"
  /\ Send("WAKE")

Hold ==
  /\ gesture = "live" /\ seen = AwakeIdle
  /\ gesture' = "spent"
  /\ Send("HOLD")

\* A short press counts when it is let go; a bounce shorter than the
\* debounce time ends without an event.
LetGo ==
  /\ gesture' = "up"
  /\ \/ gesture = "live" /\ seen = AwakeIdle /\ Send("ACK")
     \/ UNCHANGED events

Nothing == UNCHANGED <<gesture, events>>

Act ==
  /\ seen # NotLooked
  /\ seen' = NotLooked
  /\ Touch \/ Spoil \/ Wake \/ Hold \/ LetGo \/ Nothing
  /\ UNCHANGED context

Publish(c) ==
  /\ context' = c
  /\ UNCHANGED <<seen, gesture, events>>

Take ==
  /\ events # <<>>
  /\ events' = Tail(events)
  /\ UNCHANGED <<context, seen, gesture>>

ButtonTask == Look \/ Act

GestureNext == ButtonTask \/ Take \/ \E c \in Contexts : Publish(c)

GestureSpec == GestureInit /\ [][GestureNext]_button
=============================================================================
