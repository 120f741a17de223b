------------------------------ MODULE MscProofs ------------------------------
(***************************************************************************)
(* Proofs about the mass-storage component.                                *)
(*                                                                         *)
(* MscSession, for every bound on the counter and on the invalidations     *)
(* (GenerationAssumption: the counter does not wrap):                      *)
(*   1. TypeCorrect.                                                       *)
(*   2. IInv, inductive: it ties the counters to what really happened in   *)
(*      the session they number.                                           *)
(*   3. The safety properties of MscSession and its refinement of          *)
(*      ReleaseEvidence, from IInv.                                        *)
(* MscStorage, for any tasks, media, LUNs and drive numbers:               *)
(*   4. StorageIInv, inductive: at every step of a call, which storage it  *)
(*      holds alone, to whom that belongs and what of it is registered.    *)
(*   5. StorageCorrect, from StorageIInv.                                  *)
(***************************************************************************)
EXTENDS MscSession, MscStorage, FiniteSetTheorems, TLAPS

-----------------------------------------------------------------------------
(* What session_storage leaves of the task's fields.                       *)

\* Assigning to the fields keeps their types.
LEMMA FieldsTyped ==
  ASSUME NEW s \in StorageFields, NEW g \in Generation, NEW b \in BOOLEAN
  PROVE  /\ [s EXCEPT !.succeeded = b] \in StorageFields
         /\ [s EXCEPT !.succeeded = FALSE] \in StorageFields
         /\ [s EXCEPT !.prevented = b] \in StorageFields
         /\ [s EXCEPT !.accepted = g, !.succeeded = FALSE] \in StorageFields
         /\ [s EXCEPT !.ejected = TRUE, !.accepted = g,
                       !.succeeded = FALSE] \in StorageFields
BY Zenon DEF StorageFields

\* The synchronised fields are those of the current session: the old ones
\* when they already were, cleared ones otherwise.
LEMMA SyncedFields ==
  ASSUME TypeOK
  PROVE  /\ Synced \in StorageFields
         /\ Synced.session = bus_generation
         /\ storage.session = bus_generation => Synced = storage
         /\ storage.session # bus_generation =>
              /\ Synced.accepted = 0
              /\ ~Synced.prevented /\ ~Synced.ejected /\ ~Synced.succeeded
<1> DEFINE cleared == [session |-> bus_generation, accepted |-> 0,
                       prevented |-> FALSE, ejected |-> FALSE,
                       succeeded |-> FALSE]
<1>1. 0 \in Generation /\ bus_generation \in Generation
  BY GenerationAssumption DEF TypeOK, Generation
<1>2. cleared \in StorageFields
  BY <1>1, Zenon DEF StorageFields
<1>3. CASE storage.session = bus_generation
  BY <1>3 DEF Synced, TypeOK
<1>4. CASE storage.session # bus_generation
  <2>1. Synced = cleared
    BY <1>4 DEF Synced
  <2> QED
    BY <1>2, <1>4, <2>1, Zenon
<1> QED
  BY <1>3, <1>4

\* An invalidation keeps the counters and the history typed.
LEMMA InvalidateTyped ==
  ASSUME TypeOK, Invalidate
  PROVE  /\ bus_generation' \in Generation
         /\ bumps' \in 0 .. MaxInvalidations
         /\ ejectAccepted' \in BOOLEAN /\ delivered' \in BOOLEAN
         /\ wroteSince' \in BOOLEAN
<1>1. bus_generation' \in Generation /\ bumps' \in 0 .. MaxInvalidations
  BY GenerationAssumption
  DEF TypeOK, Generation, Invalidate, NextGeneration
<1>2. ejectAccepted' \in BOOLEAN /\ delivered' \in BOOLEAN
  BY Zenon DEF Invalidate
<1>3. wroteSince' \in BOOLEAN
  BY DEF TypeOK, Invalidate
<1> QED
  BY <1>1, <1>2, <1>3

\* Every variable keeps its type.
LEMMA TypeStep == TypeOK /\ [Next]_vars => TypeOK'
<1> SUFFICES ASSUME TypeOK, [Next]_vars PROVE TypeOK'
  OBVIOUS
<1> USE GenerationAssumption
    DEF TypeOK, StorageFields, Generation, Commands, Stages, Readers,
        taskVars, readerVars, history
<1>1. CASE EjectRefused
  <2>1. storage' \in StorageFields
    <3>1. 0 \in Generation
      BY DEF Generation
    <3>2. [Synced EXCEPT !.accepted = 0, !.succeeded = FALSE]
            \in StorageFields
      BY <3>1, SyncedFields, FieldsTyped, Zenon
    <3> QED
      BY <1>1, <3>2, SyncedFields, Zenon DEF EjectRefused, Answer
  <2> QED
    BY <1>1, <2>1 DEF EjectRefused, Answer, ReleaseSynced
<1>2. ASSUME NEW w \in BOOLEAN, EjectAccepted(w) PROVE TypeOK'
  <2>1. storage' \in StorageFields
    <3>1. [Synced EXCEPT !.ejected = TRUE, !.accepted = bus_generation,
                         !.succeeded = FALSE] \in StorageFields
      BY SyncedFields, FieldsTyped, Zenon
    <3> QED
      BY <1>2, <3>1, Zenon DEF EjectAccepted, Answer
  <2>2. /\ ejectAccepted' \in BOOLEAN /\ delivered' \in BOOLEAN
        /\ wroteSince' \in BOOLEAN /\ passed' \in BOOLEAN
    BY <1>2, Zenon DEF EjectAccepted, Answer
  <2> QED
    BY <1>2, <2>1, <2>2 DEF EjectAccepted, Answer, ReleaseSynced
<1>3. ASSUME NEW w \in BOOLEAN, StartStop(w) PROVE TypeOK'
  BY <1>3, SyncedFields DEF StartStop, Answer, ReleaseSynced
<1>4. ASSUME NEW p \in BOOLEAN, PreventAllow(p) PROVE TypeOK'
  <2>1. storage' \in StorageFields
    <3>1. [Synced EXCEPT !.prevented = p] \in StorageFields
      BY SyncedFields, FieldsTyped, Zenon
    <3> QED
      BY <1>4, <3>1, SyncedFields, Zenon DEF PreventAllow, Answer
  <2>2. passed' \in BOOLEAN
    BY <1>4, Zenon DEF PreventAllow, Answer
  <2> QED
    BY <1>4, <2>1, <2>2 DEF PreventAllow, Answer, ReleaseSynced
<1>5. CASE SyncCache
  BY <1>5, SyncedFields DEF SyncCache, Answer, ReleaseSynced
<1>6. ASSUME NEW c \in {"READ", "WRITE"}, AccessRefused(c) PROVE TypeOK'
  BY <1>6, SyncedFields DEF AccessRefused, Answer, ReleaseSynced
<1>7. ASSUME NEW c \in {"READ", "WRITE"}, AccessStarts(c) PROVE TypeOK'
  BY <1>7, SyncedFields DEF AccessStarts, ReleaseSynced, MediumReady
<1>8. CASE AccessDone
  BY <1>8 DEF AccessDone
<1>9. CASE AccessFails
  BY <1>9 DEF AccessFails
<1>10. CASE FaultInvalidates
  <2>1. passed' \in BOOLEAN
    BY <1>10, Zenon DEF FaultInvalidates
  <2> QED
    BY <1>10, <2>1, InvalidateTyped DEF FaultInvalidates
<1>11. CASE DecideStatus
  <2>1. storage' \in StorageFields
    <3> DEFINE now == storage.ejected /\ storage.accepted = bus_generation
    <3>1. now \in BOOLEAN
      BY Zenon
    <3>2. [storage EXCEPT !.succeeded = now] \in StorageFields
      BY <3>1, FieldsTyped, Zenon
    <3> QED
      BY <1>11, <3>2, Zenon DEF DecideStatus
  <2> QED
    BY <1>11, <2>1 DEF DecideStatus
<1>12. CASE BeginComplete
  <2>1. storage' \in StorageFields
    <3>1. [Synced EXCEPT !.succeeded = FALSE] \in StorageFields
      BY SyncedFields, FieldsTyped, Zenon
    <3> QED
      BY <1>12, <3>1, SyncedFields, Zenon DEF BeginComplete
  <2>2. stage' \in Stages
    BY <1>12 DEF BeginComplete
  <2>3. released_generation' \in Generation
    BY <1>12 DEF BeginComplete, ReleaseSynced
  <2> QED
    BY <1>12, <2>1, <2>2, <2>3, Zenon DEF BeginComplete
<1>13. CASE CheckComplete
  <2>1. storage' \in StorageFields
    <3>1. [storage EXCEPT !.succeeded = FALSE] \in StorageFields
      BY FieldsTyped, Zenon
    <3> QED
      BY <1>13, <3>1, Zenon DEF CheckComplete
  <2> QED
    BY <1>13, <2>1 DEF CheckComplete
<1>14. CASE Publish
  BY <1>14 DEF Publish, Published
<1>15. CASE ShortStatus
  <2>1. storage' \in StorageFields
    <3>1. 0 \in Generation
      BY DEF Generation
    <3>2. [Synced EXCEPT !.accepted = 0, !.succeeded = FALSE]
            \in StorageFields
      BY <3>1, SyncedFields, FieldsTyped, Zenon
    <3> QED
      BY <1>15, <3>2, SyncedFields, Zenon DEF ShortStatus, WithoutAcceptance
  <2> QED
    BY <1>15, <2>1 DEF ShortStatus, ReleaseSynced
<1>16. CASE OtherStatus
  <2>1. storage' \in StorageFields
    <3>1. [Synced EXCEPT !.succeeded = FALSE] \in StorageFields
      BY SyncedFields, FieldsTyped, Zenon
    <3> QED
      BY <1>16, <3>1, Zenon DEF OtherStatus
  <2> QED
    BY <1>16, <2>1 DEF OtherStatus, ReleaseSynced
<1>17. CASE FailedStatus
  <2>1. storage' \in StorageFields
    <3>1. 0 \in Generation
      BY DEF Generation
    <3>2. [Synced EXCEPT !.accepted = 0, !.succeeded = FALSE]
            \in StorageFields
      BY <3>1, SyncedFields, FieldsTyped, Zenon
    <3> QED
      BY <1>17, <3>2, SyncedFields, Zenon DEF FailedStatus, WithoutAcceptance
  <2> QED
    BY <1>17, <2>1 DEF FailedStatus, ReleaseSynced
<1>18. CASE PassedStatus
  BY <1>18, SyncedFields DEF PassedStatus, PassedStage, IsStartStop,
        ReleaseSynced
<1>19. CASE BusReset
  BY <1>19, InvalidateTyped DEF BusReset
<1>20. CASE ClassReset
  BY <1>20, InvalidateTyped DEF ClassReset
<1>21. CASE TransferFailed
  BY <1>21, InvalidateTyped DEF TransferFailed
<1>22. CASE ReadFault
  BY <1>22 DEF ReadFault
<1>23. CASE ReadReleased
  BY <1>23 DEF ReadReleased
<1>24. CASE ReadGeneration
  BY <1>24 DEF ReadGeneration
<1>25. CASE UNCHANGED vars
  BY <1>25 DEF vars, taskVars, readerVars, history
<1> QED
  BY <1>1, <1>2, <1>3, <1>4, <1>5, <1>6, <1>7, <1>8, <1>9, <1>10, <1>11,
     <1>12, <1>13, <1>14, <1>15, <1>16, <1>17, <1>18, <1>19, <1>20, <1>21,
     <1>22, <1>23, <1>24, <1>25
  DEF Next, HostCommand, TaskStep, StatusTransfer, Reset, Reader

\* The initial state has the right types.
LEMMA TypeInit == Init => TypeOK
<1> SUFFICES ASSUME Init PROVE TypeOK
  OBVIOUS
<1>1. 0 \in Generation /\ 1 \in Generation /\ 0 \in 0 .. MaxInvalidations
  BY GenerationAssumption DEF Generation
<1> QED
  BY <1>1, Zenon
  DEF Init, TypeOK, StorageFields, Commands, Stages, Readers

\* Every variable keeps its type: the counter, in particular, never passes
\* the bound that stands for its width (tinyusb_msc.c 107-112).
THEOREM TypeCorrect == Spec => []TypeOK
<1> QED
  BY TypeInit, TypeStep, PTL DEF Spec

-----------------------------------------------------------------------------
(* The inductive invariant.                                                *)

\* A generation number stands for one session only.
NoWrap == bus_generation = bumps + 1

\* The task's numbers are those of its last synchronisation or empty.
OldOrCurrent ==
  /\ storage.session <= bus_generation
  /\ seen <= bus_generation
  /\ storage.accepted \in {0, storage.session}
  /\ released_generation \in {0, storage.session}

\* The latch of this session's eject keeps the medium closed and healthy.
EjectCloses ==
  /\ storage.accepted # 0 => storage.ejected
  /\ storage.session = bus_generation /\ storage.ejected =>
       /\ ejectAccepted /\ ~wroteSince
       /\ ~io_failed /\ stage \notin {"IO", "FAULT"}

\* A release, or one about to be published, had its status delivered.
StatusDelivered ==
  /\ stage = "DECIDE" /\ cmd = "EJECT" /\ ejectAccepted => delivered
  /\ stage = "COMPLETE" /\ cmd = "EJECT" =>
       (storage.succeeded /\ storage.session = bus_generation => delivered)
  /\ stage \in {"CHECK", "PUBLISH"} /\ storage.session = bus_generation =>
       delivered
  /\ stage = "PUBLISH" => storage.accepted = storage.session
  /\ released_generation = bus_generation => storage.ejected /\ delivered

\* The application's copy is current as long as it equals the counter.
CopyIsCurrent ==
  reader = "generation" /\ seen = bus_generation =>
    released_generation = bus_generation

Evidenced == /\ NoWrap /\ OldOrCurrent /\ EjectCloses
             /\ StatusDelivered /\ CopyIsCurrent

IInv == TypeOK /\ Evidenced

\* Evidenced is preserved by every step of every agent.
LEMMA EvidencedStep == IInv /\ [Next]_vars => Evidenced'
<1> SUFFICES ASSUME IInv, [Next]_vars PROVE Evidenced'
  OBVIOUS
<1> USE GenerationAssumption
    DEF IInv, Evidenced, NoWrap, OldOrCurrent, EjectCloses, StatusDelivered,
        CopyIsCurrent, TypeOK, StorageFields, Generation, Commands, Stages,
        Readers, taskVars, readerVars, history
<1>1. CASE EjectRefused
  BY <1>1, SyncedFields DEF EjectRefused, Answer, ReleaseSynced
<1>2. ASSUME NEW w \in BOOLEAN, EjectAccepted(w) PROVE Evidenced'
  BY <1>2, SyncedFields DEF EjectAccepted, Answer, ReleaseSynced
<1>3. ASSUME NEW w \in BOOLEAN, StartStop(w) PROVE Evidenced'
  BY <1>3, SyncedFields DEF StartStop, Answer, ReleaseSynced
<1>4. ASSUME NEW p \in BOOLEAN, PreventAllow(p) PROVE Evidenced'
  BY <1>4, SyncedFields DEF PreventAllow, Answer, ReleaseSynced
<1>5. CASE SyncCache
  BY <1>5, SyncedFields DEF SyncCache, Answer, ReleaseSynced
<1>6. ASSUME NEW c \in {"READ", "WRITE"}, AccessRefused(c) PROVE Evidenced'
  BY <1>6, SyncedFields DEF AccessRefused, Answer, ReleaseSynced
<1>7. ASSUME NEW c \in {"READ", "WRITE"}, AccessStarts(c) PROVE Evidenced'
  BY <1>7, SyncedFields DEF AccessStarts, ReleaseSynced, MediumReady
<1>8. CASE AccessDone
  BY <1>8 DEF AccessDone
<1>9. CASE AccessFails
  BY <1>9 DEF AccessFails
<1>10. CASE FaultInvalidates
  BY <1>10 DEF FaultInvalidates, Invalidate, NextGeneration
<1>11. CASE DecideStatus
  BY <1>11 DEF DecideStatus
<1>12. CASE BeginComplete
  BY <1>12, SyncedFields DEF BeginComplete, ReleaseSynced
<1>13. CASE CheckComplete
  BY <1>13 DEF CheckComplete, MayPublish
<1>14. CASE Publish
  BY <1>14 DEF Publish, Published
<1>15. CASE ShortStatus
  BY <1>15, SyncedFields DEF ShortStatus, WithoutAcceptance, IsStartStop,
        ReleaseSynced
<1>16. CASE OtherStatus
  BY <1>16, SyncedFields DEF OtherStatus, IsStartStop, ReleaseSynced
<1>17. CASE FailedStatus
  BY <1>17, SyncedFields DEF FailedStatus, WithoutAcceptance, IsStartStop,
        ReleaseSynced
<1>18. CASE PassedStatus
  BY <1>18, SyncedFields DEF PassedStatus, PassedStage, IsStartStop,
        ReleaseSynced
<1>19. CASE BusReset
  BY <1>19 DEF BusReset, Invalidate, NextGeneration
<1>20. CASE ClassReset
  BY <1>20 DEF ClassReset, Invalidate, NextGeneration
<1>21. CASE TransferFailed
  BY <1>21 DEF TransferFailed, Invalidate, NextGeneration
<1>22. CASE ReadFault
  BY <1>22 DEF ReadFault
<1>23. CASE ReadReleased
  BY <1>23 DEF ReadReleased
<1>24. CASE ReadGeneration
  BY <1>24 DEF ReadGeneration
<1>25. CASE UNCHANGED vars
  BY <1>25 DEF vars, taskVars, readerVars, history
<1> QED
  BY <1>1, <1>2, <1>3, <1>4, <1>5, <1>6, <1>7, <1>8, <1>9, <1>10, <1>11,
     <1>12, <1>13, <1>14, <1>15, <1>16, <1>17, <1>18, <1>19, <1>20, <1>21,
     <1>22, <1>23, <1>24, <1>25
  DEF Next, HostCommand, TaskStep, StatusTransfer, Reset, Reader

\* Evidenced holds initially.
LEMMA EvidencedInit == Init => Evidenced
BY DEF Init, Evidenced, NoWrap, OldOrCurrent, EjectCloses, StatusDelivered,
       CopyIsCurrent

\* Every reachable state satisfies the inductive invariant.
LEMMA Inductive == Spec => []IInv
<1>1. Init => IInv
  BY TypeInit, EvidencedInit DEF IInv
<1>2. IInv /\ [Next]_vars => IInv'
  BY TypeStep, EvidencedStep DEF IInv
<1> QED
  BY <1>1, <1>2, PTL DEF Spec

-----------------------------------------------------------------------------
(* The safety properties.                                                  *)

\* A counted release is that of this session's eject, on a healthy medium.
LEMMA ReleaseOfThisSession ==
  ASSUME IInv, released_generation = bus_generation
  PROVE  /\ storage.session = bus_generation
         /\ storage.ejected /\ delivered /\ ejectAccepted /\ ~wroteSince
         /\ ~io_failed /\ stage \notin {"IO", "FAULT"}
<1>1. storage.session = bus_generation
  BY DEF IInv, Evidenced, NoWrap, OldOrCurrent, TypeOK
<1> QED
  BY <1>1 DEF IInv, Evidenced, StatusDelivered, EjectCloses

\* A release counts only for an eject accepted in this very session whose
\* passed status the host received, with no write since
\* (tinyusb_msc.c 1125-1172).
THEOREM EarnedRelease == Spec => []ReleaseIsEarned
<1>1. IInv => ReleaseIsEarned
  BY ReleaseOfThisSession DEF ReleaseIsEarned, HostReleased
<1> QED
  BY <1>1, Inductive, PTL

\* host_released answers true only at an instant at which it is true
\* (tinyusb_msc.c 1144-1149).
THEOREM CurrentAnswer == Spec => []AnswerIsCurrent
<1>1. IInv => AnswerIsCurrent
  BY ReleaseOfThisSession
  DEF AnswerIsCurrent, HostReleased, IInv, Evidenced, CopyIsCurrent
<1> QED
  BY <1>1, Inductive, PTL

\* While a release counts no access of the host is under way
\* (tinyusb_msc.c 1204-1304).
THEOREM QuietRelease == Spec => []ReleasedIsQuiet
<1>1. IInv => ReleasedIsQuiet
  BY ReleaseOfThisSession DEF ReleasedIsQuiet, HostReleased
<1> QED
  BY <1>1, Inductive, PTL

\* What a step without an invalidation leaves of a counted release.
LEMMA ReleaseStays ==
  ASSUME IInv, [Next]_vars, released_generation = bus_generation
  PROVE  bumps' = bumps => released_generation' = bus_generation'
<1> USE GenerationAssumption, ReleaseOfThisSession
    DEF IInv, Evidenced, NoWrap, OldOrCurrent, EjectCloses, StatusDelivered,
        TypeOK, StorageFields, Generation, taskVars, readerVars, history
<1> DEFINE Stays == bumps' = bumps => released_generation' = bus_generation'
<1>1. CASE EjectRefused
  BY <1>1, SyncedFields DEF EjectRefused, Answer, ReleaseSynced
<1>2. ASSUME NEW w \in BOOLEAN, EjectAccepted(w) PROVE Stays
  BY <1>2, SyncedFields DEF EjectAccepted, Answer, ReleaseSynced
<1>3. ASSUME NEW w \in BOOLEAN, StartStop(w) PROVE Stays
  BY <1>3, SyncedFields DEF StartStop, Answer, ReleaseSynced
<1>4. ASSUME NEW p \in BOOLEAN, PreventAllow(p) PROVE Stays
  BY <1>4, SyncedFields DEF PreventAllow, Answer, ReleaseSynced
<1>5. CASE SyncCache
  BY <1>5, SyncedFields DEF SyncCache, Answer, ReleaseSynced
<1>6. ASSUME NEW c \in {"READ", "WRITE"}, AccessRefused(c) PROVE Stays
  BY <1>6, SyncedFields DEF AccessRefused, Answer, ReleaseSynced
<1>7. ASSUME NEW c \in {"READ", "WRITE"}, AccessStarts(c) PROVE Stays
  BY <1>7, SyncedFields DEF AccessStarts, ReleaseSynced, MediumReady
<1>8. CASE AccessDone
  BY <1>8 DEF AccessDone
<1>9. CASE AccessFails
  BY <1>9 DEF AccessFails
<1>10. CASE FaultInvalidates
  BY <1>10 DEF FaultInvalidates, Invalidate, NextGeneration
<1>11. CASE DecideStatus
  BY <1>11 DEF DecideStatus
<1>12. CASE BeginComplete
  BY <1>12, SyncedFields DEF BeginComplete, ReleaseSynced
<1>13. CASE CheckComplete
  BY <1>13 DEF CheckComplete, MayPublish
<1>14. CASE Publish
  BY <1>14 DEF Publish, Published
<1>15. CASE ShortStatus
  BY <1>15, SyncedFields DEF ShortStatus, WithoutAcceptance, IsStartStop,
        ReleaseSynced
<1>16. CASE OtherStatus
  BY <1>16, SyncedFields DEF OtherStatus, IsStartStop, ReleaseSynced
<1>17. CASE FailedStatus
  BY <1>17, SyncedFields DEF FailedStatus, WithoutAcceptance, IsStartStop,
        ReleaseSynced
<1>18. CASE PassedStatus
  BY <1>18, SyncedFields DEF PassedStatus, PassedStage, IsStartStop,
        ReleaseSynced
<1>19. CASE BusReset
  BY <1>19 DEF BusReset, Invalidate, NextGeneration
<1>20. CASE ClassReset
  BY <1>20 DEF ClassReset, Invalidate, NextGeneration
<1>21. CASE TransferFailed
  BY <1>21 DEF TransferFailed, Invalidate, NextGeneration
<1>22. CASE ReadFault
  BY <1>22 DEF ReadFault
<1>23. CASE ReadReleased
  BY <1>23 DEF ReadReleased
<1>24. CASE ReadGeneration
  BY <1>24 DEF ReadGeneration
<1>25. CASE UNCHANGED vars
  BY <1>25 DEF vars, taskVars, readerVars, history
<1> QED
  BY <1>1, <1>2, <1>3, <1>4, <1>5, <1>6, <1>7, <1>8, <1>9, <1>10, <1>11,
     <1>12, <1>13, <1>14, <1>15, <1>16, <1>17, <1>18, <1>19, <1>20, <1>21,
     <1>22, <1>23, <1>24, <1>25
  DEF Next, HostCommand, TaskStep, StatusTransfer, Reset, Reader

\* A published release ends only with its session (tinyusb_msc.c 1133-1140).
THEOREM RevokedOnlyByInvalidation == Spec => OnlyInvalidationRevokes
<1>1. IInv /\ IInv' /\ [Next]_vars =>
        (HostReleased /\ ~HostReleased' => bumps' # bumps)
  <2> SUFFICES ASSUME IInv, IInv', [Next]_vars, HostReleased, bumps' = bumps
               PROVE  HostReleased'
    OBVIOUS
  <2>1. (released_generation = bus_generation)'
    BY ReleaseStays DEF HostReleased
  <2>2. (IInv /\ released_generation = bus_generation => ~io_failed)'
    BY ReleaseOfThisSession, PTL
  <2> QED
    BY <2>1, <2>2 DEF HostReleased
<1>2. IInv /\ IInv' /\ [Next]_vars =>
        [HostReleased /\ ~HostReleased' => bumps' # bumps]_vars
  BY <1>1
<1> QED
  BY <1>2, Inductive, PTL DEF Spec, OnlyInvalidationRevokes

-----------------------------------------------------------------------------
(* The refinement of ReleaseEvidence.                                      *)

\* Every step of the counters is a step of the evidence or leaves it alone.
LEMMA EvidenceStep ==
  IInv /\ IInv' /\ [Next]_vars => [Abstract!Next]_(Abstract!vars)
<1> SUFFICES ASSUME IInv, IInv', [Next]_vars
             PROVE  [Abstract!Next]_(Abstract!vars)
  OBVIOUS
<1> DEFINE Refines == [Abstract!Next]_(Abstract!vars)
<1> USE DEF IInv, Evidenced, NoWrap, OldOrCurrent, EjectCloses,
        StatusDelivered, TypeOK, StorageFields, Generation, taskVars,
        readerVars, history, EvidenceNow, Abstract!Next, Abstract!vars,
        Abstract!Accept, Abstract!Complete, Abstract!Refuse,
        Abstract!Invalidate, Abstract!Fault
<1>1. CASE EjectRefused
  BY <1>1, SyncedFields DEF EjectRefused, Answer, ReleaseSynced
<1>2. ASSUME NEW w \in BOOLEAN, EjectAccepted(w) PROVE Refines
  BY <1>2, SyncedFields DEF EjectAccepted, Answer, ReleaseSynced
<1>3. ASSUME NEW w \in BOOLEAN, StartStop(w) PROVE Refines
  BY <1>3, SyncedFields DEF StartStop, Answer, ReleaseSynced
<1>4. ASSUME NEW p \in BOOLEAN, PreventAllow(p) PROVE Refines
  BY <1>4, SyncedFields DEF PreventAllow, Answer, ReleaseSynced
<1>5. CASE SyncCache
  BY <1>5, SyncedFields DEF SyncCache, Answer, ReleaseSynced
<1>6. ASSUME NEW c \in {"READ", "WRITE"}, AccessRefused(c) PROVE Refines
  BY <1>6, SyncedFields DEF AccessRefused, Answer, ReleaseSynced
<1>7. ASSUME NEW c \in {"READ", "WRITE"}, AccessStarts(c) PROVE Refines
  BY <1>7, SyncedFields DEF AccessStarts, ReleaseSynced, MediumReady
<1>8. CASE AccessDone
  BY <1>8 DEF AccessDone
<1>9. CASE AccessFails
  <2>1. released_generation # bus_generation
    BY <1>9, ReleaseOfThisSession DEF AccessFails
  <2>2. EvidenceNow = "open" /\ EvidenceNow' = EvidenceNow
    BY <1>9, <2>1 DEF AccessFails
  <2>3. io_failed' = TRUE
    BY <1>9 DEF AccessFails
  <2> HIDE DEF EvidenceNow
  <2> QED
    BY <2>2, <2>3, Zenon
<1>10. CASE FaultInvalidates
  BY <1>10 DEF FaultInvalidates, Invalidate, NextGeneration
<1>11. CASE DecideStatus
  BY <1>11 DEF DecideStatus
<1>12. CASE BeginComplete
  BY <1>12, SyncedFields DEF BeginComplete, ReleaseSynced
<1>13. CASE CheckComplete
  BY <1>13 DEF CheckComplete, MayPublish
<1>14. CASE Publish
  BY <1>14 DEF Publish, Published
<1>15. CASE ShortStatus
  BY <1>15, SyncedFields DEF ShortStatus, WithoutAcceptance, IsStartStop,
        ReleaseSynced
<1>16. CASE OtherStatus
  BY <1>16, SyncedFields DEF OtherStatus, IsStartStop, ReleaseSynced
<1>17. CASE FailedStatus
  BY <1>17, SyncedFields DEF FailedStatus, WithoutAcceptance, IsStartStop,
        ReleaseSynced
<1>18. CASE PassedStatus
  BY <1>18, SyncedFields DEF PassedStatus, PassedStage, IsStartStop,
        ReleaseSynced
<1>19. CASE BusReset
  BY <1>19 DEF BusReset, Invalidate, NextGeneration
<1>20. CASE ClassReset
  BY <1>20 DEF ClassReset, Invalidate, NextGeneration
<1>21. CASE TransferFailed
  BY <1>21 DEF TransferFailed, Invalidate, NextGeneration
<1>22. CASE ReadFault
  BY <1>22 DEF ReadFault
<1>23. CASE ReadReleased
  BY <1>23 DEF ReadReleased
<1>24. CASE ReadGeneration
  BY <1>24 DEF ReadGeneration
<1>25. CASE UNCHANGED vars
  BY <1>25 DEF vars, taskVars, readerVars, history
<1> QED
  BY <1>1, <1>2, <1>3, <1>4, <1>5, <1>6, <1>7, <1>8, <1>9, <1>10, <1>11,
     <1>12, <1>13, <1>14, <1>15, <1>16, <1>17, <1>18, <1>19, <1>20, <1>21,
     <1>22, <1>23, <1>24, <1>25
  DEF Next, HostCommand, TaskStep, StatusTransfer, Reset, Reader

\* The counters that the interrupt bumps implement ReleaseEvidence, on which
\* UsbStorage is built (tinyusb_msc.c 104-182, 1125-1304).
THEOREM Refinement == Spec => ImplementsEvidence
<1>1. Init => Abstract!Init
  BY DEF Init, Abstract!Init, EvidenceNow
<1> QED
  BY <1>1, EvidenceStep, Inductive, PTL
  DEF Spec, ImplementsEvidence, Abstract!Spec

-----------------------------------------------------------------------------
(* The storage component: what is known at each step of its calls.         *)

\* A careful use of the component: storages are created for USB, the callbacks
\* of the TinyUSB task are stopped while one is deleted, and the bus events do
\* not move one. usb_storage.c is such a use: it creates its storage for USB
\* with auto_mount_off and deletes none (lines 284-298).
CarefulUse == Quiesced /\ CreateAs \subseteq {"USB"} /\ UsbTask \notin Movers

\* A call and the storage it works on: what is known at each of its steps.
StepKnows(c) ==
  /\ c.step = "none" => c.op = "none" /\ c.s = None
  /\ c.op = "none" => c.step = "none"
  /\ c.step \in {"install", "object", "map"} =>
       c.op = "new" /\ c.s \in Storage \ handles /\ c.at = "USB"
  /\ c.step = "map" => c.s \in alive
  /\ c.step \in {"mount", "unmount", "unmap", "close"} => c.s \in handles
  /\ c.step = "mount" => c.op = "set" /\ owner[c.s] = "USB"
  /\ c.step = "unmount" => c.op \in {"set", "delete"} /\ owner[c.s] = "APP"
  /\ c.step \in {"unmap", "close"} => c.op = "delete" /\ owner[c.s] = "USB"

CallInv ==
  /\ call[UsbTask] = Idle
  /\ \A t \in AppTask : StepKnows(call[t])

\* Two calls never work on the same storage.
ExclusiveInv ==
  \A t, u \in AppTask : call[t].s # None /\ call[t].s = call[u].s => t = u

\* Whatever belongs to USB, known to the application or not, has nothing of
\* the FAT stack on it.
MountInv ==
  /\ handles \subseteq alive
  /\ \A s \in Storage \ handles : owner[s] = "USB"
  /\ \A s \in Storage : owner[s] = "USB" =>
       s \notin fat /\ s \notin vfs /\ \A d \in Drive : drive[d] # s
  /\ \A d, e \in Drive : drive[d] # None /\ drive[d] = drive[e] => d = e

\* A LUN points to a storage the application has and is not freeing, and the
\* count of storages covers the LUNs in use.
LunInv ==
  /\ \A l \in Luns : mapped[l] # None => mapped[l] \in handles
  /\ \A l, m \in Luns : mapped[l] # None /\ mapped[l] = mapped[m] => l = m
  /\ \A t \in AppTask, l \in Luns : call[t].step = "close" => mapped[l] # call[t].s
  /\ Cardinality({l \in Luns : mapped[l] # None}) <= lun_count

\* An access is counted on a storage the application has, and no deletion of
\* that storage is under way.
AccessInv ==
  user # None =>
    /\ user \in handles /\ active_io[user] = 1
    /\ \A t \in AppTask : call[t].op = "delete" => call[t].s # user

StorageIInv ==
  StorageTypeOK /\ CallInv /\ ExclusiveInv /\ MountInv /\ LunInv /\ AccessInv

-----------------------------------------------------------------------------
(* What is written to a task's call, to a LUN and to a drive.              *)

Ops   == {"none", "new", "delete", "set"}
Steps == {"none", "install", "object", "map", "mount", "unmount", "unmap", "close"}

LEMMA CallFields ==
  ASSUME NEW c \in Calls
  PROVE  /\ c.op \in Ops /\ c.step \in Steps
         /\ c.s \in Storage \union {None} /\ c.at \in {"APP", "USB"}
         /\ c.mine \in BOOLEAN /\ c.pdrv \in Drive \union {None}
BY DEF Calls, Ops, Steps

\* No storage and no task is mistaken for none.
LEMMA Distinct ==
  /\ None \notin Storage /\ None \notin Drive /\ Drive \subseteq Nat
  /\ MaxLuns \in Nat /\ UsbTask \notin AppTask
BY MscStorageAssumption

LEMMA IdleSays ==
  /\ Idle \in Calls
  /\ Idle.op = "none" /\ Idle.s = None /\ Idle.step = "none"
BY DEF Idle, Calls

\* A call that returns is forgotten and no other call is.
LEMMA ReturnsSays ==
  ASSUME call \in [Task -> Calls], NEW t \in Task, Returns(t)
  PROVE  /\ call' \in [Task -> Calls]
         /\ call'[t] = Idle
         /\ \A u \in Task : u # t => call'[u] = call[u]
BY IdleSays DEF Returns

\* A call that goes on to its next step keeps what it works on.
LEMMA GoesSays ==
  ASSUME call \in [Task -> Calls], NEW t \in Task, NEW k \in Steps, Goes(t, k)
  PROVE  /\ call' \in [Task -> Calls]
         /\ call'[t].op = call[t].op /\ call'[t].s = call[t].s
         /\ call'[t].at = call[t].at /\ call'[t].step = k
         /\ \A u \in Task : u # t => call'[u] = call[u]
<1>1. [call[t] EXCEPT !.step = k] \in Calls
  BY DEF Calls, Steps
<1> QED
  BY <1>1 DEF Goes, Calls

\* A call that starts is the only one that changes.
LEMMA StartsSays ==
  ASSUME call \in [Task -> Calls], NEW t \in Task, NEW c \in Calls,
         call' = [call EXCEPT ![t] = c]
  PROVE  /\ call' \in [Task -> Calls]
         /\ call'[t] = c
         /\ \A u \in Task : u # t => call'[u] = call[u]
OBVIOUS

\* The application's tasks are tasks.
LEMMA AppTasks == AppTask \subseteq Task /\ UsbTask \in Task
BY DEF Task

\* What the invariant needs of the steps that leave storages, LUNs, drives
\* and accesses alone.
LEMMA CallOnly ==
  ASSUME StorageIInv, call' \in [Task -> Calls],
         NEW t \in AppTask, \A u \in Task : u # t => call'[u] = call[u],
         StepKnows(call'[t]),
         call'[t].s # None => \A u \in AppTask : u # t => call[u].s # call'[t].s,
         call'[t].step = "close" => \A l \in Luns : mapped[l] # call'[t].s,
         call'[t].op = "delete" => call'[t].s # user \/ user = None,
         UNCHANGED <<mapVars, objVars, mountVars, ioVars, aborted>>
  PROVE  StorageIInv'
<1> USE AppTasks, Distinct
<1>1. StorageTypeOK'
  BY DEF StorageIInv, StorageTypeOK, mapVars, objVars, mountVars, ioVars
<1>2. CallInv'
  BY DEF StorageIInv, CallInv, StepKnows, objVars, mountVars
<1>3. ExclusiveInv'
  BY DEF StorageIInv, ExclusiveInv
<1>4. MountInv'
  BY DEF StorageIInv, MountInv, objVars, mountVars
<1>5. LunInv'
  BY DEF StorageIInv, LunInv, mapVars, objVars
<1>6. AccessInv'
  BY DEF StorageIInv, AccessInv, ioVars, objVars
<1> QED
  BY <1>1, <1>2, <1>3, <1>4, <1>5, <1>6 DEF StorageIInv

-----------------------------------------------------------------------------
(* The steps that only start, move on or end a call.                       *)

LEMMA NewStorageStep ==
  ASSUME StorageIInv, CarefulUse, NEW t \in AppTask, NEW s \in Storage,
         NEW at \in CreateAs, NewStorage(t, s, at)
  PROVE  StorageIInv'
<1> USE AppTasks, Distinct
<1>0. PICK m \in BOOLEAN : m = (driver = "absent")
  OBVIOUS
<1> DEFINE k == IF driver = "absent" THEN "install" ELSE "object"
           c == [op |-> "new", s |-> s, at |-> at, pdrv |-> None, mine |-> m,
                 step |-> k]
<1>1. c \in Calls /\ c.op = "new" /\ c.s = s /\ c.at = "USB"
        /\ c.step \in {"install", "object"}
  BY DEF Calls, CarefulUse
<1>2. call' = [call EXCEPT ![t] = c]
  BY <1>0, Zenon DEF NewStorage
<1> HIDE DEF c
<1>3. call' \in [Task -> Calls] /\ call'[t] = c
        /\ \A u \in Task : u # t => call'[u] = call[u]
  BY <1>1, <1>2, StartsSays DEF StorageIInv, StorageTypeOK
<1>4. StepKnows(call'[t])
  BY <1>1, <1>3 DEF StepKnows, NewStorage
<1>5. \A u \in AppTask : u # t => call[u].s # s
  BY DEF NewStorage, Busy
<1> QED
  BY <1>1, <1>3, <1>4, <1>5, CallOnly DEF NewStorage

LEMMA MovesStep ==
  ASSUME StorageIInv, CarefulUse, NEW t \in Task, NEW s \in Storage,
         NEW at \in {"APP", "USB"}, Moves(t, s, at)
  PROVE  StorageIInv'
<1> USE AppTasks, Distinct
<1>0. t \in AppTask
  BY DEF Moves, CarefulUse, Task
<1> DEFINE k == IF at = "APP" THEN "mount" ELSE "unmount"
           c == [Idle EXCEPT !.op = "set", !.s = s, !.at = at, !.step = k]
<1>1. c \in Calls /\ c.op = "set" /\ c.s = s /\ c.at = at /\ c.step = k
  BY DEF Calls, Idle
<1>2. call' = [call EXCEPT ![t] = c]
  BY DEF Moves
<1> HIDE DEF c
<1>3. call' \in [Task -> Calls] /\ call'[t] = c
        /\ \A u \in Task : u # t => call'[u] = call[u]
  BY <1>1, <1>2, StartsSays DEF StorageIInv, StorageTypeOK
<1>4. s \in handles /\ \A u \in AppTask : call[u].s # s
  BY <1>0 DEF Moves
<1>5. owner[s] \in {"APP", "USB"} /\ owner[s] # at
  BY DEF Moves, StorageIInv, StorageTypeOK
<1>6. StepKnows(call'[t])
  BY <1>1, <1>3, <1>4, <1>5 DEF StepKnows
<1> QED
  BY <1>0, <1>1, <1>3, <1>4, <1>6, CallOnly DEF Moves

\* The storage is not in use when its deletion starts: the access of the
\* TinyUSB task is counted.
LEMMA DeleteStorageStep ==
  ASSUME StorageIInv, CarefulUse, NEW t \in AppTask, NEW s \in Storage,
         DeleteStorage(t, s)
  PROVE  StorageIInv'
<1> USE AppTasks, Distinct
<1> DEFINE k == IF owner[s] = "APP" THEN "unmount" ELSE "unmap"
           c == [Idle EXCEPT !.op = "delete", !.s = s, !.step = k]
<1>1. c \in Calls /\ c.op = "delete" /\ c.s = s /\ c.step = k
  BY DEF Calls, Idle
<1>2. call' = [call EXCEPT ![t] = c]
  BY DEF DeleteStorage
<1> HIDE DEF c
<1>3. call' \in [Task -> Calls] /\ call'[t] = c
        /\ \A u \in Task : u # t => call'[u] = call[u]
  BY <1>1, <1>2, StartsSays DEF StorageIInv, StorageTypeOK
<1>4. s \in handles /\ \A u \in AppTask : call[u].s # s
  BY DEF DeleteStorage
<1>5. user # s
  BY DEF DeleteStorage, StorageIInv, AccessInv
<1>6. owner[s] \in {"APP", "USB"}
  BY DEF StorageIInv, StorageTypeOK
<1>7. StepKnows(call'[t])
  BY <1>1, <1>3, <1>4, <1>6 DEF StepKnows
<1> QED
  BY <1>1, <1>3, <1>4, <1>5, <1>7, CallOnly DEF DeleteStorage

LEMMA PicksDriveStep ==
  ASSUME StorageIInv, CarefulUse, NEW t \in Task, PicksDrive(t)
  PROVE  StorageIInv'
<1> USE AppTasks, Distinct
<1>0. t \in AppTask
  BY IdleSays DEF PicksDrive, Task, StorageIInv, CallInv
<1>1. PICK d \in Drive : call' = [call EXCEPT ![t].pdrv = d]
  BY DEF PicksDrive
<1> DEFINE c == [call[t] EXCEPT !.pdrv = d]
<1>2. call[t] \in Calls
  BY DEF StorageIInv, StorageTypeOK
<1>3. c \in Calls /\ c.op = call[t].op /\ c.s = call[t].s /\ c.step = call[t].step
        /\ c.at = call[t].at
  BY <1>2 DEF Calls
<1>4. call' = [call EXCEPT ![t] = c]
  BY <1>1
<1> HIDE DEF c
<1>5. call' \in [Task -> Calls] /\ call'[t] = c
        /\ \A u \in Task : u # t => call'[u] = call[u]
  BY <1>3, <1>4, StartsSays DEF StorageIInv, StorageTypeOK
<1>6. StepKnows(call'[t])
  BY <1>0, <1>3, <1>5 DEF StepKnows, StorageIInv, CallInv
<1>7. call[t].step = "mount"
  BY DEF PicksDrive
<1>8. call[t].op = "set"
  BY <1>0, <1>7 DEF StorageIInv, CallInv, StepKnows
<1>9. \A u \in AppTask : call[t].s # None /\ u # t => call[u].s # call[t].s
  BY <1>0 DEF StorageIInv, ExclusiveInv
<1> QED
  BY <1>0, <1>3, <1>5, <1>6, <1>7, <1>8, <1>9, CallOnly DEF PicksDrive

\* A call that returns and leaves everything else as it was.
LEMMA ReturnsOnly ==
  ASSUME StorageIInv, NEW t \in AppTask, Returns(t),
         UNCHANGED <<mapVars, objVars, mountVars, ioVars, aborted>>
  PROVE  StorageIInv'
<1> USE AppTasks, Distinct
<1>1. call' \in [Task -> Calls] /\ call'[t] = Idle
        /\ \A u \in Task : u # t => call'[u] = call[u]
  BY ReturnsSays DEF StorageIInv, StorageTypeOK
<1>2. StepKnows(call'[t])
  BY <1>1, IdleSays DEF StepKnows
<1> QED
  BY <1>1, <1>2, IdleSays, CallOnly

\* What belongs to the application is not asked to be mounted, and a creation
\* for USB never gets here: only the lack of a drive number ends a mount early.
LEMMA MountReturnsStep ==
  ASSUME StorageIInv, CarefulUse, NEW t \in Task, MountReturns(t)
  PROVE  StorageIInv'
<1> USE AppTasks, Distinct
<1>1. t \in AppTask /\ call[t].step = "mount"
  BY IdleSays DEF MountReturns, Task, StorageIInv, CallInv
<1>2. call[t].op = "set"
  BY <1>1 DEF StorageIInv, CallInv, StepKnows
<1>3. Returns(t) /\ UNCHANGED <<mapVars, objVars>>
  BY <1>2 DEF MountReturns, AfterMount
<1> QED
  BY <1>1, <1>3, ReturnsOnly DEF MountReturns

-----------------------------------------------------------------------------
(* The driver, and the steps of a creation.                                *)

LunsUsed == {l \in Luns : mapped[l] # None}

LEMMA LunsFinite ==
  /\ IsFiniteSet(Luns)
  /\ \A S \in SUBSET Luns : IsFiniteSet(S) /\ Cardinality(S) \in Nat
<1>1. IsFiniteSet(Luns)
  BY FS_Interval, Distinct DEF Luns
<1> QED
  BY <1>1, FS_Subset, FS_CardinalityType

\* A new driver has no storage at any LUN.
LEMMA NewDriverLuns ==
  ASSUME StorageIInv, NEW k \in {"application", "internal"}, NewDriver(k),
         UNCHANGED handles, CallInv'
  PROVE  LunInv' /\ driver' = k /\ lun_count' = 0
           /\ mapped' \in [Luns -> Storage \union {None}]
<1>1. \A l \in Luns : mapped'[l] = None
  BY DEF NewDriver
<1>2. {l \in Luns : mapped'[l] # None} = {}
  BY <1>1
<1>3. Cardinality({l \in Luns : mapped'[l] # None}) <= lun_count'
  BY <1>2, FS_EmptySet DEF NewDriver
<1>4. \A t \in AppTask, l \in Luns :
        call'[t].step = "close" => mapped'[l] # call'[t].s
  <2>1. \A t \in AppTask : call'[t].step = "close" => call'[t].s \in handles
    BY DEF CallInv, StepKnows
  <2> QED
    BY <1>1, <2>1, Distinct DEF StorageIInv, StorageTypeOK
<1>5. driver' = k /\ lun_count' = 0 /\ mapped' = [l \in Luns |-> None]
  BY DEF NewDriver
<1> QED
  BY <1>1, <1>3, <1>4, <1>5 DEF LunInv

LEMMA InstallDriverStep ==
  ASSUME StorageIInv, NEW t \in AppTask, InstallDriver(t)
  PROVE  StorageIInv'
<1> USE AppTasks, Distinct
<1>1. /\ NewDriver("application")
      /\ UNCHANGED <<objVars, mountVars, ioVars, call, aborted>>
  BY DEF InstallDriver
<1>2. CallInv'
  BY <1>1 DEF StorageIInv, CallInv, StepKnows, objVars, mountVars
<1>3. LunInv' /\ driver' = "application" /\ lun_count' = 0
        /\ mapped' \in [Luns -> Storage \union {None}]
  BY <1>1, <1>2, NewDriverLuns DEF objVars
<1> QED
  BY <1>1, <1>2, <1>3
  DEF StorageIInv, StorageTypeOK, ExclusiveInv, MountInv,
      AccessInv, objVars, mountVars, ioVars

LEMMA UninstallDriverStep ==
  ASSUME StorageIInv, NEW t \in AppTask, UninstallDriver(t)
  PROVE  StorageIInv'
BY DEF UninstallDriver, StorageIInv, StorageTypeOK, CallInv, StepKnows,
       ExclusiveInv, MountInv, LunInv, AccessInv, objVars, mountVars, ioVars

LEMMA NewInstallsStep ==
  ASSUME StorageIInv, NEW t \in AppTask, NewInstalls(t)
  PROVE  StorageIInv'
<1> USE AppTasks, Distinct
<1>1. CASE NewDriver("internal") /\ Goes(t, "object")
  <2>1. UNCHANGED <<objVars, mountVars, ioVars, aborted>>
    BY DEF NewInstalls
  <2>3. /\ call' \in [Task -> Calls]
        /\ call'[t].op = call[t].op /\ call'[t].s = call[t].s
        /\ call'[t].at = call[t].at /\ call'[t].step = "object"
        /\ \A u \in Task : u # t => call'[u] = call[u]
    BY <1>1, GoesSays DEF Steps, StorageIInv, StorageTypeOK
  <2>4. call[t].op = "new" /\ call[t].step = "install"
    BY DEF NewInstalls, At
  <2>6. CallInv'
    BY <2>1, <2>3, <2>4 DEF StorageIInv, CallInv, StepKnows, objVars, mountVars
  <2>2. LunInv' /\ driver' = "internal" /\ lun_count' = 0
          /\ mapped' \in [Luns -> Storage \union {None}]
    BY <1>1, <2>1, <2>6, NewDriverLuns DEF objVars
  <2>5. StorageTypeOK'
    BY <2>1, <2>2, <2>3 DEF StorageIInv, StorageTypeOK, objVars, mountVars, ioVars
  <2>7. ExclusiveInv'
    BY <2>3 DEF StorageIInv, ExclusiveInv
  <2>8. MountInv' /\ AccessInv'
    BY <2>1, <2>3, <2>4
    DEF StorageIInv, MountInv, AccessInv, objVars, mountVars, ioVars
  <2> QED
    BY <2>2, <2>5, <2>6, <2>7, <2>8 DEF StorageIInv
<1>2. CASE driver # "absent" /\ UNCHANGED mapVars /\ Returns(t)
  BY <1>2, ReturnsOnly DEF NewInstalls
<1> QED
  BY <1>1, <1>2 DEF NewInstalls

\* The object of a storage the application does not have yet.
LEMMA NewObjectStep ==
  ASSUME StorageIInv, NEW t \in AppTask, NewObject(t)
  PROVE  StorageIInv'
<1> USE AppTasks, Distinct
<1> DEFINE s == call[t].s
<1>1. call[t].op = "new" /\ call[t].step = "object"
  BY DEF NewObject, At
<1>2. s \in Storage \ handles /\ call[t].at = "USB"
  BY <1>1 DEF StorageIInv, CallInv, StepKnows
<1>3. /\ call' \in [Task -> Calls]
      /\ call'[t].op = "new" /\ call'[t].s = s
      /\ call'[t].at = "USB" /\ call'[t].step = "map"
      /\ \A u \in Task : u # t => call'[u] = call[u]
  BY <1>1, <1>2, GoesSays DEF NewObject, Steps, StorageIInv, StorageTypeOK
<1>4. owner[s] = "USB" /\ owner' = owner
  BY <1>2 DEF NewObject, StorageIInv, MountInv, StorageTypeOK
<1>5. active_io' \in [Storage -> {0, 1}]
        /\ \A r \in handles : active_io'[r] = active_io[r]
  BY <1>2 DEF NewObject, StorageIInv, StorageTypeOK
<1>6. StorageTypeOK'
  BY <1>2, <1>3, <1>4, <1>5 DEF NewObject, StorageIInv, StorageTypeOK, mapVars
<1>7. CallInv'
  BY <1>2, <1>3, <1>4 DEF NewObject, StorageIInv, CallInv, StepKnows
<1>8. ExclusiveInv'
  BY <1>3 DEF StorageIInv, ExclusiveInv
<1>9. MountInv'
  BY <1>4 DEF NewObject, StorageIInv, MountInv
<1>10. LunInv'
  BY <1>3 DEF NewObject, StorageIInv, LunInv, mapVars
<1>11. AccessInv'
  BY <1>3, <1>5 DEF NewObject, StorageIInv, AccessInv
<1> QED
  BY <1>6, <1>7, <1>8, <1>9, <1>10, <1>11 DEF StorageIInv

\* A creation that gives up frees at most the object that only it knows, and
\* takes the driver away only when no LUN is in use.
LEMMA GivesUp ==
  ASSUME StorageIInv, NEW t \in AppTask, call[t].step \in {"object", "map"},
         GiveBackDriver(t), Returns(t), UNCHANGED <<mapped, lun_count, handles>>,
         alive' \in {alive, alive \ {call[t].s}},
         UNCHANGED <<mountVars, ioVars, aborted>>
  PROVE  StorageIInv'
<1> USE AppTasks, Distinct
<1>1. call[t].op = "new" /\ call[t].s \in Storage \ handles
  BY DEF StorageIInv, CallInv, StepKnows
<1>2. call' \in [Task -> Calls] /\ call'[t] = Idle
        /\ \A u \in Task : u # t => call'[u] = call[u]
  BY ReturnsSays DEF StorageIInv, StorageTypeOK
<1>3. \A u \in AppTask : u # t => call[u].s # call[t].s
  BY <1>1 DEF StorageIInv, ExclusiveInv
<1>4. StorageTypeOK'
  BY <1>2 DEF StorageIInv, StorageTypeOK, GiveBackDriver, mountVars, ioVars
<1>5. \A u \in AppTask : StepKnows(call[u])'
  <2> SUFFICES ASSUME NEW u \in AppTask
               PROVE  StepKnows(call[u])'
    OBVIOUS
  <2>1. CASE u = t
    BY <1>2, <2>1, IdleSays DEF StepKnows
  <2>2. CASE u # t
    BY <1>2, <1>3, <2>2 DEF StorageIInv, CallInv, StepKnows, mountVars
  <2> QED
    BY <2>1, <2>2
<1>6. CallInv'
  BY <1>2, <1>5 DEF StorageIInv, CallInv, StepKnows
<1>7. ExclusiveInv'
  BY <1>2, IdleSays DEF StorageIInv, ExclusiveInv
<1>8. MountInv'
  BY <1>1 DEF StorageIInv, MountInv, mountVars
<1>9. LunInv'
  BY <1>2, IdleSays DEF StorageIInv, LunInv
<1>10. AccessInv'
  BY <1>2, IdleSays DEF StorageIInv, AccessInv, ioVars
<1> QED
  BY <1>4, <1>6, <1>7, <1>8, <1>9, <1>10 DEF StorageIInv

LEMMA NewObjectFailsStep ==
  ASSUME StorageIInv, NEW t \in AppTask, NewObjectFails(t)
  PROVE  StorageIInv'
BY GivesUp DEF NewObjectFails, At, objVars

LEMMA NewUnmappableStep ==
  ASSUME StorageIInv, NEW t \in AppTask, NewUnmappable(t)
  PROVE  StorageIInv'
BY GivesUp DEF NewUnmappable, NewUndone, Frees, At

\* The LUN a storage is put at may be in use, when another storage than the
\* last was deleted before: the LUNs in use are still no more than counted.
LEMMA NewMapsStep ==
  ASSUME StorageIInv, NEW t \in AppTask, NewMaps(t)
  PROVE  StorageIInv'
<1> USE AppTasks, Distinct
<1> DEFINE s == call[t].s
<1>1. call[t].op = "new" /\ call[t].step = "map"
  BY DEF NewMaps, At
<1>2. s \in Storage \ handles /\ s \in alive /\ call[t].at = "USB"
  BY <1>1 DEF StorageIInv, CallInv, StepKnows
<1>3. Returns(t) /\ handles' = handles \union {s}
  BY <1>2 DEF NewMaps
<1>4. call' \in [Task -> Calls] /\ call'[t] = Idle
        /\ \A u \in Task : u # t => call'[u] = call[u]
  BY <1>3, ReturnsSays DEF StorageIInv, StorageTypeOK
<1>5. lun_count \in Luns /\ lun_count' = lun_count + 1
        /\ lun_count' \in 0 .. MaxLuns /\ lun_count \in Nat
  BY DEF NewMaps, Mappable, MapToLun, Luns, StorageIInv, StorageTypeOK
<1>6. /\ mapped' \in [Luns -> Storage \union {None}]
      /\ mapped'[lun_count] = s
      /\ \A l \in Luns : l # lun_count => mapped'[l] = mapped[l]
  BY <1>2, <1>5 DEF NewMaps, MapToLun, StorageIInv, StorageTypeOK
<1>7. \A u \in AppTask : u # t => call[u].s # s
  BY <1>2 DEF StorageIInv, ExclusiveInv
<1>8. StorageTypeOK'
  BY <1>2, <1>3, <1>4, <1>5, <1>6
  DEF NewMaps, StorageIInv, StorageTypeOK, mountVars, ioVars
<1>9. \A u \in AppTask : StepKnows(call[u])'
  <2> SUFFICES ASSUME NEW u \in AppTask
               PROVE  StepKnows(call[u])'
    OBVIOUS
  <2>1. CASE u = t
    BY <1>4, <2>1, IdleSays DEF StepKnows
  <2>2. CASE u # t
    BY <1>3, <1>4, <1>7, <2>2
    DEF NewMaps, StorageIInv, CallInv, StepKnows, mountVars
  <2> QED
    BY <2>1, <2>2
<1>10. CallInv'
  BY <1>4, <1>9 DEF StorageIInv, CallInv, StepKnows
<1>11. ExclusiveInv'
  BY <1>4, IdleSays DEF StorageIInv, ExclusiveInv
<1>12. MountInv'
  BY <1>2, <1>3 DEF NewMaps, StorageIInv, MountInv, mountVars
<1>13. LunInv'
  <2>1. {l \in Luns : mapped'[l] # None} = LunsUsed \union {lun_count}
    BY <1>2, <1>5, <1>6 DEF LunsUsed
  <2>2. /\ Cardinality(LunsUsed \union {lun_count}) <= Cardinality(LunsUsed) + 1
        /\ Cardinality(LunsUsed) \in Nat
    BY LunsFinite, FS_AddElement DEF LunsUsed
  <2>3. Cardinality(LunsUsed \union {lun_count}) \in Nat
    BY LunsFinite, <1>5 DEF LunsUsed
  <2>4. Cardinality(LunsUsed) <= lun_count
    BY DEF StorageIInv, LunInv, LunsUsed
  <2>5. Cardinality({l \in Luns : mapped'[l] # None}) <= lun_count'
    BY <1>5, <2>1, <2>2, <2>3, <2>4
  <2>6. \A l \in Luns : mapped'[l] # None => mapped'[l] \in handles'
    BY <1>3, <1>6 DEF StorageIInv, LunInv
  <2>7. \A l, m \in Luns : mapped'[l] # None /\ mapped'[l] = mapped'[m] => l = m
    BY <1>2, <1>6 DEF StorageIInv, LunInv
  <2>8. \A u \in AppTask, l \in Luns :
          call'[u].step = "close" => mapped'[l] # call'[u].s
    BY <1>4, <1>6, <1>7, IdleSays DEF StorageIInv, LunInv
  <2> QED
    BY <2>5, <2>6, <2>7, <2>8 DEF LunInv
<1>14. AccessInv'
  BY <1>3, <1>4, IdleSays DEF NewMaps, StorageIInv, AccessInv, ioVars
<1> QED
  BY <1>8, <1>10, <1>11, <1>12, <1>13, <1>14 DEF StorageIInv

-----------------------------------------------------------------------------
(* Moving a storage.                                                       *)

\* A medium that is registered under one drive number at most is under none
\* when it has been unregistered, and no other medium is touched.
LEMMA UnregisteredSays ==
  ASSUME NEW s \in Storage, NEW table \in [Drive -> Storage \union {None}],
         \A d, e \in Drive : table[d] = s /\ table[e] = s => d = e
  PROVE  /\ Unregistered(s, table) \in [Drive -> Storage \union {None}]
         /\ \A d \in Drive : Unregistered(s, table)[d] =
              (IF table[d] = s THEN None ELSE table[d])
<1> DEFINE found == {d \in Drive : table[d] = s}
<1>1. \A d \in Drive : d \in found => \A e \in found : d <= e
  BY Distinct
<1>2. \A d \in Drive : (d \in found /\ \A e \in found : d <= e) <=> table[d] = s
  BY <1>1
<1> QED
  BY <1>2 DEF Unregistered

\* What is known of the storage of a mount under way.
LEMMA MountKnows ==
  ASSUME StorageIInv, NEW t \in Task, call[t].step = "mount"
  PROVE  /\ t \in AppTask /\ call[t].op = "set"
         /\ call[t].s \in handles /\ call[t].s \in Storage
         /\ call[t].s \notin fat /\ call[t].s \notin vfs
         /\ owner[call[t].s] = "USB"
         /\ \A d \in Drive : drive[d] # call[t].s
         /\ \A u \in AppTask : u # t => call[u].s # call[t].s
<1> USE AppTasks, Distinct
<1>1. t \in AppTask
  BY IdleSays DEF Task, StorageIInv, CallInv
<1>2. call[t].op = "set" /\ call[t].s \in handles /\ owner[call[t].s] = "USB"
  BY <1>1 DEF StorageIInv, CallInv, StepKnows
<1>3. call[t].s \in Storage
  BY <1>2 DEF StorageIInv, StorageTypeOK
<1> QED
  BY <1>1, <1>2, <1>3 DEF StorageIInv, MountInv, ExclusiveInv

\* Registering the medium of a mount gives it its one drive number.
LEMMA RegisteredSays ==
  ASSUME StorageIInv, NEW t \in Task, call[t].step = "mount", call[t].pdrv # None
  PROVE  /\ Registered(t) \in [Drive -> Storage \union {None}]
         /\ \A d \in Drive : Registered(t)[d] =
              (IF d = call[t].pdrv THEN call[t].s ELSE drive[d])
         /\ \A d, e \in Drive :
              Registered(t)[d] # None /\ Registered(t)[d] = Registered(t)[e] => d = e
<1>1. call[t].pdrv \in Drive
  BY CallFields DEF StorageIInv, StorageTypeOK
<1>2. call[t].s \in Storage /\ \A d \in Drive : drive[d] # call[t].s
  BY MountKnows
<1>3. /\ Registered(t) \in [Drive -> Storage \union {None}]
      /\ \A d \in Drive : Registered(t)[d] =
           (IF d = call[t].pdrv THEN call[t].s ELSE drive[d])
  BY <1>1, <1>2 DEF Registered, StorageIInv, StorageTypeOK
<1> QED
  BY <1>2, <1>3 DEF StorageIInv, MountInv

\* A move ends: its call is forgotten, and only the storage it moved is
\* different.
LEMMA MoveEnds ==
  ASSUME StorageIInv, NEW t \in AppTask, NEW s, s = call[t].s, s \in handles,
         Returns(t), UNCHANGED <<mapVars, objVars, ioVars, aborted>>,
         StorageTypeOK', MountInv',
         \A r \in Storage \ {s} : owner'[r] = owner[r]
  PROVE  StorageIInv'
<1> USE AppTasks, Distinct
<1>1. call' \in [Task -> Calls] /\ call'[t] = Idle
        /\ \A u \in Task : u # t => call'[u] = call[u]
  BY ReturnsSays DEF StorageIInv, StorageTypeOK
<1>2. \A u \in AppTask : u # t => call[u].s # s
  BY DEF StorageIInv, ExclusiveInv, StorageTypeOK
<1>3. \A u \in AppTask : StepKnows(call[u])'
  <2> SUFFICES ASSUME NEW u \in AppTask
               PROVE  StepKnows(call[u])'
    OBVIOUS
  <2>1. CASE u = t
    BY <1>1, <2>1, IdleSays DEF StepKnows
  <2>2. CASE u # t
    <3>1. call'[u] = call[u] /\ call[u].s # s /\ StepKnows(call[u])
      BY <1>1, <1>2, <2>2 DEF StorageIInv, CallInv
    <3>2. handles \subseteq Storage
      BY DEF StorageIInv, StorageTypeOK
    <3> QED
      BY <3>1, <3>2 DEF StepKnows, objVars
  <2> QED
    BY <2>1, <2>2
<1>4. CallInv'
  BY <1>1, <1>3 DEF StorageIInv, CallInv
<1>5. ExclusiveInv'
  BY <1>1, IdleSays DEF StorageIInv, ExclusiveInv
<1>6. LunInv'
  BY <1>1, IdleSays DEF StorageIInv, LunInv, mapVars, objVars
<1>7. AccessInv'
  BY <1>1, IdleSays DEF StorageIInv, AccessInv, ioVars, objVars
<1> QED
  BY <1>4, <1>5, <1>6, <1>7 DEF StorageIInv

\* The storage belongs to the application from now on, under the drive number
\* that was picked for it.
LEMMA MountSucceedsStep ==
  ASSUME StorageIInv, NEW t \in Task, MountSucceeds(t)
  PROVE  StorageIInv'
<1> USE AppTasks, Distinct
<1> DEFINE s == call[t].s
<1>1. call[t].step = "mount" /\ call[t].pdrv # None
  BY DEF MountSucceeds
<1>2. t \in AppTask /\ call[t].op = "set" /\ s \in handles /\ s \in Storage
        /\ s \notin vfs
  BY <1>1, MountKnows
<1>3. Returns(t) /\ UNCHANGED <<mapVars, objVars, ioVars, aborted>>
  BY <1>2 DEF MountSucceeds, AfterMount
<1>4. call' \in [Task -> Calls]
  BY <1>3, ReturnsSays DEF StorageIInv, StorageTypeOK
<1>5. drive' = Registered(t) /\ fat' = fat \union {s} /\ vfs' = vfs \union {s}
  BY <1>2 DEF MountSucceeds
<1>6. owner' \in [Storage -> {"APP", "USB"}] /\ owner'[s] = "APP"
        /\ \A r \in Storage \ {s} : owner'[r] = owner[r]
  BY <1>2 DEF MountSucceeds, StorageIInv, StorageTypeOK
<1>7. blank' \subseteq Storage /\ wiped' \subseteq Storage
  <2>1. FormatTarget(t) \in Storage \union {None}
    BY <1>1, RegisteredSays, MscStorageAssumption DEF FormatTarget
  <2> QED
    BY <2>1 DEF MountSucceeds, StorageIInv, StorageTypeOK
<1>8. StorageTypeOK'
  BY <1>1, <1>2, <1>3, <1>4, <1>5, <1>6, <1>7, RegisteredSays
  DEF StorageIInv, StorageTypeOK, mapVars, objVars, ioVars
<1>9. MountInv'
  <2>1. /\ \A d \in Drive : drive'[d] = s \/ drive'[d] = drive[d]
        /\ \A d, e \in Drive : drive'[d] # None /\ drive'[d] = drive'[e] => d = e
    BY <1>1, <1>5, RegisteredSays
  <2>2. handles' = handles /\ alive' = alive
    BY <1>3 DEF objVars
  <2> QED
    BY <1>2, <1>5, <1>6, <2>1, <2>2 DEF StorageIInv, MountInv
<1> QED
  BY <1>2, <1>3, <1>6, <1>8, <1>9, MoveEnds

\* What a failed mount registered is taken back: the storage is as clean as
\* it was, and still belongs to USB.
LEMMA TakesBackStep ==
  ASSUME StorageIInv, NEW t \in Task, call[t].step = "mount",
         call[t].pdrv # None, TakesBack(t)
  PROVE  StorageIInv'
<1> USE AppTasks, Distinct
<1> DEFINE s == call[t].s
<1>1. /\ t \in AppTask /\ call[t].op = "set" /\ s \in handles /\ s \in Storage
      /\ \A d \in Drive : drive[d] # s
  BY MountKnows
<1>2. Returns(t) /\ UNCHANGED <<mapVars, objVars, ioVars, aborted>>
  BY <1>1 DEF TakesBack, AfterMount
<1>3. call' \in [Task -> Calls]
  BY <1>2, ReturnsSays DEF StorageIInv, StorageTypeOK
<1>4. PICK table \in {drive, Registered(t)} : drive' = Unregistered(s, table)
  BY DEF TakesBack
<1>5. /\ table \in [Drive -> Storage \union {None}]
      /\ \A d, e \in Drive : table[d] # None /\ table[d] = table[e] => d = e
      /\ \A d \in Drive : table[d] \in {s, drive[d]}
  BY RegisteredSays DEF StorageIInv, StorageTypeOK, MountInv
<1>6. /\ drive' \in [Drive -> Storage \union {None}]
      /\ \A d \in Drive : drive'[d] = (IF table[d] = s THEN None ELSE table[d])
  BY <1>1, <1>4, <1>5, UnregisteredSays
<1>7. fat' = fat \ {s} /\ UNCHANGED <<vfs, blank, wiped, owner>>
  BY DEF TakesBack
<1>8. StorageTypeOK'
  BY <1>2, <1>3, <1>6, <1>7
  DEF StorageIInv, StorageTypeOK, mapVars, objVars, ioVars
<1>9. MountInv'
  <2>1. handles' = handles /\ alive' = alive
    BY <1>2 DEF objVars
  <2>2. \A d \in Drive : drive'[d] \in {None, drive[d]}
    BY <1>5, <1>6
  <2>3. \A d, e \in Drive : drive'[d] # None /\ drive'[d] = drive'[e] => d = e
    BY <2>2 DEF StorageIInv, MountInv
  <2> QED
    BY <1>7, <2>1, <2>2, <2>3 DEF StorageIInv, MountInv
<1> QED
  BY <1>1, <1>2, <1>7, <1>8, <1>9, MoveEnds

LEMMA MountFailsStep ==
  ASSUME StorageIInv, NEW t \in Task, MountFails(t) \/ FormatRequired(t)
  PROVE  StorageIInv'
BY TakesBackStep DEF MountFails, FormatRequired

\* What is known of the storage of an unmount under way.
LEMMA UnmountKnows ==
  ASSUME StorageIInv, NEW t \in Task, call[t].step = "unmount"
  PROVE  /\ t \in AppTask /\ call[t].op \in {"set", "delete"}
         /\ call[t].s \in handles /\ call[t].s \in Storage
         /\ owner[call[t].s] = "APP"
         /\ \A u \in AppTask : u # t => call[u].s # call[t].s
<1> USE AppTasks, Distinct
<1>1. t \in AppTask
  BY IdleSays DEF Task, StorageIInv, CallInv
<1>2. call[t].op \in {"set", "delete"} /\ call[t].s \in handles
        /\ owner[call[t].s] = "APP"
  BY <1>1 DEF StorageIInv, CallInv, StepKnows
<1>3. call[t].s \in Storage
  BY <1>2 DEF StorageIInv, StorageTypeOK
<1> QED
  BY <1>1, <1>2, <1>3 DEF StorageIInv, ExclusiveInv

\* The drive table after the storage of an unmount has left it.
LEMMA LeavesDrive ==
  ASSUME StorageIInv, NEW s \in Storage, NEW table, table = Unregistered(s, drive)
  PROVE  /\ table \in [Drive -> Storage \union {None}]
         /\ \A d \in Drive : table[d] \in {None, drive[d]} /\ table[d] # s
         /\ \A d, e \in Drive : table[d] # None /\ table[d] = table[e] => d = e
<1> USE Distinct
<1>1. /\ drive \in [Drive -> Storage \union {None}]
      /\ \A d, e \in Drive : drive[d] # None /\ drive[d] = drive[e] => d = e
  BY DEF StorageIInv, StorageTypeOK, MountInv
<1>2. \A d, e \in Drive : drive[d] = s /\ drive[e] = s => d = e
  BY <1>1
<1>3. /\ table \in [Drive -> Storage \union {None}]
      /\ \A d \in Drive : table[d] = (IF drive[d] = s THEN None ELSE drive[d])
  BY <1>1, <1>2, UnregisteredSays
<1> QED
  BY <1>1, <1>3

\* The storage leaves the application with everything it had there.
LEMMA UnmountsStep ==
  ASSUME StorageIInv, NEW t \in Task, Unmounts(t)
  PROVE  StorageIInv'
<1> USE AppTasks, Distinct
<1> DEFINE s == call[t].s
<1>1. call[t].step = "unmount"
  BY DEF Unmounts
<1>2. /\ t \in AppTask /\ call[t].op \in {"set", "delete"} /\ s \in handles
      /\ s \in Storage /\ owner[s] = "APP"
      /\ \A u \in AppTask : u # t => call[u].s # s
  BY <1>1, UnmountKnows
<1>3. /\ drive' = Unregistered(s, drive) /\ fat' = fat \ {s} /\ vfs' = vfs \ {s}
      /\ UNCHANGED <<blank, wiped, mapVars, objVars, ioVars, aborted>>
  BY <1>2 DEF Unmounts, AfterUnmount
<1>4. owner' \in [Storage -> {"APP", "USB"}] /\ owner'[s] = "USB"
        /\ \A r \in Storage \ {s} : owner'[r] = owner[r]
  BY <1>2 DEF Unmounts, StorageIInv, StorageTypeOK
<1>5. Returns(t) \/ (Goes(t, "unmap") /\ call[t].op = "delete")
  BY <1>2 DEF Unmounts, AfterUnmount
<1>6. call' \in [Task -> Calls]
  BY <1>5, ReturnsSays, GoesSays DEF Steps, StorageIInv, StorageTypeOK
<1>7. StorageTypeOK'
  BY <1>2, <1>3, <1>4, <1>6, LeavesDrive
  DEF StorageIInv, StorageTypeOK, mapVars, objVars, ioVars
<1>8. MountInv'
  <2>1. handles' = handles /\ alive' = alive /\ fat' = fat \ {s} /\ vfs' = vfs \ {s}
    BY <1>3 DEF objVars
  <2>2. /\ \A d \in Drive : drive'[d] \in {None, drive[d]} /\ drive'[d] # s
        /\ \A d, e \in Drive : drive'[d] # None /\ drive'[d] = drive'[e] => d = e
    BY <1>2, <1>3, LeavesDrive
  <2> QED
    BY <1>2, <1>4, <2>1, <2>2 DEF StorageIInv, MountInv
<1>9. CASE Returns(t)
  BY <1>2, <1>3, <1>4, <1>7, <1>8, <1>9, MoveEnds
<1>10. CASE Goes(t, "unmap") /\ call[t].op = "delete"
  <2>1. /\ call'[t].op = "delete" /\ call'[t].s = s /\ call'[t].step = "unmap"
        /\ \A u \in Task : u # t => call'[u] = call[u]
    BY <1>10, GoesSays DEF Steps, StorageIInv, StorageTypeOK
  <2>2. \A u \in AppTask : StepKnows(call[u])'
    <3> SUFFICES ASSUME NEW u \in AppTask
                 PROVE  StepKnows(call[u])'
      OBVIOUS
    <3>1. handles' = handles /\ alive' = alive /\ handles \subseteq Storage
      BY <1>3 DEF objVars, StorageIInv, StorageTypeOK
    <3>2. CASE u = t
      BY <1>2, <1>4, <2>1, <3>1, <3>2 DEF StepKnows
    <3>3. CASE u # t
      <4>1. call'[u] = call[u] /\ call[u].s # s /\ StepKnows(call[u])
        BY <1>2, <2>1, <3>3 DEF StorageIInv, CallInv
      <4> QED
        BY <1>4, <3>1, <4>1 DEF StepKnows
    <3> QED
      BY <3>2, <3>3
  <2>3. CallInv'
    BY <1>2, <2>1, <2>2 DEF StorageIInv, CallInv
  <2>4. ExclusiveInv'
    BY <1>2, <2>1 DEF StorageIInv, ExclusiveInv
  <2>5. LunInv'
    BY <1>3, <2>1 DEF StorageIInv, LunInv, mapVars, objVars
  <2>6. AccessInv'
    BY <1>3, <1>10, <2>1 DEF StorageIInv, AccessInv, ioVars, objVars
  <2> QED
    BY <1>7, <1>8, <2>3, <2>4, <2>5, <2>6 DEF StorageIInv
<1> QED
  BY <1>5, <1>9, <1>10

\* The owner stays the application, whatever was dropped before the failure.
LEMMA UnmountFailsStep ==
  ASSUME StorageIInv, NEW t \in Task, UnmountFails(t)
  PROVE  StorageIInv'
<1> USE AppTasks, Distinct
<1> DEFINE s == call[t].s
<1>1. call[t].step = "unmount"
  BY DEF UnmountFails
<1>2. /\ t \in AppTask /\ call[t].op \in {"set", "delete"} /\ s \in handles
      /\ s \in Storage /\ owner[s] = "APP"
  BY <1>1, UnmountKnows
<1>3. /\ UNCHANGED <<vfs, owner, blank, wiped, mapVars, objVars, ioVars>>
      /\ \/ UNCHANGED <<drive, fat>>
         \/ drive' = Unregistered(s, drive) /\ fat' = fat \ {s}
  BY DEF UnmountFails
<1>4. \/ Returns(t) /\ UNCHANGED aborted
      \/ UNCHANGED call /\ aborted' = "unmount"
  BY <1>2 DEF UnmountFails, AfterUnmount
<1>5. call' \in [Task -> Calls]
  BY <1>4, ReturnsSays DEF StorageIInv, StorageTypeOK
<1>6. /\ drive' \in [Drive -> Storage \union {None}]
      /\ \A d \in Drive : drive'[d] \in {None, drive[d]}
      /\ \A d, e \in Drive : drive'[d] # None /\ drive'[d] = drive'[e] => d = e
      /\ fat' \subseteq fat
  BY <1>2, <1>3, LeavesDrive DEF StorageIInv, StorageTypeOK, MountInv
<1>7. StorageTypeOK'
  BY <1>3, <1>4, <1>5, <1>6
  DEF StorageIInv, StorageTypeOK, mapVars, objVars, ioVars
<1>8. MountInv'
  <2>1. handles' = handles /\ alive' = alive /\ vfs' = vfs /\ owner' = owner
    BY <1>3 DEF objVars
  <2> QED
    BY <1>6, <2>1 DEF StorageIInv, MountInv
<1>9. CASE Returns(t) /\ UNCHANGED aborted
  BY <1>2, <1>3, <1>7, <1>8, <1>9, MoveEnds
<1>10. CASE UNCHANGED call /\ aborted' = "unmount"
  <2>1. handles' = handles /\ alive' = alive /\ owner' = owner /\ call' = call
    BY <1>3, <1>10 DEF objVars
  <2>2. CallInv'
    BY <2>1 DEF StorageIInv, CallInv, StepKnows
  <2>3. ExclusiveInv'
    BY <2>1 DEF StorageIInv, ExclusiveInv
  <2>4. LunInv'
    BY <1>3, <2>1 DEF StorageIInv, LunInv, mapVars
  <2>5. AccessInv'
    BY <1>3, <2>1 DEF StorageIInv, AccessInv, ioVars
  <2> QED
    BY <1>7, <1>8, <2>2, <2>3, <2>4, <2>5 DEF StorageIInv
<1> QED
  BY <1>4, <1>9, <1>10

-----------------------------------------------------------------------------
(* Deleting a storage, and the accesses of the host.                       *)

\* What is known of the storage of a deletion that has reached its LUN.
LEMMA DeleteKnows ==
  ASSUME StorageIInv, NEW t \in AppTask, call[t].step \in {"unmap", "close"}
  PROVE  /\ call[t].op = "delete" /\ call[t].s \in handles
         /\ call[t].s \in Storage /\ owner[call[t].s] = "USB"
         /\ user # call[t].s
         /\ \A u \in AppTask : u # t => call[u].s # call[t].s
<1> USE AppTasks, Distinct
<1>1. call[t].op = "delete" /\ call[t].s \in handles /\ owner[call[t].s] = "USB"
  BY DEF StorageIInv, CallInv, StepKnows
<1>2. call[t].s \in Storage
  BY <1>1 DEF StorageIInv, StorageTypeOK
<1> QED
  BY <1>1, <1>2 DEF StorageIInv, ExclusiveInv, AccessInv

\* The first LUN of the storage is its only one: it is at none afterwards, and
\* the count stays above the LUNs in use.
LEMMA DeleteUnmapsStep ==
  ASSUME StorageIInv, NEW t \in AppTask, DeleteUnmaps(t)
  PROVE  StorageIInv'
<1> USE AppTasks, Distinct
<1> DEFINE s == call[t].s
<1>1. call[t].step = "unmap"
  BY DEF DeleteUnmaps, At
<1>2. /\ call[t].op = "delete" /\ s \in handles /\ s \in Storage
      /\ owner[s] = "USB" /\ \A u \in AppTask : u # t => call[u].s # s
  BY <1>1, DeleteKnows
<1>3. CASE LunsOf(s) = {}
  <2>1. Returns(t) /\ UNCHANGED <<mapVars, objVars, mountVars, ioVars, aborted>>
    BY <1>3 DEF DeleteUnmaps, mapVars
  <2> QED
    BY <2>1, ReturnsOnly
<1>4. CASE LunsOf(s) # {}
  <2>1. PICK l \in LunsOf(s) : mapped' = [mapped EXCEPT ![l] = None]
    BY <1>4 DEF DeleteUnmaps
  <2>2. lun_count' = lun_count - 1
        /\ call' = [call EXCEPT ![t].step = "close", ![t].mine = (lun_count' = 0)]
        /\ UNCHANGED <<driver, objVars, mountVars, ioVars, aborted>>
    BY <1>4 DEF DeleteUnmaps
  <2>3. PICK m \in BOOLEAN : m = (lun_count' = 0)
    OBVIOUS
  <2> DEFINE c == [call[t] EXCEPT !.step = "close", !.mine = m]
  <2>4. call[t] \in Calls
    BY DEF StorageIInv, StorageTypeOK
  <2>5. c \in Calls /\ c.op = "delete" /\ c.s = s /\ c.step = "close"
    BY <1>2, <2>4 DEF Calls
  <2>6. call' = [call EXCEPT ![t] = c]
    <3>1. call' = [call EXCEPT ![t].step = "close", ![t].mine = m]
      BY <2>2, <2>3, Zenon
    <3> QED
      BY <2>4, <3>1 DEF StorageIInv, StorageTypeOK, Calls
  <2> HIDE DEF c
  <2>7. call' \in [Task -> Calls] /\ call'[t] = c
          /\ \A u \in Task : u # t => call'[u] = call[u]
    BY <2>5, <2>6, StartsSays DEF StorageIInv, StorageTypeOK
  <2>8. l \in Luns /\ mapped[l] = s
    BY DEF LunsOf
  <2>9. /\ mapped' \in [Luns -> Storage \union {None}]
        /\ mapped'[l] = None
        /\ \A m2 \in Luns : m2 # l => mapped'[m2] = mapped[m2] /\ mapped[m2] # s
    BY <1>2, <2>1, <2>8 DEF StorageIInv, StorageTypeOK, LunInv
  <2>10. lun_count' \in 0 .. MaxLuns
           /\ Cardinality({m2 \in Luns : mapped'[m2] # None}) <= lun_count'
    <3>1. {m2 \in Luns : mapped'[m2] # None} = LunsUsed \ {l}
      BY <2>9 DEF LunsUsed
    <3>2. l \in LunsUsed /\ LunsUsed \subseteq Luns
      BY <1>2, <2>8 DEF LunsUsed
    <3>3. Cardinality(LunsUsed \ {l}) = Cardinality(LunsUsed) - 1
            /\ Cardinality(LunsUsed) \in Nat /\ Cardinality(LunsUsed \ {l}) \in Nat
      BY <3>2, LunsFinite, FS_RemoveElement
    <3>4. Cardinality(LunsUsed) <= lun_count /\ lun_count \in 0 .. MaxLuns
      BY DEF StorageIInv, StorageTypeOK, LunInv, LunsUsed
    <3>5. MaxLuns \in Nat /\ lun_count \in Nat /\ lun_count <= MaxLuns
      BY <3>4
    <3>6. \A a, b \in Nat : b = a - 1 /\ a <= lun_count =>
            lun_count - 1 \in 0 .. MaxLuns /\ b <= lun_count - 1
      BY <3>5
    <3>7. lun_count - 1 \in 0 .. MaxLuns
            /\ Cardinality(LunsUsed \ {l}) <= lun_count - 1
      BY <3>3, <3>4, <3>6, Zenon
    <3> QED
      BY <2>2, <3>1, <3>7, Zenon
  <2>11. StorageTypeOK'
    BY <2>2, <2>7, <2>9, <2>10
    DEF StorageIInv, StorageTypeOK, objVars, mountVars, ioVars
  <2>12. \A u \in AppTask : StepKnows(call[u])'
    <3> SUFFICES ASSUME NEW u \in AppTask
                 PROVE  StepKnows(call[u])'
      OBVIOUS
    <3>1. handles' = handles /\ alive' = alive /\ owner' = owner
      BY <2>2 DEF objVars, mountVars
    <3>2. CASE u = t
      BY <1>2, <2>5, <2>7, <3>1, <3>2 DEF StepKnows
    <3>3. CASE u # t
      BY <2>7, <3>1, <3>3 DEF StorageIInv, CallInv, StepKnows
    <3> QED
      BY <3>2, <3>3
  <2>13. CallInv'
    BY <2>7, <2>12 DEF StorageIInv, CallInv
  <2>14. ExclusiveInv'
    BY <1>2, <2>5, <2>7 DEF StorageIInv, ExclusiveInv
  <2>15. MountInv'
    BY <2>2 DEF StorageIInv, MountInv, objVars, mountVars
  <2>16. LunInv'
    <3>1. handles' = handles
      BY <2>2 DEF objVars
    <3>2. \A u \in AppTask, m2 \in Luns :
            call'[u].step = "close" => mapped'[m2] # call'[u].s
      <4> SUFFICES ASSUME NEW u \in AppTask, NEW m2 \in Luns,
                          call'[u].step = "close"
                   PROVE  mapped'[m2] # call'[u].s
        OBVIOUS
      <4>1. CASE u = t
        BY <1>2, <2>5, <2>7, <2>9, <4>1
      <4>2. CASE u # t
        <5>1. call'[u] = call[u] /\ call[u].s \in Storage
          BY <2>7, <4>2, DeleteKnows
        <5> QED
          BY <2>9, <5>1 DEF StorageIInv, LunInv
      <4> QED
        BY <4>1, <4>2
    <3>3. \A m2 \in Luns : mapped'[m2] # None => mapped'[m2] \in handles'
      BY <2>9, <3>1 DEF StorageIInv, LunInv
    <3>4. \A m1, m2 \in Luns :
            mapped'[m1] # None /\ mapped'[m1] = mapped'[m2] => m1 = m2
      BY <2>9 DEF StorageIInv, LunInv
    <3> QED
      BY <2>10, <3>2, <3>3, <3>4 DEF LunInv
  <2>17. AccessInv'
    BY <1>2, <2>2, <2>5, <2>7 DEF StorageIInv, AccessInv, ioVars, objVars
  <2> QED
    BY <2>11, <2>13, <2>14, <2>15, <2>16, <2>17 DEF StorageIInv
<1> QED
  BY <1>3, <1>4

\* Neither a LUN nor an access holds the object that is freed.
LEMMA DeleteFreesStep ==
  ASSUME StorageIInv, NEW t \in AppTask, DeleteFrees(t)
  PROVE  StorageIInv'
<1> USE AppTasks, Distinct
<1> DEFINE s == call[t].s
           drops == call[t].mine /\ driver = "internal"
<1>1. call[t].step = "close"
  BY DEF DeleteFrees, At
<1>2. /\ call[t].op = "delete" /\ s \in handles /\ s \in Storage
      /\ owner[s] = "USB" /\ user # s
      /\ \A u \in AppTask : u # t => call[u].s # s
  BY <1>1, DeleteKnows
<1>3. UNCHANGED <<mapped, lun_count, mountVars, ioVars>>
  BY DEF DeleteFrees
<1>4. CASE drops /\ ~Uninstallable
  <2>1. aborted' = "uninstall" /\ UNCHANGED <<driver, objVars, call>>
    BY <1>4 DEF DeleteFrees
  <2> QED
    BY <1>3, <2>1
    DEF StorageIInv, StorageTypeOK, CallInv, StepKnows, ExclusiveInv, MountInv,
        LunInv, AccessInv, objVars, mountVars, ioVars
<1>5. CASE ~(drops /\ ~Uninstallable)
  <2>1. /\ driver' \in {"absent", driver} /\ aborted' = aborted
        /\ alive' = alive \ {s} /\ handles' = handles \ {s} /\ Returns(t)
    BY <1>5 DEF DeleteFrees, Frees
  <2>2. call' \in [Task -> Calls] /\ call'[t] = Idle
          /\ \A u \in Task : u # t => call'[u] = call[u]
    BY <2>1, ReturnsSays DEF StorageIInv, StorageTypeOK
  <2>3. StorageTypeOK'
    BY <1>3, <2>1, <2>2 DEF StorageIInv, StorageTypeOK, mountVars, ioVars
  <2>4. \A u \in AppTask : StepKnows(call[u])'
    <3> SUFFICES ASSUME NEW u \in AppTask
                 PROVE  StepKnows(call[u])'
      OBVIOUS
    <3>1. owner' = owner
      BY <1>3 DEF mountVars
    <3>2. CASE u = t
      BY <2>2, <3>2, IdleSays DEF StepKnows
    <3>3. CASE u # t
      <4>1. call'[u] = call[u] /\ call[u].s # s /\ StepKnows(call[u])
        BY <1>2, <2>2, <3>3 DEF StorageIInv, CallInv
      <4> QED
        BY <2>1, <3>1, <4>1 DEF StepKnows
    <3> QED
      BY <3>2, <3>3
  <2>5. CallInv'
    BY <2>2, <2>4 DEF StorageIInv, CallInv
  <2>6. ExclusiveInv'
    BY <2>2, IdleSays DEF StorageIInv, ExclusiveInv
  <2>7. MountInv'
    BY <1>2, <1>3, <2>1 DEF StorageIInv, MountInv, mountVars
  <2>8. \A l \in Luns : mapped[l] # s
    BY <1>1 DEF StorageIInv, LunInv
  <2>9. LunInv'
    BY <1>3, <2>1, <2>2, <2>8, IdleSays DEF StorageIInv, LunInv
  <2>10. AccessInv'
    BY <1>2, <1>3, <2>1, <2>2, IdleSays DEF StorageIInv, AccessInv, ioVars
  <2> QED
    BY <2>3, <2>5, <2>6, <2>7, <2>9, <2>10 DEF StorageIInv
<1> QED
  BY <1>4, <1>5

LEMMA DriverGoneStep ==
  ASSUME StorageIInv, NEW t \in AppTask, DriverGone(t)
  PROVE  StorageIInv'
BY DEF DriverGone, StorageIInv, StorageTypeOK, CallInv, StepKnows, ExclusiveInv,
       MountInv, LunInv, AccessInv, mapVars, objVars, mountVars, ioVars

\* No callback starts while a storage is being deleted, and the LUN leads to a
\* storage the application has.
LEMMA BeginAccessStep ==
  ASSUME StorageIInv, CarefulUse, NEW l \in Luns, BeginAccess(l)
  PROVE  StorageIInv'
<1> USE AppTasks, Distinct
<1>1. /\ mapped[l] \in handles /\ mapped[l] \in Storage
      /\ user' = mapped[l] /\ active_io' = [active_io EXCEPT ![mapped[l]] = 1]
      /\ UNCHANGED <<mapVars, objVars, mountVars, call, aborted>>
  BY DEF BeginAccess, StorageIInv, LunInv, StorageTypeOK
<1>2. \A t \in AppTask : call[t].op # "delete"
  BY DEF BeginAccess, UsbMayStart, CarefulUse
<1>3. active_io' \in [Storage -> {0, 1}] /\ active_io'[mapped[l]] = 1
  BY <1>1 DEF StorageIInv, StorageTypeOK
<1> QED
  BY <1>1, <1>2, <1>3
  DEF StorageIInv, StorageTypeOK, CallInv, StepKnows, ExclusiveInv, MountInv,
      LunInv, AccessInv, mapVars, objVars, mountVars

LEMMA EndAccessStep ==
  ASSUME StorageIInv, EndAccess
  PROVE  StorageIInv'
BY DEF EndAccess, StorageIInv, StorageTypeOK, CallInv, StepKnows, ExclusiveInv,
       MountInv, LunInv, AccessInv, mapVars, objVars, mountVars

-----------------------------------------------------------------------------
(* The invariant.                                                          *)

LEMMA StorageStep ==
  ASSUME StorageIInv, CarefulUse, [StorageNext]_storageVars
  PROVE  StorageIInv'
<1>1. CASE StorageNext
  <2>1. ASSUME NEW t \in AppTask, AppNext(t)
        PROVE  StorageIInv'
    BY <2>1, InstallDriverStep, UninstallDriverStep, NewStorageStep,
       DeleteStorageStep, NewInstallsStep, NewObjectStep, NewObjectFailsStep,
       NewMapsStep, NewUnmappableStep, DeleteUnmapsStep, DeleteFreesStep,
       DriverGoneStep
    DEF AppNext
  <2>2. ASSUME NEW t \in Task, MoveNext(t)
        PROVE  StorageIInv'
    BY <2>2, MovesStep, PicksDriveStep, MountReturnsStep, MountSucceedsStep,
       MountFailsStep, UnmountsStep, UnmountFailsStep
    DEF MoveNext
  <2> QED
    BY <1>1, <2>1, <2>2, BeginAccessStep, EndAccessStep DEF StorageNext
<1>2. CASE UNCHANGED storageVars
  BY <1>2
  DEF StorageIInv, StorageTypeOK, CallInv, StepKnows, ExclusiveInv, MountInv,
      LunInv, AccessInv, storageVars, mapVars, objVars, mountVars, ioVars
<1> QED
  BY <1>1, <1>2

LEMMA StorageStarts == StorageInit => StorageIInv
<1> USE AppTasks, Distinct, IdleSays
<1> SUFFICES ASSUME StorageInit PROVE StorageIInv
  OBVIOUS
<1>1. StorageTypeOK
  BY DEF StorageInit, StorageTypeOK
<1>2. \A t \in Task : call[t] = Idle
  BY DEF StorageInit
<1>3. CallInv /\ ExclusiveInv
  BY <1>2 DEF CallInv, ExclusiveInv, StepKnows
<1>4. MountInv
  BY DEF StorageInit, MountInv
<1>5. {l \in Luns : mapped[l] # None} = {} /\ lun_count = 0
  BY DEF StorageInit
<1>6. LunInv
  BY <1>2, <1>5, FS_EmptySet DEF StorageInit, LunInv
<1>7. AccessInv
  BY DEF StorageInit, AccessInv
<1> QED
  BY <1>1, <1>3, <1>4, <1>6, <1>7 DEF StorageIInv

\* A set without two different elements has at most one.
LEMMA AtMostOne ==
  ASSUME NEW S, \A d, e \in S : d = e
  PROVE  Cardinality(S) <= 1
<1>1. CASE S = {}
  BY <1>1, FS_EmptySet
<1>2. CASE S # {}
  <2>1. PICK d \in S : TRUE
    BY <1>2
  <2>2. S = {d}
    BY <2>1
  <2>3. Cardinality({d}) = 1
    BY FS_Singleton, Zenon
  <2> QED
    BY <2>2, <2>3
<1> QED
  BY <1>1, <1>2

LEMMA StorageKeeps ==
  ASSUME StorageIInv
  PROVE  StorageInv
<1>1. NoUseAfterFree
  BY DEF StorageIInv, LunInv, AccessInv, MountInv, NoUseAfterFree
<1>2. UsbHasNoVolume
  BY DEF StorageIInv, StorageTypeOK, MountInv, UsbHasNoVolume, DrivesOf
<1>3. OneDrivePerMedium
  <2> SUFFICES ASSUME NEW s \in Storage
               PROVE  Cardinality(DrivesOf(s)) <= 1
    BY DEF OneDrivePerMedium
  <2>1. \A d, e \in DrivesOf(s) : d = e
    BY Distinct DEF StorageIInv, MountInv, DrivesOf
  <2> QED
    BY <2>1, AtMostOne
<1> QED
  BY <1>1, <1>2, <1>3 DEF StorageIInv, StorageInv

\* In a careful use of the component, and whichever step of a creation, a
\* mount, an unmount or a deletion fails, with any number of tasks, storages,
\* LUNs and drive numbers: no callback meets a freed object, nothing of the FAT
\* stack is on a medium of the host, and no medium is under two drive numbers
\* (tinyusb_msc.c 215-539, 566-973).
THEOREM StorageCorrect == CarefulUse => (StorageSpec => []StorageInv)
<1> SUFFICES ASSUME CarefulUse PROVE StorageSpec => []StorageInv
  OBVIOUS
<1>1. StorageIInv /\ [StorageNext]_storageVars => StorageIInv'
  BY StorageStep
<1>2. StorageIInv => StorageInv
  BY StorageKeeps
<1> QED
  BY <1>1, <1>2, StorageStarts, PTL DEF StorageSpec
=============================================================================
