-------------------------- MODULE UsbStorageProofs --------------------------
(***************************************************************************)
(* Proofs about UsbStorage, for every behaviour of Spec.                   *)
(*                                                                         *)
(*   1. TypeCorrect: the variables that range over names (StateStep) and   *)
(*      the flags (FlagsStep) apart, because the flags need Zenon where    *)
(*      the code assigns TRUE or FALSE and the rest is SMT's.              *)
(*   2. IInv, inductive: Structure says, step by step of the application,  *)
(*      what is left of the USB stack and of the FAT registration.         *)
(*   3. The safety properties of UsbStorage and its refinement of          *)
(*      CardAccess, from IInv.                                             *)
(*   4. Moded, inductive with IInv: what a mode permits and where recovery *)
(*      can lead, and the two properties of the modes from it.             *)
(*   5. Kept, inductive with both, and the refinement of StorageService.   *)
(***************************************************************************)
EXTENDS UsbStorage, TLAPS

-----------------------------------------------------------------------------
(* Type correctness.                                                       *)

\* Owner, mode, step, task and evidence stay within their names.
LEMMA StateStep == TypeOK /\ [Next]_vars => StateTyped'
<1> SUFFICES ASSUME TypeOK, [Next]_vars PROVE StateTyped'
  OBVIOUS
<1> USE DEF TypeOK, StateTyped, Owners, Modes, Operations, Steps, Tasks,
            Session!Evidence, flags, drivers, parking, fat, stack, session
<1>1. CASE StartApp
  BY <1>1 DEF StartApp, Call, Goto
<1>2. CASE Expose
  BY <1>2 DEF Expose, Call, Goto
<1>3. CASE Acquire
  BY <1>3 DEF Acquire, Call, Goto
<1>4. CASE RestoreUsb
  BY <1>4 DEF RestoreUsb, RecoveryEntry, Call, Goto, RecoveryAllowed
<1>5. CASE EnterMaintenance
  BY <1>5 DEF EnterMaintenance, Call, Goto
<1>6. CASE ResumeAutomatic
  BY <1>6 DEF ResumeAutomatic, Call, Goto, Released
<1>7. CASE Protect
  BY <1>7 DEF Protect, Goto
<1>8. CASE AlreadyParked
  BY <1>8 DEF AlreadyParked, Acknowledged, AfterDisconnect, Fail, Goto,
        unchangedInWait
<1>9. CASE LateAcknowledgement
  BY <1>9 DEF LateAcknowledgement, Acknowledged, AfterDisconnect, Fail,
        Goto, unchangedInWait
<1>10. CASE CreateHelper
  BY <1>10 DEF CreateHelper, Fail, Goto, unchangedInWait
<1>11. CASE AwaitAcknowledged
  BY <1>11 DEF AwaitAcknowledged, Acknowledged, AfterDisconnect, Fail, Goto,
        unchangedInWait
<1>12. CASE AwaitTimesOut
  BY <1>12 DEF AwaitTimesOut, Fail, unchangedInWait
<1>13. CASE Recheck
  BY <1>13 DEF Recheck, Fail, Goto, unchangedInWait, Released
<1>14. CASE UninstallRefused
  BY <1>14 DEF UninstallRefused, Fail, UninstallAllowed
<1>15. CASE TearDown
  BY <1>15 DEF TearDown, Fail, Uninstalled, AfterUninstall, Goto,
        UninstallAllowed, HasContext
<1>16. CASE NothingToTearDown
  BY <1>16 DEF NothingToTearDown, Fail, Uninstalled, AfterUninstall, Goto,
        UninstallAllowed, HasContext
<1>17. CASE BeginMount
  BY <1>17 DEF BeginMount, Goto, unchangedInMount
<1>18. CASE Mounted
  BY <1>18 DEF Mounted, Goto, unchangedInMount
<1>19. CASE MountFails
  BY <1>19 DEF MountFails, MountFailure, RecoveryEntry, Fail, Goto,
        unchangedInMount
<1>20. CASE MountUnconfirmed
  BY <1>20 DEF MountUnconfirmed, MountFailure, RecoveryEntry, Fail, Goto,
        unchangedInMount
<1>21. CASE HandBack
  BY <1>21 DEF HandBack, Goto, unchangedInMount
<1>22. CASE BeginUnmount
  BY <1>22 DEF BeginUnmount, Goto, unchangedInMount
<1>23. CASE Unmounted
  BY <1>23 DEF Unmounted, Goto, unchangedInMount, WritableWhenExposed
<1>24. CASE UnmountFails
  BY <1>24 DEF UnmountFails, Fail, unchangedInMount
<1>25. CASE Discard
  BY <1>25 DEF Discard, Removal, Goto, unchangedInMount
<1>26. CASE Cleanup
  BY <1>26 DEF Cleanup, Removal, Fail, Goto, unchangedInMount, Cleaned
<1>27. CASE Repoint
  BY <1>27 DEF Repoint, Goto, unchangedInMount
<1>28. CASE InstallRefused
  BY <1>28 DEF InstallRefused, Fail
<1>29. CASE InstallSucceeds
  BY <1>29 DEF InstallSucceeds, InstallAllowed, Goto, Session!Invalidate
<1>30. CASE InstallFails
  BY <1>30 DEF InstallFails, InstallAllowed, Fail, Session!Invalidate
<1>31. CASE HostConfigured
  BY <1>31 DEF HostConfigured, Exposed, Goto
<1>32. CASE ConfigurationTimesOut
  BY <1>32 DEF ConfigurationTimesOut, Goto
<1>33. CASE ProbeHost
  BY <1>33 DEF ProbeHost, Exposed, Fail, Goto
<1>34. CASE HelperEnqueues
  BY <1>34 DEF HelperEnqueues, unchangedByUsb
<1>35. CASE Park
  BY <1>35 DEF Park, unchangedByUsb
<1>36. CASE LateStart
  BY <1>36 DEF LateStart, unchangedByUsb
<1>37. ASSUME NEW kind \in {"read", "write"}, BeginAccess(kind)
      PROVE  StateTyped'
  BY <1>37 DEF BeginAccess, unchangedByUsb
<1>38. CASE AccessDone
  BY <1>38 DEF AccessDone, unchangedByUsb
<1>39. CASE AccessFails
  BY <1>39 DEF AccessFails, unchangedByUsb, Session!Fault
<1>40. CASE ReportFault
  BY <1>40 DEF ReportFault, unchangedByUsb, Session!Invalidate
<1>41. CASE AcceptEject
  BY <1>41 DEF AcceptEject, unchangedByUsb, Session!Accept
<1>42. CASE CompleteEject
  BY <1>42 DEF CompleteEject, unchangedByUsb, Session!Complete,
        Session!Refuse
<1>43. CASE BusEvent
  BY <1>43 DEF BusEvent, unchangedByUsb, Session!Invalidate
<1>44. CASE BusInterrupt
  BY <1>44 DEF BusInterrupt, unchangedByUsb, Session!Invalidate
<1>45. CASE UNCHANGED vars
  BY <1>45 DEF vars
<1> QED
  BY <1>1, <1>2, <1>3, <1>4, <1>5, <1>6, <1>7, <1>8, <1>9, <1>10, <1>11,
     <1>12, <1>13, <1>14, <1>15, <1>16, <1>17, <1>18, <1>19, <1>20, <1>21,
     <1>22, <1>23, <1>24, <1>25, <1>26, <1>27, <1>28, <1>29, <1>30, <1>31,
     <1>32, <1>33, <1>34, <1>35, <1>36, <1>37, <1>38, <1>39, <1>40, <1>41,
     <1>42, <1>43, <1>44, <1>45
  DEF Next, Calls, Continue, DisconnectSteps, UninstallSteps, MountSteps,
      InstallSteps, Usb

\* The failure path of every operation leaves flags.
LEMMA FailTyped ==
  TypeOK /\ Fail => usb_writable' \in BOOLEAN /\ recovery_failed' \in BOOLEAN
<1> SUFFICES ASSUME TypeOK, Fail
             PROVE usb_writable' \in BOOLEAN /\ recovery_failed' \in BOOLEAN
  OBVIOUS
<1>1. usb_writable' \in BOOLEAN
  BY Zenon DEF Fail
<1>2. recovery_failed' \in BOOLEAN
  BY DEF Fail, TypeOK, FlagsTyped
<1> QED
  BY <1>1, <1>2

\* So does the success path of the uninstall.
LEMMA UninstalledTyped ==
  TypeOK /\ Uninstalled =>
    /\ usb_writable' \in BOOLEAN /\ recovery_failed' \in BOOLEAN
    /\ driver_installed' \in BOOLEAN /\ driver_uncertain' \in BOOLEAN
    /\ task_quiesced' \in BOOLEAN /\ disconnected' \in BOOLEAN
<1> SUFFICES ASSUME TypeOK, Uninstalled
             PROVE /\ usb_writable' \in BOOLEAN
                   /\ recovery_failed' \in BOOLEAN
                   /\ driver_installed' \in BOOLEAN
                   /\ driver_uncertain' \in BOOLEAN
                   /\ task_quiesced' \in BOOLEAN
                   /\ disconnected' \in BOOLEAN
  OBVIOUS
<1>1. usb_writable' \in BOOLEAN
  <2>1. CASE op = "enter"
    BY <2>1, Zenon DEF Uninstalled
  <2>2. CASE op # "enter"
    BY <2>2 DEF Uninstalled, TypeOK, FlagsTyped
  <2> QED
    BY <2>1, <2>2
<1>2. recovery_failed' \in BOOLEAN
  BY DEF Uninstalled, TypeOK, FlagsTyped
<1>3. /\ driver_installed' \in BOOLEAN
      /\ driver_uncertain' \in BOOLEAN
      /\ task_quiesced' \in BOOLEAN
      /\ disconnected' \in BOOLEAN
  BY Zenon DEF Uninstalled
<1> QED
  BY <1>1, <1>2, <1>3

\* The flags stay flags.
LEMMA FlagsStep == TypeOK /\ [Next]_vars => FlagsTyped'
<1> SUFFICES ASSUME TypeOK, [Next]_vars PROVE FlagsTyped'
  OBVIOUS
<1> USE DEF TypeOK, FlagsTyped, flags, drivers, parking, fat, stack, session
<1>1. CASE StartApp
  <2>1. started' \in BOOLEAN /\ usb_writable' \in BOOLEAN
    BY <1>1, Zenon DEF StartApp, Call, Goto
  <2> QED
    BY <1>1, <2>1 DEF StartApp, Call, Goto
<1>2. CASE Expose
  BY <1>2 DEF Expose, Call, Goto
<1>3. CASE Acquire
  <2>1. usb_writable' \in BOOLEAN
    BY <1>3, Zenon DEF Acquire, Call, Goto
  <2> QED
    BY <1>3, <2>1 DEF Acquire, Call, Goto
<1>4. CASE RestoreUsb
  <2>1. usb_writable' \in BOOLEAN
    BY <1>4, Zenon DEF RestoreUsb, RecoveryEntry, Call, Goto,
        RecoveryAllowed
  <2> QED
    BY <1>4, <2>1 DEF RestoreUsb, RecoveryEntry, Call, Goto, RecoveryAllowed
<1>5. CASE EnterMaintenance
  BY <1>5 DEF EnterMaintenance, Call, Goto
<1>6. CASE ResumeAutomatic
  BY <1>6 DEF ResumeAutomatic, Call, Goto, Released
<1>7. CASE Protect
  <2>1. usb_writable' \in BOOLEAN
    BY <1>7, Zenon DEF Protect, Goto
  <2> QED
    BY <1>7, <2>1 DEF Protect, Goto
<1>8. CASE AlreadyParked
  BY <1>8, FailTyped DEF AlreadyParked, Acknowledged, unchangedInWait
<1>9. CASE LateAcknowledgement
  <2>1. disconnect_done' \in BOOLEAN /\ task_quiesced' \in BOOLEAN
    BY <1>9, Zenon DEF LateAcknowledgement, Acknowledged, unchangedInWait
  <2> QED
    BY <1>9, <2>1, FailTyped DEF LateAcknowledgement, Acknowledged,
        unchangedInWait
<1>10. CASE CreateHelper
  <2>1. helper' \in BOOLEAN
    BY <1>10, Zenon DEF CreateHelper, unchangedInWait
  <2> QED
    BY <1>10, <2>1, FailTyped DEF CreateHelper, unchangedInWait
<1>11. CASE AwaitAcknowledged
  <2>1. /\ disconnect_done' \in BOOLEAN
        /\ helper' \in BOOLEAN
        /\ task_quiesced' \in BOOLEAN
    BY <1>11, Zenon DEF AwaitAcknowledged, Acknowledged, unchangedInWait
  <2> QED
    BY <1>11, <2>1, FailTyped DEF AwaitAcknowledged, Acknowledged,
        unchangedInWait
<1>12. CASE AwaitTimesOut
  <2>1. helper' \in BOOLEAN
    BY <1>12, Zenon DEF AwaitTimesOut, unchangedInWait
  <2> QED
    BY <1>12, <2>1, FailTyped DEF AwaitTimesOut, unchangedInWait
<1>13. CASE Recheck
  BY <1>13, FailTyped DEF Recheck, unchangedInWait, Released
<1>14. CASE UninstallRefused
  BY <1>14, FailTyped DEF UninstallRefused, UninstallAllowed
<1>15. CASE TearDown
  <2>1. /\ deferred' \in BOOLEAN
        /\ connected' \in BOOLEAN
        /\ configured' \in BOOLEAN
        /\ inited' \in BOOLEAN
        /\ driver_uncertain' \in BOOLEAN
        /\ driver_installed' \in BOOLEAN
        /\ task_quiesced' \in BOOLEAN
        /\ disconnected' \in BOOLEAN
    BY <1>15, Zenon DEF TearDown, Uninstalled, AfterUninstall,
        UninstallAllowed, HasContext
  <2> QED
    BY <1>15, <2>1, FailTyped, ZenonT(40) DEF TearDown, Uninstalled, AfterUninstall,
        UninstallAllowed, HasContext
<1>16. CASE NothingToTearDown
  <2>1. CASE ~driver_installed /\ ~inited
    BY <1>16, <2>1, UninstalledTyped DEF NothingToTearDown
  <2>2. CASE ~(~driver_installed /\ ~inited)
    <3>1. driver_uncertain' \in BOOLEAN
      BY <1>16, <2>2, Zenon DEF NothingToTearDown
    <3> QED
      BY <1>16, <2>2, <3>1, FailTyped DEF NothingToTearDown
  <2> QED
    BY <2>1, <2>2
<1>17. CASE BeginMount
  BY <1>17 DEF BeginMount, Goto, unchangedInMount
<1>18. CASE Mounted
  <2>1. disk' \in BOOLEAN /\ vfs' \in BOOLEAN
    BY <1>18, Zenon DEF Mounted, Goto, unchangedInMount
  <2> QED
    BY <1>18, <2>1 DEF Mounted, Goto, unchangedInMount
<1>19. CASE MountFails
  BY <1>19, FailTyped DEF MountFails, MountFailure, unchangedInMount
<1>20. CASE MountUnconfirmed
  <2>1. disk' \in BOOLEAN /\ vfs' \in BOOLEAN
    BY <1>20, Zenon DEF MountUnconfirmed, MountFailure, unchangedInMount
  <2> QED
    BY <1>20, <2>1, FailTyped DEF MountUnconfirmed, MountFailure,
        unchangedInMount
<1>21. CASE HandBack
  BY <1>21 DEF HandBack, Goto, unchangedInMount
<1>22. CASE BeginUnmount
  BY <1>22 DEF BeginUnmount, Goto, unchangedInMount
<1>23. CASE Unmounted
  <2>1. disk' \in BOOLEAN /\ vfs' \in BOOLEAN /\ usb_writable' \in BOOLEAN
    BY <1>23, Zenon DEF Unmounted, Goto, unchangedInMount,
        WritableWhenExposed
  <2> QED
    BY <1>23, <2>1 DEF Unmounted, Goto, unchangedInMount,
        WritableWhenExposed
<1>24. CASE UnmountFails
  <2>1. disk' \in BOOLEAN
    BY <1>24, Zenon DEF UnmountFails, unchangedInMount
  <2> QED
    BY <1>24, <2>1, FailTyped DEF UnmountFails, unchangedInMount
<1>25. CASE Discard
  <2>1. disk' \in BOOLEAN /\ vfs' \in BOOLEAN
    BY <1>25, Zenon DEF Discard, Removal, Goto, unchangedInMount
  <2> QED
    BY <1>25, <2>1 DEF Discard, Removal, Goto, unchangedInMount
<1>26. CASE Cleanup
  <2>1. disk' \in BOOLEAN /\ vfs' \in BOOLEAN
    BY <1>26, Zenon DEF Cleanup, Removal, unchangedInMount, Cleaned
  <2> QED
    BY <1>26, <2>1, FailTyped DEF Cleanup, Removal, unchangedInMount,
        Cleaned
<1>27. CASE Repoint
  <2>1. usb_writable' \in BOOLEAN
    BY <1>27, Zenon DEF Repoint, Goto, unchangedInMount
  <2> QED
    BY <1>27, <2>1 DEF Repoint, Goto, unchangedInMount
<1>28. CASE InstallRefused
  BY <1>28, FailTyped DEF InstallRefused
<1>29. CASE InstallSucceeds
  <2>1. /\ inited' \in BOOLEAN
        /\ connected' \in BOOLEAN
        /\ configured' \in BOOLEAN
        /\ driver_installed' \in BOOLEAN
    BY <1>29, Zenon DEF InstallSucceeds, InstallAllowed, Goto,
        Session!Invalidate
  <2> QED
    BY <1>29, <2>1 DEF InstallSucceeds, InstallAllowed, Goto,
        Session!Invalidate
<1>30. CASE InstallFails
  <2>1. driver_uncertain' \in BOOLEAN
    BY <1>30, Zenon DEF InstallFails, InstallAllowed, Session!Invalidate
  <2> QED
    BY <1>30, <2>1, FailTyped DEF InstallFails, InstallAllowed,
        Session!Invalidate
<1>31. CASE HostConfigured
  BY <1>31 DEF HostConfigured, Exposed, Goto
<1>32. CASE ConfigurationTimesOut
  BY <1>32 DEF ConfigurationTimesOut, Goto
<1>33. CASE ProbeHost
  BY <1>33, FailTyped DEF ProbeHost, Exposed
<1>34. CASE HelperEnqueues
  <2>1. helper' \in BOOLEAN /\ deferred' \in BOOLEAN
    BY <1>34, Zenon DEF HelperEnqueues, unchangedByUsb
  <2> QED
    BY <1>34, <2>1 DEF HelperEnqueues, unchangedByUsb
<1>35. CASE Park
  <2>1. deferred' \in BOOLEAN /\ disconnect_done' \in BOOLEAN
    BY <1>35, Zenon DEF Park, unchangedByUsb
  <2> QED
    BY <1>35, <2>1 DEF Park, unchangedByUsb
<1>36. CASE LateStart
  <2>1. inited' \in BOOLEAN
    BY <1>36, Zenon DEF LateStart, unchangedByUsb
  <2> QED
    BY <1>36, <2>1 DEF LateStart, unchangedByUsb
<1>37. ASSUME NEW kind \in {"read", "write"}, BeginAccess(kind)
      PROVE  FlagsTyped'
  BY <1>37 DEF BeginAccess, unchangedByUsb
<1>38. CASE AccessDone
  BY <1>38 DEF AccessDone, unchangedByUsb
<1>39. CASE AccessFails
  <2>1. faulty' \in BOOLEAN
    BY <1>39, Zenon DEF AccessFails, unchangedByUsb, Session!Fault
  <2> QED
    BY <1>39, <2>1 DEF AccessFails, unchangedByUsb, Session!Fault
<1>40. CASE ReportFault
  <2>1. last_io_error' \in BOOLEAN
    BY <1>40, Zenon DEF ReportFault, unchangedByUsb, Session!Invalidate
  <2> QED
    BY <1>40, <2>1 DEF ReportFault, unchangedByUsb, Session!Invalidate
<1>41. CASE AcceptEject
  BY <1>41 DEF AcceptEject, unchangedByUsb, Session!Accept
<1>42. CASE CompleteEject
  <2>1. unreleased' \in BOOLEAN
    BY <1>42, Zenon DEF CompleteEject, unchangedByUsb, Session!Complete,
        Session!Refuse
  <2> QED
    BY <1>42, <2>1 DEF CompleteEject, unchangedByUsb, Session!Complete,
        Session!Refuse
<1>43. CASE BusEvent
  <2>1. configured' \in BOOLEAN
    BY <1>43, Zenon DEF BusEvent, unchangedByUsb, Session!Invalidate
  <2> QED
    BY <1>43, <2>1 DEF BusEvent, unchangedByUsb, Session!Invalidate
<1>44. CASE BusInterrupt
  BY <1>44 DEF BusInterrupt, unchangedByUsb, Session!Invalidate
<1>45. CASE UNCHANGED vars
  BY <1>45 DEF vars
<1> QED
  BY <1>1, <1>2, <1>3, <1>4, <1>5, <1>6, <1>7, <1>8, <1>9, <1>10, <1>11,
     <1>12, <1>13, <1>14, <1>15, <1>16, <1>17, <1>18, <1>19, <1>20, <1>21,
     <1>22, <1>23, <1>24, <1>25, <1>26, <1>27, <1>28, <1>29, <1>30, <1>31,
     <1>32, <1>33, <1>34, <1>35, <1>36, <1>37, <1>38, <1>39, <1>40, <1>41,
     <1>42, <1>43, <1>44, <1>45
  DEF Next, Calls, Continue, DisconnectSteps, UninstallSteps, MountSteps,
      InstallSteps, Usb

-----------------------------------------------------------------------------
(* The inductive invariant.                                                *)

\* No USB stack is left: neither installed, nor half-installed, nor running.
NoUsb == /\ task = "absent"
         /\ ~inited /\ ~driver_installed /\ ~driver_uncertain

AppSteps     == {"mount", "mounting", "handback", "unmount", "unmounting"}
InstallPhase == {"install", "configure", "probe"}
DetachSteps  == {"protect", "disconnect", "await", "recheck", "uninstall"}

\* Whoever has, or is about to have, a FAT registration has no USB stack.
CardWithoutUsb ==
  disk \/ vfs \/ own = "APP" \/ pc \in AppSteps \/ ~started => NoUsb

\* USB is installed only where no FAT registration is left.
UsbWithoutCard ==
  pc \in InstallPhase \cup {"repoint"} => ~disk /\ ~vfs /\ own = "TO_USB"

OwnerOfStep ==
  /\ pc \in DetachSteps =>
       own = IF op \in {"acquire", "resume"} THEN "TO_APP" ELSE "TO_USB"
  /\ pc \in {"cleanup", "unmount", "unmounting"} => own = "TO_USB"

\* A hand-over that starts from USB tears a really installed stack down.
DriverPresent ==
  /\ own = "USB" \/ pc \in {"configure", "probe"} => driver_installed
  /\ pc \in DetachSteps /\ op \in {"acquire", "resume", "enter"} =>
       driver_installed

NotStarted ==
  ~started => pc = "idle" /\ own = "ERROR" /\ mode = "AUTO_RO" /\ ~storage

\* The acknowledgement and the quiesced flag are those of the task that has
\* parked, and only a later uninstall takes the flag back.
Quiesced ==
  /\ disconnect_done => task = "parked" /\ ~task_quiesced
  /\ task_quiesced => task \in {"parked", "absent"}
                      /\ (inited \/ driver_uncertain)
  /\ pc = "recheck" => task_quiesced
  /\ pc = "uninstall" /\ op = "resume" => task_quiesced
  /\ task \notin {"absent", "starting"} => inited

\* What the host wrote is covered by an eject before the card changes hands.
HostDataCovered ==
  /\ mode = "AUTO_RO" => ~unreleased /\ ~usb_writable
  /\ evidence = "released" => ~unreleased
  /\ disk \/ vfs \/ own = "APP" \/ pc \in AppSteps => ~unreleased
  /\ pc = "uninstall" /\ op = "resume" => ~unreleased
  /\ pc \in DetachSteps \cup AppSteps /\ op = "acquire" => mode = "AUTO_RO"
  /\ op = "resume" /\ pc \in (DetachSteps \ {"protect"}) \cup AppSteps =>
       ~usb_writable

Structure == /\ CardWithoutUsb /\ UsbWithoutCard /\ OwnerOfStep
             /\ DriverPresent /\ NotStarted /\ Quiesced /\ HostDataCovered

IInv == TypeOK /\ Structure

\* Removing a registration never adds one.
LEMMA RemovalShrinks == Removal => (disk' => disk) /\ (vfs' => vfs)
<1> SUFFICES ASSUME Removal PROVE (disk' => disk) /\ (vfs' => vfs)
  OBVIOUS
<1>1. disk' = disk \/ disk' = FALSE
  BY Zenon DEF Removal
<1>2. vfs' = vfs \/ vfs' = FALSE
  BY Zenon DEF Removal
<1>3. disk' => disk
  BY <1>1, Zenon
<1>4. vfs' => vfs
  BY <1>2, Zenon
<1> QED
  BY <1>3, <1>4

\* Structure is preserved by every step of every agent.
LEMMA StructureStep == IInv /\ [Next]_vars => Structure'
<1> SUFFICES ASSUME IInv, [Next]_vars PROVE Structure'
  OBVIOUS
<1> USE DEF IInv, Structure, TypeOK, StateTyped, FlagsTyped, CardWithoutUsb,
            UsbWithoutCard, OwnerOfStep, DriverPresent, NotStarted,
            Quiesced, HostDataCovered, NoUsb, AppSteps, InstallPhase,
            DetachSteps, Owners, Modes, Operations, Steps, Tasks,
            Session!Evidence, flags, drivers, parking, fat, stack, session
<1>1. CASE StartApp
  BY <1>1 DEF StartApp, Call, Goto
<1>2. CASE Expose
  BY <1>2 DEF Expose, Call, Goto
<1>3. CASE Acquire
  BY <1>3 DEF Acquire, Call, Goto
<1>4. CASE RestoreUsb
  BY <1>4 DEF RestoreUsb, RecoveryEntry, Call, Goto, RecoveryAllowed
<1>5. CASE EnterMaintenance
  BY <1>5 DEF EnterMaintenance, Call, Goto
<1>6. CASE ResumeAutomatic
  BY <1>6 DEF ResumeAutomatic, Call, Goto, Released
<1>7. CASE Protect
  BY <1>7 DEF Protect, Goto
<1>8. CASE AlreadyParked
  BY <1>8 DEF AlreadyParked, Acknowledged, AfterDisconnect, Fail, Goto,
        unchangedInWait
<1>9. CASE LateAcknowledgement
  BY <1>9 DEF LateAcknowledgement, Acknowledged, AfterDisconnect, Fail,
        Goto, unchangedInWait
<1>10. CASE CreateHelper
  BY <1>10 DEF CreateHelper, Fail, Goto, unchangedInWait
<1>11. CASE AwaitAcknowledged
  BY <1>11 DEF AwaitAcknowledged, Acknowledged, AfterDisconnect, Fail, Goto,
        unchangedInWait
<1>12. CASE AwaitTimesOut
  BY <1>12 DEF AwaitTimesOut, Fail, unchangedInWait
<1>13. CASE Recheck
  BY <1>13 DEF Recheck, Fail, Goto, unchangedInWait, Released
<1>14. CASE UninstallRefused
  BY <1>14 DEF UninstallRefused, Fail, UninstallAllowed
<1>15. CASE TearDown
  BY <1>15, ZenonT(40) DEF TearDown, Fail, Uninstalled, AfterUninstall, Goto,
        UninstallAllowed, HasContext
<1>16. CASE NothingToTearDown
  BY <1>16 DEF NothingToTearDown, Fail, Uninstalled, AfterUninstall, Goto,
        UninstallAllowed, HasContext
<1>17. CASE BeginMount
  BY <1>17 DEF BeginMount, Goto, unchangedInMount
<1>18. CASE Mounted
  BY <1>18 DEF Mounted, Goto, unchangedInMount
<1>19. CASE MountFails
  BY <1>19 DEF MountFails, MountFailure, RecoveryEntry, Fail, Goto,
        unchangedInMount
<1>20. CASE MountUnconfirmed
  BY <1>20 DEF MountUnconfirmed, MountFailure, RecoveryEntry, Fail, Goto,
        unchangedInMount
<1>21. CASE HandBack
  BY <1>21 DEF HandBack, Goto, unchangedInMount
<1>22. CASE BeginUnmount
  BY <1>22 DEF BeginUnmount, Goto, unchangedInMount
<1>23. CASE Unmounted
  BY <1>23 DEF Unmounted, Goto, unchangedInMount, WritableWhenExposed
<1>24. CASE UnmountFails
  BY <1>24 DEF UnmountFails, Fail, unchangedInMount
<1>25. CASE Discard
  BY <1>25, RemovalShrinks DEF Discard, Goto, unchangedInMount
<1>26. CASE Cleanup
  BY <1>26, RemovalShrinks DEF Cleanup, Fail, Goto,
     unchangedInMount, Cleaned
<1>27. CASE Repoint
  BY <1>27 DEF Repoint, Goto, unchangedInMount
<1>28. CASE InstallRefused
  BY <1>28 DEF InstallRefused, Fail
<1>29. CASE InstallSucceeds
  BY <1>29 DEF InstallSucceeds, InstallAllowed, Goto, Session!Invalidate
<1>30. CASE InstallFails
  BY <1>30 DEF InstallFails, InstallAllowed, Fail, Session!Invalidate
<1>31. CASE HostConfigured
  BY <1>31 DEF HostConfigured, Exposed, Goto
<1>32. CASE ConfigurationTimesOut
  BY <1>32 DEF ConfigurationTimesOut, Goto
<1>33. CASE ProbeHost
  BY <1>33 DEF ProbeHost, Exposed, Fail, Goto
<1>34. CASE HelperEnqueues
  BY <1>34 DEF HelperEnqueues, unchangedByUsb
<1>35. CASE Park
  BY <1>35 DEF Park, unchangedByUsb
<1>36. CASE LateStart
  BY <1>36 DEF LateStart, unchangedByUsb
<1>37. ASSUME NEW kind \in {"read", "write"}, BeginAccess(kind)
      PROVE  Structure'
  BY <1>37 DEF BeginAccess, unchangedByUsb
<1>38. CASE AccessDone
  BY <1>38 DEF AccessDone, unchangedByUsb
<1>39. CASE AccessFails
  BY <1>39 DEF AccessFails, unchangedByUsb, Session!Fault
<1>40. CASE ReportFault
  BY <1>40 DEF ReportFault, unchangedByUsb, Session!Invalidate
<1>41. CASE AcceptEject
  BY <1>41 DEF AcceptEject, unchangedByUsb, Session!Accept
<1>42. CASE CompleteEject
  BY <1>42 DEF CompleteEject, unchangedByUsb, Session!Complete,
        Session!Refuse
<1>43. CASE BusEvent
  BY <1>43 DEF BusEvent, unchangedByUsb, Session!Invalidate
<1>44. CASE BusInterrupt
  BY <1>44 DEF BusInterrupt, unchangedByUsb, Session!Invalidate
<1>45. CASE UNCHANGED vars
  BY <1>45 DEF vars
<1> QED
  BY <1>1, <1>2, <1>3, <1>4, <1>5, <1>6, <1>7, <1>8, <1>9, <1>10, <1>11,
     <1>12, <1>13, <1>14, <1>15, <1>16, <1>17, <1>18, <1>19, <1>20, <1>21,
     <1>22, <1>23, <1>24, <1>25, <1>26, <1>27, <1>28, <1>29, <1>30, <1>31,
     <1>32, <1>33, <1>34, <1>35, <1>36, <1>37, <1>38, <1>39, <1>40, <1>41,
     <1>42, <1>43, <1>44, <1>45
  DEF Next, Calls, Continue, DisconnectSteps, UninstallSteps, MountSteps,
      InstallSteps, Usb

\* Structure and the types hold after the reset.
LEMMA StructureInit == Init => Structure
BY DEF Init, Structure, CardWithoutUsb, UsbWithoutCard, OwnerOfStep,
       DriverPresent, NotStarted, Quiesced, HostDataCovered, NoUsb, AppSteps,
       InstallPhase, DetachSteps, Session!Init

\* The statics are initialised within their types.
LEMMA TypeInit == Init => TypeOK
<1> SUFFICES ASSUME Init PROVE TypeOK
  OBVIOUS
<1>1. StateTyped
  BY DEF Init, StateTyped, Owners, Modes, Operations, Steps, Tasks,
         Session!Init, Session!Evidence
<1>2. FlagsTyped
  BY Zenon DEF Init, FlagsTyped, Session!Init
<1> QED
  BY <1>1, <1>2 DEF TypeOK

\* Every variable keeps its type through every failure and interleaving
\* (usb_storage.c 26-43).
THEOREM TypeCorrect == Spec => []TypeOK
<1>1. TypeOK /\ [Next]_vars => TypeOK'
  BY StateStep, FlagsStep DEF TypeOK
<1> QED
  BY <1>1, TypeInit, PTL DEF Spec

\* The invariant everything below rests on.
LEMMA Inductive == Spec => []IInv
<1>1. Init => IInv
  BY TypeInit, StructureInit DEF IInv
<1>2. IInv /\ [Next]_vars => IInv'
  BY StateStep, FlagsStep, StructureStep DEF IInv, TypeOK
<1> QED
  BY <1>1, <1>2, PTL DEF Spec

\* Every step is a step of CardAccess or leaves the card alone.
LEMMA CardStep ==
  IInv /\ IInv' /\ [Next]_vars => [Card!Next]_(Card!vars)
<1> SUFFICES ASSUME IInv, IInv', [Next]_vars PROVE [Card!Next]_(Card!vars)
  OBVIOUS
<1> USE DEF IInv, Structure, TypeOK, StateTyped, FlagsTyped, CardWithoutUsb,
            UsbWithoutCard, OwnerOfStep, DriverPresent, NotStarted,
            Quiesced, HostDataCovered, AppHolds, HostReaches, Card!Next,
            Card!vars, Card!AppTakes, Card!HostTakes, Card!GiveUp,
            Card!HostWrites, Card!HostEjects, NoUsb, AppSteps, InstallPhase,
            DetachSteps, Owners, Modes, Operations, Steps, Tasks,
            Session!Evidence, flags, drivers, parking, fat, stack, session
<1>1. CASE StartApp
  BY <1>1, IInv' DEF StartApp, Call, Goto
<1>2. CASE Expose
  BY <1>2, IInv' DEF Expose, Call, Goto
<1>3. CASE Acquire
  BY <1>3, IInv' DEF Acquire, Call, Goto
<1>4. CASE RestoreUsb
  BY <1>4, IInv' DEF RestoreUsb, RecoveryEntry, Call, Goto, RecoveryAllowed
<1>5. CASE EnterMaintenance
  BY <1>5, IInv' DEF EnterMaintenance, Call, Goto
<1>6. CASE ResumeAutomatic
  BY <1>6, IInv' DEF ResumeAutomatic, Call, Goto, Released
<1>7. CASE Protect
  BY <1>7, IInv' DEF Protect, Goto
<1>8. CASE AlreadyParked
  BY <1>8, IInv' DEF AlreadyParked, Acknowledged, AfterDisconnect, Fail, Goto,
        unchangedInWait
<1>9. CASE LateAcknowledgement
  BY <1>9, IInv' DEF LateAcknowledgement, Acknowledged, AfterDisconnect, Fail,
        Goto, unchangedInWait
<1>10. CASE CreateHelper
  BY <1>10, IInv' DEF CreateHelper, Fail, Goto, unchangedInWait
<1>11. CASE AwaitAcknowledged
  BY <1>11, IInv' DEF AwaitAcknowledged, Acknowledged, AfterDisconnect, Fail,
        Goto, unchangedInWait
<1>12. CASE AwaitTimesOut
  BY <1>12, IInv' DEF AwaitTimesOut, Fail, unchangedInWait
<1>13. CASE Recheck
  BY <1>13, IInv' DEF Recheck, Fail, Goto, unchangedInWait, Released
<1>14. CASE UninstallRefused
  BY <1>14, IInv' DEF UninstallRefused, Fail, UninstallAllowed
<1>15. CASE TearDown
  BY <1>15, IInv' DEF TearDown, Fail, Uninstalled, AfterUninstall, Goto,
        UninstallAllowed, HasContext
<1>16. CASE NothingToTearDown
  BY <1>16, IInv' DEF NothingToTearDown, Fail, Uninstalled, AfterUninstall,
        Goto, UninstallAllowed, HasContext
<1>17. CASE BeginMount
  BY <1>17, IInv' DEF BeginMount, Goto, unchangedInMount
<1>18. CASE Mounted
  BY <1>18, IInv' DEF Mounted, Goto, unchangedInMount
<1>19. CASE MountFails
  BY <1>19, IInv' DEF MountFails, MountFailure, RecoveryEntry, Fail, Goto,
        unchangedInMount
<1>20. CASE MountUnconfirmed
  BY <1>20, IInv' DEF MountUnconfirmed, MountFailure, RecoveryEntry, Fail,
        Goto, unchangedInMount
<1>21. CASE HandBack
  BY <1>21, IInv' DEF HandBack, Goto, unchangedInMount
<1>22. CASE BeginUnmount
  BY <1>22, IInv' DEF BeginUnmount, Goto, unchangedInMount
<1>23. CASE Unmounted
  BY <1>23, IInv' DEF Unmounted, Goto, unchangedInMount, WritableWhenExposed
<1>24. CASE UnmountFails
  BY <1>24, IInv' DEF UnmountFails, Fail, unchangedInMount
<1>25. CASE Discard
  BY <1>25, IInv', RemovalShrinks DEF Discard, Goto, unchangedInMount
<1>26. CASE Cleanup
  BY <1>26, IInv', RemovalShrinks DEF Cleanup, Fail, Goto,
     unchangedInMount, Cleaned
<1>27. CASE Repoint
  BY <1>27, IInv' DEF Repoint, Goto, unchangedInMount
<1>28. CASE InstallRefused
  BY <1>28, IInv' DEF InstallRefused, Fail
<1>29. CASE InstallSucceeds
  BY <1>29, IInv' DEF InstallSucceeds, InstallAllowed, Goto, Session!Invalidate
<1>30. CASE InstallFails
  BY <1>30, IInv' DEF InstallFails, InstallAllowed, Fail, Session!Invalidate
<1>31. CASE HostConfigured
  BY <1>31, IInv' DEF HostConfigured, Exposed, Goto
<1>32. CASE ConfigurationTimesOut
  BY <1>32, IInv' DEF ConfigurationTimesOut, Goto
<1>33. CASE ProbeHost
  BY <1>33, IInv' DEF ProbeHost, Exposed, Fail, Goto
<1>34. CASE HelperEnqueues
  BY <1>34, IInv' DEF HelperEnqueues, unchangedByUsb
<1>35. CASE Park
  BY <1>35, IInv' DEF Park, unchangedByUsb
<1>36. CASE LateStart
  BY <1>36, IInv' DEF LateStart, unchangedByUsb
<1>37. ASSUME NEW kind \in {"read", "write"}, BeginAccess(kind)
      PROVE  [Card!Next]_(Card!vars)
  BY <1>37, IInv' DEF BeginAccess, unchangedByUsb
<1>38. CASE AccessDone
  BY <1>38, IInv' DEF AccessDone, unchangedByUsb
<1>39. CASE AccessFails
  BY <1>39, IInv' DEF AccessFails, unchangedByUsb, Session!Fault
<1>40. CASE ReportFault
  BY <1>40, IInv' DEF ReportFault, unchangedByUsb, Session!Invalidate
<1>41. CASE AcceptEject
  BY <1>41, IInv' DEF AcceptEject, unchangedByUsb, Session!Accept
<1>42. CASE CompleteEject
  BY <1>42, IInv' DEF CompleteEject, unchangedByUsb, Session!Complete,
        Session!Refuse
<1>43. CASE BusEvent
  BY <1>43, IInv' DEF BusEvent, unchangedByUsb, Session!Invalidate
<1>44. CASE BusInterrupt
  BY <1>44, IInv' DEF BusInterrupt, unchangedByUsb, Session!Invalidate
<1>45. CASE UNCHANGED vars
  BY <1>45 DEF vars
<1> QED
  BY <1>1, <1>2, <1>3, <1>4, <1>5, <1>6, <1>7, <1>8, <1>9, <1>10, <1>11,
     <1>12, <1>13, <1>14, <1>15, <1>16, <1>17, <1>18, <1>19, <1>20, <1>21,
     <1>22, <1>23, <1>24, <1>25, <1>26, <1>27, <1>28, <1>29, <1>30, <1>31,
     <1>32, <1>33, <1>34, <1>35, <1>36, <1>37, <1>38, <1>39, <1>40, <1>41,
     <1>42, <1>43, <1>44, <1>45
  DEF Next, Calls, Continue, DisconnectSteps, UninstallSteps, MountSteps,
      InstallSteps, Usb

-----------------------------------------------------------------------------
(* What follows from the invariant.                                        *)

\* The ESP and the host never have the FAT volume at the same time, whatever
\* fails and whichever wait expires (usb_storage.c 222-253, 310-368).
THEOREM Exclusive == Spec => []ExclusiveCard
<1>1. IInv => ExclusiveCard
  BY DEF IInv, Structure, CardWithoutUsb, NoUsb, ExclusiveCard, AppHolds,
         HostReaches, AppSteps
<1> QED
  BY <1>1, Inductive, PTL

\* FATFS takes the volume only with every host write covered by a completed
\* eject, although the interrupt may end the session while resume_automatic
\* waits for the task to park (usb_storage.c 418-432).
THEOREM ReleasedBeforeMount == Spec => []AppHoldsReleasedVolume
<1>1. IInv => AppHoldsReleasedVolume
  BY DEF IInv, Structure, HostDataCovered, AppHoldsReleasedVolume, AppHolds,
         AppSteps
<1> QED
  BY <1>1, Inductive, PTL

\* An acknowledgement, also one consumed after its wait expired, is always
\* that of the TinyUSB task installed now (usb_storage.c 199-220).
THEOREM CurrentAcknowledgement == Spec => []AcknowledgementIsCurrent
<1>1. IInv => AcknowledgementIsCurrent
  BY DEF IInv, Structure, Quiesced, AcknowledgementIsCurrent, HostReaches
<1> QED
  BY <1>1, Inductive, PTL

\* The TinyUSB task is deleted only where it has parked, so never while it
\* holds the storage mutex (usb_storage.c 222-227).
THEOREM DeletesOnlyParkedTask == Spec => OnlyParkedTaskIsDeleted
<1>1. IInv /\ [Next]_vars =>
        (task # "absent" /\ task' = "absent" => task = "parked")
  <2> SUFFICES ASSUME IInv, [Next]_vars, task # "absent", task' = "absent"
               PROVE  task = "parked"
    OBVIOUS
  <2> USE DEF IInv, Structure, Quiesced, TypeOK, StateTyped, Tasks
  <2>1. CASE TearDown
    BY <2>1 DEF TearDown, UninstallAllowed, HasContext
  <2>2. CASE InstallSucceeds \/ InstallFails
    BY <2>2 DEF InstallSucceeds, InstallFails
  <2>3. CASE Usb
    BY <2>3 DEF Usb, HelperEnqueues, Park, LateStart, BeginAccess, AccessDone,
          AccessFails, ReportFault, AcceptEject, CompleteEject, BusEvent,
          BusInterrupt, stack
  <2>4. CASE UNCHANGED vars
    BY <2>4 DEF vars
  <2>5. CASE Calls \/ Protect \/ DisconnectSteps
    BY <2>5 DEF Calls, StartApp, Expose, Acquire, RestoreUsb,
          EnterMaintenance, ResumeAutomatic, Protect, DisconnectSteps,
          AlreadyParked, LateAcknowledgement, CreateHelper,
          AwaitAcknowledged, AwaitTimesOut, Recheck, unchangedInWait
  <2>6. CASE UninstallRefused \/ NothingToTearDown
    BY <2>6 DEF UninstallRefused, NothingToTearDown
  <2>7. CASE MountSteps
    BY <2>7 DEF MountSteps, BeginMount, Mounted, MountFails,
          MountUnconfirmed, HandBack, BeginUnmount, Unmounted, UnmountFails,
          Discard, Cleanup, Repoint, unchangedInMount
  <2>8. CASE InstallRefused \/ HostConfigured \/ ConfigurationTimesOut
             \/ ProbeHost
    BY <2>8 DEF InstallRefused, HostConfigured, ConfigurationTimesOut,
          ProbeHost
  <2> QED
    BY <2>1, <2>2, <2>3, <2>4, <2>5, <2>6, <2>7, <2>8
    DEF Next, Continue, UninstallSteps, InstallSteps
<1> QED
  BY <1>1, Inductive, PTL DEF Spec, OnlyParkedTaskIsDeleted

\* The controller implements the abstract sharing of the card: every step of
\* every agent is a hand-over through nobody, a host access, or a stutter.
THEOREM Refinement == Spec => ImplementsCardAccess
<1>1. Init => Card!Init
  BY DEF Init, Card!Init, AppHolds, HostReaches
<1> QED
  BY <1>1, Inductive, CardStep, PTL DEF Spec, ImplementsCardAccess, Card!Spec

-----------------------------------------------------------------------------
(* The modes: who may write, and that recovery leads only one way. Moded   *)
(* strengthens IInv: it says which operation a step of the application     *)
(* belongs to and which mode it runs in.                                   *)

\* Permission to write belongs to maintenance and to the host's possession.
Permission ==
  /\ task = "write" => mode = "MAINTENANCE_RW"
  /\ usb_writable =>
       mode = "MAINTENANCE_RW" /\ (own \in {"TO_USB", "USB"} \/ pc = "protect")
  /\ pc # "idle" /\ op \in {"start", "acquire", "restore"} => ~usb_writable
  /\ pc \notin {"idle", "protect"} /\ op = "resume" => ~usb_writable
  /\ pc \in {"cleanup", "repoint"} => task # "write"

\* Which operations reach a step, in which mode.
ModeOfStep ==
  /\ pc \in {"mount", "mounting"} =>
       op \in {"start", "acquire", "resume"} /\ mode # "RECOVERY_RO"
  /\ pc \in DetachSteps => op \in {"acquire", "resume", "enter", "restore"}
  /\ pc \in DetachSteps /\ op \in {"acquire", "enter"} => mode = "AUTO_RO"
  /\ pc \in DetachSteps /\ op = "resume" => mode = "MAINTENANCE_RW"
  /\ pc \in {"cleanup", "repoint"} => op = "restore"
  /\ pc \in {"unmount", "unmounting"} => op = "expose"
  /\ pc = "handback" => mode = "AUTO_RO"
  /\ own = "APP" => mode # "RECOVERY_RO"

\* An ERROR in which nothing is under way is the end of an operation.
ErrorOfStep ==
  /\ own = "ERROR" /\ pc # "idle" =>
       pc = "discard" \/ (op = "start" /\ pc \in {"mount", "mounting"})
  /\ recovery_failed => own = "ERROR" /\ pc = "idle" /\ started

Moded == Permission /\ ModeOfStep /\ ErrorOfStep

\* Moded is preserved by every step of every agent.
LEMMA ModedStep == IInv /\ Moded /\ [Next]_vars => Moded'
<1> SUFFICES ASSUME IInv, Moded, [Next]_vars PROVE Moded'
  OBVIOUS
<1> USE DEF IInv, Structure, TypeOK, StateTyped, FlagsTyped, CardWithoutUsb,
            UsbWithoutCard, OwnerOfStep, DriverPresent, NotStarted,
            Quiesced, HostDataCovered, NoUsb, AppSteps, InstallPhase,
            DetachSteps, Owners, Modes, Operations, Steps, Tasks,
            Session!Evidence, flags, drivers, parking, fat, stack, session,
            Moded, Permission, ModeOfStep, ErrorOfStep
<1>1. CASE StartApp
  BY <1>1 DEF StartApp, Call, Goto
<1>2. CASE Expose
  BY <1>2 DEF Expose, Call, Goto
<1>3. CASE Acquire
  BY <1>3 DEF Acquire, Call, Goto
<1>4. CASE RestoreUsb
  BY <1>4 DEF RestoreUsb, RecoveryEntry, Call, Goto, RecoveryAllowed
<1>5. CASE EnterMaintenance
  BY <1>5 DEF EnterMaintenance, Call, Goto
<1>6. CASE ResumeAutomatic
  BY <1>6 DEF ResumeAutomatic, Call, Goto, Released
<1>7. CASE Protect
  BY <1>7 DEF Protect, Goto
<1>8. CASE AlreadyParked
  BY <1>8 DEF AlreadyParked, Acknowledged, AfterDisconnect, Fail, Goto,
        unchangedInWait
<1>9. CASE LateAcknowledgement
  BY <1>9 DEF LateAcknowledgement, Acknowledged, AfterDisconnect, Fail,
        Goto, unchangedInWait
<1>10. CASE CreateHelper
  BY <1>10 DEF CreateHelper, Fail, Goto, unchangedInWait
<1>11. CASE AwaitAcknowledged
  BY <1>11 DEF AwaitAcknowledged, Acknowledged, AfterDisconnect, Fail, Goto,
        unchangedInWait
<1>12. CASE AwaitTimesOut
  BY <1>12 DEF AwaitTimesOut, Fail, unchangedInWait
<1>13. CASE Recheck
  BY <1>13 DEF Recheck, Fail, Goto, unchangedInWait, Released
<1>14. CASE UninstallRefused
  BY <1>14 DEF UninstallRefused, Fail, UninstallAllowed
<1>15. CASE TearDown
  <2>1. pc = "uninstall" /\ op' = op /\ started' = started /\ task' = "absent"
    BY <1>15, Zenon DEF TearDown
  <2>2. CASE Uninstalled
    <3>1. /\ pc' = AfterUninstall(op)
          /\ own' = own /\ recovery_failed' = recovery_failed
      BY <2>2, Zenon DEF Uninstalled, Goto
    <3>2. CASE op = "enter"
      <4>1. mode' = "MAINTENANCE_RW"
        BY <2>2, <3>2, Zenon DEF Uninstalled
      <4> QED
        BY <2>1, <3>1, <3>2, <4>1 DEF AfterUninstall
    <3>3. CASE op # "enter"
      <4>1. mode' = mode /\ usb_writable' = usb_writable
        BY <2>2, <3>3, Zenon DEF Uninstalled
      <4> QED
        BY <2>1, <3>1, <3>3, <4>1 DEF AfterUninstall
    <3> QED
      BY <3>2, <3>3
  <2>3. CASE Fail /\ mode' = mode
    <3>1. ~usb_writable' /\ own' = "ERROR" /\ pc' \in {"idle", "discard"}
      BY <2>3, Zenon DEF Fail
    <3>2. op # "expose" /\ pc' = "idle"
      BY <2>1, <2>3 DEF Fail
    <3>3. started
      BY <2>1
    <3> QED
      BY <2>1, <2>3, <3>1, <3>2, <3>3
  <2> QED
    BY <1>15, <2>2, <2>3 DEF TearDown
<1>16. CASE NothingToTearDown
  BY <1>16 DEF NothingToTearDown, Fail, Uninstalled, AfterUninstall, Goto,
        UninstallAllowed, HasContext
<1>17. CASE BeginMount
  BY <1>17 DEF BeginMount, Goto, unchangedInMount
<1>18. CASE Mounted
  BY <1>18 DEF Mounted, Goto, unchangedInMount
<1>19. CASE MountFails
  BY <1>19 DEF MountFails, MountFailure, RecoveryEntry, Fail, Goto,
        unchangedInMount
<1>20. CASE MountUnconfirmed
  BY <1>20 DEF MountUnconfirmed, MountFailure, RecoveryEntry, Fail, Goto,
        unchangedInMount
<1>21. CASE HandBack
  BY <1>21 DEF HandBack, Goto, unchangedInMount
<1>22. CASE BeginUnmount
  BY <1>22 DEF BeginUnmount, Goto, unchangedInMount
<1>23. CASE Unmounted
  <2>1. usb_writable' => mode = "MAINTENANCE_RW"
    BY <1>23, Zenon DEF Unmounted, WritableWhenExposed
  <2>2. /\ pc = "unmounting" /\ pc' = "install"
        /\ own' = own /\ mode' = mode /\ op' = op /\ task' = task
        /\ recovery_failed' = recovery_failed
    BY <1>23, Zenon DEF Unmounted, Goto, unchangedInMount
  <2> QED
    BY <2>1, <2>2
<1>24. CASE UnmountFails
  BY <1>24 DEF UnmountFails, Fail, unchangedInMount
<1>25. CASE Discard
  BY <1>25, RemovalShrinks DEF Discard, Goto, unchangedInMount
<1>26. CASE Cleanup
  BY <1>26, RemovalShrinks DEF Cleanup, Fail, Goto,
     unchangedInMount, Cleaned
<1>27. CASE Repoint
  BY <1>27 DEF Repoint, Goto, unchangedInMount
<1>28. CASE InstallRefused
  BY <1>28 DEF InstallRefused, Fail
<1>29. CASE InstallSucceeds
  BY <1>29 DEF InstallSucceeds, InstallAllowed, Goto, Session!Invalidate
<1>30. CASE InstallFails
  BY <1>30 DEF InstallFails, InstallAllowed, Fail, Session!Invalidate
<1>31. CASE HostConfigured
  BY <1>31 DEF HostConfigured, Exposed, Goto
<1>32. CASE ConfigurationTimesOut
  BY <1>32 DEF ConfigurationTimesOut, Goto
<1>33. CASE ProbeHost
  BY <1>33 DEF ProbeHost, Exposed, Fail, Goto
<1>34. CASE HelperEnqueues
  BY <1>34 DEF HelperEnqueues, unchangedByUsb
<1>35. CASE Park
  BY <1>35 DEF Park, unchangedByUsb
<1>36. CASE LateStart
  BY <1>36 DEF LateStart, unchangedByUsb
<1>37. ASSUME NEW kind \in {"read", "write"}, BeginAccess(kind)
      PROVE  Moded'
  BY <1>37 DEF BeginAccess, unchangedByUsb
<1>38. CASE AccessDone
  BY <1>38 DEF AccessDone, unchangedByUsb
<1>39. CASE AccessFails
  BY <1>39 DEF AccessFails, unchangedByUsb, Session!Fault
<1>40. CASE ReportFault
  BY <1>40 DEF ReportFault, unchangedByUsb, Session!Invalidate
<1>41. CASE AcceptEject
  BY <1>41 DEF AcceptEject, unchangedByUsb, Session!Accept
<1>42. CASE CompleteEject
  BY <1>42 DEF CompleteEject, unchangedByUsb, Session!Complete,
        Session!Refuse
<1>43. CASE BusEvent
  BY <1>43 DEF BusEvent, unchangedByUsb, Session!Invalidate
<1>44. CASE BusInterrupt
  BY <1>44 DEF BusInterrupt, unchangedByUsb, Session!Invalidate
<1>45. CASE UNCHANGED vars
  BY <1>45 DEF vars
<1> QED
  BY <1>1, <1>2, <1>3, <1>4, <1>5, <1>6, <1>7, <1>8, <1>9, <1>10, <1>11,
     <1>12, <1>13, <1>14, <1>15, <1>16, <1>17, <1>18, <1>19, <1>20, <1>21,
     <1>22, <1>23, <1>24, <1>25, <1>26, <1>27, <1>28, <1>29, <1>30, <1>31,
     <1>32, <1>33, <1>34, <1>35, <1>36, <1>37, <1>38, <1>39, <1>40, <1>41,
     <1>42, <1>43, <1>44, <1>45
  DEF Next, Calls, Continue, DisconnectSteps, UninstallSteps, MountSteps,
      InstallSteps, Usb

\* Every reachable state satisfies both invariants.
LEMMA ModedAlways == Spec => [](IInv /\ Moded)
<1>1. Init => Moded
  BY DEF Init, Moded, Permission, ModeOfStep, ErrorOfStep, DetachSteps
<1> QED
  BY <1>1, ModedStep, Inductive, PTL DEF Spec

\* The host writes only in maintenance, and the permission ends before the
\* card leaves its hands (usb_storage.c 314, 400-424).
THEOREM WritesInMaintenance == Spec => []WritesOnlyInMaintenance
<1>1. Moded => WritesOnlyInMaintenance
  BY DEF Moded, Permission, WritesOnlyInMaintenance
<1> QED
  BY <1>1, ModedAlways, PTL

\* One step of the gateway as far as recovery is concerned.
OneWay == /\ own = "ERROR" /\ own' # "ERROR" =>
               ~recovery_failed /\ (op' = "restore" \/ op = "start")
          /\ recovery_failed => recovery_failed' /\ own' = "ERROR"
          /\ mode = "RECOVERY_RO" => mode' = "RECOVERY_RO" /\ own' # "APP"

\* Every step of every agent goes one way.
LEMMA OneWayStep == IInv /\ Moded /\ [Next]_vars => OneWay
<1> SUFFICES ASSUME IInv, Moded, [Next]_vars PROVE OneWay
  OBVIOUS
<1> USE DEF IInv, Structure, TypeOK, StateTyped, FlagsTyped, OwnerOfStep,
            NotStarted, DetachSteps, Owners, Modes, Operations, Steps, flags,
            HostDataCovered, Moded, ModeOfStep, ErrorOfStep, OneWay
<1>1. CASE StartApp
  BY <1>1 DEF StartApp, Call, Goto
<1>2. CASE Expose
  BY <1>2 DEF Expose, Call, Goto
<1>3. CASE Acquire
  BY <1>3 DEF Acquire, Call, Goto
<1>4. CASE RestoreUsb
  BY <1>4 DEF RestoreUsb, RecoveryEntry, Call, Goto, RecoveryAllowed
<1>5. CASE EnterMaintenance
  BY <1>5 DEF EnterMaintenance, Call, Goto
<1>6. CASE ResumeAutomatic
  BY <1>6 DEF ResumeAutomatic, Call, Goto, Released
<1>7. CASE Protect
  BY <1>7 DEF Protect, Goto
<1>8. CASE AlreadyParked
  BY <1>8 DEF AlreadyParked, Acknowledged, AfterDisconnect, Fail, Goto,
        unchangedInWait
<1>9. CASE LateAcknowledgement
  BY <1>9 DEF LateAcknowledgement, Acknowledged, AfterDisconnect, Fail,
        Goto, unchangedInWait
<1>10. CASE CreateHelper
  BY <1>10 DEF CreateHelper, Fail, Goto, unchangedInWait
<1>11. CASE AwaitAcknowledged
  BY <1>11 DEF AwaitAcknowledged, Acknowledged, AfterDisconnect, Fail, Goto,
        unchangedInWait
<1>12. CASE AwaitTimesOut
  BY <1>12 DEF AwaitTimesOut, Fail, unchangedInWait
<1>13. CASE Recheck
  BY <1>13 DEF Recheck, Fail, Goto, unchangedInWait, Released
<1>14. CASE UninstallRefused
  BY <1>14 DEF UninstallRefused, Fail, UninstallAllowed
<1>15. CASE TearDown
  BY <1>15 DEF TearDown, Fail, Uninstalled, AfterUninstall, Goto,
        UninstallAllowed, HasContext
<1>16. CASE NothingToTearDown
  BY <1>16 DEF NothingToTearDown, Fail, Uninstalled, AfterUninstall, Goto,
        UninstallAllowed, HasContext
<1>17. CASE BeginMount
  BY <1>17 DEF BeginMount, Goto, unchangedInMount
<1>18. CASE Mounted
  BY <1>18 DEF Mounted, Goto, unchangedInMount
<1>19. CASE MountFails
  BY <1>19 DEF MountFails, MountFailure, RecoveryEntry, Fail, Goto,
        unchangedInMount
<1>20. CASE MountUnconfirmed
  BY <1>20 DEF MountUnconfirmed, MountFailure, RecoveryEntry, Fail, Goto,
        unchangedInMount
<1>21. CASE HandBack
  BY <1>21 DEF HandBack, Goto, unchangedInMount
<1>22. CASE BeginUnmount
  BY <1>22 DEF BeginUnmount, Goto, unchangedInMount
<1>23. CASE Unmounted
  BY <1>23 DEF Unmounted, Goto, unchangedInMount, WritableWhenExposed
<1>24. CASE UnmountFails
  BY <1>24 DEF UnmountFails, Fail, unchangedInMount
<1>25. CASE Discard
  BY <1>25, RemovalShrinks DEF Discard, Goto, unchangedInMount
<1>26. CASE Cleanup
  BY <1>26, RemovalShrinks DEF Cleanup, Fail, Goto,
     unchangedInMount, Cleaned
<1>27. CASE Repoint
  BY <1>27 DEF Repoint, Goto, unchangedInMount
<1>28. CASE InstallRefused
  BY <1>28 DEF InstallRefused, Fail
<1>29. CASE InstallSucceeds
  BY <1>29 DEF InstallSucceeds, InstallAllowed, Goto, Session!Invalidate
<1>30. CASE InstallFails
  BY <1>30 DEF InstallFails, InstallAllowed, Fail, Session!Invalidate
<1>31. CASE HostConfigured
  BY <1>31 DEF HostConfigured, Exposed, Goto
<1>32. CASE ConfigurationTimesOut
  BY <1>32 DEF ConfigurationTimesOut, Goto
<1>33. CASE ProbeHost
  BY <1>33 DEF ProbeHost, Exposed, Fail, Goto
<1>34. CASE HelperEnqueues
  BY <1>34 DEF HelperEnqueues, unchangedByUsb
<1>35. CASE Park
  BY <1>35 DEF Park, unchangedByUsb
<1>36. CASE LateStart
  BY <1>36 DEF LateStart, unchangedByUsb
<1>37. ASSUME NEW kind \in {"read", "write"}, BeginAccess(kind)
      PROVE  OneWay
  BY <1>37 DEF BeginAccess, unchangedByUsb
<1>38. CASE AccessDone
  BY <1>38 DEF AccessDone, unchangedByUsb
<1>39. CASE AccessFails
  BY <1>39 DEF AccessFails, unchangedByUsb, Session!Fault
<1>40. CASE ReportFault
  BY <1>40 DEF ReportFault, unchangedByUsb, Session!Invalidate
<1>41. CASE AcceptEject
  BY <1>41 DEF AcceptEject, unchangedByUsb, Session!Accept
<1>42. CASE CompleteEject
  BY <1>42 DEF CompleteEject, unchangedByUsb, Session!Complete,
        Session!Refuse
<1>43. CASE BusEvent
  BY <1>43 DEF BusEvent, unchangedByUsb, Session!Invalidate
<1>44. CASE BusInterrupt
  BY <1>44 DEF BusInterrupt, unchangedByUsb, Session!Invalidate
<1>45. CASE UNCHANGED vars
  BY <1>45 DEF vars
<1> QED
  BY <1>1, <1>2, <1>3, <1>4, <1>5, <1>6, <1>7, <1>8, <1>9, <1>10, <1>11,
     <1>12, <1>13, <1>14, <1>15, <1>16, <1>17, <1>18, <1>19, <1>20, <1>21,
     <1>22, <1>23, <1>24, <1>25, <1>26, <1>27, <1>28, <1>29, <1>30, <1>31,
     <1>32, <1>33, <1>34, <1>35, <1>36, <1>37, <1>38, <1>39, <1>40, <1>41,
     <1>42, <1>43, <1>44, <1>45
  DEF Next, Calls, Continue, DisconnectSteps, UninstallSteps, MountSteps,
      InstallSteps, Usb

\* An ERROR is left only by a recovery that may still be tried, or by the
\* first mount; nothing comes after a failed recovery, and nothing but
\* read-only USB after a successful one (usb_storage.h 28, usb_storage.c
\* 338-368).
THEOREM OneWayRecovery == Spec => RecoveryIsOneWay
<1>1. IInv /\ Moded /\ [Next]_vars => [OneWay]_vars
  BY OneWayStep
<1> QED
  BY <1>1, ModedAlways, PTL DEF Spec, RecoveryIsOneWay, OneWay

-----------------------------------------------------------------------------
(* The service. Kept says what a caller was promised when the step of its  *)
(* operation is reached; with it every step is one the service allows.     *)

\* Without a storage handle nothing runs and no USB stack exists.
HandleOfStep ==
  ~storage => pc = "idle" /\ own = "ERROR" /\ mode = "AUTO_RO" /\ NoUsb

\* Which operation a step of the second half belongs to.
OperationOfStep ==
  /\ pc # "idle" => op # "none"
  /\ pc = "handback" => op = "resume"
  /\ pc \in InstallPhase => op \in {"expose", "enter", "restore"}
  /\ pc = "discard" => op = "expose" /\ own = "ERROR"
  /\ pc = "idle" => own \in {"APP", "USB", "ERROR"}

\* The mode an operation runs in, up to the step that selects the next one.
ModeOfOperation ==
  /\ pc # "idle" /\ op \in {"start", "expose", "acquire"} => mode = "AUTO_RO"
  /\ pc = "idle" /\ own = "APP" => mode = "AUTO_RO"
  /\ pc # "idle" /\ op = "resume" =>
       mode = IF pc = "handback" THEN "AUTO_RO" ELSE "MAINTENANCE_RW"
  /\ pc # "idle" /\ op = "enter" =>
       mode = IF pc \in InstallPhase THEN "MAINTENANCE_RW" ELSE "AUTO_RO"
  /\ pc \in InstallPhase /\ op = "restore" => mode = "RECOVERY_RO"

Kept == HandleOfStep /\ OperationOfStep /\ ModeOfOperation

\* What a step can be for the caller: a call that is accepted, one that
\* fails at once, a step it does not see, a hand-over to another operation,
\* a return, or news of the host.
Accepted ==
  /\ pc = "idle" /\ pc' # "idle" /\ op' \in Service!ServiceCalls
  /\ Service!Accepts(op')
  /\ storage' /\ UNCHANGED <<recovery_failed, last_io_error>>
FailsAtOnce ==
  /\ pc = "idle" /\ pc' = "idle"
  /\ UNCHANGED <<own, mode, storage, recovery_failed, last_io_error,
                 evidence, faulty>>
Unseen ==
  /\ pc # "idle" /\ pc' # "idle" /\ op' = op
  /\ UNCHANGED <<storage, recovery_failed, last_io_error>>
HandsOver ==
  /\ pc # "idle" /\ pc' # "idle"
  /\ <<op, op'>> \in {<<"start", "restore">>, <<"resume", "expose">>}
  /\ UNCHANGED <<storage, recovery_failed, last_io_error>>
Ends ==
  /\ pc # "idle" /\ pc' = "idle"
  /\ <<own', mode'>> \in Service!Outcomes(op)
  /\ recovery_failed' = (op = "restore" /\ own' = "ERROR")
  /\ UNCHANGED <<storage, last_io_error>>
HostOnly ==
  /\ UNCHANGED <<pc, op, own, mode, storage, recovery_failed>>
  /\ \/ storage /\ last_io_error' \in {last_io_error, TRUE}
     \/ UNCHANGED <<evidence, faulty, last_io_error>>

Served == Kept' /\ (Accepted \/ FailsAtOnce \/ Unseen \/ HandsOver \/ Ends
                    \/ HostOnly)

\* Every step of every agent keeps the promise and is one of the kinds.
LEMMA ServedStep == IInv /\ Moded /\ Kept /\ [Next]_vars => Served
<1> SUFFICES ASSUME IInv, Moded, Kept, [Next]_vars PROVE Served
  OBVIOUS
<1> USE DEF IInv, Structure, TypeOK, StateTyped, FlagsTyped, CardWithoutUsb,
            UsbWithoutCard, OwnerOfStep, DriverPresent, NotStarted,
            Quiesced, NoUsb, AppSteps, InstallPhase,
            DetachSteps, Owners, Modes, Operations, Steps, Tasks,
            Session!Evidence, flags, drivers, parking, fat, stack, session,
            Moded, ModeOfStep, ErrorOfStep, HandleOfStep, OperationOfStep,
            ModeOfOperation, Kept, Served, Accepted, FailsAtOnce, Unseen,
            HandsOver, Ends, HostOnly, Service!Accepts, Service!Outcomes,
            Service!ServiceCalls, Service!ServiceModes,
            Service!CaptureAllowed
<1>1. CASE StartApp
  BY <1>1 DEF StartApp, Call, Goto
<1>2. CASE Expose
  BY <1>2 DEF Expose, Call, Goto
<1>3. CASE Acquire
  BY <1>3 DEF Acquire, Call, Goto
<1>4. CASE RestoreUsb
  BY <1>4 DEF RestoreUsb, RecoveryEntry, Call, Goto, RecoveryAllowed
<1>5. CASE EnterMaintenance
  BY <1>5 DEF EnterMaintenance, Call, Goto
<1>6. CASE ResumeAutomatic
  BY <1>6 DEF ResumeAutomatic, Call, Goto, Released
<1>7. CASE Protect
  BY <1>7 DEF Protect, Goto
<1>8. CASE AlreadyParked
  BY <1>8 DEF AlreadyParked, Acknowledged, AfterDisconnect, Fail, Goto,
        unchangedInWait
<1>9. CASE LateAcknowledgement
  BY <1>9 DEF LateAcknowledgement, Acknowledged, AfterDisconnect, Fail,
        Goto, unchangedInWait
<1>10. CASE CreateHelper
  BY <1>10 DEF CreateHelper, Fail, Goto, unchangedInWait
<1>11. CASE AwaitAcknowledged
  BY <1>11 DEF AwaitAcknowledged, Acknowledged, AfterDisconnect, Fail, Goto,
        unchangedInWait
<1>12. CASE AwaitTimesOut
  BY <1>12 DEF AwaitTimesOut, Fail, unchangedInWait
<1>13. CASE Recheck
  BY <1>13 DEF Recheck, Fail, Goto, unchangedInWait, Released
<1>14. CASE UninstallRefused
  BY <1>14 DEF UninstallRefused, Fail, UninstallAllowed
<1>15. CASE TearDown
  <2>1. /\ pc = "uninstall" /\ op' = op /\ started' = started
        /\ task' = "absent" /\ storage' = storage
        /\ last_io_error' = last_io_error
    BY <1>15, Zenon DEF TearDown, flags, session
  <2>2. CASE Uninstalled
    <3>1. /\ pc' = AfterUninstall(op)
          /\ own' = own /\ recovery_failed' = recovery_failed
      BY <2>2, Zenon DEF Uninstalled, Goto
    <3>2. CASE op = "enter"
      <4>1. mode' = "MAINTENANCE_RW"
        BY <2>2, <3>2, Zenon DEF Uninstalled
      <4> QED
        BY <2>1, <3>1, <3>2, <4>1 DEF AfterUninstall
    <3>3. CASE op # "enter"
      <4>1. mode' = mode /\ usb_writable' = usb_writable
        BY <2>2, <3>3, Zenon DEF Uninstalled
      <4> QED
        BY <2>1, <3>1, <3>3, <4>1 DEF AfterUninstall
    <3> QED
      BY <3>2, <3>3
  <2>3. CASE Fail /\ mode' = mode
    <3>1. /\ own' = "ERROR"
          /\ recovery_failed' = (recovery_failed \/ op = "restore")
      BY <2>3, Zenon DEF Fail
    <3>2. op # "expose" /\ pc' = "idle"
      BY <2>1, <2>3 DEF Fail
    <3>3. storage /\ ~recovery_failed
      BY <2>1
    <3> QED
      BY <2>1, <2>3, <3>1, <3>2, <3>3
  <2> QED
    BY <1>15, <2>2, <2>3 DEF TearDown
<1>16. CASE NothingToTearDown
  BY <1>16 DEF NothingToTearDown, Fail, Uninstalled, AfterUninstall, Goto,
        UninstallAllowed, HasContext
<1>17. CASE BeginMount
  BY <1>17 DEF BeginMount, Goto, unchangedInMount
<1>18. CASE Mounted
  BY <1>18 DEF Mounted, Goto, unchangedInMount
<1>19. CASE MountFails
  BY <1>19 DEF MountFails, MountFailure, RecoveryEntry, Fail, Goto,
        unchangedInMount
<1>20. CASE MountUnconfirmed
  BY <1>20 DEF MountUnconfirmed, MountFailure, RecoveryEntry, Fail, Goto,
        unchangedInMount
<1>21. CASE HandBack
  BY <1>21 DEF HandBack, Goto, unchangedInMount
<1>22. CASE BeginUnmount
  BY <1>22 DEF BeginUnmount, Goto, unchangedInMount
<1>23. CASE Unmounted
  <2>1. usb_writable' => mode = "MAINTENANCE_RW"
    BY <1>23, Zenon DEF Unmounted, WritableWhenExposed
  <2>2. /\ pc = "unmounting" /\ pc' = "install"
        /\ own' = own /\ mode' = mode /\ op' = op /\ task' = task
        /\ recovery_failed' = recovery_failed
        /\ storage' = storage /\ last_io_error' = last_io_error
    BY <1>23, Zenon DEF Unmounted, Goto, unchangedInMount, flags, session
  <2> QED
    BY <2>1, <2>2
<1>24. CASE UnmountFails
  BY <1>24 DEF UnmountFails, Fail, unchangedInMount
<1>25. CASE Discard
  BY <1>25, RemovalShrinks DEF Discard, Goto, unchangedInMount
<1>26. CASE Cleanup
  BY <1>26, RemovalShrinks DEF Cleanup, Fail, Goto,
     unchangedInMount, Cleaned
<1>27. CASE Repoint
  BY <1>27 DEF Repoint, Goto, unchangedInMount
<1>28. CASE InstallRefused
  BY <1>28 DEF InstallRefused, Fail
<1>29. CASE InstallSucceeds
  BY <1>29 DEF InstallSucceeds, InstallAllowed, Goto, Session!Invalidate
<1>30. CASE InstallFails
  BY <1>30 DEF InstallFails, InstallAllowed, Fail, Session!Invalidate
<1>31. CASE HostConfigured
  BY <1>31 DEF HostConfigured, Exposed, Goto
<1>32. CASE ConfigurationTimesOut
  BY <1>32 DEF ConfigurationTimesOut, Goto
<1>33. CASE ProbeHost
  BY <1>33 DEF ProbeHost, Exposed, Fail, Goto
<1>34. CASE HelperEnqueues
  BY <1>34 DEF HelperEnqueues, unchangedByUsb
<1>35. CASE Park
  BY <1>35 DEF Park, unchangedByUsb
<1>36. CASE LateStart
  BY <1>36 DEF LateStart, unchangedByUsb
<1>37. ASSUME NEW kind \in {"read", "write"}, BeginAccess(kind)
      PROVE  Served
  BY <1>37 DEF BeginAccess, unchangedByUsb
<1>38. CASE AccessDone
  BY <1>38 DEF AccessDone, unchangedByUsb
<1>39. CASE AccessFails
  BY <1>39 DEF AccessFails, unchangedByUsb, Session!Fault
<1>40. CASE ReportFault
  BY <1>40 DEF ReportFault, unchangedByUsb, Session!Invalidate
<1>41. CASE AcceptEject
  BY <1>41 DEF AcceptEject, unchangedByUsb, Session!Accept
<1>42. CASE CompleteEject
  BY <1>42 DEF CompleteEject, unchangedByUsb, Session!Complete,
        Session!Refuse
<1>43. CASE BusEvent
  BY <1>43 DEF BusEvent, unchangedByUsb, Session!Invalidate
<1>44. CASE BusInterrupt
  BY <1>44 DEF BusInterrupt, unchangedByUsb, Session!Invalidate
<1>45. CASE UNCHANGED vars
  BY <1>45 DEF vars
<1> QED
  BY <1>1, <1>2, <1>3, <1>4, <1>5, <1>6, <1>7, <1>8, <1>9, <1>10, <1>11,
     <1>12, <1>13, <1>14, <1>15, <1>16, <1>17, <1>18, <1>19, <1>20, <1>21,
     <1>22, <1>23, <1>24, <1>25, <1>26, <1>27, <1>28, <1>29, <1>30, <1>31,
     <1>32, <1>33, <1>34, <1>35, <1>36, <1>37, <1>38, <1>39, <1>40, <1>41,
     <1>42, <1>43, <1>44, <1>45
  DEF Next, Calls, Continue, DisconnectSteps, UninstallSteps, MountSteps,
      InstallSteps, Usb

\* A step of one of these kinds is a step of the service, or a stutter.
LEMMA ServedMeans ==
  ASSUME TypeOK, Kept, Served
  PROVE  [Service!ServiceNext]_(Service!service)
<1> USE DEF TypeOK, StateTyped, FlagsTyped, Operations, Service!ServiceNext,
            Service!service, Service!ServiceCalls, Served, Kept,
            OperationOfStep, Released
<1>1. CASE Accepted
  <2>1. Service!Begin(op')
    BY <1>1 DEF Accepted, Service!Begin, Service!Accepts, Service!Moving,
          Service!CaptureAllowed
  <2> QED
    BY <1>1, <2>1 DEF Accepted
<1>2. CASE FailsAtOnce
  BY <1>2 DEF FailsAtOnce
<1>3. CASE Unseen
  BY <1>3 DEF Unseen
<1>4. CASE HandsOver
  BY <1>4 DEF HandsOver, Service!Delegate
<1>5. CASE Ends
  BY <1>5 DEF Ends, Service!Return, Service!ReleasePossible
<1>6. CASE HostOnly
  <2>1. CASE UNCHANGED <<evidence, faulty, last_io_error>>
    BY <1>6, <2>1 DEF HostOnly
  <2>2. CASE storage /\ last_io_error' \in {last_io_error, TRUE}
    <3>1. Service!HostNews
      BY <1>6, <2>2 DEF HostOnly, Service!HostNews, Service!ReleasePossible
    <3> QED
      BY <3>1
  <2> QED
    BY <1>6, <2>1, <2>2 DEF HostOnly
<1> QED
  BY <1>1, <1>2, <1>3, <1>4, <1>5, <1>6

\* The controller implements the service the application is written on:
\* every call ends in one of the outcomes of its kind, and between calls
\* neither ownership nor mode moves on its own (usb_storage.c 255-434).
THEOREM ServiceRefinement == Spec => ImplementsService
<1>1. Init => Service!ServiceInit
  BY DEF Init, Service!ServiceInit, Session!Init, Released
<1>2. Init => Kept
  BY DEF Init, Kept, HandleOfStep, OperationOfStep, ModeOfOperation, NoUsb,
         InstallPhase
<1>3. IInv /\ Moded /\ Kept /\ [Next]_vars =>
        Kept' /\ [Service!ServiceNext]_(Service!service)
  BY ServedStep, ServedMeans DEF Served, IInv
<1> QED
  BY <1>1, <1>2, <1>3, ModedAlways, PTL
  DEF Spec, ImplementsService, Service!ServiceSpec
=============================================================================
