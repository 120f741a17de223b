---------------------------- MODULE MCMscStorage ----------------------------
(***************************************************************************)
(* What the storage component owes its application and the host.           *)
(***************************************************************************)
EXTENDS MscStorage

AllAtRest == \A t \in Task : call[t] = Idle

-----------------------------------------------------------------------------
\* A storage that was created and is not being deleted is at exactly one LUN
\* and that LUN is one the host is told about; no other LUN is taken. (LUNs
\* are filled by their count and emptied in place, tinyusb_msc.c:221-261.)
EveryStorageHasItsLun ==
  /\ \A s \in handles : AtRest(s) =>
       /\ Cardinality(LunsOf(s)) = 1
       /\ \A l \in LunsOf(s) : l < MaxLun
  /\ lun_count = Cardinality({l \in Luns : mapped[l] # None})

-----------------------------------------------------------------------------
\* tinyusb_msc.c:968 says of the uninstall at the end of a deletion "Should
\* never fail" and aborts the program if it does.
UninstallNeverFails == aborted # "uninstall"

\* tinyusb_msc.h:82 says that a medium is formatted when it has no filesystem;
\* one that has a filesystem is left as it is.
OnlyBlankIsFormatted == wiped = {}

\* tinyusb_msc.h:147 says that the driver cannot be uninstalled "if one or more
\* storage instances are still present": with no call under way and no storage
\* there, an installed driver can be uninstalled.
RefusedOnlyWithStorage ==
  AllAtRest /\ alive = {} /\ driver # "absent" => Uninstallable

\* test_msc_storage.c:508-520 creates a storage for the application on a medium
\* without a filesystem that may not be formatted, and expects the creation to
\* succeed after the event FORMAT_REQUIRED.
UnformattedStorageIsKept ==
  [][\A t \in AppTask :
       FormatRequired(t) /\ call[t].op = "new" => call[t].s \in handles']_storageVars
=============================================================================
