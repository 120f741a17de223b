---------------------------- MODULE DiagnosticsRing ----------------------------
(***************************************************************************)
(* The diagnostics ring of gateway_diagnostics.c: a fixed array in RAM, the*)
(* slot to write next and how many hold a record. The application task     *)
(* alone writes and reads it; it starts as zeroed static storage.          *)
(***************************************************************************)
EXTENDS Integers, Sequences

CONSTANTS Capacity,   \* GATEWAY_DIAGNOSTIC_CAPACITY
          Entries,    \* gateway_diagnostic_record_t
          Zeroed      \* a record of static storage

\* What the theorems assume of the constants.
RingAssumption ==
  /\ Capacity \in Nat \ {0}
  /\ Zeroed \in Entries

VARIABLES
  records,    \* slot -> record
  next,       \* the slot the next record goes to
  count       \* how many slots hold one

ring == <<records, next, count>>

Slots == 0..Capacity - 1

RingTypeOK ==
  /\ records \in [Slots -> Entries]
  /\ next \in Slots
  /\ count \in 0..Capacity

RingInit ==
  /\ records = [slot \in Slots |-> Zeroed]
  /\ next = 0
  /\ count = 0

\* gateway_diagnostics_record
Record(entry) ==
  /\ records' = [records EXCEPT ![next] = entry]
  /\ next' = (next + 1) % Capacity
  /\ count' = IF count < Capacity THEN count + 1 ELSE count

RingNext == \E entry \in Entries : Record(entry)

RingSpec == RingInit /\ [][RingNext]_ring

\* The slot of the index-th oldest record.
Slot(index) == (next + Capacity - count + index) % Capacity

\* gateway_diagnostics_get: defined for an index below the count.
Get(index) == records[Slot(index)]

\* gateway_diagnostics_count and every gateway_diagnostics_get below it
Readable == [i \in 1..count |-> Get(i - 1)]

Log == INSTANCE DiagnosticsLog WITH kept <- Readable

(* Reading the ring gives the last Capacity records in the order they were *)
(* made, through the wrap of the array and from empty to full              *)
(* (gateway_diagnostics.h:19, gateway_diagnostics.c:4-14).                 *)
ImplementsLog == Log!LogSpec
==============================================================================
