---------------------------- MODULE DiagnosticsLog ----------------------------
(***************************************************************************)
(* What gateway_diagnostics.h promises of its ring: the last Capacity      *)
(* records, oldest first. A full log loses its oldest record to the new    *)
(* one, and nothing else.                                                  *)
(***************************************************************************)
EXTENDS Integers, Sequences

CONSTANTS Capacity,   \* GATEWAY_DIAGNOSTIC_CAPACITY
          Entries     \* gateway_diagnostic_record_t

VARIABLE kept         \* the records that can be read, oldest first

LogInit == kept = <<>>

LogRecord(entry) ==
  kept' = IF Len(kept) < Capacity THEN Append(kept, entry) ELSE Append(Tail(kept), entry)

LogNext == \E entry \in Entries : LogRecord(entry)

LogSpec == LogInit /\ [][LogNext]_kept
==============================================================================
