---------------------------- MODULE TraceService ----------------------------
(***************************************************************************)
(* trace_service.TraceService: the in-memory record of what the agents     *)
(* did.  At most MAX_TRACE_RECORDS records are kept; the oldest make room. *)
(* An event stands for a record with everything in it: redaction, trace    *)
(* ids and the deep copies handed to readers are left out.                 *)
(***************************************************************************)
EXTENDS Integers, Sequences

CONSTANT MAX_TRACE_RECORDS
ASSUME TraceAssumption == MAX_TRACE_RECORDS \in Nat \ {0}

VARIABLES
    records,    \* TraceService._records
    emitted     \* history: every event recorded since the last clear

traceVars == <<records, emitted>>

\* Mutant: one record too many is removed.
EvictedTooMany(rs) ==
    IF Len(rs) < MAX_TRACE_RECORDS THEN rs
    ELSE SubSeq(rs, Len(rs) - MAX_TRACE_RECORDS + 3, Len(rs))

\* _evict_records_before_append
Evicted(rs) ==
    IF Len(rs) < MAX_TRACE_RECORDS THEN rs
    ELSE SubSeq(rs, Len(rs) - MAX_TRACE_RECORDS + 2, Len(rs))

RecordEvent(event) ==
    /\ records' = Append(Evicted(records), event)
    /\ emitted' = Append(emitted, event)

RecordTwoEvents(first, second) ==
    /\ records' = Append(Evicted(Append(Evicted(records), first)), second)
    /\ emitted' = emitted \o <<first, second>>

ClearTrace == records' = <<>> /\ emitted' = <<>>

InitTrace == records = <<>> /\ emitted = <<>>

\* The trace is the newest records in the order they were made, none missing
\* between them and none older kept in their place.
TraceIsTail ==
    LET kept == IF Len(emitted) < MAX_TRACE_RECORDS THEN Len(emitted)
                ELSE MAX_TRACE_RECORDS
    IN records = SubSeq(emitted, Len(emitted) - kept + 1, Len(emitted))
=============================================================================
