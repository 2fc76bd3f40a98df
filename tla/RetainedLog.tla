---------------------------- MODULE RetainedLog ----------------------------
(***************************************************************************)
(* What the telemetry sink promises of the events on disk, however they    *)
(* are spread over files: events are numbered in the order they were       *)
(* emitted, a new one is kept at once, and the oldest ones go, Batch at a  *)
(* time, only when Capacity events are kept.  Clearing drops the newest.   *)
(***************************************************************************)
EXTENDS Integers, FiniteSets

CONSTANTS Capacity, Batch

VARIABLES kept, emitted

Init == kept = {} /\ emitted = 0

Older(S, T) == \A x \in S, y \in T : x < y

Append ==
    /\ Cardinality(kept) < Capacity
    /\ emitted' = emitted + 1
    /\ kept' = kept \cup {emitted'}

Drop ==
    /\ Cardinality(kept) = Capacity
    /\ kept' \subseteq kept
    /\ Cardinality(kept') = Capacity - Batch
    /\ Older(kept \ kept', kept')
    /\ UNCHANGED emitted

Clear ==
    /\ kept' \subseteq kept
    /\ Older(kept', kept \ kept')
    /\ UNCHANGED emitted

Spec == Init /\ [][Append \/ Drop \/ Clear]_<<kept, emitted>>
=============================================================================
