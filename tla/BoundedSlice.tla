---------------------------- MODULE BoundedSlice ----------------------------
(***************************************************************************)
(* The slices the agent bounds by hand.  Wherever the agent accumulates    *)
(* data between two collections (span durations, spans, Kubernetes events, *)
(* HTTP latencies) it appends first and, when the slice has grown past a   *)
(* limit, re-slices it to its newest half:                                 *)
(*                                                                         *)
(*     if len(s) > max { s = s[len(s)-keep:] }                             *)
(***************************************************************************)
EXTENDS Integers, Sequences

KeepNewest(s, max, keep) ==
    IF Len(s) > max THEN SubSeq(s, Len(s) - keep + 1, Len(s)) ELSE s

=============================================================================
