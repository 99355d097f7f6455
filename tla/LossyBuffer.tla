---------------------------- MODULE LossyBuffer ----------------------------
(***************************************************************************)
(* What a bounded buffer of the agent promises its reader, whatever the    *)
(* writers are: items come out in the order they went in, none twice, and  *)
(* an item may be dropped only because more than Limit items were waiting,   *)
(* in which case the dropped ones are the oldest and the newest Kept stay. *)
(*                                                                         *)
(* The state is the history of the buffer: everything ever put in it and   *)
(* a head that separates what has left (taken or dropped) from what waits. *)
(***************************************************************************)
EXTENDS Integers, Sequences

CONSTANTS
    Limit,     \* how many items may wait
    Kept     \* how many survive when more than Limit would wait

VARIABLES
    log,     \* every item ever put, in order
    head,    \* the items log[1..head] have left the buffer
    taken    \* the items handed to the reader, in order

vars == <<log, head, taken>>

waiting == Len(log) - head

Init ==
    /\ log = << >>
    /\ head = 0
    /\ taken = << >>

\* Some items arrive at the end.  If too many wait, the oldest are dropped.
Put ==
    /\ Len(log') > Len(log)
    /\ SubSeq(log', 1, Len(log)) = log
    /\ head' \in head .. Len(log')
    /\ waiting' <= Limit
    /\ head' # head => Len(log') - head > Limit /\ waiting' >= Kept
    /\ taken' = taken

\* The reader takes everything that waits.
Take ==
    /\ log' = log
    /\ head' = Len(log)
    /\ taken' = taken \o SubSeq(log, head + 1, Len(log))

Next == Put \/ Take

Spec == Init /\ [][Next]_vars

=============================================================================
