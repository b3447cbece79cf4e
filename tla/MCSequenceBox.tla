--------------------------- MODULE MCSequenceBox ---------------------------
(* A log of five updates: counts one and two, and one that moves nothing. *)
EXTENDS SequenceBox

Log == {[State |-> 1, Count |-> 1], [State |-> 3, Count |-> 2],
        [State |-> 3, Count |-> 0], [State |-> 4, Count |-> 1],
        [State |-> 5, Count |-> 1]}
=============================================================================
