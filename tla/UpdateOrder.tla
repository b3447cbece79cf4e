---------------------------- MODULE UpdateOrder ----------------------------
(***************************************************************************)
(* What a sequence box promises its apply callback (telegram/updates,      *)
(* doc.go: "all internalState-sensitive updates will be performed in       *)
(* correct order"): updates reach the callback in batches, each update     *)
(* starting exactly where the previous one ended.                          *)
(***************************************************************************)
EXTENDS Integers, Sequences

CONSTANT InitialState

VARIABLES state, log

vars == <<state, log>>

\* q leads from counter value s to t without a hole, an overlap or a swap.
Chain(s, q, t) ==
  /\ q = << >> => s = t
  /\ q # << >> => /\ q[1].State - q[1].Count = s
                  /\ q[Len(q)].State = t
  /\ \A i \in 1 .. Len(q) - 1 : q[i + 1].State - q[i + 1].Count = q[i].State

Init == state = InitialState /\ log = << >>

\* One call of the apply callback, or one difference, with the updates batch.
Deliver(batch) ==
  /\ Chain(state, batch, state')
  /\ log' = log \o batch

Next == Deliver(SubSeq(log', Len(log) + 1, Len(log')))

Spec == Init /\ [][Next]_vars
=============================================================================
