---------------------------- MODULE MCCollective ----------------------------
(* Collective on small instances: see MCCollective*.cfg. *)
EXTENDS Collective

(* CmiSpanTree with branching factor 4 on at most five PEs. *)
Star == [pe \in Pes |-> IF pe = 0 THEN Pes \ {0} ELSE {}]

Array(f, s, c) ==
  [group |-> FALSE, fifo |-> f, sends |-> s, bcasts |-> 0, clients |-> c]
Group(f, s, b, c) ==
  [group |-> TRUE, fifo |-> f, sends |-> s, bcasts |-> b, clients |-> c]

(***************************************************************************)
(* An array over channels that reorder; a group over ordered channels; a   *)
(* group whose broadcasts overtake each other, and one where they and a    *)
(* message to an element, all three from PE 1, do.                         *)
(***************************************************************************)
All == {Array(FALSE, 2, Pes), Group(TRUE, 1, 2, Pes),
        Group(FALSE, 0, 2, Pes), Group(FALSE, 1, 2, {1})}

(* Two broadcasts over channels that reorder. *)
Overtaking == {Group(FALSE, 0, 2, Pes)}
=============================================================================
