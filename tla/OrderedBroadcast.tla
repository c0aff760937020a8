--------------------------- MODULE OrderedBroadcast ---------------------------
(***************************************************************************)
(* What broadcasts to a charmlite group promise: the root puts them in one *)
(* order, and every element handles them in that order, each one once.     *)
(* "broadcasts are processed in-order" (charmlite collective.hh, handle_). *)
(***************************************************************************)
EXTENDS Naturals, Sequences

CONSTANTS Elements,    \* the elements of the group
          Root,        \* the element that orders broadcasts
          Broadcasts   \* what can be broadcast

VARIABLES delivered    \* per element: the broadcasts it handled, in order

Init == delivered = [e \in Elements |-> << >>]

(* The root handles a new broadcast, which thereby gets its place. *)
Order(b) ==
  /\ \A k \in 1 .. Len(delivered[Root]) : delivered[Root][k] # b
  /\ delivered' = [delivered EXCEPT ![Root] = Append(@, b)]

(* Another element handles the next broadcast of the order. *)
Follow(e) ==
  /\ Len(delivered[e]) < Len(delivered[Root])
  /\ delivered' =
       [delivered EXCEPT ![e] = Append(@, delivered[Root][Len(@) + 1])]

Next == \/ \E b \in Broadcasts : Order(b)
        \/ \E e \in Elements \ {Root} : Follow(e)

Spec == Init /\ [][Next]_delivered
===============================================================================
