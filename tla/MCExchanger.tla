----------------------------- MODULE MCExchanger -----------------------------
(* Exchanger on small instances. *)
EXTENDS Exchanger

Components == Elts \X {"adder", "consumer"}
Inputs == [c \in Components |-> IF c[2] = "adder" THEN 2 ELSE 1]
Wires == [c \in Components |-> IF c[2] = "adder" THEN <<<<c[1], "consumer">>, 0>> ELSE << >>]
==============================================================================
