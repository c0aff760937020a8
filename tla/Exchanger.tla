------------------------------ MODULE Exchanger ------------------------------
(***************************************************************************)
(* archive/tests/comex/tester.cc: an array of elements, each with an adder *)
(* wired to a consumer, which send each other's adders integers and        *)
(* doubles.  Elements share nothing but the counter of quiescence          *)
(* detection: a call runs to its end before the next one.  Without         *)
(* exchanging the components of element 0 are driven from outside, in      *)
(* every order of calls component.hh allows.                               *)
(***************************************************************************)
EXTENDS Component

CONSTANTS NumElts,   \* kNumElts
          NumIters   \* kNumIters

Elts == 0 .. NumElts - 1
Adder(e) == <<e, "adder">>
Consumer(e) == <<e, "consumer">>

(* The constants are 4 and 8: there are even and odd elements, and the ports *)
(* and the destinations take turns every four iterations.                    *)
ASSUME ExchangerAssumption ==
  /\ NumElts \in Nat \ {0} /\ NumElts % 2 = 0
  /\ NumIters \in Nat /\ NumIters % 4 = 0
  /\ Coms = {Adder(e) : e \in Elts} \cup {Consumer(e) : e \in Elts}
  /\ \A e \in Elts : /\ NIn[Adder(e)] = 2 /\ Wire[Adder(e)] = <<Consumer(e), 0>>
                     /\ NIn[Consumer(e)] = 1 /\ Wire[Consumer(e)] = << >>

VARIABLES
  exchanging,   \* the experiment runs
  constructed,  \* the elements constructed
  net           \* messages to element, port and type: how many

exVars == <<exchanging, constructed, net>>
vars == <<comVars, exVars>>

Types == {"int", "double"}
Messages == Elts \X {0, 1} \X Types

Init ==
  /\ exchanging \in BOOLEAN
  /\ constructed = {} /\ net = [m \in Messages |-> 0]
  /\ persistent \in (SUBSET {Adder(0), Consumer(0)}) \cup {Coms}
  /\ exchanging <=> persistent = Coms
  /\ ComInit

-----------------------------------------------------------------------------
(* The types of an adder's ports: "xchg the port types". *)
PortType(e, p) ==
  IF e % 2 = 0 THEN (IF p = 0 THEN "int" ELSE "double")
  ELSE (IF p = 0 THEN "double" ELSE "int")

Even(mine) == (mine + (2 - (mine % 2))) % NumElts

(* Faulty: the next element, odd or not. *)
OddNext(mine) == (mine + 1) % NumElts

Odd(mine) == (mine + (mine % 2) + 1) % NumElts

(* What do_sends sends in iteration it. *)
MessageOf(mine, it) ==
  LET port == (it % 4) \div 2
      dst == IF it % 2 = 0 THEN Even(mine) ELSE Odd(mine)
      int == (Even(mine) = dst /\ port = 0) \/ (Odd(mine) = dst /\ port = 1)
  IN  <<dst, port, IF int THEN "int" ELSE "double">>

(***************************************************************************)
(* The constructor of an element: its components are persistent, activated *)
(* and connected before there is a value; then do_sends.                   *)
(***************************************************************************)
Construct(e) ==
  /\ exchanging /\ stack = << >> /\ e \notin constructed
  /\ constructed' = constructed \cup {e}
  /\ active' = active \cup {Adder(e), Consumer(e)}
  /\ connected' = connected \cup {Adder(e)}
  /\ net' = [m \in Messages |->
               net[m] + Cardinality({it \in 0 .. NumIters - 1 : MessageOf(e, it) = m})]
  /\ UNCHANGED <<exchanging, persistent, incoming, outbox, stack, qd, arrived, acted,
                 activations>>

(* exchanger::accept: the refnum has the port and the component. *)
AcceptMessage(m) ==
  /\ m[1] \in constructed /\ net[m] > 0
  /\ net' = [net EXCEPT ![m] = @ - 1]
  /\ Deliver(Adder(m[1]), m[2])
  /\ UNCHANGED <<exchanging, constructed>>

(* Calls from outside on the components of element 0. *)
Drive(c) ==
  /\ ~exchanging
  /\ \/ \E p \in Ports(c) : Deliver(c, p)
     \/ Activate(c)
     \/ OutputTo(c)
  /\ UNCHANGED exVars

Next ==
  \/ Call /\ UNCHANGED exVars
  \/ \E e \in Elts : Construct(e)
  \/ \E m \in Messages : AcceptMessage(m)
  \/ \E c \in {Adder(0), Consumer(0)} : Drive(c)

Spec == Init /\ [][Next]_vars

-----------------------------------------------------------------------------
(***************************************************************************)
(* The experiment comes to quiescence with nothing held back.  The         *)
(* elements compute for themselves whom to send to and in which type: a    *)
(* message is of the type its port takes, in whatever order they come all  *)
(* adders get equally many values at both ports, and when no message is    *)
(* left the adders have paired, and the consumers received, all of them.   *)
(***************************************************************************)
ExchangeComplete ==
  exchanging =>
    /\ \A m \in Messages : net[m] > 0 => m[3] = PortType(m[1], m[2])
    /\ (AtRest /\ constructed = Elts /\ \A m \in Messages : net[m] = 0) =>
         /\ qd = 0
         /\ \A e \in Elts : Len(acted[Consumer(e)]) = NumIters \div 2
==============================================================================
