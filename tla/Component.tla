------------------------------ MODULE Component ------------------------------
(***************************************************************************)
(* The dataflow components of the component exchange experiment            *)
(* (archive/tests/comex): component.hh and outbox.hh.  A component         *)
(* collects a value for each of its input ports and acts on complete sets  *)
(* of values; its result goes to the component its outbox is connected     *)
(* to, or waits there.  The components of one element call each other      *)
(* directly, so the state has the stack of the calls that did not return.  *)
(* Exchanger is the program on top.                                        *)
(***************************************************************************)
EXTENDS Integers, Sequences, FiniteSets, SequencesExt

CONSTANTS
  Coms,           \* the components
  NIn,            \* n_inputs of each
  Wire,           \* <<component, port>> that output_to gives it, or <<>> without outputs
  MaxValues,      \* bound: values that arrive at a port from outside
  MaxActivations  \* bound: calls of activate per component

Ports(c) == 0 .. NIn[c] - 1

(* Nothing in the experiment is wired in a circle, and no port twice. *)
ASSUME ComponentAssumption ==
  /\ IsFiniteSet(Coms) /\ NIn \in [Coms -> Nat \ {0}]
  /\ \A c \in Coms : Wire[c] # << >> =>
       /\ Wire[c][1] \in Coms /\ Wire[c][2] \in Ports(Wire[c][1])
       /\ \A d \in Coms \ {c} : Wire[d] # Wire[c]
  /\ \A ring \in (SUBSET Coms) \ {{}} :
       \E c \in ring : Wire[c] = << >> \/ Wire[c][1] \notin ring
  /\ MaxValues \in Nat /\ MaxActivations \in Nat

VARIABLES
  persistent, \* the components that stay active after they acted
  active,     \* the components that are active
  incoming,   \* per component: incoming_, sets of values, the front first
  outbox,     \* per component: buffer_ of its outbox
  connected,  \* the components whose connector is ready
  stack,      \* the calls in progress, the innermost first
  qd,         \* what QdCreate has added less what QdProcess has taken
  arrived,    \* per component and port: the values accepted, in order
  acted,      \* per component: the sets it acted on, in order
  activations \* per component: calls of activate

comVars == <<persistent, active, incoming, outbox, connected, stack, qd,
             arrived, acted, activations>>

(* A value is the set of the arrivals it was computed from. *)
NoValue == {}
ValuesOf(c) == [Ports(c) -> SUBSET (1 .. MaxValues)]

Frame(op, c, port, val, at) == [op |-> op, com |-> c, port |-> port, val |-> val, at |-> at]
AcceptBy(c, port, val) == Frame("accept", c, port, val, 0)
Staged(c, at)   == Frame("staged", c, 0, NoValue, at)
Activating(c)   == Frame("activate", c, 0, NoValue, 0)
Flushing(c)     == Frame("flush", c, 0, NoValue, 0)

ComInit ==
  /\ active = {} /\ connected = {}
  /\ incoming = [c \in Coms |-> << >>] /\ outbox = [c \in Coms |-> << >>]
  /\ stack = << >> /\ qd = 0
  /\ arrived = [c \in Coms |-> [p \in Ports(c) |-> << >>]]
  /\ acted = [c \in Coms |-> << >>]
  /\ activations = [c \in Coms |-> 0]

-----------------------------------------------------------------------------
IsReady(set) == \A p \in DOMAIN set : set[p] # NoValue

(* Faulty: from the front, as find_ready_ does. *)
FindGapFront(c, p) == SelectInSeq(incoming[c], LAMBDA set : set[p] = NoValue)

(* find_gap_: from the back; 0 when there is none. *)
FindGap(c, p) == SelectLastInSeq(incoming[c], LAMBDA set : set[p] = NoValue)

(* find_ready_: from the front; 0 when there is none. *)
FindReady(c) == SelectInSeq(incoming[c], IsReady)

(* The action of an adder or a consumer, whose result is computed from all *)
(* the values.                                                             *)
Action(set) == UNION {set[p] : p \in DOMAIN set}

(***************************************************************************)
(* stage_action on a component that is active: act on the set and unspool  *)
(* the result; what follows is left on the stack above the calls in rest.  *)
(* The set is incoming_[at], or belongs to the caller when at is 0.        *)
(***************************************************************************)
StageAction(c, set, at, rest) ==
  /\ acted' = [acted EXCEPT ![c] = Append(@, set)]
  /\ IF c \in connected
     THEN /\ stack' = <<AcceptBy(Wire[c][1], Wire[c][2], Action(set)), Staged(c, at)>> \o rest
          /\ UNCHANGED outbox
     ELSE /\ stack' = <<Staged(c, at)>> \o rest
          /\ outbox' = IF Wire[c] = << >> THEN outbox
                       ELSE [outbox EXCEPT ![c] = Append(@, Action(set))]

(* accept on a component with one input: direct_stage. *)
DirectStage(f) ==
  LET set == [p \in Ports(f.com) |-> f.val] IN
  IF f.com \in active
  THEN StageAction(f.com, set, 0, Tail(stack)) /\ UNCHANGED <<incoming, qd>>
  ELSE /\ incoming' = [incoming EXCEPT ![f.com] = <<set>> \o @]
       /\ qd' = qd + NIn[f.com]
       /\ stack' = Tail(stack)
       /\ UNCHANGED <<outbox, acted>>

(* accept on a component with several. *)
AcceptInto(f) ==
  LET c == f.com
      gap == FindGap(c, f.port)
      new == [p \in Ports(c) |-> NoValue]
      sets == IF gap = 0 THEN <<new>> \o incoming[c] ELSE incoming[c]
      at == IF gap = 0 THEN 1 ELSE gap
      set == [sets[at] EXCEPT ![f.port] = f.val]
  IN  /\ incoming' = [incoming EXCEPT ![c] = [sets EXCEPT ![at] = set]]
      /\ qd' = qd + 1
      /\ IF gap # 0 /\ IsReady(set) /\ c \in active
         THEN StageAction(c, set, at, Tail(stack))
         ELSE stack' = Tail(stack) /\ UNCHANGED <<outbox, acted>>

Accept ==
  LET f == Head(stack) IN
  /\ stack # << >> /\ f.op = "accept"
  /\ arrived' = [arrived EXCEPT ![f.com][f.port] = Append(@, f.val)]
  /\ IF NIn[f.com] = 1 THEN DirectStage(f) ELSE AcceptInto(f)
  /\ UNCHANGED <<persistent, active, connected, activations>>

(* Faulty: one unit for the set, not one for each of its values. *)
ProcessedOnce(c) == 1

(* QdProcess(n_inputs_) *)
Processed(c) == NIn[c]

(* The rest of stage_action, when the result has been unspooled. *)
FinishStage ==
  LET f == Head(stack) IN
  /\ stack # << >> /\ f.op = "staged"
  /\ active' = IF f.com \in persistent THEN active ELSE active \ {f.com}
  /\ IF f.at = 0 THEN UNCHANGED <<incoming, qd>>
     ELSE /\ incoming' = [incoming EXCEPT ![f.com] = RemoveAt(@, f.at)]
          /\ qd' = qd - Processed(f.com)
  /\ stack' = Tail(stack)
  /\ UNCHANGED <<persistent, outbox, connected, arrived, acted, activations>>

(* Faulty: only one of the sets that are ready is staged. *)
AgainNever(c) == << >>

(* What activate does after a set: look for another. *)
Again(c) == <<Activating(c)>>

(* The loop of activate. *)
ActivateLoop ==
  LET f == Head(stack)  c == f.com  at == FindReady(c) IN
  /\ stack # << >> /\ f.op = "activate"
  /\ IF c \in active /\ at # 0
     THEN StageAction(c, incoming[c][at], at, Again(c) \o Tail(stack))
     ELSE stack' = Tail(stack) /\ UNCHANGED <<outbox, acted>>
  /\ UNCHANGED <<persistent, active, incoming, connected, qd, arrived, activations>>

(* Faulty: the buffer is emptied from the back. *)
TryFlushLast ==
  LET f == Head(stack)  c == f.com IN
  /\ stack # << >> /\ f.op = "flush"
  /\ IF outbox[c] # << >>
     THEN /\ stack' = <<AcceptBy(Wire[c][1], Wire[c][2], Last(outbox[c]))>> \o stack
          /\ outbox' = [outbox EXCEPT ![c] = Front(@)]
     ELSE stack' = Tail(stack) /\ UNCHANGED outbox
  /\ UNCHANGED <<persistent, active, incoming, connected, qd, arrived, acted, activations>>

(* The loop of try_flush; nobody looks at the front while it is relayed. *)
TryFlush ==
  LET f == Head(stack)  c == f.com IN
  /\ stack # << >> /\ f.op = "flush"
  /\ IF outbox[c] # << >>
     THEN /\ stack' = <<AcceptBy(Wire[c][1], Wire[c][2], Head(outbox[c]))>> \o stack
          /\ outbox' = [outbox EXCEPT ![c] = Tail(@)]
     ELSE stack' = Tail(stack) /\ UNCHANGED outbox
  /\ UNCHANGED <<persistent, active, incoming, connected, qd, arrived, acted, activations>>

-----------------------------------------------------------------------------
(* The calls from outside, one at a time. *)

(* A message arrives at a port that no component feeds. *)
Deliver(c, p) ==
  /\ stack = << >>
  /\ \A d \in Coms : Wire[d] # <<c, p>>
  /\ Len(arrived[c][p]) < MaxValues
  /\ stack' = <<AcceptBy(c, p, {Len(arrived[c][p]) + 1})>>
  /\ UNCHANGED <<persistent, active, incoming, outbox, connected, qd, arrived, acted, activations>>

(* activate, on a component that is not: "component already online". *)
Activate(c) ==
  /\ stack = << >> /\ c \notin active /\ activations[c] < MaxActivations
  /\ active' = active \cup {c}
  /\ activations' = [activations EXCEPT ![c] = @ + 1]
  /\ stack' = <<Activating(c)>>
  /\ UNCHANGED <<persistent, incoming, outbox, connected, qd, arrived, acted>>

(* output_to, once for each component. *)
OutputTo(c) ==
  /\ stack = << >> /\ Wire[c] # << >> /\ c \notin connected
  /\ connected' = connected \cup {c}
  /\ stack' = IF c \in active THEN <<Flushing(c)>> ELSE << >>
  /\ UNCHANGED <<persistent, active, incoming, outbox, qd, arrived, acted, activations>>

(* The calls in progress go on. *)
Call == Accept \/ FinishStage \/ ActivateLoop \/ TryFlush

-----------------------------------------------------------------------------
AtRest == stack = << >>
Results(c) == [k \in DOMAIN acted[c] |-> Action(acted[c][k])]
Position(c, p, v) == CHOOSE k \in DOMAIN arrived[c][p] : arrived[c][p][k] = v

(***************************************************************************)
(* The ports stay in step: the values of one set are the k-th arrivals at  *)
(* their ports for the same k, however the ports run ahead of each other   *)
(* and whenever the component is activated.                                *)
(***************************************************************************)
InStep ==
  \A c \in Coms : \A set \in ToSet(incoming[c]) \cup ToSet(acted[c]) :
    \A p, q \in Ports(c) : set[p] # NoValue /\ set[q] # NoValue =>
      Position(c, p, set[p]) = Position(c, q, set[q])

(***************************************************************************)
(* Between calls every value that was accepted is in one set, held or      *)
(* acted on, and every result has reached the peer or is in the outbox;    *)
(* those of a persistent component are in the order they were made.        *)
(***************************************************************************)
NothingLost ==
  AtRest => \A c \in Coms :
    /\ \A p \in Ports(c) :
         Len(arrived[c][p]) = Len(acted[c])
           + Cardinality({k \in DOMAIN incoming[c] : incoming[c][k][p] # NoValue})
    /\ Wire[c] # << >> =>
         LET out == arrived[Wire[c][1]][Wire[c][2]] \o outbox[c]
         IN  /\ Len(out) = Len(acted[c])
             /\ ToSet(out) = ToSet(Results(c))
             /\ c \in persistent => out = Results(c)

(***************************************************************************)
(* Between calls an active component has no set that is ready, and, if it  *)
(* is persistent and connected, nothing in its outbox.  A component that   *)
(* is not persistent acts at most once for each activation.                *)
(***************************************************************************)
NoIdleWork ==
  AtRest => \A c \in Coms :
    /\ c \in active => \A set \in ToSet(incoming[c]) : ~IsReady(set)
    /\ c \in persistent /\ c \in connected => outbox[c] = << >>
    /\ c \notin persistent => Len(acted[c]) <= activations[c]

(* Where a component holds values: the set and the port. *)
HeldBy(c) ==
  {place \in (DOMAIN incoming[c]) \X Ports(c) : incoming[c][place[1]][place[2]] # NoValue}

(***************************************************************************)
(* The experiment ends at quiescence: what the components have reported to *)
(* quiescence detection is the number of values they hold.                 *)
(***************************************************************************)
QdAccurate == AtRest => qd = Cardinality(UNION {{c} \X HeldBy(c) : c \in Coms})
=============================================================================
