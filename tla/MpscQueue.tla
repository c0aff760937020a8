------------------------------ MODULE MpscQueue ------------------------------
(***************************************************************************)
(* What ipc_lfq<T, N> (archive/lfq/ipc_lfq.hh) promises its clients: a     *)
(* bounded FIFO queue with many producers and one consumer.  An accepted   *)
(* value takes its place in the queue at some instant of the enqueue call, *)
(* and leaves it at some instant of a dequeue call.  Both calls may also   *)
(* return false, which changes nothing.                                    *)
(***************************************************************************)
EXTENDS Naturals, Sequences

CONSTANTS Values,    \* the values of type T
          Capacity   \* the template parameter N

VARIABLES log,       \* every value ever accepted, in queue order
          out        \* every value ever returned, in the order of the calls

vars == <<log, out>>

Init == log = << >> /\ out = << >>

(* An enqueue that returns true. *)
Enqueue(v) ==
  /\ Len(log) - Len(out) < Capacity
  /\ log' = Append(log, v)
  /\ UNCHANGED out

(* A dequeue that returns true: the oldest value not returned yet. *)
Dequeue ==
  /\ Len(out) < Len(log)
  /\ out' = Append(out, log[Len(out) + 1])
  /\ UNCHANGED log

Next == (\E v \in Values : Enqueue(v)) \/ Dequeue

Spec == Init /\ [][Next]_vars
==============================================================================
