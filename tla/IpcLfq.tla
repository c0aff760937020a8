------------------------------- MODULE IpcLfq -------------------------------
(***************************************************************************)
(* The shared-memory queue ipc_lfq<T, N> of archive/lfq/ipc_lfq.hh: any    *)
(* number of producers, one consumer, every access to shared memory a step *)
(* of its own.  The plain (non-atomic) accesses to a node are made under   *)
(* the node's spin lock and are one step here; that they exclude each      *)
(* other is checked (MutualExclusion).                                     *)
(***************************************************************************)
EXTENDS Naturals, Sequences, FiniteSets

CONSTANTS Producers,    \* processes that call enqueue
          Values,       \* the values of type T
          N,            \* the template parameter N, the number of nodes
          SizeMod,      \* std::size_t counts modulo SizeMod (2^64 or 2^32)
          MaxEnqueues   \* bound: places taken in the queue in a behaviour

ASSUME QueueAssumption ==
  /\ N \in Nat \ {0}
  /\ SizeMod \in Nat \ {0}
  /\ MaxEnqueues \in Nat
  /\ IsFiniteSet(Producers)
  /\ Values # {}

VARIABLES
  head, count, tail,         \* the three shared counters
  lock, has_value, value,    \* the nodes, by slot
  pc, arg, slot, set_value,  \* per producer: where it is in enqueue, locals
  cpc, ret, result,          \* the consumer: where it is in dequeue, locals
  ticket, log, out           \* history: the place a producer took (from 0),
                             \* the values by place, the values returned

shared == <<head, count, tail, lock, has_value, value>>
producer == <<pc, arg, slot, set_value, ticket, log>>
consumer == <<cpc, ret, result, out>>
vars == <<shared, producer, consumer>>

Slots == 0 .. N - 1

TypeOK ==
  /\ head \in Nat /\ count \in Nat /\ tail \in Slots
  /\ lock \in [Slots -> BOOLEAN]
  /\ has_value \in [Slots -> BOOLEAN]
  /\ value \in [Slots -> Values]
  /\ pc \in [Producers -> {"idle", "undo", "claim", "spin", "write", "release"}]
  /\ arg \in [Producers -> Values]
  /\ slot \in [Producers -> Slots]
  /\ set_value \in [Producers -> BOOLEAN]
  /\ ticket \in [Producers -> Nat]
  /\ cpc \in {"idle", "spin", "read", "release", "advance"}
  /\ ret \in BOOLEAN /\ result \in Values
  /\ log \in Seq(Values) /\ out \in Seq(Values)

(***************************************************************************)
(* The constructor, run by the process that created the segment (open is   *)
(* modelled in LfqTester).  A node's value, and the callers' locals, start *)
(* out as anything; one fixed value stands for it, because no step reads   *)
(* them before they are written.                                           *)
(***************************************************************************)
Arbitrary == CHOOSE v \in Values : TRUE

Init ==
  /\ head = 0 /\ count = 0 /\ tail = 0
  /\ lock = [s \in Slots |-> FALSE]
  /\ has_value = [s \in Slots |-> FALSE]
  /\ value = [s \in Slots |-> Arbitrary]
  /\ arg = [p \in Producers |-> Arbitrary] /\ result = Arbitrary
  /\ pc = [p \in Producers |-> "idle"]
  /\ slot = [p \in Producers |-> 0]
  /\ set_value = [p \in Producers |-> FALSE]
  /\ ticket = [p \in Producers |-> 0]
  /\ cpc = "idle" /\ ret = FALSE
  /\ log = << >> /\ out = << >>

-----------------------------------------------------------------------------
(* Faulty: the lock is taken without looking at what was there. *)
AcquireBlind(s) == lock' = [lock EXCEPT ![s] = TRUE]

(* node::acquire: an atomic exchange that found the lock free. *)
Acquire(s) == ~lock[s] /\ lock' = [lock EXCEPT ![s] = TRUE]

(* Faulty: release inside an assert that is compiled out (NDEBUG). *)
ReleaseCompiledOut(s) == lock' = lock

(* node::release: an atomic exchange; what it returns is what it found. *)
Release(s) == lock' = [lock EXCEPT ![s] = FALSE]

(* Faulty: full only when count passes N. *)
FullLate(size) == size > N

Full(size) == size >= N

(* enqueue(v), lines 53 and 54: count.fetch_add, and the full test. *)
EnqueueReserve(p, v) ==
  /\ pc[p] = "idle"
  /\ Len(log) < MaxEnqueues
  /\ count' = count + 1
  /\ arg' = [arg EXCEPT ![p] = v]
  /\ pc' = [pc EXCEPT ![p] = IF Full(count) THEN "undo" ELSE "claim"]
  /\ UNCHANGED <<head, tail, lock, has_value, value, slot, set_value,
                 ticket, log, consumer>>

(* The queue was full: count.fetch_sub, return false. *)
EnqueueFail(p) ==
  /\ pc[p] = "undo"
  /\ count' = count - 1
  /\ pc' = [pc EXCEPT ![p] = "idle"]
  /\ UNCHANGED <<head, tail, lock, has_value, value, arg, slot, set_value,
                 ticket, log, consumer>>

(* Faulty: the slot is taken from the incremented head. *)
SlotPreIncrement(h) == (h + 1) % N

SlotOf(h) == h % N

(* head.fetch_add % N: the producer takes the next place. *)
EnqueueClaim(p) ==
  /\ pc[p] = "claim"
  /\ head' = (head + 1) % SizeMod
  /\ slot' = [slot EXCEPT ![p] = SlotOf(head)]
  /\ ticket' = [ticket EXCEPT ![p] = Len(log)]
  /\ log' = Append(log, arg[p])
  /\ pc' = [pc EXCEPT ![p] = "spin"]
  /\ UNCHANGED <<count, tail, lock, has_value, value, arg, set_value, consumer>>

(* The acquire of the spin loop that succeeds. *)
EnqueueAcquire(p) ==
  /\ pc[p] = "spin"
  /\ Acquire(slot[p])
  /\ pc' = [pc EXCEPT ![p] = "write"]
  /\ UNCHANGED <<head, count, tail, has_value, value, arg, slot, set_value,
                 ticket, log, consumer>>

(* std::swap(node.has_value, set_value) with set_value true, and memcpy. *)
EnqueueWrite(p) ==
  /\ pc[p] = "write"
  /\ set_value' = [set_value EXCEPT ![p] = has_value[slot[p]]]
  /\ has_value' = [has_value EXCEPT ![slot[p]] = TRUE]
  /\ value' = [value EXCEPT ![slot[p]] = arg[p]]
  /\ pc' = [pc EXCEPT ![p] = "release"]
  /\ UNCHANGED <<head, count, tail, lock, arg, slot, ticket, log, consumer>>

(* assert(!set_value && node.release()); return true. *)
EnqueueRelease(p) ==
  /\ pc[p] = "release"
  /\ ~set_value[p]
  /\ Release(slot[p])
  /\ pc' = [pc EXCEPT ![p] = "idle"]
  /\ UNCHANGED <<head, count, tail, has_value, value, arg, slot, set_value,
                 ticket, log, consumer>>

-----------------------------------------------------------------------------
(* The consumer calls dequeue, which reads tail and starts to spin. *)
DequeueCall ==
  /\ cpc = "idle"
  /\ cpc' = "spin"
  /\ UNCHANGED <<shared, producer, ret, result, out>>

DequeueAcquire ==
  /\ cpc = "spin"
  /\ Acquire(tail)
  /\ cpc' = "read"
  /\ UNCHANGED <<head, count, tail, has_value, value, producer,
                 ret, result, out>>

(* Faulty: has_value stays set. *)
DequeueReadKeeps ==
  /\ cpc = "read"
  /\ ret' = has_value[tail]
  /\ result' = IF has_value[tail] THEN value[tail] ELSE result
  /\ cpc' = "release"
  /\ UNCHANGED <<shared, producer, out>>

(* Under the lock: copy the value out, if there is one. *)
DequeueRead ==
  /\ cpc = "read"
  /\ ret' = has_value[tail]
  /\ result' = IF has_value[tail] THEN value[tail] ELSE result
  /\ has_value' = [has_value EXCEPT ![tail] = FALSE]
  /\ cpc' = "release"
  /\ UNCHANGED <<head, count, tail, lock, value, producer, out>>

(* assert(node->release()); return false if the node was empty. *)
DequeueRelease ==
  /\ cpc = "release"
  /\ Release(tail)
  /\ cpc' = IF ret THEN "advance" ELSE "idle"
  /\ UNCHANGED <<head, count, tail, has_value, value, producer,
                 ret, result, out>>

(* Faulty: tail wraps one slot late. *)
NextTailLate(t) == IF t + 1 > N THEN 0 ELSE t + 1

NextTail(t) == IF t + 1 >= N THEN 0 ELSE t + 1

(***************************************************************************)
(* ++tail with its wrap, count.fetch_sub, return true.  tail belongs to    *)
(* the consumer alone, so its update joins the atomic step on count.       *)
(***************************************************************************)
DequeueAdvance ==
  /\ cpc = "advance"
  /\ tail' = NextTail(tail)
  /\ count > 0
  /\ count' = count - 1
  /\ out' = Append(out, result)
  /\ cpc' = "idle"
  /\ UNCHANGED <<head, lock, has_value, value, producer, ret, result>>

-----------------------------------------------------------------------------
(* The rest of an enqueue call once it has started. *)
Enqueue(p) ==
  \/ EnqueueFail(p) \/ EnqueueClaim(p) \/ EnqueueAcquire(p)
  \/ EnqueueWrite(p) \/ EnqueueRelease(p)

(* The rest of a dequeue call once it has started. *)
Dequeue == DequeueAcquire \/ DequeueRead \/ DequeueRelease \/ DequeueAdvance

Next ==
  \/ \E p \in Producers : (\E v \in Values : EnqueueReserve(p, v)) \/ Enqueue(p)
  \/ DequeueCall
  \/ Dequeue

Spec == Init /\ [][Next]_vars

(***************************************************************************)
(* A process inside a call keeps executing.  The exchange in acquire gives *)
(* no turn to a waiting process, so fairness is weak for it too.           *)
(***************************************************************************)
FairSpec == Spec /\ (\A p \in Producers : WF_vars(Enqueue(p))) /\ WF_vars(Dequeue)

-----------------------------------------------------------------------------
Holders(s) ==
  {p \in Producers : pc[p] \in {"write", "release"} /\ slot[p] = s}

(***************************************************************************)
(* acquire/release: a node's has_value and value are touched by one        *)
(* process at a time, and a lock that is taken has an owner that will      *)
(* release it.                                                             *)
(***************************************************************************)
MutualExclusion ==
  \A s \in Slots :
    LET c == cpc \in {"read", "release"} /\ tail = s
    IN  /\ \A p, q \in Holders(s) : p = q
        /\ c => Holders(s) = {}
        /\ lock[s] <=> c \/ Holders(s) # {}

(***************************************************************************)
(* The assertions of lines 65, 78 and 82: a producer never finds a value   *)
(* in the node its place led it to, release finds the lock taken, and the  *)
(* consumer finds count positive.                                          *)
(***************************************************************************)
AssertionsHold ==
  /\ \A p \in Producers : pc[p] = "release" => ~set_value[p] /\ lock[slot[p]]
  /\ cpc = "release" => lock[tail]
  /\ cpc = "advance" => count > 0

Reserved == {p \in Producers : pc[p] = "claim"}
Undoing  == {p \in Producers : pc[p] = "undo"}

(***************************************************************************)
(* count, changed by fetch_add and fetch_sub in no fixed order, is the     *)
(* number of values in the queue plus those on their way in or being       *)
(* turned away, and places are promised only as far as there are nodes.    *)
(***************************************************************************)
CountAccurate ==
  /\ Len(out) <= Len(log)
  /\ count = (Len(log) - Len(out)) + Cardinality(Reserved) + Cardinality(Undoing)
  /\ (Len(log) - Len(out)) + Cardinality(Reserved) <= N

(* dequeue returns the values in the order in which places were taken. *)
Fifo == Len(out) <= Len(log) /\ \A i \in 1 .. Len(out) : out[i] = log[i]

(***************************************************************************)
(* No value is lost or duplicated: when nobody is inside enqueue, and the  *)
(* consumer is outside dequeue, the nodes hold exactly the values accepted *)
(* and not returned, in order from tail.                                   *)
(***************************************************************************)
NodesHoldQueue ==
  (cpc = "idle" /\ \A p \in Producers : pc[p] = "idle") =>
    \A i \in Slots :
      LET s == (tail + i) % N
      IN  IF i < Len(log) - Len(out)
          THEN has_value[s] /\ value[s] = log[Len(out) + i + 1]
          ELSE ~has_value[s]

-----------------------------------------------------------------------------
(***************************************************************************)
(* The inductive invariant.  A producer from spin to release has a place;  *)
(* the places between what was returned and what was taken form a window   *)
(* no wider than N, so that two of them never share a node.                *)
(***************************************************************************)
HasPlace(p) == pc[p] \in {"spin", "write", "release"}
Window == Len(out) .. Len(log) - 1
Unwritten(t) ==
  \E p \in Producers : pc[p] \in {"spin", "write"} /\ ticket[p] = t
Taken == cpc \in {"release", "advance"} /\ ret

(* The counters, and the producers' locals, agree with the places taken. *)
PlaceInv ==
  /\ head = Len(log) % SizeMod /\ tail = Len(out) % N
  /\ \A p \in Producers : HasPlace(p) =>
       /\ ticket[p] \in Window
       /\ slot[p] = ticket[p] % N
       /\ arg[p] = log[ticket[p] + 1]
       /\ Taken => ticket[p] # Len(out)
  /\ \A p, q \in Producers :
       HasPlace(p) /\ HasPlace(q) /\ ticket[p] = ticket[q] => p = q

(* A node has a value exactly when its place is written and not read. *)
NodeInv ==
  /\ \A t \in Window :
       IF Unwritten(t) \/ (Taken /\ t = Len(out))
       THEN ~has_value[t % N]
       ELSE has_value[t % N] /\ value[t % N] = log[t + 1]
  /\ \A s \in Slots : has_value[s] => \E t \in Window : t % N = s

(* What the consumer carries from the node to its caller. *)
ConsumerInv ==
  /\ cpc = "advance" => ret
  /\ Taken => Len(out) < Len(log) /\ result = log[Len(out) + 1]

CleanWrite == \A p \in Producers : pc[p] = "release" => ~set_value[p]

IInv ==
  /\ TypeOK /\ MutualExclusion /\ CountAccurate /\ Fifo
  /\ PlaceInv /\ NodeInv /\ ConsumerInv /\ CleanWrite

-----------------------------------------------------------------------------
Abstract == INSTANCE MpscQueue WITH Capacity <- N

(***************************************************************************)
(* The queue behaves as the abstract one: a value enters at head.fetch_add *)
(* and leaves when dequeue returns true.                                   *)
(***************************************************************************)
ImplementsQueue == Abstract!Spec

(***************************************************************************)
(* dequeue always returns: whoever holds the tail node lets go of it, and  *)
(* no other producer is led to that node before the consumer moves on.     *)
(***************************************************************************)
DequeueReturns == cpc # "idle" ~> cpc = "idle"
=============================================================================
