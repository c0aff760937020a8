------------------------------ MODULE LfqTester ------------------------------
(***************************************************************************)
(* archive/lfq/tester.cc: two processes, each with a queue of its own that *)
(* the other fills.                                                        *)
(***************************************************************************)
EXTENDS LfqSegments

VARIABLES it, i     \* per process: the loop counters (i: of the inner loops)

testerVars == <<it, i>>

TesterTypeOK == it \in [Procs -> 0 .. NumMsgs] /\ i \in [Procs -> 1 .. NumMsgs]

TesterInit == it = [p \in Procs |-> 0] /\ i = [p \in Procs |-> 1]

-----------------------------------------------------------------------------
(* Faulty: the loop ends one message early. *)
StepEarly(p, next) ==
  /\ i' = [i EXCEPT ![p] = IF @ < NumMsgs THEN @ + 1 ELSE 1]
  /\ pc' = [pc EXCEPT ![p] = IF i[p] + 1 < NumMsgs THEN @ ELSE next]

(* The end of an inner loop: i starts again at 1. *)
Step(p, next) ==
  /\ i' = [i EXCEPT ![p] = IF @ < NumMsgs THEN @ + 1 ELSE 1]
  /\ pc' = [pc EXCEPT ![p] = IF i[p] < NumMsgs THEN @ ELSE next]

(* while (!theirs->enqueue(i)); the call that returns true. *)
Send(p) ==
  LET q == Other(p) IN
  /\ pc[p] = "send" /\ seg[q] # "created"
  /\ Len(queue[q]) < Capacity
  /\ queue' = [queue EXCEPT ![q] = Append(@, <<it[p], i[p]>>)]
  /\ Step(p, "receive")
  /\ UNCHANGED <<serial, seg, opening, it>>

(* Faulty: the outer loop does not count. *)
SameIteration(k) == k

(* The iteration after the messages of this one: it++, it < num_msgs_. *)
NextIteration(k) == k + 1

(* while (!mine->dequeue(&j)); then i != j is an assertion failure. *)
Receive(p) ==
  /\ pc[p] = "receive" /\ seg[p] # "created"
  /\ queue[p] # << >>
  /\ queue' = [queue EXCEPT ![p] = Tail(@)]
  /\ IF Head(queue[p])[2] = i[p]
     THEN /\ Step(p, IF NextIteration(it[p]) < NumMsgs THEN "send" ELSE "close")
          /\ it' = [it EXCEPT ![p] = IF i[p] < NumMsgs THEN @ ELSE NextIteration(@)]
     ELSE pc' = [pc EXCEPT ![p] = "failed"] /\ UNCHANGED <<i, it>>
  /\ UNCHANGED <<serial, seg, opening>>

TesterProc(p) ==
  \/ Open(p, "send") /\ UNCHANGED testerVars
  \/ Send(p) \/ Receive(p)
  \/ pc[p] = "send" /\ Fault(p, Other(p)) /\ UNCHANGED testerVars
  \/ pc[p] = "receive" /\ Fault(p, p) /\ UNCHANGED testerVars
  \/ pc[p] = "close" /\ Close(p) /\ UNCHANGED testerVars

(* The loops go round until the other process dequeues, or enqueues. *)
TesterWaits(p) ==
  \/ pc[p] = "send" /\ Len(queue[Other(p)]) >= Capacity
  \/ pc[p] = "receive" /\ queue[p] = << >>

-----------------------------------------------------------------------------
(* The tester's assertion: the messages arrive as 1, 2, ..., num_msgs_. *)
ReceivesInOrder == \A p \in Procs : pc[p] # "failed"

(***************************************************************************)
(* When process 1 starts after process 0 has opened, the test cannot       *)
(* confuse iterations: the next message to be received is of the           *)
(* receiver's iteration, and a process is at most one iteration ahead of   *)
(* the other, although it sends before it receives.                        *)
(***************************************************************************)
IterationsAligned ==
  serial =>
    /\ \A p \in Procs : pc[p] = "receive" /\ queue[p] # << >> =>
                          Head(queue[p]) = <<it[p], i[p]>>
    /\ it[0] <= it[1] + 1 /\ it[1] <= it[0] + 1
==============================================================================
