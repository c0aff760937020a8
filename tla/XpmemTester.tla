----------------------------- MODULE XpmemTester -----------------------------
(***************************************************************************)
(* archive/xpmem-experiments/tester.cc: two processes pass a counter back  *)
(* and forth.  A message is a pointer to the sender's data, which the      *)
(* receiver maps and reads where it is, when the message has left the      *)
(* queue.  Every access to a queue or to data is a step.  Queue 0 is       *)
(* charmxx_send_queue, which process 0 fills and process 1 empties, queue  *)
(* 1 is charmxx_recv_queue.                                                *)
(***************************************************************************)
EXTENDS LfqSegments

VARIABLES
  data,       \* per process: what its pointer data points to
  taken,      \* per process: msg, the last message it dequeued: its sender
              \* and, as history, the number it was sent for
  recvd,      \* per process: recvd, the last number it read
  creating,   \* the message that creates neighbor on process 1 is in flight
  invoked,    \* the processes pseudo_scheduler was invoked on
  received    \* history: how many numbers were read

xpmemVars == <<data, taken, recvd, creating, invoked, received>>

XpmemTypeOK ==
  /\ data \in [Procs -> 0 .. NumMsgs]
  /\ taken \in [Procs -> Procs \X Nat] /\ recvd \in [Procs -> 0 .. NumMsgs]
  /\ creating \in BOOLEAN /\ invoked \subseteq Procs
  /\ received \in 0 .. NumMsgs

(* new int is not initialised: a number that is a number of a message, or not. *)
XpmemInit ==
  /\ data \in [Procs -> {0, NumMsgs}]
  /\ taken = [p \in Procs |-> <<p, 0>>] /\ recvd = [p \in Procs |-> 0]
  /\ creating = FALSE /\ invoked = {} /\ received = 0

(* The queue process p sends to, and the one it receives from. *)
SendQueue(p) == p
RecvQueue(p) == Other(p)

-----------------------------------------------------------------------------
(* The constructor of main: create neighbor ... *)
Main ==
  /\ pc[0] = "main"
  /\ creating' = TRUE
  /\ pc' = [pc EXCEPT ![0] = "store"]
  /\ UNCHANGED <<serial, seg, queue, opening, data, taken, recvd, invoked, received>>

(* ... and *(this->data) = 0x0, the number of the first message. *)
StoreFirst ==
  /\ pc[0] = "store"
  /\ data' = [data EXCEPT ![0] = 0]
  /\ pc' = [pc EXCEPT ![0] = "post"]
  /\ UNCHANGED <<serial, seg, queue, opening, taken, recvd, creating, invoked, received>>

(* The constructor of neighbor: "kick off the schedulers". *)
Neighbor ==
  /\ pc[1] = "idle" /\ creating
  /\ creating' = FALSE
  /\ invoked' = Procs
  /\ UNCHANGED <<segVars, data, taken, recvd, received>>

PseudoScheduler(p) ==
  /\ pc[p] = "idle" /\ p \in invoked
  /\ invoked' = invoked \ {p}
  /\ pc' = [pc EXCEPT ![p] = "poll"]
  /\ UNCHANGED <<serial, seg, queue, opening, data, taken, recvd, creating, received>>

(* Faulty: the message is answered before its number is read. *)
TakeMsgAnswers(p) ==
  LET q == RecvQueue(p) IN
  /\ pc[p] = "poll" /\ queue[q] # << >>
  /\ taken' = [taken EXCEPT ![p] = Head(queue[q])]
  /\ queue' = [queue EXCEPT ![q] = Tail(@), ![SendQueue(p)] = Append(@, <<p, data[p]>>)]
  /\ pc' = [pc EXCEPT ![p] = "read"]
  /\ UNCHANGED <<serial, seg, opening, data, recvd, creating, invoked, received>>

(***************************************************************************)
(* while (!queue->dequeue(&msg)); the call that returns true.  Nobody      *)
(* polls before neighbor exists, and by then both have opened.             *)
(***************************************************************************)
TakeMsg(p) ==
  LET q == RecvQueue(p) IN
  /\ pc[p] = "poll" /\ queue[q] # << >>
  /\ taken' = [taken EXCEPT ![p] = Head(queue[q])]
  /\ queue' = [queue EXCEPT ![q] = Tail(@)]
  /\ pc' = [pc EXCEPT ![p] = "read"]
  /\ UNCHANGED <<serial, seg, opening, data, recvd, creating, invoked, received>>

(* The last number is not passed on. *)
Last(n) == n >= NumMsgs - 1

(* recv_msg: recvd is read from the memory of the sender. *)
ReadNumber(p) ==
  LET n == data[taken[p][1]] IN
  /\ pc[p] = "read"
  /\ recvd' = [recvd EXCEPT ![p] = n]
  /\ received' = received + 1
  /\ pc' = [pc EXCEPT ![p] = IF Last(n) THEN "idle" ELSE "write"]
  /\ UNCHANGED <<serial, seg, queue, opening, data, taken, creating, invoked>>

(* *(this->data) = recvd + 1 *)
WriteNumber(p) ==
  /\ pc[p] = "write"
  /\ data' = [data EXCEPT ![p] = recvd[p] + 1]
  /\ pc' = [pc EXCEPT ![p] = "reply"]
  /\ UNCHANGED <<serial, seg, queue, opening, taken, recvd, creating, invoked, received>>

(* Faulty: the process that gets the last message but one goes on. *)
GoesOnLate(n) == n < NumMsgs - 1

(* "we continue while there are messages to send/receive" *)
GoesOn(n) == n < NumMsgs - 2

(***************************************************************************)
(* send_msg, called by main or by recv_msg, which goes back to the loop of *)
(* pseudo_scheduler.  What enqueue returns is ignored: a full queue loses  *)
(* the message.                                                            *)
(***************************************************************************)
SendMsg(p) ==
  LET q == SendQueue(p) IN
  /\ pc[p] \in {"post", "reply"} /\ seg[q] # "created"
  /\ queue' = IF Len(queue[q]) < Capacity
              THEN [queue EXCEPT ![q] = Append(@, <<p, data[p]>>)] ELSE queue
  /\ pc' = [pc EXCEPT ![p] =
              IF pc[p] = "reply" /\ GoesOn(recvd[p]) THEN "poll" ELSE "idle"]
  /\ UNCHANGED <<serial, seg, opening, xpmemVars>>

(***************************************************************************)
(* CkExitAfterQuiescence: no invocation is in flight and no entry method   *)
(* runs.  Then exit_handler on process 0 closes the queues; process 1      *)
(* leaves them to it.                                                      *)
(***************************************************************************)
ExitAfterQuiescence(p) ==
  /\ \A r \in Procs : pc[r] \in {"idle", "done"}
  /\ ~creating /\ invoked = {}
  /\ pc[p] = "idle"
  /\ IF p = 0 THEN Close(p)
     ELSE pc' = [pc EXCEPT ![p] = "done"] /\ UNCHANGED <<serial, seg, queue, opening>>
  /\ UNCHANGED xpmemVars

XpmemProc(p) ==
  \/ Open(p, IF p = 0 THEN "main" ELSE "idle") /\ UNCHANGED xpmemVars
  \/ p = 0 /\ (Main \/ StoreFirst)
  \/ p = 1 /\ Neighbor
  \/ PseudoScheduler(p) \/ TakeMsg(p) \/ ReadNumber(p) \/ WriteNumber(p) \/ SendMsg(p)
  \/ pc[p] \in {"post", "reply"} /\ Fault(p, SendQueue(p)) /\ UNCHANGED xpmemVars
  \/ ExitAfterQuiescence(p)

(* The loop around dequeue goes round until the other process enqueues. *)
XpmemWaits(p) == pc[p] = "poll" /\ queue[RecvQueue(p)] = << >>
==============================================================================
