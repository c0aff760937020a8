----------------------------- MODULE LfqPrograms -----------------------------
(***************************************************************************)
(* The two programs on a pair of ipc_lfq queues: archive/lfq/tester.cc and *)
(* archive/xpmem-experiments/tester.cc.  program says which one runs.      *)
(***************************************************************************)
EXTENDS LfqTester, XpmemTester

CONSTANT Programs   \* the programs to run: "lfq", "xpmem"

ASSUME ProgramsAssumption == Programs \subseteq {"lfq", "xpmem"}

VARIABLE program

vars == <<program, segVars, testerVars, xpmemVars>>

TypeOK ==
  /\ program \in Programs
  /\ pc \in [Procs -> {"open", "truncate", "construct", "send", "receive", "close",
                       "main", "store", "post", "idle", "poll", "read", "write", "reply",
                       "done", "failed", "fault"}]
  /\ SegTypeOK /\ TesterTypeOK /\ XpmemTypeOK

Init == program \in Programs /\ SegInit /\ TesterInit /\ XpmemInit

Proc(p) ==
  \/ program = "lfq" /\ TesterProc(p) /\ UNCHANGED <<program, xpmemVars>>
  \/ program = "xpmem" /\ XpmemProc(p) /\ UNCHANGED <<program, testerVars>>

(* Both have exited. *)
Exited ==
  /\ \A p \in Procs : pc[p] \in {"done", "failed", "fault"}
  /\ UNCHANGED vars

Next == (\E p \in Procs : Proc(p)) \/ Exited

Spec == Init /\ [][Next]_vars

-----------------------------------------------------------------------------
(* The messages of the xpmem program in the queues, and those taken out of *)
(* them whose number is still to be read.                                  *)
Unread(p) ==
  {queue[SendQueue(p)][k] : k \in DOMAIN queue[SendQueue(p)]}
    \cup {taken[q] : q \in {q \in Procs : q = Other(p) /\ pc[q] = "read"}}

(* A process is about to read or to write a number, or to send it. *)
AtNumber(p) == pc[p] \in {"store", "post", "read", "write", "reply"}

(***************************************************************************)
(* A message is a pointer.  From the time it is sent until its receiver,   *)
(* which has taken it out of the queue by then, reads the number, the      *)
(* sender does not write there: it points to the number it was sent for,   *)
(* which is the count of the numbers read before.  This rests on the two   *)
(* taking turns: a message is in a queue or one process is at a number,    *)
(* never two of these at a time, and it is the right process's turn.       *)
(***************************************************************************)
DataAwaitsReader ==
  program = "xpmem" =>
    /\ \A p \in Procs : \A m \in Unread(p) :
         m = <<p, data[p]>> /\ data[p] = received /\ received % 2 = p
    /\ ~(AtNumber(0) /\ AtNumber(1))
    /\ Len(queue[0]) + Len(queue[1]) <= 1
    /\ (\E p \in Procs : AtNumber(p)) => \A q \in Procs : queue[q] = << >>

Waits(p) == IF program = "lfq" THEN TesterWaits(p) ELSE XpmemWaits(p)

(* There is a step p can take by itself. *)
Works(p) ==
  /\ pc[p] \notin {"done", "failed", "fault"} /\ ~Waits(p)
  /\ pc[p] = "idle" => p \in invoked \/ (p = 1 /\ creating)

(***************************************************************************)
(* When the queues are opened one process after the other, nobody is left  *)
(* waiting: a process that polls an empty queue, or retries to enqueue to  *)
(* a full one, has a partner that neither does the same nor has exited.    *)
(* When both have exited the queues are empty, and the xpmem program has   *)
(* passed on all its numbers.                                              *)
(***************************************************************************)
NobodyLeftWaiting ==
  serial =>
    /\ \A p \in Procs : Waits(p) => Works(Other(p))
    /\ (\A p \in Procs : pc[p] = "done") =>
         /\ \A p \in Procs : queue[p] = << >>
         /\ program = "xpmem" => received = NumMsgs
==============================================================================
