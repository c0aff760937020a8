----------------------------- MODULE LfqSegments -----------------------------
(***************************************************************************)
(* ipc_lfq::open and ipc_lfq::close (archive/lfq/ipc_lfq.hh): how two      *)
(* processes come to share two queues.  Both open queue 0, then queue 1.   *)
(* A queue is used as MpscQueue says (IpcLfq implements it): enqueue and   *)
(* dequeue are one step each, and a loop that retries a call that returned *)
(* false waits for its success.  Nothing is said of how long: an enqueue   *)
(* may spin for the lock of a node without end, so no step here is fair.   *)
(* LfqTester and XpmemTester are the programs on top.                      *)
(***************************************************************************)
EXTENDS Naturals, Sequences

CONSTANTS NumMsgs,     \* the number of messages of the programs
          Capacity,    \* the template parameter N, which both set to NumMsgs
          Leftovers    \* contents an earlier, aborted run may have left in a
                       \* segment; << >> also stands for no segment at all

ASSUME SegmentsAssumption ==
  /\ NumMsgs \in Nat \ {0} /\ Capacity \in Nat \ {0}
  /\ << >> \in Leftovers /\ Leftovers \subseteq Seq(Nat \X Nat)

Procs == {0, 1}
Other(p) == 1 - p

VARIABLES
  serial,   \* how they are started: process 1 once process 0 has opened
  seg,      \* per queue: "absent", "created" (size 0), "sized" or "ready"
  queue,    \* per queue: its contents, pairs of numbers
  pc,       \* per process
  opening   \* per process: the queue it is opening

segVars == <<serial, seg, queue, pc, opening>>

SegTypeOK ==
  /\ serial \in BOOLEAN
  /\ seg \in [Procs -> {"absent", "created", "sized", "ready"}]
  /\ queue \in [Procs -> Seq(Nat \X Nat)]
  /\ \A q \in Procs : Len(queue[q]) <= Capacity
  /\ opening \in [Procs -> Procs]

SegInit ==
  /\ serial \in BOOLEAN
  /\ queue \in [Procs -> Leftovers]
  /\ seg = [q \in Procs |-> IF queue[q] = << >> THEN "absent" ELSE "ready"]
  /\ pc = [p \in Procs |-> "open"]
  /\ opening = [p \in Procs |-> 0]

-----------------------------------------------------------------------------
(* open returned: on to the other queue, or to the rest of the program. *)
Opened(p, start) ==
  /\ opening' = [opening EXCEPT ![p] = 1]
  /\ pc' = [pc EXCEPT ![p] = IF opening[p] = 0 THEN "open" ELSE start]

MayStart(p) ==
  serial /\ p = 1 => pc[0] \notin {"open", "truncate", "construct"}

(* Faulty: shm_open without O_EXCL, every process is the creator. *)
ShmOpenShared(p, start) ==
  /\ pc[p] = "open" /\ MayStart(p)
  /\ seg' = [seg EXCEPT ![opening[p]] = "created"]
  /\ pc' = [pc EXCEPT ![p] = "truncate"]
  /\ UNCHANGED <<serial, queue, opening>>

(***************************************************************************)
(* shm_open with O_EXCL creates the segment, or fails because it exists,   *)
(* and then it is opened and mapped as it is.                              *)
(***************************************************************************)
ShmOpen(p, start) ==
  /\ pc[p] = "open" /\ MayStart(p)
  /\ \/ /\ seg[opening[p]] = "absent"
        /\ seg' = [seg EXCEPT ![opening[p]] = "created"]
        /\ pc' = [pc EXCEPT ![p] = "truncate"]
        /\ UNCHANGED opening
     \/ /\ seg[opening[p]] # "absent"
        /\ Opened(p, start)
        /\ UNCHANGED seg
  /\ UNCHANGED <<serial, queue>>

(* ftruncate: the segment gets its size, all zero, which is an empty queue. *)
Truncate(p) ==
  /\ pc[p] = "truncate"
  /\ seg' = [seg EXCEPT ![opening[p]] = "sized"]
  /\ pc' = [pc EXCEPT ![p] = "construct"]
  /\ UNCHANGED <<serial, queue, opening>>

(* new (res) ipc_lfq<T, N>(fd), whatever the queue holds by now. *)
Construct(p, start) ==
  /\ pc[p] = "construct"
  /\ seg' = [seg EXCEPT ![opening[p]] = "ready"]
  /\ queue' = [queue EXCEPT ![opening[p]] = << >>]
  /\ Opened(p, start)
  /\ UNCHANGED serial

Open(p, start) == ShmOpen(p, start) \/ Truncate(p) \/ Construct(p, start)

(* enqueue or dequeue on a mapped segment of size 0: a bus error. *)
Fault(p, q) ==
  /\ seg[q] = "created"
  /\ pc' = [pc EXCEPT ![p] = "fault"]
  /\ UNCHANGED <<serial, seg, queue, opening>>

(***************************************************************************)
(* close of both queues: the mapping goes, and shm_unlink removes the      *)
(* name; the other process keeps its mapping.                              *)
(***************************************************************************)
Close(p) ==
  /\ seg' = [q \in Procs |-> "absent"]
  /\ pc' = [pc EXCEPT ![p] = "done"]
  /\ UNCHANGED <<serial, queue, opening>>

-----------------------------------------------------------------------------
(***************************************************************************)
(* O_EXCL: whatever the order of the two opens, a queue is sized and       *)
(* constructed by one process, and only once.                              *)
(***************************************************************************)
OneCreator ==
  \A q \in Procs :
    LET creating == {p \in Procs : pc[p] \in {"truncate", "construct"}
                                  /\ opening[p] = q}
    IN  /\ creating # Procs
        /\ seg[q] = "ready" => creating = {}
==============================================================================
