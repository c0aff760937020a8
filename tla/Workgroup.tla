------------------------------ MODULE Workgroup ------------------------------
(***************************************************************************)
(* The tasks of a hypercomm workgroup (archive/path2.0, workgroup.hpp)     *)
(* running the relaxation example (examples/relaxation/pgm.cpp).  A task   *)
(* lives on every element of a chare array; it names the continuation it   *)
(* waits for, and messages for another continuation wait in a buffer.  An  *)
(* entry method is one step, but each turn of try_continue_ is a step of   *)
(* its own, with the element busy until it returns.                        *)
(***************************************************************************)
EXTENDS Integers, Sequences, FiniteSets, SequencesExt

CONSTANTS
  N,          \* n, the number of elements (nWorkers)
  NTasks,     \* how often main calls launch: once in the example
  MaxIters,   \* maxIters
  Tolerance,  \* tolerance, a multiple of some unit
  InitialIt   \* what the uninitialised member it can hold at first

ASSUME WorkgroupAssumption ==
  /\ N \in Nat \ {0} /\ NTasks \in {1, 2}
  /\ MaxIters \in Nat /\ Tolerance \in Nat
  /\ InitialIt \subseteq Int /\ InitialIt # {}

Elems == 0 .. N - 1
Root == 0
Tids == 0 .. NTasks - 1
Continuations == {"receive_ghost", "receive_max_error", "receive_grid"}

VARIABLES
  last_task, \* last_task_ of the element main launches from
  tasks,     \* per element and id: tasks_, or NoTask
  buffers,   \* per element, id and continuation: buffers_
  busy,      \* per element: the task try_continue_ is working on, or none
  net,       \* entry method invocations in flight
  contributed,  \* per element: what it contributed to reductions, in order
  reduced,   \* reductions the runtime has completed
  status     \* "running", "exited" (CkExit) or "failed" (CkAssert)

vars == <<last_task, tasks, buffers, busy, net, contributed, reduced, status>>

NoTask == [continuation |-> "none", it |-> 0, nRecvd |-> 0, converged |-> FALSE]
None == -1

(***************************************************************************)
(* A message: what it resumes ("create" for launch), its task, the sender  *)
(* and the sender's iteration (for a reduction, its number; sender -1), a  *)
(* maximum and a set of indices, of which a reduction uses one.            *)
(***************************************************************************)
Message(id, tid, src, k, err, grid) ==
  [id |-> id, tid |-> tid, src |-> src, k |-> k, err |-> err, grid |-> grid]

Payload(m) == /\ m.id \in Continuations \cup {"create"} /\ m.tid \in Tids
              /\ m.src \in Elems \cup {-1} /\ m.k \in Int
              /\ m.err \in Int /\ m.grid \subseteq Elems

TypeOK ==
  /\ last_task \in 0 .. NTasks
  /\ \A e \in Elems, t \in Tids :
       /\ tasks[e][t].continuation \in Continuations \cup {"none"}
       /\ tasks[e][t].it \in Int /\ tasks[e][t].nRecvd \in 0 .. 2
       /\ tasks[e][t].converged \in BOOLEAN
       /\ \A c \in Continuations : \A m \in ToSet(buffers[e][t][c]) :
            Payload(m) /\ m.id = c
  /\ busy \in [Elems -> Tids \cup {None}]
  /\ \A d \in net : d[1] \in Elems /\ Payload(d[2])
  /\ \A e \in Elems : \A c \in ToSet(contributed[e]) : Payload(c)
  /\ reduced \in Nat
  /\ status \in {"running", "exited", "failed"}

Init ==
  /\ last_task = 0
  /\ tasks = [e \in Elems |-> [t \in Tids |-> NoTask]]
  /\ buffers = [e \in Elems |-> [t \in Tids |-> [c \in Continuations |-> << >>]]]
  /\ busy = [e \in Elems |-> None]
  /\ net = {}
  /\ contributed = [e \in Elems |-> << >>] /\ reduced = 0
  /\ status = "running"

-----------------------------------------------------------------------------
(***************************************************************************)
(* The task's code.  It computes what it leaves behind: the task (NoTask   *)
(* when it terminates), the elements a ghost is sent to, and what it       *)
(* contributes (at most one contribution).                                 *)
(***************************************************************************)
Outcome(task, ghosts, contribution) ==
  [task |-> task, ghosts |-> ghosts, contribution |-> contribution]

(* hasLeft, hasRight *)
Neighbors(e) == {e - 1, e + 1} \cap Elems

(* check_and_compute: all_reduce of max_error, then wait for the result. *)
CheckAndCompute(e, t, s, ghosts) ==
  Outcome([s EXCEPT !.continuation = "receive_max_error"], ghosts,
          <<Message("receive_max_error", t, e, s.it, 2 * Tolerance, {})>>)

(* Faulty: the root does not contribute its own index. *)
OnConvergeRootOnly(e, t, s) ==
  Outcome(IF e = Root THEN [s EXCEPT !.continuation = "receive_grid"] ELSE NoTask, {},
          <<Message("receive_grid", t, e, s.it, 0, {e} \ {Root})>>)

(* on_converge: reduce the set of indices to the root; others terminate. *)
OnConverge(e, t, s) ==
  Outcome(IF e = Root THEN [s EXCEPT !.continuation = "receive_grid"] ELSE NoTask, {},
          <<Message("receive_grid", t, e, s.it, 0, {e})>>)

(* converge_loop and send_ghosts; it++ is skipped once converged. *)
ConvergeLoop(e, t, s) ==
  LET counted == [s EXCEPT !.it = IF s.converged THEN @ ELSE @ + 1]
      next == [counted EXCEPT !.nRecvd = 0]
  IN  IF s.converged \/ s.it >= MaxIters THEN OnConverge(e, t, counted)
      ELSE IF Neighbors(e) = {} THEN CheckAndCompute(e, t, next, {})
      ELSE Outcome([next EXCEPT !.continuation = "receive_ghost"], Neighbors(e), << >>)

ReceiveGhost(e, t, s) ==
  LET next == [s EXCEPT !.nRecvd = @ + 1]
  IN  IF next.nRecvd >= Cardinality(Neighbors(e))
      THEN CheckAndCompute(e, t, next, {})
      ELSE Outcome(next, {}, << >>)

ReceiveMaxError(e, t, s, m) ==
  ConvergeLoop(e, t, [s EXCEPT !.converged = (m.err <= Tolerance)])

(* The continuation a message resumes; receive_grid terminates the task. *)
Continue(e, t, s, m) ==
  CASE m.id = "receive_ghost"     -> ReceiveGhost(e, t, s)
    [] m.id = "receive_max_error" -> ReceiveMaxError(e, t, s, m)
    [] m.id = "receive_grid"      -> Outcome(NoTask, {}, << >>)

-----------------------------------------------------------------------------
(* What a task's code did on element e; n is the network it started from. *)
Apply(e, t, o, n) ==
  /\ tasks' = [tasks EXCEPT ![e][t] = o.task]
  /\ net' = n \cup {<<d, Message("receive_ghost", t, e, o.task.it, 0, {})>> : d \in o.ghosts}
  /\ contributed' = [contributed EXCEPT ![e] = @ \o o.contribution]

(* Faulty: the buffered messages are not looked at. *)
ContinueNever(e, t, o) ==
  busy' = [busy EXCEPT ![e] = None]

(* After a continuation, or the constructor: is there a call to           *)
(* try_continue_ to come?  Only for a task that is still there.           *)
ContinueWith(e, t, o) ==
  busy' = [busy EXCEPT ![e] = IF o.task = NoTask THEN None ELSE t]

(* CkAssert(nWorkers == set.size()), and CkExit. *)
Shutdown(m) ==
  status' = IF m.id # "receive_grid" THEN status
            ELSE IF Cardinality(m.grid) = N THEN "exited" ELSE "failed"

(* Faulty: messages are not rejected when they are out of order. *)
AcceptsAny(e, t, m) == tasks[e][t] # NoTask

(* resume: the task is here, and waits for this continuation. *)
Accepts(e, t, m) == tasks[e][t] # NoTask /\ tasks[e][t].continuation = m.id

(* launch, called by main: create on every element. *)
Launch ==
  /\ last_task < NTasks
  /\ last_task' = last_task + 1
  /\ net' = net \cup {<<e, Message("create", last_task, -1, 0, 0, {})>> : e \in Elems}
  /\ UNCHANGED <<tasks, buffers, busy, contributed, reduced, status>>

(* create: the constructor runs converge_loop with whatever it holds. *)
Create(e, d) ==
  /\ d \in net /\ d[1] = e /\ d[2].id = "create" /\ busy[e] = None
  /\ \E it \in InitialIt :
       LET t == d[2].tid
           o == ConvergeLoop(e, t, [NoTask EXCEPT !.it = it])
       IN  Apply(e, t, o, net \ {d}) /\ ContinueWith(e, t, o)
  /\ UNCHANGED <<last_task, buffers, reduced, status>>

(* resume(msg) that finds the task waiting for it. *)
Resume(e, d) ==
  LET m == d[2]
      o == Continue(e, m.tid, tasks[e][m.tid], m)
  IN  /\ d \in net /\ d[1] = e /\ m.id # "create" /\ busy[e] = None
      /\ Accepts(e, m.tid, m)
      /\ Apply(e, m.tid, o, net \ {d})
      /\ ContinueWith(e, m.tid, o)
      /\ Shutdown(m)
      /\ UNCHANGED <<last_task, buffers, reduced>>

(* Faulty: a message that cannot be delivered is lost. *)
BufferDrop(e, d) ==
  LET m == d[2] IN
  /\ d \in net /\ d[1] = e /\ m.id # "create" /\ busy[e] = None
  /\ ~Accepts(e, m.tid, m)
  /\ net' = net \ {d}
  /\ UNCHANGED <<last_task, tasks, buffers, busy, contributed, reduced, status>>

(* resume(msg) that does not: buffer_. *)
Buffer(e, d) ==
  LET m == d[2] IN
  /\ d \in net /\ d[1] = e /\ m.id # "create" /\ busy[e] = None
  /\ ~Accepts(e, m.tid, m)
  /\ net' = net \ {d}
  /\ buffers' = [buffers EXCEPT ![e][m.tid][m.id] = Append(@, m)]
  /\ UNCHANGED <<last_task, tasks, busy, contributed, reduced, status>>

(* A turn of try_continue_: resume the task with the first message that   *)
(* waits for its continuation, or return because there is none.           *)
TryContinue(e) ==
  LET t == busy[e]
      b == buffers[e][t][tasks[e][t].continuation]
  IN  /\ t # None
      /\ \/ /\ b = << >>
            /\ busy' = [busy EXCEPT ![e] = None]
            /\ UNCHANGED <<tasks, buffers, net, contributed, status>>
         \/ /\ b # << >>
            /\ LET o == Continue(e, t, tasks[e][t], Head(b))
               IN  Apply(e, t, o, net) /\ ContinueWith(e, t, o)
            /\ buffers' = [buffers EXCEPT ![e][t][Head(b).id] = Tail(@)]
            /\ Shutdown(Head(b))
      /\ UNCHANGED <<last_task, reduced>>

(* bitvec_and_int of the ids: ids of one host differ in task_ only, 0 or 1. *)
CommonId(cs) == IF \A c \in cs : c.tid = 1 THEN 1 ELSE 0

(***************************************************************************)
(* The runtime completes the reductions of an array one after the other,   *)
(* the k-th from the k-th contribution of every element.  Reducer and      *)
(* callback are those of any one of them; they agree when the elements do. *)
(***************************************************************************)
CompleteReduction ==
  /\ \A e \in Elems : Len(contributed[e]) > reduced
  /\ LET cs == {contributed[e][reduced + 1] : e \in Elems}
     IN  \E first \in cs :
           LET to == IF first.id = "receive_grid" THEN {Root} ELSE Elems
               err == CHOOSE x \in {c.err : c \in cs} : \A c \in cs : c.err <= x
               m == Message(first.id, CommonId(cs), -1, reduced, err,
                            UNION {c.grid : c \in cs})
           IN  net' = net \cup {<<e, m>> : e \in to}
  /\ reduced' = reduced + 1
  /\ UNCHANGED <<last_task, tasks, buffers, busy, contributed, status>>

Stopped == status # "running" /\ UNCHANGED vars

Running ==
  /\ status = "running"
  /\ \/ Launch
     \/ \E e \in Elems :
          \/ \E d \in net : Create(e, d) \/ Resume(e, d) \/ Buffer(e, d)
          \/ TryContinue(e)
     \/ CompleteReduction

Next == Running \/ Stopped

Spec == Init /\ [][Next]_vars

(* Every message is delivered in the end, and handlers return. *)
FairSpec == Spec /\ WF_vars(Running)

-----------------------------------------------------------------------------
InFlight(e, t, id) == {d[2] : d \in {x \in net : x[1] = e /\ x[2].tid = t /\ x[2].id = id}}
Waiting(e, t, id) == InFlight(e, t, id) \cup ToSet(buffers[e][t][id])
Alive(e, t) == tasks[e][t] # NoTask
Created(e, t) == t < last_task /\ InFlight(e, t, "create") = {}

(***************************************************************************)
(* Ghosts are identical but for their sender, and carry no iteration       *)
(* number: that a task counts to nNeighbors is right only because each     *)
(* neighbour's ghost of this iteration was received, is on its way, or is  *)
(* still to be sent, and there are no ghosts of other iterations.          *)
(***************************************************************************)
GhostsOfIteration ==
  \A e \in Elems, t \in Tids :
    tasks[e][t].continuation = "receive_ghost" =>
      LET k == tasks[e][t].it
          now == Waiting(e, t, "receive_ghost")
          later == {f \in Neighbors(e) : ~Alive(f, t) \/ tasks[f][t].it < k}
      IN  /\ tasks[e][t].nRecvd + Cardinality(now) + Cardinality(later)
               = Cardinality(Neighbors(e))
          /\ \A g \in now : g.k = k

(***************************************************************************)
(* The all_reduce holds the elements together: a task is at most one       *)
(* iteration ahead of another, and the contributions that make up one      *)
(* reduction are of one task, one iteration, and for one continuation.     *)
(***************************************************************************)
Lockstep ==
  /\ \A e, f \in Elems, t \in Tids :
       Alive(e, t) /\ Alive(f, t) => tasks[e][t].it <= tasks[f][t].it + 1
  /\ \A e, f \in Elems : \A k \in DOMAIN contributed[e] \cap DOMAIN contributed[f] :
       LET c == contributed[e][k]  d == contributed[f][k]
       IN  c.id = d.id /\ c.tid = d.tid /\ c.k = d.k

(***************************************************************************)
(* No message is stranded: outside of try_continue_ a task never waits for *)
(* a continuation whose message is in its buffer.                          *)
(***************************************************************************)
NoStrandedMessage ==
  \A e \in Elems, t \in Tids :
    Alive(e, t) /\ busy[e] # t =>
      buffers[e][t][tasks[e][t].continuation] = << >>

(***************************************************************************)
(* When the program exits nothing is left behind: the other tasks have     *)
(* terminated and no message waits for a task that is gone.                *)
(***************************************************************************)
CleanExit ==
  status = "exited" =>
    \A e \in Elems, t \in Tids :
      ~Alive(e, t) /\ \A c \in Continuations : Waiting(e, t, c) = {}

(* "then actually shut down!": the program comes to its CkExit. *)
Exits == <>(status = "exited")
=============================================================================
