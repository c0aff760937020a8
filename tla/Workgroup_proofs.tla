-------------------------- MODULE Workgroup_proofs --------------------------
(***************************************************************************)
(* Workgroup, for every number of elements and iterations: no message is   *)
(* stranded in a buffer, the elements of one task stay in step and account *)
(* for each other's ghosts, and when the program exits nothing is left.    *)
(***************************************************************************)
EXTENDS Workgroup, FiniteSetTheorems, TLAPS

(* All maxima are of this set, the reduced ones included. *)
Messages ==
  [id : Continuations \cup {"create"}, tid : Tids, src : Int, k : Int,
   err : {0, 2 * Tolerance}, grid : SUBSET Elems]

Tasks == [continuation : Continuations \cup {"none"}, it : Int, nRecvd : Nat,
          converged : BOOLEAN]

Reduced == {"receive_max_error", "receive_grid"}

Typed ==
  /\ last_task \in 0 .. NTasks
  /\ tasks \in [Elems -> [Tids -> Tasks]]
  /\ buffers \in [Elems -> [Tids -> [Continuations -> Seq(Messages)]]]
  /\ busy \in [Elems -> Tids \cup {None}]
  /\ net \subseteq Elems \X Messages
  /\ contributed \in [Elems -> Seq(Messages)]
  /\ reduced \in Nat

(* A task that is there waits for something, and only such a task is busy. *)
TasksWait ==
  /\ \A e \in Elems, t \in Tids : Alive(e, t) => tasks[e][t].continuation \in Continuations
  /\ \A e \in Elems : busy[e] # None => Alive(e, busy[e])

(* Messages are buffered under their task and continuation. *)
Sorted ==
  \A e \in Elems, t \in Tids, c \in Continuations : \A k \in 1 .. Len(buffers[e][t][c]) :
    buffers[e][t][c][k].id = c /\ buffers[e][t][c][k].tid = t

Contributed ==
  \A e \in Elems : \A k \in 1 .. Len(contributed[e]) : contributed[e][k].id \in Reduced

Safe == Typed /\ TasksWait /\ Sorted /\ Contributed /\ NoStrandedMessage

-----------------------------------------------------------------------------
(* What the code of task t of e may leave behind. *)
Possible(e, t, o) ==
  /\ o.task \in Tasks
  /\ o.task # NoTask => o.task.continuation \in Continuations
  /\ o.ghosts \subseteq Elems
  /\ \/ o.contribution = << >>
     \/ \E c \in Messages : o.contribution = <<c>> /\ c.id \in Reduced

LEMMA CheckAndComputePossible ==
  ASSUME NEW e \in Elems, NEW t \in Tids, NEW s \in Tasks, NEW g \in SUBSET Elems
  PROVE  Possible(e, t, CheckAndCompute(e, t, s, g))
  <1> DEFINE o == CheckAndCompute(e, t, s, g)
             c == Message("receive_max_error", t, e, s.it, 2 * Tolerance, {})
  <1>1. c \in Messages /\ c.id \in Reduced
    BY DEF Message, Messages, Continuations, Reduced, Tasks, Elems
  <1>2. /\ o.task = [s EXCEPT !.continuation = "receive_max_error"] /\ o.ghosts = g
        /\ o.contribution = <<c>>
    BY DEF CheckAndCompute, Outcome
  <1>3. o.task \in Tasks /\ o.task.continuation \in Continuations
    BY <1>2 DEF Tasks, Continuations
  <1>4. QED
    BY <1>1, <1>2, <1>3 DEF Possible

LEMMA ConvergeLoopPossible ==
  ASSUME NEW e \in Elems, NEW t \in Tids, NEW s \in Tasks
  PROVE  Possible(e, t, ConvergeLoop(e, t, s))
  <1> DEFINE n == [s EXCEPT !.it = IF s.converged THEN @ ELSE @ + 1]
             x == [n EXCEPT !.nRecvd = 0]
  <1>1. n \in Tasks /\ x \in Tasks
    <2>1. PICK i \in Int : i = IF s.converged THEN s.it ELSE s.it + 1
      BY DEF Tasks
    <2>2. n = [s EXCEPT !.it = i]
      BY <2>1
    <2>3. n \in Tasks
      BY <2>2 DEF Tasks
    <2> HIDE DEF n
    <2>4. x \in Tasks
      BY <2>3 DEF Tasks
    <2>5. QED
      BY <2>3, <2>4
  <1>2. Possible(e, t, OnConverge(e, t, n))
    <2> DEFINE o == OnConverge(e, t, n)
               c == Message("receive_grid", t, e, n.it, 0, {e})
    <2> HIDE DEF n
    <2>1. c \in Messages /\ c.id \in Reduced
      BY <1>1, WorkgroupAssumption DEF Message, Messages, Continuations, Reduced, Tasks, Elems
    <2>2. /\ o.task = IF e = Root THEN [n EXCEPT !.continuation = "receive_grid"] ELSE NoTask
          /\ o.ghosts = {} /\ o.contribution = <<c>>
      BY DEF OnConverge, Outcome
    <2>3. o.task \in Tasks /\ (o.task # NoTask => o.task.continuation \in Continuations)
      BY <1>1, <2>2 DEF Tasks, Continuations, NoTask
    <2>4. QED
      BY <2>1, <2>2, <2>3 DEF Possible
  <1>3. Possible(e, t, CheckAndCompute(e, t, x, {}))
    BY <1>1, CheckAndComputePossible
  <1>4. Possible(e, t, Outcome([x EXCEPT !.continuation = "receive_ghost"], Neighbors(e), << >>))
    <2> HIDE DEF x
    <2>1. [x EXCEPT !.continuation = "receive_ghost"] \in Tasks
      BY <1>1 DEF Tasks, Continuations
    <2>2. QED
      BY <1>1, <2>1 DEF Possible, Outcome, Neighbors, Tasks, Continuations
  <1>5. QED
    BY <1>2, <1>3, <1>4 DEF ConvergeLoop

LEMMA ContinuePossible ==
  ASSUME NEW e \in Elems, NEW t \in Tids, NEW s \in Tasks, s.continuation \in Continuations,
         NEW m \in Messages, m.id \in Continuations
  PROVE  Possible(e, t, Continue(e, t, s, m))
  <1>1. CASE m.id = "receive_ghost"
    <2> DEFINE x == [s EXCEPT !.nRecvd = @ + 1]
    <2>1. x \in Tasks /\ x.continuation \in Continuations
      BY DEF Tasks
    <2>2. Possible(e, t, CheckAndCompute(e, t, x, {}))
      BY <2>1, CheckAndComputePossible
    <2>3. Possible(e, t, Outcome(x, {}, << >>))
      BY <2>1 DEF Possible, Outcome
    <2>4. Possible(e, t, ReceiveGhost(e, t, s))
      BY <2>2, <2>3 DEF ReceiveGhost
    <2>5. QED
      BY <1>1, <2>4 DEF Continue
  <1>2. CASE m.id = "receive_max_error"
    <2>1. [s EXCEPT !.converged = (m.err <= Tolerance)] \in Tasks
      <3>1. \A b \in BOOLEAN : [s EXCEPT !.converged = b] \in Tasks
        BY DEF Tasks
      <3>2. (m.err <= Tolerance) \in BOOLEAN
        OBVIOUS
      <3>3. QED
        BY <3>1, <3>2, Zenon
    <2>2. Continue(e, t, s, m) = ReceiveMaxError(e, t, s, m)
      BY <1>2 DEF Continue
    <2>3. QED
      BY <2>1, <2>2, ConvergeLoopPossible DEF ReceiveMaxError
  <1>3. CASE m.id = "receive_grid"
    <2>1. Continue(e, t, s, m) = Outcome(NoTask, {}, << >>)
      BY <1>3 DEF Continue
    <2>2. QED
      BY <2>1 DEF Possible, Outcome, NoTask, Tasks
  <1>4. QED
    BY <1>1, <1>2, <1>3 DEF Continuations

(* A step of a task's code: the other tasks are as they were. *)
LEMMA ApplyTyped ==
  ASSUME Typed, NEW e \in Elems, NEW t \in Tids, NEW o, Possible(e, t, o),
         NEW n \in SUBSET (Elems \X Messages), Apply(e, t, o, n), ContinueWith(e, t, o)
  PROVE  /\ tasks' \in [Elems -> [Tids -> Tasks]]
         /\ net' \subseteq Elems \X Messages
         /\ contributed' \in [Elems -> Seq(Messages)]
         /\ busy' \in [Elems -> Tids \cup {None}]
         /\ tasks'[e][t] = o.task
         /\ \A f \in Elems, u \in Tids : <<f, u>> # <<e, t>> => tasks'[f][u] = tasks[f][u]
         /\ busy'[e] = IF o.task = NoTask THEN None ELSE t
         /\ \A f \in Elems : f # e => busy'[f] = busy[f]
         /\ Contributed => Contributed'
  <1>1. /\ tasks' = [tasks EXCEPT ![e][t] = o.task]
        /\ net' = n \cup {<<d, Message("receive_ghost", t, e, o.task.it, 0, {})>> : d \in o.ghosts}
        /\ contributed' = [contributed EXCEPT ![e] = @ \o o.contribution]
        /\ busy' = [busy EXCEPT ![e] = IF o.task = NoTask THEN None ELSE t]
    BY DEF Apply, ContinueWith
  <1>2. o.task \in Tasks /\ o.ghosts \subseteq Elems
    BY DEF Possible
  <1>3. Message("receive_ghost", t, e, o.task.it, 0, {}) \in Messages
    BY <1>2, WorkgroupAssumption DEF Message, Messages, Continuations, Tasks, Elems
  <1>4. net' \subseteq Elems \X Messages
    BY <1>1, <1>2, <1>3
  <1>5. o.contribution \in Seq(Messages)
    <2>1. CASE o.contribution = << >>
      BY <2>1
    <2>2. ASSUME NEW c \in Messages, o.contribution = <<c>>
          PROVE  o.contribution \in Seq(Messages)
      BY <2>2
    <2>3. QED
      BY <2>1, <2>2 DEF Possible
  <1>6. contributed' \in [Elems -> Seq(Messages)]
    BY <1>1, <1>5 DEF Typed
  <1>7. Contributed => Contributed'
    <2> SUFFICES ASSUME Contributed PROVE Contributed'
      OBVIOUS
    <2>1. /\ contributed'[e] = contributed[e] \o o.contribution
          /\ \A f \in Elems : f # e => contributed'[f] = contributed[f]
          /\ contributed[e] \in Seq(Messages)
      BY <1>1 DEF Typed
    <2>2. ASSUME NEW k \in 1 .. Len(contributed'[e]) PROVE contributed'[e][k].id \in Reduced
      <3>1. CASE o.contribution = << >>
        BY <2>1, <2>2, <3>1 DEF Contributed
      <3>2. ASSUME NEW c \in Messages, o.contribution = <<c>>, c.id \in Reduced
            PROVE  contributed'[e][k].id \in Reduced
        <4>1. /\ Len(contributed'[e]) = Len(contributed[e]) + 1
              /\ contributed'[e][Len(contributed[e]) + 1] = c
              /\ \A j \in 1 .. Len(contributed[e]) : contributed'[e][j] = contributed[e][j]
          BY <2>1, <3>2
        <4>2. QED
          BY <2>1, <2>2, <3>2, <4>1 DEF Contributed
      <3>3. QED
        BY <3>1, <3>2 DEF Possible
    <2>3. QED
      BY <2>1, <2>2 DEF Contributed
  <1>8. QED
    BY <1>1, <1>2, <1>4, <1>6, <1>7 DEF Typed

-----------------------------------------------------------------------------
LEMMA SafeInit == Init => Safe
  <1> SUFFICES ASSUME Init PROVE Safe
    OBVIOUS
  <1>1. << >> \in Seq(Messages)
    OBVIOUS
  <1>2. NoTask \in Tasks /\ Root \in Elems /\ 0 \in Tids
    BY WorkgroupAssumption DEF NoTask, Tasks, Root, Elems, Tids
  <1>3. Typed
    BY <1>1, <1>2, WorkgroupAssumption DEF Init, Typed
  <1>4. /\ \A e \in Elems, t \in Tids : ~Alive(e, t)
        /\ \A e \in Elems : busy[e] = None /\ contributed[e] = << >>
        /\ \A e \in Elems, t \in Tids, c \in Continuations : buffers[e][t][c] = << >>
    BY DEF Init, Alive
  <1>5. TasksWait /\ Sorted /\ Contributed /\ NoStrandedMessage
    BY <1>4 DEF TasksWait, Sorted, Contributed, NoStrandedMessage
  <1>6. QED
    BY <1>3, <1>5 DEF Safe

(* A task's code runs on an element that was not busy, or with this task. *)
LEMMA SafeApply ==
  ASSUME Safe, NEW e \in Elems, NEW t \in Tids, NEW o, Possible(e, t, o), busy[e] \in {t, None},
         NEW n \in SUBSET (Elems \X Messages), Apply(e, t, o, n), ContinueWith(e, t, o),
         last_task' \in 0 .. NTasks, UNCHANGED reduced,
         buffers' \in [Elems -> [Tids -> [Continuations -> Seq(Messages)]]], Sorted',
         \A f \in Elems, u \in Tids : <<f, u>> # <<e, t>> => buffers'[f][u] = buffers[f][u]
  PROVE  Safe'
  <1>1. Typed /\ TasksWait /\ Contributed /\ NoStrandedMessage
    BY DEF Safe
  <1>2. /\ tasks' \in [Elems -> [Tids -> Tasks]]
        /\ net' \subseteq Elems \X Messages
        /\ contributed' \in [Elems -> Seq(Messages)]
        /\ busy' \in [Elems -> Tids \cup {None}]
        /\ tasks'[e][t] = o.task
        /\ \A f \in Elems, u \in Tids : <<f, u>> # <<e, t>> => tasks'[f][u] = tasks[f][u]
        /\ busy'[e] = IF o.task = NoTask THEN None ELSE t
        /\ \A f \in Elems : f # e => busy'[f] = busy[f]
        /\ Contributed'
    BY <1>1, ApplyTyped
  <1>3. Typed'
    BY <1>1, <1>2 DEF Typed
  <1>4. TasksWait'
    <2>1. o.task # NoTask => o.task.continuation \in Continuations
      BY DEF Possible
    <2>2. ASSUME NEW f \in Elems, NEW u \in Tids, Alive(f, u)'
          PROVE  tasks'[f][u].continuation \in Continuations
      BY <1>1, <1>2, <2>1, <2>2, ZenonT(40) DEF TasksWait, Alive
    <2>3. ASSUME NEW f \in Elems, busy'[f] # None PROVE tasks'[f][busy'[f]] # NoTask
      <3>1. CASE f = e
        BY <1>2, <2>3, <3>1 DEF Alive
      <3>2. CASE f # e
        <4>1. busy'[f] = busy[f] /\ busy[f] \in Tids /\ Alive(f, busy[f])
          BY <1>1, <1>2, <2>3, <3>2 DEF TasksWait, Typed
        <4>2. tasks'[f][busy[f]] = tasks[f][busy[f]]
          BY <1>2, <3>2, <4>1
        <4>3. QED
          BY <4>1, <4>2 DEF Alive
      <3>3. QED
        BY <3>1, <3>2
    <2>4. QED
      BY <2>2, <2>3 DEF TasksWait, Alive
  <1>5. NoStrandedMessage'
    <2> SUFFICES ASSUME NEW f \in Elems, NEW u \in Tids, Alive(f, u)', busy'[f] # u
                 PROVE  buffers'[f][u][tasks'[f][u].continuation] = << >>
      BY DEF NoStrandedMessage
    <2>1. <<f, u>> # <<e, t>>
      BY <1>2 DEF Alive
    <2>2. tasks'[f][u] = tasks[f][u] /\ buffers'[f][u] = buffers[f][u] /\ Alive(f, u)
      BY <1>2, <2>1 DEF Alive
    <2>3. busy[f] # u
      BY <1>2, <2>1, WorkgroupAssumption DEF None, Tids
    <2>4. QED
      BY <1>1, <2>2, <2>3 DEF NoStrandedMessage
  <1>6. QED
    BY <1>2, <1>3, <1>4, <1>5 DEF Safe

LEMMA SafeCreate ==
  ASSUME Safe, NEW e \in Elems, NEW d \in net, Create(e, d)
  PROVE  Safe'
  <1> DEFINE t == d[2].tid
  <1>1. PICK it \in InitialIt :
          LET o == ConvergeLoop(e, t, [NoTask EXCEPT !.it = it])
          IN  Apply(e, t, o, net \ {d}) /\ ContinueWith(e, t, o)
    BY DEF Create
  <1> DEFINE s == [NoTask EXCEPT !.it = it]
             o == ConvergeLoop(e, t, s)
  <1>2. s \in Tasks
    BY WorkgroupAssumption DEF NoTask, Tasks
  <1>3. t \in Tids /\ net \in SUBSET (Elems \X Messages)
    BY DEF Safe, Typed, Messages
  <1> HIDE DEF t, s
  <1>4. Possible(e, t, o)
    BY <1>2, <1>3, ConvergeLoopPossible
  <1>5. Apply(e, t, o, net \ {d}) /\ ContinueWith(e, t, o)
    BY <1>1 DEF s
  <1> HIDE DEF o
  <1>6. busy[e] = None /\ UNCHANGED <<last_task, buffers, reduced, status>>
    BY DEF Create
  <1>7. net \ {d} \in SUBSET (Elems \X Messages) /\ last_task' \in 0 .. NTasks
    BY <1>3, <1>6 DEF Safe, Typed
  <1>8. Sorted' /\ buffers' \in [Elems -> [Tids -> [Continuations -> Seq(Messages)]]]
    BY <1>6 DEF Safe, Typed, Sorted
  <1>9. QED
    BY <1>3, <1>4, <1>5, <1>6, <1>7, <1>8, SafeApply

LEMMA SafeResume ==
  ASSUME Safe, NEW e \in Elems, NEW d \in net, Resume(e, d)
  PROVE  Safe'
  <1> DEFINE m == d[2]
             t == d[2].tid
             o == Continue(e, t, tasks[e][t], m)
  <1>1. /\ t \in Tids /\ m \in Messages /\ m.id # "create" /\ net \in SUBSET (Elems \X Messages)
        /\ tasks[e][t] \in Tasks
    BY DEF Safe, Typed, Messages, Resume
  <1>2. m.id \in Continuations
    BY <1>1 DEF Messages
  <1>3. Apply(e, t, o, net \ {d}) /\ ContinueWith(e, t, o) /\ Accepts(e, t, m)
    BY DEF Resume
  <1>4. Possible(e, t, o)
    BY <1>1, <1>2, <1>3, ContinuePossible DEF Accepts
  <1> HIDE DEF o, t, m
  <1>5. busy[e] = None /\ UNCHANGED <<last_task, buffers, reduced>>
    BY DEF Resume
  <1>6. net \ {d} \in SUBSET (Elems \X Messages) /\ last_task' \in 0 .. NTasks
    BY <1>1, <1>5 DEF Safe, Typed
  <1>7. Sorted' /\ buffers' \in [Elems -> [Tids -> [Continuations -> Seq(Messages)]]]
    BY <1>5 DEF Safe, Typed, Sorted
  <1>8. QED
    BY <1>1, <1>3, <1>4, <1>5, <1>6, <1>7, SafeApply

LEMMA SafeBuffer ==
  ASSUME Safe, NEW e \in Elems, NEW d \in net, Buffer(e, d)
  PROVE  Safe'
  <1>1. Typed /\ TasksWait /\ Contributed /\ NoStrandedMessage /\ Sorted
    BY DEF Safe
  <1>2. PICK m \in Messages, t \in Tids, c \in Continuations :
          m = d[2] /\ t = m.tid /\ c = m.id
    BY <1>1 DEF Typed, Messages, Buffer
  <1>3. PICK b \in Seq(Messages) : b = buffers[e][t][c]
    BY <1>1 DEF Typed
  <1>4. PICK q \in Seq(Messages) : q = Append(b, m)
    <2>1. Append(b, m) \in Seq(Messages)
      OBVIOUS
    <2>2. QED
      BY <2>1
  <1>5. /\ buffers' = [buffers EXCEPT ![e][t][c] = q] /\ net' = net \ {d} /\ ~Accepts(e, t, m)
        /\ UNCHANGED <<last_task, tasks, busy, contributed, reduced, status>>
    BY <1>2, <1>3, <1>4 DEF Buffer
  <1>6. Len(q) = Len(b) + 1 /\ q[Len(b) + 1] = m /\ \A k \in 1 .. Len(b) : q[k] = b[k]
    BY <1>4
  <1>7. /\ buffers' \in [Elems -> [Tids -> [Continuations -> Seq(Messages)]]]
        /\ buffers'[e][t][c] = q
        /\ \A f \in Elems, u \in Tids, x \in Continuations :
             <<f, u, x>> # <<e, t, c>> => buffers'[f][u][x] = buffers[f][u][x]
    BY <1>1, <1>5 DEF Typed
  <1>8. Typed'
    BY <1>1, <1>5, <1>7 DEF Typed
  <1>9. TasksWait' /\ Contributed'
    BY <1>1, <1>5 DEF TasksWait, Contributed, Alive
  <1>10. Sorted'
    <2>1. \A k \in 1 .. Len(b) : b[k].id = c /\ b[k].tid = t
      BY <1>1, <1>3 DEF Sorted
    <2>2. \A k \in 1 .. Len(q) : q[k].id = c /\ q[k].tid = t
      <3> TAKE k \in 1 .. Len(q)
      <3>1. k \in 1 .. Len(b) \/ k = Len(b) + 1
        BY <1>3, <1>6
      <3>2. QED
        BY <1>2, <1>6, <2>1, <3>1
    <2>3. ASSUME NEW f \in Elems, NEW u \in Tids, NEW x \in Continuations,
                 NEW k \in 1 .. Len(buffers'[f][u][x])
          PROVE  buffers'[f][u][x][k].id = x /\ buffers'[f][u][x][k].tid = u
      <3>1. CASE <<f, u, x>> = <<e, t, c>>
        <4>1. f = e /\ u = t /\ x = c
          BY <3>1
        <4>2. QED
          BY <1>7, <2>2, <4>1
      <3>2. CASE <<f, u, x>> # <<e, t, c>>
        <4>1. buffers'[f][u][x] = buffers[f][u][x]
          BY <1>7, <3>2
        <4>2. QED
          BY <1>1, <4>1 DEF Sorted
      <3>3. QED
        BY <3>1, <3>2
    <2>4. QED
      BY <2>3 DEF Sorted
  <1>11. NoStrandedMessage'
    <2> SUFFICES ASSUME NEW f \in Elems, NEW u \in Tids, Alive(f, u), busy[f] # u
                 PROVE  buffers'[f][u][tasks[f][u].continuation] = << >>
      BY <1>5 DEF NoStrandedMessage, Alive
    <2>1. PICK x \in Continuations : x = tasks[f][u].continuation
      BY <1>1 DEF TasksWait
    <2>2. <<f, u, x>> # <<e, t, c>>
      BY <1>2, <1>5, <2>1 DEF Accepts, Alive
    <2>3. buffers[f][u][x] = << >>
      BY <1>1, <2>1 DEF NoStrandedMessage
    <2>4. QED
      BY <1>7, <2>1, <2>2, <2>3
  <1>12. QED
    BY <1>8, <1>9, <1>10, <1>11 DEF Safe

LEMMA SafeTryContinue ==
  ASSUME Safe, NEW e \in Elems, TryContinue(e)
  PROVE  Safe'
  <1>1. Typed /\ TasksWait /\ Contributed /\ NoStrandedMessage /\ Sorted
    BY DEF Safe
  <1>2. PICK t \in Tids : t = busy[e]
    BY <1>1 DEF Typed, TryContinue
  <1>3. Alive(e, t)
    BY <1>1, <1>2 DEF TasksWait, TryContinue
  <1>4. PICK c \in Continuations : c = tasks[e][t].continuation
    BY <1>1, <1>3 DEF TasksWait
  <1>5. PICK b \in Seq(Messages) : b = buffers[e][t][c]
    BY <1>1 DEF Typed
  <1>6. CASE /\ b = << >>
             /\ busy' = [busy EXCEPT ![e] = None]
             /\ UNCHANGED <<tasks, buffers, net, contributed, status, last_task, reduced>>
    <2>1. busy'[e] = None /\ \A f \in Elems : f # e => busy'[f] = busy[f]
      BY <1>1, <1>6 DEF Typed
    <2>2. Typed'
      BY <1>1, <1>6 DEF Typed
    <2>3. TasksWait' /\ Contributed' /\ Sorted'
      BY <1>1, <1>6, <2>1 DEF TasksWait, Contributed, Sorted, Alive
    <2>4. NoStrandedMessage'
      <3> SUFFICES ASSUME NEW f \in Elems, NEW u \in Tids, Alive(f, u), busy'[f] # u
                   PROVE  buffers[f][u][tasks[f][u].continuation] = << >>
        BY <1>6 DEF NoStrandedMessage, Alive
      <3>1. CASE f = e /\ u = t
        BY <1>4, <1>5, <1>6, <3>1
      <3>2. CASE ~(f = e /\ u = t)
        BY <1>1, <1>2, <2>1, <3>2 DEF NoStrandedMessage
      <3>3. QED
        BY <3>1, <3>2
    <2>5. QED
      BY <2>2, <2>3, <2>4 DEF Safe
  <1>7. CASE /\ b # << >>
             /\ LET o == Continue(e, t, tasks[e][t], Head(b))
                IN  Apply(e, t, o, net) /\ ContinueWith(e, t, o)
             /\ buffers' = [buffers EXCEPT ![e][t][Head(b).id] = Tail(@)]
             /\ UNCHANGED <<last_task, reduced>>
    <2>1. PICK m \in Messages : m = Head(b) /\ m = b[1]
      BY <1>7
    <2>2. PICK q \in Seq(Messages) : /\ q = Tail(b) /\ Len(q) = Len(b) - 1
                                     /\ \A k \in 1 .. Len(q) : q[k] = b[k + 1]
      <3>1. /\ Tail(b) \in Seq(Messages) /\ Len(Tail(b)) = Len(b) - 1
            /\ \A k \in 1 .. Len(Tail(b)) : Tail(b)[k] = b[k + 1]
        BY <1>7
      <3>2. QED
        BY <3>1
    <2>3. \A k \in 1 .. Len(b) : b[k].id = c /\ b[k].tid = t
      BY <1>1, <1>5 DEF Sorted
    <2>4. m.id = c
      BY <1>7, <2>1, <2>3
    <2>5. buffers' = [buffers EXCEPT ![e][t][c] = q]
      BY <1>5, <1>7, <2>1, <2>2, <2>4
    <2>6. /\ buffers' \in [Elems -> [Tids -> [Continuations -> Seq(Messages)]]]
          /\ buffers'[e][t][c] = q
          /\ \A f \in Elems, u \in Tids, x \in Continuations :
               <<f, u, x>> # <<e, t, c>> => buffers'[f][u][x] = buffers[f][u][x]
          /\ \A f \in Elems, u \in Tids : <<f, u>> # <<e, t>> => buffers'[f][u] = buffers[f][u]
      BY <1>1, <2>5 DEF Typed
    <2>7. Sorted'
      <3>1. \A k \in 1 .. Len(q) : q[k].id = c /\ q[k].tid = t
        BY <2>2, <2>3
      <3>2. ASSUME NEW f \in Elems, NEW u \in Tids, NEW x \in Continuations,
                   NEW k \in 1 .. Len(buffers'[f][u][x])
            PROVE  buffers'[f][u][x][k].id = x /\ buffers'[f][u][x][k].tid = u
        <4>1. CASE <<f, u, x>> = <<e, t, c>>
          <5>1. f = e /\ u = t /\ x = c
            BY <4>1
          <5>2. QED
            BY <2>6, <3>1, <5>1
        <4>2. CASE <<f, u, x>> # <<e, t, c>>
          <5>1. buffers'[f][u][x] = buffers[f][u][x]
            BY <2>6, <4>2
          <5>2. QED
            BY <1>1, <5>1 DEF Sorted
        <4>3. QED
          BY <4>1, <4>2
      <3>3. QED
        BY <3>2 DEF Sorted
    <2> DEFINE o == Continue(e, t, tasks[e][t], m)
    <2>8. tasks[e][t] \in Tasks
      BY <1>1 DEF Typed
    <2>9. Possible(e, t, o)
      BY <1>4, <2>4, <2>8, ContinuePossible
    <2>10. Apply(e, t, o, net) /\ ContinueWith(e, t, o)
      BY <1>7, <2>1
    <2> HIDE DEF o
    <2>11. net \in SUBSET (Elems \X Messages) /\ last_task' \in 0 .. NTasks /\ reduced' = reduced
      BY <1>1, <1>7 DEF Typed
    <2>12. QED
      BY <1>2, <2>6, <2>7, <2>9, <2>10, <2>11, SafeApply
  <1>8. QED
    BY <1>2, <1>4, <1>5, <1>6, <1>7 DEF TryContinue

(* The largest of the errors is one of the two there are. *)
LEMMA LargestError ==
  ASSUME NEW S \in SUBSET {0, 2 * Tolerance}, S # {}
  PROVE  (CHOOSE x \in S : \A c \in S : c <= x) \in S
  <1>1. Tolerance \in Nat /\ 0 <= 2 * Tolerance
    BY WorkgroupAssumption
  <1>2. \E x \in S : \A c \in S : c <= x
    <2>1. CASE 2 * Tolerance \in S
      BY <1>1, <2>1
    <2>2. CASE 2 * Tolerance \notin S
      <3>1. S = {0}
        BY <2>2
      <3>2. QED
        BY <3>1
    <2>3. QED
      BY <2>1, <2>2
  <1>3. QED
    BY <1>2

(* What CompleteReduction sends, and to whom. *)
LEMMA ReductionMessage ==
  ASSUME Safe, CompleteReduction
  PROVE  \E f \in Elems, m \in Messages :
           LET first == contributed[f][reduced + 1]
           IN  /\ m.id = first.id /\ first.id \in Reduced /\ m.src = -1 /\ m.k = reduced
               /\ \E g \in Elems : m.err = contributed[g][reduced + 1].err
               /\ m.grid = UNION {contributed[g][reduced + 1].grid : g \in Elems}
               /\ DOMAIN m = {"id", "tid", "src", "k", "err", "grid"}
               /\ net' = net \cup {<<d, m>> : d \in (IF m.id = "receive_grid" THEN {Root} ELSE Elems)}
  <1> DEFINE C(g) == contributed[g][reduced + 1]
             cs == {C(g) : g \in Elems}
             S == {c.err : c \in cs}
             err == CHOOSE x \in S : \A c \in cs : c.err <= x
             grid == UNION {c.grid : c \in cs}
  <1>1. \A g \in Elems : C(g) \in Messages /\ C(g).id \in Reduced
    <2> TAKE g \in Elems
    <2>1. reduced + 1 \in 1 .. Len(contributed[g]) /\ contributed[g] \in Seq(Messages)
      BY DEF CompleteReduction, Safe, Typed
    <2>2. QED
      BY <2>1 DEF Safe, Contributed
  <1>2. PICK first \in cs :
          LET m == Message(first.id, CommonId(cs), -1, reduced, err, grid)
          IN  net' = net \cup {<<d, m>> : d \in (IF first.id = "receive_grid" THEN {Root} ELSE Elems)}
    BY DEF CompleteReduction
  <1>3. PICK f \in Elems : first = C(f)
    OBVIOUS
  <1>4. err \in S
    <2>1. S \in SUBSET {0, 2 * Tolerance} /\ S # {}
      BY <1>1, <1>3 DEF Messages
    <2>2. err = CHOOSE x \in S : \A c \in S : c <= x
      OBVIOUS
    <2>3. QED
      BY <2>1, <2>2, LargestError
  <1>5. CommonId(cs) \in Tids
    <2>1. first.tid \in Tids /\ 0 \in Tids /\ first \in cs
      BY <1>1, <1>3, WorkgroupAssumption DEF Messages, Tids
    <2> HIDE DEF cs
    <2>2. QED
      BY <2>1 DEF CommonId
  <1>6. grid \in SUBSET Elems /\ grid = UNION {C(g).grid : g \in Elems}
    BY <1>1 DEF Messages
  <1>7. \E g \in Elems : err = C(g).err
    <2> HIDE DEF err, C
    <2>1. QED
      BY <1>4
  <1>8. err \in {0, 2 * Tolerance} /\ first.id \in Reduced
    BY <1>1, <1>3, <1>7 DEF Messages
  <1> DEFINE m == Message(first.id, CommonId(cs), -1, reduced, err, grid)
  <1> HIDE DEF err, grid, cs
  <1>9. m \in Messages
    BY <1>5, <1>6, <1>8 DEF Message, Messages, Reduced, Continuations, Safe, Typed
  <1>10. /\ m.id = first.id /\ m.src = -1 /\ m.k = reduced /\ m.err = err /\ m.grid = grid
         /\ DOMAIN m = {"id", "tid", "src", "k", "err", "grid"}
    BY DEF Message
  <1>11. net' = net \cup {<<d, m>> : d \in (IF m.id = "receive_grid" THEN {Root} ELSE Elems)}
    BY <1>2, <1>10
  <1> HIDE DEF m
  <1>12. QED
    BY <1>3, <1>6, <1>7, <1>8, <1>9, <1>10, <1>11

LEMMA SafeReduction ==
  ASSUME Safe, CompleteReduction
  PROVE  Safe'
  <1>1. PICK m \in Messages :
          net' = net \cup {<<d, m>> : d \in (IF m.id = "receive_grid" THEN {Root} ELSE Elems)}
    BY ReductionMessage
  <1>2. Root \in Elems
    BY WorkgroupAssumption DEF Root, Elems
  <1>3. UNCHANGED <<last_task, tasks, buffers, busy, contributed, status>> /\ reduced' = reduced + 1
    BY DEF CompleteReduction
  <1>4. Typed'
    BY <1>1, <1>2, <1>3 DEF Safe, Typed
  <1>5. TasksWait' /\ Sorted' /\ Contributed' /\ NoStrandedMessage'
    BY <1>3 DEF Safe, TasksWait, Sorted, Contributed, NoStrandedMessage, Alive
  <1>6. QED
    BY <1>4, <1>5 DEF Safe

LEMMA SafeLaunch ==
  ASSUME Safe, Launch
  PROVE  Safe'
  <1> DEFINE m == Message("create", last_task, -1, 0, 0, {})
  <1>1. last_task \in Tids /\ last_task' \in 0 .. NTasks
    BY WorkgroupAssumption DEF Launch, Safe, Typed, Tids
  <1>2. m \in Messages
    BY <1>1 DEF Message, Messages
  <1>3. /\ net' = net \cup {<<e, m>> : e \in Elems}
        /\ UNCHANGED <<tasks, buffers, busy, contributed, reduced, status>>
    BY DEF Launch
  <1> HIDE DEF m
  <1>4. Typed'
    BY <1>1, <1>2, <1>3 DEF Safe, Typed
  <1>5. TasksWait' /\ Sorted' /\ Contributed' /\ NoStrandedMessage'
    BY <1>3 DEF Safe, TasksWait, Sorted, Contributed, NoStrandedMessage, Alive
  <1>6. QED
    BY <1>4, <1>5 DEF Safe

LEMMA SafeNext == Safe /\ [Next]_vars => Safe'
  <1> SUFFICES ASSUME Safe, [Next]_vars PROVE Safe'
    OBVIOUS
  <1>1. CASE Launch
    BY <1>1, SafeLaunch
  <1>2. ASSUME NEW e \in Elems, NEW d \in net, Create(e, d) \/ Resume(e, d) \/ Buffer(e, d)
        PROVE  Safe'
    BY <1>2, SafeCreate, SafeResume, SafeBuffer
  <1>3. ASSUME NEW e \in Elems, TryContinue(e) PROVE Safe'
    BY <1>3, SafeTryContinue
  <1>4. CASE CompleteReduction
    BY <1>4, SafeReduction
  <1>5. CASE UNCHANGED vars
    BY <1>5 DEF vars, Safe, Typed, TasksWait, Sorted, Contributed, NoStrandedMessage, Alive
  <1>6. QED
    BY <1>1, <1>2, <1>3, <1>4, <1>5 DEF Next, Running, Stopped

(***************************************************************************)
(* No message is stranded (resume, buffer_ and try_continue_): for any     *)
(* number of elements and iterations, one or two tasks and whatever number *)
(* the tasks start from, a task that waits, outside of try_continue_, has  *)
(* no message in the buffer of the continuation it waits for.              *)
(***************************************************************************)
THEOREM NothingStranded == Spec => []NoStrandedMessage
  <1>1. Safe => NoStrandedMessage
    BY DEF Safe
  <1>2. QED
    BY <1>1, SafeInit, SafeNext, PTL DEF Spec

-----------------------------------------------------------------------------
(* One task, and all elements start from the same number. *)
OneStart == NTasks = 1 /\ \E k : InitialIt = {k}

It0 == CHOOSE k \in InitialIt : TRUE

(* Whether the j-th contribution of an element is its last one. *)
Stops(j) ==
  \/ It0 + j - 1 >= MaxIters
  \/ Tolerance = 0 /\ j > 1

EndIt(j) == IF Tolerance = 0 /\ j > 1 THEN It0 + j - 1 ELSE It0 + j

(* The j-th contribution of e, and what the last completed reduction gave. *)
Contribution(e, j) ==
  IF Stops(j) THEN Message("receive_grid", 0, e, EndIt(j), 0, {e})
  ELSE Message("receive_max_error", 0, e, It0 + j, 2 * Tolerance, {})

Result == Message("receive_max_error", 0, -1, reduced - 1, 2 * Tolerance, {})

Count(e) == Len(contributed[e])

(***************************************************************************)
(* Where element e is: it has taken part in all completed reductions, and  *)
(* perhaps in the next one, and its number of iterations follows.          *)
(***************************************************************************)
Place(e) ==
  LET s == tasks[e][0]  c == Count(e)
  IN  \/ /\ s = NoTask
         /\ c = 0 \/ Stops(c)
      \/ /\ s.continuation = "receive_ghost" /\ s.it = It0 + c + 1
         /\ c = reduced /\ ~Stops(c + 1)
         /\ c > 0 => ~Stops(c)
      \/ /\ s.continuation = "receive_max_error" /\ s.it = It0 + c
         /\ c > 0 /\ ~Stops(c)
      \/ /\ s.continuation = "receive_grid" /\ s.it = EndIt(c)
         /\ e = Root /\ c > 0 /\ Stops(c)

Steps(e) ==
  /\ Count(e) \in {reduced, reduced + 1}
  /\ \A j \in 1 .. Count(e) :
       contributed[e][j] = Contribution(e, j) /\ (j < Count(e) => ~Stops(j))
  /\ Place(e)

(* e waits for the result of the reduction completed last. *)
Expects(e) == tasks[e][0].continuation = "receive_max_error" /\ Count(e) = reduced

(* Such a result is taken when it comes, never buffered. *)
Results(e) ==
  /\ buffers[e][0]["receive_max_error"] = << >>
  /\ \A d \in net : d[1] = e /\ d[2].id = "receive_max_error" => d[2] = Result /\ Expects(e)

Creations(e) ==
  /\ \A d \in net : d[1] = e /\ d[2].id = "create" =>
       d[2] = Message("create", 0, -1, 0, 0, {}) /\ ~Alive(e, 0) /\ Count(e) = 0
  /\ last_task = 0 => ~Alive(e, 0) /\ Count(e) = 0
  /\ last_task > 0 \/ net = {}

InStep == \A e \in Elems : Steps(e) /\ Results(e) /\ Creations(e)

-----------------------------------------------------------------------------
LEMMA OneStartFacts ==
  ASSUME OneStart
  PROVE  /\ Tids = {0} /\ It0 \in Int /\ InitialIt = {It0} /\ 0 \in Elems
         /\ MaxIters \in Int /\ Tolerance \in Nat
  <1>1. PICK k : InitialIt = {k}
    BY DEF OneStart
  <1>2. k \in Int /\ It0 = k
    BY <1>1, WorkgroupAssumption DEF It0
  <1>3. Tids = {0}
    BY DEF OneStart, Tids
  <1>4. QED
    BY <1>1, <1>2, <1>3, WorkgroupAssumption DEF Elems

(* What a turn of e leaves behind when it has contributed c times. *)
Turn(e, c, o) ==
  \/ /\ Stops(c + 1)
     /\ o.contribution = << Contribution(e, c + 1) >>
     /\ \/ o.task = NoTask
        \/ /\ e = Root /\ o.task.continuation = "receive_grid"
           /\ o.task.it = EndIt(c + 1)
  \/ /\ ~Stops(c + 1) /\ o.task.it = It0 + c + 1
     /\ \/ /\ o.task.continuation = "receive_max_error"
           /\ o.contribution = << Contribution(e, c + 1) >>
        \/ o.task.continuation = "receive_ghost" /\ o.contribution = << >>

LEMMA ConvergeLoopTurn ==
  ASSUME OneStart, NEW e \in Elems, NEW s \in Tasks, NEW c \in Nat,
         s.it = It0 + c, s.converged <=> Tolerance = 0 /\ c > 0
  PROVE  Turn(e, c, ConvergeLoop(e, 0, s))
  <1> DEFINE n == [s EXCEPT !.it = IF s.converged THEN @ ELSE @ + 1]
             x == [n EXCEPT !.nRecvd = 0]
  <1>1. It0 \in Int /\ MaxIters \in Int
    BY OneStartFacts
  <1>2. Stops(c + 1) <=> s.converged \/ s.it >= MaxIters
    BY <1>1 DEF Stops
  <1>3. n \in Tasks /\ n.it = IF s.converged THEN s.it ELSE s.it + 1
    BY DEF Tasks
  <1> HIDE DEF n
  <1>4. CASE Stops(c + 1)
    <2>1. ConvergeLoop(e, 0, s) = OnConverge(e, 0, n)
      BY <1>2, <1>4 DEF ConvergeLoop, n
    <2>2. n.it = EndIt(c + 1)
      BY <1>1, <1>3 DEF EndIt
    <2>3. [n EXCEPT !.continuation = "receive_grid"].it = n.it
      BY <1>3 DEF Tasks
    <2>4. [n EXCEPT !.continuation = "receive_grid"].continuation = "receive_grid"
      BY <1>3 DEF Tasks
    <2>5. Contribution(e, c + 1) = Message("receive_grid", 0, e, n.it, 0, {e})
      BY <1>4, <2>2 DEF Contribution
    <2> DEFINE o == OnConverge(e, 0, n)
    <2>6. /\ o.task = IF e = Root THEN [n EXCEPT !.continuation = "receive_grid"] ELSE NoTask
          /\ o.contribution = << Contribution(e, c + 1) >>
      BY <2>5 DEF OnConverge, Outcome
    <2> HIDE DEF o
    <2>7. Turn(e, c, o)
      BY <1>4, <2>2, <2>3, <2>4, <2>6 DEF Turn
    <2>8. QED
      BY <2>1, <2>7 DEF o
  <1>5. CASE ~Stops(c + 1)
    <2>1. x \in Tasks /\ x.it = It0 + c + 1
      BY <1>1, <1>2, <1>3, <1>5 DEF Tasks
    <2> HIDE DEF x
    <2>2. \A r \in {"receive_max_error", "receive_ghost"} :
            [x EXCEPT !.continuation = r].it = x.it /\ [x EXCEPT !.continuation = r].continuation = r
      BY <2>1 DEF Tasks
    <2>3. Turn(e, c, CheckAndCompute(e, 0, x, {}))
      <3>1. Contribution(e, c + 1) = Message("receive_max_error", 0, e, x.it, 2 * Tolerance, {})
        <4>1. It0 + (c + 1) = x.it
          BY <1>1, <2>1
        <4>2. QED
          BY <1>5, <4>1 DEF Contribution
      <3>2. QED
        BY <1>5, <2>1, <2>2, <3>1 DEF Turn, CheckAndCompute, Outcome
    <2>4. Turn(e, c, Outcome([x EXCEPT !.continuation = "receive_ghost"], Neighbors(e), << >>))
      BY <1>5, <2>1, <2>2 DEF Turn, Outcome
    <2>5. ConvergeLoop(e, 0, s) \in
            {CheckAndCompute(e, 0, x, {}),
             Outcome([x EXCEPT !.continuation = "receive_ghost"], Neighbors(e), << >>)}
      BY <1>2, <1>5 DEF ConvergeLoop, n, x
    <2>6. QED
      BY <2>3, <2>4, <2>5
  <1>6. QED
    BY <1>4, <1>5

(* A turn on e keeps all elements in step. *)
LEMMA TurnInStep ==
  ASSUME OneStart, Safe, InStep, NEW e \in Elems, NEW o, Possible(e, 0, o),
         NEW n \in SUBSET net, Apply(e, 0, o, n), ContinueWith(e, 0, o),
         UNCHANGED <<last_task, reduced>>, last_task > 0,
         \A f \in Elems \ {e} : buffers'[f][0] = buffers[f][0],
         buffers'[e][0]["receive_max_error"] = << >>,
         \A d \in n : d[1] = e => d[2].id \notin {"receive_max_error", "create"},
         \/ Turn(e, reduced, o) /\ Count(e) = reduced /\ (reduced > 0 => ~Stops(reduced))
         \/ o.task = NoTask /\ o.contribution = << >> /\ Count(e) > 0 /\ Stops(Count(e))
  PROVE  InStep'
  <1>1. Typed /\ 0 \in Tids /\ n \in SUBSET (Elems \X Messages)
    BY OneStartFacts DEF Safe, Typed
  <1>2. /\ net' = n \cup {<<d, Message("receive_ghost", 0, e, o.task.it, 0, {})>> : d \in o.ghosts}
        /\ contributed' = [contributed EXCEPT ![e] = @ \o o.contribution]
    BY DEF Apply
  <1>3. /\ tasks'[e][0] = o.task /\ \A f \in Elems \ {e} : tasks'[f][0] = tasks[f][0]
        /\ contributed' \in [Elems -> Seq(Messages)]
    BY <1>1, ApplyTyped
  <1>4. \A f \in Elems \ {e} : contributed'[f] = contributed[f]
    BY <1>1, <1>2 DEF Typed
  <1>5. contributed'[e] = contributed[e] \o o.contribution /\ contributed[e] \in Seq(Messages)
    BY <1>1, <1>2 DEF Typed
  <1>6. ASSUME NEW d \in net', d[2].id \in {"receive_max_error", "create"}
        PROVE  d \in n /\ d \in net /\ d[1] # e
    <2>1. d \in n
      BY <1>2, <1>6 DEF Message
    <2>2. QED
      BY <1>6, <2>1
  <1>7. ASSUME NEW f \in Elems \ {e}
        PROVE  Steps(f)' /\ Results(f)' /\ Creations(f)'
    <2>1. Steps(f) /\ Results(f) /\ Creations(f)
      BY DEF InStep
    <2>2. Steps(f)'
      BY <1>3, <1>4, <2>1 DEF Steps, Place, Count, Contribution, Message
    <2>3. Results(f)'
      BY <1>3, <1>4, <1>6, <2>1 DEF Results, Expects, Count, Result, Message
    <2>4. Creations(f)'
      BY <1>3, <1>4, <1>6, <2>1 DEF Creations, Count, Alive, Message
    <2>5. QED
      BY <2>2, <2>3, <2>4
  <1>8. Results(e)' /\ Creations(e)'
    BY <1>6 DEF Results, Creations
  <1>9. Steps(e)'
    <2>1. reduced \in Nat /\ Steps(e)
      BY DEF Safe, Typed, InStep
    <2>2. CASE o.task = NoTask /\ o.contribution = << >> /\ Count(e) > 0 /\ Stops(Count(e))
      <3>1. contributed'[e] = contributed[e]
        BY <1>5, <2>2
      <3>2. QED
        BY <1>3, <2>1, <2>2, <3>1 DEF Steps, Place, Count
    <2>3. CASE Turn(e, reduced, o) /\ Count(e) = reduced /\ (reduced > 0 => ~Stops(reduced))
      <3> DEFINE c == Contribution(e, reduced + 1)
      <3>1. CASE o.contribution = << c >>
        <4>1. o.contribution \in Seq(Messages)
          BY <3>1 DEF Possible
        <4>2. /\ Count(e)' = reduced + 1 /\ contributed'[e][reduced + 1] = c
              /\ \A j \in 1 .. reduced : contributed'[e][j] = contributed[e][j]
          <5>1. PICK q \in Seq(Messages) : q = contributed[e] /\ Len(q) = reduced
            BY <1>5, <2>3 DEF Count
          <5> HIDE DEF c
          <5>2. contributed'[e] = q \o <<c>>
            BY <1>5, <3>1, <5>1
          <5>3. /\ Len(q \o <<c>>) = reduced + 1 /\ (q \o <<c>>)[reduced + 1] = c
                /\ \A j \in 1 .. reduced : (q \o <<c>>)[j] = q[j]
            <6>1. c \in Messages
              BY <3>1 DEF Possible
            <6>2. /\ Len(q \o <<c>>) = Len(q) + 1 /\ (q \o <<c>>)[Len(q) + 1] = c
                  /\ \A j \in 1 .. Len(q) : (q \o <<c>>)[j] = q[j]
              BY <6>1
            <6>3. QED
              BY <5>1, <6>2
          <5>4. QED
            BY <5>1, <5>2, <5>3 DEF Count
        <4>3. \A j \in 1 .. reduced : contributed[e][j] = Contribution(e, j) /\ ~Stops(j)
          BY <2>1, <2>3 DEF Steps
        <4>4. ASSUME NEW j \in 1 .. Count(e)'
              PROVE  contributed'[e][j] = Contribution(e, j) /\ (j < Count(e)' => ~Stops(j))
          <5>1. j \in 1 .. reduced \/ j = reduced + 1
            BY <2>1, <4>2
          <5>2. QED
            BY <2>1, <4>2, <4>3, <5>1
        <4>5. Place(e)'
          <5>1. Count(e)' = reduced + 1 /\ Count(e)' > 0 /\ tasks'[e][0] = o.task
            BY <1>3, <2>1, <4>2
          <5>2. CASE Stops(reduced + 1)
            <6>1. \/ o.task = NoTask
                  \/ /\ e = Root /\ o.task.continuation = "receive_grid"
                     /\ o.task.it = EndIt(reduced + 1)
              BY <2>3, <5>2 DEF Turn
            <6>2. QED
              BY <5>1, <5>2, <6>1 DEF Place
          <5>3. CASE ~Stops(reduced + 1)
            <6>1. o.task.continuation = "receive_max_error" /\ o.task.it = It0 + reduced + 1
              BY <2>3, <3>1, <5>3 DEF Turn
            <6>2. It0 + reduced + 1 = It0 + (reduced + 1)
              BY <2>1, OneStartFacts
            <6>3. QED
              BY <5>1, <5>3, <6>1, <6>2 DEF Place
          <5>4. QED
            BY <5>2, <5>3
        <4>6. QED
          BY <2>1, <4>2, <4>4, <4>5 DEF Steps
      <3>2. CASE o.contribution = << >> /\ ~Stops(reduced + 1)
        <4>1. contributed'[e] = contributed[e]
          BY <1>5, <3>2
        <4>2. o.task.it = It0 + reduced + 1 /\ o.task.continuation = "receive_ghost"
          BY <2>3, <3>2 DEF Turn
        <4>3. QED
          BY <1>3, <2>1, <2>3, <3>2, <4>1, <4>2 DEF Steps, Place, Count
      <3>3. QED
        BY <2>3, <3>1, <3>2 DEF Turn
    <2>4. QED
      BY <2>2, <2>3
  <1>10. QED
    BY <1>7, <1>8, <1>9 DEF InStep

-----------------------------------------------------------------------------
LEMMA InStepInit == OneStart /\ Init => InStep
  <1> SUFFICES ASSUME OneStart, Init PROVE InStep
    OBVIOUS
  <1>1. \A e \in Elems : /\ tasks[e][0] = NoTask /\ contributed[e] = << >>
                         /\ buffers[e][0]["receive_max_error"] = << >>
    BY OneStartFacts DEF Init, Continuations
  <1>2. net = {} /\ reduced = 0
    BY DEF Init
  <1>3. QED
    BY <1>1, <1>2 DEF InStep, Steps, Place, Results, Creations, Count, Alive

LEMMA InStepLaunch ==
  ASSUME OneStart, Safe, InStep, Launch
  PROVE  InStep'
  <1>1. last_task = 0 /\ last_task' = 1
    BY DEF Launch, OneStart, Safe, Typed
  <1> DEFINE m == Message("create", 0, -1, 0, 0, {})
  <1>2. /\ net' = net \cup {<<e, m>> : e \in Elems}
        /\ UNCHANGED <<tasks, buffers, busy, contributed, reduced>>
    BY <1>1 DEF Launch
  <1>3. m.id = "create"
    BY DEF Message
  <1> SUFFICES ASSUME NEW e \in Elems PROVE Steps(e)' /\ Results(e)' /\ Creations(e)'
    BY DEF InStep
  <1>4. Steps(e) /\ Results(e) /\ Creations(e) /\ net = {}
    BY <1>1 DEF InStep, Creations
  <1>5. \A d \in net' : d[2] = m
    BY <1>2, <1>4
  <1>6. Steps(e)'
    BY <1>2, <1>4 DEF Steps, Place, Count
  <1>7. Results(e)'
    BY <1>2, <1>3, <1>4, <1>5 DEF Results
  <1>8. Creations(e)'
    BY <1>1, <1>2, <1>4, <1>5 DEF Creations, Alive, Count
  <1>9. QED
    BY <1>6, <1>7, <1>8

LEMMA CreateTurn ==
  ASSUME OneStart, Safe, InStep, NEW e \in Elems, NEW d \in net, Create(e, d)
  PROVE  /\ d[1] = e /\ d[2].id = "create" /\ d[2].tid = 0
         /\ tasks[e][0] = NoTask /\ Count(e) = 0 /\ reduced = 0
         /\ UNCHANGED <<last_task, buffers, reduced, status>>
         /\ \E s \in Tasks : LET o == ConvergeLoop(e, 0, s)
                             IN  /\ Possible(e, 0, o) /\ Turn(e, 0, o)
                                 /\ Apply(e, 0, o, net \ {d}) /\ ContinueWith(e, 0, o)
  <1>1. /\ Tids = {0} /\ InitialIt = {It0} /\ It0 \in Int
        /\ Typed /\ Steps(e) /\ Creations(e)
    BY OneStartFacts DEF Safe, InStep
  <1>2. d[1] = e /\ d[2].id = "create" /\ d[2].tid = 0
    BY <1>1 DEF Create, Typed, Messages
  <1>3. tasks[e][0] = NoTask /\ Count(e) = 0 /\ reduced = 0
    BY <1>1, <1>2 DEF Creations, Alive, Steps, Typed
  <1> DEFINE s == [NoTask EXCEPT !.it = It0]
             o == ConvergeLoop(e, 0, s)
  <1>4. /\ Apply(e, 0, o, net \ {d}) /\ ContinueWith(e, 0, o)
        /\ UNCHANGED <<last_task, buffers, reduced, status>>
    BY <1>1, <1>2 DEF Create
  <1>5. s \in Tasks /\ s.it = It0 + 0 /\ s.converged = FALSE
    <2>1. NoTask \in Tasks /\ NoTask.converged = FALSE
      BY DEF NoTask, Tasks
    <2>2. s \in Tasks /\ s.it = It0
      BY <1>1, <2>1 DEF Tasks
    <2>3. s.converged = NoTask.converged
      BY DEF NoTask
    <2>4. It0 + 0 = It0
      BY <1>1
    <2>5. QED
      BY <2>1, <2>2, <2>3, <2>4
  <1> HIDE DEF s
  <1>6. Possible(e, 0, o)
    BY <1>1, <1>5, ConvergeLoopPossible
  <1>7. Turn(e, 0, o)
    BY <1>5, ConvergeLoopTurn
  <1>8. QED
    BY <1>2, <1>3, <1>4, <1>5, <1>6, <1>7

LEMMA InStepCreate ==
  ASSUME OneStart, Safe, InStep, NEW e \in Elems, NEW d \in net, Create(e, d)
  PROVE  InStep'
  <1>1. Typed /\ Results(e) /\ Creations(e)
    BY DEF Safe, InStep
  <1>2. /\ d[1] = e /\ d[2].id = "create"
        /\ tasks[e][0] = NoTask /\ Count(e) = 0 /\ reduced = 0
        /\ UNCHANGED <<last_task, buffers, reduced>>
    BY CreateTurn
  <1>3. PICK o : /\ Possible(e, 0, o) /\ Turn(e, 0, o)
                 /\ Apply(e, 0, o, net \ {d}) /\ ContinueWith(e, 0, o)
    BY CreateTurn
  <1>4. last_task > 0
    BY <1>1 DEF Creations, Typed
  <1>5. ASSUME NEW x \in net \ {d}, x[1] = e PROVE x[2].id \notin {"receive_max_error", "create"}
    <2>1. x[2].id # "receive_max_error"
      BY <1>1, <1>2, <1>5 DEF Results, Expects, NoTask
    <2>2. x[2].id # "create"
      <3> SUFFICES ASSUME x[2].id = "create" PROVE FALSE
        OBVIOUS
      <3>1. x[2] = d[2]
        BY <1>1, <1>2, <1>5 DEF Creations
      <3>2. x \in Elems \X Messages /\ d \in Elems \X Messages
        BY <1>1 DEF Typed
      <3>3. x = <<e, x[2]>> /\ d = <<e, d[2]>>
        BY <1>2, <1>5, <3>2
      <3>4. x = d
        BY <3>1, <3>3
      <3>5. QED
        BY <3>4
    <2>3. QED
      BY <2>1, <2>2
  <1>6. buffers'[e][0]["receive_max_error"] = << >>
    BY <1>1, <1>2 DEF Results
  <1>7. net \ {d} \in SUBSET net
    OBVIOUS
  <1>8. QED
    BY <1>2, <1>3, <1>4, <1>5, <1>6, <1>7, TurnInStep

(* What the task of e does when the continuation it waits for is resumed; *)
(* the result of a reduction comes straight from the network.             *)
LEMMA ContinueTurn ==
  ASSUME OneStart, Safe, InStep, NEW e \in Elems, NEW m \in Messages,
         tasks[e][0].continuation = m.id, Alive(e, 0),
         m.id = "receive_max_error" => <<e, m>> \in net
  PROVE  LET o == Continue(e, 0, tasks[e][0], m)
         IN  /\ Possible(e, 0, o) /\ m.id \in Continuations
             /\ \/ Turn(e, reduced, o) /\ Count(e) = reduced /\ (reduced > 0 => ~Stops(reduced))
                \/ /\ m.id = "receive_grid" /\ o = Outcome(NoTask, {}, << >>)
                   /\ Count(e) > 0 /\ Stops(Count(e))
             /\ m.id = "receive_max_error" =>
                  /\ Count(e) = reduced /\ tasks[e][0].it = It0 + reduced
                  /\ \E x \in Tasks : o = ConvergeLoop(e, 0, x)
  <1> DEFINE s == tasks[e][0]
             o == Continue(e, 0, s, m)
  <1>1. /\ Typed /\ Steps(e) /\ Results(e) /\ Creations(e) /\ 0 \in Tids
        /\ It0 \in Int /\ Tolerance \in Nat
    BY OneStartFacts DEF Safe, InStep
  <1>2. s \in Tasks /\ s # NoTask /\ reduced \in Nat /\ Count(e) \in Nat
    BY <1>1 DEF Typed, Alive, Count
  <1>3. s.continuation \in Continuations
    BY <1>1 DEF Safe, TasksWait
  <1>4. Possible(e, 0, o)
    BY <1>1, <1>2, <1>3, ContinuePossible
  <1>5. CASE m.id = "receive_ghost"
    <2> DEFINE x == [s EXCEPT !.nRecvd = @ + 1]
    <2>1. /\ Count(e) = reduced /\ s.it = It0 + reduced + 1 /\ ~Stops(reduced + 1)
          /\ reduced > 0 => ~Stops(reduced)
      BY <1>1, <1>2, <1>5 DEF Steps, Place
    <2>2. x \in Tasks /\ x.it = s.it /\ x.continuation = "receive_ghost"
      BY <1>2, <1>5 DEF Tasks
    <2> HIDE DEF x
    <2>3. Turn(e, reduced, Outcome(x, {}, << >>))
      BY <2>1, <2>2 DEF Turn, Outcome
    <2>4. Turn(e, reduced, CheckAndCompute(e, 0, x, {}))
      <3>1. /\ [x EXCEPT !.continuation = "receive_max_error"].it = x.it
            /\ [x EXCEPT !.continuation = "receive_max_error"].continuation = "receive_max_error"
        BY <2>2 DEF Tasks
      <3>2. It0 + reduced + 1 = It0 + (reduced + 1)
        BY <1>1, <1>2
      <3>3. Contribution(e, reduced + 1)
              = Message("receive_max_error", 0, e, x.it, 2 * Tolerance, {})
        BY <2>1, <2>2, <3>2 DEF Contribution
      <3>4. QED
        BY <2>1, <2>2, <3>1, <3>3 DEF Turn, CheckAndCompute, Outcome
    <2>5. o \in {Outcome(x, {}, << >>), CheckAndCompute(e, 0, x, {})}
      BY <1>5 DEF Continue, ReceiveGhost, x
    <2>6. Turn(e, reduced, o)
      BY <2>3, <2>4, <2>5
    <2> HIDE DEF o
    <2>7. QED
      BY <1>3, <1>4, <1>5, <2>1, <2>6 DEF o
  <1>6. CASE m.id = "receive_max_error"
    <2> DEFINE x == [s EXCEPT !.converged = (m.err <= Tolerance)]
    <2>1. m = Result /\ Expects(e) /\ Count(e) = reduced
      BY <1>1, <1>6 DEF Results, Expects
    <2>2. reduced > 0 /\ s.it = It0 + reduced /\ ~Stops(reduced)
      BY <1>1, <1>2, <1>6, <2>1 DEF Steps, Place
    <2>3. m.err = 2 * Tolerance
      BY <2>1 DEF Result, Message
    <2>4. PICK b \in BOOLEAN : x = [s EXCEPT !.converged = b] /\ (b <=> m.err <= Tolerance)
      <3>1. (m.err <= Tolerance) \in BOOLEAN
        OBVIOUS
      <3>2. QED
        BY <3>1, Zenon
    <2>5. x \in Tasks /\ x.it = It0 + reduced /\ x.converged = b
      BY <1>2, <2>2, <2>4 DEF Tasks
    <2>6. b <=> Tolerance = 0 /\ reduced > 0
      BY <1>1, <2>2, <2>3, <2>4
    <2>7. Turn(e, reduced, ConvergeLoop(e, 0, x))
      <3> HIDE DEF x
      <3>1. QED
        BY <1>2, <2>5, <2>6, ConvergeLoopTurn
    <2>8. o = ConvergeLoop(e, 0, x)
      BY <1>6 DEF Continue, ReceiveMaxError
    <2> HIDE DEF o, x
    <2>9. Turn(e, reduced, o) /\ \E y \in Tasks : o = ConvergeLoop(e, 0, y)
      BY <2>5, <2>7, <2>8
    <2>10. QED
      BY <1>3, <1>4, <1>6, <2>1, <2>2, <2>9 DEF o, s
  <1>7. CASE m.id = "receive_grid"
    <2>1. Count(e) > 0 /\ Stops(Count(e))
      BY <1>1, <1>2, <1>7 DEF Steps, Place
    <2>2. o = Outcome(NoTask, {}, << >>)
      BY <1>7 DEF Continue
    <2> HIDE DEF o
    <2>3. QED
      BY <1>3, <1>4, <1>7, <2>1, <2>2 DEF o
  <1>8. QED
    BY <1>3, <1>5, <1>6, <1>7 DEF Continuations

LEMMA InStepContinue ==
  ASSUME OneStart, Safe, InStep, NEW e \in Elems, NEW m \in Messages, NEW n \in SUBSET net,
         tasks[e][0].continuation = m.id, Alive(e, 0),
         LET o == Continue(e, 0, tasks[e][0], m)
         IN  Apply(e, 0, o, n) /\ ContinueWith(e, 0, o),
         UNCHANGED <<last_task, reduced>>,
         \A f \in Elems \ {e} : buffers'[f][0] = buffers[f][0],
         buffers'[e][0]["receive_max_error"] = << >>,
         m.id = "receive_max_error" => /\ <<e, m>> \in net /\ <<e, m>> \notin n
  PROVE  InStep'
  <1> DEFINE s == tasks[e][0]
             o == Continue(e, 0, s, m)
  <1>1. /\ Typed /\ Results(e) /\ Creations(e) /\ 0 \in Tids
    BY OneStartFacts DEF Safe, InStep
  <1>2. /\ Possible(e, 0, o)
        /\ \/ Turn(e, reduced, o) /\ Count(e) = reduced /\ (reduced > 0 => ~Stops(reduced))
           \/ o.task = NoTask /\ o.contribution = << >> /\ Count(e) > 0 /\ Stops(Count(e))
    BY ContinueTurn DEF Outcome
  <1>3. last_task > 0
    BY <1>1 DEF Creations, Typed
  <1>4. ASSUME NEW x \in n, x[1] = e PROVE x[2].id \notin {"receive_max_error", "create"}
    <2>1. x[2].id # "create"
      BY <1>1, <1>4 DEF Creations
    <2>2. x[2].id # "receive_max_error"
      <3> SUFFICES ASSUME x[2].id = "receive_max_error" PROVE FALSE
        OBVIOUS
      <3>1. x[2] = Result /\ Expects(e) /\ x = <<e, x[2]>>
        BY <1>1, <1>4 DEF Results, Typed
      <3>2. m.id = "receive_max_error"
        BY <3>1 DEF Expects
      <3>3. m = Result
        BY <1>1, <3>2 DEF Results
      <3>4. QED
        BY <3>1, <3>2, <3>3
    <2>3. QED
      BY <2>1, <2>2
  <1>5. Apply(e, 0, o, n) /\ ContinueWith(e, 0, o)
    OBVIOUS
  <1> HIDE DEF o, s
  <1>6. QED
    BY <1>2, <1>3, <1>4, <1>5, TurnInStep

LEMMA InStepResume ==
  ASSUME OneStart, Safe, InStep, NEW e \in Elems, NEW d \in net, Resume(e, d)
  PROVE  InStep'
  <1> DEFINE m == d[2]
  <1>1. Tids = {0} /\ d \in Elems \X Messages /\ Results(e)
    BY OneStartFacts DEF Safe, Typed, InStep
  <1>2. m \in Messages /\ m.tid = 0 /\ d = <<e, m>>
    BY <1>1 DEF Resume, Messages
  <1>3. /\ tasks[e][0].continuation = m.id /\ Alive(e, 0)
        /\ LET o == Continue(e, 0, tasks[e][0], m)
           IN  Apply(e, 0, o, net \ {d}) /\ ContinueWith(e, 0, o)
        /\ UNCHANGED <<last_task, buffers, reduced>>
    BY <1>2 DEF Resume, Accepts, Alive
  <1>4. buffers'[e][0]["receive_max_error"] = << >>
    BY <1>1, <1>3 DEF Results
  <1>5. net \ {d} \in SUBSET net /\ <<e, m>> \in net /\ <<e, m>> \notin net \ {d}
    BY <1>2
  <1> HIDE DEF m
  <1>6. QED
    BY <1>2, <1>3, <1>4, <1>5, InStepContinue


(* A message that is buffered is a ghost or the grid: results are expected. *)
LEMMA InStepBuffer ==
  ASSUME OneStart, Safe, InStep, NEW e \in Elems, NEW d \in net, Buffer(e, d)
  PROVE  InStep'
  <1> DEFINE m == d[2]
  <1>1. Tids = {0} /\ Typed /\ d \in Elems \X Messages
    BY OneStartFacts DEF Safe, Typed
  <1>2. /\ m \in Messages /\ m.tid = 0 /\ d[1] = e /\ m.id \in Continuations /\ ~Accepts(e, 0, m)
        /\ net' = net \ {d}
        /\ buffers' = [buffers EXCEPT ![e][0][m.id] = Append(@, m)]
        /\ UNCHANGED <<last_task, tasks, busy, contributed, reduced>>
    BY <1>1 DEF Buffer, Messages
  <1>3. m.id # "receive_max_error"
    <2> SUFFICES ASSUME m.id = "receive_max_error" PROVE FALSE
      OBVIOUS
    <2>1. Expects(e)
      BY <1>2 DEF InStep, Results
    <2>2. tasks[e][0].continuation = m.id /\ tasks[e][0] # NoTask
      BY <2>1 DEF Expects, NoTask
    <2>3. QED
      BY <1>2, <2>2 DEF Accepts
  <1>4. ASSUME NEW f \in Elems
        PROVE  buffers'[f][0]["receive_max_error"] = buffers[f][0]["receive_max_error"]
    BY <1>1, <1>2, <1>3 DEF Typed
  <1> HIDE DEF m
  <1> SUFFICES ASSUME NEW f \in Elems PROVE Steps(f)' /\ Results(f)' /\ Creations(f)'
    BY DEF InStep
  <1>5. Steps(f) /\ Results(f) /\ Creations(f)
    BY DEF InStep
  <1>6. Steps(f)'
    BY <1>2, <1>5 DEF Steps, Place, Count
  <1>7. Results(f)'
    BY <1>2, <1>4, <1>5 DEF Results, Expects, Count, Result
  <1>8. Creations(f)'
    BY <1>2, <1>5 DEF Creations, Alive, Count
  <1>9. QED
    BY <1>6, <1>7, <1>8

(* The message try_continue_ takes is one for the continuation it looks for. *)
LEMMA HeadOfBuffer ==
  ASSUME Safe, OneStart, NEW e \in Elems, NEW c \in Continuations, buffers[e][0][c] # << >>
  PROVE  LET m == Head(buffers[e][0][c])
         IN  m \in Messages /\ m.id = c /\ m \in ToSet(buffers[e][0][c])
  <1>1. 0 \in Tids /\ buffers \in [Elems -> [Tids -> [Continuations -> Seq(Messages)]]]
    BY OneStartFacts DEF Safe, Typed
  <1>2. PICK q \in Seq(Messages) : q = buffers[e][0][c] /\ q # << >>
    BY <1>1
  <1>3. 1 \in 1 .. Len(q) /\ Head(q) = q[1]
    BY <1>2
  <1>4. q[1] \in Messages /\ q[1] \in ToSet(q)
    BY <1>3 DEF ToSet
  <1>5. \A k \in 1 .. Len(q) : q[k].id = c
    BY <1>1, <1>2 DEF Safe, Sorted
  <1>6. QED
    BY <1>2, <1>3, <1>4, <1>5

LEMMA InStepTryContinue ==
  ASSUME OneStart, Safe, InStep, NEW e \in Elems, TryContinue(e)
  PROVE  InStep'
  <1> DEFINE c == tasks[e][0].continuation
             b == buffers[e][0][c]
  <1>1. /\ Tids = {0} /\ Typed /\ TasksWait /\ Sorted /\ Results(e)
        /\ UNCHANGED <<last_task, reduced>>
    BY OneStartFacts DEF Safe, InStep, TryContinue
  <1>2. busy[e] = 0
    BY <1>1 DEF TryContinue, Typed
  <1>3. Alive(e, 0) /\ c \in Continuations /\ b \in Seq(Messages)
    BY <1>1, <1>2 DEF TasksWait, None, Typed
  <1>4. CASE b = << >>
    <2>1. UNCHANGED <<last_task, tasks, buffers, net, contributed, reduced>>
      BY <1>2, <1>4 DEF TryContinue
    <2> SUFFICES ASSUME NEW f \in Elems PROVE Steps(f)' /\ Results(f)' /\ Creations(f)'
      BY DEF InStep
    <2>2. Steps(f) /\ Results(f) /\ Creations(f)
      BY DEF InStep
    <2>3. QED
      BY <2>1, <2>2 DEF Steps, Place, Count, Results, Expects, Result, Creations, Alive
  <1>5. CASE b # << >>
    <2> DEFINE m == Head(b)
    <2>1. m \in Messages /\ m.id = c
      BY <1>3, <1>5, HeadOfBuffer
    <2>2. c # "receive_max_error"
      BY <1>1, <1>5 DEF Results
    <2>3. /\ LET o == Continue(e, 0, tasks[e][0], m) IN Apply(e, 0, o, net) /\ ContinueWith(e, 0, o)
          /\ buffers' = [buffers EXCEPT ![e][0][m.id] = Tail(@)]
      BY <1>2, <1>5 DEF TryContinue
    <2>4. /\ \A f \in Elems \ {e} : buffers'[f][0] = buffers[f][0]
          /\ buffers'[e][0]["receive_max_error"] = << >>
      <3>1. m.id \in Continuations /\ m.id # "receive_max_error"
        BY <1>3, <2>1, <2>2
      <3>2. buffers[e][0]["receive_max_error"] = << >>
        BY <1>1 DEF Results
      <3> HIDE DEF m
      <3>3. QED
        BY <1>1, <2>3, <3>1, <3>2 DEF Typed, Continuations
    <2> HIDE DEF m, b
    <2>5. QED
      BY <1>1, <1>3, <2>1, <2>2, <2>3, <2>4, InStepContinue
  <1>6. QED
    BY <1>4, <1>5


LEMMA MessageFields ==
  ASSUME NEW m \in Messages
  PROVE  m = Message(m.id, m.tid, m.src, m.k, m.err, m.grid)
  BY DEF Message, Messages

(* Everybody waits for what a reduction gives, and the next one may start. *)
LEMMA InStepReduction ==
  ASSUME OneStart, Safe, InStep, CompleteReduction
  PROVE  InStep'
  <1> DEFINE j == reduced + 1
  <1>1. /\ Tids = {0} /\ Typed /\ 0 \in Elems /\ It0 \in Int /\ reduced \in Nat
        /\ UNCHANGED <<last_task, tasks, buffers, contributed>> /\ reduced' = j
    BY OneStartFacts DEF Safe, Typed, CompleteReduction
  <1>2. ASSUME NEW f \in Elems
        PROVE  /\ Count(f) = j /\ contributed[f][j] = Contribution(f, j)
               /\ Steps(f) /\ Results(f) /\ Creations(f)
    <2>1. Steps(f) /\ Results(f) /\ Creations(f)
      BY DEF InStep
    <2>2. Count(f) > reduced
      BY DEF CompleteReduction, Count
    <2>3. QED
      BY <1>1, <2>1, <2>2 DEF Steps
  <1>3. PICK f \in Elems, m \in Messages :
          LET first == contributed[f][j]
          IN  /\ m.id = first.id /\ first.id \in Reduced /\ m.src = -1 /\ m.k = reduced
              /\ \E g \in Elems : m.err = contributed[g][j].err
              /\ m.grid = UNION {contributed[g][j].grid : g \in Elems}
              /\ DOMAIN m = {"id", "tid", "src", "k", "err", "grid"}
              /\ net' = net \cup {<<d, m>> : d \in (IF m.id = "receive_grid" THEN {Root} ELSE Elems)}
    BY ReductionMessage
  <1>4. m.id = Contribution(f, j).id
    BY <1>2, <1>3
  <1>5. m.id # "create"
    BY <1>3 DEF Reduced
  <1>6. ASSUME m.id = "receive_max_error"
        PROVE  m = Result' /\ ~Stops(j)
    <2>1. ~Stops(j)
      BY <1>4, <1>6 DEF Contribution, Message
    <2>2. ASSUME NEW g \in Elems
          PROVE  contributed[g][j].err = 2 * Tolerance /\ contributed[g][j].grid = {}
      <3>1. contributed[g][j] = Message("receive_max_error", 0, g, It0 + j, 2 * Tolerance, {})
        BY <1>2, <2>1 DEF Contribution
      <3>2. QED
        BY <3>1 DEF Message
    <2>3. m.err = 2 * Tolerance /\ m.grid = {}
      BY <1>3, <2>2
    <2>4. m.tid = 0 /\ m.k = j - 1 /\ m.src = -1
      BY <1>1, <1>3 DEF Messages
    <2>5. m = Message("receive_max_error", 0, -1, j - 1, 2 * Tolerance, {})
      BY <1>6, <2>3, <2>4, MessageFields
    <2>6. QED
      BY <1>1, <2>1, <2>5 DEF Result
  <1> SUFFICES ASSUME NEW e \in Elems PROVE Steps(e)' /\ Results(e)' /\ Creations(e)'
    BY DEF InStep
  <1>7. Steps(e)'
    <2>1. Count(e)' = j /\ Count(e)' = Count(e)
      BY <1>1, <1>2 DEF Count
    <2>2. tasks[e][0].continuation # "receive_ghost" \/ tasks[e][0] = NoTask
      BY <1>1, <1>2 DEF Steps, Place
    <2>3. Place(e)'
      BY <1>1, <1>2, <2>1, <2>2 DEF Steps, Place, NoTask
    <2>4. QED
      BY <1>1, <1>2, <2>1, <2>3 DEF Steps, Contribution
  <1>8. Results(e)'
    <2>1. buffers'[e][0]["receive_max_error"] = << >>
      BY <1>1, <1>2 DEF Results
    <2>2. ASSUME NEW d \in net', d[1] = e, d[2].id = "receive_max_error"
          PROVE  d[2] = Result' /\ Expects(e)'
      <3>1. d \notin net
        BY <1>1, <1>2, <2>2 DEF Results, Expects
      <3>2. d[2] = m
        BY <1>3, <3>1
      <3>3. d[2] = Result' /\ ~Stops(j)
        BY <1>6, <2>2, <3>2
      <3>4. tasks[e][0].continuation = "receive_max_error"
        BY <1>1, <1>2, <3>3 DEF Steps, Place
      <3>5. QED
        BY <1>1, <1>2, <3>3, <3>4 DEF Expects, Count
    <2>3. QED
      BY <2>1, <2>2 DEF Results
  <1>9. Creations(e)'
    <2>1. ASSUME NEW d \in net', d[1] = e, d[2].id = "create" PROVE d \in net
      BY <1>3, <1>5, <2>1
    <2>2. last_task > 0
      <3>1. Count(e) # 0
        BY <1>1, <1>2
      <3>2. QED
        BY <1>1, <1>2, <3>1 DEF Creations, Typed
    <2>3. QED
      BY <1>1, <1>2, <2>1, <2>2 DEF Creations, Alive, Count
  <1>10. QED
    BY <1>7, <1>8, <1>9


LEMMA InStepNext == OneStart /\ Safe /\ InStep /\ [Next]_vars => InStep'
  <1> SUFFICES ASSUME OneStart, Safe, InStep, [Next]_vars PROVE InStep'
    OBVIOUS
  <1>1. CASE Launch
    BY <1>1, InStepLaunch
  <1>2. ASSUME NEW e \in Elems, NEW d \in net, Create(e, d) \/ Resume(e, d) \/ Buffer(e, d)
        PROVE  InStep'
    BY <1>2, InStepCreate, InStepResume, InStepBuffer
  <1>3. ASSUME NEW e \in Elems, TryContinue(e) PROVE InStep'
    BY <1>3, InStepTryContinue
  <1>4. CASE CompleteReduction
    BY <1>4, InStepReduction
  <1>5. CASE UNCHANGED vars
    <2> SUFFICES ASSUME NEW e \in Elems PROVE Steps(e)' /\ Results(e)' /\ Creations(e)'
      BY DEF InStep
    <2>1. Steps(e) /\ Results(e) /\ Creations(e)
      BY DEF InStep
    <2>2. QED
      BY <1>5, <2>1 DEF vars, Steps, Place, Count, Results, Expects, Result, Creations, Alive
  <1>6. QED
    BY <1>1, <1>2, <1>3, <1>4, <1>5 DEF Next, Running, Stopped

(* A task that is there has counted the reductions, give or take one. *)
LEMMA Iterations ==
  ASSUME OneStart, Safe, InStep, NEW e \in Elems, Alive(e, 0)
  PROVE  \/ tasks[e][0].it = It0 + reduced
         \/ tasks[e][0].it = It0 + reduced + 1 /\ (reduced > 0 => ~Stops(reduced))
         \/ tasks[e][0].it = It0 + reduced - 1 /\ reduced > 0 /\ Stops(reduced)
  <1>1. Steps(e) /\ reduced \in Nat /\ It0 \in Int /\ Count(e) \in Nat
    BY OneStartFacts DEF InStep, Safe, Typed, Count
  <1>2. CASE Count(e) = reduced + 1
    <2>1. reduced > 0 => ~Stops(reduced)
      BY <1>1, <1>2 DEF Steps
    <2>2. EndIt(reduced + 1) \in {It0 + reduced, It0 + reduced + 1}
      BY <1>1 DEF EndIt
    <2>3. tasks[e][0].it \in {It0 + reduced, It0 + reduced + 1}
      BY <1>1, <1>2, <2>2 DEF Steps, Place, Alive
    <2>4. QED
      BY <2>1, <2>3
  <1>3. CASE Count(e) = reduced
    <2>1. EndIt(reduced) \in {It0 + reduced - 1, It0 + reduced}
      BY <1>1 DEF EndIt
    <2>2. QED
      BY <1>1, <1>3, <2>1 DEF Steps, Place, Alive
  <1>4. QED
    BY <1>1, <1>2, <1>3 DEF Steps

LEMMA InStepLockstep == OneStart /\ Safe /\ InStep => Lockstep
  <1> SUFFICES ASSUME OneStart, Safe, InStep PROVE Lockstep
    OBVIOUS
  <1>1. Tids = {0} /\ It0 \in Int /\ reduced \in Nat /\ contributed \in [Elems -> Seq(Messages)]
    BY OneStartFacts DEF Safe, Typed
  <1>2. ASSUME NEW e \in Elems, NEW f \in Elems, Alive(e, 0), Alive(f, 0)
        PROVE  tasks[e][0].it <= tasks[f][0].it + 1
    <2>1. PICK r \in Int : r = It0 + reduced
      BY <1>1
    <2> DEFINE Apart(x) == \/ x = r
                           \/ x = r + 1 /\ (reduced > 0 => ~Stops(reduced))
                           \/ x = r - 1 /\ reduced > 0 /\ Stops(reduced)
    <2>2. Apart(tasks[e][0].it) /\ Apart(tasks[f][0].it)
      <3>1. \A g \in {e, f} : \/ tasks[g][0].it = It0 + reduced
                              \/ /\ tasks[g][0].it = It0 + reduced + 1
                                 /\ reduced > 0 => ~Stops(reduced)
                              \/ /\ tasks[g][0].it = It0 + reduced - 1
                                 /\ reduced > 0 /\ Stops(reduced)
        BY <1>2, Iterations
      <3>2. QED
        BY <1>1, <2>1, <3>1
    <2>3. QED
      BY <2>2
  <1>3. ASSUME NEW e \in Elems, NEW f \in Elems,
               NEW k \in DOMAIN contributed[e] \cap DOMAIN contributed[f]
        PROVE  /\ contributed[e][k].id = contributed[f][k].id
               /\ contributed[e][k].tid = contributed[f][k].tid
               /\ contributed[e][k].k = contributed[f][k].k
    <2>1. k \in 1 .. Count(e) /\ k \in 1 .. Count(f)
      BY <1>1 DEF Count
    <2>2. contributed[e][k] = Contribution(e, k) /\ contributed[f][k] = Contribution(f, k)
      BY <2>1 DEF InStep, Steps
    <2>3. QED
      BY <2>2 DEF Contribution, Message
  <1>4. QED
    BY <1>1, <1>2, <1>3 DEF Lockstep

(***************************************************************************)
(* The all_reduce of check_and_compute holds the elements together, for    *)
(* any number of elements, iterations and any tolerance, when one task is  *)
(* launched and "it" is the same number everywhere before it is set: no    *)
(* task is more than an iteration ahead, and each reduction is made of     *)
(* contributions of one iteration to one continuation.                     *)
(***************************************************************************)
THEOREM ElementsInLockstep ==
  ASSUME NTasks = 1, NEW k, InitialIt = {k}
  PROVE  Spec => []Lockstep
  <1>1. OneStart
    BY DEF OneStart
  <1>2. Init => Safe /\ InStep
    BY <1>1, SafeInit, InStepInit
  <1>3. Safe /\ InStep /\ [Next]_vars => Safe' /\ InStep'
    BY <1>1, SafeNext, InStepNext
  <1>4. Safe /\ InStep => Lockstep
    BY <1>1, InStepLockstep
  <1>5. QED
    BY <1>2, <1>3, <1>4, PTL DEF Spec
-----------------------------------------------------------------------------
(* The ghosts that wait for e, in the network or in its buffer. *)
Ghosts(e) == Waiting(e, 0, "receive_ghost")

(* The ghost f sends after as many reductions, and whether it was sent. *)
Ghost(f) == Message("receive_ghost", 0, f, It0 + reduced + 1, 0, {})
HasSent(f) == Alive(f, 0) /\ tasks[f][0].it = It0 + reduced + 1

(* The neighbors whose ghost e has received. *)
Got(e) == {f \in Neighbors(e) : HasSent(f) /\ Ghost(f) \notin Ghosts(e)}

NoneTwice(q) == \A j, k \in 1 .. Len(q) : q[j] = q[k] => j = k

(* No message for continuation c waits twice. *)
WaitOnce(e, c) ==
  /\ NoneTwice(buffers[e][0][c])
  /\ \A k \in 1 .. Len(buffers[e][0][c]) : <<e, buffers[e][0][c][k]>> \notin net

(* Element e counts the ghosts of the iteration the next reduction is for. *)
Counted(e) ==
  /\ Count(e) = reduced /\ tasks[e][0].continuation # "receive_ghost" => Got(e) = {}
  /\ tasks[e][0].continuation = "receive_ghost" => tasks[e][0].nRecvd = Cardinality(Got(e))
  /\ Count(e) = reduced + 1 => Got(e) = Neighbors(e)

(* There are no ghosts but those, and none once the iterations are over. *)
Exchange(e) ==
  /\ WaitOnce(e, "receive_ghost")
  /\ \A m \in Ghosts(e) :
       ~Stops(reduced + 1) /\ \E f \in Neighbors(e) : m = Ghost(f) /\ HasSent(f)
  /\ ~Stops(reduced + 1) => Counted(e)

(* The grid is for the root, once, and made when the iterations are over. *)
Collects(e) ==
  /\ WaitOnce(e, "receive_grid")
  /\ \A m, n \in Waiting(e, 0, "receive_grid") : m = n
  /\ Waiting(e, 0, "receive_grid") # {} => e = Root /\ reduced > 0 /\ Stops(reduced)

Exchanges == \A e \in Elems : Exchange(e) /\ Collects(e)

Kinds == {"receive_ghost", "receive_grid"}

(* Message m is taken from those that wait for e; n is left in the network. *)
Taken(e, m, n) ==
  \A f \in Elems, c \in Kinds :
    /\ {d[2] : d \in {x \in n : x[1] = f /\ x[2].tid = 0 /\ x[2].id = c}}
         \cup ToSet(buffers'[f][0][c]) = Waiting(f, 0, c) \ (IF f = e THEN {m} ELSE {})
    /\ WaitOnce(f, c) =>
         /\ NoneTwice(buffers'[f][0][c])
         /\ \A k \in 1 .. Len(buffers'[f][0][c]) : <<f, buffers'[f][0][c][k]>> \notin n

(* What a turn of e does that took m and left o behind. *)
Turned(e, m, o) ==
  /\ reduced' = reduced
  /\ tasks'[e][0] = o.task /\ \A f \in Elems \ {e} : tasks'[f][0] = tasks[f][0]
  /\ Count(e)' = Count(e) + Len(o.contribution) /\ \A f \in Elems \ {e} : Count(f)' = Count(f)
  /\ LET g == Message("receive_ghost", 0, e, o.task.it, 0, {})
     IN  \A f \in Elems :
           /\ Ghosts(f)' = (Ghosts(f) \ (IF f = e THEN {m} ELSE {}))
                             \cup (IF f \in o.ghosts THEN {g} ELSE {})
           /\ WaitOnce(f, "receive_ghost") /\ (f \in o.ghosts => g \notin Ghosts(f)) =>
                WaitOnce(f, "receive_ghost")'
  /\ \A f \in Elems :
       /\ Waiting(f, 0, "receive_grid")' =
            Waiting(f, 0, "receive_grid") \ (IF f = e THEN {m} ELSE {})
       /\ WaitOnce(f, "receive_grid") => WaitOnce(f, "receive_grid")'

LEMMA WaitingIds ==
  ASSUME Safe, OneStart, NEW f \in Elems, NEW c \in Continuations
  PROVE  \A x \in Waiting(f, 0, c) : x \in Messages /\ x.id = c
  <1>1. /\ net \subseteq Elems \X Messages /\ 0 \in Tids
        /\ buffers \in [Elems -> [Tids -> [Continuations -> Seq(Messages)]]]
    BY OneStartFacts DEF Safe, Typed
  <1>2. PICK q \in Seq(Messages) : q = buffers[f][0][c]
    BY <1>1
  <1>3. \A k \in 1 .. Len(q) : q[k] \in Messages /\ q[k].id = c
    <2>1. \A k \in 1 .. Len(q) : q[k].id = c
      BY <1>1, <1>2 DEF Safe, Sorted
    <2>2. \A k \in 1 .. Len(q) : q[k] \in Messages
      BY <1>2
    <2>3. QED
      BY <2>1, <2>2
  <1>4. \A x \in ToSet(q) : x \in Messages /\ x.id = c
    BY <1>2, <1>3 DEF ToSet
  <1>5. \A x \in InFlight(f, 0, c) : x \in Messages /\ x.id = c
    BY <1>1 DEF InFlight
  <1>6. QED
    BY <1>2, <1>4, <1>5 DEF Waiting

LEMMA TakenFromNet ==
  ASSUME Safe, OneStart, NEW e \in Elems, NEW d \in net, d[1] = e, UNCHANGED buffers,
         \A c \in Kinds : WaitOnce(e, c)
  PROVE  Taken(e, d[2], net \ {d})
  <1> DEFINE m == d[2]
             In(n, f, c) == {x[2] : x \in {y \in n : y[1] = f /\ y[2].tid = 0 /\ y[2].id = c}}
  <1>1. /\ net \subseteq Elems \X Messages /\ d = <<e, m>> /\ 0 \in Tids
        /\ buffers \in [Elems -> [Tids -> [Continuations -> Seq(Messages)]]]
    BY OneStartFacts DEF Safe, Typed
  <1> SUFFICES ASSUME NEW f \in Elems, NEW c \in Kinds
               PROVE  /\ In(net \ {d}, f, c) \cup ToSet(buffers[f][0][c]) =
                           Waiting(f, 0, c) \ (IF f = e THEN {m} ELSE {})
                      /\ WaitOnce(f, c) =>
                           /\ NoneTwice(buffers[f][0][c])
                           /\ \A k \in 1 .. Len(buffers[f][0][c]) :
                                <<f, buffers[f][0][c][k]>> \notin net \ {d}
    BY DEF Taken
  <1>2. DOMAIN buffers[f][0][c] = 1 .. Len(buffers[f][0][c])
    BY <1>1 DEF Kinds, Continuations
  <1>3. Waiting(f, 0, c) = In(net, f, c) \cup ToSet(buffers[f][0][c])
    BY DEF Waiting, InFlight
  <1>4. In(net \ {d}, f, c) = In(net, f, c) \ (IF f = e THEN {m} ELSE {})
    <2>1. ASSUME NEW x \in net, x[1] = f PROVE x = <<f, x[2]>>
      BY <1>1, <2>1
    <2>2. ASSUME NEW x \in net, x[1] = f PROVE x = d <=> f = e /\ x[2] = m
      BY <1>1, <2>1, <2>2
    <2>3. QED
      BY <1>1, <2>2
  <1>5. f = e => m \notin ToSet(buffers[f][0][c])
    BY <1>1, <1>2 DEF WaitOnce, ToSet
  <1>6. QED
    BY <1>3, <1>4, <1>5 DEF WaitOnce

(* A sequence without its head, and with one more at its end. *)
LEMMA TailOnce ==
  ASSUME NEW S, NEW q \in Seq(S), NoneTwice(q), q # << >>
  PROVE  /\ Head(q) \in ToSet(q) /\ NoneTwice(Tail(q)) /\ Tail(q) \in Seq(S)
         /\ ToSet(Tail(q)) = ToSet(q) \ {Head(q)}
  <1> DEFINE v == Tail(q)
  <1>1. PICK n \in Nat : Len(q) = n + 1
    <2>1. Len(q) \in Nat /\ Len(q) # 0
      OBVIOUS
    <2>2. Len(q) - 1 \in Nat /\ Len(q) = (Len(q) - 1) + 1
      BY <2>1
    <2>3. QED
      BY <2>2
  <1>2. /\ Head(q) = q[1] /\ Len(v) = n /\ v \in Seq(S)
        /\ \A j \in 1 .. n : v[j] = q[j + 1] /\ j + 1 \in 1 .. n + 1 /\ j + 1 # 1
    BY <1>1
  <1> HIDE DEF v
  <1>3. ToSet(q) = {q[j] : j \in 1 .. n + 1} /\ ToSet(v) = {v[j] : j \in 1 .. n}
    <2>1. DOMAIN q = 1 .. n + 1 /\ DOMAIN v = 1 .. n
      BY <1>1, <1>2
    <2>2. QED
      BY <2>1 DEF ToSet
  <1>4. 1 \in 1 .. n + 1 /\ \A j \in 1 .. n + 1 : j = 1 \/ (j - 1 \in 1 .. n /\ (j - 1) + 1 = j)
    OBVIOUS
  <1>5. \A i, j \in 1 .. n + 1 : q[i] = q[j] => i = j
    BY <1>1 DEF NoneTwice
  <1>6. NoneTwice(v)
    <2> SUFFICES ASSUME NEW i \in 1 .. n, NEW j \in 1 .. n, v[i] = v[j] PROVE i = j
      BY <1>2 DEF NoneTwice
    <2>1. i + 1 = j + 1
      BY <1>2, <1>5
    <2>2. QED
      BY <2>1
  <1>7. \A x \in ToSet(v) : x \in ToSet(q) /\ x # q[1]
    BY <1>2, <1>3, <1>4, <1>5
  <1>8. \A x \in ToSet(q) : x = q[1] \/ x \in ToSet(v)
    <2> SUFFICES ASSUME NEW j \in 1 .. n + 1, j # 1 PROVE q[j] \in ToSet(v)
      BY <1>3
    <2>1. j - 1 \in 1 .. n /\ v[j - 1] = q[j]
      BY <1>2, <1>4
    <2>2. QED
      BY <1>3, <2>1
  <1>9. QED
    BY <1>2, <1>3, <1>4, <1>6, <1>7, <1>8 DEF v

LEMMA AppendOnce ==
  ASSUME NEW S, NEW q \in Seq(S), NEW x \in S
  PROVE  /\ ToSet(Append(q, x)) = ToSet(q) \cup {x}
         /\ NoneTwice(q) /\ x \notin ToSet(q) => NoneTwice(Append(q, x))
  <1> DEFINE v == Append(q, x)
  <1>1. PICK n \in Nat : Len(q) = n
    OBVIOUS
  <1>2. v \in Seq(S) /\ Len(v) = n + 1 /\ v[n + 1] = x /\ \A j \in 1 .. n : v[j] = q[j]
    BY <1>1
  <1> HIDE DEF v
  <1>3. ToSet(q) = {q[j] : j \in 1 .. n} /\ ToSet(v) = {v[j] : j \in 1 .. n + 1}
    BY <1>1, <1>2 DEF ToSet
  <1>4. \A j \in 1 .. n + 1 : j = n + 1 \/ j \in 1 .. n
    OBVIOUS
  <1>5. ToSet(v) = ToSet(q) \cup {x}
    BY <1>2, <1>3, <1>4
  <1>6. NoneTwice(q) /\ x \notin ToSet(q) => NoneTwice(v)
    BY <1>1, <1>2, <1>3, <1>4 DEF NoneTwice
  <1>7. QED
    BY <1>5, <1>6 DEF v

LEMMA TakenFromBuffer ==
  ASSUME Safe, OneStart, NEW e \in Elems, NEW c \in Kinds, WaitOnce(e, c),
         buffers[e][0][c] # << >>,
         buffers' = [buffers EXCEPT ![e][0][c] = Tail(@)]
  PROVE  Taken(e, Head(buffers[e][0][c]), net)
  <1> DEFINE q == buffers[e][0][c]
             m == Head(q)
             In(f, k) == {x[2] : x \in {y \in net : y[1] = f /\ y[2].tid = 0 /\ y[2].id = k}}
  <1>1. /\ net \subseteq Elems \X Messages /\ 0 \in Tids /\ c \in Continuations
        /\ buffers \in [Elems -> [Tids -> [Continuations -> Seq(Messages)]]]
    BY OneStartFacts DEF Safe, Typed, Kinds, Continuations
  <1>2. q \in Seq(Messages) /\ NoneTwice(q)
    BY <1>1 DEF WaitOnce
  <1>3. /\ m \in ToSet(q) /\ NoneTwice(Tail(q)) /\ Tail(q) \in Seq(Messages)
        /\ ToSet(Tail(q)) = ToSet(q) \ {m}
    BY <1>2, TailOnce
  <1>4. m.id = c
    <2>1. m = q[1] /\ 1 \in 1 .. Len(q)
      BY <1>2
    <2> HIDE DEF m
    <2>2. QED
      BY <1>1, <2>1 DEF Safe, Sorted
  <1>5. <<e, m>> \notin net
    <2>1. m = q[1] /\ 1 \in 1 .. Len(q)
      BY <1>2
    <2> HIDE DEF m
    <2>2. QED
      BY <2>1 DEF WaitOnce
  <1> HIDE DEF m
  <1> SUFFICES ASSUME NEW f \in Elems, NEW k \in Kinds
               PROVE  /\ In(f, k) \cup ToSet(buffers'[f][0][k]) =
                           Waiting(f, 0, k) \ (IF f = e THEN {m} ELSE {})
                      /\ WaitOnce(f, k) =>
                           /\ NoneTwice(buffers'[f][0][k])
                           /\ \A j \in 1 .. Len(buffers'[f][0][k]) :
                                <<f, buffers'[f][0][k][j]>> \notin net
    BY DEF Taken, m
  <1>6. Waiting(f, 0, k) = In(f, k) \cup ToSet(buffers[f][0][k])
    BY DEF Waiting, InFlight
  <1>7. CASE f = e /\ k = c
    <2>1. buffers'[f][0][k] = Tail(q)
      BY <1>1, <1>7
    <2>2. m \notin In(f, k)
      <3>1. ASSUME NEW x \in net, x[1] = e PROVE x[2] # m
        <4>1. x = <<e, x[2]>>
          BY <1>1, <3>1
        <4>2. QED
          BY <1>5, <4>1
      <3>2. QED
        BY <1>7, <3>1
    <2>3. \A j \in 1 .. Len(Tail(q)) : Tail(q)[j] \in ToSet(Tail(q))
      BY <1>3 DEF ToSet
    <2>4. \A x \in ToSet(q) : <<e, x>> \notin net
      <3>1. \A j \in 1 .. Len(q) : <<e, q[j]>> \notin net
        BY DEF WaitOnce
      <3>2. \A x \in ToSet(q) : \E j \in 1 .. Len(q) : x = q[j]
        BY <1>2 DEF ToSet
      <3> HIDE DEF q
      <3>3. QED
        BY <3>1, <3>2
    <2>5. QED
      BY <1>3, <1>6, <1>7, <2>1, <2>2, <2>3, <2>4
  <1>8. CASE ~(f = e /\ k = c)
    <2>1. buffers'[f][0][k] = buffers[f][0][k]
      BY <1>1, <1>8 DEF Kinds, Continuations
    <2>2. f = e => m \notin Waiting(f, 0, k)
      <3> SUFFICES ASSUME f = e PROVE m \notin Waiting(f, 0, k)
        OBVIOUS
      <3>1. k # c
        BY <1>8
      <3>2. \A x \in Waiting(f, 0, k) : x.id = k
        BY WaitingIds DEF Kinds, Continuations
      <3>3. QED
        BY <1>4, <3>1, <3>2
    <2>3. QED
      BY <1>6, <2>1, <2>2 DEF WaitOnce
  <1>9. QED
    BY <1>7, <1>8

LEMMA TurnedBy ==
  ASSUME Safe, OneStart, NEW e \in Elems, NEW m, NEW n \in SUBSET net, NEW o, Possible(e, 0, o),
         Apply(e, 0, o, n), ContinueWith(e, 0, o), Taken(e, m, n), UNCHANGED reduced
  PROVE  Turned(e, m, o)
  <1>1. Typed /\ 0 \in Tids /\ n \in SUBSET (Elems \X Messages) /\ o.ghosts \subseteq Elems
    BY OneStartFacts DEF Safe, Typed, Possible
  <1> DEFINE g == Message("receive_ghost", 0, e, o.task.it, 0, {})
             In(x, f, c) == {d[2] : d \in {y \in x : y[1] = f /\ y[2].tid = 0 /\ y[2].id = c}}
  <1>2. /\ net' = n \cup {<<d, g>> : d \in o.ghosts}
        /\ contributed' = [contributed EXCEPT ![e] = @ \o o.contribution]
    BY DEF Apply
  <1>3. /\ tasks'[e][0] = o.task /\ \A f \in Elems \ {e} : tasks'[f][0] = tasks[f][0]
    BY <1>1, ApplyTyped
  <1>4. g.id = "receive_ghost" /\ g.tid = 0
    BY DEF Message
  <1>5. Count(e)' = Count(e) + Len(o.contribution) /\ \A f \in Elems \ {e} : Count(f)' = Count(f)
    <2>1. contributed'[e] = contributed[e] \o o.contribution /\ contributed[e] \in Seq(Messages)
      BY <1>1, <1>2 DEF Typed
    <2>2. o.contribution \in Seq(Messages)
      <3>1. ASSUME NEW c \in Messages, o.contribution = <<c>>
            PROVE  o.contribution \in Seq(Messages)
        BY <3>1
      <3>2. CASE o.contribution = << >>
        BY <3>2
      <3>3. QED
        BY <3>1, <3>2 DEF Possible
    <2>3. Len(contributed[e] \o o.contribution) = Len(contributed[e]) + Len(o.contribution)
      BY <2>1, <2>2
    <2>4. \A f \in Elems \ {e} : contributed'[f] = contributed[f]
      BY <1>1, <1>2 DEF Typed
    <2>5. QED
      BY <2>1, <2>3, <2>4 DEF Count
  <1> HIDE DEF g
  <1>6. ASSUME NEW f \in Elems
        PROVE  /\ In(net', f, "receive_ghost") =
                    In(n, f, "receive_ghost") \cup (IF f \in o.ghosts THEN {g} ELSE {})
               /\ In(net', f, "receive_grid") = In(n, f, "receive_grid")
    <2> DEFINE sent == {<<d, g>> : d \in o.ghosts}
    <2>1. \A c : In(n \cup sent, f, c) = In(n, f, c) \cup In(sent, f, c)
      OBVIOUS
    <2>2. \A x \in sent : x[2] = g /\ x[1] \in o.ghosts
      OBVIOUS
    <2>3. f \in o.ghosts => <<f, g>> \in sent /\ <<f, g>>[1] = f /\ <<f, g>>[2] = g
      OBVIOUS
    <2> HIDE DEF sent
    <2>4. In(sent, f, "receive_grid") = {}
      BY <1>4, <2>2
    <2>5. In(sent, f, "receive_ghost") = IF f \in o.ghosts THEN {g} ELSE {}
      BY <1>4, <2>2, <2>3
    <2>6. QED
      BY <1>2, <2>1, <2>4, <2>5 DEF sent
  <1>7. ASSUME NEW f \in Elems, NEW c \in Kinds
        PROVE  /\ Waiting(f, 0, c)' = In(net', f, c) \cup ToSet(buffers'[f][0][c])
               /\ In(n, f, c) \cup ToSet(buffers'[f][0][c]) =
                    Waiting(f, 0, c) \ (IF f = e THEN {m} ELSE {})
               /\ WaitOnce(f, c) => /\ NoneTwice(buffers'[f][0][c])
                                    /\ \A k \in 1 .. Len(buffers'[f][0][c]) :
                                         /\ <<f, buffers'[f][0][c][k]>> \notin n
                                         /\ buffers'[f][0][c][k] \in ToSet(buffers'[f][0][c])
    BY DEF Taken, Waiting, InFlight, ToSet
  <1>8. ASSUME NEW f \in Elems
        PROVE  /\ Ghosts(f)' = (Ghosts(f) \ (IF f = e THEN {m} ELSE {}))
                                 \cup (IF f \in o.ghosts THEN {g} ELSE {})
               /\ WaitOnce(f, "receive_ghost") /\ (f \in o.ghosts => g \notin Ghosts(f)) =>
                    WaitOnce(f, "receive_ghost")'
               /\ Waiting(f, 0, "receive_grid")' =
                    Waiting(f, 0, "receive_grid") \ (IF f = e THEN {m} ELSE {})
               /\ WaitOnce(f, "receive_grid") => WaitOnce(f, "receive_grid")'
    <2> DEFINE b(c) == buffers'[f][0][c]
               out == IF f = e THEN {m} ELSE {}
               new == IF f \in o.ghosts THEN {g} ELSE {}
    <2>1. "receive_ghost" \in Kinds /\ "receive_grid" \in Kinds
      BY DEF Kinds
    <2> HIDE DEF b, out, new
    <2>2. /\ Ghosts(f)' = (Ghosts(f) \ out) \cup new
          /\ Waiting(f, 0, "receive_grid")' = Waiting(f, 0, "receive_grid") \ out
      <3>1. /\ Ghosts(f)' = In(net', f, "receive_ghost") \cup ToSet(b("receive_ghost"))
            /\ In(n, f, "receive_ghost") \cup ToSet(b("receive_ghost")) = Ghosts(f) \ out
        BY <1>7, <2>1 DEF Ghosts, b, out
      <3>2. In(net', f, "receive_ghost") = In(n, f, "receive_ghost") \cup new
        BY <1>6 DEF new
      <3>3. /\ Waiting(f, 0, "receive_grid")' =
                 In(net', f, "receive_grid") \cup ToSet(b("receive_grid"))
            /\ In(n, f, "receive_grid") \cup ToSet(b("receive_grid")) =
                 Waiting(f, 0, "receive_grid") \ out
        BY <1>7, <2>1 DEF b, out
      <3>4. In(net', f, "receive_grid") = In(n, f, "receive_grid")
        BY <1>6
      <3>5. QED
        BY <3>1, <3>2, <3>3, <3>4
    <2>3. ASSUME NEW c \in Kinds, WaitOnce(f, c), g \notin ToSet(b(c)) \/ f \notin o.ghosts
          PROVE  WaitOnce(f, c)'
      <3>1. NoneTwice(b(c)) /\ \A k \in 1 .. Len(b(c)) : <<f, b(c)[k]>> \notin n /\ b(c)[k] \in ToSet(b(c))
        BY <1>7, <2>3 DEF b
      <3>2. ASSUME NEW k \in 1 .. Len(b(c)) PROVE <<f, b(c)[k]>> \notin net'
        <4>1. <<f, b(c)[k]>> \notin {<<d, g>> : d \in o.ghosts}
          BY <2>3, <3>1
        <4>2. QED
          BY <1>2, <3>1, <4>1 DEF g
      <3>3. QED
        BY <3>1, <3>2 DEF WaitOnce, b
    <2>4. ToSet(b("receive_ghost")) \subseteq Ghosts(f)
      BY <1>7, <2>1 DEF Ghosts, b
    <2>5. g \notin ToSet(b("receive_grid"))
      <3>1. ToSet(b("receive_grid")) \subseteq Waiting(f, 0, "receive_grid")
        BY <1>7, <2>1 DEF b
      <3>2. \A x \in Waiting(f, 0, "receive_grid") : x.id = "receive_grid"
        BY WaitingIds DEF Continuations
      <3>3. QED
        BY <1>4, <3>1, <3>2
    <2>6. QED
      BY <2>1, <2>2, <2>3, <2>4, <2>5 DEF out, new
  <1>9. QED
    BY <1>3, <1>5, <1>8 DEF Turned, g

(* What stays when nothing but other messages come and go. *)
LEMMA CollectsTurned ==
  ASSUME Exchanges, NEW e \in Elems, NEW m, NEW o, Turned(e, m, o)
  PROVE  \A f \in Elems : Collects(f)'
  <1> SUFFICES ASSUME NEW f \in Elems PROVE Collects(f)'
    OBVIOUS
  <1>1. Collects(f) /\ reduced' = reduced
    BY DEF Exchanges, Turned
  <1>2. /\ Waiting(f, 0, "receive_grid")' \subseteq Waiting(f, 0, "receive_grid")
        /\ WaitOnce(f, "receive_grid") => WaitOnce(f, "receive_grid")'
    BY DEF Turned
  <1>3. QED
    BY <1>1, <1>2 DEF Collects, Stops

(* After the last iteration there are no ghosts any more. *)
LEMMA StoppedTurned ==
  ASSUME Exchanges, NEW e \in Elems, NEW m, NEW o, Turned(e, m, o),
         Stops(reduced + 1), o.ghosts = {}
  PROVE  \A f \in Elems : Exchange(f)'
  <1> SUFFICES ASSUME NEW f \in Elems PROVE Exchange(f)'
    OBVIOUS
  <1>1. Exchange(f) /\ reduced' = reduced
    BY DEF Exchanges, Turned
  <1>2. Ghosts(f) = {}
    BY <1>1 DEF Exchange
  <1>3. Ghosts(f)' = {} /\ WaitOnce(f, "receive_ghost")'
    BY <1>1, <1>2 DEF Turned, Exchange
  <1>4. Stops(reduced + 1)'
    BY <1>1 DEF Stops
  <1>5. QED
    BY <1>3, <1>4 DEF Exchange

LEMMA NeighborFacts ==
  ASSUME NEW e \in Elems
  PROVE  /\ Neighbors(e) \subseteq Elems /\ e \notin Neighbors(e)
         /\ IsFiniteSet(Neighbors(e)) /\ Cardinality(Neighbors(e)) \in Nat
         /\ \A f \in Elems : f \in Neighbors(e) <=> e \in Neighbors(f)
  <1>1. e \in Int /\ Elems \subseteq Int
    BY WorkgroupAssumption DEF Elems
  <1>2. IsFiniteSet({e - 1} \cup {e + 1})
    BY FS_Singleton, FS_AddElement
  <1>3. Neighbors(e) \in SUBSET ({e - 1} \cup {e + 1})
    BY DEF Neighbors
  <1>4. IsFiniteSet(Neighbors(e))
    BY <1>2, <1>3, FS_Subset
  <1>5. QED
    BY <1>1, <1>4, FS_CardinalityType DEF Neighbors

(* The elements other than e are where they were. *)
LEMMA OthersTurned ==
  ASSUME NEW e \in Elems, NEW m, NEW o, Turned(e, m, o)
  PROVE  /\ \A f : Ghost(f)' = Ghost(f)
         /\ \A f \in Elems \ {e} : (HasSent(f)' <=> HasSent(f)) /\ Count(f)' = Count(f)
  BY DEF Turned, Ghost, HasSent, Alive, Message

LEMMA GhostsDiffer == \A f, g : Ghost(f) = Ghost(g) => f = g
  BY DEF Ghost, Message

(* What the code that sends ghosts leaves behind: it may have nobody to send to. *)
Sends(e, o) ==
  \/ o.ghosts = {} /\ (o.task = NoTask \/ o.task.continuation = "receive_grid")
  \/ /\ o.task.continuation = "receive_ghost" /\ o.task.nRecvd = 0
     /\ o.ghosts = Neighbors(e)
  \/ /\ o.task.continuation = "receive_max_error"
     /\ o.ghosts = {} /\ Neighbors(e) = {}

LEMMA ConvergeLoopSends ==
  ASSUME NEW e \in Elems, NEW s \in Tasks
  PROVE  Sends(e, ConvergeLoop(e, 0, s))
  <1> DEFINE n == [s EXCEPT !.it = IF s.converged THEN @ ELSE @ + 1]
             x == [n EXCEPT !.nRecvd = 0]
  <1>1. n \in Tasks
    <2>1. PICK i \in Int : i = IF s.converged THEN s.it ELSE s.it + 1
      BY DEF Tasks
    <2>2. n = [s EXCEPT !.it = i]
      BY <2>1
    <2>3. QED
      BY <2>2 DEF Tasks
  <1>2. ConvergeLoop(e, 0, s) \in
          {OnConverge(e, 0, n)} \cup
          (IF Neighbors(e) = {} THEN {CheckAndCompute(e, 0, x, {})} ELSE {}) \cup
          {Outcome([x EXCEPT !.continuation = "receive_ghost"], Neighbors(e), << >>)}
    BY DEF ConvergeLoop
  <1> HIDE DEF n
  <1>3. x \in Tasks /\ x.nRecvd = 0
    BY <1>1 DEF Tasks
  <1>4. \A c \in Continuations : [n EXCEPT !.continuation = c].continuation = c
    BY <1>1 DEF Tasks
  <1> HIDE DEF x
  <1>5. \A c \in Continuations : /\ [x EXCEPT !.continuation = c].continuation = c
                                 /\ [x EXCEPT !.continuation = c].nRecvd = 0
    BY <1>3 DEF Tasks
  <1>6. Sends(e, OnConverge(e, 0, n))
    BY <1>4 DEF Sends, OnConverge, Outcome, Continuations
  <1>7. Neighbors(e) = {} => Sends(e, CheckAndCompute(e, 0, x, {}))
    BY <1>5 DEF Sends, CheckAndCompute, Outcome, Continuations
  <1>8. Sends(e, Outcome([x EXCEPT !.continuation = "receive_ghost"], Neighbors(e), << >>))
    BY <1>5 DEF Sends, Outcome, Continuations
  <1>9. QED
    BY <1>2, <1>6, <1>7, <1>8

(* Who has sent its ghosts for the next reduction. *)
LEMMA SentFacts ==
  ASSUME OneStart, Safe, InStep, NEW e \in Elems
  PROVE  /\ Count(e) = reduced => (HasSent(e) <=> tasks[e][0].continuation = "receive_ghost")
         /\ Count(e) = reduced + 1 /\ ~Stops(reduced + 1) => HasSent(e)
  <1>1. Steps(e) /\ reduced \in Nat /\ It0 \in Int
    BY OneStartFacts DEF InStep, Safe, Typed
  <1>2. NoTask.continuation = "none"
    BY DEF NoTask
  <1>3. EndIt(reduced) # It0 + reduced + 1
    BY <1>1 DEF EndIt
  <1>4. CASE Count(e) = reduced
    BY <1>1, <1>2, <1>3, <1>4 DEF Steps, Place, HasSent, Alive
  <1>5. CASE Count(e) = reduced + 1 /\ ~Stops(reduced + 1)
    BY <1>1, <1>2, <1>5 DEF Steps, Place, HasSent, Alive
  <1>6. QED
    BY <1>1, <1>4, <1>5

(* Element e starts an iteration: its neighbors' ghosts may be there already. *)
LEMMA StartExchange ==
  ASSUME OneStart, Safe, InStep, Exchanges, NEW e \in Elems, NEW m, NEW o,
         Turned(e, m, o), Sends(e, o), Turn(e, reduced, o), ~Stops(reduced + 1),
         Count(e) = reduced, tasks[e][0].continuation # "receive_ghost", m \notin Ghosts(e)
  PROVE  \A f \in Elems : Exchange(f)'
  <1>1. reduced \in Nat /\ It0 \in Int /\ reduced' = reduced /\ (Stops(reduced + 1)' <=> Stops(reduced + 1))
    BY OneStartFacts DEF Safe, Typed, Turned, Stops
  <1>2. NoTask.continuation = "none"
    BY DEF NoTask
  <1>3. /\ o.task.it = It0 + reduced + 1 /\ o.ghosts = Neighbors(e) /\ o.task # NoTask
        /\ \/ o.task.continuation = "receive_ghost" /\ o.task.nRecvd = 0 /\ Len(o.contribution) = 0
           \/ /\ o.task.continuation = "receive_max_error" /\ Len(o.contribution) = 1
              /\ Neighbors(e) = {}
    BY <1>2 DEF Turn, Sends
  <1>4. ~HasSent(e) /\ HasSent(e)'
    <2>1. ~HasSent(e)
      BY SentFacts
    <2>2. HasSent(e)'
      BY <1>1, <1>3 DEF HasSent, Turned, Alive
    <2>3. QED
      BY <2>1, <2>2
  <1>5. /\ \A f : Ghost(f)' = Ghost(f)
        /\ \A f \in Elems \ {e} : (HasSent(f)' <=> HasSent(f)) /\ Count(f)' = Count(f)
    BY OthersTurned
  <1>6. ASSUME NEW f \in Elems PROVE Ghost(e) \notin Ghosts(f) /\ Exchange(f) /\ Got(f) \subseteq Elems \ {e}
    <2>1. Exchange(f)
      BY DEF Exchanges
    <2>2. Ghost(e) \notin Ghosts(f)
      BY <1>4, <2>1, GhostsDiffer DEF Exchange
    <2>3. Got(f) \subseteq Elems \ {e}
      BY <1>4, NeighborFacts DEF Got
    <2>4. QED
      BY <2>1, <2>2, <2>3
  <1>7. ASSUME NEW f \in Elems
        PROVE  /\ Ghosts(f)' = Ghosts(f) \cup (IF f \in Neighbors(e) THEN {Ghost(e)} ELSE {})
               /\ WaitOnce(f, "receive_ghost")'
    <2>1. Message("receive_ghost", 0, e, o.task.it, 0, {}) = Ghost(e)
      BY <1>3 DEF Ghost
    <2>2. Ghosts(f)' = (Ghosts(f) \ (IF f = e THEN {m} ELSE {}))
                         \cup (IF f \in Neighbors(e) THEN {Ghost(e)} ELSE {})
      BY <1>3, <2>1 DEF Turned
    <2>3. WaitOnce(f, "receive_ghost")'
      BY <1>6, <2>1 DEF Turned, Exchange
    <2>4. QED
      BY <2>2, <2>3
  <1>8. ASSUME NEW f \in Elems, NEW x \in Ghosts(f)'
        PROVE  \E h \in Neighbors(f) : x = Ghost(h)' /\ HasSent(h)'
    <2>1. CASE x \in Ghosts(f)
      <3>1. PICK h \in Neighbors(f) : x = Ghost(h) /\ HasSent(h)
        BY <1>6, <2>1 DEF Exchange
      <3>2. h \in Elems \ {e}
        BY <1>4, <3>1, NeighborFacts
      <3>3. QED
        BY <1>5, <3>1, <3>2
    <2>2. CASE x = Ghost(e) /\ f \in Neighbors(e)
      BY <1>4, <1>5, <2>2, NeighborFacts
    <2>3. QED
      BY <1>7, <1>8, <2>1, <2>2
  <1>9. ASSUME NEW f \in Elems PROVE Got(f)' = Got(f)
    <2>1. ASSUME NEW h \in Neighbors(f)
          PROVE  (HasSent(h)' /\ Ghost(h)' \notin Ghosts(f)') <=> (HasSent(h) /\ Ghost(h) \notin Ghosts(f))
      <3>1. CASE h = e
        <4>1. f \in Neighbors(e)
          BY <3>1, NeighborFacts
        <4>2. Ghost(h)' \in Ghosts(f)'
          BY <1>5, <1>7, <3>1, <4>1
        <4>3. QED
          BY <1>4, <3>1, <4>2
      <3>2. CASE h # e
        <4>1. h \in Elems \ {e} /\ Ghost(h) # Ghost(e)
          BY <3>2, NeighborFacts, GhostsDiffer
        <4>2. QED
          BY <1>5, <1>7, <4>1
      <3>3. QED
        BY <3>1, <3>2
    <2>2. QED
      BY <2>1 DEF Got
  <1>10. ASSUME NEW f \in Elems
         PROVE  Counted(f)'
    <2>1. CASE f # e
      <3>1. tasks'[f][0] = tasks[f][0] /\ Count(f)' = Count(f)
        BY <1>5, <2>1 DEF Turned
      <3>2. QED
        BY <1>1, <1>6, <1>9, <3>1 DEF Exchange, Counted
    <2>2. CASE f = e
      <3>1. tasks'[e][0] = o.task /\ Count(e)' = reduced + Len(o.contribution)
        BY DEF Turned
      <3>2. Got(e)' = {}
        BY <1>6, <1>9 DEF Exchange, Counted
      <3>3. QED
        BY <1>1, <1>3, <2>2, <3>1, <3>2, FS_EmptySet DEF Counted
    <2>3. QED
      BY <2>1, <2>2
  <1>11. QED
    BY <1>1, <1>7, <1>8, <1>10 DEF Exchange

(* Element e receives a ghost, perhaps the last one. *)
LEMMA ReceiveGhostOutcome ==
  ASSUME NEW e \in Elems, NEW s \in Tasks, s.continuation = "receive_ghost"
  PROVE  LET o == ReceiveGhost(e, 0, s)
         IN  /\ o.ghosts = {} /\ o.task.it = s.it /\ o.task.nRecvd = s.nRecvd + 1
             /\ \/ o.task.continuation = "receive_ghost" /\ Len(o.contribution) = 0
                \/ /\ o.task.continuation = "receive_max_error" /\ Len(o.contribution) = 1
                   /\ s.nRecvd + 1 >= Cardinality(Neighbors(e))
  <1> DEFINE x == [s EXCEPT !.nRecvd = @ + 1]
             y == [x EXCEPT !.continuation = "receive_max_error"]
             o == ReceiveGhost(e, 0, s)
  <1>1. x \in Tasks /\ x.it = s.it /\ x.nRecvd = s.nRecvd + 1 /\ x.continuation = "receive_ghost"
    BY DEF Tasks
  <1>2. \/ o = Outcome(x, {}, << >>)
        \/ o = CheckAndCompute(e, 0, x, {}) /\ x.nRecvd >= Cardinality(Neighbors(e))
    BY DEF ReceiveGhost
  <1> HIDE DEF x, o
  <1>3. y.it = x.it /\ y.nRecvd = x.nRecvd /\ y.continuation = "receive_max_error"
    BY <1>1 DEF Tasks
  <1>4. /\ Outcome(x, {}, << >>).task = x /\ Outcome(x, {}, << >>).ghosts = {}
        /\ Outcome(x, {}, << >>).contribution = << >>
        /\ CheckAndCompute(e, 0, x, {}).task = y /\ CheckAndCompute(e, 0, x, {}).ghosts = {}
        /\ Len(CheckAndCompute(e, 0, x, {}).contribution) = 1
    BY DEF Outcome, CheckAndCompute
  <1> HIDE DEF y
  <1>5. QED
    BY <1>1, <1>2, <1>3, <1>4 DEF o

LEMMA ReceiveExchange ==
  ASSUME OneStart, Safe, InStep, Exchanges, NEW e \in Elems, NEW m \in Ghosts(e), NEW o,
         Alive(e, 0), tasks[e][0].continuation = "receive_ghost",
         Turned(e, m, o), o = ReceiveGhost(e, 0, tasks[e][0])
  PROVE  \A f \in Elems : Exchange(f)'
  <1> DEFINE s == tasks[e][0]
  <1>1. /\ reduced \in Nat /\ It0 \in Int /\ reduced' = reduced
        /\ (Stops(reduced + 1)' <=> Stops(reduced + 1))
        /\ s \in Tasks /\ Steps(e) /\ Exchange(e)
    BY OneStartFacts DEF Safe, Typed, Turned, Stops, InStep, Exchanges
  <1>2. Count(e) = reduced /\ s.it = It0 + reduced + 1 /\ ~Stops(reduced + 1)
    BY <1>1 DEF Steps, Place, Alive
  <1>3. /\ o.ghosts = {} /\ o.task.it = It0 + reduced + 1 /\ o.task.nRecvd = s.nRecvd + 1
        /\ \/ o.task.continuation = "receive_ghost" /\ Len(o.contribution) = 0
           \/ /\ o.task.continuation = "receive_max_error" /\ Len(o.contribution) = 1
              /\ s.nRecvd + 1 >= Cardinality(Neighbors(e))
    BY <1>1, <1>2, ReceiveGhostOutcome
  <1>4. PICK g \in Neighbors(e) : m = Ghost(g) /\ HasSent(g)
    BY <1>1 DEF Exchange
  <1>5. /\ \A f : Ghost(f)' = Ghost(f)
        /\ \A f \in Elems : (HasSent(f)' <=> HasSent(f))
        /\ \A f \in Elems \ {e} : Count(f)' = Count(f)
    <2>1. HasSent(e)
      BY <1>1, <1>2 DEF HasSent
    <2>2. o.task # NoTask
      BY <1>3 DEF NoTask
    <2>3. HasSent(e)'
      BY <1>1, <1>3, <2>2 DEF HasSent, Turned, Alive
    <2>4. QED
      BY <2>1, <2>3, OthersTurned
  <1>6. ASSUME NEW f \in Elems
        PROVE  /\ Ghosts(f)' = Ghosts(f) \ (IF f = e THEN {m} ELSE {})
               /\ WaitOnce(f, "receive_ghost")' /\ Exchange(f)
    BY <1>3 DEF Turned, Exchange, Exchanges
  <1>7. ASSUME NEW f \in Elems, NEW x \in Ghosts(f)'
        PROVE  \E h \in Neighbors(f) : x = Ghost(h)' /\ HasSent(h)'
    <2>1. PICK h \in Neighbors(f) : x = Ghost(h) /\ HasSent(h)
      BY <1>6, <1>7 DEF Exchange
    <2>2. QED
      BY <1>5, <2>1, NeighborFacts
  <1>8. ASSUME NEW f \in Elems, f # e PROVE Got(f)' = Got(f)
    <2>1. \A h \in Neighbors(f) : Ghost(h)' = Ghost(h) /\ (HasSent(h)' <=> HasSent(h))
      BY <1>5, NeighborFacts
    <2>2. Ghosts(f)' = Ghosts(f)
      BY <1>6, <1>8
    <2>3. QED
      BY <2>1, <2>2 DEF Got
  <1>9. Got(e)' = Got(e) \cup {g} /\ g \notin Got(e)
    <2>1. \A h \in Neighbors(e) : Ghost(h)' = Ghost(h) /\ (HasSent(h)' <=> HasSent(h))
      BY <1>5, NeighborFacts
    <2>2. \A h : Ghost(h) \in Ghosts(e)' <=> Ghost(h) \in Ghosts(e) /\ h # g
      BY <1>4, <1>6, GhostsDiffer
    <2>3. QED
      BY <1>4, <2>1, <2>2 DEF Got
  <1>10. /\ Cardinality(Got(e)') = s.nRecvd + 1
         /\ s.nRecvd + 1 >= Cardinality(Neighbors(e)) => Got(e)' = Neighbors(e)
    <2>1. PICK G : G = Got(e)
      OBVIOUS
    <2>2. G \in SUBSET Neighbors(e) /\ s.nRecvd = Cardinality(G)
      BY <1>1, <1>2, <2>1 DEF Got, Exchange, Counted
    <2>3. IsFiniteSet(Neighbors(e)) /\ Cardinality(Neighbors(e)) \in Nat
      BY NeighborFacts
    <2>4. IsFiniteSet(G) /\ Cardinality(G) \in Nat
      BY <2>2, <2>3, FS_Subset, FS_CardinalityType
    <2>5. Cardinality(G \cup {g}) = s.nRecvd + 1
      BY <1>9, <2>1, <2>2, <2>4, FS_AddElement
    <2>6. G \cup {g} \in SUBSET Neighbors(e)
      BY <2>2
    <2>7. /\ Cardinality(G \cup {g}) <= Cardinality(Neighbors(e))
          /\ Cardinality(Neighbors(e)) = Cardinality(G \cup {g}) => Neighbors(e) = G \cup {g}
      BY <2>3, <2>6, FS_Subset
    <2>8. QED
      BY <1>9, <2>1, <2>2, <2>3, <2>4, <2>5, <2>7
  <1>11. ASSUME NEW f \in Elems
         PROVE  Counted(f)'
    <2>1. CASE f # e
      <3>1. tasks'[f][0] = tasks[f][0] /\ Count(f)' = Count(f)
        BY <1>5, <2>1 DEF Turned
      <3>2. Got(f)' = Got(f) /\ Exchange(f)
        BY <1>6, <1>8, <2>1
      <3>3. Counted(f)
        BY <1>2, <3>2 DEF Exchange
      <3>4. QED
        BY <1>1, <3>1, <3>2, <3>3 DEF Counted
    <2>2. CASE f = e
      <3>1. tasks'[e][0] = o.task /\ Count(e)' = reduced + Len(o.contribution)
        BY <1>2 DEF Turned
      <3>2. o.task.nRecvd = Cardinality(Got(e)')
        BY <1>3, <1>10
      <3>3. CASE o.task.continuation = "receive_ghost" /\ Len(o.contribution) = 0
        <4>1. Count(e)' = reduced
          BY <1>1, <3>1, <3>3
        <4>2. QED
          BY <1>1, <2>2, <3>1, <3>2, <3>3, <4>1 DEF Counted
      <3>4. CASE o.task.continuation = "receive_max_error" /\ Len(o.contribution) = 1
        <4>1. Count(e)' = reduced + 1 /\ Got(e)' = Neighbors(e)
          BY <1>1, <1>3, <1>10, <3>1, <3>4
        <4>2. QED
          BY <1>1, <2>2, <3>1, <3>4, <4>1 DEF Counted
      <3>5. QED
        BY <1>3, <3>3, <3>4
    <2>3. QED
      BY <2>1, <2>2
  <1>12. QED
    BY <1>1, <1>2, <1>6, <1>7, <1>11 DEF Exchange

(* Element e leaves the loop or starts an iteration. *)
LEMMA LoopExchange ==
  ASSUME OneStart, Safe, InStep, Exchanges, NEW e \in Elems, NEW m, NEW o,
         Turned(e, m, o), Sends(e, o), Turn(e, reduced, o),
         Count(e) = reduced, tasks[e][0].continuation # "receive_ghost", m \notin Ghosts(e)
  PROVE  \A f \in Elems : Exchange(f)'
  <1>1. CASE Stops(reduced + 1)
    <2>1. o.task.continuation # "receive_ghost" /\ o.task.continuation # "receive_max_error"
      BY <1>1 DEF Turn, NoTask
    <2>2. o.ghosts = {}
      BY <2>1 DEF Sends
    <2>3. QED
      BY <1>1, <2>2, StoppedTurned
  <1>2. CASE ~Stops(reduced + 1)
    BY <1>2, StartExchange
  <1>3. QED
    BY <1>1, <1>2

(* The task of e continues with m; n is left in the network. *)
Continues(e, m, n) ==
  /\ m \in Messages /\ n \in SUBSET net
  /\ Alive(e, 0) /\ tasks[e][0].continuation = m.id
  /\ LET o == Continue(e, 0, tasks[e][0], m)
     IN  Apply(e, 0, o, n) /\ ContinueWith(e, 0, o)
  /\ Shutdown(m) /\ Taken(e, m, n) /\ reduced' = reduced
  /\ m.id = "receive_max_error" => <<e, m>> \in net
  /\ m.id \in Kinds => m \in Waiting(e, 0, m.id)

LEMMA ContinuesTurned ==
  ASSUME OneStart, Safe, InStep, NEW e \in Elems, NEW m, NEW n, Continues(e, m, n)
  PROVE  /\ Turned(e, m, Continue(e, 0, tasks[e][0], m))
         /\ m.id \in Continuations
         /\ m.id = "receive_max_error" =>
              /\ Count(e) = reduced /\ Turn(e, reduced, Continue(e, 0, tasks[e][0], m))
              /\ Sends(e, Continue(e, 0, tasks[e][0], m))
  <1> DEFINE o == Continue(e, 0, tasks[e][0], m)
  <1>1. /\ m \in Messages /\ n \in SUBSET net /\ Alive(e, 0) /\ tasks[e][0].continuation = m.id
        /\ m.id = "receive_max_error" => <<e, m>> \in net
        /\ Apply(e, 0, o, n) /\ ContinueWith(e, 0, o) /\ Taken(e, m, n) /\ UNCHANGED reduced
    BY DEF Continues
  <1>2. /\ Possible(e, 0, o) /\ m.id \in Continuations
        /\ Turn(e, reduced, o) \/ m.id = "receive_grid"
        /\ m.id = "receive_max_error" =>
             Count(e) = reduced /\ \E x \in Tasks : o = ConvergeLoop(e, 0, x)
    BY <1>1, ContinueTurn
  <1> HIDE DEF o
  <1>3. m.id = "receive_max_error" => Sends(e, o)
    BY <1>2, ConvergeLoopSends
  <1>4. Turned(e, m, o)
    BY <1>1, <1>2, TurnedBy
  <1>5. QED
    BY <1>2, <1>3, <1>4 DEF o

LEMMA ExchangesContinue ==
  ASSUME OneStart, Safe, InStep, Exchanges, NEW e \in Elems, NEW m, NEW n, Continues(e, m, n)
  PROVE  Exchanges'
  <1>1. PICK p : p = Continue(e, 0, tasks[e][0], m)
    OBVIOUS
  <1>2. /\ Turned(e, m, p) /\ m.id \in Continuations
        /\ m.id = "receive_max_error" =>
             Count(e) = reduced /\ Turn(e, reduced, p) /\ Sends(e, p)
    BY <1>1, ContinuesTurned
  <1>3. /\ m.id = "receive_ghost" => p = ReceiveGhost(e, 0, tasks[e][0])
        /\ m.id = "receive_grid" => p = Outcome(NoTask, {}, << >>)
    BY <1>1 DEF Continue
  <1>4. /\ Alive(e, 0) /\ tasks[e][0].continuation = m.id
        /\ m.id = "receive_ghost" => m \in Ghosts(e)
    BY DEF Continues, Ghosts, Kinds
  <1>5. CASE m.id = "receive_ghost"
    <2>1. \A f \in Elems : Exchange(f)'
      BY <1>2, <1>3, <1>4, <1>5, ReceiveExchange
    <2>2. QED
      BY <1>2, <2>1, CollectsTurned DEF Exchanges
  <1>6. CASE m.id = "receive_max_error"
    <2>1. m \notin Ghosts(e)
      BY <1>6, WaitingIds DEF Ghosts, Continuations
    <2>2. \A f \in Elems : Exchange(f)'
      BY <1>2, <1>4, <1>6, <2>1, LoopExchange
    <2>3. QED
      BY <1>2, <2>2, CollectsTurned DEF Exchanges
  <1>7. CASE m.id = "receive_grid"
    <2>1. p.ghosts = {}
      BY <1>3, <1>7 DEF Outcome
    <2>2. Stops(reduced + 1)
      <3>1. Steps(e) /\ reduced \in Nat /\ It0 \in Int /\ MaxIters \in Int
        BY OneStartFacts DEF InStep, Safe, Typed
      <3>2. Stops(Count(e)) /\ Count(e) > 0 /\ Count(e) \in {reduced, reduced + 1}
        BY <1>4, <1>7, <3>1 DEF Steps, Place, NoTask
      <3>3. QED
        BY <3>1, <3>2 DEF Stops
    <2>3. \A f \in Elems : Exchange(f)'
      BY <1>2, <2>1, <2>2, StoppedTurned
    <2>4. QED
      BY <1>2, <2>3, CollectsTurned DEF Exchanges
  <1>8. QED
    BY <1>2, <1>5, <1>6, <1>7 DEF Continuations

LEMMA ExchangesCreate ==
  ASSUME OneStart, Safe, InStep, Exchanges, NEW e \in Elems, NEW d \in net, Create(e, d)
  PROVE  Exchanges'
  <1>1. /\ d[1] = e /\ d[2].id = "create" /\ tasks[e][0] = NoTask
        /\ Count(e) = 0 /\ reduced = 0 /\ UNCHANGED <<buffers, reduced>>
    BY CreateTurn
  <1>2. PICK s \in Tasks : LET o == ConvergeLoop(e, 0, s)
                           IN  /\ Possible(e, 0, o) /\ Turn(e, 0, o)
                               /\ Apply(e, 0, o, net \ {d}) /\ ContinueWith(e, 0, o)
    BY CreateTurn
  <1>3. PICK o : o = ConvergeLoop(e, 0, s)
    OBVIOUS
  <1>4. Sends(e, o) /\ Turn(e, reduced, o)
    BY <1>1, <1>2, <1>3, ConvergeLoopSends
  <1>5. Taken(e, d[2], net \ {d})
    <2>1. \A c \in Kinds : WaitOnce(e, c)
      BY DEF Kinds, Exchanges, Exchange, Collects
    <2>2. QED
      BY <1>1, <2>1, TakenFromNet
  <1>6. Turned(e, d[2], o)
    BY <1>1, <1>2, <1>3, <1>5, TurnedBy
  <1>7. d[2] \notin Ghosts(e)
    BY <1>1, WaitingIds DEF Ghosts, Continuations
  <1>8. \A f \in Elems : Exchange(f)'
    BY <1>1, <1>4, <1>6, <1>7, LoopExchange DEF NoTask
  <1>9. QED
    BY <1>6, <1>8, CollectsTurned DEF Exchanges

LEMMA ResumeContinues ==
  ASSUME OneStart, Safe, Exchanges, NEW e \in Elems, NEW d \in net, Resume(e, d)
  PROVE  Continues(e, d[2], net \ {d})
  <1> DEFINE m == d[2]
  <1>1. Tids = {0} /\ d \in Elems \X Messages
    BY OneStartFacts DEF Safe, Typed
  <1>2. m \in Messages /\ m.tid = 0 /\ d = <<e, m>> /\ d[1] = e
    BY <1>1 DEF Resume, Messages
  <1>3. /\ tasks[e][0].continuation = m.id /\ Alive(e, 0) /\ Shutdown(m)
        /\ LET o == Continue(e, 0, tasks[e][0], m)
           IN  Apply(e, 0, o, net \ {d}) /\ ContinueWith(e, 0, o)
        /\ UNCHANGED <<buffers, reduced>>
    BY <1>2 DEF Resume, Accepts, Alive
  <1>4. Taken(e, m, net \ {d})
    <2>1. \A c \in Kinds : WaitOnce(e, c)
      BY DEF Kinds, Exchanges, Exchange, Collects
    <2>2. QED
      BY <1>2, <1>3, <2>1, TakenFromNet
  <1>5. m \in Waiting(e, 0, m.id)
    BY <1>2 DEF Waiting, InFlight
  <1> HIDE DEF m
  <1>6. QED
    BY <1>2, <1>3, <1>4, <1>5 DEF Continues, m

(* What waits stays the same, wherever it waits. *)
LEMMA ExchangesSame ==
  ASSUME Exchanges, UNCHANGED <<tasks, contributed, reduced>>,
         \A f \in Elems, c \in Kinds : /\ Waiting(f, 0, c)' = Waiting(f, 0, c)
                                       /\ WaitOnce(f, c) => WaitOnce(f, c)'
  PROVE  Exchanges'
  <1> SUFFICES ASSUME NEW f \in Elems PROVE Exchange(f)' /\ Collects(f)'
    BY DEF Exchanges
  <1>1. Exchange(f) /\ Collects(f)
    BY DEF Exchanges
  <1>2. /\ Ghosts(f)' = Ghosts(f)
        /\ Waiting(f, 0, "receive_grid")' = Waiting(f, 0, "receive_grid")
        /\ WaitOnce(f, "receive_ghost") => WaitOnce(f, "receive_ghost")'
        /\ WaitOnce(f, "receive_grid") => WaitOnce(f, "receive_grid")'
    BY DEF Ghosts, Kinds
  <1>3. /\ \A h : Ghost(h)' = Ghost(h) /\ (HasSent(h)' <=> HasSent(h))
        /\ Stops(reduced + 1)' <=> Stops(reduced + 1)
        /\ Stops(reduced)' <=> Stops(reduced)
    BY DEF Ghost, Message, HasSent, Alive, Stops
  <1>4. Got(f)' = Got(f)
    BY <1>2, <1>3 DEF Got
  <1>5. Counted(f)' <=> Counted(f)
    BY <1>4 DEF Counted, Count
  <1>6. Exchange(f)'
    BY <1>1, <1>2, <1>3, <1>5 DEF Exchange
  <1>7. Collects(f)'
    BY <1>1, <1>2, <1>3 DEF Collects
  <1>8. QED
    BY <1>6, <1>7

LEMMA ExchangesBuffer ==
  ASSUME OneStart, Safe, InStep, Exchanges, NEW e \in Elems, NEW d \in net, Buffer(e, d)
  PROVE  Exchanges'
  <1> DEFINE In(n, f, k) == {x[2] : x \in {y \in n : y[1] = f /\ y[2].tid = 0 /\ y[2].id = k}}
  <1>1. /\ Tids = {0} /\ net \subseteq Elems \X Messages
        /\ buffers \in [Elems -> [Tids -> [Continuations -> Seq(Messages)]]]
    BY OneStartFacts DEF Safe, Typed
  <1>2. PICK m \in Messages : m = d[2] /\ m.tid = 0 /\ m.id \in Continuations /\ d = <<e, m>>
    BY <1>1 DEF Buffer, Messages
  <1>3. PICK c \in Continuations : c = m.id
    BY <1>2
  <1>4. PICK q \in Seq(Messages) : q = buffers[e][0][c]
    BY <1>1
  <1>5. PICK v : v = Append(q, m)
    OBVIOUS
  <1>6. /\ buffers' = [buffers EXCEPT ![e][0][c] = v] /\ net' = net \ {d}
        /\ UNCHANGED <<tasks, contributed, reduced>>
    BY <1>2, <1>3, <1>4, <1>5 DEF Buffer
  <1>7. ASSUME NEW f \in Elems, NEW k \in Kinds
        PROVE  /\ Waiting(f, 0, k)' = Waiting(f, 0, k)
               /\ WaitOnce(f, k) => WaitOnce(f, k)'
    <2>1. /\ Waiting(f, 0, k) = In(net, f, k) \cup ToSet(buffers[f][0][k])
          /\ Waiting(f, 0, k)' = In(net \ {d}, f, k) \cup ToSet(buffers'[f][0][k])
      BY <1>6 DEF Waiting, InFlight
    <2>2. ASSUME NEW x \in net, x[1] = f PROVE x = <<f, x[2]>>
      BY <1>1, <2>2
    <2>3. CASE f = e /\ k = c
      <3>1. buffers'[e][0][c] = v
        BY <1>1, <1>6
      <3>2. In(net, f, k) = In(net \ {d}, f, k) \cup {m}
        BY <1>2, <1>3, <2>2, <2>3
      <3>3. /\ v \in Seq(Messages) /\ ToSet(v) = ToSet(q) \cup {m}
            /\ NoneTwice(q) /\ m \notin ToSet(q) => NoneTwice(v)
        BY <1>5, AppendOnce
      <3>4. Waiting(f, 0, k)' = Waiting(f, 0, k)
        BY <1>4, <2>1, <2>3, <3>1, <3>2, <3>3
      <3>5. ASSUME WaitOnce(f, k) PROVE WaitOnce(f, k)'
        <4>1. NoneTwice(q) /\ \A j \in 1 .. Len(q) : <<e, q[j]>> \notin net
          BY <1>4, <2>3, <3>5 DEF WaitOnce
        <4>2. \A x \in ToSet(q) : <<e, x>> \notin net
          <5>1. \A x \in ToSet(q) : \E j \in 1 .. Len(q) : x = q[j]
            BY DEF ToSet
          <5>2. QED
            BY <4>1, <5>1
        <4>3. \A x \in ToSet(v) : <<e, x>> \notin net \ {d}
          BY <1>2, <3>3, <4>2
        <4>4. \A j \in 1 .. Len(v) : v[j] \in ToSet(v)
          BY <3>3 DEF ToSet
        <4>5. NoneTwice(v)
          BY <1>2, <3>3, <4>1, <4>2
        <4>6. QED
          BY <1>6, <2>3, <3>1, <4>3, <4>4, <4>5 DEF WaitOnce
      <3>6. QED
        BY <3>4, <3>5
    <2>4. CASE ~(f = e /\ k = c)
      <3>1. buffers'[f][0][k] = buffers[f][0][k]
        BY <1>1, <1>6, <2>4 DEF Kinds, Continuations
      <3>2. In(net \ {d}, f, k) = In(net, f, k)
        <4>1. ~(d[1] = f /\ d[2].id = k)
          BY <1>2, <1>3, <2>4
        <4>2. QED
          BY <4>1
      <3>3. Waiting(f, 0, k)' = Waiting(f, 0, k)
        BY <2>1, <3>1, <3>2
      <3>4. WaitOnce(f, k) => WaitOnce(f, k)'
        <4>1. net' \subseteq net
          BY <1>6
        <4>2. QED
          BY <3>1, <4>1 DEF WaitOnce
      <3>5. QED
        BY <3>3, <3>4
    <2>5. QED
      BY <2>3, <2>4
  <1>8. QED
    BY <1>6, <1>7, ExchangesSame

LEMMA TryContinueContinues ==
  ASSUME OneStart, Safe, InStep, Exchanges, NEW e \in Elems, TryContinue(e)
  PROVE  \/ UNCHANGED <<tasks, buffers, net, contributed, reduced, status>>
         \/ \E m : Continues(e, m, net)
  <1> DEFINE c == tasks[e][0].continuation
             b == buffers[e][0][c]
  <1>1. /\ Tids = {0} /\ Typed /\ TasksWait /\ Sorted /\ Results(e)
        /\ UNCHANGED <<last_task, reduced>>
    BY OneStartFacts DEF Safe, InStep, TryContinue
  <1>2. busy[e] = 0
    BY <1>1 DEF TryContinue, Typed
  <1>3. Alive(e, 0) /\ c \in Continuations /\ b \in Seq(Messages)
    BY <1>1, <1>2 DEF TasksWait, None, Typed
  <1>4. CASE b = << >>
    BY <1>1, <1>2, <1>4 DEF TryContinue
  <1>5. CASE b # << >>
    <2> DEFINE m == Head(b)
    <2>1. m \in Messages /\ m.id = c /\ m \in ToSet(b)
      BY <1>3, <1>5, HeadOfBuffer
    <2>2. c \in Kinds
      BY <1>1, <1>3, <1>5 DEF Results, Kinds, Continuations
    <2>3. /\ LET o == Continue(e, 0, tasks[e][0], m) IN Apply(e, 0, o, net) /\ ContinueWith(e, 0, o)
          /\ buffers' = [buffers EXCEPT ![e][0][m.id] = Tail(@)] /\ Shutdown(m)
      BY <1>2, <1>5 DEF TryContinue
    <2>4. Taken(e, m, net)
      <3>1. WaitOnce(e, c)
        BY <2>2 DEF Kinds, Exchanges, Exchange, Collects
      <3>2. QED
        BY <1>5, <2>1, <2>2, <2>3, <3>1, TakenFromBuffer
    <2>5. m \in Waiting(e, 0, m.id) /\ m.id # "receive_max_error"
      BY <2>1, <2>2 DEF Waiting, Kinds
    <2> HIDE DEF m, b
    <2>6. Continues(e, m, net)
      BY <1>1, <1>3, <2>1, <2>3, <2>4, <2>5 DEF Continues
    <2>7. QED
      BY <2>6
  <1>6. QED
    BY <1>4, <1>5

LEMMA ExchangesLaunch ==
  ASSUME OneStart, Safe, Exchanges, Launch
  PROVE  Exchanges'
  <1> DEFINE m == Message("create", last_task, -1, 0, 0, {})
  <1>1. net' = net \cup {<<e, m>> : e \in Elems} /\ UNCHANGED <<tasks, buffers, contributed, reduced>>
    BY DEF Launch
  <1>2. m.id = "create"
    BY DEF Message
  <1> HIDE DEF m
  <1>3. ASSUME NEW f \in Elems, NEW k \in Kinds
        PROVE  /\ Waiting(f, 0, k)' = Waiting(f, 0, k)
               /\ WaitOnce(f, k) => WaitOnce(f, k)'
    <2>1. \A x \in net' \ net : x[2] = m
      BY <1>1
    <2>2. k \in Continuations /\ k # "create"
      BY DEF Kinds, Continuations
    <2>3. InFlight(f, 0, k)' = InFlight(f, 0, k)
      BY <1>1, <1>2, <2>1, <2>2 DEF InFlight
    <2>4. WaitOnce(f, k) => WaitOnce(f, k)'
      <3>1. ASSUME NEW j \in 1 .. Len(buffers[f][0][k])
            PROVE  <<f, buffers[f][0][k][j]>> \notin net' \ net
        <4>1. buffers[f][0][k][j].id = k
          BY <2>2, OneStartFacts DEF Safe, Sorted
        <4>2. QED
          BY <1>2, <2>1, <2>2, <4>1
      <3>2. QED
        BY <1>1, <3>1 DEF WaitOnce
    <2>5. QED
      BY <1>1, <2>3, <2>4 DEF Waiting
  <1>4. QED
    BY <1>1, <1>3, ExchangesSame

(* When all have contributed no message waits, and nobody is ahead. *)
LEMMA BeforeReduction ==
  ASSUME OneStart, Safe, InStep, Exchanges, NEW f \in Elems, Count(f) = reduced + 1
  PROVE  /\ \A k \in Kinds : Waiting(f, 0, k) = {} /\ Len(buffers[f][0][k]) = 0
         /\ tasks[f][0].continuation # "receive_ghost"
         /\ Alive(f, 0) => tasks[f][0].it # It0 + reduced + 2
  <1>1. /\ Exchange(f) /\ Collects(f) /\ Steps(f) /\ reduced \in Nat /\ It0 \in Int /\ 0 \in Tids
        /\ buffers \in [Elems -> [Tids -> [Continuations -> Seq(Messages)]]]
    BY OneStartFacts DEF Exchanges, InStep, Safe, Typed
  <1>2. Ghosts(f) = {}
    <2> SUFFICES ASSUME NEW m \in Ghosts(f) PROVE FALSE
      OBVIOUS
    <2>1. PICK h \in Neighbors(f) : m = Ghost(h) /\ ~Stops(reduced + 1)
      BY <1>1 DEF Exchange
    <2>2. Got(f) = Neighbors(f)
      BY <1>1, <2>1 DEF Exchange, Counted
    <2>3. QED
      BY <2>1, <2>2 DEF Got
  <1>3. Waiting(f, 0, "receive_grid") = {}
    <2>1. reduced > 0 => ~Stops(reduced)
      BY <1>1 DEF Steps
    <2>2. QED
      BY <1>1, <2>1 DEF Collects
  <1>4. ASSUME NEW k \in Kinds PROVE Waiting(f, 0, k) = {} /\ Len(buffers[f][0][k]) = 0
    <2>1. Waiting(f, 0, k) = {}
      BY <1>2, <1>3 DEF Ghosts, Kinds
    <2>2. PICK q \in Seq(Messages) : q = buffers[f][0][k]
      BY <1>1 DEF Kinds, Continuations
    <2>3. ToSet(q) = {}
      BY <2>1, <2>2 DEF Waiting
    <2>4. Len(q) = 0
      <3>1. \A j \in 1 .. Len(q) : q[j] \in ToSet(q)
        BY DEF ToSet
      <3>2. Len(q) \in Nat
        OBVIOUS
      <3>3. QED
        BY <2>3, <3>1, <3>2
    <2>5. QED
      BY <2>1, <2>2, <2>4
  <1>5. tasks[f][0].continuation # "receive_ghost"
    BY <1>1 DEF Steps, Place, NoTask
  <1>6. EndIt(reduced + 1) # It0 + reduced + 2
    BY <1>1 DEF EndIt
  <1>7. Alive(f, 0) => tasks[f][0].it # It0 + reduced + 2
    BY <1>1, <1>6 DEF Steps, Place, Alive
  <1>8. QED
    BY <1>4, <1>5, <1>7

LEMMA ExchangesReduction ==
  ASSUME OneStart, Safe, InStep, Exchanges, CompleteReduction
  PROVE  Exchanges'
  <1> DEFINE j == reduced + 1
  <1>1. /\ Tids = {0} /\ reduced \in Nat /\ It0 \in Int
        /\ UNCHANGED <<tasks, buffers, contributed>> /\ reduced' = j
    BY OneStartFacts DEF Safe, Typed, CompleteReduction
  <1>2. ASSUME NEW f \in Elems
        PROVE  Count(f) = j /\ contributed[f][j] = Contribution(f, j)
    <2>1. Count(f) > reduced /\ Steps(f)
      BY DEF CompleteReduction, Count, InStep
    <2>2. QED
      BY <1>1, <2>1 DEF Steps
  <1>3. PICK e \in Elems, m \in Messages :
          /\ m.id = contributed[e][j].id /\ m.id \in Reduced
          /\ net' = net \cup {<<d, m>> : d \in (IF m.id = "receive_grid" THEN {Root} ELSE Elems)}
    BY ReductionMessage
  <1>4. m.id = "receive_grid" => Stops(j)
    <2>1. m.id = Contribution(e, j).id
      BY <1>2, <1>3
    <2>2. QED
      BY <2>1 DEF Contribution, Message
  <1>5. m.tid = 0
    BY <1>1 DEF Messages
  <1> SUFFICES ASSUME NEW f \in Elems PROVE Exchange(f)' /\ Collects(f)'
    BY DEF Exchanges
  <1>6. /\ \A k \in Kinds : Waiting(f, 0, k) = {} /\ Len(buffers[f][0][k]) = 0
        /\ tasks[f][0].continuation # "receive_ghost"
    BY <1>2, BeforeReduction
  <1>7. /\ Ghosts(f)' = {}
        /\ Waiting(f, 0, "receive_grid")' \subseteq {m}
        /\ Waiting(f, 0, "receive_grid")' # {} => m.id = "receive_grid" /\ f = Root
    <2>1. \A k \in Kinds : Waiting(f, 0, k)' \subseteq {x \in {m} : x.id = k}
      <3> SUFFICES ASSUME NEW k \in Kinds PROVE Waiting(f, 0, k)' \subseteq {x \in {m} : x.id = k}
        OBVIOUS
      <3>1. InFlight(f, 0, k) = {} /\ ToSet(buffers[f][0][k]) = {}
        BY <1>6 DEF Waiting
      <3>2. InFlight(f, 0, k)' \subseteq {x \in {m} : x.id = k}
        BY <1>3, <3>1 DEF InFlight
      <3>3. QED
        BY <1>1, <3>1, <3>2 DEF Waiting
    <2>2. Ghosts(f)' = {}
      BY <1>3, <2>1 DEF Ghosts, Kinds, Reduced
    <2>3. Waiting(f, 0, "receive_grid")' # {} => m.id = "receive_grid"
      BY <2>1 DEF Kinds
    <2>4. ASSUME f # Root, m.id = "receive_grid" PROVE Waiting(f, 0, "receive_grid")' = {}
      <3>1. InFlight(f, 0, "receive_grid") = {} /\ ToSet(buffers[f][0]["receive_grid"]) = {}
        BY <1>6 DEF Waiting, Kinds
      <3>2. InFlight(f, 0, "receive_grid")' = {}
        BY <1>3, <2>4, <3>1 DEF InFlight
      <3>3. QED
        BY <1>1, <3>1, <3>2 DEF Waiting
    <2>5. QED
      BY <2>1, <2>2, <2>3, <2>4 DEF Kinds
  <1>8. \A k \in Kinds : WaitOnce(f, k)'
    BY <1>1, <1>6 DEF WaitOnce, NoneTwice
  <1>9. Got(f)' = {}
    <2>1. ASSUME NEW h \in Elems PROVE ~HasSent(h)'
      <3>1. Alive(h, 0) => tasks[h][0].it # It0 + reduced + 2
        BY <1>2, BeforeReduction
      <3>2. It0 + reduced' + 1 = It0 + reduced + 2
        BY <1>1
      <3>3. QED
        BY <1>1, <3>1, <3>2 DEF HasSent, Alive
    <2>2. QED
      BY <2>1, NeighborFacts DEF Got
  <1>10. Counted(f)'
    BY <1>1, <1>2, <1>6, <1>9 DEF Counted, Count
  <1>11. Exchange(f)'
    BY <1>7, <1>8, <1>10 DEF Exchange, Kinds
  <1>12. Collects(f)'
    BY <1>1, <1>4, <1>7, <1>8 DEF Collects, Kinds, Stops
  <1>13. QED
    BY <1>11, <1>12

LEMMA ExchangesInit == OneStart /\ Init => Exchanges
  <1> SUFFICES ASSUME OneStart, Init, NEW e \in Elems PROVE Exchange(e) /\ Collects(e)
    BY DEF Exchanges
  <1>1. /\ net = {} /\ reduced = 0 /\ 0 \in Tids
        /\ \A f \in Elems : ~Alive(f, 0) /\ contributed[f] = << >>
        /\ tasks[e][0] = NoTask
        /\ \A c \in Continuations : buffers[e][0][c] = << >>
    BY OneStartFacts DEF Init, Alive
  <1>2. \A c \in Kinds : Waiting(e, 0, c) = {} /\ WaitOnce(e, c)
    <2> SUFFICES ASSUME NEW c \in Kinds PROVE Waiting(e, 0, c) = {} /\ WaitOnce(e, c)
      OBVIOUS
    <2>1. buffers[e][0][c] = << >>
      BY <1>1 DEF Kinds, Continuations
    <2>2. ToSet(buffers[e][0][c]) = {}
      BY <2>1 DEF ToSet
    <2>3. QED
      BY <1>1, <2>1, <2>2 DEF Waiting, InFlight, WaitOnce, NoneTwice
  <1>3. Got(e) = {}
    BY <1>1, NeighborFacts DEF Got, HasSent
  <1>4. Counted(e)
    <2>1. Count(e) = 0
      BY <1>1 DEF Count
    <2>2. tasks[e][0].continuation = "none"
      BY <1>1 DEF NoTask
    <2>3. QED
      BY <1>1, <1>3, <2>1, <2>2 DEF Counted
  <1>5. QED
    BY <1>2, <1>4 DEF Exchange, Collects, Ghosts, Kinds

LEMMA ExchangesUnchanged ==
  ASSUME Exchanges, UNCHANGED <<tasks, buffers, net, contributed, reduced>>
  PROVE  Exchanges'
  <1>1. \A f \in Elems, k \in Kinds : /\ Waiting(f, 0, k)' = Waiting(f, 0, k)
                                      /\ WaitOnce(f, k) => WaitOnce(f, k)'
    BY DEF Waiting, InFlight, WaitOnce
  <1>2. QED
    BY <1>1, ExchangesSame

LEMMA ExchangesNext == OneStart /\ Safe /\ InStep /\ Exchanges /\ [Next]_vars => Exchanges'
  <1> SUFFICES ASSUME OneStart, Safe, InStep, Exchanges, [Next]_vars PROVE Exchanges'
    OBVIOUS
  <1>1. CASE Launch
    BY <1>1, ExchangesLaunch
  <1>2. ASSUME NEW e \in Elems, NEW d \in net, Create(e, d) \/ Resume(e, d) \/ Buffer(e, d)
        PROVE  Exchanges'
    BY <1>2, ExchangesCreate, ResumeContinues, ExchangesContinue, ExchangesBuffer
  <1>3. ASSUME NEW e \in Elems, TryContinue(e) PROVE Exchanges'
    <2>1. CASE UNCHANGED <<tasks, buffers, net, contributed, reduced, status>>
      BY <2>1, ExchangesUnchanged
    <2>2. ASSUME NEW m, Continues(e, m, net) PROVE Exchanges'
      BY <2>2, ExchangesContinue
    <2>3. QED
      BY <1>3, <2>1, <2>2, TryContinueContinues
  <1>4. CASE CompleteReduction
    BY <1>4, ExchangesReduction
  <1>5. CASE UNCHANGED vars
    BY <1>5, ExchangesUnchanged DEF vars
  <1>6. QED
    BY <1>1, <1>2, <1>3, <1>4, <1>5 DEF Next, Running, Stopped

(* As many ghosts wait for e as neighbors of e have sent one it has not got. *)
LEMMA GhostsCounted ==
  ASSUME Exchanges, NEW e \in Elems
  PROVE  LET B == {f \in Neighbors(e) : HasSent(f) /\ Ghost(f) \in Ghosts(e)}
         IN  IsFiniteSet(Ghosts(e)) /\ Cardinality(Ghosts(e)) = Cardinality(B)
  <1> DEFINE B == {f \in Neighbors(e) : HasSent(f) /\ Ghost(f) \in Ghosts(e)}
             by == [f \in B |-> Ghost(f)]
  <1>1. IsFiniteSet(B)
    BY NeighborFacts, FS_Subset
  <1>2. by \in [B -> Ghosts(e)] /\ \A f \in B : by[f] = Ghost(f)
    OBVIOUS
  <1>3. \A m \in Ghosts(e) : \E f \in B : m = Ghost(f)
    BY DEF Exchanges, Exchange
  <1> HIDE DEF B, by
  <1>4. by \in Bijection(B, Ghosts(e))
    <2>1. \A f, h \in B : by[f] = by[h] => f = h
      BY <1>2, GhostsDiffer
    <2>2. \A m \in Ghosts(e) : \E f \in B : by[f] = m
      BY <1>2, <1>3
    <2>3. DOMAIN by = B
      BY <1>2
    <2>4. QED
      BY <1>2, <2>1, <2>2, <2>3 DEF Bijection, Injection, IsInjective, Surjection
  <1>5. QED
    BY <1>1, <1>4, FS_Bijection DEF ExistsBijection, B

LEMMA ExchangesCounted == OneStart /\ Safe /\ InStep /\ Exchanges => GhostsOfIteration
  <1> SUFFICES ASSUME OneStart, Safe, InStep, Exchanges, NEW e \in Elems,
                      tasks[e][0].continuation = "receive_ghost"
               PROVE  LET k == tasks[e][0].it
                          later == {f \in Neighbors(e) : ~Alive(f, 0) \/ tasks[f][0].it < k}
                      IN  /\ tasks[e][0].nRecvd + Cardinality(Ghosts(e)) + Cardinality(later)
                               = Cardinality(Neighbors(e))
                          /\ \A g \in Ghosts(e) : g.k = k
    BY OneStartFacts DEF GhostsOfIteration, Ghosts
  <1> DEFINE k == It0 + reduced + 1
             N1 == Neighbors(e)
             A == Got(e)
             B == {f \in N1 : HasSent(f) /\ Ghost(f) \in Ghosts(e)}
             C == {f \in N1 : ~HasSent(f)}
  <1>1. /\ reduced \in Nat /\ It0 \in Int /\ Steps(e) /\ Exchange(e)
        /\ \A f \in Elems : tasks[f][0] \in Tasks
    BY OneStartFacts DEF Safe, Typed, InStep, Exchanges
  <1>2. /\ tasks[e][0].it = k /\ Count(e) = reduced /\ ~Stops(reduced + 1) /\ k \in Int
        /\ tasks[e][0].nRecvd = Cardinality(A)
    BY <1>1 DEF Steps, Place, NoTask, Exchange, Counted
  <1>3. \A g \in Ghosts(e) : g.k = k
    BY <1>1 DEF Exchange, Ghost, Message
  <1>4. {f \in N1 : ~Alive(f, 0) \/ tasks[f][0].it < k} = C
    <2>1. ASSUME NEW f \in N1 PROVE (~Alive(f, 0) \/ tasks[f][0].it < k) <=> ~HasSent(f)
      <3>1. f \in Elems /\ tasks[f][0].it \in Int
        BY <1>1, NeighborFacts DEF Tasks
      <3>2. Alive(f, 0) => tasks[f][0].it \in {It0 + reduced - 1, It0 + reduced, k}
        BY <3>1, Iterations
      <3>3. QED
        BY <1>1, <3>1, <3>2 DEF HasSent
    <2>2. QED
      BY <2>1
  <1>5. Cardinality(A) + Cardinality(B) + Cardinality(C) = Cardinality(N1)
    <2>1. A \cup B \cup C = N1 /\ A \cap B = {} /\ (A \cup B) \cap C = {}
      BY DEF Got
    <2>2. IsFiniteSet(N1)
      BY NeighborFacts
    <2>3. IsFiniteSet(A) /\ IsFiniteSet(B) /\ IsFiniteSet(C)
      <3>1. A \in SUBSET N1 /\ B \in SUBSET N1 /\ C \in SUBSET N1
        BY DEF Got
      <3>2. QED
        BY <2>2, <3>1, FS_Subset
    <2> HIDE DEF A, B, C, N1
    <2>4. Cardinality(A \cup B) = Cardinality(A) + Cardinality(B) - 0 /\ IsFiniteSet(A \cup B)
      BY <2>1, <2>3, FS_Union, FS_EmptySet
    <2>5. Cardinality(N1) = Cardinality(A \cup B) + Cardinality(C) - 0
      BY <2>1, <2>3, <2>4, FS_Union, FS_EmptySet
    <2>6. Cardinality(A) \in Nat /\ Cardinality(B) \in Nat /\ Cardinality(C) \in Nat
      BY <2>3, FS_CardinalityType
    <2>7. QED
      BY <2>4, <2>5, <2>6
  <1>6. Cardinality(Ghosts(e)) = Cardinality(B)
    BY GhostsCounted
  <1> HIDE DEF k, A, B, C, N1
  <1>7. tasks[e][0].nRecvd + Cardinality(Ghosts(e)) + Cardinality(C) = Cardinality(N1)
    BY <1>2, <1>5, <1>6
  <1>8. QED
    BY <1>2, <1>3, <1>4, <1>7 DEF N1

(***************************************************************************)
(* The exit: the grid, reduced when the iterations are over, is the last   *)
(* message there is, and the root the last task.                           *)
(***************************************************************************)
LEMMA ExitClean ==
  ASSUME OneStart, Safe, InStep, Exchanges, NEW e \in Elems, NEW m, NEW n, Continues(e, m, n),
         m.id = "receive_grid", InStep', Exchanges'
  PROVE  CleanExit'
  <1>1. PICK o : o = Outcome(NoTask, {}, << >>)
    OBVIOUS
  <1>2. Turned(e, m, o)
    <2>1. Continue(e, 0, tasks[e][0], m) = o
      BY <1>1 DEF Continue
    <2>2. QED
      BY <2>1, ContinuesTurned
  <1>3. /\ reduced \in Nat /\ It0 \in Int /\ MaxIters \in Int /\ Tids = {0} /\ reduced' = reduced
        /\ m \in Waiting(e, 0, "receive_grid")
    BY OneStartFacts DEF Safe, Typed, Continues, Kinds
  <1>4. /\ e = Root /\ reduced > 0 /\ Stops(reduced)
        /\ \A x \in Waiting(e, 0, "receive_grid") : x = m
    BY <1>3 DEF Exchanges, Collects
  <1>5. Stops(reduced + 1)
    BY <1>3, <1>4 DEF Stops
  <1>6. ASSUME NEW f \in Elems PROVE ~Alive(f, 0)'
    <2>1. CASE f = e
      BY <1>1, <1>2, <2>1 DEF Turned, Outcome, Alive
    <2>2. CASE f # e
      <3>1. Count(f) = reduced
        BY <1>3, <1>4 DEF InStep, Steps
      <3>2. ~Alive(f, 0)
        BY <1>3, <1>4, <2>2, <3>1 DEF InStep, Steps, Place, Alive
      <3>3. QED
        BY <1>2, <2>2, <3>2 DEF Turned, Alive
    <2>3. QED
      BY <2>1, <2>2
  <1>7. ASSUME NEW f \in Elems PROVE Waiting(f, 0, "receive_ghost")' = {}
    <2>1. Stops(reduced + 1)'
      BY <1>3, <1>5 DEF Stops
    <2>2. QED
      BY <2>1 DEF Exchanges, Exchange, Ghosts
  <1>8. ASSUME NEW f \in Elems PROVE Waiting(f, 0, "receive_grid")' = {}
    <2>1. f # e => Waiting(f, 0, "receive_grid") = {}
      BY <1>4 DEF Exchanges, Collects
    <2>2. QED
      BY <1>2, <1>4, <2>1 DEF Turned
  <1>9. ASSUME NEW f \in Elems PROVE Waiting(f, 0, "receive_max_error")' = {}
    <2>1. ~Expects(f)'
      BY <1>6 DEF Expects, Alive, NoTask, InStep, Steps, Place
    <2>2. InFlight(f, 0, "receive_max_error")' = {} /\ (buffers[f][0]["receive_max_error"] = << >>)'
      BY <2>1 DEF InStep, Results, InFlight
    <2>3. ToSet(<< >>) = {}
      BY DEF ToSet
    <2>4. QED
      BY <2>2, <2>3 DEF Waiting
  <1>10. QED
    BY <1>3, <1>6, <1>7, <1>8, <1>9 DEF CleanExit, Continuations

LEMMA CleanExitNext ==
  ASSUME OneStart, Safe, InStep, Exchanges, CleanExit, InStep', Exchanges', [Next]_vars
  PROVE  CleanExit'
  <1> SUFFICES ASSUME status' = "exited" PROVE CleanExit'
    BY DEF CleanExit
  <1>1. CASE UNCHANGED vars
    BY <1>1 DEF vars, CleanExit, Alive, Waiting, InFlight
  <1>2. CASE ~UNCHANGED vars
    <2>1. Running /\ status = "running"
      BY <1>2 DEF Next, Stopped, Running
    <2>2. ASSUME NEW e \in Elems, NEW m, NEW n, Continues(e, m, n) PROVE CleanExit'
      <3>1. m.id = "receive_grid"
        <4>1. Shutdown(m)
          BY <2>2 DEF Continues
        <4>2. m.id # "receive_grid" => status' = status
          BY <4>1 DEF Shutdown
        <4>3. QED
          BY <2>1, <4>2
      <3>2. QED
        BY <2>2, <3>1, ExitClean
    <2>3. ~Launch /\ ~CompleteReduction
      BY <2>1 DEF Launch, CompleteReduction
    <2>4. ASSUME NEW e \in Elems, NEW d \in net, Create(e, d) \/ Resume(e, d) \/ Buffer(e, d)
          PROVE  CleanExit'
      <3>1. ~Create(e, d) /\ ~Buffer(e, d)
        BY <2>1 DEF Create, Buffer
      <3>2. QED
        BY <2>2, <2>4, <3>1, ResumeContinues
    <2>5. ASSUME NEW e \in Elems, TryContinue(e) PROVE CleanExit'
      BY <2>1, <2>2, <2>5, TryContinueContinues
    <2>6. QED
      BY <2>1, <2>3, <2>4, <2>5 DEF Running
  <1>3. QED
    BY <1>1, <1>2

(***************************************************************************)
(* The exchange of ghosts (send_ghosts and receive_ghost), for any number  *)
(* of elements and iterations, with one task and one first number: a task  *)
(* that counts to nNeighbors has received, finds on its way, or is still   *)
(* to be sent exactly one ghost of its iteration by each neighbor, and     *)
(* there are no other ghosts.                                              *)
(***************************************************************************)
THEOREM GhostsAccountedFor ==
  ASSUME NTasks = 1, NEW k, InitialIt = {k}
  PROVE  Spec => []GhostsOfIteration
  <1>1. OneStart
    BY DEF OneStart
  <1>2. Init => Safe /\ InStep /\ Exchanges
    BY <1>1, SafeInit, InStepInit, ExchangesInit
  <1>3. Safe /\ InStep /\ Exchanges /\ [Next]_vars => Safe' /\ InStep' /\ Exchanges'
    BY <1>1, SafeNext, InStepNext, ExchangesNext
  <1>4. Safe /\ InStep /\ Exchanges => GhostsOfIteration
    BY <1>1, ExchangesCounted
  <1>5. QED
    BY <1>2, <1>3, <1>4, PTL DEF Spec

(***************************************************************************)
(* on_converge and receive_grid: under the same assumptions, when the root *)
(* calls CkExit every task has terminated and no message waits for one.    *)
(***************************************************************************)
THEOREM ExitLeavesNothing ==
  ASSUME NTasks = 1, NEW k, InitialIt = {k}
  PROVE  Spec => []CleanExit
  <1>1. OneStart
    BY DEF OneStart
  <1>2. Init => Safe /\ InStep /\ Exchanges /\ CleanExit
    <2>1. Init => CleanExit
      BY DEF Init, CleanExit
    <2>2. QED
      BY <1>1, <2>1, SafeInit, InStepInit, ExchangesInit
  <1>3. Safe /\ InStep /\ Exchanges /\ CleanExit /\ [Next]_vars
          => Safe' /\ InStep' /\ Exchanges' /\ CleanExit'
    BY <1>1, SafeNext, InStepNext, ExchangesNext, CleanExitNext
  <1>4. QED
    BY <1>2, <1>3, PTL DEF Spec
=============================================================================
