----------------------------- MODULE WarpPingpong -----------------------------
(***************************************************************************)
(* warp/pingpong.cpp: two tasks pass a message back and forth, nIters      *)
(* times to warm up and nIters times more.  Task 0 is on rank 0, task 1 on *)
(* rank 1, or on rank 0 when there is no other.                            *)
(***************************************************************************)
EXTENDS Warp

CONSTANT NIters

ASSUME PingpongAssumption == NIters \in Nat \ {0} /\ MaxSerial = 4 * NIters + 1

Tasks == {0, 1}
Peer(t) == (t + 1) % 2
RankOf(t) == t % nRanks

VARIABLES
  running,   \* per rank
  it,        \* per task: it_
  warmup,    \* per task: warmup_
  over       \* history, per task: finish has returned true

taskVars == <<running, it, warmup, over>>
vars == <<warpVars, taskVars>>

TypeOK ==
  /\ WarpTypeOK
  /\ running \in [Ranks -> BOOLEAN]
  /\ it \in [Tasks -> 0 .. NIters - 1]
  /\ warmup \in [Tasks -> BOOLEAN] /\ over \in [Tasks -> BOOLEAN]

(***************************************************************************)
(* main: the tasks are constructed and post their receives, and rank 0     *)
(* sends the first message, to task 1.  Ranks from 2 on have nothing to    *)
(* run.                                                                    *)
(***************************************************************************)
Init ==
  /\ nRanks \in Sizes /\ sized \in BOOLEAN
  /\ LET on(r) == IF r = 0 THEN (IF nRanks = 1 THEN <<0, 1>> ELSE <<0>>)
                  ELSE IF r = 1 /\ nRanks > 1 THEN <<1>> ELSE << >>
         posted(r) == [k \in DOMAIN on(r) |-> Posted(on(r)[k])]
     IN  /\ \/ receives = [r \in Ranks |-> IF sized THEN posted(r) ELSE << >>]
            \/ receives = [r \in Ranks |-> IF sized THEN Reverse(posted(r)) ELSE << >>]
         /\ probes = [r \in Ranks |-> IF sized THEN << >> ELSE on(r)]
  /\ running = [r \in Ranks |-> r < 2]
  /\ pc = [r \in Ranks |-> IF r < 2 THEN "sends" ELSE "finalize"]
  /\ serial = 1
  /\ net = {[id |-> 1, to |-> 1 % nRanks, obj |-> 1, tag |-> 1]}
  /\ sends = [r \in Ranks |-> IF r = 0 THEN {1} ELSE {}]
  /\ at = [r \in Ranks |-> 1]
  /\ it = [t \in Tasks |-> 0]
  /\ warmup = [t \in Tasks |-> TRUE] /\ over = [t \in Tasks |-> FALSE]

-----------------------------------------------------------------------------
(* (++self.it_) >= nIters *)
Done(n) == n >= NIters

(* Faulty: the task ends after the warm-up. *)
EndsEarly(t) == TRUE

(* What finish returns. *)
Ends(t) == ~warmup[t]

(* Faulty: whichever task ends stops its rank. *)
AnyStops(t, r) == TRUE

(* Faulty: only task 0 stops its rank. *)
ZeroStops(t, r) == t = 0

(* this->index_ == rank: task 1 on rank 0 does not stop it. *)
Stops(t, r) == t = r

(* The entry method: pingpong::receive, with finish. *)
Receive(r, m) ==
  LET t == m.obj
      full == Done(it[t] + 1)
      ends == full /\ Ends(t)
  IN  /\ TestComplete(r, m)
      /\ it' = [it EXCEPT ![t] = IF full THEN 0 ELSE @ + 1]
      /\ warmup' = [warmup EXCEPT ![t] = @ /\ ~full]
      /\ over' = [over EXCEPT ![t] = ends]
      /\ running' = [running EXCEPT ![r] = @ /\ ~(ends /\ Stops(t, r))]
      /\ Send(r, RankOf(Peer(t)), Peer(t), Peer(t))
      /\ IF ends THEN receives' = Erased(r) /\ UNCHANGED <<at, probes>>
         ELSE Request(r, t, Erased(r))

RankStep(r) ==
  \/ /\ \/ TestSends(r) \/ TestPending(r) \/ EndReceives(r)
        \/ Probe(r) \/ EndPass(r, running[r]) \/ Finalize(r)
     /\ UNCHANGED taskVars
  \/ \E k \in DOMAIN receives[r] : \E m \in receives[r][k].got : Receive(r, m)

Deliver == \E m \in net : Match(m) /\ UNCHANGED taskVars

AllRanks == 0 .. nRanks - 1

Exited == (\A r \in AllRanks : pc[r] = "done") /\ UNCHANGED vars

Next == Deliver \/ (\E r \in AllRanks : RankStep(r)) \/ Exited

Spec ==
  /\ Init /\ [][Next]_vars
  /\ WF_vars(Deliver) /\ \A r \in Ranks : WF_vars(r < nRanks /\ RankStep(r))

-----------------------------------------------------------------------------
(* How often the task has received the message. *)
Total(t) == it[t] + (IF warmup[t] THEN 0 ELSE NIters) + (IF over[t] THEN NIters ELSE 0)

InPlay == net \cup UNION {UNION {receives[r][k].got : k \in DOMAIN receives[r]} : r \in Ranks}

(***************************************************************************)
(* The tasks count for themselves and change from warm-up to measurement   *)
(* on their own, yet stay together: one message is under way, it is the    *)
(* last one sent, on its way to the rank of the task whose turn it is, and *)
(* the receipts of both account for all that was sent before.              *)
(***************************************************************************)
TakeTurns ==
  \E m \in InPlay :
    /\ InPlay = {m}
    /\ m.id = serial /\ serial = 1 + Total(0) + Total(1)
    /\ m.obj = (IF Total(0) = Total(1) THEN 1 ELSE 0) /\ m.to = RankOf(m.obj)
    /\ Total(1) \in {Total(0), Total(0) + 1}

(***************************************************************************)
(* A message is matched by its tag and run on the task its header names.   *)
(* A task that goes on has one receive, or probe, for its tag, on its      *)
(* rank, and a task that is over has none; and what a receive matched is   *)
(* for that task, never for another one or the empty place on rank 1.      *)
(***************************************************************************)
Listening ==
  /\ \A t \in Tasks, r \in AllRanks :
       LET posted == {k \in DOMAIN receives[r] : receives[r][k].tag = t}
           probed == {k \in DOMAIN probes[r] : probes[r][k] = t}
       IN  Cardinality(posted) + Cardinality(probed) =
             IF r = RankOf(t) /\ ~over[t] THEN 1 ELSE 0
  /\ \A r \in AllRanks : \A k \in DOMAIN receives[r] :
       \A m \in receives[r][k].got : m.obj = receives[r][k].tag

(***************************************************************************)
(* A rank that calls MPI_Finalize has no receive or probe outstanding, and *)
(* nothing on its way but the message task 0 sends when all is over, which *)
(* nobody receives.                                                        *)
(***************************************************************************)
LeavesNothing ==
  \A r \in AllRanks : pc[r] \in {"finalize", "done"} =>
    /\ receives[r] = << >> /\ probes[r] = << >>
    /\ \A m \in net : m.to = r => m.id = MaxSerial

(***************************************************************************)
(* All ranks get out of their loops and MPI_Finalize returns.  (Without a  *)
(* size and on one rank they do not: the probe for task 0 is in front of   *)
(* the one for task 1, whose message comes first.)                         *)
(***************************************************************************)
Exits == (sized \/ nRanks > 1) => <>(\A r \in AllRanks : pc[r] = "done")
===============================================================================
