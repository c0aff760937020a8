------------------------------ MODULE Completion ------------------------------
(***************************************************************************)
(* Completion detection in charmlite (examples/cdt/pgm.cc): the group test *)
(* produces and consumes messages, the group completion counts them on     *)
(* every PE and sums the counts in one all_reduce after the other, until   *)
(* the sum is zero.  Broadcasts to a group are those of OrderedBroadcast,  *)
(* with PE 0 as the root; a message handler is one step.                   *)
(***************************************************************************)
EXTENDS Integers, FiniteSets, Functions

CONSTANTS
  NPes,   \* CmiNumPes()
  Layers  \* machine layers: TRUE when messages between two PEs keep their order

ASSUME CompletionAssumption == NPes \in Nat \ {0} /\ Layers \subseteq BOOLEAN

Pes == 0 .. NPes - 1
Root == 0
None == -(NPes * NPes) - 1  \* no count

VARIABLES
  fifo,      \* the machine layer
  branch,    \* the PEs where the branch of detector exists
  toRoot,    \* broadcasts to test on their way to the root
  handled,   \* per PE: how many broadcasts to test it has handled, in order
  started,   \* detection_started_ at the root
  detecting, \* the PEs that have handled the broadcast of start_detection
  lcount,    \* per PE: status.lcount
  contributed, \* per PE: its contribution to the current reduction, or None
  result,    \* per PE: the count on its way to receive_count_, or None
  complete,  \* the PEs where status.complete holds
  exits,     \* the PEs an exit message is on its way to
  pe         \* per PE: "running", "recursing" (for ever) or "exited"

vars == <<fifo, branch, toRoot, handled, started, detecting, lcount,
          contributed, result, complete, exits, pe>>

(* The first broadcast is produce, the others are one consume of each PE. *)
Broadcasts == 1 + NPes

TypeOK ==
  /\ fifo \in Layers
  /\ branch \subseteq Pes /\ detecting \subseteq Pes
  /\ complete \subseteq Pes /\ exits \subseteq Pes
  /\ toRoot \in 0 .. NPes /\ started \in BOOLEAN
  /\ handled \in [Pes -> 0 .. Broadcasts]
  /\ lcount \in [Pes -> 0 .. NPes]
  /\ contributed \in [Pes -> {None} \cup (0 .. NPes)]
  /\ result \in [Pes -> {None} \cup (0 .. NPes * NPes)]
  /\ pe \in [Pes -> {"running", "recursing", "exited"}]

(* main has constructed both groups and broadcast produce. *)
Init ==
  /\ fifo \in Layers
  /\ branch = {} /\ detecting = {} /\ complete = {} /\ exits = {}
  /\ toRoot = 1 /\ started = FALSE
  /\ handled = [p \in Pes |-> 0]
  /\ lcount = [p \in Pes |-> 0]
  /\ contributed = [p \in Pes |-> None]
  /\ result = [p \in Pes |-> None]
  /\ pe = [p \in Pes |-> "running"]

-----------------------------------------------------------------------------
(* The constructor of completion on p. *)
ConstructBranch(p) ==
  /\ pe[p] = "running" /\ p \notin branch
  /\ branch' = branch \cup {p}
  /\ UNCHANGED <<fifo, toRoot, handled, started, detecting, lcount,
                 contributed, result, complete, exits, pe>>

(***************************************************************************)
(* The next broadcast to test is there: at the root any, which gets its    *)
(* place, elsewhere the one that follows, once the root has passed it on.  *)
(* Where messages keep their order detector was constructed before.        *)
(***************************************************************************)
HandleNext(p) ==
  /\ pe[p] = "running"
  /\ fifo => p \in branch
  /\ handled' = [handled EXCEPT ![p] = @ + 1]
  /\ IF p = Root THEN toRoot > 0 ELSE handled[p] < handled[Root]

TakenFromRoot(p) == IF p = Root THEN toRoot - 1 ELSE toRoot

(* Faulty: the default number of events. *)
ProducedOne == 1

(* "each pe will expect a message from each pe (inclusive)" *)
Produced == NPes

(* test::produce *)
Produce(p) ==
  /\ handled[p] = 0 /\ p \in branch
  /\ HandleNext(p)
  /\ lcount' = [lcount EXCEPT ![p] = @ + Produced]
  /\ toRoot' = TakenFromRoot(p) + 1
  /\ UNCHANGED <<fifo, branch, started, detecting, contributed, result, complete, exits, pe>>

(* test::consume, which at the root starts the detection. *)
Consume(p) ==
  /\ handled[p] > 0 /\ p \in branch
  /\ HandleNext(p)
  /\ lcount' = [lcount EXCEPT ![p] = @ - 1]
  /\ toRoot' = TakenFromRoot(p)
  /\ started' = (started \/ p = Root)
  /\ UNCHANGED <<fifo, branch, detecting, contributed, result, complete, exits, pe>>

(***************************************************************************)
(* Either of them without a local branch of detector.  The message is      *)
(* "put back to await local branch creation", but element_proxy::send      *)
(* delivers to a local element at once: the handler calls itself.          *)
(***************************************************************************)
PutBack(p) ==
  /\ p \notin branch
  /\ HandleNext(p)
  /\ pe' = [pe EXCEPT ![p] = "recursing"]
  /\ toRoot' = TakenFromRoot(p)
  /\ UNCHANGED <<fifo, branch, started, detecting, lcount, contributed, result, complete, exits>>

(* start_detection by broadcast: the PE contributes its count. *)
StartDetection(p) ==
  /\ pe[p] = "running" /\ p \in branch \ detecting
  /\ IF p = Root THEN started ELSE Root \in detecting
  /\ detecting' = detecting \cup {p}
  /\ contributed' = [contributed EXCEPT ![p] = lcount[p]]
  /\ UNCHANGED <<fifo, branch, toRoot, handled, started, lcount, result, complete, exits, pe>>

(* Faulty: a count that has gone down to one will do. *)
IsCompleteAtOne(gcount) == gcount <= 1

(* Faulty: the sense of the test. *)
IsCompleteNever(gcount) == gcount < 0

(* status.complete = (gcount == 0) *)
IsComplete(gcount) == gcount = 0

(* receive_count_: either the callback, exit on all PEs, or once more. *)
ReceiveCount(p, gcount, contributions) ==
  IF IsComplete(gcount)
  THEN /\ complete' = complete \cup {p}
       /\ exits' = Pes
       /\ contributed' = contributions
  ELSE /\ contributed' = [contributions EXCEPT ![p] = lcount[p]]
       /\ UNCHANGED <<complete, exits>>

(* Faulty: the root and one other PE will do. *)
EveryPeHalf == {p \in Pes : contributed[p] # None} \cup {NPes - 1} = Pes

(* CmiReduce hands on a reduction when every PE has contributed. *)
EveryPe == \A p \in Pes : contributed[p] # None

(***************************************************************************)
(* all_reduce_impl_ on PE 0 at the end of a reduction: the sum is sent to  *)
(* the others and delivered here at once.                                  *)
(***************************************************************************)
Reduced ==
  /\ EveryPe /\ pe[Root] = "running"
  /\ LET counted == {p \in Pes : contributed[p] # None}
         gcount == SumFunctionOnSet(contributed, counted)
     IN  /\ result' = [p \in Pes |-> IF p = Root THEN None ELSE gcount]
         /\ ReceiveCount(Root, gcount, [p \in Pes |-> None])
  /\ UNCHANGED <<fifo, branch, toRoot, handled, started, detecting, lcount, pe>>

(* receive_count_ on another PE. *)
ReceiveResult(p) ==
  /\ pe[p] = "running" /\ result[p] # None
  /\ result' = [result EXCEPT ![p] = None]
  /\ ReceiveCount(p, result[p], contributed)
  /\ UNCHANGED <<fifo, branch, toRoot, handled, started, detecting, lcount, pe>>

(* cmk::exit *)
Exit(p) ==
  /\ pe[p] = "running" /\ p \in exits
  /\ pe' = [pe EXCEPT ![p] = "exited"]
  /\ UNCHANGED <<fifo, branch, toRoot, handled, started, detecting, lcount,
                 contributed, result, complete, exits>>

Handler(p) ==
  \/ ConstructBranch(p) \/ Produce(p) \/ Consume(p) \/ PutBack(p)
  \/ StartDetection(p) \/ ReceiveResult(p) \/ Exit(p)

Next == Reduced \/ \E p \in Pes : Handler(p)

Spec == Init /\ [][Next]_vars

(***************************************************************************)
(* Messages arrive, and a PE's scheduler takes them from a queue: none is  *)
(* passed over for ever, however many rounds of the detection there are.   *)
(***************************************************************************)
FairSpec ==
  /\ Spec /\ WF_vars(Reduced)
  /\ \A p \in Pes :
       /\ WF_vars(ConstructBranch(p)) /\ WF_vars(Produce(p)) /\ WF_vars(Consume(p))
       /\ WF_vars(StartDetection(p)) /\ WF_vars(ReceiveResult(p)) /\ WF_vars(Exit(p))

-----------------------------------------------------------------------------
(***************************************************************************)
(* No false completion.  The counts that are summed were taken at          *)
(* different times, and there is no second sum to confirm the first; yet   *)
(* when it is zero every PE has produced and every message was consumed.   *)
(***************************************************************************)
NoFalseCompletion ==
  complete # {} => /\ \A p \in Pes : handled[p] = Broadcasts
                   /\ toRoot = 0

(***************************************************************************)
(* Rounds do not overlap, although they carry no tag ("need to provide a   *)
(* tag if there are multiple reductions"): a PE that has contributed to a  *)
(* round has received the count of the one before, and who gets a count    *)
(* has the message that start_detection is called with again.              *)
(***************************************************************************)
RoundsApart ==
  \A p \in Pes :
    /\ contributed[p] # None => result[p] = None /\ p \notin complete
    /\ contributed[p] # None \/ result[p] # None \/ p \in complete => p \in detecting

(***************************************************************************)
(* "call exit on all pes when we complete!": where messages keep their     *)
(* order the detection comes to an end and every PE exits.                 *)
(***************************************************************************)
ExitOnAllPes == fifo => <>(\A p \in Pes : pe[p] = "exited")
===============================================================================
