----------------------------- MODULE BasicTester -----------------------------
(***************************************************************************)
(* archive/tests/basic: every PE puts blocks of two sizes into its pool,   *)
(* takes as many from the pool of the next PE, sends them back through     *)
(* that PE's queue, and handles what comes in through its own.             *)
(***************************************************************************)
EXTENDS IpcBlocks

CONSTANT NumBlocks   \* numBlocks: blocks of each of the two sizes in a pool

NumMsgs == 2 * NumBlocks

ASSUME BasicAssumption == NumBlocks \in Nat \ {0} /\ NumMsgs <= PoolSize

VARIABLES
  last,     \* per block: the test's marker
  handled   \* per PE: the blocks handle_block freed

basicVars == <<last, handled>>

BasicTypeOK == last \in [Blocks -> BOOLEAN] /\ handled \in [Pes -> SUBSET Blocks]

BasicInit == last = [b \in Blocks |-> FALSE] /\ handled = [p \in Pes |-> {}]

-----------------------------------------------------------------------------
(***************************************************************************)
(* handle_run: on PE 0 when the reduction that every PE joins once it      *)
(* knows its peers has completed; elsewhere when PE 0's broadcast arrives. *)
(***************************************************************************)
HandleRun(p) ==
  /\ pc[p] = "init"
  /\ IF p = 0 THEN \A q \in Pes : peers[q] = Pes ELSE pc[0] # "init"
  /\ GoTo(p, "lput")
  /\ UNCHANGED <<peers, shared, i, blk, head, sz, basicVars>>

(* The populate loop puts a block of 128 bytes, then one of 64. *)
SizeOf(k) == IF k % 2 = 1 THEN 128 ELSE 64

MoreToPut(k) == k < NumMsgs

Populate(p) ==
  /\ Lput(p, SizeOf(i[p])) \/ LputSwap(p, MoreToPut(i[p]), "ralloc")
  /\ UNCHANGED basicVars

(* Faulty: the marker is a block early. *)
IsLastEarly(k) == k + 1 >= NumMsgs

(* last = ++i == numBlocks * 2 *)
IsLast(k) == k = NumMsgs

(* A block was allocated: it is filled, and the last one of all is marked. *)
FillBlock(p) ==
  /\ RallocSwap(p, "enqueue")
  /\ i' = [i EXCEPT ![p] = @ + 1]
  /\ last' = [last EXCEPT ![head[p]] = IsLast(i[p] + 1)]
  /\ UNCHANGED handled

(* One block is asked for in a random size. *)
SendBlock(p) ==
  /\ \/ \E s \in Sizes : Ralloc(p, s)
     \/ EnqueueSwap(p, IF i[p] < NumMsgs THEN "ralloc" ELSE "dequeue")
  /\ UNCHANGED basicVars

(***************************************************************************)
(* handle_block verifies and frees the block; the marked one ends the      *)
(* loop, and CsdExitScheduler the process.                                 *)
(***************************************************************************)
HandleBlock(p) ==
  /\ DequeueSwap(p, IF last[head[p]] THEN "exit" ELSE "dequeue")
  /\ handled' = [handled EXCEPT ![p] = @ \cup {head[p]}]
  /\ UNCHANGED last

BasicPe(p) ==
  \/ \E src \in Pes : /\ pc[p] = "init" /\ HandleInitiate(p, src)
                      /\ UNCHANGED basicVars
  \/ HandleRun(p) \/ Populate(p) \/ FillBlock(p) \/ SendBlock(p) \/ HandleBlock(p)
  \/ PoolAndQueueCall(p) /\ UNCHANGED basicVars

-----------------------------------------------------------------------------
(* A block is in a pool once lput has begun. *)
BasicPut(p) ==
  IF pc[p] \in {"init", "lput"} THEN i[p] - 1
  ELSE IF pc[p] = "lput_swap" THEN i[p] ELSE NumMsgs

(* "exit once all messages handled" (tester.cc) *)
ExitWhenAllHandled ==
  \A p \in Pes : pc[p] = "exit" => Cardinality(handled[p]) = NumMsgs
==============================================================================
