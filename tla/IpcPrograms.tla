----------------------------- MODULE IpcPrograms -----------------------------
(***************************************************************************)
(* The two programs on ipc::mempool and ipc::queue: archive/tests/basic    *)
(* and archive/tests/pingpong.  program says which one runs.               *)
(***************************************************************************)
EXTENDS BasicTester, PingPong

CONSTANT Programs   \* the programs to run: "basic", "pingpong"

ASSUME ProgramsAssumption == Programs \subseteq {"basic", "pingpong"}

VARIABLE program

vars == <<program, blockVars, basicVars, pingVars>>

TypeOK ==
  /\ program \in Programs
  /\ pc \in [Pes -> {"init", "lput", "lput_swap", "ralloc", "ralloc_back",
                     "ralloc_swap", "enqueue", "enqueue_swap", "dequeue",
                     "dequeue_back", "dequeue_swap", "idle", "alloc", "cache",
                     "free", "exit"}]
  /\ BlocksTypeOK /\ BasicTypeOK /\ PingTypeOK

Init ==
  /\ program \in Programs
  /\ BlocksInit(IF program = "basic" THEN "init" ELSE "lput")
  /\ BasicInit /\ PingInit

Pe(p) ==
  \/ program = "basic" /\ BasicPe(p) /\ UNCHANGED <<program, pingVars>>
  \/ program = "pingpong" /\ PingPe(p) /\ UNCHANGED <<program, basicVars>>

Exited == (\A p \in Pes : pc[p] = "exit") /\ UNCHANGED vars

Next == (\E p \in Pes : Pe(p)) \/ Exited

Spec == Init /\ [][Next]_vars

-----------------------------------------------------------------------------
(* The blocks put into the pool of p so far. *)
Born(p) ==
  IF program = "basic" THEN BasicPut(p)
  ELSE IF pc[p] = "lput" THEN i[p] - 1
  ELSE IF pc[p] = "lput_swap" THEN i[p] ELSE NBuffers

(* What a PE has taken out: the blocks it handled, or retains for later. *)
Out(p) ==
  IF program = "basic" THEN handled[p]
  ELSE IF retained[p] # Null /\ ~used[retained[p]] THEN {retained[p]} ELSE {}

(***************************************************************************)
(* A block is in one list at a time (free list, queue and retained_ share  *)
(* the link next), and none is lost: every block put into a pool is in a   *)
(* list, in somebody's hand, or was handled, or is retained.               *)
(***************************************************************************)
BornBlocks == UNION {{BlockOf(p, k) : k \in 1 .. Born(p)} : p \in Pes}

BlocksConserved == Conserved(BornBlocks, [p \in Pes |-> Out(p)])

(***************************************************************************)
(* A process exits, and its memory goes, only when the PE that takes its   *)
(* blocks is done with its pool and its queue.                             *)
(***************************************************************************)
ExitAfterPeer ==
  \A p \in Pes : pc[Theirs(p)] = "exit" =>
    pc[p] \in {"dequeue", "dequeue_back", "dequeue_swap", "idle", "exit"}
==============================================================================
