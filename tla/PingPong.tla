------------------------------ MODULE PingPong ------------------------------
(***************************************************************************)
(* archive/tests/pingpong: one message goes round the PEs nIters times as  *)
(* a Converse message ("plain"), then nIters times as a block in shared    *)
(* memory ("xpmem"); all of this twice, the first time to warm up.  A PE   *)
(* keeps the blocks it got from its peer in the list retained_ and uses    *)
(* them again; that list runs through the same field next as the queue.    *)
(***************************************************************************)
EXTENDS IpcBlocks

CONSTANT NIters   \* nIters

NBuffers == NIters \div 4   \* nIters / kBufferFactor

ASSUME PingPongAssumption == NIters \in Nat /\ NBuffers \in 1 .. PoolSize

None == -1

VARIABLES
  started,   \* the reduction has called start_plain on PE 0
  plain,     \* the PE the plain message is on its way to, or None
  signals,   \* the signals on their way: pairs of a PE and a handler
  warmup,    \* on PE 0
  it,        \* per PE
  retained   \* per PE: retained_ for its peer, the head of the list

pingVars == <<started, plain, signals, warmup, it, retained>>

PingTypeOK ==
  /\ started \in BOOLEAN /\ warmup \in BOOLEAN
  /\ plain \in Pes \cup {None}
  /\ signals \subseteq Pes \X {"start_xpmem", "exit"}
  /\ it \in [Pes -> 0 .. NIters] /\ retained \in [Pes -> Pointers]

PingInit ==
  /\ started = FALSE /\ plain = None /\ signals = {} /\ warmup = TRUE
  /\ it = [p \in Pes |-> 0] /\ retained = [p \in Pes |-> Null]

Signal(which) == signals \cup (Pes \X {which})

-----------------------------------------------------------------------------
(* populate_buffers_, before the PE tells its peers about its pool. *)
PopulateBuffers(p) ==
  /\ Lput(p, 64) \/ LputSwap(p, i[p] < NBuffers, "idle")
  /\ UNCHANGED pingVars

Initiate(p, src) ==
  /\ pc[p] = "idle" /\ pc[src] \notin {"lput", "lput_swap"}
  /\ HandleInitiate(p, src)
  /\ UNCHANGED pingVars

(* start_plain on PE 0, when all have joined the reduction. *)
StartPlain ==
  /\ pc[0] = "idle" /\ ~started /\ \A p \in Pes : peers[p] = Pes
  /\ started' = TRUE
  /\ it' = [it EXCEPT ![0] = 0]
  /\ plain' = Theirs(0)
  /\ UNCHANGED <<blockVars, signals, warmup, retained>>

(* recv_plain: PE 0 counts, the others only pass the message on. *)
RecvPlain(p) ==
  /\ pc[p] = "idle" /\ plain = p
  /\ it' = IF p = 0 THEN [it EXCEPT ![0] = @ + 1] ELSE it
  /\ IF p = 0 /\ it'[0] = NIters
     THEN plain' = None /\ signals' = Signal("start_xpmem")
     ELSE plain' = Theirs(p) /\ UNCHANGED signals
  /\ UNCHANGED <<blockVars, started, warmup, retained>>

(* Faulty: the counter is not reset. *)
ResetStateMissing(p) == it' = it

(* reset_state_ *)
ResetState(p) == it' = [it EXCEPT ![p] = 0]

(* start_xpmem: PE 0 sends the first block, then all poll their queues. *)
StartXpmem(p) ==
  /\ pc[p] = "idle" /\ <<p, "start_xpmem">> \in signals
  /\ signals' = signals \ {<<p, "start_xpmem">>}
  /\ ResetState(p)
  /\ blk' = [blk EXCEPT ![p] = retained[p]]
  /\ GoTo(p, IF p = 0 THEN "alloc" ELSE "dequeue")
  /\ UNCHANGED <<peers, shared, i, head, sz, started, plain, warmup, retained>>

(***************************************************************************)
(* alloc_from: the list of retained blocks is searched for a free one, and *)
(* only without any the pool is asked.  A link that is kTail is followed   *)
(* like any other.                                                         *)
(***************************************************************************)
AllocFrom(p) ==
  /\ pc[p] = "alloc"
  /\ \/ /\ blk[p] = Null
        /\ GoTo(p, "ralloc")
        /\ UNCHANGED <<blk, used>>
     \/ /\ blk[p] \in Blocks /\ ~used[blk[p]]
        /\ used' = [used EXCEPT ![blk[p]] = TRUE]
        /\ GoTo(p, "cache")
        /\ UNCHANGED blk
     \/ /\ blk[p] \in Blocks /\ used[blk[p]]
        /\ blk' = [blk EXCEPT ![p] = next[@]]
        /\ UNCHANGED <<pc, used>>
  /\ UNCHANGED <<peers, pool, queue, next, i, head, sz, pingVars>>

(* The pool is asked, until it has a block. *)
AskPool(p) ==
  /\ Ralloc(p, 64) \/ (RallocSwap(p, "cache") /\ UNCHANGED i)
  /\ UNCHANGED pingVars

(* cache_block: also when the block is the head of the list already. *)
CacheBlock(p) ==
  /\ pc[p] = "cache"
  /\ next' = [next EXCEPT ![blk[p]] = retained[p]]
  /\ retained' = [retained EXCEPT ![p] = blk[p]]
  /\ GoTo(p, "enqueue")
  /\ UNCHANGED <<peers, pool, queue, used, i, blk, head, sz,
                 started, plain, signals, warmup, it>>

(* send_xpmem ends: back to polling, or out of the loop when done. *)
SentBlock(p) ==
  /\ EnqueueSwap(p, IF it[p] < NIters THEN "dequeue" ELSE "idle")
  /\ UNCHANGED pingVars

(* Faulty: the block is not freed. *)
Keep(b) == used

(* my_block->used.exchange(false) *)
Free(b) == [used EXCEPT ![b] = FALSE]

(***************************************************************************)
(* test_finish after the xpmem phase, on PE 0: the plain phase once more   *)
(* when this was the warm-up, or the exit.                                 *)
(***************************************************************************)
TestFinish ==
  /\ warmup' = FALSE
  /\ plain' = IF warmup THEN Theirs(0) ELSE plain
  /\ signals' = IF warmup THEN signals ELSE Signal("exit")
  /\ it' = [it EXCEPT ![0] = IF warmup THEN 0 ELSE @ + 1]

(***************************************************************************)
(* recv_xpmem: the block is freed, then the receipt counted.  PE 0 stops   *)
(* at the last one; the others send in any case.                           *)
(***************************************************************************)
RecvXpmem(p) ==
  LET finish == p = 0 /\ it[p] + 1 = NIters
  IN  /\ pc[p] = "free"
      /\ used' = Free(blk[p])
      /\ \/ finish /\ TestFinish
         \/ /\ ~finish
            /\ it' = [it EXCEPT ![p] = @ + 1]
            /\ UNCHANGED <<warmup, plain, signals>>
      /\ blk' = [blk EXCEPT ![p] = retained[p]]
      /\ GoTo(p, IF finish THEN "idle" ELSE "alloc")
      /\ UNCHANGED <<peers, pool, queue, next, i, head, sz, started, retained>>

(* handle_exit *)
HandleExit(p) ==
  /\ pc[p] = "idle" /\ <<p, "exit">> \in signals
  /\ signals' = signals \ {<<p, "exit">>}
  /\ GoTo(p, "exit")
  /\ UNCHANGED <<peers, shared, i, blk, head, sz,
                 started, plain, warmup, it, retained>>

PingPe(p) ==
  \/ PopulateBuffers(p) \/ \E src \in Pes : Initiate(p, src)
  \/ (p = 0 /\ StartPlain) \/ RecvPlain(p) \/ StartXpmem(p)
  \/ AllocFrom(p) \/ AskPool(p) \/ CacheBlock(p) \/ SentBlock(p)
  \/ DequeueSwap(p, "free") /\ UNCHANGED pingVars
  \/ RecvXpmem(p) \/ HandleExit(p)
  \/ PoolAndQueueCall(p) /\ UNCHANGED pingVars

-----------------------------------------------------------------------------
(***************************************************************************)
(* alloc_from follows next while a retained block is in use, and enqueue   *)
(* has put the link of the queue there, kTail.  It never comes to that: by *)
(* the time a PE sends again its peer has freed the block, so that the     *)
(* first block of the list is free, and it is the only one a PE ever uses. *)
(***************************************************************************)
RetainedFree ==
  \A p \in Pes :
    /\ pc[p] = "alloc" => /\ blk[p] = retained[p]
                          /\ blk[p] # Null => ~used[blk[p]]
    /\ pc[p] = "ralloc" => retained[p] = Null

(***************************************************************************)
(* There is one ball: a plain message or one block in use.  The PEs start  *)
(* their loops at different times and count for themselves; they agree all *)
(* the same.  When the ball reaches a PE its predecessors in the ring have *)
(* received it once more, those after it as often, unless they have not    *)
(* heard of the new round; and nobody has left the loop too early.         *)
(***************************************************************************)
OneBall ==
  started =>
    /\ Cardinality({b \in Blocks : used[b]}) <= IF plain = None THEN 1 ELSE 0
    /\ \A p, q \in Pes :
         pc[p] = "free" =>
           /\ q \in 1 .. p - 1 \/ (p = 0 /\ q # 0) => it[q] = it[p] + 1
           /\ q = 0 => it[q] = it[p]
           /\ q > p /\ p # 0 /\ <<q, "start_xpmem">> \notin signals =>
                it[q] = it[p] /\ pc[q] \in {"dequeue", "dequeue_back"}
==============================================================================
