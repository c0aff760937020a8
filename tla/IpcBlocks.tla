------------------------------ MODULE IpcBlocks ------------------------------
(***************************************************************************)
(* The shared-memory blocks of archive/include: ipc::mempool, the free     *)
(* lists of a PE, and ipc::queue, the blocks sent to a PE.  The head of a  *)
(* list is taken by exchanging it for nullptr and given back by a second   *)
(* exchange; whoever finds nullptr tries again.  Every exchange is a step. *)
(* BasicTester and PingPong are the programs on top: every PE allocates    *)
(* from the pool of the next PE, sends the block through that PE's queue,  *)
(* and polls its own.                                                      *)
(***************************************************************************)
EXTENDS Integers, FiniteSets

CONSTANTS NPes,      \* CmiNumPes(), one process each
          PoolSize   \* bound: the blocks a PE puts into its pool

Pes == 0 .. NPes - 1
Sizes == {64, 128}

ASSUME BlocksAssumption == NPes \in Nat \ {0} /\ PoolSize \in Nat \ {0}

(* The k-th block of a pool.  Null and Tail are pointers to no block. *)
BlockOf(pe, k) == pe * PoolSize + k
Blocks == 1 .. NPes * PoolSize
Tail == 0
Null == -1
Pointers == Blocks \cup {Tail, Null}

Theirs(pe) == (pe + 1) % NPes

VARIABLES
  peers,       \* per PE: the PEs whose pool and queue it knows
  pool,        \* per PE and size: blocks, the head of the free list
  queue,       \* per PE: head, the head of the queue
  next, used,  \* per block: its link and its flag
  pc,          \* per PE
  i,           \* per PE: the loop counter
  blk,         \* per PE: the block it is working on
  head,        \* per PE: what it got for the nullptr it put into a list
  sz           \* per PE: the size class it asked for

shared == <<pool, queue, next, used>>
blockVars == <<peers, shared, pc, i, blk, head, sz>>

BlocksTypeOK ==
  /\ peers \in [Pes -> SUBSET Pes]
  /\ pool \in [Pes -> [Sizes -> Pointers]] /\ queue \in [Pes -> Pointers]
  /\ next \in [Blocks -> Pointers] /\ used \in [Blocks -> BOOLEAN]
  /\ i \in [Pes -> 0 .. PoolSize]
  /\ blk \in [Pes -> Pointers] /\ head \in [Pes -> Pointers]
  /\ sz \in [Pes -> Sizes]

(* Own pool and queue exist, both empty; every PE is at start. *)
BlocksInit(start) ==
  /\ peers = [p \in Pes |-> {p}]
  /\ pool = [p \in Pes |-> [s \in Sizes |-> Tail]]
  /\ queue = [p \in Pes |-> Tail]
  /\ next = [b \in Blocks |-> Null] /\ used = [b \in Blocks |-> FALSE]
  /\ pc = [p \in Pes |-> start] /\ i = [p \in Pes |-> 1]
  /\ blk = [p \in Pes |-> Null] /\ head = [p \in Pes |-> Null]
  /\ sz = [p \in Pes |-> 64]

GoTo(p, l) == pc' = [pc EXCEPT ![p] = l]

-----------------------------------------------------------------------------
(* handle_initiate: the pool and queue of a peer become known. *)
HandleInitiate(p, src) ==
  /\ src \notin peers[p]
  /\ peers' = [peers EXCEPT ![p] = @ \cup {src}]
  /\ UNCHANGED <<shared, pc, i, blk, head, sz>>

(* mempool::lput of the i-th block: the first exchange finds a list. *)
Lput(p, s) ==
  /\ pc[p] = "lput" /\ pool[p][s] # Null
  /\ head' = [head EXCEPT ![p] = pool[p][s]]
  /\ pool' = [pool EXCEPT ![p][s] = Null]
  /\ blk' = [blk EXCEPT ![p] = BlockOf(p, i[p])]
  /\ sz' = [sz EXCEPT ![p] = s]
  /\ GoTo(p, "lput_swap")
  /\ UNCHANGED <<peers, queue, next, used, i>>

(* The block becomes the head of the list; assert(swap == nullptr). *)
LputSwap(p, more, cont) ==
  /\ pc[p] = "lput_swap"
  /\ next' = [next EXCEPT ![blk[p]] = head[p]]
  /\ pool' = [pool EXCEPT ![p][sz[p]] = blk[p]]
  /\ GoTo(p, IF more THEN "lput" ELSE cont)
  /\ i' = [i EXCEPT ![p] = IF more THEN @ + 1 ELSE 0]
  /\ UNCHANGED <<peers, queue, used, blk, head, sz>>

(* mempool::ralloc: the first exchange finds a list, maybe an empty one. *)
Ralloc(p, s) ==
  LET t == Theirs(p) IN
  /\ pc[p] = "ralloc" /\ pool[t][s] # Null
  /\ head' = [head EXCEPT ![p] = pool[t][s]]
  /\ sz' = [sz EXCEPT ![p] = s]
  /\ pool' = [pool EXCEPT ![t][s] = Null]
  /\ GoTo(p, IF pool[t][s] = Tail THEN "ralloc_back" ELSE "ralloc_swap")
  /\ UNCHANGED <<peers, queue, next, used, i, blk>>

(* The list was empty: put the tail back, return nullptr; try again. *)
RallocBack(p) ==
  /\ pc[p] = "ralloc_back"
  /\ pool' = [pool EXCEPT ![Theirs(p)][sz[p]] = head[p]]
  /\ GoTo(p, "ralloc")
  /\ UNCHANGED <<peers, queue, next, used, i, blk, head, sz>>

(* The rest of the list goes back; assert(!used && !swap). *)
RallocSwap(p, cont) ==
  /\ pc[p] = "ralloc_swap"
  /\ pool' = [pool EXCEPT ![Theirs(p)][sz[p]] = next[head[p]]]
  /\ used' = [used EXCEPT ![head[p]] = TRUE]
  /\ blk' = [blk EXCEPT ![p] = head[p]]
  /\ GoTo(p, cont)
  /\ UNCHANGED <<peers, queue, next, head, sz>>

(* queue::enqueue on the next PE's queue: the first exchange. *)
Enqueue(p) ==
  LET t == Theirs(p) IN
  /\ pc[p] = "enqueue" /\ queue[t] # Null
  /\ head' = [head EXCEPT ![p] = queue[t]]
  /\ queue' = [queue EXCEPT ![t] = Null]
  /\ GoTo(p, "enqueue_swap")
  /\ UNCHANGED <<peers, pool, next, used, i, blk, sz>>

(* Faulty: the block keeps its link into the pool. *)
EnqueueSwapNoLink(p, cont) ==
  /\ pc[p] = "enqueue_swap"
  /\ queue' = [queue EXCEPT ![Theirs(p)] = blk[p]]
  /\ GoTo(p, cont)
  /\ UNCHANGED <<peers, pool, next, used, i, blk, head, sz>>

(* The block is linked in front; "bad atomic exchange result". *)
EnqueueSwap(p, cont) ==
  /\ pc[p] = "enqueue_swap"
  /\ next' = [next EXCEPT ![blk[p]] = head[p]]
  /\ queue' = [queue EXCEPT ![Theirs(p)] = blk[p]]
  /\ GoTo(p, cont)
  /\ UNCHANGED <<peers, pool, used, i, blk, head, sz>>

(* Faulty: the head is read, not exchanged. *)
DequeuePeek(p) ==
  /\ pc[p] = "dequeue" /\ queue[p] # Null
  /\ head' = [head EXCEPT ![p] = queue[p]]
  /\ GoTo(p, IF queue[p] = Tail THEN "dequeue_back" ELSE "dequeue_swap")
  /\ UNCHANGED <<peers, pool, queue, next, used, i, blk, sz>>

(* queue::dequeue on one's own queue: the first exchange. *)
Dequeue(p) ==
  /\ pc[p] = "dequeue" /\ queue[p] # Null
  /\ head' = [head EXCEPT ![p] = queue[p]]
  /\ queue' = [queue EXCEPT ![p] = Null]
  /\ GoTo(p, IF queue[p] = Tail THEN "dequeue_back" ELSE "dequeue_swap")
  /\ UNCHANGED <<peers, pool, next, used, i, blk, sz>>

(* The queue was empty: its tail goes back; the callers try again. *)
DequeueBack(p) ==
  /\ pc[p] = "dequeue_back"
  /\ queue' = [queue EXCEPT ![p] = Tail]
  /\ GoTo(p, "dequeue")
  /\ UNCHANGED <<peers, pool, next, used, i, blk, head, sz>>

(* The rest of the queue goes back, and the first block is returned. *)
DequeueSwap(p, cont) ==
  /\ pc[p] = "dequeue_swap"
  /\ queue' = [queue EXCEPT ![p] = next[head[p]]]
  /\ blk' = [blk EXCEPT ![p] = head[p]]
  /\ GoTo(p, cont)
  /\ UNCHANGED <<peers, pool, next, used, i, head, sz>>

(* Where a call cannot go wrong for the caller, whichever program it is. *)
PoolAndQueueCall(p) ==
  RallocBack(p) \/ Enqueue(p) \/ Dequeue(p) \/ DequeueBack(p)

-----------------------------------------------------------------------------
(***************************************************************************)
(* The assertions on the second exchange, in lput, ralloc, enqueue and     *)
(* dequeue: the list taken is still nullptr, nobody else has put a list    *)
(* there; and a block handed out by ralloc was not in use.                 *)
(***************************************************************************)
AssertionsHold ==
  \A p \in Pes :
    /\ pc[p] = "lput_swap" => pool[p][sz[p]] = Null
    /\ pc[p] \in {"ralloc_swap", "ralloc_back"} => pool[Theirs(p)][sz[p]] = Null
    /\ pc[p] = "ralloc_swap" => ~used[head[p]]
    /\ pc[p] = "enqueue_swap" => queue[Theirs(p)] = Null
    /\ pc[p] \in {"dequeue_swap", "dequeue_back"} => queue[p] = Null

(* The blocks reached from a pointer by following next. *)
Follow(b) == IF b \in Blocks THEN next[b] ELSE b
Chain(b) ==
  LET at[k \in 0 .. NPes * PoolSize] == IF k = 0 THEN b ELSE Follow(at[k - 1])
  IN  {at[k] : k \in DOMAIN at} \cap Blocks

(***************************************************************************)
(* Where a block can be: in a free list or a queue, in a list that a PE    *)
(* holds between its exchanges, in a PE's hand and in no list, or in what  *)
(* a program has put aside.                                                *)
(***************************************************************************)
PoolList(p, s) == <<"pool", p, s>>
QueueList(p) == <<"queue", p, 0>>
HeldList(p) == <<"held", p, 0>>
Hand(p) == <<"hand", p, 0>>
Aside(p) == <<"aside", p, 0>>

Lists == {PoolList(p, s) : p \in Pes, s \in Sizes}
         \cup {QueueList(p) : p \in Pes} \cup {HeldList(p) : p \in Pes}
Places == Lists \cup {Hand(p) : p \in Pes} \cup {Aside(p) : p \in Pes}

Taken(p) == pc[p] \in {"lput_swap", "ralloc_swap", "enqueue_swap", "dequeue_swap"}

HeadOf(l) ==
  CASE l[1] = "pool"  -> pool[l[2]][l[3]]
    [] l[1] = "queue" -> queue[l[2]]
    [] l[1] = "held"  -> IF Taken(l[2]) THEN head[l[2]] ELSE Tail

InHand(p) ==
  IF pc[p] \in {"lput_swap", "cache", "enqueue", "enqueue_swap", "free"}
  THEN {blk[p]} ELSE {}

(***************************************************************************)
(* The blocks in the places, out[p] being put aside for PE p, are those of *)
(* born, and no block is in two places.                                    *)
(***************************************************************************)
Conserved(born, out) ==
  LET at(l) == CASE l[1] = "hand"  -> InHand(l[2])
                 [] l[1] = "aside" -> out[l[2]]
                 [] OTHER          -> Chain(HeadOf(l))
      found == UNION {{l} \X at(l) : l \in Places}
  IN  /\ {f[2] : f \in found} = born
      /\ \A f, g \in found : f[2] = g[2] => f = g
==============================================================================
