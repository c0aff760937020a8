------------------------- MODULE IpcPrograms_proofs -------------------------
(***************************************************************************)
(* IpcPrograms, for every number of PEs, blocks and iterations and both    *)
(* programs: the assertions in ipc::mempool and ipc::queue hold; in the    *)
(* benchmark there is one ball, and a retained block is free when it is    *)
(* asked for; a process exits after the PE that takes its blocks; and no   *)
(* block is lost, or in two places.                                        *)
(***************************************************************************)
EXTENDS IpcPrograms, FiniteSetTheorems, WellFoundedInduction, TLAPS

(* Before all its blocks are in the pool a PE has a next one to put there. *)
Putting(p) == pc[p] \in {"init", "lput", "lput_swap"}

Typed ==
  /\ program \in {"basic", "pingpong"}
  /\ BlocksTypeOK
  /\ retained \in [Pes -> Pointers]
  /\ pc \in [Pes -> {"init", "lput", "lput_swap", "ralloc", "ralloc_back",
                     "ralloc_swap", "enqueue", "enqueue_swap", "dequeue",
                     "dequeue_back", "dequeue_swap", "idle", "alloc", "cache",
                     "free", "exit"}]
  /\ \A p \in Pes :
       /\ Putting(p) => i[p] \in 1 .. PoolSize
       /\ program = "basic" /\ pc[p] \in {"ralloc", "ralloc_back", "ralloc_swap"} =>
            i[p] < NumMsgs
       /\ pc[p] \in {"ralloc_swap", "dequeue_swap"} => head[p] \in Blocks

(* p is between its two exchanges on a free list of t, on the queue of t. *)
HoldsPool(p, t, s) ==
  \/ pc[p] = "lput_swap" /\ t = p /\ s = sz[p]
  \/ pc[p] \in {"ralloc_swap", "ralloc_back"} /\ t = Theirs(p) /\ s = sz[p]

HoldsQueue(p, t) ==
  \/ pc[p] = "enqueue_swap" /\ t = Theirs(p)
  \/ pc[p] \in {"dequeue_swap", "dequeue_back"} /\ t = p

(* The nullptr is the lock: who holds a list is alone, and it is there. *)
PoolsExclusive ==
  \A p, t \in Pes, s \in Sizes : HoldsPool(p, t, s) =>
    pool[t][s] = Null /\ \A q \in Pes : HoldsPool(q, t, s) => q = p

QueuesExclusive ==
  \A p, t \in Pes : HoldsQueue(p, t) =>
    queue[t] = Null /\ \A q \in Pes : HoldsQueue(q, t) => q = p

Exclusive == PoolsExclusive /\ QueuesExclusive

-----------------------------------------------------------------------------
(* F is the set of blocks in free lists: unused, and linked to each other. *)
Linked(F) ==
  /\ \A b \in F : ~used[b] /\ next[b] \in F \cup {Tail}
  /\ \A t \in Pes, s \in Sizes : pool[t][s] \in F \cup {Tail, Null}
  /\ \A p \in Pes :
       /\ pc[p] = "lput_swap" => head[p] \in F \cup {Tail}
       /\ pc[p] = "ralloc_swap" => head[p] \in F
       /\ pc[p] = "ralloc_back" => head[p] = Tail

(* The head of a free list that p holds. *)
HoldsHead(p) == pc[p] \in {"lput_swap", "ralloc_swap"}

(* Each of them is pointed to once, from those places. *)
Once(F) ==
  /\ \A b, c \in F : next[b] = next[c] /\ next[b] \in F => b = c
  /\ \A b \in F, t \in Pes, s \in Sizes : pool[t][s] \in F => pool[t][s] # next[b]
  /\ \A b \in F, p \in Pes : HoldsHead(p) /\ head[p] \in F => head[p] # next[b]
  /\ \A t, u \in Pes, s, r \in Sizes :
       pool[t][s] = pool[u][r] /\ pool[t][s] \in F => t = u /\ s = r
  /\ \A t, p \in Pes, s \in Sizes :
       HoldsHead(p) /\ head[p] \in F => head[p] # pool[t][s]
  /\ \A p, q \in Pes :
       HoldsHead(p) /\ HoldsHead(q) /\ head[p] = head[q] /\ head[p] \in F => p = q

(* p has a block in hand that was in a free list, and may still be linked to it. *)
HasBlock(p) == pc[p] \in {"cache", "enqueue", "enqueue_swap"}

(* O holds the blocks that were sent or are retained: linked to each other. *)
Sent(O) ==
  /\ \A b \in O : next[b] \in O \cup {Tail, Null}
  /\ \A t \in Pes : queue[t] \in O \cup {Tail, Null}
  /\ \A p \in Pes :
       /\ retained[p] \in O \cup {Tail, Null}
       /\ pc[p] = "enqueue_swap" => head[p] \in O \cup {Tail}
       /\ pc[p] = "dequeue_swap" => head[p] \in O
       /\ pc[p] = "alloc" => blk[p] \in O \cup {Tail, Null}

(* The sets are apart; a block that is still to come is in neither of them. *)
Apart(F, O) ==
  /\ F \cap O = {}
  /\ \A p \in Pes :
       /\ HasBlock(p) => blk[p] \in Blocks \ F
       /\ pc[p] = "lput_swap" => blk[p] = BlockOf(p, i[p])
       /\ Putting(p) => \A k \in i[p] .. PoolSize :
            /\ BlockOf(p, k) \notin F \cup O /\ ~used[BlockOf(p, k)]
            /\ \A q \in Pes : HasBlock(q) => blk[q] # BlockOf(p, k)

Shape(F, O) == Linked(F) /\ Once(F) /\ Sent(O) /\ Apart(F, O)

FreeLists == \E F, O \in SUBSET Blocks : Shape(F, O)

Safe == Typed /\ Exclusive /\ FreeLists

-----------------------------------------------------------------------------
(* The only multiple of n strictly between -n and n is 0. *)
LEMMA SmallMultiple ==
  ASSUME NEW n \in Nat \ {0}, NEW k \in Int, k * n < n, -n < k * n
  PROVE  k = 0
BY SMT

(* Division with remainder. *)
LEMMA DivMod ==
  ASSUME NEW n \in Nat \ {0}, NEW t \in Nat
  PROVE  /\ t \div n \in Nat
         /\ t % n \in 0 .. n - 1
         /\ t = n * (t \div n) + (t % n)
BY SMT

(* Every PE has its own PoolSize block numbers. *)
LEMMA BlockOfFacts ==
  /\ \A p \in Pes, k \in 1 .. PoolSize : BlockOf(p, k) \in Blocks
  /\ \A p, q \in Pes, k, l \in 1 .. PoolSize :
       BlockOf(p, k) = BlockOf(q, l) => p = q /\ k = l
  <1> USE BlocksAssumption
  <1>1. ASSUME NEW p \in Pes, NEW k \in 1 .. PoolSize
        PROVE  BlockOf(p, k) \in Blocks
    <2>1. p * PoolSize \in Nat /\ (p + 1) * PoolSize = p * PoolSize + PoolSize
      BY DEF Pes
    <2>2. (p + 1) * PoolSize <= NPes * PoolSize /\ NPes * PoolSize \in Nat
      BY DEF Pes
    <2>3. QED
      BY <2>1, <2>2 DEF BlockOf, Blocks
  <1>2. ASSUME NEW p \in Pes, NEW q \in Pes, NEW k \in 1 .. PoolSize, NEW l \in 1 .. PoolSize,
               BlockOf(p, k) = BlockOf(q, l)
        PROVE  p = q /\ k = l
    <2>1. p \in Int /\ q \in Int /\ p - q \in Int
      BY DEF Pes
    <2>2. (p - q) * PoolSize = p * PoolSize - q * PoolSize
      BY <2>1
    <2>3. p * PoolSize \in Int /\ q * PoolSize \in Int
      BY <2>1
    <2>4. (p - q) * PoolSize = l - k
      BY <1>2, <2>2, <2>3 DEF BlockOf
    <2>5. p - q = 0
      BY <2>1, <2>4, SmallMultiple
    <2>6. QED
      BY <2>1, <2>4, <2>5
  <1>3. QED
    BY <1>1, <1>2

LEMMA ConstantFacts ==
  /\ \A p \in Pes : Theirs(p) \in Pes
  /\ Blocks \subseteq Nat \ {0} /\ Tail \notin Blocks /\ Null \notin Blocks /\ Tail # Null
  /\ NumMsgs \in 1 .. PoolSize /\ NBuffers \in 1 .. PoolSize /\ PoolSize \in Nat
  /\ 0 \in Pes /\ Pes \subseteq Nat
  <1>1. \A p \in Pes : Theirs(p) \in Pes
    BY BlocksAssumption, DivMod DEF Pes, Theirs
  <1>2. Blocks \subseteq Nat \ {0}
    BY DEF Blocks
  <1>3. QED
    BY <1>1, <1>2, BlocksAssumption, BasicAssumption, PingPongAssumption
       DEF Pes, Tail, Null, NumMsgs

LEMMA InitSafe == Init => Safe
  <1> SUFFICES ASSUME Init PROVE Safe
    OBVIOUS
  <1> USE ConstantFacts DEF Init, BlocksInit, PingInit
  <1>1. program \in {"basic", "pingpong"}
    BY ProgramsAssumption
  <1>2. \A p \in Pes : /\ pc[p] \in {"init", "lput"} /\ i[p] = 1
                       /\ retained[p] = Null /\ queue[p] = Tail
                       /\ \A s \in Sizes : pool[p][s] = Tail
    OBVIOUS
  <1>3. Typed
    <2>1. BlocksTypeOK
      BY DEF BlocksTypeOK, Pointers, Sizes
    <2>2. QED
      BY <1>1, <1>2, <2>1 DEF Typed, Putting, Pointers
  <1>4. Exclusive
    BY <1>2 DEF Exclusive, PoolsExclusive, QueuesExclusive, HoldsPool, HoldsQueue
  <1>5. Shape({}, {})
    <2>1. Linked({})
      BY <1>2 DEF Linked
    <2>2. Once({}) /\ Sent({})
      BY <1>2 DEF Once, Sent
    <2>3. Apart({}, {})
      BY <1>2, BlockOfFacts DEF Apart, HasBlock, Putting
    <2>4. QED
      BY <2>1, <2>2, <2>3 DEF Shape
  <1>6. FreeLists
    BY <1>5 DEF FreeLists
  <1>7. QED
    BY <1>3, <1>4, <1>6 DEF Safe

-----------------------------------------------------------------------------
(***************************************************************************)
(* What the steps of either program come to for the blocks.  Quiet: the    *)
(* PE gets ahead without touching a block.                                 *)
(***************************************************************************)
Quiet(p) ==
  /\ UNCHANGED <<shared, i, blk, head, sz, retained>>
  /\ peers' \in [Pes -> SUBSET Pes]
  /\ \/ UNCHANGED pc
     \/ pc[p] = "init" /\ GoTo(p, "lput")
     \/ pc[p] = "idle" /\ GoTo(p, "exit")

Put(p) == \E s \in Sizes : Lput(p, s)

PutSwap(p) ==
  \E more \in BOOLEAN, cont \in {"ralloc", "idle"} :
    LputSwap(p, more, cont) /\ (more => i[p] < PoolSize)

Take(p) == \E s \in Sizes : Ralloc(p, s)

TakeSwap(p) ==
  \/ program = "basic" /\ RallocSwap(p, "enqueue") /\ i' = [i EXCEPT ![p] = @ + 1]
  \/ program = "pingpong" /\ RallocSwap(p, "cache") /\ UNCHANGED i

SendSwap(p) ==
  \E cont \in {"ralloc", "dequeue", "idle"} :
    /\ EnqueueSwap(p, cont)
    /\ program = "basic" /\ cont = "ralloc" => i[p] < NumMsgs

ReceiveSwap(p) == \E cont \in {"exit", "dequeue", "free"} : DequeueSwap(p, cont)

(* Back to the list of retained blocks, having freed the block or not. *)
ToRetained(p) ==
  /\ \E u : used' = [used EXCEPT ![u] = FALSE] \/ used' = used
  /\ blk' = [blk EXCEPT ![p] = retained[p]]
  /\ \E cont \in {"idle", "alloc", "dequeue"} : GoTo(p, cont)
  /\ ~Putting(p)
  /\ program = "pingpong"
  /\ UNCHANGED <<peers, pool, queue, next, i, head, sz, retained>>

Call(p) ==
  /\ UNCHANGED retained
  /\ \/ Put(p) \/ PutSwap(p) \/ Take(p) \/ RallocBack(p) \/ TakeSwap(p)
     \/ Enqueue(p) \/ SendSwap(p) \/ Dequeue(p) \/ DequeueBack(p) \/ ReceiveSwap(p)

Step(p) ==
  /\ UNCHANGED program
  /\ \/ Quiet(p) \/ Call(p) \/ ToRetained(p)
     \/ program = "pingpong" /\ (AllocFrom(p) \/ CacheBlock(p))

(* Every step of the programs is one of these. *)
LEMMA StepCases ==
  ASSUME Typed, [Next]_vars
  PROVE  \E p \in Pes : Step(p)
  <1> USE ConstantFacts
  <1>1. CASE UNCHANGED vars
    <2>1. Quiet(0) /\ UNCHANGED program
      BY <1>1 DEF vars, blockVars, shared, pingVars, Quiet, Typed, BlocksTypeOK
    <2>2. QED
      BY <2>1 DEF Step
  <1>2. ASSUME NEW p \in Pes, program = "basic", BasicPe(p), UNCHANGED <<program, pingVars>>
        PROVE  Step(p)
    <2> USE <1>2 DEF pingVars
    <2>1. CASE \E src \in Pes : HandleInitiate(p, src)
      <3>1. Quiet(p)
        BY <2>1 DEF HandleInitiate, Quiet, Typed, BlocksTypeOK, shared
      <3>2. QED
        BY <3>1 DEF Step
    <2>2. CASE HandleRun(p)
      <3>1. Quiet(p)
        BY <2>2 DEF HandleRun, Quiet, Typed, BlocksTypeOK, shared
      <3>2. QED
        BY <3>1 DEF Step
    <2>3. CASE Populate(p)
      <3>1. SizeOf(i[p]) \in Sizes
        BY DEF SizeOf, Sizes
      <3>2. CASE Lput(p, SizeOf(i[p]))
        BY <3>1, <3>2 DEF Put, Call, Step
      <3>3. CASE LputSwap(p, MoreToPut(i[p]), "ralloc")
        <4>1. MoreToPut(i[p]) \in BOOLEAN /\ (MoreToPut(i[p]) => i[p] < PoolSize)
          BY <3>3 DEF LputSwap, MoreToPut, Typed, Putting
        <4>2. PutSwap(p)
          BY <3>3, <4>1 DEF PutSwap
        <4>3. QED
          BY <4>2 DEF Call, Step
      <3>4. QED
        BY <2>3, <3>2, <3>3 DEF Populate
    <2>4. CASE FillBlock(p)
      BY <2>4 DEF FillBlock, TakeSwap, Call, Step
    <2>5. CASE SendBlock(p)
      <3>1. CASE \E s \in Sizes : Ralloc(p, s)
        BY <3>1 DEF Take, Call, Step
      <3>2. CASE EnqueueSwap(p, IF i[p] < NumMsgs THEN "ralloc" ELSE "dequeue")
        BY <3>2 DEF SendSwap, Call, Step
      <3>3. QED
        BY <2>5, <3>1, <3>2 DEF SendBlock
    <2>6. CASE HandleBlock(p)
      BY <2>6 DEF HandleBlock, ReceiveSwap, Call, Step
    <2>7. CASE PoolAndQueueCall(p)
      BY <2>7 DEF PoolAndQueueCall, Call, Step
    <2>8. QED
      BY <2>1, <2>2, <2>3, <2>4, <2>5, <2>6, <2>7 DEF BasicPe
  <1>3. ASSUME NEW p \in Pes, program = "pingpong", PingPe(p), UNCHANGED program
        PROVE  \E q \in Pes : Step(q)
    <2> USE <1>3
    <2>1. CASE PopulateBuffers(p)
      <3>1. 64 \in Sizes
        BY DEF Sizes
      <3>2. CASE Lput(p, 64)
        BY <2>1, <3>1, <3>2 DEF PopulateBuffers, pingVars, Put, Call, Step
      <3>3. CASE LputSwap(p, i[p] < NBuffers, "idle")
        <4>1. (i[p] < NBuffers) \in BOOLEAN /\ (i[p] < NBuffers => i[p] < PoolSize)
          BY <3>3 DEF LputSwap, Typed, Putting
        <4>2. PutSwap(p)
          BY <3>3, <4>1 DEF PutSwap
        <4>3. QED
          BY <2>1, <4>2 DEF PopulateBuffers, pingVars, Call, Step
      <3>4. QED
        BY <2>1, <3>2, <3>3 DEF PopulateBuffers
    <2>2. CASE \E src \in Pes : Initiate(p, src)
      <3>1. Quiet(p)
        BY <2>2 DEF Initiate, HandleInitiate, Quiet, Typed, BlocksTypeOK, shared, pingVars
      <3>2. QED
        BY <3>1 DEF Step
    <2>3. CASE StartPlain \/ RecvPlain(p) \/ HandleExit(p)
      <3>1. Quiet(p)
        BY <2>3 DEF StartPlain, RecvPlain, HandleExit, Quiet, Typed, BlocksTypeOK,
                    blockVars, shared
      <3>2. QED
        BY <3>1 DEF Step
    <2>4. CASE StartXpmem(p)
      <3>1. ToRetained(p)
        BY <2>4 DEF StartXpmem, ToRetained, shared, Putting
      <3>2. QED
        BY <3>1 DEF Step
    <2>5. CASE RecvXpmem(p)
      <3>1. ToRetained(p)
        BY <2>5 DEF RecvXpmem, ToRetained, Free, Putting
      <3>2. QED
        BY <3>1 DEF Step
    <2>6. CASE AllocFrom(p) \/ CacheBlock(p)
      BY <2>6 DEF Step
    <2>7. CASE AskPool(p)
      <3>1. 64 \in Sizes
        BY DEF Sizes
      <3>2. QED
        BY <2>7, <3>1 DEF AskPool, pingVars, Take, TakeSwap, Call, Step
    <2>8. CASE SentBlock(p)
      BY <2>8 DEF SentBlock, pingVars, SendSwap, Call, Step
    <2>9. CASE DequeueSwap(p, "free") /\ UNCHANGED pingVars
      BY <2>9 DEF pingVars, ReceiveSwap, Call, Step
    <2>10. CASE PoolAndQueueCall(p) /\ UNCHANGED pingVars
      BY <2>10 DEF PoolAndQueueCall, pingVars, Call, Step
    <2>11. QED
      BY <2>1, <2>2, <2>3, <2>4, <2>5, <2>6, <2>7, <2>8, <2>9, <2>10 DEF PingPe
  <1>4. QED
    BY <1>1, <1>2, <1>3 DEF Next, Pe, Exited

LEMMA PoolUpdate ==
  ASSUME pool \in [Pes -> [Sizes -> Pointers]], NEW t \in Pes, NEW s \in Sizes, NEW v \in Pointers
  PROVE  /\ [pool EXCEPT ![t][s] = v] \in [Pes -> [Sizes -> Pointers]]
         /\ \A u \in Pes, r \in Sizes :
              [pool EXCEPT ![t][s] = v][u][r] = IF u = t /\ r = s THEN v ELSE pool[u][r]
  OBVIOUS

LEMMA TypedStep ==
  ASSUME Typed, NEW p \in Pes, Step(p)
  PROVE  Typed'
  <1> USE ConstantFacts DEF BlocksTypeOK, GoTo
  <1> DEFINE PcOK == pc \in [Pes -> {"init", "lput", "lput_swap", "ralloc", "ralloc_back",
                     "ralloc_swap", "enqueue", "enqueue_swap", "dequeue",
                     "dequeue_back", "dequeue_swap", "idle", "alloc", "cache",
                     "free", "exit"}]
             IOK == \A q \in Pes :
                      /\ Putting(q) => i[q] \in 1 .. PoolSize
                      /\ program = "basic" /\ pc[q] \in {"ralloc", "ralloc_back", "ralloc_swap"} =>
                           i[q] < NumMsgs
                      /\ pc[q] \in {"ralloc_swap", "dequeue_swap"} => head[q] \in Blocks
  <1>1. program' = program
    BY DEF Step
  <1>2. CASE Quiet(p)
    <2>1. PcOK'
      BY <1>2 DEF Typed, Quiet, shared
    <2>2. IOK'
      BY <1>1, <1>2 DEF Typed, Putting, Quiet, shared
    <2>3. BlocksTypeOK' /\ retained' \in [Pes -> Pointers]
      BY <1>2 DEF Typed, Putting, Quiet, shared
    <2>4. QED
      BY <1>1, <2>1, <2>2, <2>3 DEF Typed
  <1>3. CASE UNCHANGED retained /\ Put(p)
    <2>1. PcOK'
      BY <1>3 DEF Typed, Put, Lput, Pointers
    <2>2. IOK'
      BY <1>1, <1>3 DEF Typed, Putting, Put, Lput, Pointers
    <2>3. BlocksTypeOK' /\ retained' \in [Pes -> Pointers]
      BY <1>3, BlockOfFacts DEF Typed, Putting, Put, Lput, Pointers
    <2>4. QED
      BY <1>1, <2>1, <2>2, <2>3 DEF Typed
  <1>4. CASE UNCHANGED retained /\ PutSwap(p)
    <2>1. PcOK'
      BY <1>4 DEF Typed, PutSwap, LputSwap
    <2>2. IOK'
      BY <1>1, <1>4 DEF Typed, Putting, PutSwap, LputSwap
    <2>3. BlocksTypeOK' /\ retained' \in [Pes -> Pointers]
      <3>1. pool' \in [Pes -> [Sizes -> Pointers]]
        BY <1>4 DEF Typed, Putting, PutSwap, LputSwap
      <3>2. queue' \in [Pes -> Pointers]
        BY <1>4 DEF Typed, Putting, PutSwap, LputSwap
      <3>2a. next' \in [Blocks -> Pointers]
        BY <1>4, ZenonT(40) DEF Typed, Putting, PutSwap, LputSwap
      <3>2b. used' \in [Blocks -> BOOLEAN]
        BY <1>4 DEF Typed, Putting, PutSwap, LputSwap
      <3>3. i' \in [Pes -> 0 .. PoolSize]
        BY <1>4 DEF Typed, Putting, PutSwap, LputSwap
      <3>4. /\ blk' \in [Pes -> Pointers] /\ head' \in [Pes -> Pointers] /\ sz' \in [Pes -> Sizes]
            /\ peers' \in [Pes -> SUBSET Pes] /\ retained' \in [Pes -> Pointers]
        BY <1>4 DEF Typed, Putting, PutSwap, LputSwap
      <3>5. QED
        BY <3>1, <3>2, <3>2a, <3>2b, <3>3, <3>4
    <2>4. QED
      BY <1>1, <2>1, <2>2, <2>3 DEF Typed
  <1>5. CASE UNCHANGED retained /\ Take(p)
    <2>1. PICK s \in Sizes : Ralloc(p, s)
      BY <1>5 DEF Take
    <2> DEFINE t == Theirs(p)
    <2>2. t \in Pes /\ pool[t][s] \in Blocks \cup {Tail}
      <3>1. t \in Pes /\ pool[t][s] # Null
        BY <2>1 DEF Ralloc
      <3> HIDE DEF t
      <3>2. pool \in [Pes -> [Sizes -> Pointers]]
        BY DEF Typed
      <3>4. pool[t][s] \in Pointers
        BY <3>1, <3>2
      <3>3. QED
        BY <3>1, <3>4 DEF Pointers
    <2>3. head' = [head EXCEPT ![p] = pool[t][s]] /\ sz' = [sz EXCEPT ![p] = s]
      BY <2>1 DEF Ralloc
    <2>4. pool' = [pool EXCEPT ![t][s] = Null]
      BY <2>1 DEF Ralloc
    <2>5. pool' \in [Pes -> [Sizes -> Pointers]]
      BY <2>2, <2>4, PoolUpdate DEF Typed, Pointers
    <2> HIDE DEF t
    <2>6. head' \in [Pes -> Pointers] /\ sz' \in [Pes -> Sizes]
      BY <2>2, <2>3 DEF Typed, Pointers
    <2>7. PcOK'
      BY <2>1 DEF Typed, Ralloc
    <2>8. IOK'
      BY <1>1, <2>1, <2>2, <2>3 DEF Typed, Putting, Ralloc
    <2>9. BlocksTypeOK' /\ retained' \in [Pes -> Pointers]
      BY <1>5, <2>1, <2>5, <2>6 DEF Typed, Ralloc
    <2>10. QED
      BY <1>1, <2>7, <2>8, <2>9 DEF Typed
  <1>6. CASE UNCHANGED retained /\ RallocBack(p)
    <2>1. PcOK'
      BY <1>6 DEF Typed, RallocBack, Pointers
    <2>2. IOK'
      BY <1>1, <1>6 DEF Typed, Putting, RallocBack, Pointers
    <2>3. BlocksTypeOK' /\ retained' \in [Pes -> Pointers]
      BY <1>6 DEF Typed, Putting, RallocBack, Pointers
    <2>4. QED
      BY <1>1, <2>1, <2>2, <2>3 DEF Typed
  <1>7. CASE UNCHANGED retained /\ TakeSwap(p)
    <2>0. /\ Theirs(p) \in Pes /\ next[head[p]] \in Pointers /\ sz[p] \in Sizes
          /\ pool' = [pool EXCEPT ![Theirs(p)][sz[p]] = next[head[p]]]
      BY <1>7 DEF Typed, TakeSwap, RallocSwap
    <2>1. PcOK'
      BY <1>7 DEF Typed, TakeSwap, RallocSwap
    <2>2. IOK'
      BY <1>1, <1>7 DEF Typed, Putting, TakeSwap, RallocSwap
    <2>3. BlocksTypeOK' /\ retained' \in [Pes -> Pointers]
      <3>1. pool' \in [Pes -> [Sizes -> Pointers]]
        BY <2>0, PoolUpdate DEF Typed
      <3>2. queue' \in [Pes -> Pointers]
        BY <1>7 DEF Typed, Putting, TakeSwap, RallocSwap
      <3>2a. next' \in [Blocks -> Pointers]
        BY <1>7 DEF Typed, Putting, TakeSwap, RallocSwap
      <3>2b. used' \in [Blocks -> BOOLEAN]
        BY <1>7 DEF Typed, Putting, TakeSwap, RallocSwap
      <3>3. i' \in [Pes -> 0 .. PoolSize]
        BY <1>7 DEF Typed, Putting, TakeSwap, RallocSwap
      <3>4. /\ blk' \in [Pes -> Pointers] /\ head' \in [Pes -> Pointers] /\ sz' \in [Pes -> Sizes]
            /\ peers' \in [Pes -> SUBSET Pes] /\ retained' \in [Pes -> Pointers]
        BY <1>7 DEF Typed, Putting, TakeSwap, RallocSwap
      <3>5. QED
        BY <3>1, <3>2, <3>2a, <3>2b, <3>3, <3>4
    <2>4. QED
      BY <1>1, <2>1, <2>2, <2>3 DEF Typed
  <1>8. CASE UNCHANGED retained /\ Enqueue(p)
    <2>1. PcOK'
      BY <1>8 DEF Typed, Enqueue, Pointers
    <2>2. IOK'
      BY <1>1, <1>8 DEF Typed, Putting, Enqueue, Pointers
    <2>3. BlocksTypeOK' /\ retained' \in [Pes -> Pointers]
      BY <1>8 DEF Typed, Putting, Enqueue, Pointers
    <2>4. QED
      BY <1>1, <2>1, <2>2, <2>3 DEF Typed
  <1>9. CASE UNCHANGED retained /\ SendSwap(p)
    <2>1. PcOK'
      BY <1>9 DEF Typed, SendSwap, EnqueueSwap
    <2>2. IOK'
      BY <1>1, <1>9 DEF Typed, Putting, SendSwap, EnqueueSwap
    <2>3. BlocksTypeOK' /\ retained' \in [Pes -> Pointers]
      <3>1. next' \in [Blocks -> Pointers]
        BY <1>9, ZenonT(40) DEF Typed, Putting, SendSwap, EnqueueSwap
      <3>2. queue' \in [Pes -> Pointers]
        BY <1>9 DEF Typed, Putting, SendSwap, EnqueueSwap
      <3>3. QED
        BY <1>9, <3>1, <3>2 DEF Typed, SendSwap, EnqueueSwap
    <2>4. QED
      BY <1>1, <2>1, <2>2, <2>3 DEF Typed
  <1>10. CASE UNCHANGED retained /\ Dequeue(p)
    <2>1. PcOK'
      BY <1>10 DEF Typed, Dequeue, Pointers
    <2>2. IOK'
      BY <1>1, <1>10 DEF Typed, Putting, Dequeue, Pointers
    <2>3. BlocksTypeOK' /\ retained' \in [Pes -> Pointers]
      BY <1>10 DEF Typed, Putting, Dequeue, Pointers
    <2>4. QED
      BY <1>1, <2>1, <2>2, <2>3 DEF Typed
  <1>11. CASE UNCHANGED retained /\ DequeueBack(p)
    <2>1. PcOK'
      BY <1>11 DEF Typed, DequeueBack, Pointers
    <2>2. IOK'
      BY <1>1, <1>11 DEF Typed, Putting, DequeueBack, Pointers
    <2>3. BlocksTypeOK' /\ retained' \in [Pes -> Pointers]
      BY <1>11 DEF Typed, Putting, DequeueBack, Pointers
    <2>4. QED
      BY <1>1, <2>1, <2>2, <2>3 DEF Typed
  <1>12. CASE UNCHANGED retained /\ ReceiveSwap(p)
    <2>0. next[head[p]] \in Pointers /\ queue' = [queue EXCEPT ![p] = next[head[p]]]
      BY <1>12 DEF Typed, ReceiveSwap, DequeueSwap
    <2>1. PcOK'
      BY <1>12 DEF Typed, ReceiveSwap, DequeueSwap
    <2>2. IOK'
      BY <1>1, <1>12 DEF Typed, Putting, ReceiveSwap, DequeueSwap
    <2>3. BlocksTypeOK' /\ retained' \in [Pes -> Pointers]
      <3>1. pool' \in [Pes -> [Sizes -> Pointers]]
        BY <1>12 DEF Typed, Putting, ReceiveSwap, DequeueSwap
      <3>2. queue' \in [Pes -> Pointers]
        BY <2>0 DEF Typed
      <3>2a. next' \in [Blocks -> Pointers]
        BY <1>12 DEF Typed, Putting, ReceiveSwap, DequeueSwap
      <3>2b. used' \in [Blocks -> BOOLEAN]
        BY <1>12 DEF Typed, Putting, ReceiveSwap, DequeueSwap
      <3>3. i' \in [Pes -> 0 .. PoolSize]
        BY <1>12 DEF Typed, Putting, ReceiveSwap, DequeueSwap
      <3>4. /\ blk' \in [Pes -> Pointers] /\ head' \in [Pes -> Pointers] /\ sz' \in [Pes -> Sizes]
            /\ peers' \in [Pes -> SUBSET Pes] /\ retained' \in [Pes -> Pointers]
        BY <1>12 DEF Typed, Putting, ReceiveSwap, DequeueSwap
      <3>5. QED
        BY <3>1, <3>2, <3>2a, <3>2b, <3>3, <3>4
    <2>4. QED
      BY <1>1, <2>1, <2>2, <2>3 DEF Typed
  <1>13. CASE ToRetained(p)
    <2>1. PcOK'
      BY <1>13 DEF Typed, ToRetained
    <2>2. IOK'
      BY <1>1, <1>13 DEF Typed, Putting, ToRetained
    <2>3. BlocksTypeOK' /\ retained' \in [Pes -> Pointers]
      BY <1>13 DEF Typed, Putting, ToRetained
    <2>4. QED
      BY <1>1, <2>1, <2>2, <2>3 DEF Typed
  <1>14. CASE program = "pingpong" /\ AllocFrom(p)
    <2>1. PcOK'
      BY <1>14 DEF Typed, AllocFrom, pingVars
    <2>2. IOK'
      BY <1>1, <1>14 DEF Typed, Putting, AllocFrom, pingVars
    <2>3. BlocksTypeOK' /\ retained' \in [Pes -> Pointers]
      BY <1>14, ZenonT(40) DEF Typed, Putting, AllocFrom, pingVars
    <2>4. QED
      BY <1>1, <2>1, <2>2, <2>3 DEF Typed
  <1>15. CASE program = "pingpong" /\ CacheBlock(p)
    <2>1. PcOK'
      BY <1>15 DEF Typed, CacheBlock, pingVars
    <2>2. IOK'
      BY <1>1, <1>15 DEF Typed, Putting, CacheBlock, pingVars
    <2>3. BlocksTypeOK' /\ retained' \in [Pes -> Pointers]
      BY <1>15 DEF Typed, Putting, CacheBlock, pingVars
    <2>4. QED
      BY <1>1, <2>1, <2>2, <2>3 DEF Typed
  <1>16. QED
    BY <1>2, <1>3, <1>4, <1>5, <1>6, <1>7, <1>8, <1>9, <1>10, <1>11, <1>12, <1>13, <1>14, <1>15 DEF Step, Call

(* A step that takes no list, one that takes one, and one that gives one back. *)
LEMMA PoolsKept ==
  ASSUME PoolsExclusive, pool' = pool,
         \A q, u \in Pes, r \in Sizes : HoldsPool(q, u, r)' => HoldsPool(q, u, r)
  PROVE  PoolsExclusive'
  BY DEF PoolsExclusive

LEMMA PoolTaken ==
  ASSUME PoolsExclusive, NEW p \in Pes, NEW t \in Pes, NEW s \in Sizes, pool[t][s] # Null,
         \A u \in Pes, r \in Sizes : pool'[u][r] = IF u = t /\ r = s THEN Null ELSE pool[u][r],
         \A q, u \in Pes, r \in Sizes :
           HoldsPool(q, u, r)' => HoldsPool(q, u, r) \/ (q = p /\ u = t /\ r = s)
  PROVE  PoolsExclusive'
  BY DEF PoolsExclusive

LEMMA PoolReturned ==
  ASSUME PoolsExclusive, NEW p \in Pes, NEW t \in Pes, NEW s \in Sizes, HoldsPool(p, t, s),
         \A u \in Pes, r \in Sizes : (u = t /\ r = s) \/ pool'[u][r] = pool[u][r],
         \A q, u \in Pes, r \in Sizes : HoldsPool(q, u, r)' => HoldsPool(q, u, r) /\ q # p
  PROVE  PoolsExclusive'
  BY DEF PoolsExclusive

LEMMA QueuesKept ==
  ASSUME QueuesExclusive, queue' = queue,
         \A q, u \in Pes : HoldsQueue(q, u)' => HoldsQueue(q, u)
  PROVE  QueuesExclusive'
  BY DEF QueuesExclusive

LEMMA QueueTaken ==
  ASSUME Typed, QueuesExclusive, NEW p \in Pes, NEW t \in Pes, queue[t] # Null,
         queue' = [queue EXCEPT ![t] = Null],
         \A q, u \in Pes : HoldsQueue(q, u)' => HoldsQueue(q, u) \/ (q = p /\ u = t)
  PROVE  QueuesExclusive'
  BY DEF QueuesExclusive, Typed, BlocksTypeOK

LEMMA QueueReturned ==
  ASSUME Typed, QueuesExclusive, NEW p \in Pes, NEW t \in Pes, HoldsQueue(p, t), NEW v,
         queue' = [queue EXCEPT ![t] = v],
         \A q, u \in Pes : HoldsQueue(q, u)' => HoldsQueue(q, u) /\ q # p
  PROVE  QueuesExclusive'
  BY DEF QueuesExclusive, Typed, BlocksTypeOK

LEMMA ExclusiveStep ==
  ASSUME Typed, Exclusive, NEW p \in Pes, Step(p)
  PROVE  Exclusive'
  <1> DEFINE PoolsSame == \A q, u \in Pes, r \in Sizes : HoldsPool(q, u, r)' => HoldsPool(q, u, r)
             QueuesSame == \A q, u \in Pes : HoldsQueue(q, u)' => HoldsQueue(q, u)
  <1>0. PoolsExclusive /\ QueuesExclusive
    BY DEF Exclusive
  <1> USE DEF GoTo
  <1>1. CASE Quiet(p) \/ ToRetained(p) \/ AllocFrom(p) \/ CacheBlock(p)
    <2>1. PoolsSame /\ QueuesSame
      BY <1>1 DEF Quiet, shared, ToRetained, AllocFrom, CacheBlock, pingVars, Typed, HoldsPool, HoldsQueue
    <2>2. pool' = pool /\ queue' = queue
      BY <1>1 DEF Quiet, shared, ToRetained, AllocFrom, CacheBlock
    <2>3. QED
      BY <1>0, <2>1, <2>2, PoolsKept, QueuesKept DEF Exclusive
  <1>2. CASE Put(p)
    <2>1. PICK s \in Sizes : Lput(p, s)
      BY <1>2 DEF Put
    <2> DEFINE t == p
    <2>2. t \in Pes /\ pool[t][s] # Null /\ pool' = [pool EXCEPT ![t][s] = Null] /\ queue' = queue
      BY <2>1, ConstantFacts DEF Lput
    <2>3. QueuesSame
      BY <2>1 DEF Lput, Typed, HoldsPool, HoldsQueue
    <2>4. \A q, u \in Pes, r \in Sizes :
            HoldsPool(q, u, r)' => HoldsPool(q, u, r) \/ (q = p /\ u = t /\ r = s)
      BY <2>1 DEF Lput, Typed, HoldsPool, HoldsQueue, BlocksTypeOK
    <2> HIDE DEF t
    <2>5. \A u \in Pes, r \in Sizes : pool'[u][r] = IF u = t /\ r = s THEN Null ELSE pool[u][r]
      BY <2>2, PoolUpdate DEF Typed, BlocksTypeOK, Pointers
    <2>6. PoolsExclusive'
      BY <1>0, <2>2, <2>4, <2>5, PoolTaken
    <2>7. QED
      BY <1>0, <2>2, <2>3, <2>6, QueuesKept DEF Exclusive
  <1>3. CASE Take(p)
    <2>1. PICK s \in Sizes : Ralloc(p, s)
      BY <1>3 DEF Take
    <2> DEFINE t == Theirs(p)
    <2>2. t \in Pes /\ pool[t][s] # Null /\ pool' = [pool EXCEPT ![t][s] = Null] /\ queue' = queue
      BY <2>1, ConstantFacts DEF Ralloc
    <2>3. QueuesSame
      BY <2>1 DEF Ralloc, Typed, HoldsPool, HoldsQueue
    <2>4. \A q, u \in Pes, r \in Sizes :
            HoldsPool(q, u, r)' => HoldsPool(q, u, r) \/ (q = p /\ u = t /\ r = s)
      BY <2>1 DEF Ralloc, Typed, HoldsPool, HoldsQueue, BlocksTypeOK
    <2> HIDE DEF t
    <2>5. \A u \in Pes, r \in Sizes : pool'[u][r] = IF u = t /\ r = s THEN Null ELSE pool[u][r]
      BY <2>2, PoolUpdate DEF Typed, BlocksTypeOK, Pointers
    <2>6. PoolsExclusive'
      BY <1>0, <2>2, <2>4, <2>5, PoolTaken
    <2>7. QED
      BY <1>0, <2>2, <2>3, <2>6, QueuesKept DEF Exclusive
  <1>4. CASE PutSwap(p)
    <2> DEFINE t == p
               s == sz[p]
    <2>1. t \in Pes /\ s \in Sizes /\ HoldsPool(p, t, s) /\ queue' = queue
      BY <1>4, ConstantFacts DEF PutSwap, LputSwap, Typed, BlocksTypeOK, HoldsPool
    <2>2. QueuesSame
      BY <1>4 DEF PutSwap, LputSwap, Typed, HoldsPool, HoldsQueue
    <2>3. \A q, u \in Pes, r \in Sizes : HoldsPool(q, u, r)' => HoldsPool(q, u, r) /\ q # p
      BY <1>4 DEF PutSwap, LputSwap, Typed, HoldsPool, HoldsQueue
    <2>4. \E v : pool' = [pool EXCEPT ![t][s] = v]
      BY <1>4 DEF PutSwap, LputSwap
    <2> HIDE DEF t, s
    <2>5. \A u \in Pes, r \in Sizes : (u = t /\ r = s) \/ pool'[u][r] = pool[u][r]
      BY <2>1, <2>4 DEF Typed, BlocksTypeOK
    <2>6. PoolsExclusive'
      BY <1>0, <2>1, <2>3, <2>5, PoolReturned
    <2>7. QED
      BY <1>0, <2>1, <2>2, <2>6, QueuesKept DEF Exclusive
  <1>5. CASE RallocBack(p)
    <2> DEFINE t == Theirs(p)
               s == sz[p]
    <2>1. t \in Pes /\ s \in Sizes /\ HoldsPool(p, t, s) /\ queue' = queue
      BY <1>5, ConstantFacts DEF RallocBack, Typed, BlocksTypeOK, HoldsPool
    <2>2. QueuesSame
      BY <1>5 DEF RallocBack, Typed, HoldsPool, HoldsQueue
    <2>3. \A q, u \in Pes, r \in Sizes : HoldsPool(q, u, r)' => HoldsPool(q, u, r) /\ q # p
      BY <1>5 DEF RallocBack, Typed, HoldsPool, HoldsQueue
    <2>4. \E v : pool' = [pool EXCEPT ![t][s] = v]
      BY <1>5 DEF RallocBack
    <2> HIDE DEF t, s
    <2>5. \A u \in Pes, r \in Sizes : (u = t /\ r = s) \/ pool'[u][r] = pool[u][r]
      BY <2>1, <2>4 DEF Typed, BlocksTypeOK
    <2>6. PoolsExclusive'
      BY <1>0, <2>1, <2>3, <2>5, PoolReturned
    <2>7. QED
      BY <1>0, <2>1, <2>2, <2>6, QueuesKept DEF Exclusive
  <1>6. CASE TakeSwap(p)
    <2> DEFINE t == Theirs(p)
               s == sz[p]
    <2>1. t \in Pes /\ s \in Sizes /\ HoldsPool(p, t, s) /\ queue' = queue
      BY <1>6, ConstantFacts DEF TakeSwap, RallocSwap, Typed, BlocksTypeOK, HoldsPool
    <2>2. QueuesSame
      BY <1>6 DEF TakeSwap, RallocSwap, Typed, HoldsPool, HoldsQueue
    <2>3. \A q, u \in Pes, r \in Sizes : HoldsPool(q, u, r)' => HoldsPool(q, u, r) /\ q # p
      BY <1>6 DEF TakeSwap, RallocSwap, Typed, HoldsPool, HoldsQueue
    <2>4. \E v : pool' = [pool EXCEPT ![t][s] = v]
      BY <1>6 DEF TakeSwap, RallocSwap
    <2> HIDE DEF t, s
    <2>5. \A u \in Pes, r \in Sizes : (u = t /\ r = s) \/ pool'[u][r] = pool[u][r]
      BY <2>1, <2>4 DEF Typed, BlocksTypeOK
    <2>6. PoolsExclusive'
      BY <1>0, <2>1, <2>3, <2>5, PoolReturned
    <2>7. QED
      BY <1>0, <2>1, <2>2, <2>6, QueuesKept DEF Exclusive
  <1>7. CASE Enqueue(p)
    <2> DEFINE t == Theirs(p)
    <2>1. t \in Pes /\ queue[t] # Null /\ queue' = [queue EXCEPT ![t] = Null] /\ pool' = pool
      BY <1>7, ConstantFacts DEF Enqueue
    <2>2. PoolsSame
      BY <1>7 DEF Enqueue, Typed, HoldsPool, HoldsQueue
    <2>3. \A q, u \in Pes : HoldsQueue(q, u)' => HoldsQueue(q, u) \/ (q = p /\ u = t)
      BY <1>7 DEF Enqueue, Typed, HoldsPool, HoldsQueue
    <2>4. QED
      BY <1>0, <2>1, <2>2, <2>3, PoolsKept, QueueTaken DEF Exclusive
  <1>8. CASE Dequeue(p)
    <2> DEFINE t == p
    <2>1. t \in Pes /\ queue[t] # Null /\ queue' = [queue EXCEPT ![t] = Null] /\ pool' = pool
      BY <1>8, ConstantFacts DEF Dequeue
    <2>2. PoolsSame
      BY <1>8 DEF Dequeue, Typed, HoldsPool, HoldsQueue
    <2>3. \A q, u \in Pes : HoldsQueue(q, u)' => HoldsQueue(q, u) \/ (q = p /\ u = t)
      BY <1>8 DEF Dequeue, Typed, HoldsPool, HoldsQueue
    <2>4. QED
      BY <1>0, <2>1, <2>2, <2>3, PoolsKept, QueueTaken DEF Exclusive
  <1>9. CASE SendSwap(p)
    <2> DEFINE t == Theirs(p)
    <2>1. t \in Pes /\ HoldsQueue(p, t) /\ pool' = pool
      BY <1>9, ConstantFacts DEF SendSwap, EnqueueSwap, HoldsQueue
    <2>2. PICK v : queue' = [queue EXCEPT ![t] = v]
      BY <1>9 DEF SendSwap, EnqueueSwap
    <2>3. PoolsSame
      BY <1>9 DEF SendSwap, EnqueueSwap, Typed, HoldsPool, HoldsQueue
    <2>4. \A q, u \in Pes : HoldsQueue(q, u)' => HoldsQueue(q, u) /\ q # p
      BY <1>9 DEF SendSwap, EnqueueSwap, Typed, HoldsPool, HoldsQueue
    <2>5. QED
      BY <1>0, <2>1, <2>2, <2>3, <2>4, PoolsKept, QueueReturned DEF Exclusive
  <1>10. CASE DequeueBack(p)
    <2> DEFINE t == p
    <2>1. t \in Pes /\ HoldsQueue(p, t) /\ pool' = pool
      BY <1>10, ConstantFacts DEF DequeueBack, HoldsQueue
    <2>2. PICK v : queue' = [queue EXCEPT ![t] = v]
      BY <1>10 DEF DequeueBack
    <2>3. PoolsSame
      BY <1>10 DEF DequeueBack, Typed, HoldsPool, HoldsQueue
    <2>4. \A q, u \in Pes : HoldsQueue(q, u)' => HoldsQueue(q, u) /\ q # p
      BY <1>10 DEF DequeueBack, Typed, HoldsPool, HoldsQueue
    <2>5. QED
      BY <1>0, <2>1, <2>2, <2>3, <2>4, PoolsKept, QueueReturned DEF Exclusive
  <1>11. CASE ReceiveSwap(p)
    <2> DEFINE t == p
    <2>1. t \in Pes /\ HoldsQueue(p, t) /\ pool' = pool
      BY <1>11, ConstantFacts DEF ReceiveSwap, DequeueSwap, HoldsQueue
    <2>2. PICK v : queue' = [queue EXCEPT ![t] = v]
      BY <1>11 DEF ReceiveSwap, DequeueSwap
    <2>3. PoolsSame
      BY <1>11 DEF ReceiveSwap, DequeueSwap, Typed, HoldsPool, HoldsQueue
    <2>4. \A q, u \in Pes : HoldsQueue(q, u)' => HoldsQueue(q, u) /\ q # p
      BY <1>11 DEF ReceiveSwap, DequeueSwap, Typed, HoldsPool, HoldsQueue
    <2>5. QED
      BY <1>0, <2>1, <2>2, <2>3, <2>4, PoolsKept, QueueReturned DEF Exclusive
  <1>12. QED
    BY <1>1, <1>2, <1>3, <1>4, <1>5, <1>6, <1>7, <1>8, <1>9, <1>10, <1>11 DEF Step, Call

-----------------------------------------------------------------------------
(* What a step may leave alone: the free lists, or the other ones. *)
LEMMA FreeKept ==
  ASSUME NEW F \in SUBSET Blocks, Linked(F), Once(F), pool' = pool,
         \A b \in F : next'[b] = next[b] /\ ~used'[b],
         \A q \in Pes : pc'[q] \in {"lput_swap", "ralloc_swap", "ralloc_back"} =>
                          pc'[q] = pc[q] /\ head'[q] = head[q]
  PROVE  Linked(F)' /\ Once(F)'
  <1>1. Linked(F)'
    BY DEF Linked
  <1>2. Once(F)'
    BY DEF Once, HoldsHead
  <1>3. QED
    BY <1>1, <1>2

LEMMA SentKept ==
  ASSUME NEW O \in SUBSET Blocks, Sent(O), queue' = queue, retained' = retained,
         \A b \in O : next'[b] = next[b],
         \A q \in Pes : pc'[q] \in {"enqueue_swap", "dequeue_swap", "alloc"} =>
                          pc'[q] = pc[q] /\ head'[q] = head[q] /\ blk'[q] = blk[q]
  PROVE  Sent(O)'
  BY DEF Sent

(* The blocks that are still to come are as before, but for those in hand. *)
LEMMA ApartKept ==
  ASSUME NEW F \in SUBSET Blocks, NEW O \in SUBSET Blocks, Apart(F, O),
         \A b \in Blocks \ (F \cup O) : ~used[b] => ~used'[b],
         \A q \in Pes : /\ Putting(q)' => Putting(q) /\ i'[q] = i[q] /\ i[q] \in 1 .. PoolSize
                        /\ pc'[q] = "lput_swap" => blk'[q] = BlockOf(q, i'[q])
                        /\ HasBlock(q)' => \/ HasBlock(q) /\ blk'[q] = blk[q]
                                           \/ blk'[q] \in O
  PROVE  Apart(F, O)'
  <1>1. F \cap O = {}
    BY DEF Apart
  <1>2. \A q \in Pes : HasBlock(q)' => blk'[q] \in Blocks \ F
    BY <1>1 DEF Apart
  <1>3. ASSUME NEW q \in Pes, Putting(q)', NEW k \in i'[q] .. PoolSize
        PROVE  /\ BlockOf(q, k) \notin F \cup O /\ ~used'[BlockOf(q, k)]
               /\ \A u \in Pes : HasBlock(u)' => blk'[u] # BlockOf(q, k)
    <2>1. /\ Putting(q) /\ k \in i[q] .. PoolSize /\ i[q] \in 1 .. PoolSize
          /\ k \in 1 .. PoolSize
      BY <1>3, ConstantFacts
    <2>2. /\ BlockOf(q, k) \notin F \cup O /\ ~used[BlockOf(q, k)]
          /\ \A u \in Pes : HasBlock(u) => blk[u] # BlockOf(q, k)
      BY <2>1 DEF Apart
    <2>3. BlockOf(q, k) \in Blocks
      BY <2>1, BlockOfFacts
    <2>4. QED
      BY <2>2, <2>3
  <1>4. QED
    BY <1>1, <1>2, <1>3 DEF Apart

LEMMA QuietShape ==
  ASSUME Typed, NEW F \in SUBSET Blocks, NEW O \in SUBSET Blocks, Shape(F, O),
         NEW p \in Pes, Quiet(p)
  PROVE  Shape(F, O)'
  <1> USE DEF Shape, Quiet, shared, GoTo
  <1>1. Linked(F)' /\ Once(F)'
    <2>1. \A b \in F : ~used[b]
      BY DEF Linked
    <2>2. QED
      BY <2>1, FreeKept DEF Typed
  <1>2. Sent(O)'
    BY SentKept DEF Typed
  <1>3. Apart(F, O)'
    BY ApartKept DEF Typed, Putting, HasBlock, Apart
  <1>4. QED
    BY <1>1, <1>2, <1>3

(* The steps on a queue and on the retained blocks leave the free lists alone. *)
LEMMA ToRetainedShape ==
  ASSUME Typed, NEW F \in SUBSET Blocks, NEW O \in SUBSET Blocks, Shape(F, O),
         NEW p \in Pes, ToRetained(p)
  PROVE  Shape(F, O)'
  <1> USE DEF Shape, ToRetained, GoTo
  <1>0. \A b \in Blocks : ~used[b] => ~used'[b]
    BY DEF Typed, BlocksTypeOK
  <1>1. Linked(F)' /\ Once(F)'
    <2>1. \A b \in F : ~used'[b]
      BY <1>0 DEF Linked
    <2>2. QED
      BY <2>1, FreeKept DEF Typed
  <1>2. Sent(O)'
    BY DEF Sent, Typed, BlocksTypeOK
  <1>3. Apart(F, O)'
    <2>1. /\ pc'[p] \in {"idle", "alloc", "dequeue"} /\ i' = i
          /\ \A q \in Pes : q # p => pc'[q] = pc[q] /\ blk'[q] = blk[q]
      BY DEF Typed, BlocksTypeOK
    <2>2. \A q \in Pes : Putting(q)' => Putting(q) /\ i[q] \in 1 .. PoolSize
      BY <2>1 DEF Typed, Putting
    <2>3. \A q \in Pes : pc'[q] = "lput_swap" => blk'[q] = BlockOf(q, i[q])
      BY <2>1 DEF Apart
    <2>4. \A q \in Pes : HasBlock(q)' => HasBlock(q) /\ blk'[q] = blk[q]
      BY <2>1 DEF HasBlock
    <2>5. QED
      BY <1>0, <2>1, <2>2, <2>3, <2>4, ApartKept
  <1>4. QED
    BY <1>1, <1>2, <1>3

LEMMA AllocFromShape ==
  ASSUME Typed, NEW F \in SUBSET Blocks, NEW O \in SUBSET Blocks, Shape(F, O),
         NEW p \in Pes, AllocFrom(p)
  PROVE  Shape(F, O)'
  <1> USE DEF Shape, AllocFrom, GoTo, pingVars
  <1>0. /\ \A b \in Blocks \ O : ~used[b] => ~used'[b]
        /\ blk[p] \in O \cup {Tail, Null} /\ F \cap O = {}
    <2>1. blk[p] \in O \cup {Tail, Null} /\ F \cap O = {}
      BY DEF Sent, Apart
    <2>2. ASSUME NEW b \in Blocks \ O, ~used[b] PROVE ~used'[b]
      <3>1. b # blk[p]
        BY <2>1, <2>2, ConstantFacts
      <3>2. QED
        BY <2>2, <3>1 DEF Typed, BlocksTypeOK
    <2>3. QED
      BY <2>1, <2>2
  <1>1. Linked(F)' /\ Once(F)'
    <2>1. \A b \in F : ~used'[b]
      BY <1>0 DEF Linked
    <2>2. QED
      BY <2>1, FreeKept DEF Typed
  <1>2. Sent(O)'
    <2>1. blk[p] \in Blocks => next[blk[p]] \in O \cup {Tail, Null}
      BY <1>0, ConstantFacts DEF Sent
    <2>2. pc'[p] = "alloc" => blk'[p] \in O \cup {Tail, Null}
      BY <2>1 DEF Typed, BlocksTypeOK
    <2>3. QED
      BY <2>2, SMTT(30) DEF Sent, Typed, BlocksTypeOK
  <1>3. Apart(F, O)'
    <2>1. pc'[p] = "cache" => blk'[p] \in O
      BY <1>0, ConstantFacts DEF Typed
    <2>2. /\ pc'[p] \in {"ralloc", "cache", "alloc"} /\ i' = i
          /\ \A q \in Pes : q # p => pc'[q] = pc[q] /\ blk'[q] = blk[q]
      BY DEF Typed, BlocksTypeOK
    <2>3. \A q \in Pes : Putting(q)' => Putting(q) /\ i[q] \in 1 .. PoolSize
      BY <2>2 DEF Typed, Putting
    <2>4. \A q \in Pes : pc'[q] = "lput_swap" => blk'[q] = BlockOf(q, i[q])
      BY <2>2 DEF Apart
    <2>5. \A q \in Pes : HasBlock(q)' => (HasBlock(q) /\ blk'[q] = blk[q]) \/ blk'[q] \in O
      BY <2>1, <2>2 DEF HasBlock
    <2>6. QED
      BY <1>0, <2>2, <2>3, <2>4, <2>5, ApartKept
  <1>4. QED
    BY <1>1, <1>2, <1>3

LEMMA CacheBlockShape ==
  ASSUME Typed, NEW F \in SUBSET Blocks, NEW O \in SUBSET Blocks, Shape(F, O),
         NEW p \in Pes, CacheBlock(p), NEW P, P = O \cup {blk[p]}
  PROVE  P \in SUBSET Blocks /\ Shape(F, P)'
  <1> USE DEF Shape, CacheBlock, GoTo
  <1>0. blk[p] \in Blocks \ F /\ P \in SUBSET Blocks /\ F \cap P = {}
    BY DEF Apart, HasBlock
  <1>1. Linked(F)' /\ Once(F)'
    <2>1. \A b \in F : ~used'[b] /\ next'[b] = next[b]
      BY <1>0 DEF Linked, Typed, BlocksTypeOK
    <2>2. QED
      BY <2>1, FreeKept DEF Typed
  <1>2. Sent(P)'
    BY <1>0 DEF Sent, Typed, BlocksTypeOK
  <1>3. Apart(F, P)
    BY <1>0 DEF Apart, HasBlock
  <1>4. Apart(F, P)'
    BY <1>0, <1>3, ApartKept DEF Typed, BlocksTypeOK, Putting, HasBlock, Apart
  <1>5. QED
    BY <1>0, <1>1, <1>2, <1>4

LEMMA QueueShape ==
  ASSUME Typed, NEW F \in SUBSET Blocks, NEW O \in SUBSET Blocks, Shape(F, O),
         NEW p \in Pes, UNCHANGED retained,
         Enqueue(p) \/ Dequeue(p) \/ DequeueBack(p) \/ ReceiveSwap(p)
  PROVE  Shape(F, O)'
  <1> USE DEF Shape, Enqueue, Dequeue, DequeueBack, ReceiveSwap, DequeueSwap, GoTo
  <1>1. Linked(F)' /\ Once(F)'
    <2>1. \A b \in F : ~used'[b]
      BY DEF Linked
    <2>2. QED
      BY <2>1, FreeKept DEF Typed, BlocksTypeOK
  <1>2. Sent(O)'
    <2>1. CASE Enqueue(p)
      BY <2>1, ConstantFacts DEF Sent, Typed, BlocksTypeOK
    <2>2. CASE Dequeue(p)
      BY <2>2, ConstantFacts DEF Sent, Typed, BlocksTypeOK
    <2>3. CASE DequeueBack(p)
      BY <2>3 DEF Sent, Typed, BlocksTypeOK
    <2>4. CASE ReceiveSwap(p)
      BY <2>4 DEF Sent, Typed, BlocksTypeOK
    <2>5. QED
      BY <2>1, <2>2, <2>3, <2>4
  <1>3. Apart(F, O)'
    <2>1. /\ pc'[p] \notin {"init", "lput", "lput_swap", "cache", "enqueue"} /\ i' = i
          /\ pc'[p] = "enqueue_swap" => pc[p] = "enqueue" /\ blk'[p] = blk[p]
          /\ used' = used
          /\ \A q \in Pes : q # p => pc'[q] = pc[q] /\ blk'[q] = blk[q]
      BY DEF Typed, BlocksTypeOK
    <2>2. \A q \in Pes : Putting(q)' => Putting(q) /\ i[q] \in 1 .. PoolSize
      BY <2>1 DEF Typed, Putting
    <2>3. \A q \in Pes : pc'[q] = "lput_swap" => blk'[q] = BlockOf(q, i[q])
      BY <2>1 DEF Apart
    <2>4. \A q \in Pes : HasBlock(q)' => HasBlock(q) /\ blk'[q] = blk[q]
      BY <2>1 DEF HasBlock
    <2>5. QED
      BY <2>1, <2>2, <2>3, <2>4, ApartKept
  <1>4. QED
    BY <1>1, <1>2, <1>3

LEMMA SendSwapShape ==
  ASSUME Typed, NEW F \in SUBSET Blocks, NEW O \in SUBSET Blocks, Shape(F, O),
         NEW p \in Pes, SendSwap(p), UNCHANGED retained, NEW P, P = O \cup {blk[p]}
  PROVE  P \in SUBSET Blocks /\ Shape(F, P)'
  <1> USE DEF Shape, SendSwap, EnqueueSwap, GoTo
  <1>0. blk[p] \in Blocks \ F /\ P \in SUBSET Blocks /\ F \cap P = {}
    BY DEF Apart, HasBlock
  <1>1. Linked(F)' /\ Once(F)'
    <2>1. \A b \in F : ~used'[b] /\ next'[b] = next[b]
      BY <1>0 DEF Linked, Typed, BlocksTypeOK
    <2>2. QED
      BY <2>1, FreeKept DEF Typed
  <1>2. Sent(P)'
    BY <1>0 DEF Sent, Typed, BlocksTypeOK
  <1>3. Apart(F, P)
    BY <1>0 DEF Apart, HasBlock
  <1>4. Apart(F, P)'
    BY <1>0, <1>3, ApartKept DEF Typed, BlocksTypeOK, Putting, HasBlock, Apart
  <1>5. QED
    BY <1>0, <1>1, <1>2, <1>4

(* The steps on a free list leave the queues and the retained blocks alone. *)
LEMMA PutShape ==
  ASSUME Typed, NEW F \in SUBSET Blocks, NEW O \in SUBSET Blocks, Shape(F, O),
         NEW p \in Pes, Put(p), UNCHANGED retained
  PROVE  Shape(F, O)'
  <1>1. PICK s \in Sizes : Lput(p, s)
    BY DEF Put
  <1>2. /\ pc[p] = "lput" /\ pc'[p] = "lput_swap" /\ head'[p] = pool[p][s] /\ pool[p][s] # Null
        /\ blk'[p] = BlockOf(p, i[p]) /\ i' = i
        /\ \A q \in Pes : q # p => pc'[q] = pc[q] /\ head'[q] = head[q] /\ blk'[q] = blk[q]
        /\ next' = next /\ used' = used /\ queue' = queue /\ retained' = retained
    BY <1>1 DEF Lput, GoTo, Typed, BlocksTypeOK
  <1>3. \A u \in Pes, r \in Sizes : pool'[u][r] = IF u = p /\ r = s THEN Null ELSE pool[u][r]
    BY <1>1, PoolUpdate DEF Lput, Typed, BlocksTypeOK, Pointers
  <1>4. Linked(F)'
    BY <1>2, <1>3 DEF Shape, Linked
  <1>5. Once(F)'
    <2>1. \A u \in Pes, r \in Sizes :
            pool'[u][r] \in F => pool'[u][r] = pool[u][r] /\ ~(u = p /\ r = s)
      BY <1>3, ConstantFacts
    <2>2. \A q \in Pes : HoldsHead(q)' =>
            IF q = p THEN head'[q] = pool[p][s] ELSE HoldsHead(q) /\ head'[q] = head[q]
      BY <1>2 DEF HoldsHead
    <2> HIDE DEF HoldsHead
    <2>3. QED
      BY <1>2, <2>1, <2>2 DEF Shape, Once
  <1>6. Sent(O)'
    BY <1>2, SentKept DEF Shape
  <1>7. Apart(F, O)'
    <2>1. \A q \in Pes : Putting(q)' => Putting(q) /\ i[q] \in 1 .. PoolSize
      BY <1>2 DEF Typed, Putting
    <2>2. \A q \in Pes : pc'[q] = "lput_swap" => blk'[q] = BlockOf(q, i[q])
      BY <1>2 DEF Shape, Apart
    <2>3. \A q \in Pes : HasBlock(q)' => HasBlock(q) /\ blk'[q] = blk[q]
      BY <1>2 DEF HasBlock
    <2>4. QED
      BY <1>2, <2>1, <2>2, <2>3, ApartKept DEF Shape
  <1>8. QED
    BY <1>4, <1>5, <1>6, <1>7 DEF Shape

LEMMA TakeShape ==
  ASSUME Typed, NEW F \in SUBSET Blocks, NEW O \in SUBSET Blocks, Shape(F, O),
         NEW p \in Pes, Take(p), UNCHANGED retained
  PROVE  Shape(F, O)'
  <1>1. PICK s \in Sizes : Ralloc(p, s)
    BY DEF Take
  <1> DEFINE t == Theirs(p)
  <1>2. /\ pc[p] = "ralloc" /\ head'[p] = pool[t][s] /\ pool[t][s] # Null /\ t \in Pes
        /\ pc'[p] = IF pool[t][s] = Tail THEN "ralloc_back" ELSE "ralloc_swap"
        /\ \A q \in Pes : q # p => pc'[q] = pc[q] /\ head'[q] = head[q]
        /\ next' = next /\ used' = used /\ queue' = queue /\ retained' = retained
        /\ blk' = blk /\ i' = i
    BY <1>1, ConstantFacts DEF Ralloc, GoTo, Typed, BlocksTypeOK
  <1>3. \A u \in Pes, r \in Sizes : pool'[u][r] = IF u = t /\ r = s THEN Null ELSE pool[u][r]
    BY <1>1, ConstantFacts, PoolUpdate DEF Ralloc, Typed, BlocksTypeOK, Pointers
  <1> HIDE DEF t
  <1>4. Linked(F)'
    BY <1>2, <1>3 DEF Shape, Linked
  <1>5. Once(F)'
    <2>1. \A u \in Pes, r \in Sizes :
            pool'[u][r] \in F => pool'[u][r] = pool[u][r] /\ ~(u = t /\ r = s)
      BY <1>3, ConstantFacts
    <2>2. \A q \in Pes : HoldsHead(q)' =>
            IF q = p THEN head'[q] = pool[t][s] ELSE HoldsHead(q) /\ head'[q] = head[q]
      BY <1>2 DEF HoldsHead
    <2> HIDE DEF HoldsHead
    <2>3. QED
      BY <1>2, <2>1, <2>2 DEF Shape, Once
  <1>6. Sent(O)'
    BY <1>2, SentKept DEF Shape
  <1>7. Apart(F, O)'
    <2>1. \A q \in Pes : Putting(q)' => Putting(q) /\ i[q] \in 1 .. PoolSize
      BY <1>2 DEF Typed, Putting
    <2>2. \A q \in Pes : pc'[q] = "lput_swap" => blk'[q] = BlockOf(q, i[q])
      BY <1>2 DEF Shape, Apart
    <2>3. \A q \in Pes : HasBlock(q)' => HasBlock(q) /\ blk'[q] = blk[q]
      BY <1>2 DEF HasBlock
    <2>4. QED
      BY <1>2, <2>1, <2>2, <2>3, ApartKept DEF Shape
  <1>8. QED
    BY <1>4, <1>5, <1>6, <1>7 DEF Shape

LEMMA RallocBackShape ==
  ASSUME Typed, NEW F \in SUBSET Blocks, NEW O \in SUBSET Blocks, Shape(F, O),
         NEW p \in Pes, RallocBack(p), UNCHANGED retained
  PROVE  Shape(F, O)'
  <1> DEFINE t == Theirs(p)
             s == sz[p]
  <1>1. /\ pc[p] = "ralloc_back" /\ pc'[p] = "ralloc" /\ t \in Pes /\ s \in Sizes
        /\ head[p] = Tail /\ \A q \in Pes : q # p => pc'[q] = pc[q]
        /\ UNCHANGED <<next, used, queue, retained, head, blk, i>>
    BY ConstantFacts DEF RallocBack, GoTo, Typed, BlocksTypeOK, Shape, Linked
  <1>2. \A u \in Pes, r \in Sizes : pool'[u][r] = IF u = t /\ r = s THEN Tail ELSE pool[u][r]
    BY <1>1, PoolUpdate DEF RallocBack, Typed, BlocksTypeOK, Pointers
  <1> HIDE DEF t, s
  <1>3. Linked(F)'
    BY <1>1, <1>2 DEF Shape, Linked
  <1>4. Once(F)'
    <2>1. \A u \in Pes, r \in Sizes : pool'[u][r] \in F => pool'[u][r] = pool[u][r]
      BY <1>2, ConstantFacts
    <2>2. \A q \in Pes : HoldsHead(q)' => HoldsHead(q) /\ head'[q] = head[q]
      BY <1>1 DEF HoldsHead
    <2>3. QED
      BY <1>1, <2>1, <2>2 DEF Shape, Once
  <1>5. Sent(O)'
    BY <1>1, SentKept DEF Shape
  <1>6. Apart(F, O)'
    <2>1. \A q \in Pes : Putting(q)' => Putting(q) /\ i[q] \in 1 .. PoolSize
      BY <1>1 DEF Typed, Putting
    <2>2. \A q \in Pes : pc'[q] = "lput_swap" => blk'[q] = BlockOf(q, i[q])
      BY <1>1 DEF Shape, Apart
    <2>3. \A q \in Pes : HasBlock(q)' => HasBlock(q) /\ blk'[q] = blk[q]
      BY <1>1 DEF HasBlock
    <2>4. QED
      BY <1>1, <2>1, <2>2, <2>3, ApartKept DEF Shape
  <1>7. QED
    BY <1>3, <1>4, <1>5, <1>6 DEF Shape

(* The block put first is new; it points to the block that was first before. *)
LEMMA PutSwapShape ==
  ASSUME Typed, NEW F \in SUBSET Blocks, NEW O \in SUBSET Blocks, Shape(F, O),
         NEW p \in Pes, PutSwap(p), UNCHANGED retained, NEW G, G = F \cup {blk[p]}
  PROVE  G \in SUBSET Blocks /\ Shape(G, O)'
  <1> DEFINE b == blk[p]
             s == sz[p]
  <1>1. PICK more \in BOOLEAN :
          /\ pc[p] = "lput_swap" /\ pc'[p] \in {"lput", "ralloc", "idle"}
          /\ pc'[p] = "lput" => i'[p] = i[p] + 1
          /\ \A q \in Pes : q # p => pc'[q] = pc[q] /\ i'[q] = i[q]
          /\ next' = [next EXCEPT ![b] = head[p]] /\ s \in Sizes
          /\ UNCHANGED <<used, queue, retained, head, blk>>
    BY DEF PutSwap, LputSwap, GoTo, Typed, BlocksTypeOK
  <1>2. \A u \in Pes, r \in Sizes : pool'[u][r] = IF u = p /\ r = s THEN b ELSE pool[u][r]
    BY <1>1, PoolUpdate DEF PutSwap, LputSwap, Typed, BlocksTypeOK
  <1>3. /\ b = BlockOf(p, i[p]) /\ i[p] \in 1 .. PoolSize /\ b \in Blocks /\ b \notin F \cup O
        /\ ~used[b]
    BY <1>1, BlockOfFacts DEF Shape, Apart, Putting, Typed
  <1>4. next'[b] = head[p] /\ \A c \in Blocks : c # b => next'[c] = next[c]
    BY <1>1, <1>3 DEF Typed, BlocksTypeOK
  <1> HIDE DEF b, s
  <1>5. G = F \cup {b} /\ G \in SUBSET Blocks
    BY <1>3 DEF b
  <1>6. head[p] \in F \cup {Tail}
    BY <1>1 DEF Shape, Linked
  <1>7. Linked(G)'
    <2>1. \A c \in G : ~used'[c] /\ next'[c] \in G \cup {Tail}
      BY <1>1, <1>3, <1>4, <1>5, <1>6 DEF Shape, Linked
    <2>2. QED
      BY <1>1, <1>2, <1>5, <2>1 DEF Shape, Linked
  <1>8. Once(G)'
    <2>1. /\ \A c \in G : next'[c] \in G => next'[c] \in F
          /\ \A c \in G : next'[c] = IF c = b THEN head[p] ELSE next[c]
      BY <1>3, <1>4, <1>5, <1>6, ConstantFacts DEF Shape, Linked
    <2>2. \A u \in Pes, r \in Sizes :
            IF u = p /\ r = s THEN pool'[u][r] = b
            ELSE pool'[u][r] = pool[u][r] /\ pool[u][r] \in F \cup {Tail, Null}
      BY <1>2 DEF Shape, Linked
    <2>3. \A q \in Pes : HoldsHead(q)' =>
            q # p /\ HoldsHead(q) /\ head'[q] = head[q] /\ head[q] \in F \cup {Tail}
      BY <1>1 DEF HoldsHead, Shape, Linked
    <2>4. HoldsHead(p)
      BY <1>1 DEF HoldsHead
    <2>5. b \notin F /\ b # Tail /\ b # Null
      BY <1>3, ConstantFacts
    <2>6. \A c, d \in G : next'[c] = next'[d] /\ next'[c] \in G => c = d
      BY <1>5, <2>1, <2>4 DEF Shape, Once
    <2>7. \A c \in G, u \in Pes, r \in Sizes : pool'[u][r] \in G => pool'[u][r] # next'[c]
      BY <1>5, <1>6, <2>1, <2>2, <2>4, <2>5 DEF Shape, Once
    <2>8. \A c \in G, q \in Pes : HoldsHead(q)' /\ head'[q] \in G => head'[q] # next'[c]
      BY <1>5, <1>6, <2>1, <2>3, <2>4, <2>5 DEF Shape, Once
    <2>9. \A u, v \in Pes, r, w \in Sizes :
            pool'[u][r] = pool'[v][w] /\ pool'[u][r] \in G => u = v /\ r = w
      BY <1>5, <2>2, <2>5 DEF Shape, Once
    <2>10. \A u, q \in Pes, r \in Sizes :
             HoldsHead(q)' /\ head'[q] \in G => head'[q] # pool'[u][r]
      BY <1>5, <2>2, <2>3, <2>5 DEF Shape, Once
    <2>11. \A q, v \in Pes :
             HoldsHead(q)' /\ HoldsHead(v)' /\ head'[q] = head'[v] /\ head'[q] \in G => q = v
      BY <1>5, <2>3, <2>5 DEF Shape, Once
    <2>12. QED
      BY <2>6, <2>7, <2>8, <2>9, <2>10, <2>11 DEF Once
  <1>9. Sent(O)'
    <2>1. \A c \in O : next'[c] = next[c]
      BY <1>3, <1>4
    <2>2. QED
      BY <1>1, <2>1, SentKept DEF Shape
  <1>10. Apart(G, O)'
    <2>1. G \cap O = {}
      BY <1>3, <1>5 DEF Shape, Apart
    <2>2. \A q \in Pes : HasBlock(q)' => HasBlock(q) /\ blk'[q] \in Blocks \ G
      <3>1. \A q \in Pes : HasBlock(q) => blk[q] # BlockOf(p, i[p])
        BY <1>1, <1>3, ConstantFacts DEF Shape, Apart, Putting
      <3>2. QED
        BY <1>1, <1>3, <1>5, <3>1 DEF HasBlock, Shape, Apart
    <2>3. \A q \in Pes : pc'[q] = "lput_swap" => blk'[q] = BlockOf(q, i'[q])
      BY <1>1 DEF Shape, Apart
    <2>4. ASSUME NEW q \in Pes, Putting(q)', NEW k \in i'[q] .. PoolSize
          PROVE  /\ BlockOf(q, k) \notin G \cup O /\ ~used'[BlockOf(q, k)]
                 /\ \A u \in Pes : HasBlock(u)' => blk'[u] # BlockOf(q, k)
      <3>1. /\ Putting(q) /\ i[q] \in 1 .. PoolSize /\ k \in i[q] .. PoolSize
            /\ k \in 1 .. PoolSize /\ ~(q = p /\ k = i[p])
        BY <1>1, <1>3, <2>4, ConstantFacts DEF Putting, Typed
      <3>2. BlockOf(q, k) # b
        BY <1>3, <3>1, BlockOfFacts
      <3>3. QED
        BY <1>1, <1>5, <2>2, <3>1, <3>2 DEF Shape, Apart
    <2>5. QED
      BY <2>1, <2>2, <2>3, <2>4 DEF Apart
  <1>11. QED
    BY <1>5, <1>7, <1>8, <1>9, <1>10 DEF Shape

(* The block taken is no longer first, nor anywhere; the next one takes its place. *)
LEMMA TakeSwapShape ==
  ASSUME Typed, NEW F \in SUBSET Blocks, NEW O \in SUBSET Blocks, Shape(F, O),
         NEW p \in Pes, TakeSwap(p), UNCHANGED retained, NEW G, G = F \ {head[p]}
  PROVE  G \in SUBSET Blocks /\ Shape(G, O)'
  <1> DEFINE h == head[p]
             t == Theirs(p)
             s == sz[p]
  <1>1. /\ pc[p] = "ralloc_swap" /\ pc'[p] \in {"cache", "enqueue"} /\ blk'[p] = h
        /\ \A q \in Pes : q # p => pc'[q] = pc[q] /\ i'[q] = i[q] /\ blk'[q] = blk[q]
        /\ used' = [used EXCEPT ![h] = TRUE] /\ s \in Sizes /\ t \in Pes
        /\ UNCHANGED <<next, queue, retained, head>>
    BY ConstantFacts DEF TakeSwap, RallocSwap, GoTo, Typed, BlocksTypeOK
  <1>2. h \in F /\ h \in Blocks /\ next[h] \in F \cup {Tail} /\ next[h] \in Pointers
    BY <1>1 DEF Shape, Linked, Typed, BlocksTypeOK
  <1>3. \A u \in Pes, r \in Sizes : pool'[u][r] = IF u = t /\ r = s THEN next[h] ELSE pool[u][r]
    BY <1>1, <1>2, PoolUpdate DEF TakeSwap, RallocSwap, Typed, BlocksTypeOK
  <1>4. \A b \in Blocks : b # h => used'[b] = used[b]
    BY <1>1 DEF Typed, BlocksTypeOK
  <1>5. HoldsHead(p) /\ ~HoldsHead(p)' /\ \A q \in Pes : HoldsHead(q)' => q # p /\ HoldsHead(q)
    BY <1>1 DEF HoldsHead
  <1> HIDE DEF h, s, t
  <1>6. G = F \ {h} /\ G \in SUBSET Blocks
    BY DEF h
  <1>7. \A b \in F : next[b] # h
    BY <1>1, <1>2, <1>5 DEF Shape, Once, h
  <1>8. Linked(G)'
    <2>1. \A b \in G : ~used'[b] /\ next'[b] \in G \cup {Tail}
      BY <1>1, <1>4, <1>6, <1>7 DEF Shape, Linked
    <2>2. \A u \in Pes, r \in Sizes : pool[u][r] # h
      BY <1>1, <1>2, <1>5 DEF Shape, Once, h
    <2>3. \A u \in Pes, r \in Sizes : pool'[u][r] \in G \cup {Tail, Null}
      BY <1>2, <1>3, <1>6, <1>7, <2>2 DEF Shape, Linked
    <2>4. \A q \in Pes : HoldsHead(q)' => head[q] # h
      BY <1>1, <1>2, <1>5 DEF Shape, Once, h
    <2>5. \A q \in Pes : /\ pc'[q] = "lput_swap" => head'[q] \in G \cup {Tail}
                         /\ pc'[q] = "ralloc_swap" => head'[q] \in G
                         /\ pc'[q] = "ralloc_back" => head'[q] = Tail
      BY <1>1, <1>6, <2>4 DEF Shape, Linked, HoldsHead
    <2>6. QED
      BY <2>1, <2>3, <2>5 DEF Linked
  <1>9. Once(G)'
    <2>1. \A b, c \in G : next'[b] = next'[c] /\ next'[b] \in G => b = c
      BY <1>1, <1>6 DEF Shape, Once
    <2>2. \A b \in G, u \in Pes, r \in Sizes : pool'[u][r] \in G => pool'[u][r] # next'[b]
      BY <1>1, <1>2, <1>3, <1>6 DEF Shape, Once
    <2>3. \A b \in G, q \in Pes : HoldsHead(q)' /\ head'[q] \in G => head'[q] # next'[b]
      BY <1>1, <1>5, <1>6 DEF Shape, Once
    <2>4. \A u, v \in Pes, r, w \in Sizes :
            pool'[u][r] = pool'[v][w] /\ pool'[u][r] \in G => u = v /\ r = w
      BY <1>2, <1>3, <1>6 DEF Shape, Once
    <2>5. \A u, q \in Pes, r \in Sizes :
            HoldsHead(q)' /\ head'[q] \in G => head'[q] # pool'[u][r]
      BY <1>1, <1>2, <1>3, <1>5, <1>6 DEF Shape, Once
    <2>6. \A q, v \in Pes :
            HoldsHead(q)' /\ HoldsHead(v)' /\ head'[q] = head'[v] /\ head'[q] \in G => q = v
      BY <1>1, <1>5, <1>6 DEF Shape, Once
    <2>7. QED
      BY <2>1, <2>2, <2>3, <2>4, <2>5, <2>6 DEF Once
  <1>10. Sent(O)'
    <2>1. \A q \in Pes : pc'[q] \in {"enqueue_swap", "dequeue_swap", "alloc"} =>
                           q # p /\ pc'[q] = pc[q]
      BY <1>1
    <2>2. QED
      BY <1>1, <2>1, SentKept DEF Shape
  <1>11. Apart(G, O)'
    <2>1. G \cap O = {}
      BY <1>6 DEF Shape, Apart
    <2>2. \A q \in Pes : HasBlock(q)' => IF q = p THEN blk'[q] = h
                                         ELSE HasBlock(q) /\ blk'[q] = blk[q]
      BY <1>1 DEF HasBlock
    <2>3. \A q \in Pes : HasBlock(q)' => blk'[q] \in Blocks \ G
      BY <1>2, <1>6, <2>2 DEF Shape, Apart
    <2>4. \A q \in Pes : Putting(q)' => Putting(q) /\ i'[q] = i[q] /\ i[q] \in 1 .. PoolSize
      BY <1>1 DEF Putting, Typed
    <2>5. \A q \in Pes : pc'[q] = "lput_swap" => blk'[q] = BlockOf(q, i'[q])
      BY <1>1 DEF Shape, Apart
    <2>6. ASSUME NEW q \in Pes, Putting(q)', NEW k \in i'[q] .. PoolSize
          PROVE  /\ BlockOf(q, k) \notin G \cup O /\ ~used'[BlockOf(q, k)]
                 /\ \A u \in Pes : HasBlock(u)' => blk'[u] # BlockOf(q, k)
      <3>1. k \in i[q] .. PoolSize /\ k \in 1 .. PoolSize
        BY <2>4, <2>6, ConstantFacts
      <3>2. /\ BlockOf(q, k) \notin F \cup O /\ ~used[BlockOf(q, k)]
            /\ \A u \in Pes : HasBlock(u) => blk[u] # BlockOf(q, k)
        BY <2>4, <2>6, <3>1 DEF Shape, Apart
      <3>3. BlockOf(q, k) \in Blocks /\ BlockOf(q, k) # h
        BY <1>2, <3>1, <3>2, BlockOfFacts
      <3>4. QED
        BY <1>4, <1>6, <2>2, <3>2, <3>3
    <2>7. QED
      BY <2>1, <2>3, <2>5, <2>6 DEF Apart
  <1>12. QED
    BY <1>6, <1>8, <1>9, <1>10, <1>11 DEF Shape

LEMMA FreeListsStep ==
  ASSUME Typed, FreeLists, NEW p \in Pes, Step(p)
  PROVE  FreeLists'
  <1>1. PICK F \in SUBSET Blocks, O \in SUBSET Blocks : Shape(F, O)
    BY DEF FreeLists
  <1>2. SUFFICES \E G, P \in SUBSET Blocks : Shape(G, P)'
    BY DEF FreeLists, Blocks
  <1>3. CASE Quiet(p) \/ ToRetained(p) \/ AllocFrom(p)
    <2>1. Shape(F, O)'
      BY <1>1, <1>3, QuietShape, ToRetainedShape, AllocFromShape
    <2>2. QED
      BY <2>1
  <1>4. CASE CacheBlock(p)
    <2>1. PICK P : P = O \cup {blk[p]}
      OBVIOUS
    <2>2. P \in SUBSET Blocks /\ Shape(F, P)'
      BY <1>1, <1>4, <2>1, CacheBlockShape
    <2>3. QED
      BY <2>2
  <1>5. ASSUME UNCHANGED retained, Enqueue(p) \/ Dequeue(p) \/ DequeueBack(p) \/ ReceiveSwap(p)
        PROVE  \E G, P \in SUBSET Blocks : Shape(G, P)'
    <2>1. Shape(F, O)'
      BY <1>1, <1>5, QueueShape
    <2>2. QED
      BY <2>1
  <1>6. ASSUME UNCHANGED retained, SendSwap(p)
        PROVE  \E G, P \in SUBSET Blocks : Shape(G, P)'
    <2>1. PICK P : P = O \cup {blk[p]}
      OBVIOUS
    <2>2. P \in SUBSET Blocks /\ Shape(F, P)'
      BY <1>1, <1>6, <2>1, SendSwapShape
    <2>3. QED
      BY <2>2
  <1>7. ASSUME UNCHANGED retained, Put(p) \/ Take(p) \/ RallocBack(p)
        PROVE  \E G, P \in SUBSET Blocks : Shape(G, P)'
    <2>1. Shape(F, O)'
      BY <1>1, <1>7, PutShape, TakeShape, RallocBackShape
    <2>2. QED
      BY <2>1
  <1>8. ASSUME UNCHANGED retained, PutSwap(p)
        PROVE  \E G, P \in SUBSET Blocks : Shape(G, P)'
    <2>1. PICK G : G = F \cup {blk[p]}
      OBVIOUS
    <2>2. G \in SUBSET Blocks /\ Shape(G, O)'
      BY <1>1, <1>8, <2>1, PutSwapShape
    <2>3. QED
      BY <2>2
  <1>9. ASSUME UNCHANGED retained, TakeSwap(p)
        PROVE  \E G, P \in SUBSET Blocks : Shape(G, P)'
    <2>1. PICK G : G = F \ {head[p]}
      OBVIOUS
    <2>2. G \in SUBSET Blocks /\ Shape(G, O)'
      BY <1>1, <1>9, <2>1, TakeSwapShape
    <2>3. QED
      BY <2>2
  <1>10. QED
    BY <1>3, <1>4, <1>5, <1>6, <1>7, <1>8, <1>9 DEF Step, Call

LEMMA SafeInvariant == Spec => []Safe
  <1>1. Safe /\ [Next]_vars => Safe'
    BY StepCases, TypedStep, ExclusiveStep, FreeListsStep DEF Safe
  <1>2. QED
    BY InitSafe, <1>1, PTL DEF Spec

-----------------------------------------------------------------------------
(***************************************************************************)
(* The assertions of lput, ralloc, enqueue and dequeue hold in both        *)
(* programs, for any number of PEs and blocks: nobody puts a list where    *)
(* another has left nullptr, and ralloc never hands out a block in use.    *)
(***************************************************************************)
THEOREM AssertionsAlwaysHold == Spec => []AssertionsHold
  <1>1. Safe => AssertionsHold
    <2> SUFFICES ASSUME Safe, NEW p \in Pes
                 PROVE  /\ pc[p] = "lput_swap" => pool[p][sz[p]] = Null
                        /\ pc[p] \in {"ralloc_swap", "ralloc_back"} => pool[Theirs(p)][sz[p]] = Null
                        /\ pc[p] = "ralloc_swap" => ~used[head[p]]
                        /\ pc[p] = "enqueue_swap" => queue[Theirs(p)] = Null
                        /\ pc[p] \in {"dequeue_swap", "dequeue_back"} => queue[p] = Null
      BY DEF AssertionsHold
    <2>1. sz[p] \in Sizes /\ Theirs(p) \in Pes
      BY ConstantFacts DEF Safe, Typed, BlocksTypeOK
    <2>2. pc[p] = "lput_swap" => pool[p][sz[p]] = Null
      BY <2>1 DEF Safe, Exclusive, PoolsExclusive, HoldsPool
    <2>3. pc[p] \in {"ralloc_swap", "ralloc_back"} => pool[Theirs(p)][sz[p]] = Null
      BY <2>1 DEF Safe, Exclusive, PoolsExclusive, HoldsPool
    <2>4. /\ pc[p] = "enqueue_swap" => queue[Theirs(p)] = Null
          /\ pc[p] \in {"dequeue_swap", "dequeue_back"} => queue[p] = Null
      BY <2>1 DEF Safe, Exclusive, QueuesExclusive, HoldsQueue
    <2>5. pc[p] = "ralloc_swap" => ~used[head[p]]
      BY DEF Safe, FreeLists, Shape, Linked
    <2>6. QED
      BY <2>2, <2>3, <2>4, <2>5
  <1>2. QED
    BY <1>1, SafeInvariant, PTL

-----------------------------------------------------------------------------
(***************************************************************************)
(* The ball of the benchmark.  A PE that has not heard of the round, or    *)
(* has counted to the end, is in its scheduler; the others poll.           *)
(***************************************************************************)
Pending(q) == <<q, "start_xpmem">> \in signals

Waits(q) ==
  IF Pending(q) \/ it[q] = NIters THEN pc[q] = "idle"
  ELSE pc[q] \in {"dequeue", "dequeue_back"}

QueueEmpty(t) == queue[t] = IF pc[t] = "dequeue_back" THEN Null ELSE Tail

NoneUsed == \A b \in Blocks : ~used[b]
OnlyUsed(b) == b \in Blocks /\ \A c \in Blocks : used[c] <=> c = b

Before ==
  /\ ~started /\ plain = None /\ signals = {} /\ NoneUsed
  /\ \A q \in Pes :
       /\ pc[q] \in {"lput", "lput_swap", "idle"} /\ queue[q] = Tail
       /\ \A src \in peers[q] \ {q} : pc[src] = "idle"

PlainPhase ==
  /\ started /\ plain \in Pes /\ signals = {} /\ NoneUsed
  /\ \A q \in Pes : pc[q] = "idle" /\ queue[q] = Tail
  /\ it[0] < NIters

Ended ==
  /\ started /\ plain = None /\ NoneUsed
  /\ signals \subseteq Pes \X {"exit"}
  /\ \A q \in Pes : pc[q] \in {"idle", "exit"}

Round == started /\ plain = None /\ signals \subseteq Pes \X {"start_xpmem"}

(* PE 0 has not sent the first block. *)
Starting ==
  /\ Round /\ Pending(0) /\ NoneUsed
  /\ \A q \in Pes : Waits(q) /\ QueueEmpty(q) /\ (~Pending(q) => it[q] = 0)

(* Receipts when the ball is for PE d, after r rounds. *)
Counts(d, r) ==
  /\ r \in 0 .. NIters - 1 /\ it[0] = r /\ ~Pending(0)
  /\ \A q \in Pes \ {0} :
       IF d = 0 \/ q < d THEN ~Pending(q) /\ it[q] = r + 1
       ELSE IF Pending(q) THEN r = 0 ELSE it[q] = r

(* h looks for a block, or has one in hand. *)
Sending(h) ==
  /\ \A q \in Pes \ {h} : Waits(q)
  /\ \/ /\ pc[h] = "alloc" /\ NoneUsed /\ blk[h] = retained[h]
     \/ /\ pc[h] \in {"ralloc", "ralloc_back", "ralloc_swap"} /\ NoneUsed
        /\ retained[h] = Null
     \/ pc[h] \in {"cache", "enqueue", "enqueue_swap"} /\ OnlyUsed(blk[h])
  /\ \A t \in Pes :
       IF t = Theirs(h) /\ pc[h] = "enqueue_swap"
       THEN head[h] = Tail /\ queue[t] = Null /\ pc[t] # "dequeue_back"
       ELSE QueueEmpty(t)

(* The block is on its way to d. *)
OnItsWay(d) ==
  /\ \/ /\ pc[d] # "dequeue_back" /\ queue[d] \in Blocks /\ Waits(d)
        /\ OnlyUsed(queue[d]) /\ next[queue[d]] = Tail
     \/ /\ pc[d] = "dequeue_swap" /\ ~Pending(d)
        /\ OnlyUsed(head[d]) /\ next[head[d]] = Tail
     \/ pc[d] = "free" /\ ~Pending(d) /\ OnlyUsed(blk[d]) /\ queue[d] = Tail
  /\ \A q \in Pes \ {d} : Waits(q) /\ QueueEmpty(q)

Playing(d, r) ==
  /\ Round /\ Counts(d, r)
  /\ (\E h \in Pes : Theirs(h) = d /\ Sending(h)) \/ OnItsWay(d)

Ping ==
  /\ it \in [Pes -> Nat]
  /\ \/ Before \/ PlainPhase \/ Starting \/ Ended
     \/ \E d \in Pes, r \in Nat : Playing(d, r)

-----------------------------------------------------------------------------
(* Steps of the benchmark, by where the PE is. *)

LEMMA RingFacts ==
  /\ \A p \in Pes : Theirs(p) = IF p = NPes - 1 THEN 0 ELSE p + 1
  /\ \A p, q \in Pes : Theirs(p) = Theirs(q) => p = q
  <1>1. PICK n \in Nat \ {0} : n = NPes
    BY BlocksAssumption
  <1>2. \A p \in 0 .. n - 1 : (p + 1) % n = IF p = n - 1 THEN 0 ELSE p + 1
    <2> TAKE p \in 0 .. n - 1
    <2>1. CASE p = n - 1
      <3>1. n % n = 0
        BY SMT
      <3>2. QED
        BY <2>1, <3>1
    <2>2. CASE p # n - 1
      <3>1. PICK k \in 0 .. n - 1 : k = p + 1
        BY <2>2
      <3>2. k % n = k
        BY SMT
      <3>3. QED
        BY <2>2, <3>1, <3>2
    <2>3. QED
      BY <2>1, <2>2
  <1>3. \A p \in Pes : Theirs(p) = IF p = n - 1 THEN 0 ELSE p + 1
    BY <1>1, <1>2 DEF Pes, Theirs
  <1>4. \A p \in Pes : p \in 0 .. n - 1
    BY <1>1 DEF Pes
  <1>5. QED
    BY <1>1, <1>3, <1>4

Idling(p) ==
  \/ \E src \in Pes : Initiate(p, src)
  \/ p = 0 /\ StartPlain
  \/ RecvPlain(p) \/ StartXpmem(p) \/ HandleExit(p)

LEMMA PcCases ==
  ASSUME NEW p \in Pes, PingPe(p)
  PROVE  \/ pc[p] \in {"lput", "lput_swap"} /\ PopulateBuffers(p)
         \/ pc[p] = "idle" /\ Idling(p)
         \/ pc[p] = "alloc" /\ AllocFrom(p)
         \/ pc[p] = "ralloc" /\ Ralloc(p, 64) /\ UNCHANGED pingVars
         \/ pc[p] = "ralloc_back" /\ RallocBack(p) /\ UNCHANGED pingVars
         \/ pc[p] = "ralloc_swap" /\ RallocSwap(p, "cache") /\ UNCHANGED pingVars
         \/ pc[p] = "cache" /\ CacheBlock(p)
         \/ pc[p] = "enqueue" /\ Enqueue(p) /\ UNCHANGED pingVars
         \/ pc[p] = "enqueue_swap" /\ SentBlock(p)
         \/ pc[p] = "dequeue" /\ Dequeue(p) /\ UNCHANGED pingVars
         \/ pc[p] = "dequeue_back" /\ DequeueBack(p) /\ UNCHANGED pingVars
         \/ pc[p] = "dequeue_swap" /\ DequeueSwap(p, "free") /\ UNCHANGED pingVars
         \/ pc[p] = "free" /\ RecvXpmem(p)
  <1>1. CASE PopulateBuffers(p)
    BY <1>1 DEF PopulateBuffers, Lput, LputSwap
  <1>2. CASE (\E src \in Pes : Initiate(p, src)) \/ RecvPlain(p) \/ StartXpmem(p) \/ HandleExit(p)
    BY <1>2 DEF Idling, Initiate, RecvPlain, StartXpmem, HandleExit
  <1>3. CASE p = 0 /\ StartPlain
    BY <1>3 DEF Idling, StartPlain
  <1>4. CASE AllocFrom(p)
    BY <1>4 DEF AllocFrom
  <1>5. CASE AskPool(p)
    BY <1>5 DEF AskPool, Ralloc, RallocSwap
  <1>6. CASE CacheBlock(p) \/ SentBlock(p) \/ RecvXpmem(p)
    BY <1>6 DEF CacheBlock, SentBlock, EnqueueSwap, RecvXpmem
  <1>7. CASE DequeueSwap(p, "free") /\ UNCHANGED pingVars
    BY <1>7 DEF DequeueSwap
  <1>8. CASE PoolAndQueueCall(p) /\ UNCHANGED pingVars
    BY <1>8 DEF PoolAndQueueCall, RallocBack, Enqueue, Dequeue, DequeueBack
  <1>9. QED
    BY <1>1, <1>2, <1>3, <1>4, <1>5, <1>6, <1>7, <1>8 DEF PingPe

-----------------------------------------------------------------------------
(* A step of p that leaves the ball alone: p stays out of the way. *)
Bystander(p) ==
  /\ Round'
  /\ UNCHANGED <<used, next, retained>>
  /\ \A q \in Pes \ {p} :
       /\ pc'[q] = pc[q] /\ it'[q] = it[q] /\ blk'[q] = blk[q] /\ head'[q] = head[q]
       /\ queue'[q] = queue[q]
       /\ Pending(q)' <=> Pending(q)
  /\ Waits(p)' /\ it' \in [Pes -> Nat]
  /\ \/ (Pending(p)' <=> Pending(p)) /\ it'[p] = it[p]
     \/ Pending(p) /\ ~Pending(p)' /\ it'[p] = 0

LEMMA IdleMoves ==
  ASSUME Typed, it \in [Pes -> Nat], Round, NEW p \in Pes, pc[p] = "idle", Waits(p),
         PingPe(p), p # 0 \/ ~Pending(0)
  PROVE  Bystander(p) /\ queue'[p] = queue[p] /\ pc'[p] # "dequeue_back"
  <1>1. (\E src \in Pes : Initiate(p, src)) \/ StartXpmem(p)
    <2>1. started /\ plain # p /\ <<p, "exit">> \notin signals
      BY ConstantFacts DEF Round, None
    <2>2. QED
      BY <2>1, PcCases DEF Idling, StartPlain, RecvPlain, HandleExit
  <1>2. CASE \E src \in Pes : Initiate(p, src)
    <2>1. UNCHANGED <<shared, pc, i, blk, head, sz, pingVars>>
      BY <1>2 DEF Initiate, HandleInitiate
    <2>2. QED
      BY <2>1 DEF shared, pingVars, Bystander, Round, Waits, Pending
  <1>3. CASE StartXpmem(p)
    <2>1. /\ Pending(p) /\ p # 0 /\ signals' = signals \ {<<p, "start_xpmem">>}
          /\ pc' = [pc EXCEPT ![p] = "dequeue"] /\ it' = [it EXCEPT ![p] = 0]
          /\ blk' = [blk EXCEPT ![p] = retained[p]]
          /\ UNCHANGED <<pool, queue, next, used, head, started, plain, retained>>
      BY <1>3 DEF StartXpmem, Pending, GoTo, ResetState, shared
    <2>2. /\ it'[p] = 0 /\ pc'[p] = "dequeue" /\ it' \in [Pes -> Nat]
          /\ \A q \in Pes \ {p} : pc'[q] = pc[q] /\ it'[q] = it[q] /\ blk'[q] = blk[q]
      BY <2>1 DEF Typed, BlocksTypeOK
    <2>3. ~Pending(p)' /\ \A q \in Pes \ {p} : Pending(q)' <=> Pending(q)
      BY <2>1 DEF Pending
    <2>4. Waits(p)'
      <3>1. 0 # NIters
        BY PingPongAssumption, ConstantFacts DEF NBuffers
      <3>2. QED
        BY <2>2, <2>3, <3>1 DEF Waits
    <2>5. Round'
      BY <2>1 DEF Round
    <2>6. QED
      BY <2>1, <2>2, <2>3, <2>4, <2>5 DEF Bystander
  <1>4. QED
    BY <1>1, <1>2, <1>3

LEMMA PollMoves ==
  ASSUME Typed, it \in [Pes -> Nat], Round, NEW p \in Pes, pc[p] \in {"dequeue", "dequeue_back"},
         Waits(p), QueueEmpty(p), PingPe(p)
  PROVE  Bystander(p) /\ QueueEmpty(p)'
  <1>1. (Dequeue(p) \/ DequeueBack(p)) /\ UNCHANGED pingVars
    BY PcCases
  <1>2. /\ \A q \in Pes : Pending(q)' <=> Pending(q)
        /\ Round' /\ UNCHANGED <<it, retained>>
    BY <1>1 DEF pingVars, Pending, Round
  <1>3. /\ pc'[p] \in {"dequeue", "dequeue_back"} /\ QueueEmpty(p)'
        /\ \A q \in Pes \ {p} : pc'[q] = pc[q] /\ blk'[q] = blk[q] /\ head'[q] = head[q]
                                /\ queue'[q] = queue[q]
        /\ UNCHANGED <<used, next>>
    <2>1. CASE Dequeue(p)
      BY <2>1, ConstantFacts DEF Dequeue, QueueEmpty, GoTo, Typed, BlocksTypeOK
    <2>2. CASE DequeueBack(p)
      BY <2>2, ConstantFacts DEF DequeueBack, QueueEmpty, GoTo, Typed, BlocksTypeOK
    <2>3. QED
      BY <1>1, <2>1, <2>2
  <1>4. QED
    BY <1>2, <1>3 DEF Bystander, Waits

(* A PE that waits is a bystander, whether or not its queue is taken. *)
LEMMA WaiterMoves ==
  ASSUME Typed, it \in [Pes -> Nat], Round, NEW p \in Pes, Waits(p), PingPe(p),
         p # 0 \/ ~Pending(0)
  PROVE  /\ QueueEmpty(p) => Bystander(p) /\ QueueEmpty(p)'
         /\ queue[p] = Null /\ pc[p] # "dequeue_back" =>
              Bystander(p) /\ queue'[p] = Null /\ pc'[p] # "dequeue_back"
  <1>1. CASE pc[p] = "idle"
    BY <1>1, IdleMoves DEF QueueEmpty
  <1>2. CASE pc[p] \in {"dequeue", "dequeue_back"}
    <2>1. ~(queue[p] = Null /\ pc[p] # "dequeue_back")
      BY <1>2, PcCases DEF Dequeue
    <2>2. QED
      BY <1>2, <2>1, PollMoves
  <1>3. QED
    BY <1>1, <1>2 DEF Waits

-----------------------------------------------------------------------------
(* The steps while the ball is a block. *)

LEMMA CountsStay ==
  ASSUME NEW p \in Pes, Bystander(p), NEW d \in Pes, NEW r, Counts(d, r)
  PROVE  Counts(d, r)'
  <1>1. it'[0] = r /\ ~Pending(0)'
    <2>1. CASE p = 0
      BY <2>1 DEF Bystander, Counts
    <2>2. CASE p # 0
      BY <2>2, ConstantFacts DEF Bystander, Counts
    <2>3. QED
      BY <2>1, <2>2
  <1>2. ASSUME NEW q \in Pes \ {0}
        PROVE  IF d = 0 \/ q < d THEN ~Pending(q)' /\ it'[q] = r + 1
               ELSE IF Pending(q)' THEN r = 0 ELSE it'[q] = r
    <2>1. IF d = 0 \/ q < d THEN ~Pending(q) /\ it[q] = r + 1
          ELSE IF Pending(q) THEN r = 0 ELSE it[q] = r
      BY DEF Counts
    <2>2. \/ (Pending(q)' <=> Pending(q)) /\ it'[q] = it[q]
          \/ Pending(q) /\ ~Pending(q)' /\ it'[q] = 0
      BY DEF Bystander
    <2>3. QED
      BY <2>1, <2>2
  <1>3. QED
    BY <1>1, <1>2 DEF Counts

LEMMA WaitersStay ==
  ASSUME NEW p \in Pes, Bystander(p), NEW q \in Pes, q # p
  PROVE  /\ Waits(q)' <=> Waits(q)
         /\ QueueEmpty(q)' <=> QueueEmpty(q)
  BY DEF Bystander, Waits, QueueEmpty

LEMMA OnlyOneWaiting ==
  ASSUME Typed, it \in [Pes -> Nat], NEW d \in Pes, NEW r \in Nat, Playing(d, r),
         NEW p \in Pes, PingPe(p), Waits(p)
  PROVE  \/ Playing(d, r)' /\ it' \in [Pes -> Nat]
         \/ p = d /\ OnItsWay(d) /\ pc[d] # "idle"
  <1>1. Round /\ Counts(d, r) /\ ~Pending(0)
    BY DEF Playing, Counts
  <1>2. CASE \E h \in Pes \ {p} : Theirs(h) = d /\ Sending(h)
    <2>1. PICK h \in Pes \ {p} : Theirs(h) = d /\ Sending(h)
      BY <1>2
    <2>2. /\ Bystander(p)
          /\ IF p = d /\ pc[h] = "enqueue_swap"
             THEN queue'[p] = Null /\ pc'[p] # "dequeue_back" ELSE QueueEmpty(p)'
      BY <1>1, <2>1, WaiterMoves DEF Sending
    <2>3. /\ pc'[h] = pc[h] /\ blk'[h] = blk[h] /\ retained'[h] = retained[h] /\ head'[h] = head[h]
          /\ used' = used
      BY <2>1, <2>2 DEF Bystander
    <2>4. \A q \in Pes \ {h} : Waits(q)'
      <3> TAKE q \in Pes \ {h}
      <3>1. CASE q = p
        BY <2>2, <3>1 DEF Bystander
      <3>2. CASE q # p
        BY <2>1, <2>2, <3>2, WaitersStay DEF Sending
      <3>3. QED
        BY <3>1, <3>2
    <2>5. \A t \in Pes : IF t = Theirs(h) /\ pc'[h] = "enqueue_swap"
                         THEN head'[h] = Tail /\ queue'[t] = Null /\ pc'[t] # "dequeue_back"
                         ELSE QueueEmpty(t)'
      <3> TAKE t \in Pes
      <3>1. IF t = Theirs(h) /\ pc[h] = "enqueue_swap"
            THEN head[h] = Tail /\ queue[t] = Null /\ pc[t] # "dequeue_back"
            ELSE QueueEmpty(t)
        BY <2>1 DEF Sending
      <3>2. CASE t = p
        BY <2>1, <2>2, <2>3, <3>1, <3>2
      <3>3. CASE t # p
        BY <2>2, <2>3, <3>1, <3>3, WaitersStay DEF Bystander
      <3>4. QED
        BY <3>2, <3>3
    <2>6. NoneUsed' <=> NoneUsed
      BY <2>3 DEF NoneUsed
    <2>7. \A b : OnlyUsed(b)' <=> OnlyUsed(b)
      BY <2>3 DEF OnlyUsed
    <2>8. Sending(h)'
      BY <2>1, <2>3, <2>4, <2>5, <2>6, <2>7 DEF Sending
    <2>9. Round' /\ Counts(d, r)' /\ it' \in [Pes -> Nat]
      BY <1>1, <2>2, CountsStay DEF Bystander
    <2>10. QED
      BY <2>1, <2>8, <2>9 DEF Playing
  <1>3. CASE OnItsWay(d) /\ p # d
    <2>1. Bystander(p) /\ QueueEmpty(p)'
      BY <1>1, <1>3, WaiterMoves DEF OnItsWay
    <2>2. /\ pc'[d] = pc[d] /\ queue'[d] = queue[d] /\ head'[d] = head[d] /\ blk'[d] = blk[d]
          /\ used' = used /\ next' = next /\ (Waits(d)' <=> Waits(d))
          /\ Pending(d)' <=> Pending(d)
      BY <1>3, <2>1, WaitersStay DEF Bystander
    <2>3. \A q \in Pes \ {d} : Waits(q)' /\ QueueEmpty(q)'
      <3> TAKE q \in Pes \ {d}
      <3>1. CASE q = p
        BY <2>1, <3>1 DEF Bystander
      <3>2. CASE q # p
        BY <1>3, <2>1, <3>2, WaitersStay DEF OnItsWay
      <3>3. QED
        BY <3>1, <3>2
    <2>4. \A b : OnlyUsed(b)' <=> OnlyUsed(b)
      BY <2>2 DEF OnlyUsed
    <2>5. OnItsWay(d)'
      BY <1>3, <2>2, <2>3, <2>4 DEF OnItsWay
    <2>6. Round' /\ Counts(d, r)' /\ it' \in [Pes -> Nat]
      BY <1>1, <2>1, CountsStay DEF Bystander
    <2>7. QED
      BY <2>5, <2>6 DEF Playing
  <1>4. CASE OnItsWay(d) /\ p = d /\ pc[d] = "idle"
    <2>1. Bystander(d) /\ queue'[d] = queue[d] /\ pc'[d] # "dequeue_back"
      BY <1>1, <1>4, IdleMoves
    <2>2. \A q \in Pes \ {d} : Waits(q)' /\ QueueEmpty(q)'
      BY <1>4, <2>1, WaitersStay DEF OnItsWay
    <2>3. used' = used /\ next' = next /\ Waits(d)'
      BY <2>1 DEF Bystander
    <2>4. \A b : OnlyUsed(b)' <=> OnlyUsed(b)
      BY <2>3 DEF OnlyUsed
    <2>5. OnItsWay(d)'
      BY <1>4, <2>1, <2>2, <2>3, <2>4 DEF OnItsWay
    <2>6. Round' /\ Counts(d, r)' /\ it' \in [Pes -> Nat]
      BY <1>1, <2>1, CountsStay DEF Bystander
    <2>7. QED
      BY <2>5, <2>6 DEF Playing
  <1>5. CASE Sending(p)
    BY <1>5 DEF Sending, Waits
  <1>6. QED
    BY <1>2, <1>3, <1>4, <1>5 DEF Playing

(* Who has the ball, or is to receive it, has heard of the round. *)
LEMMA HolderCount ==
  ASSUME NEW d \in Pes, NEW r, Counts(d, r), NEW h \in Pes, Theirs(h) = d
  PROVE  r \in Nat /\ ~Pending(h) /\ it[h] = IF h = 0 THEN r ELSE r + 1
  <1>1. r \in Nat
    BY DEF Counts
  <1>2. CASE h = 0
    BY <1>1, <1>2 DEF Counts
  <1>3. CASE h # 0
    <2>1. d = 0 \/ h < d
      BY RingFacts, ConstantFacts
    <2>2. QED
      BY <1>1, <1>3, <2>1 DEF Counts
  <1>4. QED
    BY <1>2, <1>3

LEMMA SenderFrame ==
  ASSUME Typed, it \in [Pes -> Nat], NEW d \in Pes, NEW r \in Nat, Round, Counts(d, r),
         NEW p \in Pes, Sending(p), PingPe(p)
  PROVE  /\ Round' /\ Counts(d, r)' /\ it' \in [Pes -> Nat] /\ it' = it
         /\ \A q \in Pes : Pending(q)' <=> Pending(q)
         /\ \A q \in Pes \ {p} : pc'[q] = pc[q] /\ Waits(q)'
  <1>1. pc[p] \in {"alloc", "ralloc", "ralloc_back", "ralloc_swap", "cache", "enqueue",
                   "enqueue_swap"}
    BY DEF Sending
  <1>2. /\ UNCHANGED <<started, plain, signals, it>>
        /\ \A q \in Pes \ {p} : pc'[q] = pc[q]
    <2>1. CASE AllocFrom(p) \/ CacheBlock(p) \/ SentBlock(p)
      BY <2>1 DEF AllocFrom, CacheBlock, SentBlock, EnqueueSwap, GoTo, Typed, pingVars
    <2>2. CASE (Ralloc(p, 64) \/ RallocBack(p) \/ RallocSwap(p, "cache") \/ Enqueue(p))
               /\ UNCHANGED pingVars
      BY <2>2 DEF Ralloc, RallocBack, RallocSwap, Enqueue, GoTo, Typed, pingVars
    <2>3. QED
      BY <1>1, <2>1, <2>2, PcCases
  <1>3. \A q \in Pes : Pending(q)' <=> Pending(q)
    BY <1>2 DEF Pending
  <1>4. \A q \in Pes \ {p} : Waits(q)'
    BY <1>2, <1>3 DEF Sending, Waits
  <1>5. Counts(d, r)'
    <2>1. ~Pending(0)' /\ it' = it
      BY <1>2, <1>3, ConstantFacts DEF Counts
    <2>2. QED
      BY <1>3, <2>1 DEF Counts
  <1>6. Round'
    BY <1>2 DEF Round
  <1>7. QED
    BY <1>2, <1>3, <1>4, <1>5, <1>6

(* The PE that has the ball finds a block, and its peer gets it. *)
LEMMA SenderMoves ==
  ASSUME Typed, it \in [Pes -> Nat], NEW d \in Pes, NEW r \in Nat, Round, Counts(d, r),
         NEW p \in Pes, Theirs(p) = d, Sending(p), PingPe(p)
  PROVE  Playing(d, r)' /\ it' \in [Pes -> Nat]
  <1>1. /\ Round' /\ Counts(d, r)' /\ it' \in [Pes -> Nat] /\ it' = it
        /\ \A q \in Pes : Pending(q)' <=> Pending(q)
        /\ \A q \in Pes \ {p} : pc'[q] = pc[q] /\ Waits(q)'
    BY SenderFrame
  <1>2. Typed!2 /\ Typed!3 /\ Typed!4
    BY DEF Typed
  <1>3. ASSUME pc[p] # "enqueue_swap"
        PROVE  \A t \in Pes : QueueEmpty(t)
    BY <1>3 DEF Sending
  <1>4. SUFFICES Sending(p)' \/ OnItsWay(d)'
    BY <1>1 DEF Playing
  <1>5. ASSUME pc[p] \notin {"enqueue", "enqueue_swap"}, queue' = queue,
               pc'[p] \notin {"enqueue_swap", "dequeue_back"}
        PROVE  \A t \in Pes : QueueEmpty(t)'
    <2>1. pc[p] # "dequeue_back"
      BY DEF Sending
    <2>2. QED
      BY <1>1, <1>3, <1>5, <2>1 DEF QueueEmpty
  <1>6. CASE pc[p] = "alloc"
    <2>1. AllocFrom(p) /\ NoneUsed /\ blk[p] = retained[p]
      BY <1>6, PcCases DEF Sending
    <2>2. queue' = queue /\ retained' = retained
      BY <2>1 DEF AllocFrom, pingVars
    <2>3. \/ blk[p] = Null /\ pc'[p] = "ralloc" /\ used' = used
          \/ /\ blk[p] \in Blocks /\ used' = [used EXCEPT ![blk[p]] = TRUE]
             /\ pc'[p] = "cache" /\ blk' = blk
      BY <1>2, <2>1 DEF AllocFrom, NoneUsed, GoTo
    <2>4. \A t \in Pes : QueueEmpty(t)'
      BY <1>5, <1>6, <2>2, <2>3
    <2>5. CASE blk[p] = Null /\ pc'[p] = "ralloc" /\ used' = used
      <3>1. NoneUsed'
        BY <2>1, <2>5 DEF NoneUsed
      <3>2. QED
        BY <1>1, <2>1, <2>2, <2>4, <2>5, <3>1 DEF Sending
    <2>6. CASE /\ blk[p] \in Blocks /\ used' = [used EXCEPT ![blk[p]] = TRUE]
               /\ pc'[p] = "cache" /\ blk' = blk
      <3>1. OnlyUsed(blk[p])'
        BY <1>2, <2>1, <2>6 DEF NoneUsed, OnlyUsed, BlocksTypeOK
      <3>2. QED
        BY <1>1, <2>4, <2>6, <3>1 DEF Sending
    <2>7. QED
      BY <2>3, <2>5, <2>6
  <1>7. CASE pc[p] \in {"ralloc", "ralloc_back"}
    <2>1. /\ Ralloc(p, 64) \/ RallocBack(p)
          /\ UNCHANGED pingVars
      BY <1>7, PcCases
    <2>2. NoneUsed /\ retained[p] = Null
      BY <1>7 DEF Sending
    <2>3. /\ pc'[p] \in {"ralloc", "ralloc_back", "ralloc_swap"}
          /\ queue' = queue /\ used' = used /\ retained' = retained
      BY <1>2, <2>1 DEF Ralloc, RallocBack, GoTo, pingVars
    <2>4. NoneUsed'
      BY <2>2, <2>3 DEF NoneUsed
    <2>5. \A t \in Pes : QueueEmpty(t)'
      BY <1>5, <1>7, <2>3
    <2>6. QED
      BY <1>1, <2>2, <2>3, <2>4, <2>5 DEF Sending
  <1>8. CASE pc[p] = "ralloc_swap"
    <2>1. RallocSwap(p, "cache") /\ NoneUsed
      BY <1>8, PcCases DEF Sending
    <2>2. head[p] \in Blocks
      BY <1>8 DEF Typed
    <2>3. /\ pc'[p] = "cache" /\ queue' = queue /\ blk'[p] = head[p]
          /\ used' = [used EXCEPT ![head[p]] = TRUE]
      BY <1>2, <2>1 DEF RallocSwap, GoTo, BlocksTypeOK
    <2>4. PICK b \in Blocks : b = head[p]
      BY <2>2
    <2>5. \A c \in Blocks : used'[c] <=> c = b
      BY <1>2, <2>1, <2>3, <2>4 DEF NoneUsed, BlocksTypeOK
    <2>6. OnlyUsed(blk[p])'
      BY <2>3, <2>4, <2>5 DEF OnlyUsed
    <2>7. \A t \in Pes : QueueEmpty(t)'
      BY <1>5, <1>8, <2>3
    <2>8. QED
      BY <1>1, <2>3, <2>6, <2>7 DEF Sending
  <1>9. CASE pc[p] = "cache"
    <2>1. CacheBlock(p) /\ OnlyUsed(blk[p])
      BY <1>9, PcCases DEF Sending
    <2>2. pc'[p] = "enqueue" /\ queue' = queue /\ blk' = blk /\ used' = used
      BY <1>2, <2>1 DEF CacheBlock, GoTo
    <2>3. \A t \in Pes : QueueEmpty(t)'
      BY <1>5, <1>9, <2>2
    <2>4. OnlyUsed(blk[p])'
      BY <2>1, <2>2 DEF OnlyUsed
    <2>5. QED
      BY <1>1, <2>2, <2>3, <2>4 DEF Sending
  <1>10. CASE pc[p] = "enqueue"
    <2>1. Enqueue(p) /\ OnlyUsed(blk[p]) /\ \A t \in Pes : QueueEmpty(t)
      BY <1>3, <1>10, PcCases DEF Sending
    <2>2. /\ pc'[p] = "enqueue_swap" /\ queue' = [queue EXCEPT ![d] = Null] /\ queue[d] # Null
          /\ head'[p] = queue[d] /\ blk' = blk /\ used' = used
      BY <1>2, <2>1 DEF Enqueue, GoTo, BlocksTypeOK
    <2>3. queue[d] = Tail /\ pc[d] # "dequeue_back"
      BY <2>1, <2>2 DEF QueueEmpty
    <2>4. pc'[d] # "dequeue_back" /\ queue'[d] = Null
      BY <1>1, <1>2, <2>2, <2>3 DEF BlocksTypeOK
    <2>5. \A t \in Pes \ {d} : QueueEmpty(t)'
      BY <1>1, <1>2, <1>10, <2>1, <2>2 DEF BlocksTypeOK, QueueEmpty
    <2>6. OnlyUsed(blk[p])'
      BY <2>1, <2>2 DEF OnlyUsed
    <2>7. QED
      BY <1>1, <2>2, <2>3, <2>4, <2>5, <2>6 DEF Sending
  <1>11. CASE pc[p] = "enqueue_swap"
    <2>1. /\ EnqueueSwap(p, IF it[p] < NIters THEN "dequeue" ELSE "idle")
          /\ OnlyUsed(blk[p]) /\ head[p] = Tail /\ pc[d] # "dequeue_back"
          /\ \A t \in Pes \ {d} : QueueEmpty(t)
      BY <1>11, PcCases DEF Sending, SentBlock
    <2>2. /\ pc'[p] = (IF it[p] < NIters THEN "dequeue" ELSE "idle")
          /\ queue' = [queue EXCEPT ![d] = blk[p]] /\ used' = used
          /\ next' = [next EXCEPT ![blk[p]] = Tail]
      BY <1>2, <2>1 DEF EnqueueSwap, GoTo
    <2>3. it[p] \in Nat /\ it[p] <= NIters /\ ~Pending(p)
      <3>1. r \in 0 .. NIters - 1 /\ NIters \in Nat
        BY PingPongAssumption DEF Counts
      <3>2. r \in Nat /\ ~Pending(p) /\ it[p] = IF p = 0 THEN r ELSE r + 1
        BY HolderCount
      <3>3. QED
        BY <3>1, <3>2
    <2>4. Waits(p)'
      <3>1. NIters \in Nat
        BY PingPongAssumption
      <3>2. it[p] < NIters <=> it[p] # NIters
        BY <2>3, <3>1
      <3>3. QED
        BY <1>1, <2>2, <2>3, <3>2 DEF Waits
    <2>5. Waits(d)' /\ pc'[d] # "dequeue_back"
      BY <1>1, <2>1, <2>2, <2>4
    <2>6. blk[p] \in Blocks /\ queue'[d] = blk[p] /\ next'[blk[p]] = Tail
      BY <1>2, <2>1, <2>2 DEF OnlyUsed, BlocksTypeOK
    <2>7. OnlyUsed(queue[d])'
      BY <2>1, <2>2, <2>6 DEF OnlyUsed
    <2>8. \A q \in Pes \ {d} : Waits(q)' /\ QueueEmpty(q)'
      <3> TAKE q \in Pes \ {d}
      <3>1. queue'[q] = queue[q] /\ QueueEmpty(q)
        BY <1>2, <2>1, <2>2 DEF BlocksTypeOK
      <3>2. CASE q = p
        BY <1>11, <2>2, <2>4, <3>1, <3>2 DEF QueueEmpty
      <3>3. CASE q # p
        BY <1>1, <3>1, <3>3 DEF QueueEmpty
      <3>4. QED
        BY <3>2, <3>3
    <2>9. OnItsWay(d)'
      BY <2>5, <2>6, <2>7, <2>8 DEF OnItsWay
    <2>10. QED
      BY <2>9
  <1>12. QED
    BY <1>6, <1>7, <1>8, <1>9, <1>10, <1>11 DEF Sending

(* The ball is received: it is for the next PE, or the phase is over. *)
LEMMA ReceiverMoves ==
  ASSUME Typed, it \in [Pes -> Nat], NEW d \in Pes, NEW r \in Nat, Round, Counts(d, r),
         OnItsWay(d), PingPe(d), pc[d] # "idle"
  PROVE  /\ it' \in [Pes -> Nat]
         /\ \/ PlainPhase' \/ Ended' \/ Playing(d, r)'
            \/ Playing(Theirs(d), IF d = 0 THEN r + 1 ELSE r)'
  <1>1. Typed!2 /\ Typed!3 /\ Typed!4
    BY DEF Typed
  <1>2. /\ pc[d] \in {"dequeue", "dequeue_swap", "free"} /\ ~Pending(d)
        /\ \A q \in Pes \ {d} : Waits(q) /\ QueueEmpty(q)
    BY DEF OnItsWay, Waits
  <1>3. CASE pc[d] # "free"
    <2>1. /\ Dequeue(d) \/ DequeueSwap(d, "free")
          /\ UNCHANGED pingVars
      BY <1>2, <1>3, PcCases
    <2>2. \A q \in Pes : Pending(q)' <=> Pending(q)
      BY <2>1 DEF pingVars, Pending
    <2>3. Round' /\ Counts(d, r)' /\ it' \in [Pes -> Nat]
      <3>1. it' = it /\ ~Pending(0)' /\ Round'
        BY <2>1, <2>2, ConstantFacts DEF pingVars, Counts, Round
      <3>2. QED
        BY <2>2, <3>1 DEF Counts
    <2>4. /\ \A q \in Pes \ {d} : pc'[q] = pc[q] /\ queue'[q] = queue[q]
          /\ next' = next /\ used' = used
      BY <1>1, <2>1 DEF Dequeue, DequeueSwap, GoTo, BlocksTypeOK
    <2>5. \A q \in Pes \ {d} : Waits(q)' /\ QueueEmpty(q)'
      BY <1>2, <2>1, <2>2, <2>4 DEF Waits, QueueEmpty, pingVars
    <2>6. CASE pc[d] = "dequeue"
      <3>1. PICK b \in Blocks : b = queue[d] /\ OnlyUsed(b) /\ next[b] = Tail
        BY <2>6 DEF OnItsWay
      <3>2. pc'[d] = "dequeue_swap" /\ head'[d] = b
        BY <1>1, <2>1, <2>6, <3>1, ConstantFacts DEF Dequeue, DequeueSwap, GoTo, BlocksTypeOK
      <3>3. OnlyUsed(head[d])' /\ next'[b] = Tail
        BY <2>4, <3>1, <3>2 DEF OnlyUsed
      <3>4. OnItsWay(d)'
        BY <1>2, <2>2, <2>5, <3>2, <3>3 DEF OnItsWay
      <3>5. QED
        BY <2>3, <3>4 DEF Playing
    <2>7. CASE pc[d] = "dequeue_swap"
      <3>1. PICK b \in Blocks : b = head[d] /\ OnlyUsed(b) /\ next[b] = Tail
        BY <2>7 DEF OnItsWay, OnlyUsed, Waits
      <3>2. pc'[d] = "free" /\ blk'[d] = b /\ queue'[d] = Tail
        BY <1>1, <2>1, <2>7, <3>1 DEF Dequeue, DequeueSwap, GoTo, BlocksTypeOK
      <3>3. OnlyUsed(blk[d])'
        BY <2>4, <3>1, <3>2 DEF OnlyUsed
      <3>4. OnItsWay(d)'
        BY <1>2, <2>2, <2>5, <3>2, <3>3 DEF OnItsWay
      <3>5. QED
        BY <2>3, <3>4 DEF Playing
    <2>8. QED
      BY <1>2, <1>3, <2>6, <2>7
  <1>4. CASE pc[d] = "free"
    <2>1. RecvXpmem(d) /\ OnlyUsed(blk[d]) /\ queue[d] = Tail
      BY <1>4, PcCases DEF OnItsWay, Waits
    <2>2. NoneUsed'
      BY <1>1, <2>1 DEF RecvXpmem, Free, OnlyUsed, NoneUsed, BlocksTypeOK
    <2>3. /\ \A q \in Pes \ {d} : pc'[q] = pc[q]
          /\ UNCHANGED <<queue, started, retained>>
          /\ blk'[d] = retained[d]
      BY <1>1, <2>1 DEF RecvXpmem, GoTo, BlocksTypeOK
    <2>4. PICK n \in Nat : n = NIters /\ n # 0 /\ r < n
      BY PingPongAssumption DEF Counts
    <2>5. CASE d = 0 /\ it[d] + 1 = NIters
      <3>1. TestFinish /\ pc'[d] = "idle"
        BY <1>1, <2>1, <2>5 DEF RecvXpmem, GoTo
      <3>2. r + 1 = n /\ signals = {}
        <4>1. it[0] = r /\ \A q \in Pes : ~Pending(q)
          BY <1>2, <2>5 DEF Counts
        <4>2. \A s \in signals : \E q \in Pes : s = <<q, "start_xpmem">>
          BY DEF Round
        <4>3. QED
          BY <2>4, <2>5, <4>1, <4>2 DEF Pending
      <3>3. \A q \in Pes : pc'[q] = "idle" /\ queue'[q] = Tail
        <4> TAKE q \in Pes
        <4>1. CASE q = d
          BY <2>1, <2>3, <3>1, <4>1
        <4>2. CASE q # d
          <5>1. it[q] = n
            BY <2>5, <3>2, <4>2 DEF Counts
          <5>2. pc[q] = "idle" /\ queue[q] = Tail
            BY <1>2, <2>4, <4>2, <5>1 DEF Waits, QueueEmpty
          <5>3. QED
            BY <2>3, <4>2, <5>2
        <4>3. QED
          BY <4>1, <4>2
      <3>4. it' \in [Pes -> Nat]
        <4>1. it[0] + 1 \in Nat
          BY ConstantFacts
        <4>2. it' = [it EXCEPT ![0] = 0] \/ it' = [it EXCEPT ![0] = it[0] + 1]
          BY <3>1 DEF TestFinish
        <4>3. QED
          BY <4>1, <4>2
      <3>5. CASE warmup
        <4>1. plain' = Theirs(0) /\ signals' = {} /\ it'[0] = 0
          BY <2>5, <3>1, <3>2, <3>5 DEF TestFinish
        <4>2. Theirs(0) \in Pes /\ 0 < NIters
          BY <2>4, <2>5, ConstantFacts
        <4>3. started'
          BY <2>3 DEF Round
        <4>4. PlainPhase'
          BY <2>2, <3>3, <4>1, <4>2, <4>3 DEF PlainPhase
        <4>5. QED
          BY <3>4, <4>4
      <3>6. CASE ~warmup
        <4>1. plain' = None /\ signals' \subseteq Pes \X {"exit"} /\ started'
          BY <2>3, <3>1, <3>2, <3>6 DEF TestFinish, Signal, Round
        <4>2. QED
          BY <2>2, <3>3, <3>4, <4>1 DEF Ended
      <3>7. QED
        BY <3>5, <3>6
    <2>6. CASE ~(d = 0 /\ it[d] + 1 = NIters)
      <3>1. /\ pc'[d] = "alloc" /\ it' = [it EXCEPT ![d] = @ + 1]
            /\ UNCHANGED <<plain, signals>>
        BY <1>1, <2>1, <2>6 DEF RecvXpmem, GoTo
      <3>2. /\ Round' /\ it' \in [Pes -> Nat]
            /\ \A q \in Pes : Pending(q)' <=> Pending(q)
            /\ it'[d] = it[d] + 1 /\ \A q \in Pes \ {d} : it'[q] = it[q]
        BY <2>3, <3>1 DEF Round, Pending
      <3>3. \A q \in Pes \ {d} : Waits(q)'
        BY <1>2, <2>3, <3>2 DEF Waits
      <3>4. \A q \in Pes : QueueEmpty(q)'
        BY <1>2, <2>1, <2>3, <3>1 DEF QueueEmpty
      <3>5. Sending(d)'
        BY <2>2, <2>3, <3>1, <3>3, <3>4 DEF Sending
      <3>6. Counts(Theirs(d), IF d = 0 THEN r + 1 ELSE r)'
        <4>1. it[0] = r /\ ~Pending(0)
          BY DEF Counts
        <4>2. CASE d = 0
          <5>1. r + 1 \in 0 .. NIters - 1
            BY <2>4, <2>6, <4>1, <4>2
          <5>2. \A q \in Pes \ {0} : ~Pending(q)' /\ it'[q] = r + 1
            BY <3>2, <4>2 DEF Counts
          <5>3. \A q \in Pes \ {0} : ~(q < Theirs(d))
            BY <4>2, RingFacts, ConstantFacts
          <5>4. it'[0] = r + 1 /\ ~Pending(0)'
            BY <3>2, <4>1, <4>2
          <5>5. CASE Theirs(d) = 0
            <6>1. Pes \ {0} = {}
              <7>1. PICK m \in Nat \ {0} : m = NPes
                BY BlocksAssumption
              <7>2. m = 1
                BY <4>2, <5>5, <7>1, RingFacts, ConstantFacts
              <7>3. QED
                BY <7>1, <7>2 DEF Pes
            <6>2. QED
              BY <4>2, <5>1, <5>4, <6>1 DEF Counts
          <5>6. CASE Theirs(d) # 0
            BY <4>2, <5>1, <5>2, <5>3, <5>4, <5>6 DEF Counts
          <5>7. QED
            BY <5>5, <5>6
        <4>3. CASE d # 0
          <5>1. it'[0] = r /\ ~Pending(0)' /\ r \in 0 .. NIters - 1
            BY <3>2, <4>1, <4>3, ConstantFacts DEF Counts
          <5>2. it'[d] = r + 1 /\ ~Pending(d)'
            <6>1. it[d] = r
              BY <1>2, <4>3, ConstantFacts DEF Counts
            <6>2. QED
              BY <1>2, <3>2, <6>1
          <5>3. ASSUME NEW q \in Pes \ {0}
                PROVE  IF Theirs(d) = 0 \/ q < Theirs(d) THEN ~Pending(q)' /\ it'[q] = r + 1
                       ELSE IF Pending(q)' THEN r = 0 ELSE it'[q] = r
            <6>1. IF q < d THEN ~Pending(q) /\ it[q] = r + 1
                  ELSE IF Pending(q) THEN r = 0 ELSE it[q] = r
              BY <4>3 DEF Counts
            <6>2. Theirs(d) = 0 \/ q < Theirs(d) <=> q < d \/ q = d
              <7>1. PICK m \in Nat \ {0} : m = NPes
                BY BlocksAssumption
              <7>2. d \in 1 .. m - 1 /\ q \in 1 .. m - 1
                BY <4>3, <7>1 DEF Pes
              <7>3. Theirs(d) = IF d = m - 1 THEN 0 ELSE d + 1
                BY <7>1, RingFacts
              <7>4. QED
                BY <7>2, <7>3
            <6>3. CASE q = d
              BY <5>2, <6>2, <6>3
            <6>4. CASE q # d
              BY <3>2, <6>1, <6>2, <6>4
            <6>5. QED
              BY <6>3, <6>4
          <5>4. QED
            BY <4>3, <5>1, <5>3 DEF Counts
        <4>4. QED
          BY <4>2, <4>3
      <3>7. Playing(Theirs(d), IF d = 0 THEN r + 1 ELSE r)'
        BY <3>2, <3>5, <3>6 DEF Playing
      <3>8. QED
        BY <3>2, <3>7
    <2>7. QED
      BY <2>5, <2>6
  <1>5. QED
    BY <1>3, <1>4

LEMMA PlayingMoves ==
  ASSUME Typed, it \in [Pes -> Nat], NEW d \in Pes, NEW r \in Nat, Playing(d, r),
         NEW p \in Pes, PingPe(p)
  PROVE  Ping'
  <1>1. Round /\ Counts(d, r)
    BY DEF Playing
  <1>2. /\ Theirs(d) \in Pes
        /\ (IF d = 0 THEN r + 1 ELSE r) \in Nat
    BY ConstantFacts
  <1>3. CASE OnItsWay(d) /\ p = d /\ pc[d] # "idle"
    BY <1>1, <1>2, <1>3, ReceiverMoves DEF Ping
  <1>4. CASE Theirs(p) = d /\ Sending(p)
    BY <1>1, <1>4, SenderMoves DEF Ping
  <1>5. CASE Waits(p)
    BY <1>3, <1>5, OnlyOneWaiting DEF Ping
  <1>6. CASE OnItsWay(d) /\ ~Waits(p)
    BY <1>3, <1>6 DEF OnItsWay
  <1>7. CASE (\E h \in Pes : Theirs(h) = d /\ Sending(h)) /\ ~Waits(p)
    BY <1>4, <1>7 DEF Sending
  <1>8. QED
    BY <1>5, <1>6, <1>7 DEF Playing

-----------------------------------------------------------------------------
(* The steps of the other phases. *)

LEMMA BeforeMoves ==
  ASSUME Typed, it \in [Pes -> Nat], Before, NEW p \in Pes, PingPe(p)
  PROVE  Ping'
  <1>1. Typed!2 /\ Typed!3 /\ Typed!4
    BY DEF Typed
  <1>2. PopulateBuffers(p) \/ (\E src \in Pes : Initiate(p, src)) \/ (p = 0 /\ StartPlain)
    <2>1. plain # p /\ signals = {} /\ pc[p] \in {"lput", "lput_swap", "idle"}
      BY ConstantFacts DEF Before, None
    <2>2. QED
      BY <2>1, PcCases DEF Idling, RecvPlain, StartXpmem, HandleExit
  <1>3. CASE PopulateBuffers(p)
    <2>1. /\ pc[p] \in {"lput", "lput_swap"} /\ pc'[p] \in {"lput", "lput_swap", "idle"}
          /\ \A q \in Pes \ {p} : pc'[q] = pc[q]
          /\ UNCHANGED <<peers, queue, used, pingVars>>
      BY <1>1, <1>3 DEF PopulateBuffers, Lput, LputSwap, GoTo
    <2>2. \A q \in Pes : \A src \in peers[q] \ {q} : pc'[src] = "idle"
      <3> TAKE q \in Pes
      <3> TAKE src \in peers[q] \ {q}
      <3>1. pc[src] = "idle" /\ src \in Pes
        BY <1>1 DEF Before, BlocksTypeOK
      <3>2. QED
        BY <2>1, <3>1
    <2>3. Before'
      BY <2>1, <2>2 DEF Before, NoneUsed, pingVars
    <2>4. QED
      BY <2>1, <2>3 DEF Ping, pingVars
  <1>4. CASE \E src \in Pes : Initiate(p, src)
    <2>1. PICK src \in Pes : Initiate(p, src)
      BY <1>4
    <2>2. /\ pc[src] = "idle" /\ peers' = [peers EXCEPT ![p] = @ \cup {src}]
          /\ UNCHANGED <<pc, queue, used, pingVars>>
      BY <2>1 DEF Initiate, HandleInitiate, shared, Before
    <2>3. \A q \in Pes : \A s \in peers'[q] \ {q} : pc[s] = "idle"
      BY <1>1, <2>2 DEF Before, BlocksTypeOK
    <2>4. Before'
      BY <2>2, <2>3 DEF Before, NoneUsed, pingVars
    <2>5. QED
      BY <2>2, <2>4 DEF Ping, pingVars
  <1>5. CASE p = 0 /\ StartPlain
    <2>1. /\ started' /\ plain' = Theirs(0) /\ it' = [it EXCEPT ![0] = 0]
          /\ UNCHANGED <<pc, queue, used, signals>>
      BY <1>5 DEF StartPlain, blockVars, shared
    <2>2. \A q \in Pes : pc[q] = "idle"
      BY <1>5, ConstantFacts DEF StartPlain, Before
    <2>3. it' \in [Pes -> Nat] /\ it'[0] = 0 /\ 0 < NIters
      BY <1>5, <2>1, PingPongAssumption, ConstantFacts DEF NBuffers
    <2>4. PlainPhase'
      BY <2>1, <2>2, <2>3, ConstantFacts DEF PlainPhase, Before, NoneUsed
    <2>5. QED
      BY <2>3, <2>4 DEF Ping
  <1>6. QED
    BY <1>2, <1>3, <1>4, <1>5

LEMMA PlainMoves ==
  ASSUME Typed, it \in [Pes -> Nat], PlainPhase, NEW p \in Pes, PingPe(p)
  PROVE  Ping'
  <1>1. (\E src \in Pes : Initiate(p, src)) \/ RecvPlain(p)
    BY PcCases DEF PlainPhase, Idling, StartPlain, StartXpmem, HandleExit
  <1>2. CASE \E src \in Pes : Initiate(p, src)
    <2>1. UNCHANGED <<pc, queue, used, pingVars>>
      BY <1>2 DEF Initiate, HandleInitiate, shared
    <2>2. PlainPhase' /\ it' = it
      BY <2>1 DEF PlainPhase, NoneUsed, pingVars
    <2>3. QED
      BY <2>2 DEF Ping
  <1>3. CASE RecvPlain(p)
    <2>1. UNCHANGED <<pc, queue, used, started>> /\ Theirs(p) \in Pes /\ 0 \in Pes
      BY <1>3, ConstantFacts DEF RecvPlain, blockVars, shared
    <2>2. it' \in [Pes -> Nat] /\ it'[0] \in Nat /\ it'[0] <= NIters
      <3>1. it[0] \in Nat /\ it[0] < NIters /\ NIters \in Nat
        BY PingPongAssumption, ConstantFacts DEF PlainPhase
      <3>2. it' = it \/ it' = [it EXCEPT ![0] = it[0] + 1]
        BY <1>3 DEF RecvPlain
      <3>3. QED
        BY <2>1, <3>1, <3>2
    <2>3. CASE p = 0 /\ it'[0] = NIters
      <3>1. plain' = None /\ signals' = Pes \X {"start_xpmem"}
        BY <1>3, <2>3 DEF RecvPlain, Signal, PlainPhase
      <3>2. Round' /\ \A q \in Pes : Pending(q)'
        BY <2>1, <3>1 DEF Round, Pending, PlainPhase
      <3>3. Starting'
        BY <2>1, <3>2 DEF Starting, Waits, QueueEmpty, NoneUsed, PlainPhase
      <3>4. QED
        BY <2>2, <3>3 DEF Ping
    <2>4. CASE ~(p = 0 /\ it'[0] = NIters)
      <3>1. plain' = Theirs(p) /\ signals' = signals
        BY <1>3, <2>4 DEF RecvPlain
      <3>2. it'[0] < NIters
        <4>1. CASE p = 0
          BY <2>2, <2>4, <4>1, PingPongAssumption
        <4>2. CASE p # 0
          BY <1>3, <4>2 DEF RecvPlain, PlainPhase
        <4>3. QED
          BY <4>1, <4>2
      <3>3. PlainPhase'
        BY <2>1, <3>1, <3>2 DEF PlainPhase, NoneUsed
      <3>4. QED
        BY <2>2, <3>3 DEF Ping
    <2>5. QED
      BY <2>3, <2>4
  <1>4. QED
    BY <1>1, <1>2, <1>3

LEMMA StartingMoves ==
  ASSUME Typed, it \in [Pes -> Nat], Starting, NEW p \in Pes, PingPe(p)
  PROVE  Ping'
  <1>1. /\ Round /\ Pending(0) /\ NoneUsed
        /\ \A q \in Pes : Waits(q) /\ QueueEmpty(q) /\ (~Pending(q) => it[q] = 0)
    BY DEF Starting
  <1>2. CASE p # 0
    <2>1. Bystander(p) /\ QueueEmpty(p)'
      BY <1>1, <1>2, WaiterMoves
    <2>2. \A q \in Pes : Waits(q)' /\ QueueEmpty(q)' /\ (~Pending(q)' => it'[q] = 0)
      <3> TAKE q \in Pes
      <3>1. CASE q = p
        BY <1>1, <2>1, <3>1 DEF Bystander
      <3>2. CASE q # p
        <4>1. (Pending(q)' <=> Pending(q)) /\ it'[q] = it[q]
          BY <2>1, <3>2 DEF Bystander
        <4>2. QED
          BY <1>1, <2>1, <3>2, <4>1, WaitersStay
      <3>3. QED
        BY <3>1, <3>2
    <2>3. Round' /\ NoneUsed' /\ it' \in [Pes -> Nat]
      BY <1>1, <2>1 DEF Bystander, NoneUsed
    <2>4. Pending(0)'
      BY <1>1, <1>2, <2>1, ConstantFacts DEF Bystander
    <2>5. QED
      BY <2>2, <2>3, <2>4 DEF Starting, Ping
  <1>3. CASE p = 0
    <2>1. pc[0] = "idle"
      BY <1>1, <1>3 DEF Waits
    <2>2. (\E src \in Pes : Initiate(0, src)) \/ StartXpmem(0)
      <3>1. started /\ plain # 0 /\ <<0, "exit">> \notin signals
        BY <1>1 DEF Round, None
      <3>2. QED
        BY <1>3, <2>1, <3>1, PcCases DEF Idling, StartPlain, RecvPlain, HandleExit
    <2>3. CASE \E src \in Pes : Initiate(0, src)
      <3>1. UNCHANGED <<pc, queue, used, pingVars>>
        BY <2>3 DEF Initiate, HandleInitiate, shared
      <3>2. UNCHANGED <<pc, queue, used, started, plain, signals, it>>
        BY <3>1 DEF pingVars
      <3>3. Starting'
        BY <3>2 DEF Starting, Round, Waits, Pending, QueueEmpty, NoneUsed
      <3>4. QED
        BY <3>2, <3>3 DEF Ping
    <2>4. CASE StartXpmem(0)
      <3>1. /\ signals' = signals \ {<<0, "start_xpmem">>}
            /\ pc' = [pc EXCEPT ![0] = "alloc"] /\ it' = [it EXCEPT ![0] = 0]
            /\ blk' = [blk EXCEPT ![0] = retained[0]]
            /\ UNCHANGED <<queue, used, started, plain, retained>>
        BY <2>4 DEF StartXpmem, GoTo, ResetState, shared
      <3>2. /\ it'[0] = 0 /\ pc'[0] = "alloc" /\ it' \in [Pes -> Nat] /\ blk'[0] = retained'[0]
            /\ \A q \in Pes \ {0} : pc'[q] = pc[q] /\ it'[q] = it[q]
        BY <1>3, <3>1 DEF Typed, BlocksTypeOK
      <3>3. /\ ~Pending(0)' /\ \A q \in Pes \ {0} : Pending(q)' <=> Pending(q)
            /\ Round'
        BY <1>1, <3>1 DEF Pending, Round
      <3>4. /\ \A q \in Pes \ {0} : Waits(q)'
            /\ \A q \in Pes : QueueEmpty(q)'
            /\ NoneUsed'
        BY <1>1, <2>1, <3>1, <3>2, <3>3 DEF Waits, QueueEmpty, NoneUsed
      <3>5. Sending(0)'
        BY <3>2, <3>4 DEF Sending
      <3>6. Counts(Theirs(0), 0)'
        <4>1. 0 \in 0 .. NIters - 1
          BY PingPongAssumption, ConstantFacts DEF NBuffers
        <4>2. \A q \in Pes \ {0} : ~(Theirs(0) = 0 \/ q < Theirs(0))
          <5>1. PICK m \in Nat \ {0} : m = NPes
            BY BlocksAssumption
          <5>2. Theirs(0) = IF 0 = m - 1 THEN 0 ELSE 1
            BY <5>1, RingFacts, ConstantFacts
          <5>3. QED
            BY <5>1, <5>2 DEF Pes
        <4>3. \A q \in Pes \ {0} : Pending(q)' \/ it'[q] = 0
          BY <1>1, <3>2, <3>3
        <4>4. QED
          BY <3>2, <3>3, <4>1, <4>2, <4>3 DEF Counts
      <3>7. Playing(Theirs(0), 0)' /\ Theirs(0) \in Pes /\ 0 \in Nat
        BY <1>3, <3>3, <3>5, <3>6, ConstantFacts DEF Playing
      <3>8. QED
        BY <3>2, <3>7 DEF Ping
    <2>5. QED
      BY <2>2, <2>3, <2>4
  <1>4. QED
    BY <1>2, <1>3

LEMMA EndedMoves ==
  ASSUME Typed, it \in [Pes -> Nat], Ended, NEW p \in Pes, PingPe(p)
  PROVE  Ping'
  <1>1. (\E src \in Pes : Initiate(p, src)) \/ HandleExit(p)
    <2>1. /\ started /\ plain # p /\ <<p, "start_xpmem">> \notin signals
          /\ pc[p] \in {"idle", "exit"}
      BY ConstantFacts DEF Ended, None
    <2>2. QED
      BY <2>1, PcCases DEF Idling, StartPlain, RecvPlain, StartXpmem
  <1>2. CASE \E src \in Pes : Initiate(p, src)
    <2>1. UNCHANGED <<pc, used, pingVars>>
      BY <1>2 DEF Initiate, HandleInitiate, shared
    <2>2. Ended' /\ it' = it
      BY <2>1 DEF Ended, NoneUsed, pingVars
    <2>3. QED
      BY <2>2 DEF Ping
  <1>3. CASE HandleExit(p)
    <2>1. Ended' /\ it' = it
      BY <1>3 DEF HandleExit, GoTo, shared, Ended, NoneUsed, Typed
    <2>2. QED
      BY <2>1 DEF Ping
  <1>4. QED
    BY <1>1, <1>2, <1>3

-----------------------------------------------------------------------------
(* The basic test has no ball. *)
NoBall ==
  /\ ~started
  /\ \A p \in Pes : retained[p] = Null /\ pc[p] \notin {"alloc", "cache", "free", "idle"}

Ball ==
  IF program = "basic" THEN NoBall
  ELSE Ping /\ retained \in [Pes -> Blocks \cup {Null}]

LEMMA BallInit == Init => Ball
  <1> SUFFICES ASSUME Init PROVE Ball
    OBVIOUS
  <1>1. CASE program = "basic"
    BY <1>1 DEF Init, BlocksInit, PingInit, NoBall, Ball
  <1>2. CASE program # "basic"
    <2>1. \A q \in Pes : {q} \ {q} = {}
      OBVIOUS
    <2>2. Before /\ it \in [Pes -> Nat]
      BY <1>2, <2>1 DEF Init, BlocksInit, PingInit, Before, NoneUsed
    <2>3. retained \in [Pes -> Blocks \cup {Null}]
      BY <1>2 DEF Init, PingInit
    <2>4. QED
      BY <1>2, <2>2, <2>3 DEF Ball, Ping
  <1>3. QED
    BY <1>1, <1>2

LEMMA NoBallMoves ==
  ASSUME Typed, NoBall, NEW p \in Pes, BasicPe(p), UNCHANGED pingVars
  PROVE  NoBall'
  <1>1. started' = started /\ retained' = retained
    BY DEF pingVars
  <1>2. \A q \in Pes : pc'[q] \notin {"alloc", "cache", "free", "idle"}
    <2>1. CASE (\E src \in Pes : pc[p] = "init" /\ HandleInitiate(p, src) /\ UNCHANGED basicVars)
               \/ HandleRun(p)
      BY <2>1 DEF NoBall, HandleInitiate, HandleRun, GoTo, Typed
    <2>2. CASE Populate(p)
      BY <2>2 DEF NoBall, Populate, Lput, LputSwap, GoTo, Typed
    <2>3. CASE FillBlock(p) \/ HandleBlock(p)
      BY <2>3 DEF NoBall, FillBlock, RallocSwap, HandleBlock, DequeueSwap, GoTo, Typed
    <2>4. CASE SendBlock(p)
      BY <2>4 DEF NoBall, SendBlock, Ralloc, EnqueueSwap, GoTo, Typed
    <2>5. CASE PoolAndQueueCall(p)
      BY <2>5 DEF NoBall, PoolAndQueueCall, RallocBack, Enqueue, Dequeue, DequeueBack, GoTo, Typed
    <2>6. QED
      BY <2>1, <2>2, <2>3, <2>4, <2>5 DEF BasicPe
  <1>3. QED
    BY <1>1, <1>2 DEF NoBall

(* Who looks for a block, or has left, is who has the ball, or all is over. *)
LEMMA NotAtAlloc ==
  ASSUME Ping, NEW p \in Pes, pc[p] \in {"alloc", "ralloc", "ralloc_swap", "cache", "exit"}
  PROVE  Sending(p) \/ Ended
  <1>1. CASE Before \/ PlainPhase
    BY <1>1 DEF Before, PlainPhase
  <1>2. CASE Starting
    BY <1>2 DEF Starting, Waits
  <1>3. CASE \E d \in Pes, r \in Nat : Playing(d, r)
    <2>1. PICK d \in Pes, r \in Nat : Playing(d, r)
      BY <1>3
    <2>2. ~Waits(p)
      BY DEF Waits
    <2>3. CASE OnItsWay(d)
      BY <2>2, <2>3 DEF OnItsWay
    <2>4. CASE \E h \in Pes : Theirs(h) = d /\ Sending(h)
      BY <2>2, <2>4 DEF Sending
    <2>5. QED
      BY <2>1, <2>3, <2>4 DEF Playing
  <1>4. QED
    BY <1>1, <1>2, <1>3 DEF Ping

LEMMA RetainedMoves ==
  ASSUME Typed, Ping, retained \in [Pes -> Blocks \cup {Null}], NEW p \in Pes, PingPe(p)
  PROVE  retained' \in [Pes -> Blocks \cup {Null}]
  <1>1. retained' = retained \/ CacheBlock(p)
    BY DEF PingPe, PopulateBuffers, Initiate, StartPlain, RecvPlain, StartXpmem, AllocFrom,
           AskPool, SentBlock, RecvXpmem, HandleExit, pingVars
  <1>2. CASE CacheBlock(p)
    <2>1. pc[p] = "cache"
      BY <1>2 DEF CacheBlock
    <2>2. blk[p] \in Blocks
      BY <2>1, NotAtAlloc DEF Ended, Sending, OnlyUsed
    <2>3. QED
      BY <1>2, <2>2 DEF CacheBlock
  <1>3. QED
    BY <1>1, <1>2

LEMMA BallStep ==
  ASSUME Typed, Ball, [Next]_vars
  PROVE  Ball'
  <1>1. CASE UNCHANGED vars
    <2>1. UNCHANGED <<program, pc, queue, next, used, blk, head, peers,
                      started, plain, signals, it, retained>>
      BY <1>1 DEF vars, blockVars, shared, pingVars
    <2>2. NoBall' <=> NoBall
      BY <2>1 DEF NoBall
    <2>3. Ping' <=> Ping
      BY <2>1 DEF Ping, Before, PlainPhase, Starting, Ended, Playing, Round, Counts, Sending,
                  OnItsWay, Waits, Pending, QueueEmpty, NoneUsed, OnlyUsed
    <2>4. QED
      BY <2>1, <2>2, <2>3 DEF Ball
  <1>2. ASSUME NEW p \in Pes, Pe(p)
        PROVE  Ball'
    <2>1. CASE program = "basic"
      BY <1>2, <2>1, NoBallMoves DEF Pe, Ball
    <2>2. CASE program # "basic"
      <3>1. PingPe(p) /\ program' = program /\ Ping /\ retained \in [Pes -> Blocks \cup {Null}]
        BY <1>2, <2>2 DEF Pe, Ball
      <3>2. Ping'
        <4>1. it \in [Pes -> Nat]
          BY <3>1 DEF Ping
        <4>2. QED
          BY <3>1, <4>1, BeforeMoves, PlainMoves, StartingMoves, EndedMoves, PlayingMoves DEF Ping
      <3>3. QED
        BY <2>2, <3>1, <3>2, RetainedMoves DEF Ball
    <2>3. QED
      BY <2>1, <2>2
  <1>3. QED
    BY <1>1, <1>2 DEF Next, Exited

LEMMA BallInvariant == Spec => []Ball
  <1>1. Safe => Typed
    BY DEF Safe
  <1>2. QED
    BY <1>1, BallInit, BallStep, SafeInvariant, PTL DEF Spec

(***************************************************************************)
(* alloc_from finds its first retained block free, or there is none and    *)
(* the pool is asked: it never follows a link that belongs to a queue.     *)
(***************************************************************************)
THEOREM RetainedBlocksFree == Spec => []RetainedFree
  <1>1. Typed /\ Ball => RetainedFree
    <2> SUFFICES ASSUME Typed, Ball, NEW p \in Pes
                 PROVE  /\ pc[p] = "alloc" => /\ blk[p] = retained[p]
                                              /\ blk[p] # Null => ~used[blk[p]]
                        /\ pc[p] = "ralloc" => retained[p] = Null
      BY DEF RetainedFree
    <2>1. CASE program = "basic"
      BY <2>1 DEF Ball, NoBall
    <2>2. CASE program # "basic" /\ pc[p] \in {"alloc", "ralloc"}
      <3>1. Sending(p)
        BY <2>2, NotAtAlloc DEF Ball, Ended
      <3>2. CASE pc[p] = "alloc"
        <4>1. NoneUsed /\ blk[p] = retained[p]
          BY <3>1, <3>2 DEF Sending
        <4>2. blk[p] # Null => blk[p] \in Blocks
          BY <2>2, <4>1 DEF Ball
        <4>3. QED
          BY <3>2, <4>1, <4>2 DEF NoneUsed
      <3>3. CASE pc[p] = "ralloc"
        BY <3>1, <3>3 DEF Sending
      <3>4. QED
        BY <2>2, <3>2, <3>3
    <2>3. QED
      BY <2>1, <2>2
  <1>2. Safe => Typed
    BY DEF Safe
  <1>3. QED
    BY <1>1, <1>2, BallInvariant, SafeInvariant, PTL

(***************************************************************************)
(* At most one block is in use, none while the plain message is under way, *)
(* and when a PE frees the block the counts of the others fit the place of *)
(* the ball: nobody is a round ahead or has left the loop.                 *)
(***************************************************************************)
THEOREM OneBallAlways == Spec => []OneBall
  <1>1. Typed /\ Ball => OneBall
    <2> SUFFICES ASSUME Typed, Ball, started
                 PROVE  OneBall
      BY DEF OneBall
    <2>1. Ping
      BY DEF Ball, NoBall
    <2>2. NoneUsed \/ ((\E b : OnlyUsed(b)) /\ plain = None)
      BY <2>1 DEF Ping, Before, PlainPhase, Starting, Ended, Playing, Round, Sending, OnItsWay
    <2>3. Cardinality({b \in Blocks : used[b]}) <= IF plain = None THEN 1 ELSE 0
      <3>1. CASE NoneUsed
        <4>1. {b \in Blocks : used[b]} = {}
          BY <3>1 DEF NoneUsed
        <4>2. Cardinality({}) = 0
          BY FS_EmptySet
        <4>3. QED
          BY <4>1, <4>2
      <3>2. CASE (\E b : OnlyUsed(b)) /\ plain = None
        <4>1. PICK b : OnlyUsed(b)
          BY <3>2
        <4>2. {c \in Blocks : used[c]} = {b}
          BY <4>1 DEF OnlyUsed
        <4>3. Cardinality({b}) = 1
          BY FS_Singleton
        <4>4. QED
          BY <3>2, <4>2, <4>3
      <3>3. QED
        BY <2>2, <3>1, <3>2
    <2>4. ASSUME NEW p \in Pes, NEW q \in Pes, pc[p] = "free"
          PROVE  /\ q \in 1 .. p - 1 \/ (p = 0 /\ q # 0) => it[q] = it[p] + 1
                 /\ q = 0 => it[q] = it[p]
                 /\ q > p /\ p # 0 /\ <<q, "start_xpmem">> \notin signals =>
                      it[q] = it[p] /\ pc[q] \in {"dequeue", "dequeue_back"}
      <3>1. PICK r \in Nat : Counts(p, r) /\ OnItsWay(p) /\ ~Pending(p)
        <4>1. ~Waits(p)
          BY <2>4 DEF Waits
        <4>2. \E d \in Pes, r \in Nat : Playing(d, r)
          BY <2>1, <2>4, <4>1 DEF Ping, Before, PlainPhase, Ended, Starting
        <4>3. PICK d \in Pes, r \in Nat : Playing(d, r)
          BY <4>2
        <4>4. OnItsWay(d) /\ p = d
          BY <2>4, <4>1, <4>3 DEF Playing, Sending, OnItsWay
        <4>5. ~Pending(p)
          BY <2>4, <4>1, <4>4 DEF OnItsWay
        <4>6. QED
          BY <4>3, <4>4, <4>5 DEF Playing
      <3>2. it[p] = r /\ it[0] = r
        BY <3>1, ConstantFacts DEF Counts
      <3>3. q \in 1 .. p - 1 \/ (p = 0 /\ q # 0) => it[q] = it[p] + 1
        BY <3>1, <3>2, ConstantFacts DEF Counts
      <3>4. ASSUME q > p, p # 0, ~Pending(q)
            PROVE  it[q] = it[p] /\ pc[q] \in {"dequeue", "dequeue_back"}
        <4>1. q # 0 /\ ~(q < p) /\ q # p /\ r # NIters
          BY <3>1, <3>4, PingPongAssumption, ConstantFacts DEF Counts
        <4>2. it[q] = r
          BY <3>1, <3>4, <4>1 DEF Counts
        <4>3. Waits(q)
          BY <3>1, <4>1 DEF OnItsWay
        <4>4. QED
          BY <3>2, <3>4, <4>1, <4>2, <4>3 DEF Waits
      <3>5. QED
        BY <3>2, <3>3, <3>4 DEF Pending
    <2>5. QED
      BY <2>3, <2>4 DEF OneBall
  <1>2. Safe => Typed
    BY DEF Safe
  <1>3. QED
    BY <1>1, <1>2, BallInvariant, SafeInvariant, PTL

-----------------------------------------------------------------------------
(***************************************************************************)
(* The basic test: S[t] holds the blocks that were ever put into the queue *)
(* of t.  They are in use and linked to each other, and a block in hand is *)
(* in none of the sets, so that its marker is not yet to be read.          *)
(***************************************************************************)
Done(p) == pc[p] \in {"dequeue", "dequeue_back", "dequeue_swap", "exit"}
HandsOver(p) == pc[p] \in {"enqueue", "enqueue_swap"}

Received(S) ==
  /\ \A t \in Pes : \A b \in S[t] : used[b] /\ next[b] \in S[t] \cup {Tail}
  /\ \A t \in Pes : queue[t] \in S[t] \cup {Tail, Null}
  /\ \A p \in Pes :
       /\ pc[p] = "enqueue_swap" => head[p] \in S[Theirs(p)] \cup {Tail}
       /\ pc[p] = "dequeue_swap" => head[p] \in S[p]
  /\ \A p \in Pes : HandsOver(p) =>
       /\ blk[p] \in Blocks /\ used[blk[p]]
       /\ \A t \in Pes : blk[p] \notin S[t]
       /\ \A q \in Pes : HandsOver(q) /\ blk[q] = blk[p] => q = p

(* A marked block is the last one of the PE that sends it. *)
Marks(S) ==
  /\ last \in [Blocks -> BOOLEAN]
  /\ \A p \in Pes :
       /\ HandsOver(p) /\ last[blk[p]] => i[p] = NumMsgs
       /\ (\E b \in S[Theirs(p)] : last[b]) => Done(p)
       /\ pc[Theirs(p)] = "exit" => Done(p)

Markers ==
  program = "basic" => \E S \in [Pes -> SUBSET Blocks] : Received(S) /\ Marks(S)

(* A step that sends and allocates nothing. *)
LEMMA MarkersKept ==
  ASSUME NEW S \in [Pes -> SUBSET Blocks], Received(S), Marks(S), NEW p \in Pes,
         used' = used, last' = last,
         \A b \in Blocks : used[b] => next'[b] = next[b],
         \A t \in Pes : queue'[t] \in S[t] \cup {Tail, Null},
         \A q \in Pes \ {p} : /\ pc'[q] = pc[q] /\ head'[q] = head[q]
                              /\ blk'[q] = blk[q] /\ i'[q] = i[q],
         HandsOver(p)' => HandsOver(p) /\ blk'[p] = blk[p] /\ i'[p] = i[p],
         pc'[p] = "enqueue_swap" => head'[p] \in S[Theirs(p)] \cup {Tail},
         pc'[p] = "dequeue_swap" => head'[p] \in S[p],
         Done(p) => Done(p)',
         pc'[p] = "exit" => \A q \in Pes : Theirs(q) = p => Done(q)
  PROVE  Received(S)' /\ Marks(S)'
  <1>1. \A t \in Pes : S[t] \subseteq Blocks
    OBVIOUS
  <1>2. \A t \in Pes : \A b \in S[t] : used'[b] /\ next'[b] \in S[t] \cup {Tail}
    <2> TAKE t \in Pes
    <2> TAKE b \in S[t]
    <2>1. used[b] /\ next[b] \in S[t] \cup {Tail} /\ b \in Blocks
      BY <1>1 DEF Received
    <2>2. QED
      BY <2>1
  <1>3. \A q \in Pes : /\ HandsOver(q)' => HandsOver(q) /\ blk'[q] = blk[q] /\ i'[q] = i[q]
                       /\ Done(q) => Done(q)'
    BY DEF HandsOver, Done
  <1>4. \A q \in Pes :
          /\ pc'[q] = "enqueue_swap" => head'[q] \in S[Theirs(q)] \cup {Tail}
          /\ pc'[q] = "dequeue_swap" => head'[q] \in S[q]
    BY DEF Received
  <1>5. \A q \in Pes : HandsOver(q)' =>
          /\ blk'[q] \in Blocks /\ used'[blk'[q]]
          /\ \A t \in Pes : blk'[q] \notin S[t]
          /\ \A u \in Pes : HandsOver(u)' /\ blk'[u] = blk'[q] => u = q
    BY <1>3 DEF Received
  <1>6. Received(S)'
    BY <1>2, <1>4, <1>5 DEF Received
  <1>7. \A q \in Pes : pc'[Theirs(q)] = "exit" => Done(q)
    <2> TAKE q \in Pes
    <2>1. CASE Theirs(q) = p
      BY <2>1
    <2>2. CASE Theirs(q) # p
      BY <2>2, ConstantFacts DEF Marks
    <2>3. QED
      BY <2>1, <2>2
  <1>8. Marks(S)'
    BY <1>3, <1>7 DEF Marks
  <1>9. QED
    BY <1>6, <1>8

(* The block that ralloc hands out is unused: it is nobody's, and not sent. *)
LEMMA FillMarkers ==
  ASSUME Typed, NEW S \in [Pes -> SUBSET Blocks], Received(S), Marks(S), NEW p \in Pes,
         FillBlock(p), ~used[head[p]]
  PROVE  Received(S)' /\ Marks(S)'
  <1>1. Typed!2 /\ Typed!3 /\ Typed!4
    BY DEF Typed
  <1>2. PICK h \in Blocks : h = head[p] /\ ~used[h]
    BY DEF Typed, FillBlock, RallocSwap
  <1>3. /\ pc[p] = "ralloc_swap" /\ pc' = [pc EXCEPT ![p] = "enqueue"]
        /\ blk' = [blk EXCEPT ![p] = h] /\ used' = [used EXCEPT ![h] = TRUE]
        /\ i' = [i EXCEPT ![p] = @ + 1] /\ last' = [last EXCEPT ![h] = IsLast(i[p] + 1)]
        /\ UNCHANGED <<queue, next, head>>
    BY <1>2 DEF FillBlock, RallocSwap, GoTo
  <1>4. /\ pc'[p] = "enqueue" /\ blk'[p] = h /\ i'[p] = i[p] + 1
        /\ \A q \in Pes \ {p} : pc'[q] = pc[q] /\ blk'[q] = blk[q] /\ i'[q] = i[q]
    BY <1>1, <1>3 DEF BlocksTypeOK
  <1>5. used'[h] /\ \A b \in Blocks \ {h} : used'[b] = used[b] /\ last'[b] = last[b]
    BY <1>1, <1>3 DEF BlocksTypeOK, Marks
  <1>6. last' \in [Blocks -> BOOLEAN] /\ (last'[h] => i'[p] = NumMsgs)
    BY <1>3, <1>4 DEF Marks, IsLast
  <1>7. \A t \in Pes : S[t] \subseteq Blocks \ {h}
    BY <1>2 DEF Received
  <1>8. \A q \in Pes \ {p} : HandsOver(q)' => HandsOver(q) /\ blk[q] \in Blocks \ {h}
    BY <1>2, <1>4 DEF HandsOver, Received
  <1>9. \A q \in Pes : HandsOver(q)' =>
          /\ blk'[q] \in Blocks /\ used'[blk'[q]]
          /\ \A t \in Pes : blk'[q] \notin S[t]
          /\ \A u \in Pes : HandsOver(u)' /\ blk'[u] = blk'[q] => u = q
    <2> TAKE q \in Pes
    <2> HAVE HandsOver(q)'
    <2>1. CASE q = p
      BY <1>4, <1>5, <1>7, <1>8, <2>1
    <2>2. CASE q # p
      <3>1. HandsOver(q) /\ blk'[q] = blk[q] /\ blk[q] \in Blocks \ {h}
        BY <1>4, <1>8, <2>2
      <3>2. used[blk[q]] /\ \A t \in Pes : blk[q] \notin S[t]
        BY <3>1 DEF Received
      <3>3. ASSUME NEW u \in Pes, HandsOver(u)', blk'[u] = blk'[q]
            PROVE  u = q
        <4>1. u # p
          BY <1>4, <3>1, <3>3
        <4>2. HandsOver(u) /\ blk[u] = blk[q]
          BY <1>4, <1>8, <3>1, <3>3, <4>1
        <4>3. QED
          BY <3>1, <4>2 DEF Received
      <3>4. QED
        BY <1>5, <3>1, <3>2, <3>3
    <2>3. QED
      BY <2>1, <2>2
  <1>10. Received(S)'
    <2>1. \A t \in Pes : \A b \in S[t] : used'[b] /\ next'[b] \in S[t] \cup {Tail}
      <3> TAKE t \in Pes
      <3> TAKE b \in S[t]
      <3>1. used[b] /\ next[b] \in S[t] \cup {Tail} /\ b \in Blocks \ {h}
        BY <1>7 DEF Received
      <3>2. QED
        BY <1>3, <1>5, <3>1
    <2>2. \A t \in Pes : queue'[t] \in S[t] \cup {Tail, Null}
      BY <1>3 DEF Received
    <2>3. \A q \in Pes : /\ pc'[q] = "enqueue_swap" => head'[q] \in S[Theirs(q)] \cup {Tail}
                         /\ pc'[q] = "dequeue_swap" => head'[q] \in S[q]
      BY <1>3, <1>4 DEF Received
    <2>4. QED
      BY <1>9, <2>1, <2>2, <2>3 DEF Received
  <1>11. Marks(S)'
    <2>1. \A q \in Pes : Done(q) => Done(q)'
      BY <1>3, <1>4 DEF Done
    <2>2. \A q \in Pes : HandsOver(q)' /\ last'[blk'[q]] => i'[q] = NumMsgs
      BY <1>4, <1>5, <1>6, <1>8 DEF Marks
    <2>3. \A q \in Pes : (\E b \in S[Theirs(q)] : last'[b]) => Done(q)
      BY <1>5, <1>7, ConstantFacts DEF Marks
    <2>4. \A q \in Pes : pc'[Theirs(q)] = "exit" => Done(q)
      BY <1>4, ConstantFacts DEF Marks
    <2>5. QED
      BY <1>6, <2>1, <2>2, <2>3, <2>4 DEF Marks
  <1>12. QED
    BY <1>10, <1>11

(* The block joins those the peer was sent; with the last one PE p is done. *)
LEMMA SendMarkers ==
  ASSUME Typed, NEW S \in [Pes -> SUBSET Blocks], Received(S), Marks(S), NEW p \in Pes,
         EnqueueSwap(p, IF i[p] < NumMsgs THEN "ralloc" ELSE "dequeue"), last' = last
  PROVE  \E R \in [Pes -> SUBSET Blocks] : Received(R)' /\ Marks(R)'
  <1>1. Typed!2 /\ Typed!3 /\ Typed!4
    BY DEF Typed
  <1>2. PICK t \in Pes : t = Theirs(p)
    BY ConstantFacts
  <1>3. PICK a \in Blocks : /\ a = blk[p] /\ used[a] /\ HandsOver(p) /\ \A u \in Pes : a \notin S[u]
                            /\ \A q \in Pes : HandsOver(q) /\ blk[q] = a => q = p
    BY DEF EnqueueSwap, HandsOver, Received
  <1>4. /\ pc[p] = "enqueue_swap"
        /\ pc'[p] = (IF i[p] < NumMsgs THEN "ralloc" ELSE "dequeue")
        /\ \A q \in Pes \ {p} : pc'[q] = pc[q]
        /\ next'[a] = head[p] /\ \A b \in Blocks \ {a} : next'[b] = next[b]
        /\ queue' = [queue EXCEPT ![t] = a]
        /\ UNCHANGED <<used, i, blk, head>>
    BY <1>1, <1>2, <1>3 DEF EnqueueSwap, GoTo, BlocksTypeOK
  <1>5. PICK R \in [Pes -> SUBSET Blocks] : R = [S EXCEPT ![t] = @ \cup {a}]
    OBVIOUS
  <1>6. R[t] = S[t] \cup {a} /\ \A u \in Pes \ {t} : R[u] = S[u]
    BY <1>5
  <1>7. \A u \in Pes : S[u] \subseteq R[u] /\ R[u] \subseteq S[u] \cup {a} /\ S[u] \subseteq Blocks
    BY <1>6
  <1>8. \A u \in Pes : \A b \in R[u] : used'[b] /\ next'[b] \in R[u] \cup {Tail}
    <2> TAKE u \in Pes
    <2> TAKE b \in R[u]
    <2>1. CASE b \in S[u]
      <3>1. used[b] /\ next[b] \in S[u] \cup {Tail} /\ b \in Blocks \ {a}
        BY <1>3, <1>7, <2>1 DEF Received
      <3>2. QED
        BY <1>4, <1>7, <3>1
    <2>2. CASE b \notin S[u]
      <3>1. b = a /\ u = t
        BY <1>6, <2>2
      <3>2. head[p] \in S[t] \cup {Tail}
        BY <1>2, <1>4 DEF Received
      <3>3. QED
        BY <1>3, <1>4, <1>7, <3>1, <3>2
    <2>3. QED
      BY <2>1, <2>2
  <1>9. \A u \in Pes : queue'[u] \in R[u] \cup {Tail, Null}
    <2> TAKE u \in Pes
    <2>1. queue[u] \in S[u] \cup {Tail, Null}
      BY DEF Received
    <2>2. CASE u = t
      BY <1>1, <1>4, <1>6, <2>2 DEF BlocksTypeOK
    <2>3. CASE u # t
      BY <1>1, <1>4, <1>7, <2>1, <2>3 DEF BlocksTypeOK
    <2>4. QED
      BY <2>2, <2>3
  <1>10. \A q \in Pes :
           /\ pc'[q] = "enqueue_swap" => head'[q] \in R[Theirs(q)] \cup {Tail}
           /\ pc'[q] = "dequeue_swap" => head'[q] \in R[q]
    <2> TAKE q \in Pes
    <2>1. CASE q = p
      BY <1>4, <2>1
    <2>2. CASE q # p
      <3>1. pc'[q] = pc[q] /\ head'[q] = head[q] /\ Theirs(q) \in Pes
        BY <1>4, <2>2, ConstantFacts
      <3>2. /\ pc[q] = "enqueue_swap" => head[q] \in S[Theirs(q)] \cup {Tail}
            /\ pc[q] = "dequeue_swap" => head[q] \in S[q]
        BY DEF Received
      <3>3. QED
        BY <1>7, <3>1, <3>2
    <2>3. QED
      BY <2>1, <2>2
  <1>11. \A q \in Pes : HandsOver(q)' => q # p /\ HandsOver(q) /\ blk[q] # a
    BY <1>3, <1>4 DEF HandsOver
  <1>12. \A q \in Pes : HandsOver(q)' =>
           /\ blk'[q] \in Blocks /\ used'[blk'[q]]
           /\ \A u \in Pes : blk'[q] \notin R[u]
           /\ \A u \in Pes : HandsOver(u)' /\ blk'[u] = blk'[q] => u = q
    <2> TAKE q \in Pes
    <2> HAVE HandsOver(q)'
    <2>1. HandsOver(q) /\ blk[q] # a
      BY <1>11
    <2>2. /\ blk[q] \in Blocks /\ used[blk[q]] /\ \A u \in Pes : blk[q] \notin S[u]
          /\ \A u \in Pes : HandsOver(u) /\ blk[u] = blk[q] => u = q
      BY <2>1 DEF Received
    <2>3. QED
      BY <1>4, <1>7, <1>11, <2>1, <2>2
  <1>13. Received(R)'
    BY <1>8, <1>9, <1>10, <1>12 DEF Received
  <1>14. Marks(R)'
    <2>1. \A q \in Pes : Done(q) => Done(q)'
      BY <1>4 DEF Done
    <2>2. \A q \in Pes : HandsOver(q)' /\ last'[blk'[q]] => i'[q] = NumMsgs
      BY <1>4, <1>11 DEF Marks
    <2>3. ASSUME NEW q \in Pes, NEW b \in R[Theirs(q)], last[b]
          PROVE  Done(q)'
      <3>1. CASE b \in S[Theirs(q)]
        BY <2>1, <2>3, <3>1 DEF Marks
      <3>2. CASE b \notin S[Theirs(q)]
        <4>1. b = a /\ Theirs(q) = t
          BY <1>6, <3>2, ConstantFacts
        <4>2. q = p
          BY <1>2, <4>1, RingFacts
        <4>3. i[p] = NumMsgs
          BY <1>3, <2>3, <4>1 DEF Marks
        <4>4. ~(i[p] < NumMsgs)
          BY <4>3, ConstantFacts
        <4>5. QED
          BY <1>4, <4>2, <4>4 DEF Done
      <3>3. QED
        BY <3>1, <3>2
    <2>4. \A q \in Pes : pc'[Theirs(q)] = "exit" => pc[Theirs(q)] = "exit"
      BY <1>4, ConstantFacts
    <2>5. \A q \in Pes : pc[Theirs(q)] = "exit" => Done(q)
      BY DEF Marks
    <2>6. last' \in [Blocks -> BOOLEAN]
      BY DEF Marks
    <2>7. QED
      BY <2>1, <2>2, <2>3, <2>4, <2>5, <2>6 DEF Marks
  <1>15. QED
    BY <1>13, <1>14

LEMMA MarkersMoves ==
  ASSUME Typed, FreeLists, NEW S \in [Pes -> SUBSET Blocks], Received(S), Marks(S),
         NEW p \in Pes, BasicPe(p)
  PROVE  \E R \in [Pes -> SUBSET Blocks] : Received(R)' /\ Marks(R)'
  <1>1. Typed!2 /\ Typed!3 /\ Typed!4
    BY DEF Typed
  <1>2. CASE (\E src \in Pes : pc[p] = "init" /\ HandleInitiate(p, src) /\ UNCHANGED basicVars)
             \/ HandleRun(p)
    <2>1. /\ pc[p] = "init" /\ pc'[p] \in {"init", "lput"}
          /\ \A q \in Pes \ {p} : pc'[q] = pc[q]
          /\ UNCHANGED <<queue, next, used, i, blk, head, last>>
      BY <1>1, <1>2 DEF HandleInitiate, HandleRun, GoTo, shared, basicVars
    <2>2. \A t \in Pes : queue'[t] \in S[t] \cup {Tail, Null}
      BY <2>1 DEF Received
    <2>3. Received(S)' /\ Marks(S)'
      BY <2>1, <2>2, MarkersKept DEF HandsOver, Done
    <2>4. QED
      BY <2>3
  <1>3. CASE Populate(p)
    <2>1. /\ pc[p] \in {"lput", "lput_swap"} /\ pc'[p] \in {"lput", "lput_swap", "ralloc"}
          /\ \A q \in Pes \ {p} : /\ pc'[q] = pc[q] /\ head'[q] = head[q]
                                  /\ blk'[q] = blk[q] /\ i'[q] = i[q]
          /\ UNCHANGED <<queue, used, last>>
      BY <1>1, <1>3 DEF Populate, Lput, LputSwap, GoTo, basicVars, BlocksTypeOK
    <2>2. \A b \in Blocks : used[b] => next'[b] = next[b]
      <3>1. CASE pc[p] = "lput"
        BY <1>3, <3>1 DEF Populate, Lput, LputSwap
      <3>2. CASE pc[p] = "lput_swap"
        <4>1. next' = [next EXCEPT ![blk[p]] = head[p]]
          BY <1>3, <3>2 DEF Populate, Lput, LputSwap
        <4>2. PICK F, O \in SUBSET Blocks : Shape(F, O)
          BY DEF FreeLists
        <4>3. blk[p] = BlockOf(p, i[p]) /\ i[p] \in i[p] .. PoolSize
          BY <3>2, <4>2, ConstantFacts DEF Shape, Apart, Typed, Putting
        <4>4. ~used[blk[p]]
          BY <3>2, <4>2, <4>3 DEF Shape, Apart, Putting
        <4>5. QED
          BY <1>1, <4>1, <4>4 DEF BlocksTypeOK
      <3>3. QED
        BY <2>1, <3>1, <3>2
    <2>3. \A t \in Pes : queue'[t] \in S[t] \cup {Tail, Null}
      BY <2>1 DEF Received
    <2>4. Received(S)' /\ Marks(S)'
      BY <2>1, <2>2, <2>3, MarkersKept DEF HandsOver, Done
    <2>5. QED
      BY <2>4
  <1>4. CASE (\E s \in Sizes : Ralloc(p, s)) /\ UNCHANGED basicVars
    <2>1. /\ pc[p] = "ralloc" /\ pc'[p] \in {"ralloc_back", "ralloc_swap"}
          /\ \A q \in Pes \ {p} : pc'[q] = pc[q] /\ head'[q] = head[q]
          /\ UNCHANGED <<queue, next, used, i, blk, last>>
      BY <1>1, <1>4 DEF Ralloc, GoTo, basicVars, BlocksTypeOK
    <2>2. \A t \in Pes : queue'[t] \in S[t] \cup {Tail, Null}
      BY <2>1 DEF Received
    <2>3. Received(S)' /\ Marks(S)'
      BY <2>1, <2>2, MarkersKept DEF HandsOver, Done
    <2>4. QED
      BY <2>3
  <1>5. CASE PoolAndQueueCall(p) /\ UNCHANGED basicVars
    <2>1. /\ \/ pc[p] = "ralloc_back" /\ pc'[p] = "ralloc"
             \/ pc[p] = "enqueue" /\ pc'[p] = "enqueue_swap" /\ head'[p] = queue[Theirs(p)]
                /\ queue[Theirs(p)] # Null
             \/ pc[p] = "dequeue" /\ queue[p] # Null /\ head'[p] = queue[p]
                /\ pc'[p] = IF queue[p] = Tail THEN "dequeue_back" ELSE "dequeue_swap"
             \/ pc[p] = "dequeue_back" /\ pc'[p] = "dequeue"
          /\ \A q \in Pes \ {p} : pc'[q] = pc[q] /\ head'[q] = head[q]
          /\ \A t \in Pes : queue'[t] \in {queue[t], Tail, Null}
          /\ UNCHANGED <<next, used, i, blk, last>>
      BY <1>1, <1>5 DEF PoolAndQueueCall, RallocBack, Enqueue, Dequeue, DequeueBack, GoTo,
                        basicVars, BlocksTypeOK
    <2>2. \A t \in Pes : queue[t] \in S[t] \cup {Tail, Null}
      BY DEF Received
    <2>3. /\ pc'[p] = "enqueue_swap" => head'[p] \in S[Theirs(p)] \cup {Tail}
          /\ pc'[p] = "dequeue_swap" => head'[p] \in S[p]
      BY <2>1, <2>2, ConstantFacts
    <2>4. /\ HandsOver(p)' => HandsOver(p)
          /\ Done(p) => Done(p)'
          /\ pc'[p] # "exit"
      BY <2>1 DEF HandsOver, Done
    <2>5. \A t \in Pes : queue'[t] \in S[t] \cup {Tail, Null}
      BY <2>1, <2>2
    <2>6. Received(S)' /\ Marks(S)'
      BY <2>1, <2>3, <2>4, <2>5, MarkersKept
    <2>7. QED
      BY <2>6
  <1>6. CASE HandleBlock(p)
    <2>1. /\ pc[p] = "dequeue_swap" /\ pc'[p] = (IF last[head[p]] THEN "exit" ELSE "dequeue")
          /\ \A q \in Pes \ {p} : pc'[q] = pc[q] /\ blk'[q] = blk[q]
          /\ queue' = [queue EXCEPT ![p] = next[head[p]]]
          /\ UNCHANGED <<next, used, i, head, last>>
      BY <1>1, <1>6 DEF HandleBlock, DequeueSwap, GoTo, BlocksTypeOK
    <2>2. head[p] \in S[p]
      BY <2>1 DEF Received
    <2>3. \A t \in Pes : queue'[t] \in S[t] \cup {Tail, Null}
      BY <1>1, <2>1, <2>2 DEF Received, BlocksTypeOK
    <2>4. pc'[p] = "exit" => \A q \in Pes : Theirs(q) = p => Done(q)
      BY <2>1, <2>2 DEF Marks
    <2>5. ~HandsOver(p)' /\ Done(p)' /\ pc'[p] # "enqueue_swap" /\ pc'[p] # "dequeue_swap"
      BY <2>1 DEF HandsOver, Done
    <2>6. Received(S)' /\ Marks(S)'
      BY <2>1, <2>3, <2>4, <2>5, MarkersKept
    <2>7. QED
      BY <2>6
  <1>7. CASE FillBlock(p)
    <2>1. ~used[head[p]]
      BY <1>7 DEF FreeLists, Shape, Linked, FillBlock, RallocSwap
    <2>2. QED
      BY <1>7, <2>1, FillMarkers
  <1>8. CASE EnqueueSwap(p, IF i[p] < NumMsgs THEN "ralloc" ELSE "dequeue") /\ UNCHANGED basicVars
    BY <1>8, SendMarkers DEF basicVars
  <1>9. QED
    BY <1>2, <1>3, <1>4, <1>5, <1>6, <1>7, <1>8 DEF BasicPe, SendBlock

LEMMA MarkersInvariant == Spec => []Markers
  <1>1. Init => Markers
    <2> SUFFICES ASSUME Init, program = "basic" PROVE Markers
      BY DEF Markers
    <2>1. PICK S \in [Pes -> SUBSET Blocks] : S = [t \in Pes |-> {}]
      OBVIOUS
    <2>2. \A p \in Pes : pc[p] = "init" /\ Theirs(p) \in Pes
      BY ConstantFacts DEF Init, BlocksInit
    <2>3. Received(S)
      BY <2>1, <2>2 DEF Init, BlocksInit, Received, HandsOver
    <2>4. Marks(S)
      BY <2>1, <2>2 DEF Init, BasicInit, Marks, HandsOver
    <2>5. QED
      BY <2>3, <2>4 DEF Markers
  <1>2. Safe /\ Markers /\ [Next]_vars => Markers'
    <2> SUFFICES ASSUME Safe, Markers, [Next]_vars, program' = "basic" PROVE Markers'
      BY DEF Markers
    <2>1. program = "basic" /\ Typed /\ FreeLists
      BY DEF Safe, Next, Pe, Exited, vars
    <2>2. PICK S \in [Pes -> SUBSET Blocks] : Received(S) /\ Marks(S)
      BY <2>1 DEF Markers
    <2>3. CASE UNCHANGED vars
      <3>1. UNCHANGED <<pc, queue, next, used, i, blk, head, last>>
        BY <2>3 DEF vars, blockVars, shared, basicVars
      <3>2. Received(S)' /\ Marks(S)'
        BY <2>2, <3>1 DEF Received, Marks, HandsOver, Done
      <3>3. QED
        BY <3>2 DEF Markers
    <2>4. CASE \E p \in Pes : Pe(p)
      <3>1. PICK p \in Pes : BasicPe(p)
        BY <2>1, <2>4 DEF Pe
      <3>2. \E R \in [Pes -> SUBSET Blocks] : Received(R)' /\ Marks(R)'
        BY <2>1, <2>2, <3>1, MarkersMoves
      <3>3. QED
        BY <3>2 DEF Markers
    <2>5. QED
      BY <2>3, <2>4 DEF Next, Exited
  <1>3. QED
    BY <1>1, <1>2, SafeInvariant, PTL DEF Spec

(***************************************************************************)
(* When a PE has exited, the PE that takes blocks from its pool and puts   *)
(* them into its queue makes no call on them any more, in both programs.   *)
(***************************************************************************)
THEOREM ExitsAfterPeer == Spec => []ExitAfterPeer
  <1>1. Typed /\ Ball /\ Markers => ExitAfterPeer
    <2> SUFFICES ASSUME Typed, Ball, Markers, NEW p \in Pes, pc[Theirs(p)] = "exit"
                 PROVE  pc[p] \in {"dequeue", "dequeue_back", "dequeue_swap", "idle", "exit"}
      BY DEF ExitAfterPeer
    <2>1. CASE program = "basic"
      BY <2>1 DEF Markers, Marks, Done
    <2>2. CASE program # "basic"
      <3>1. Theirs(p) \in Pes /\ Ping
        BY <2>2, ConstantFacts DEF Ball
      <3>2. Ended
        BY <3>1, NotAtAlloc DEF Sending
      <3>3. QED
        BY <3>2 DEF Ended
    <2>3. QED
      BY <2>1, <2>2
  <1>2. Safe => Typed
    BY DEF Safe
  <1>3. QED
    BY <1>1, <1>2, BallInvariant, MarkersInvariant, SafeInvariant, PTL

-----------------------------------------------------------------------------
(***************************************************************************)
(* Threads.  hd gives each list its head, nx each block its link, w says   *)
(* in which place a block is, and dp how many blocks follow it in its      *)
(* list: a list is its head and what follows, each block once.             *)
(***************************************************************************)
InList(b, hd, nx, w, dp) ==
  /\ hd[w[b]] \in Blocks /\ dp[b] <= dp[hd[w[b]]]
  /\ IF nx[b] \in Blocks THEN w[nx[b]] = w[b] /\ dp[b] = dp[nx[b]] + 1
     ELSE nx[b] = Tail /\ dp[b] = 0
  /\ \A c \in Blocks : w[c] = w[b] /\ dp[c] = dp[b] => c = b
  /\ \A d \in 0 .. dp[b] - 1 : \E c \in Blocks : w[c] = w[b] /\ dp[c] = d

Thread(hd, nx, w, dp) ==
  /\ \A l \in Lists : hd[l] \in Blocks => w[hd[l]] = l
  /\ \A b \in Blocks : w[b] \in Lists => InList(b, hd, nx, w, dp)

(* A list is taken or given back as a whole: its blocks are in m, not in l. *)
Moved(w, l, m) == [b \in Blocks |-> IF w[b] = l THEN m ELSE w[b]]

LEMMA MoveList ==
  ASSUME NEW hd, NEW hd2, NEW nx, NEW w, NEW dp \in [Blocks -> Nat], Thread(hd, nx, w, dp),
         NEW l \in Lists, NEW m \in Lists, l # m, hd[m] \notin Blocks,
         hd2[l] \notin Blocks, hd2[m] = hd[l],
         \A k \in Lists \ {l, m} : hd2[k] = hd[k]
  PROVE  Thread(hd2, nx, Moved(w, l, m), dp)
  <1> DEFINE v == Moved(w, l, m)
  <1>1. \A b \in Blocks : v[b] = IF w[b] = l THEN m ELSE w[b]
    BY DEF Moved
  <1>2. \A b \in Blocks : w[b] # m
    BY DEF Thread, InList
  <1> HIDE DEF v
  <1>3. \A b, c \in Blocks : v[b] = v[c] <=> w[b] = w[c]
    BY <1>1, <1>2
  <1>4. ASSUME NEW k \in Lists, hd2[k] \in Blocks
        PROVE  v[hd2[k]] = k
    <2>1. CASE k = m
      BY <1>1, <1>4, <2>1 DEF Thread
    <2>2. CASE k # m
      <3>1. k # l /\ hd2[k] = hd[k]
        BY <1>4, <2>2
      <3>2. w[hd[k]] = k
        BY <1>4, <3>1 DEF Thread
      <3>3. QED
        BY <1>1, <1>4, <3>1, <3>2
    <2>3. QED
      BY <2>1, <2>2
  <1>5. ASSUME NEW b \in Blocks, v[b] \in Lists
        PROVE  InList(b, hd2, nx, v, dp)
    <2>1. w[b] \in Lists /\ hd2[v[b]] = hd[w[b]]
      BY <1>1, <1>2, <1>5
    <2>2. InList(b, hd, nx, w, dp)
      BY <2>1 DEF Thread
    <2>3. QED
      BY <1>3, <2>1, <2>2 DEF InList
  <1>6. QED
    BY <1>4, <1>5 DEF Thread, v

(* A block in no list becomes the head of l. *)
Pushed(hd, hd2, nx, nx2, w, v, l, b) ==
  /\ w[b] \notin Lists /\ hd[l] \in Blocks \cup {Tail}
  /\ nx2[b] = hd[l] /\ \A c \in Blocks \ {b} : nx2[c] = nx[c]
  /\ hd2[l] = b /\ \A k \in Lists \ {l} : hd2[k] = hd[k]
  /\ v[b] = l /\ \A c \in Blocks \ {b} : v[c] = w[c]

LEMMA PushFront ==
  ASSUME NEW hd, NEW hd2, NEW nx, NEW nx2, NEW w, NEW v, NEW dp \in [Blocks -> Nat],
         Thread(hd, nx, w, dp), NEW l \in Lists, NEW b \in Blocks,
         Pushed(hd, hd2, nx, nx2, w, v, l, b)
  PROVE  \E e \in [Blocks -> Nat] : Thread(hd2, nx2, v, e)
  <1> USE DEF Pushed
  <1>1. PICK n \in Nat : n = IF hd[l] \in Blocks THEN dp[hd[l]] + 1 ELSE 0
    OBVIOUS
  <1>2. PICK e \in [Blocks -> Nat] : e[b] = n /\ \A c \in Blocks \ {b} : e[c] = dp[c]
    <2> DEFINE f == [dp EXCEPT ![b] = n]
    <2>1. f \in [Blocks -> Nat] /\ f[b] = n /\ \A c \in Blocks \ {b} : f[c] = dp[c]
      OBVIOUS
    <2>2. QED
      BY <2>1
  <1>3. Tail \notin Blocks
    BY ConstantFacts
  <1>4. ASSUME NEW k \in Lists, hd2[k] \in Blocks
        PROVE  v[hd2[k]] = k
    <2>1. CASE k = l
      BY <2>1
    <2>2. CASE k # l
      <3>1. hd2[k] = hd[k] /\ w[hd[k]] = k
        BY <1>4, <2>2 DEF Thread
      <3>2. hd[k] \in Blocks \ {b}
        BY <1>4, <3>1
      <3>3. QED
        BY <3>1, <3>2
    <2>3. QED
      BY <2>1, <2>2
  <1>5. ASSUME NEW c \in Blocks \ {b}, w[c] = l
        PROVE  dp[c] < n /\ hd[l] \in Blocks \ {b} /\ dp[hd[l]] + 1 = n
    <2>1. InList(c, hd, nx, w, dp)
      BY <1>5 DEF Thread
    <2>2. hd[l] \in Blocks /\ dp[c] <= dp[hd[l]] /\ w[hd[l]] = l
      BY <1>5, <2>1 DEF Thread, InList
    <2>3. QED
      BY <1>1, <2>2
  <1>6. InList(b, hd2, nx2, v, e)
    <2>1. IF nx2[b] \in Blocks THEN v[nx2[b]] = v[b] /\ e[b] = e[nx2[b]] + 1
          ELSE nx2[b] = Tail /\ e[b] = 0
      <3>1. CASE hd[l] \in Blocks
        <4>1. w[hd[l]] = l /\ hd[l] \in Blocks \ {b}
          BY <3>1 DEF Thread
        <4>2. QED
          BY <1>1, <1>2, <3>1, <4>1
      <3>2. CASE hd[l] \notin Blocks
        BY <1>1, <1>2, <3>2
      <3>3. QED
        BY <3>1, <3>2
    <2>2. \A c \in Blocks : v[c] = v[b] /\ e[c] = e[b] => c = b
      BY <1>2, <1>5
    <2>3. ASSUME NEW d \in 0 .. e[b] - 1
          PROVE  \E c \in Blocks : v[c] = v[b] /\ e[c] = d
      <3>1. hd[l] \in Blocks /\ n = dp[hd[l]] + 1 /\ d <= dp[hd[l]]
        BY <1>1, <1>2, <2>3
      <3>2. w[hd[l]] = l /\ hd[l] \in Blocks \ {b}
        BY <3>1 DEF Thread
      <3>3. CASE d = dp[hd[l]]
        BY <1>2, <3>2, <3>3
      <3>4. CASE d # dp[hd[l]]
        <4>1. d \in 0 .. dp[hd[l]] - 1
          BY <3>1, <3>4
        <4>2. InList(hd[l], hd, nx, w, dp)
          BY <3>1, <3>2 DEF Thread
        <4>3. PICK c \in Blocks : w[c] = l /\ dp[c] = d
          BY <3>2, <4>1, <4>2 DEF InList
        <4>4. c # b
          BY <4>3
        <4>5. QED
          BY <1>2, <4>3, <4>4
      <3>5. QED
        BY <3>3, <3>4
    <2>4. hd2[v[b]] \in Blocks /\ e[b] <= e[hd2[v[b]]]
      BY <1>2
    <2>5. QED
      BY <2>1, <2>2, <2>3, <2>4 DEF InList
  <1>7. ASSUME NEW c \in Blocks \ {b}, v[c] \in Lists
        PROVE  InList(c, hd2, nx2, v, e)
    <2>1. w[c] \in Lists /\ v[c] = w[c] /\ e[c] = dp[c] /\ nx2[c] = nx[c]
      BY <1>2, <1>7
    <2>2. InList(c, hd, nx, w, dp)
      BY <2>1 DEF Thread
    <2>3. hd2[v[c]] \in Blocks /\ e[c] <= e[hd2[v[c]]]
      <3>1. CASE w[c] = l
        BY <1>2, <1>5, <2>1, <3>1
      <3>2. CASE w[c] # l
        <4>1. hd2[w[c]] = hd[w[c]] /\ hd[w[c]] \in Blocks /\ dp[c] <= dp[hd[w[c]]]
          BY <2>1, <2>2, <3>2 DEF InList
        <4>2. hd[w[c]] # b
          BY <2>1, <4>1 DEF Thread
        <4>3. QED
          BY <1>2, <2>1, <4>1, <4>2
      <3>3. QED
        BY <3>1, <3>2
    <2>4. IF nx2[c] \in Blocks THEN v[nx2[c]] = v[c] /\ e[c] = e[nx2[c]] + 1
          ELSE nx2[c] = Tail /\ e[c] = 0
      <3>1. CASE nx[c] \in Blocks
        <4>1. w[nx[c]] = w[c] /\ dp[c] = dp[nx[c]] + 1
          BY <2>2, <3>1 DEF InList
        <4>2. nx[c] # b
          BY <2>1, <4>1
        <4>3. QED
          BY <1>2, <2>1, <3>1, <4>1, <4>2
      <3>2. CASE nx[c] \notin Blocks
        BY <1>2, <2>1, <2>2, <3>2 DEF InList
      <3>3. QED
        BY <3>1, <3>2
    <2>5. \A a \in Blocks : v[a] = v[c] /\ e[a] = e[c] => a = c
      <3> TAKE a \in Blocks
      <3>1. CASE a = b
        BY <1>2, <1>5, <2>1, <3>1
      <3>2. CASE a # b
        BY <1>2, <2>1, <2>2, <3>2 DEF InList
      <3>3. QED
        BY <3>1, <3>2
    <2>6. ASSUME NEW d \in 0 .. e[c] - 1
          PROVE  \E a \in Blocks : v[a] = v[c] /\ e[a] = d
      <3>1. PICK a \in Blocks : w[a] = w[c] /\ dp[a] = d
        BY <2>1, <2>2, <2>6 DEF InList
      <3>2. a # b
        BY <2>1, <3>1
      <3>3. QED
        BY <1>2, <2>1, <3>1, <3>2
    <2>7. QED
      BY <2>3, <2>4, <2>5, <2>6 DEF InList
  <1>8. Thread(hd2, nx2, v, e)
    BY <1>4, <1>6, <1>7 DEF Thread
  <1>9. QED
    BY <1>8

(* The head of l leaves it. *)
LEMMA PopFront ==
  ASSUME NEW hd, NEW hd2, NEW nx, NEW w, NEW dp \in [Blocks -> Nat],
         Thread(hd, nx, w, dp), NEW l \in Lists, NEW b \in Blocks, hd[l] = b,
         hd2[l] = nx[b], \A k \in Lists \ {l} : hd2[k] = hd[k],
         NEW v, v[b] \notin Lists, \A c \in Blocks \ {b} : v[c] = w[c]
  PROVE  Thread(hd2, nx, v, dp)
  <1>1. w[b] = l /\ InList(b, hd, nx, w, dp)
    BY DEF Thread
  <1>2. ASSUME NEW c \in Blocks \ {b}, w[c] = l
        PROVE  /\ dp[c] < dp[b] /\ nx[b] \in Blocks \ {b}
               /\ w[nx[b]] = l /\ dp[nx[b]] + 1 = dp[b]
    <2>1. InList(c, hd, nx, w, dp)
      BY <1>2 DEF Thread
    <2>2. dp[c] <= dp[b] /\ dp[c] # dp[b]
      BY <1>1, <1>2, <2>1 DEF InList
    <2>3. nx[b] \in Blocks /\ w[nx[b]] = l /\ dp[nx[b]] + 1 = dp[b]
      BY <1>1, <2>2 DEF InList
    <2>4. QED
      BY <2>2, <2>3
  <1>3. ASSUME NEW k \in Lists, hd2[k] \in Blocks
        PROVE  v[hd2[k]] = k
    <2>1. CASE k = l
      <3>1. nx[b] \in Blocks /\ w[nx[b]] = l /\ dp[b] = dp[nx[b]] + 1
        BY <1>1, <1>3, <2>1 DEF InList
      <3>2. nx[b] # b
        BY <3>1
      <3>3. QED
        BY <2>1, <3>1, <3>2
    <2>2. CASE k # l
      <3>1. hd[k] = hd2[k] /\ w[hd[k]] = k
        BY <1>3, <2>2 DEF Thread
      <3>2. hd[k] # b
        BY <1>1, <2>2, <3>1
      <3>3. QED
        BY <1>3, <3>1, <3>2
    <2>3. QED
      BY <2>1, <2>2
  <1>4. ASSUME NEW c \in Blocks, v[c] \in Lists
        PROVE  InList(c, hd2, nx, v, dp)
    <2>1. c # b /\ v[c] = w[c] /\ w[c] \in Lists
      BY <1>4
    <2>2. InList(c, hd, nx, w, dp)
      BY <2>1 DEF Thread
    <2>3. hd2[v[c]] \in Blocks /\ dp[c] <= dp[hd2[v[c]]]
      <3>1. CASE w[c] = l
        BY <1>2, <2>1, <3>1
      <3>2. CASE w[c] # l
        BY <2>1, <2>2, <3>2 DEF InList
      <3>3. QED
        BY <3>1, <3>2
    <2>4. IF nx[c] \in Blocks THEN v[nx[c]] = v[c] /\ dp[c] = dp[nx[c]] + 1
          ELSE nx[c] = Tail /\ dp[c] = 0
      <3>1. CASE nx[c] \in Blocks
        <4>1. w[nx[c]] = w[c] /\ dp[c] = dp[nx[c]] + 1
          BY <2>2, <3>1 DEF InList
        <4>2. nx[c] # b
          BY <1>1, <1>2, <2>1, <4>1
        <4>3. QED
          BY <2>1, <3>1, <4>1, <4>2
      <3>2. CASE nx[c] \notin Blocks
        BY <2>2, <3>2 DEF InList
      <3>3. QED
        BY <3>1, <3>2
    <2>5. \A a \in Blocks : v[a] = v[c] /\ dp[a] = dp[c] => a = c
      <3> TAKE a \in Blocks
      <3>1. CASE a = b
        BY <1>4, <3>1
      <3>2. CASE a # b
        BY <2>1, <2>2, <3>2 DEF InList
      <3>3. QED
        BY <3>1, <3>2
    <2>6. ASSUME NEW d \in 0 .. dp[c] - 1
          PROVE  \E a \in Blocks : v[a] = v[c] /\ dp[a] = d
      <3>1. PICK a \in Blocks : w[a] = w[c] /\ dp[a] = d
        BY <2>2 DEF InList
      <3>2. a # b
        BY <1>1, <1>2, <2>1, <3>1
      <3>3. QED
        BY <2>1, <3>1, <3>2
    <2>7. QED
      BY <2>3, <2>4, <2>5, <2>6 DEF InList
  <1>5. QED
    BY <1>3, <1>4 DEF Thread

(* A block in no list goes to another place that is no list. *)
LEMMA Relabel ==
  ASSUME NEW hd, NEW nx, NEW w, NEW dp, Thread(hd, nx, w, dp),
         NEW b \in Blocks, w[b] \notin Lists,
         NEW v, v[b] \notin Lists, \A c \in Blocks \ {b} : v[c] = w[c]
  PROVE  Thread(hd, nx, v, dp)
  <1>1. \A l \in Lists : hd[l] \in Blocks => v[hd[l]] = l
    <2> TAKE l \in Lists
    <2> HAVE hd[l] \in Blocks
    <2>1. w[hd[l]] = l /\ hd[l] # b
      BY DEF Thread
    <2>2. QED
      BY <2>1
  <1>2. ASSUME NEW c \in Blocks, v[c] \in Lists
        PROVE  InList(c, hd, nx, v, dp)
    <2>1. c # b /\ v[c] = w[c] /\ InList(c, hd, nx, w, dp)
      BY <1>2 DEF Thread
    <2>2. \A a \in Blocks : v[a] = v[c] <=> w[a] = w[c]
      BY <1>2, <2>1
    <2>3. QED
      BY <2>1, <2>2 DEF InList
  <1>3. QED
    BY <1>1, <1>2 DEF Thread

-----------------------------------------------------------------------------
(* Chain(b) is a recursive function, which TLA+ defines by CHOOSE. *)
Walk(g, b) == g = [k \in 0 .. NPes * PoolSize |-> IF k = 0 THEN b ELSE Follow(g[k - 1])]

LEMMA ChainIsChosen ==
  \A b : Chain(b) = {(CHOOSE g : Walk(g, b))[k] : k \in DOMAIN (CHOOSE g : Walk(g, b))} \cap Blocks
  BY DEF Chain, Walk

(* A set of subsets of a finite set has a smallest member. *)
LEMMA SmallestSubset ==
  ASSUME NEW S, IsFiniteSet(S), NEW T \in SUBSET SUBSET S, T # {}
  PROVE  \E A \in T : \A B \in T : B \subseteq A => B = A
  <1>1. IsWellFoundedOn(StrictSubsetOrdering(S), SUBSET S)
    BY FS_StrictSubsetOrderingWellFounded, FS_FiniteSubsetsOfFinite
  <1>2. PICK A \in T : \A B \in T : ~(<<B, A>> \in StrictSubsetOrdering(S))
    BY <1>1, WFMin
  <1>3. \A B \in T : B \subseteq A => B = A
    BY <1>2 DEF StrictSubsetOrdering
  <1>4. QED
    BY <1>3

LEMMA SmallestNumber ==
  ASSUME NEW n \in Nat, NEW I \in SUBSET (1 .. n), I # {}
  PROVE  \E k \in I : \A j \in I : k <= j
  <1> DEFINE T == {1 .. k : k \in I}
             M == 1 .. n
  <1>1. IsFiniteSet(M)
    BY FS_Interval
  <1>2. T \in SUBSET SUBSET M /\ T # {}
    <2>1. \A k \in I : 1 .. k \in SUBSET M
      OBVIOUS
    <2> HIDE DEF M
    <2>2. QED
      BY <2>1
  <1> HIDE DEF T, M
  <1>3. PICK A \in T : \A B \in T : B \subseteq A => B = A
    BY <1>1, <1>2, SmallestSubset
  <1> USE DEF T
  <1>4. PICK k \in I : A = 1 .. k
    OBVIOUS
  <1>5. ASSUME NEW j \in I
        PROVE  k <= j
    <2>1. SUFFICES ASSUME j < k PROVE FALSE
      OBVIOUS
    <2>2. 1 .. j \in T /\ 1 .. j \subseteq A
      BY <1>4, <2>1
    <2>3. 1 .. j = A
      BY <1>3, <2>2
    <2>4. k \in 1 .. k /\ k \notin 1 .. j
      BY <2>1
    <2>5. QED
      BY <1>4, <2>3, <2>4
  <1>6. QED
    BY <1>5

LEMMA WalksAgree ==
  ASSUME NEW b, NEW f, NEW g, Walk(f, b), Walk(g, b)
  PROVE  f = g
  <1>1. PICK n \in Nat : n = NPes * PoolSize
    BY BlocksAssumption
  <1>2. /\ f[0] = b /\ g[0] = b
        /\ \A k \in 1 .. n : f[k] = Follow(f[k - 1]) /\ g[k] = Follow(g[k - 1])
    BY <1>1 DEF Walk
  <1>3. \A k \in 1 .. n : f[k] = g[k]
    <2> DEFINE I == {k \in 1 .. n : f[k] # g[k]}
    <2>1. SUFFICES ASSUME I # {} PROVE FALSE
      OBVIOUS
    <2> HIDE DEF I
    <2>2. PICK k \in I : \A j \in I : k <= j
      <3>1. I \in SUBSET (1 .. n)
        BY DEF I
      <3>2. QED
        BY <2>1, <3>1, SmallestNumber
    <2>3. k \in 1 .. n /\ f[k] # g[k]
      BY DEF I
    <2>4. f[k - 1] = g[k - 1]
      <3>1. CASE k = 1
        BY <1>2, <3>1
      <3>2. CASE k # 1
        <4>1. k - 1 \in 1 .. n /\ ~(k <= k - 1)
          BY <2>3, <3>2
        <4>2. k - 1 \notin I
          BY <2>2, <4>1
        <4>3. QED
          BY <4>1, <4>2 DEF I
      <3>3. QED
        BY <3>1, <3>2
    <2>5. QED
      BY <1>2, <2>3, <2>4
  <1>4. \A k \in 0 .. n : f[k] = g[k]
    BY <1>2, <1>3
  <1>5. QED
    BY <1>1, <1>4 DEF Walk

LEMMA ChainOf ==
  ASSUME NEW b, NEW f, Walk(f, b)
  PROVE  Chain(b) = {f[k] : k \in 0 .. NPes * PoolSize} \cap Blocks
  <1>1. PICK g : g = CHOOSE h : Walk(h, b)
    OBVIOUS
  <1>2. Walk(g, b)
    BY <1>1
  <1>3. g = f
    BY <1>2, WalksAgree
  <1>4. DOMAIN f = 0 .. NPes * PoolSize
    BY DEF Walk
  <1>5. Chain(b) = {f[k] : k \in DOMAIN f} \cap Blocks
    BY <1>1, <1>3, ChainIsChosen
  <1>6. QED
    BY <1>4, <1>5

(* Fewer blocks follow the head of a list than there are. *)
LEMMA ShortLists ==
  ASSUME NEW hd, NEW nx, NEW w, NEW dp \in [Blocks -> Nat], Thread(hd, nx, w, dp),
         NEW l \in Lists, hd[l] \in Blocks
  PROVE  dp[hd[l]] < NPes * PoolSize
  <1>1. PICK n \in Nat : n = NPes * PoolSize
    BY BlocksAssumption
  <1>2. PICK m \in Nat : m = dp[hd[l]]
    OBVIOUS
  <1>3. w[hd[l]] = l /\ InList(hd[l], hd, nx, w, dp)
    BY DEF Thread
  <1>4. \A d \in 0 .. m : \E c \in Blocks : w[c] = l /\ dp[c] = d
    <2> TAKE d \in 0 .. m
    <2>1. CASE d = m
      BY <1>2, <1>3, <2>1
    <2>2. CASE d # m
      <3>1. d \in 0 .. dp[hd[l]] - 1
        BY <1>2, <2>2
      <3>2. QED
        BY <1>3, <3>1 DEF InList
    <2>3. QED
      BY <2>1, <2>2
  <1> DEFINE At(d) == CHOOSE c \in Blocks : w[c] = l /\ dp[c] = d
             f == [d \in 0 .. m |-> At(d)]
  <1>5. \A d \in 0 .. m : At(d) \in Blocks /\ dp[At(d)] = d
    BY <1>4
  <1> HIDE DEF At
  <1>6. f \in [0 .. m -> Blocks]
    BY <1>5
  <1>7. \A d, e \in 0 .. m : f[d] = f[e] => d = e
    BY <1>5
  <1>8. f \in Injection(0 .. m, Blocks)
    BY <1>6, <1>7 DEF Injection, IsInjective
  <1>9. IsFiniteSet(Blocks) /\ Cardinality(Blocks) = n
    <2>1. IsFiniteSet(1 .. n) /\ Cardinality(1 .. n) = n
      <3>1. IsFiniteSet(1 .. n) /\ Cardinality(1 .. n) = IF 1 > n THEN 0 ELSE n - 1 + 1
        BY FS_Interval
      <3>2. QED
        BY <3>1
    <2>2. QED
      BY <1>1, <2>1 DEF Blocks
  <1>10. Cardinality(0 .. m) = m + 1
    <2>1. Cardinality(0 .. m) = IF 0 > m THEN 0 ELSE m - 0 + 1
      BY FS_Interval
    <2>2. QED
      BY <2>1
  <1>11. Cardinality(0 .. m) <= Cardinality(Blocks)
    BY <1>8, <1>9, FS_Injection
  <1>12. QED
    BY <1>1, <1>2, <1>9, <1>10, <1>11

(* Following the links from the head of a list finds its blocks, and no others. *)
LEMMA ChainOfList ==
  ASSUME NEW hd, NEW w, NEW dp \in [Blocks -> Nat], Thread(hd, next, w, dp), NEW l \in Lists
  PROVE  Chain(hd[l]) = {b \in Blocks : w[b] = l}
  <1>1. PICK n \in Nat : n = NPes * PoolSize
    BY BlocksAssumption
  <1>2. Tail \notin Blocks
    BY ConstantFacts
  <1>3. CASE hd[l] \notin Blocks
    <2> DEFINE f == [k \in 0 .. n |-> hd[l]]
    <2>1. Walk(f, hd[l])
      <3>1. f = [k \in 0 .. n |-> IF k = 0 THEN hd[l] ELSE Follow(f[k - 1])]
        BY <1>3 DEF Follow
      <3>2. QED
        BY <1>1, <3>1 DEF Walk
    <2>2. Chain(hd[l]) = {f[k] : k \in 0 .. n} \cap Blocks
      BY <1>1, <2>1, ChainOf
    <2>3. \A b \in Blocks : w[b] # l
      BY <1>3 DEF Thread, InList
    <2>4. QED
      BY <1>3, <2>2, <2>3
  <1>4. CASE hd[l] \in Blocks
    <2>1. PICK m \in Nat : m = dp[hd[l]] /\ m < n
      BY <1>1, <1>4, ShortLists
    <2>2. w[hd[l]] = l /\ InList(hd[l], hd, next, w, dp)
      BY <1>4 DEF Thread
    <2>3. \A d \in 0 .. m : \E c \in Blocks : w[c] = l /\ dp[c] = d
      <3> TAKE d \in 0 .. m
      <3>1. CASE d = m
        BY <1>4, <2>1, <2>2, <3>1
      <3>2. CASE d # m
        <4>1. d \in 0 .. dp[hd[l]] - 1
          BY <2>1, <3>2
        <4>2. QED
          BY <2>2, <4>1 DEF InList
      <3>3. QED
        BY <3>1, <3>2
    <2> DEFINE At(d) == CHOOSE c \in Blocks : w[c] = l /\ dp[c] = d
               f == [k \in 0 .. n |-> IF k <= m THEN At(m - k) ELSE Tail]
    <2>4. \A d \in 0 .. m : At(d) \in Blocks /\ w[At(d)] = l /\ dp[At(d)] = d
      BY <2>3
    <2> HIDE DEF At
    <2>5. \A b \in Blocks : w[b] = l => dp[b] \in 0 .. m /\ At(dp[b]) = b
      <3> TAKE b \in Blocks
      <3> HAVE w[b] = l
      <3>1. InList(b, hd, next, w, dp)
        BY DEF Thread
      <3>2. dp[b] \in 0 .. m
        BY <2>1, <3>1 DEF InList
      <3>3. QED
        BY <2>4, <3>1, <3>2 DEF InList
    <2>6. \A k \in 1 .. n : f[k] = Follow(f[k - 1])
      <3> TAKE k \in 1 .. n
      <3>1. k \in 0 .. n /\ k - 1 \in 0 .. n
        OBVIOUS
      <3>2. CASE k <= m
        <4>1. PICK d \in 0 .. m : d = m - k /\ d + 1 = m - (k - 1) /\ d + 1 \in 0 .. m
          BY <3>2
        <4>2. f[k] = At(d) /\ f[k - 1] = At(d + 1)
          BY <3>1, <3>2, <4>1
        <4>3. PICK c \in Blocks : c = At(d + 1) /\ w[c] = l /\ dp[c] = d + 1
          BY <2>4, <4>1
        <4>4. InList(c, hd, next, w, dp)
          BY <4>3 DEF Thread
        <4>5. next[c] \in Blocks /\ w[next[c]] = l /\ dp[next[c]] = d
          BY <4>3, <4>4 DEF InList
        <4>6. next[c] = At(d)
          BY <2>5, <4>5
        <4>7. QED
          BY <4>2, <4>3, <4>6 DEF Follow
      <3>3. CASE k = m + 1
        <4>1. f[k] = Tail /\ f[k - 1] = At(0)
          <5>1. k - 1 = m /\ ~(k <= m) /\ m - m = 0
            BY <3>3
          <5>2. QED
            BY <3>1, <5>1
        <4>2. PICK c \in Blocks : c = At(0) /\ w[c] = l /\ dp[c] = 0
          BY <2>4
        <4>3. InList(c, hd, next, w, dp)
          BY <4>2 DEF Thread
        <4>4. next[c] = Tail
          BY <4>2, <4>3 DEF InList
        <4>5. QED
          BY <4>1, <4>2, <4>4 DEF Follow
      <3>4. CASE k > m + 1
        <4>1. ~(k <= m) /\ ~(k - 1 <= m)
          BY <3>4
        <4>2. f[k] = Tail /\ f[k - 1] = Tail
          BY <3>1, <4>1
        <4>3. QED
          BY <1>2, <4>2 DEF Follow
      <3>5. QED
        BY <3>2, <3>3, <3>4
    <2>7. f[0] = hd[l]
      <3>1. f[0] = At(m)
        OBVIOUS
      <3>2. QED
        BY <1>4, <2>1, <2>2, <2>5, <3>1
    <2>8. f = [k \in 0 .. n |-> IF k = 0 THEN hd[l] ELSE Follow(f[k - 1])]
      <3>1. \A k \in 0 .. n : f[k] = IF k = 0 THEN hd[l] ELSE Follow(f[k - 1])
        <4> HIDE DEF f
        <4> QED
          BY <2>6, <2>7
      <3>2. f = [k \in 0 .. n |-> f[k]]
        OBVIOUS
      <3> HIDE DEF f
      <3>3. QED
        BY <3>1, <3>2
    <2>9. Chain(hd[l]) = {f[k] : k \in 0 .. n} \cap Blocks
      <3> HIDE DEF f
      <3>1. Walk(f, hd[l])
        BY <1>1, <2>8 DEF Walk
      <3>2. QED
        BY <1>1, <3>1, ChainOf
    <2>10. ASSUME NEW b \in Blocks, w[b] = l
           PROVE  \E k \in 0 .. n : f[k] = b
      <3>1. PICK e \in 0 .. m : e = dp[b] /\ At(e) = b
        BY <2>5, <2>10
      <3>2. PICK k \in 0 .. n : k <= m /\ e = m - k
        <4>1. m - e \in 0 .. n /\ m - e <= m /\ e = m - (m - e)
          BY <2>1
        <4>2. QED
          BY <4>1
      <3>3. f[k] = At(m - k)
        BY <3>2
      <3>4. QED
        BY <3>1, <3>2, <3>3
    <2>11. ASSUME NEW k \in 0 .. n, f[k] \in Blocks
           PROVE  w[f[k]] = l
      <3>1. k <= m
        BY <1>2, <2>11
      <3>2. m - k \in 0 .. m
        BY <3>1
      <3>3. QED
        BY <2>4, <3>1, <3>2
    <2> HIDE DEF f
    <2>12. QED
      BY <2>9, <2>10, <2>11
  <1>5. QED
    BY <1>3, <1>4

-----------------------------------------------------------------------------
(* The places, and what the lists have as their heads. *)
Nowhere == <<"nowhere", 0, 0>>
Heads == [l \in Lists |-> HeadOf(l)]

LEMMA PlaceFacts ==
  /\ \A l \in Lists : \/ \E p \in Pes, s \in Sizes : l = PoolList(p, s)
                      \/ \E p \in Pes : l = QueueList(p)
                      \/ \E p \in Pes : l = HeldList(p)
  /\ \A p \in Pes, s \in Sizes : PoolList(p, s) \in Lists
  /\ \A p \in Pes : QueueList(p) \in Lists /\ HeldList(p) \in Lists
  /\ \A p, q, s, r : PoolList(p, s) = PoolList(q, r) => p = q /\ s = r
  /\ \A p, q : QueueList(p) = QueueList(q) => p = q
  /\ \A p, q : HeldList(p) = HeldList(q) => p = q
  /\ \A p, q, s : /\ PoolList(p, s) # QueueList(q) /\ PoolList(p, s) # HeldList(q)
                  /\ QueueList(p) # HeldList(q)
  BY DEF Lists, PoolList, QueueList, HeldList

LEMMA NoListFacts ==
  /\ \A p \in Pes : Hand(p) \in Places \ Lists /\ Aside(p) \in Places \ Lists
  /\ \A p, q : /\ Hand(p) # Aside(q) /\ (Hand(p) = Hand(q) => p = q)
               /\ (Aside(p) = Aside(q) => p = q)
               /\ Hand(p) # Nowhere /\ Aside(p) # Nowhere
  /\ Nowhere \notin Places /\ Lists \subseteq Places
  /\ \A l \in Places \ Lists : \E p \in Pes : l = Hand(p) \/ l = Aside(p)
  <1>1. \A p : Hand(p) \notin Lists /\ Aside(p) \notin Lists /\ Nowhere \notin Lists
    BY DEF Hand, Aside, Nowhere, Lists, PoolList, QueueList, HeldList
  <1>2. \A p, q : /\ Hand(p) # Aside(q) /\ (Hand(p) = Hand(q) => p = q)
                  /\ (Aside(p) = Aside(q) => p = q)
                  /\ Hand(p) # Nowhere /\ Aside(p) # Nowhere
    BY DEF Hand, Aside, Nowhere
  <1>3. QED
    BY <1>1, <1>2 DEF Places

LEMMA HeadFacts ==
  /\ \A p \in Pes, s \in Sizes : /\ HeadOf(PoolList(p, s)) = pool[p][s]
                                 /\ HeadOf(PoolList(p, s))' = pool'[p][s]
  /\ \A p \in Pes : /\ HeadOf(QueueList(p)) = queue[p]
                    /\ HeadOf(QueueList(p))' = queue'[p]
                    /\ HeadOf(HeldList(p)) = (IF Taken(p) THEN head[p] ELSE Tail)
                    /\ HeadOf(HeldList(p))' = (IF Taken(p)' THEN head'[p] ELSE Tail)
  BY DEF HeadOf, PoolList, QueueList, HeldList

-----------------------------------------------------------------------------
(* Where every block is. *)
Fits(w, b) ==
  /\ \A p \in Pes : /\ w[b] = Hand(p) <=> b \in InHand(p)
                    /\ w[b] = Aside(p) <=> b \in Out(p)
  /\ w[b] = Nowhere <=> b \notin BornBlocks

Owned(w) ==
  /\ \A p \in Pes : InHand(p) \subseteq Blocks /\ Out(p) \subseteq Blocks
  /\ \A b \in Blocks : Fits(w, b)

Placed(w, dp) ==
  /\ w \in [Blocks -> Places \cup {Nowhere}] /\ dp \in [Blocks -> Nat]
  /\ Thread(Heads, next, w, dp) /\ Owned(w)

LEMMA PlacedConserved ==
  ASSUME NEW w, NEW dp, Placed(w, dp), BornBlocks \subseteq Blocks
  PROVE  BlocksConserved
  <1> DEFINE out == [p \in Pes |-> Out(p)]
             at(l) == CASE l[1] = "hand"  -> InHand(l[2])
                        [] l[1] = "aside" -> out[l[2]]
                        [] OTHER          -> Chain(HeadOf(l))
             found == UNION {{l} \X at(l) : l \in Places}
  <1>1. \A p \in Pes : at(Hand(p)) = InHand(p) /\ at(Aside(p)) = Out(p)
    BY DEF Hand, Aside
  <1>2. \A l \in Lists : at(l) = Chain(HeadOf(l))
    <2>1. \A l \in Lists : l[1] # "hand" /\ l[1] # "aside"
      BY DEF Lists, PoolList, QueueList, HeldList
    <2>2. QED
      BY <2>1
  <1> HIDE DEF at
  <1>3. \A l \in Places : at(l) = {b \in Blocks : w[b] = l}
    <2> TAKE l \in Places
    <2>1. CASE l \in Lists
      <3>1. Heads[l] = HeadOf(l)
        BY <2>1 DEF Heads
      <3>2. QED
        BY <1>2, <2>1, <3>1, ChainOfList DEF Placed
    <2>2. CASE l \notin Lists
      <3>1. PICK p \in Pes : l = Hand(p) \/ l = Aside(p)
        BY <2>2, NoListFacts
      <3>2. QED
        BY <1>1, <3>1 DEF Placed, Owned, Fits
    <2>3. QED
      BY <2>1, <2>2
  <1>4. \A f : f \in found <=> \E l \in Places, b \in Blocks : w[b] = l /\ f = <<l, b>>
    BY <1>3
  <1> HIDE DEF found
  <1>5. {f[2] : f \in found} = BornBlocks
    <2>1. ASSUME NEW b \in BornBlocks
          PROVE  \E f \in found : f[2] = b
      <3>1. w[b] \in Places
        BY NoListFacts DEF Placed, Owned, Fits
      <3>2. <<w[b], b>> \in found
        BY <1>4, <3>1
      <3>3. QED
        BY <3>2
    <2>2. ASSUME NEW f \in found
          PROVE  f[2] \in BornBlocks
      <3>1. PICK l \in Places, b \in Blocks : w[b] = l /\ f = <<l, b>>
        BY <1>4
      <3>2. w[b] # Nowhere
        BY <3>1, NoListFacts
      <3>3. QED
        BY <3>1, <3>2 DEF Placed, Owned, Fits
    <2>3. QED
      BY <2>1, <2>2
  <1>6. \A f, g \in found : f[2] = g[2] => f = g
    BY <1>4
  <1>7. Conserved(BornBlocks, out)
    <2> USE DEF found, at
    <2>1. QED
      BY <1>5, <1>6 DEF Conserved
  <1>8. QED
    BY <1>7 DEF BlocksConserved

-----------------------------------------------------------------------------
(* A call of p gives list l the head v, and the list p holds the head u. *)
NewHeads(p, l, v, u) ==
  \A m \in Lists : HeadOf(m)' = IF m = l THEN v ELSE IF m = HeldList(p) THEN u ELSE HeadOf(m)

Others(p) == \A q \in Pes \ {p} : pc'[q] = pc[q] /\ head'[q] = head[q]

LEMMA HeldByOthers ==
  ASSUME NEW p \in Pes, Others(p)
  PROVE  \A q \in Pes \ {p} : HeadOf(HeldList(q))' = HeadOf(HeldList(q))
  BY HeadFacts DEF Others, Taken

LEMMA PoolHeads ==
  ASSUME Typed, NEW p \in Pes, NEW t \in Pes, NEW s \in Sizes, NEW v, NEW u, Others(p),
         pool' = [pool EXCEPT ![t][s] = v], queue' = queue,
         u = IF Taken(p)' THEN head'[p] ELSE Tail
  PROVE  NewHeads(p, PoolList(t, s), v, u)
  <1>1. \A a \in Pes, r \in Sizes : pool'[a][r] = IF a = t /\ r = s THEN v ELSE pool[a][r]
    BY DEF Typed, BlocksTypeOK
  <1>2. ASSUME NEW m \in Lists
        PROVE  HeadOf(m)' = IF m = PoolList(t, s) THEN v
                            ELSE IF m = HeldList(p) THEN u ELSE HeadOf(m)
    <2>1. CASE \E a \in Pes, r \in Sizes : m = PoolList(a, r)
      <3>1. PICK a \in Pes, r \in Sizes : m = PoolList(a, r)
        BY <2>1
      <3>2. HeadOf(m)' = pool'[a][r] /\ HeadOf(m) = pool[a][r] /\ m # HeldList(p)
        BY <3>1, HeadFacts, PlaceFacts
      <3>3. m = PoolList(t, s) <=> a = t /\ r = s
        BY <3>1, PlaceFacts
      <3>4. QED
        BY <1>1, <3>2, <3>3
    <2>2. CASE \E a \in Pes : m = QueueList(a)
      BY <2>2, HeadFacts, PlaceFacts
    <2>3. CASE \E q \in Pes : m = HeldList(q)
      <3>1. PICK q \in Pes : m = HeldList(q)
        BY <2>3
      <3>2. m # PoolList(t, s) /\ (m = HeldList(p) <=> q = p)
        BY <3>1, PlaceFacts
      <3>3. CASE q = p
        BY <3>1, <3>2, <3>3, HeadFacts
      <3>4. CASE q # p
        BY <3>1, <3>2, <3>4, HeldByOthers
      <3>5. QED
        BY <3>3, <3>4
    <2>4. QED
      BY <2>1, <2>2, <2>3, PlaceFacts
  <1>3. QED
    BY <1>2 DEF NewHeads

LEMMA QueueHeads ==
  ASSUME Typed, NEW p \in Pes, NEW t \in Pes, NEW v, NEW u, Others(p),
         queue' = [queue EXCEPT ![t] = v], pool' = pool,
         u = IF Taken(p)' THEN head'[p] ELSE Tail
  PROVE  NewHeads(p, QueueList(t), v, u)
  <1>1. \A a \in Pes : queue'[a] = IF a = t THEN v ELSE queue[a]
    BY DEF Typed, BlocksTypeOK
  <1>2. ASSUME NEW m \in Lists
        PROVE  HeadOf(m)' = IF m = QueueList(t) THEN v
                            ELSE IF m = HeldList(p) THEN u ELSE HeadOf(m)
    <2>1. CASE \E a \in Pes, r \in Sizes : m = PoolList(a, r)
      BY <2>1, HeadFacts, PlaceFacts
    <2>2. CASE \E a \in Pes : m = QueueList(a)
      <3>1. PICK a \in Pes : m = QueueList(a)
        BY <2>2
      <3>2. HeadOf(m)' = queue'[a] /\ HeadOf(m) = queue[a] /\ m # HeldList(p)
        BY <3>1, HeadFacts, PlaceFacts
      <3>3. m = QueueList(t) <=> a = t
        BY <3>1, PlaceFacts
      <3>4. QED
        BY <1>1, <3>2, <3>3
    <2>3. CASE \E q \in Pes : m = HeldList(q)
      <3>1. PICK q \in Pes : m = HeldList(q)
        BY <2>3
      <3>2. m # QueueList(t) /\ (m = HeldList(p) <=> q = p)
        BY <3>1, PlaceFacts
      <3>3. CASE q = p
        BY <3>1, <3>2, <3>3, HeadFacts
      <3>4. CASE q # p
        BY <3>1, <3>2, <3>4, HeldByOthers
      <3>5. QED
        BY <3>3, <3>4
    <2>4. QED
      BY <2>1, <2>2, <2>3, PlaceFacts
  <1>3. QED
    BY <1>2 DEF NewHeads

LEMMA HeadsAre == \A l \in Lists : Heads[l] = HeadOf(l) /\ Heads'[l] = HeadOf(l)'
  BY DEF Heads

(* The first exchange: p holds the list, and nullptr is in its place. *)
LEMMA TakeThread ==
  ASSUME NEW p \in Pes, NEW l \in Lists, l # HeldList(p), NewHeads(p, l, Null, HeadOf(l)),
         HeadOf(HeldList(p)) \notin Blocks, next' = next,
         NEW w, NEW dp \in [Blocks -> Nat], Thread(Heads, next, w, dp)
  PROVE  Thread(Heads', next', Moved(w, l, HeldList(p)), dp)
  <1> DEFINE h == HeldList(p)
  <1>1. h \in Lists /\ l # h
    BY PlaceFacts
  <1> HIDE DEF h
  <1>2. /\ Heads'[l] = Null /\ Heads'[h] = Heads[l] /\ Heads[h] \notin Blocks
        /\ \A k \in Lists \ {l, h} : Heads'[k] = Heads[k]
    BY <1>1, HeadsAre DEF NewHeads, h
  <1>3. Null \notin Blocks
    BY ConstantFacts
  <1>4. Thread(Heads', next, Moved(w, l, h), dp)
    BY <1>1, <1>2, <1>3, MoveList
  <1>5. QED
    BY <1>4 DEF h

(* The second exchange of a call that puts block b in front of the list it holds. *)
LEMMA PushThread ==
  ASSUME NEW p \in Pes, NEW l \in Lists, l # HeldList(p), NEW b \in Blocks,
         NewHeads(p, l, b, Tail), next \in [Blocks -> Pointers],
         HeadOf(HeldList(p)) \in Blocks \cup {Tail}, HeadOf(l) \notin Blocks,
         next' = [next EXCEPT ![b] = HeadOf(HeldList(p))],
         NEW w \in [Blocks -> Places \cup {Nowhere}], w[b] \notin Lists,
         NEW dp \in [Blocks -> Nat], Thread(Heads, next, w, dp)
  PROVE  \E e \in [Blocks -> Nat] :
           Thread(Heads', next', Moved([w EXCEPT ![b] = HeldList(p)], HeldList(p), l), e)
  <1>1. PICK h \in Lists : h = HeldList(p) /\ l # h
    BY PlaceFacts
  <1>2. PICK hd : hd = [Heads EXCEPT ![h] = b]
    OBVIOUS
  <1>3. /\ hd[h] = b /\ \A k \in Lists \ {h} : hd[k] = Heads[k]
        /\ Heads[h] = HeadOf(HeldList(p)) /\ Heads[l] = HeadOf(l)
    BY <1>1, <1>2, HeadsAre DEF Heads
  <1>4. PICK v : v = [w EXCEPT ![b] = h]
    OBVIOUS
  <1>5. v[b] = h /\ \A c \in Blocks \ {b} : v[c] = w[c]
    BY <1>4
  <1>6. next'[b] = Heads[h] /\ \A c \in Blocks \ {b} : next'[c] = next[c]
    BY <1>3
  <1>7. PICK e \in [Blocks -> Nat] : Thread(hd, next', v, e)
    <2>1. Heads[h] \in Blocks \cup {Tail}
      BY <1>3
    <2>2. Pushed(Heads, hd, next, next', w, v, h, b)
      BY <1>3, <1>5, <1>6, <2>1 DEF Pushed
    <2>3. QED
      BY <1>1, <2>2, PushFront
  <1>8. Heads'[h] = Tail /\ Heads'[l] = b /\ \A k \in Lists \ {h, l} : Heads'[k] = hd[k]
    BY <1>1, <1>3, HeadsAre DEF NewHeads
  <1>9. Tail \notin Blocks /\ hd[l] \notin Blocks /\ hd[h] = Heads'[l]
    BY <1>1, <1>3, <1>8, ConstantFacts
  <1>10. Thread(Heads', next', Moved(v, h, l), e)
    BY <1>1, <1>7, <1>8, <1>9, MoveList
  <1>11. QED
    BY <1>1, <1>4, <1>10

(* The second exchange of a call that keeps the head b, which goes to x. *)
LEMMA PopThread ==
  ASSUME NEW p \in Pes, NEW l \in Lists, l # HeldList(p), NEW b \in Blocks,
         HeadOf(HeldList(p)) = b, NewHeads(p, l, next[b], Tail), HeadOf(l) \notin Blocks,
         next' = next,
         NEW w \in [Blocks -> Places \cup {Nowhere}], NEW x, x \notin Lists,
         NEW dp \in [Blocks -> Nat], Thread(Heads, next, w, dp)
  PROVE  Thread(Heads', next', Moved([w EXCEPT ![b] = x], HeldList(p), l), dp)
  <1>1. PICK h \in Lists : h = HeldList(p) /\ l # h
    BY PlaceFacts
  <1>2. PICK hd : hd = [Heads EXCEPT ![h] = next[b]]
    OBVIOUS
  <1>3. /\ hd[h] = next[b] /\ \A k \in Lists \ {h} : hd[k] = Heads[k]
        /\ Heads[h] = b /\ Heads[l] = HeadOf(l)
    BY <1>1, <1>2, HeadsAre DEF Heads
  <1>4. PICK v : v = [w EXCEPT ![b] = x]
    OBVIOUS
  <1>5. v[b] = x /\ \A c \in Blocks \ {b} : v[c] = w[c]
    BY <1>4
  <1>6. Thread(hd, next, v, dp)
    BY <1>1, <1>3, <1>5, PopFront
  <1>7. Heads'[h] = Tail /\ Heads'[l] = next[b] /\ \A k \in Lists \ {h, l} : Heads'[k] = hd[k]
    BY <1>1, <1>3, HeadsAre DEF NewHeads
  <1>8. Tail \notin Blocks /\ hd[l] \notin Blocks /\ hd[h] = Heads'[l]
    BY <1>1, <1>3, <1>7, ConstantFacts
  <1>9. Thread(Heads', next, Moved(v, h, l), dp)
    BY <1>1, <1>6, <1>7, <1>8, MoveList
  <1>10. QED
    BY <1>1, <1>4, <1>9

(* No list changes: a head that is no block may become another. *)
LEMMA SameThread ==
  ASSUME NEW w, NEW dp, Thread(Heads, next, w, dp),
         \A l \in Lists : HeadOf(l)' = HeadOf(l) \/ (HeadOf(l) \notin Blocks /\ HeadOf(l)' \notin Blocks),
         \A b \in Blocks : w[b] \in Lists => next'[b] = next[b]
  PROVE  Thread(Heads', next', w, dp)
  <1>1. \A l \in Lists : \/ Heads'[l] = Heads[l]
                         \/ Heads[l] \notin Blocks /\ Heads'[l] \notin Blocks
    BY HeadsAre
  <1>2. ASSUME NEW b \in Blocks, w[b] \in Lists
        PROVE  InList(b, Heads', next', w, dp)
    <2>1. InList(b, Heads, next, w, dp) /\ next'[b] = next[b]
      BY <1>2 DEF Thread
    <2>2. Heads'[w[b]] = Heads[w[b]]
      BY <1>1, <1>2, <2>1 DEF InList
    <2>3. QED
      BY <2>1, <2>2 DEF InList
  <1>3. QED
    BY <1>1, <1>2 DEF Thread

-----------------------------------------------------------------------------
(* The owners of the blocks after a step. *)
Located == \E w, dp : Placed(w, dp)

Spots == [Blocks -> Places \cup {Nowhere}]

SameOwners(b) ==
  /\ \A q \in Pes : /\ b \in InHand(q)' <=> b \in InHand(q)
                    /\ b \in Out(q)' <=> b \in Out(q)
  /\ b \in BornBlocks' <=> b \in BornBlocks

LEMMA FitsStill ==
  ASSUME NEW w, NEW v, NEW b, Fits(w, b), SameOwners(b),
         v[b] = w[b] \/ (w[b] \in Lists /\ v[b] \in Lists)
  PROVE  Fits(v, b)'
  <1>1. \A p \in Pes : Hand(p) \notin Lists /\ Aside(p) \notin Lists /\ Nowhere \notin Lists
    BY NoListFacts
  <1>2. \A p \in Pes : /\ v[b] = Hand(p) <=> w[b] = Hand(p)
                       /\ v[b] = Aside(p) <=> w[b] = Aside(p)
    BY <1>1
  <1>3. v[b] = Nowhere <=> w[b] = Nowhere
    BY NoListFacts
  <1>4. QED
    BY <1>2, <1>3 DEF Fits, SameOwners

LEMMA OwnedStill ==
  ASSUME NEW w, NEW v, Owned(w), \A b \in Blocks : SameOwners(b),
         \A b \in Blocks : v[b] = w[b] \/ (w[b] \in Lists /\ v[b] \in Lists),
         \A q \in Pes : InHand(q)' \subseteq Blocks /\ Out(q)' \subseteq Blocks
  PROVE  Owned(v)'
  <1>1. \A b \in Blocks : Fits(v, b)'
    BY FitsStill DEF Owned
  <1>2. QED
    BY <1>1 DEF Owned

(* One block goes to another place. *)
LEMMA OwnedMove ==
  ASSUME NEW w, NEW v, Owned(w), NEW c \in Blocks, \A b \in Blocks \ {c} : SameOwners(b),
         \A b \in Blocks \ {c} : v[b] = w[b] \/ (w[b] \in Lists /\ v[b] \in Lists),
         \A q \in Pes : InHand(q)' \subseteq Blocks /\ Out(q)' \subseteq Blocks,
         Fits(v, c)'
  PROVE  Owned(v)'
  <1>1. \A b \in Blocks : Fits(v, b)'
    <2> TAKE b \in Blocks
    <2>1. CASE b = c
      BY <2>1
    <2>2. CASE b # c
      BY <2>2, FitsStill DEF Owned
    <2>3. QED
      BY <2>1, <2>2
  <1>2. QED
    BY <1>1 DEF Owned

LEMMA MovedFacts ==
  ASSUME NEW w \in Spots, NEW l \in Lists, NEW m \in Lists
  PROVE  /\ Moved(w, l, m) \in Spots
         /\ \A b \in Blocks : /\ Moved(w, l, m)[b] \in Lists <=> w[b] \in Lists
                              /\ w[b] \notin Lists => Moved(w, l, m)[b] = w[b]
  <1>1. \A b \in Blocks : Moved(w, l, m)[b] = IF w[b] = l THEN m ELSE w[b]
    BY DEF Moved
  <1>2. Lists \subseteq Places
    BY NoListFacts
  <1>3. QED
    BY <1>1, <1>2 DEF Moved, Spots

(* What a PE has put into its pool changes while it does so only. *)
LEMMA BornStays ==
  ASSUME NEW p \in Pes, program' = program,
         \A q \in Pes \ {p} : pc'[q] = pc[q] /\ i'[q] = i[q],
         \/ ~Putting(p) /\ ~Putting(p)'
         \/ i'[p] = i[p] /\ (pc'[p] = pc[p] \/ (pc[p] = "init" /\ pc'[p] = "lput" /\ program = "basic"))
  PROVE  BornBlocks' = BornBlocks
  <1>1. \A q \in Pes : Born(q)' = Born(q)
    <2> TAKE q \in Pes
    <2>1. CASE q # p
      BY <2>1 DEF Born, BasicPut
    <2>2. CASE q = p
      BY <2>2 DEF Born, BasicPut, Putting
    <2>3. QED
      BY <2>1, <2>2
  <1>2. QED
    BY <1>1 DEF BornBlocks

OutsStay == \A q \in Pes : Out(q)' = Out(q)
HandsStay == \A q \in Pes : InHand(q)' = InHand(q)

LEMMA OwnersStay ==
  ASSUME OutsStay, HandsStay, BornBlocks' = BornBlocks
  PROVE  \A b : SameOwners(b)
  BY DEF OutsStay, HandsStay, SameOwners

(* The first exchange of ralloc, enqueue, dequeue; of lput in what follows. *)
LEMMA TakePlaced ==
  ASSUME NEW p \in Pes, NEW l \in Lists, l # HeldList(p), NewHeads(p, l, Null, HeadOf(l)),
         ~Taken(p), next' = next, OutsStay, HandsStay, BornBlocks' = BornBlocks, Located
  PROVE  Located'
  <1>1. PICK w, dp : Placed(w, dp)
    BY DEF Located
  <1>2. PICK h \in Lists : h = HeldList(p)
    BY PlaceFacts
  <1>3. HeadOf(h) \notin Blocks
    BY <1>2, HeadFacts, ConstantFacts
  <1>4. Thread(Heads', next', Moved(w, l, h), dp)
    BY <1>1, <1>2, <1>3, TakeThread DEF Placed
  <1>5. Moved(w, l, h) \in Spots
        /\ \A b \in Blocks : /\ Moved(w, l, h)[b] \in Lists <=> w[b] \in Lists
                             /\ w[b] \notin Lists => Moved(w, l, h)[b] = w[b]
    BY <1>1, MovedFacts DEF Placed, Spots
  <1>6. \A q \in Pes : InHand(q)' \subseteq Blocks /\ Out(q)' \subseteq Blocks
    BY <1>1 DEF OutsStay, HandsStay, Placed, Owned
  <1>7. \A b \in Blocks : SameOwners(b)
    BY OwnersStay
  <1>8. PICK v : v = Moved(w, l, h)
    OBVIOUS
  <1>9. Owned(v)'
    BY <1>1, <1>5, <1>6, <1>7, <1>8, OwnedStill DEF Placed
  <1>10. Placed(v, dp)'
    BY <1>1, <1>4, <1>5, <1>8, <1>9 DEF Placed, Spots
  <1>11. QED
    BY <1>10 DEF Located

(* Nothing moves. *)
LEMMA SamePlaced ==
  ASSUME \A l \in Lists : HeadOf(l)' = HeadOf(l) \/ (HeadOf(l) \notin Blocks /\ HeadOf(l)' \notin Blocks),
         \A b \in Blocks : (\A p \in Pes : b \notin InHand(p)) => next'[b] = next[b],
         OutsStay, HandsStay, BornBlocks' = BornBlocks, Located
  PROVE  Located'
  <1>1. PICK w, dp : Placed(w, dp)
    BY DEF Located
  <1>2. \A b \in Blocks : w[b] \in Lists => next'[b] = next[b]
    <2> TAKE b \in Blocks
    <2> HAVE w[b] \in Lists
    <2>1. \A p \in Pes : b \notin InHand(p)
      BY <1>1, NoListFacts DEF Placed, Owned, Fits
    <2>2. QED
      BY <2>1
  <1>3. Thread(Heads', next', w, dp)
    BY <1>1, <1>2, SameThread DEF Placed
  <1>4. \A q \in Pes : InHand(q)' \subseteq Blocks /\ Out(q)' \subseteq Blocks
    BY <1>1 DEF OutsStay, HandsStay, Placed, Owned
  <1>5. \A b \in Blocks : SameOwners(b)
    BY OwnersStay
  <1>6. Owned(w)'
    BY <1>1, <1>4, <1>5, OwnedStill DEF Placed
  <1>7. Placed(w, dp)'
    BY <1>1, <1>3, <1>6 DEF Placed
  <1>8. QED
    BY <1>7 DEF Located

-----------------------------------------------------------------------------
(* After the step b is in x, and the other blocks are where they were. *)
Goes(b, x) ==
  /\ x \in Places /\ b \in BornBlocks'
  /\ \A c \in Blocks \ {b} : SameOwners(c)
  /\ \A q \in Pes : /\ x = Hand(q) <=> b \in InHand(q)'
                    /\ x = Aside(q) <=> b \in Out(q)'
                    /\ InHand(q)' \subseteq Blocks /\ Out(q)' \subseteq Blocks

LEMMA GoesOwned ==
  ASSUME NEW w, NEW v, Owned(w), NEW b \in Blocks, NEW x, Goes(b, x), v[b] = x,
         \A c \in Blocks \ {b} : v[c] = w[c] \/ (w[c] \in Lists /\ v[c] \in Lists)
  PROVE  Owned(v)'
  <1>1. x # Nowhere
    BY NoListFacts DEF Goes
  <1>2. Fits(v, b)'
    BY <1>1 DEF Goes, Fits
  <1>3. QED
    BY <1>2, OwnedMove DEF Goes

(* Who has b when it is in a list, or nowhere. *)
LEMMA NobodyHas ==
  ASSUME NEW w, NEW dp, Placed(w, dp), NEW b \in Blocks, w[b] \in Lists \cup {Nowhere}
  PROVE  \A q \in Pes : b \notin InHand(q) /\ b \notin Out(q)
  BY NoListFacts DEF Placed, Owned, Fits

LEMMA HolderHas ==
  ASSUME NEW w, NEW dp, Placed(w, dp), NEW p \in Pes, NEW b \in InHand(p)
  PROVE  /\ b \in Blocks /\ w[b] = Hand(p) /\ b \in BornBlocks
         /\ \A q \in Pes : b \notin Out(q) /\ (b \in InHand(q) => q = p)
  BY NoListFacts DEF Placed, Owned, Fits

LEMMA AsideHas ==
  ASSUME NEW w, NEW dp, Placed(w, dp), NEW p \in Pes, NEW b \in Out(p)
  PROVE  /\ b \in Blocks /\ w[b] = Aside(p) /\ b \in BornBlocks
         /\ \A q \in Pes : b \notin InHand(q) /\ (b \in Out(q) => q = p)
  BY NoListFacts DEF Placed, Owned, Fits

OthersHands(p) == \A q \in Pes \ {p} : InHand(q)' = InHand(q)

(* The second exchange of lput and enqueue: p's block goes into the list. *)
LEMMA PushPlaced ==
  ASSUME NEW p \in Pes, NEW l \in Lists, l # HeldList(p), NEW b, InHand(p) = {b},
         InHand(p)' = {}, OthersHands(p), OutsStay, BornBlocks' = BornBlocks,
         NewHeads(p, l, b, Tail), next \in [Blocks -> Pointers],
         HeadOf(HeldList(p)) \in Blocks \cup {Tail}, HeadOf(l) \notin Blocks,
         next' = [next EXCEPT ![b] = HeadOf(HeldList(p))], Located
  PROVE  Located'
  <1>1. PICK w, dp : Placed(w, dp)
    BY DEF Located
  <1>2. /\ b \in Blocks /\ w[b] = Hand(p) /\ b \in BornBlocks
        /\ \A q \in Pes : b \notin Out(q) /\ (b \in InHand(q) => q = p)
    BY <1>1, HolderHas
  <1>3. PICK h \in Lists : h = HeldList(p)
    BY PlaceFacts
  <1>4. w \in Spots /\ dp \in [Blocks -> Nat] /\ Thread(Heads, next, w, dp) /\ Owned(w)
    BY <1>1 DEF Placed, Spots
  <1>5. w[b] \notin Lists
    BY <1>2, NoListFacts
  <1>6. PICK v : v = Moved([w EXCEPT ![b] = h], h, l)
    OBVIOUS
  <1>7. \E e \in [Blocks -> Nat] : Thread(Heads', next', v, e)
    BY <1>2, <1>3, <1>4, <1>5, <1>6, PushThread DEF Spots
  <1>8. /\ v \in Spots /\ v[b] = l
        /\ \A c \in Blocks \ {b} : v[c] = w[c] \/ (w[c] \in Lists /\ v[c] \in Lists)
    <2>1. /\ [w EXCEPT ![b] = h] \in Spots /\ [w EXCEPT ![b] = h][b] = h
          /\ \A c \in Blocks \ {b} : [w EXCEPT ![b] = h][c] = w[c]
      BY <1>2, <1>4, NoListFacts DEF Spots
    <2>2. v \in Spots
      BY <1>6, <2>1, MovedFacts
    <2>3. QED
      BY <1>2, <1>6, <2>1, <2>2 DEF Moved
  <1>9. Goes(b, l)
    <2>1. \A c \in Blocks \ {b} : SameOwners(c)
      BY DEF SameOwners, OthersHands, OutsStay
    <2>2. \A q \in Pes : /\ b \notin InHand(q)' /\ b \notin Out(q)'
                         /\ InHand(q)' \subseteq Blocks /\ Out(q)' \subseteq Blocks
      BY <1>2, <1>4 DEF OthersHands, OutsStay, Owned
    <2>3. QED
      BY <1>2, <2>1, <2>2, NoListFacts DEF Goes
  <1>10. Owned(v)'
    BY <1>2, <1>4, <1>8, <1>9, GoesOwned
  <1>11. PICK e \in [Blocks -> Nat] : Thread(Heads', next', v, e)
    BY <1>7
  <1>12. Placed(v, e)'
    BY <1>8, <1>10, <1>11 DEF Placed, Spots
  <1>13. QED
    BY <1>12 DEF Located

(* The second exchange of ralloc and dequeue: the head goes to x. *)
LEMMA PopPlaced ==
  ASSUME NEW p \in Pes, NEW l \in Lists, l # HeldList(p), NEW b \in Blocks,
         HeadOf(HeldList(p)) = b, NewHeads(p, l, next[b], Tail), HeadOf(l) \notin Blocks,
         next' = next, NEW w, NEW dp, Placed(w, dp), NEW x, x \notin Lists, Goes(b, x)
  PROVE  Located'
  <1>1. PICK h \in Lists : h = HeldList(p)
    BY PlaceFacts
  <1>2. w \in Spots /\ dp \in [Blocks -> Nat] /\ Thread(Heads, next, w, dp) /\ Owned(w)
    BY DEF Placed, Spots
  <1>3. PICK v : v = Moved([w EXCEPT ![b] = x], h, l)
    OBVIOUS
  <1>4. Thread(Heads', next', v, dp)
    BY <1>1, <1>2, <1>3, PopThread DEF Spots
  <1>5. /\ v \in Spots /\ v[b] = x
        /\ \A c \in Blocks \ {b} : v[c] = w[c] \/ (w[c] \in Lists /\ v[c] \in Lists)
    <2>1. /\ [w EXCEPT ![b] = x] \in Spots /\ [w EXCEPT ![b] = x][b] = x
          /\ \A c \in Blocks \ {b} : [w EXCEPT ![b] = x][c] = w[c]
      BY <1>2 DEF Spots, Goes
    <2>2. v \in Spots
      BY <1>3, <2>1, MovedFacts
    <2>3. QED
      BY <1>1, <1>3, <2>1, <2>2 DEF Moved
  <1>6. Owned(v)'
    BY <1>2, <1>5, GoesOwned
  <1>7. Placed(v, dp)'
    BY <1>2, <1>4, <1>5, <1>6 DEF Placed, Spots
  <1>8. QED
    BY <1>7 DEF Located

(* A block that is in no list goes to x, and no list changes. *)
LEMMA RelabelPlaced ==
  ASSUME \A l \in Lists : HeadOf(l)' = HeadOf(l), next' = next,
         NEW w, NEW dp, Placed(w, dp), NEW b \in Blocks, w[b] \notin Lists,
         NEW x, x \notin Lists, Goes(b, x)
  PROVE  Located'
  <1>1. w \in Spots /\ dp \in [Blocks -> Nat] /\ Thread(Heads, next, w, dp) /\ Owned(w)
    BY DEF Placed, Spots
  <1>2. PICK v : v = [w EXCEPT ![b] = x]
    OBVIOUS
  <1>3. v \in Spots /\ v[b] = x /\ \A c \in Blocks \ {b} : v[c] = w[c]
    BY <1>1, <1>2 DEF Spots, Goes
  <1>4. Thread(Heads, next, v, dp)
    BY <1>1, <1>3, Relabel
  <1>5. Thread(Heads', next', v, dp)
    BY <1>4, SameThread
  <1>6. Owned(v)'
    BY <1>1, <1>3, GoesOwned
  <1>7. Placed(v, dp)'
    BY <1>1, <1>3, <1>5, <1>6 DEF Placed, Spots
  <1>8. QED
    BY <1>7 DEF Located

-----------------------------------------------------------------------------
(* The calls, one exchange at a time. *)
Frame(p) ==
  /\ Safe /\ Located /\ program' = program
  /\ \A q \in Pes \ {p} : pc'[q] = pc[q] /\ head'[q] = head[q] /\ blk'[q] = blk[q]

LEMMA FrameFacts ==
  ASSUME NEW p \in Pes, Frame(p)
  PROVE  Typed /\ Others(p) /\ OthersHands(p) /\ Located
  BY DEF Frame, Safe, Others, OthersHands, InHand

Kept(p) == Frame(p) /\ OutsStay /\ BornBlocks' = BornBlocks

LEMMA KeptFacts ==
  ASSUME NEW p \in Pes, Kept(p)
  PROVE  /\ Typed /\ Others(p) /\ OthersHands(p) /\ Located /\ OutsStay
         /\ BornBlocks' = BornBlocks
         /\ pc'[p] = pc[p] /\ blk'[p] = blk[p] => HandsStay
         /\ InHand(p) = {} /\ InHand(p)' = {} => HandsStay
  BY DEF Kept, Frame, Safe, Others, OthersHands, HandsStay, InHand

LEMMA RallocPlaced ==
  ASSUME NEW p \in Pes, Kept(p), NEW s \in Sizes, Ralloc(p, s)
  PROVE  Located'
  <1>1. PICK t \in Pes : t = Theirs(p)
    BY ConstantFacts
  <1>2. PICK l \in Lists : l = PoolList(t, s)
    BY PlaceFacts
  <1>3. HeadOf(l) = pool[t][s] /\ l # HeldList(p)
    BY <1>2, HeadFacts, PlaceFacts
  <1>4. /\ pc[p] = "ralloc" /\ head'[p] = pool[t][s]
        /\ pc'[p] = (IF pool[t][s] = Tail THEN "ralloc_back" ELSE "ralloc_swap")
        /\ pool' = [pool EXCEPT ![t][s] = Null] /\ queue' = queue /\ next' = next
    BY <1>1, KeptFacts DEF Ralloc, GoTo, Typed, BlocksTypeOK
  <1>5. HeadOf(l) = IF Taken(p)' THEN head'[p] ELSE Tail
    BY <1>3, <1>4 DEF Taken
  <1>6. NewHeads(p, l, Null, HeadOf(l))
    BY <1>1, <1>2, <1>4, <1>5, PoolHeads, KeptFacts
  <1>7. ~Taken(p) /\ InHand(p) = {} /\ InHand(p)' = {}
    BY <1>4 DEF Taken, InHand
  <1>8. QED
    BY <1>3, <1>4, <1>6, <1>7, TakePlaced, KeptFacts

LEMMA EnqueuePlaced ==
  ASSUME NEW p \in Pes, Kept(p), Enqueue(p)
  PROVE  Located'
  <1>1. PICK t \in Pes : t = Theirs(p)
    BY ConstantFacts
  <1>2. PICK l \in Lists : l = QueueList(t)
    BY PlaceFacts
  <1>3. HeadOf(l) = queue[t] /\ l # HeldList(p)
    BY <1>2, HeadFacts, PlaceFacts
  <1>4. /\ pc[p] = "enqueue" /\ head'[p] = queue[t] /\ pc'[p] = "enqueue_swap"
        /\ queue' = [queue EXCEPT ![t] = Null] /\ pool' = pool /\ next' = next
        /\ blk'[p] = blk[p]
    BY <1>1, KeptFacts DEF Enqueue, GoTo, Typed, BlocksTypeOK
  <1>5. HeadOf(l) = IF Taken(p)' THEN head'[p] ELSE Tail
    BY <1>3, <1>4 DEF Taken
  <1>6. NewHeads(p, l, Null, HeadOf(l))
    BY <1>1, <1>2, <1>4, <1>5, QueueHeads, KeptFacts
  <1>7. ~Taken(p) /\ InHand(p)' = InHand(p)
    BY <1>4 DEF Taken, InHand
  <1>8. HandsStay
    BY <1>7, KeptFacts DEF HandsStay, OthersHands
  <1>9. QED
    BY <1>3, <1>4, <1>6, <1>7, <1>8, TakePlaced, KeptFacts

LEMMA DequeuePlaced ==
  ASSUME NEW p \in Pes, Kept(p), Dequeue(p)
  PROVE  Located'
  <1>1. PICK l \in Lists : l = QueueList(p)
    BY PlaceFacts
  <1>2. HeadOf(l) = queue[p] /\ l # HeldList(p)
    BY <1>1, HeadFacts, PlaceFacts
  <1>3. /\ pc[p] = "dequeue" /\ head'[p] = queue[p]
        /\ pc'[p] = (IF queue[p] = Tail THEN "dequeue_back" ELSE "dequeue_swap")
        /\ queue' = [queue EXCEPT ![p] = Null] /\ pool' = pool /\ next' = next
    BY KeptFacts DEF Dequeue, GoTo, Typed, BlocksTypeOK
  <1>4. HeadOf(l) = IF Taken(p)' THEN head'[p] ELSE Tail
    BY <1>2, <1>3 DEF Taken
  <1>5. NewHeads(p, l, Null, HeadOf(l))
    BY <1>1, <1>3, <1>4, QueueHeads, KeptFacts
  <1>6. ~Taken(p) /\ InHand(p) = {} /\ InHand(p)' = {}
    BY <1>3 DEF Taken, InHand
  <1>7. QED
    BY <1>2, <1>3, <1>5, <1>6, TakePlaced, KeptFacts

(* An empty list is given back. *)
LEMMA BackPlaced ==
  ASSUME NEW p \in Pes, Kept(p), NEW l \in Lists, HeadOf(l) \notin Blocks,
         NewHeads(p, l, Tail, Tail), ~Taken(p), HandsStay, next' = next
  PROVE  Located'
  <1>1. HeadOf(HeldList(p)) = Tail /\ Tail \notin Blocks
    BY HeadFacts, ConstantFacts
  <1>2. \A m \in Lists : \/ HeadOf(m)' = HeadOf(m)
                         \/ HeadOf(m) \notin Blocks /\ HeadOf(m)' \notin Blocks
    BY <1>1 DEF NewHeads
  <1>3. QED
    BY <1>2, SamePlaced, KeptFacts

LEMMA RallocBackPlaced ==
  ASSUME NEW p \in Pes, Kept(p), RallocBack(p)
  PROVE  Located'
  <1>1. PICK t \in Pes, s \in Sizes : t = Theirs(p) /\ s = sz[p]
    BY ConstantFacts, KeptFacts DEF Typed, BlocksTypeOK
  <1>2. PICK l \in Lists : l = PoolList(t, s)
    BY <1>1, PlaceFacts
  <1>3. /\ pc[p] = "ralloc_back" /\ pc'[p] = "ralloc" /\ queue' = queue /\ next' = next
        /\ pool' = [pool EXCEPT ![t][s] = head[p]]
    BY <1>1, KeptFacts DEF RallocBack, GoTo, Typed, BlocksTypeOK
  <1>4. head[p] = Tail
    BY <1>3 DEF Kept, Frame, Safe, FreeLists, Shape, Linked
  <1>5. HeadOf(l) = Null
    <2>1. HoldsPool(p, t, s)
      BY <1>1, <1>3 DEF HoldsPool
    <2>2. QED
      BY <1>2, <2>1, HeadFacts DEF Kept, Frame, Safe, Exclusive, PoolsExclusive
  <1>6. ~Taken(p) /\ ~Taken(p)' /\ InHand(p) = {} /\ InHand(p)' = {}
    BY <1>3 DEF Taken, InHand
  <1>7. NewHeads(p, l, Tail, Tail)
    BY <1>1, <1>2, <1>3, <1>4, <1>6, PoolHeads, KeptFacts
  <1>8. QED
    BY <1>3, <1>5, <1>6, <1>7, BackPlaced, KeptFacts, ConstantFacts

LEMMA DequeueBackPlaced ==
  ASSUME NEW p \in Pes, Kept(p), DequeueBack(p)
  PROVE  Located'
  <1>1. PICK l \in Lists : l = QueueList(p)
    BY PlaceFacts
  <1>2. /\ pc[p] = "dequeue_back" /\ pc'[p] = "dequeue" /\ pool' = pool /\ next' = next
        /\ queue' = [queue EXCEPT ![p] = Tail]
    BY KeptFacts DEF DequeueBack, GoTo, Typed, BlocksTypeOK
  <1>3. HeadOf(l) = Null
    <2>1. HoldsQueue(p, p)
      BY <1>2 DEF HoldsQueue
    <2>2. QED
      BY <1>1, <2>1, HeadFacts DEF Kept, Frame, Safe, Exclusive, QueuesExclusive
  <1>4. ~Taken(p) /\ ~Taken(p)' /\ InHand(p) = {} /\ InHand(p)' = {}
    BY <1>2 DEF Taken, InHand
  <1>5. NewHeads(p, l, Tail, Tail)
    BY <1>1, <1>2, <1>4, QueueHeads, KeptFacts
  <1>6. QED
    BY <1>2, <1>3, <1>4, <1>5, BackPlaced, KeptFacts, ConstantFacts

LEMMA LputSwapPlaced ==
  ASSUME NEW p \in Pes, Kept(p), NEW more \in BOOLEAN, NEW cont \in {"ralloc", "idle"},
         LputSwap(p, more, cont)
  PROVE  Located'
  <1>1. PICK s \in Sizes : s = sz[p]
    BY KeptFacts DEF Typed, BlocksTypeOK
  <1>2. PICK l \in Lists : l = PoolList(p, s)
    BY PlaceFacts
  <1>3. PICK b : b = blk[p]
    OBVIOUS
  <1>4. /\ pc[p] = "lput_swap" /\ pc'[p] \in {"lput", "ralloc", "idle"} /\ queue' = queue
        /\ pool' = [pool EXCEPT ![p][s] = b] /\ next' = [next EXCEPT ![b] = head[p]]
    BY <1>1, <1>3, KeptFacts DEF LputSwap, GoTo, Typed, BlocksTypeOK
  <1>5. /\ Taken(p) /\ ~Taken(p)' /\ InHand(p) = {b} /\ InHand(p)' = {}
    BY <1>3, <1>4 DEF Taken, InHand
  <1>6. HeadOf(HeldList(p)) = head[p] /\ head[p] \in Blocks \cup {Tail}
    BY <1>4, <1>5, HeadFacts DEF Kept, Frame, Safe, FreeLists, Shape, Linked
  <1>7. HeadOf(l) = Null
    <2>1. HoldsPool(p, p, s)
      BY <1>1, <1>4 DEF HoldsPool
    <2>2. QED
      BY <1>2, <2>1, HeadFacts DEF Kept, Frame, Safe, Exclusive, PoolsExclusive
  <1>8. NewHeads(p, l, b, Tail)
    BY <1>2, <1>4, <1>5, PoolHeads, KeptFacts
  <1>9. next \in [Blocks -> Pointers] /\ l # HeldList(p)
    BY <1>2, KeptFacts, PlaceFacts DEF Typed, BlocksTypeOK
  <1>10. QED
    BY <1>4, <1>5, <1>6, <1>7, <1>8, <1>9, PushPlaced, KeptFacts, ConstantFacts

LEMMA EnqueueSwapPlaced ==
  ASSUME NEW p \in Pes, Kept(p), NEW cont \in {"ralloc", "dequeue", "idle"}, EnqueueSwap(p, cont)
  PROVE  Located'
  <1>1. PICK t \in Pes : t = Theirs(p)
    BY ConstantFacts
  <1>2. PICK l \in Lists : l = QueueList(t)
    BY PlaceFacts
  <1>3. PICK b : b = blk[p]
    OBVIOUS
  <1>4. /\ pc[p] = "enqueue_swap" /\ pc'[p] = cont /\ pool' = pool
        /\ queue' = [queue EXCEPT ![t] = b] /\ next' = [next EXCEPT ![b] = head[p]]
    BY <1>1, <1>3, KeptFacts DEF EnqueueSwap, GoTo, Typed, BlocksTypeOK
  <1>5. Taken(p) /\ ~Taken(p)' /\ InHand(p) = {b} /\ InHand(p)' = {}
    BY <1>3, <1>4 DEF Taken, InHand
  <1>6. HeadOf(HeldList(p)) = head[p] /\ head[p] \in Blocks \cup {Tail}
    BY <1>4, <1>5, HeadFacts DEF Kept, Frame, Safe, FreeLists, Shape, Sent
  <1>7. HeadOf(l) = Null
    <2>1. HoldsQueue(p, t)
      BY <1>1, <1>4 DEF HoldsQueue
    <2>2. QED
      BY <1>2, <2>1, HeadFacts DEF Kept, Frame, Safe, Exclusive, QueuesExclusive
  <1>8. NewHeads(p, l, b, Tail)
    BY <1>2, <1>4, <1>5, QueueHeads, KeptFacts
  <1>9. next \in [Blocks -> Pointers] /\ l # HeldList(p)
    BY <1>2, KeptFacts, PlaceFacts DEF Typed, BlocksTypeOK
  <1>10. QED
    BY <1>4, <1>5, <1>6, <1>7, <1>8, <1>9, PushPlaced, KeptFacts, ConstantFacts

-----------------------------------------------------------------------------
(* The blocks of a PE are put one after the other, up to its quota. *)
Quota == IF program = "basic" THEN NumMsgs ELSE NBuffers

Quotas ==
  \A p \in Pes : /\ Putting(p) => i[p] <= Quota
                 /\ program # "basic" => pc[p] # "init"

LEMMA BornFacts ==
  ASSUME Typed, Quotas
  PROVE  /\ BornBlocks \subseteq Blocks
         /\ \A p \in Pes : Born(p) \in 0 .. PoolSize
         /\ \A c : c \in BornBlocks <=> \E p \in Pes : \E k \in 1 .. Born(p) : c = BlockOf(p, k)
  <1>1. Quota \in 0 .. PoolSize /\ PoolSize \in Nat
    BY ConstantFacts DEF Quota
  <1>2. ASSUME NEW p \in Pes
        PROVE  Born(p) \in 0 .. PoolSize
    <2>1. CASE Putting(p)
      <3>1. i[p] \in 1 .. PoolSize /\ Born(p) \in {i[p], i[p] - 1}
        BY <2>1 DEF Born, BasicPut, Putting, Typed, Quotas
      <3>2. QED
        BY <1>1, <3>1
    <2>2. CASE ~Putting(p)
      <3>1. Born(p) = Quota
        BY <2>2 DEF Born, BasicPut, Putting, Quota
      <3>2. QED
        BY <1>1, <3>1
    <2>3. QED
      BY <2>1, <2>2
  <1>3. \A c : c \in BornBlocks <=> \E p \in Pes : \E k \in 1 .. Born(p) : c = BlockOf(p, k)
    BY DEF BornBlocks
  <1>4. ASSUME NEW p \in Pes, NEW k \in 1 .. Born(p)
        PROVE  BlockOf(p, k) \in Blocks
    <2>1. k \in 1 .. PoolSize
      BY <1>1, <1>2
    <2>2. QED
      BY <2>1, BlockOfFacts
  <1>5. QED
    BY <1>2, <1>3, <1>4

(* lput brings a block into the world. *)
LEMMA LputBorn ==
  ASSUME Typed, Quotas, Quotas', NEW p \in Pes, NEW s \in Sizes, Lput(p, s), program' = program
  PROVE  /\ BlockOf(p, i[p]) \in Blocks \ BornBlocks /\ BlockOf(p, i[p]) \in BornBlocks'
         /\ \A c : c # BlockOf(p, i[p]) => (c \in BornBlocks' <=> c \in BornBlocks)
  <1>1. /\ pc[p] = "lput" /\ pc'[p] = "lput_swap" /\ i' = i /\ i[p] \in 1 .. PoolSize
        /\ \A q \in Pes \ {p} : pc'[q] = pc[q]
    BY DEF Lput, GoTo, Typed, Putting
  <1>2. Born(p) = i[p] - 1 /\ Born(p)' = i[p] /\ \A q \in Pes \ {p} : Born(q)' = Born(q)
    BY <1>1 DEF Born, BasicPut
  <1>3. \A c : c \in BornBlocks <=> \E q \in Pes : \E k \in 1 .. Born(q) : c = BlockOf(q, k)
    BY BornFacts
  <1>4. \A c : c \in BornBlocks' <=> \E q \in Pes : \E k \in 1 .. Born(q)' : c = BlockOf(q, k)
    BY DEF BornBlocks
  <1>5. \A c : c \in BornBlocks => c \in BornBlocks'
    <2> TAKE c
    <2> HAVE c \in BornBlocks
    <2>1. PICK q \in Pes : \E k \in 1 .. Born(q) : c = BlockOf(q, k)
      BY <1>3
    <2>2. PICK k \in 1 .. Born(q) : c = BlockOf(q, k)
      BY <2>1
    <2>3. k \in 1 .. Born(q)'
      BY <1>1, <1>2, BornFacts
    <2>4. QED
      BY <1>4, <2>2, <2>3
  <1>6. \A c : c \in BornBlocks' => c \in BornBlocks \/ c = BlockOf(p, i[p])
    <2> TAKE c
    <2> HAVE c \in BornBlocks'
    <2>1. PICK q \in Pes : \E k \in 1 .. Born(q)' : c = BlockOf(q, k)
      BY <1>4
    <2>2. PICK k \in 1 .. Born(q)' : c = BlockOf(q, k)
      BY <2>1
    <2>3. k \in 1 .. Born(q) \/ (q = p /\ k = i[p])
      BY <1>1, <1>2
    <2>4. QED
      BY <1>3, <2>2, <2>3
  <1>7. BlockOf(p, i[p]) \notin BornBlocks
    <2> SUFFICES ASSUME BlockOf(p, i[p]) \in BornBlocks PROVE FALSE
      OBVIOUS
    <2>1. PICK q \in Pes : \E k \in 1 .. Born(q) : BlockOf(p, i[p]) = BlockOf(q, k)
      BY <1>3
    <2>2. PICK k \in 1 .. Born(q) : BlockOf(p, i[p]) = BlockOf(q, k)
      BY <2>1
    <2>3. k \in 1 .. PoolSize
      BY BornFacts, ConstantFacts
    <2>4. q = p /\ k = i[p]
      BY <1>1, <2>2, <2>3, BlockOfFacts
    <2>5. QED
      BY <1>1, <1>2, <2>4
  <1>8. BlockOf(p, i[p]) \in BornBlocks'
    <2>1. i[p] \in 1 .. Born(p)'
      BY <1>1, <1>2
    <2>2. QED
      BY <1>4, <2>1
  <1>9. QED
    BY <1>1, <1>5, <1>6, <1>7, <1>8, BlockOfFacts

(* The list that lput took is held, and the block it is to put there in hand. *)
LEMMA LputPlaced ==
  ASSUME NEW p \in Pes, Frame(p), OutsStay, Quotas, Quotas', NEW s \in Sizes, Lput(p, s)
  PROVE  Located'
  <1>1. PICK w, dp : Placed(w, dp)
    BY DEF Frame, Located
  <1>2. PICK h \in Lists : h = HeldList(p)
    BY PlaceFacts
  <1>3. PICK l \in Lists : l = PoolList(p, s)
    BY PlaceFacts
  <1>4. HeadOf(l) = pool[p][s] /\ l # h
    BY <1>2, <1>3, HeadFacts, PlaceFacts
  <1>5. PICK b : b = BlockOf(p, i[p])
    OBVIOUS
  <1>6. /\ pc[p] = "lput" /\ pc'[p] = "lput_swap" /\ head'[p] = pool[p][s] /\ blk'[p] = b
        /\ pool' = [pool EXCEPT ![p][s] = Null] /\ queue' = queue /\ next' = next
    BY <1>5, FrameFacts DEF Lput, GoTo, Typed, BlocksTypeOK
  <1>7. ~Taken(p) /\ Taken(p)' /\ InHand(p) = {} /\ InHand(p)' = {b}
    BY <1>6 DEF Taken, InHand
  <1>8. NewHeads(p, l, Null, HeadOf(l))
    BY <1>3, <1>4, <1>6, <1>7, PoolHeads, FrameFacts
  <1>9. /\ b \in Blocks \ BornBlocks /\ b \in BornBlocks'
        /\ \A c : c # b => (c \in BornBlocks' <=> c \in BornBlocks)
    BY <1>5, LputBorn, FrameFacts DEF Frame
  <1>10. w[b] = Nowhere /\ w[b] \notin Lists
    BY <1>1, <1>9, NoListFacts DEF Placed, Owned, Fits
  <1>11. \A q \in Pes : b \notin InHand(q) /\ b \notin Out(q)
    BY <1>1, <1>9, <1>10, NobodyHas
  <1>12. w \in Spots /\ dp \in [Blocks -> Nat] /\ Thread(Heads, next, w, dp) /\ Owned(w)
    BY <1>1 DEF Placed, Spots
  <1>13. Goes(b, Hand(p))
    <2>1. \A c \in Blocks \ {b} : SameOwners(c)
      BY <1>7, <1>9, FrameFacts DEF SameOwners, OthersHands, OutsStay
    <2>2. \A q \in Pes : Hand(p) = Hand(q) <=> b \in InHand(q)'
      BY <1>7, <1>11, NoListFacts, FrameFacts DEF OthersHands
    <2>3. \A q \in Pes : Hand(p) = Aside(q) <=> b \in Out(q)'
      BY <1>11, NoListFacts DEF OutsStay
    <2>4. \A q \in Pes : InHand(q)' \subseteq Blocks /\ Out(q)' \subseteq Blocks
      BY <1>7, <1>9, <1>12, FrameFacts DEF OthersHands, OutsStay, Owned
    <2>5. QED
      BY <1>9, <2>1, <2>2, <2>3, <2>4, NoListFacts DEF Goes
  <1>14. PICK m : m = Moved(w, l, h)
    OBVIOUS
  <1>15. /\ m \in Spots
         /\ \A c \in Blocks : /\ m[c] \in Lists <=> w[c] \in Lists
                              /\ w[c] \notin Lists => m[c] = w[c]
    BY <1>12, <1>14, MovedFacts
  <1>16. HeadOf(h) \notin Blocks
    BY <1>2, <1>7, HeadFacts, ConstantFacts
  <1>17. Thread(Heads', next', m, dp)
    BY <1>2, <1>4, <1>6, <1>8, <1>12, <1>14, <1>16, TakeThread
  <1>18. PICK v : v = [m EXCEPT ![b] = Hand(p)]
    OBVIOUS
  <1>19. /\ v \in Spots /\ v[b] = Hand(p) /\ \A c \in Blocks \ {b} : v[c] = m[c]
         /\ m[b] \notin Lists /\ v[b] \notin Lists
    BY <1>9, <1>10, <1>15, <1>18, NoListFacts DEF Spots
  <1>20. Thread(Heads', next', v, dp)
    BY <1>9, <1>17, <1>19, Relabel
  <1>21. \A c \in Blocks \ {b} : v[c] = w[c] \/ (w[c] \in Lists /\ v[c] \in Lists)
    BY <1>15, <1>19
  <1>22. Owned(v)'
    BY <1>9, <1>12, <1>13, <1>19, <1>21, GoesOwned
  <1>23. Placed(v, dp)'
    BY <1>12, <1>19, <1>20, <1>22 DEF Placed, Spots
  <1>24. QED
    BY <1>23 DEF Located

-----------------------------------------------------------------------------
(* The steps that take a block from one place to another. *)
LEMMA SameHeads ==
  ASSUME NEW p \in Pes, Frame(p), pool' = pool, queue' = queue, ~Taken(p), ~Taken(p)'
  PROVE  \A l \in Lists : HeadOf(l)' = HeadOf(l)
  <1> TAKE l \in Lists
  <1>1. CASE \E q \in Pes, s \in Sizes : l = PoolList(q, s)
    BY <1>1, HeadFacts
  <1>2. CASE \E q \in Pes : l = QueueList(q)
    BY <1>2, HeadFacts
  <1>3. CASE \E q \in Pes : l = HeldList(q)
    <2>1. PICK q \in Pes : l = HeldList(q)
      BY <1>3
    <2>2. CASE q = p
      BY <2>1, <2>2, HeadFacts
    <2>3. CASE q # p
      BY <2>1, <2>3, HeldByOthers, FrameFacts
    <2>4. QED
      BY <2>2, <2>3
  <1>4. QED
    BY <1>1, <1>2, <1>3, PlaceFacts

LEMMA QuietPlaced ==
  ASSUME NEW p \in Pes, Kept(p), UNCHANGED <<pool, queue>>, ~Taken(p), ~Taken(p)',
         InHand(p)' = InHand(p), \A b \in Blocks : b \notin InHand(p) => next'[b] = next[b]
  PROVE  Located'
  <1>1. \A l \in Lists : HeadOf(l)' = HeadOf(l)
    BY SameHeads DEF Kept
  <1>2. HandsStay
    BY KeptFacts DEF HandsStay, OthersHands
  <1>3. QED
    BY <1>1, <1>2, SamePlaced, KeptFacts

(* The head of the list that p holds is in it. *)
LEMMA HeadHeld ==
  ASSUME NEW w, NEW dp, Placed(w, dp), NEW p \in Pes, Taken(p), head[p] \in Blocks
  PROVE  /\ HeadOf(HeldList(p)) = head[p] /\ w[head[p]] = HeldList(p)
         /\ head[p] \in BornBlocks /\ \A q \in Pes : head[p] \notin InHand(q) /\ head[p] \notin Out(q)
  <1>1. HeadOf(HeldList(p)) = head[p] /\ HeldList(p) \in Lists
    BY HeadFacts, PlaceFacts
  <1>2. w[head[p]] = HeldList(p)
    BY <1>1, HeadsAre DEF Placed, Thread
  <1>3. w[head[p]] # Nowhere
    BY <1>1, <1>2, NoListFacts
  <1>4. QED
    BY <1>1, <1>2, <1>3, NobodyHas DEF Placed, Owned, Fits

(* ralloc's block, which nobody retains, was in the list and comes to hand. *)
LEMMA RallocSwapPlaced ==
  ASSUME NEW p \in Pes, Frame(p), BornBlocks' = BornBlocks, NEW cont \in {"enqueue", "cache"},
         RallocSwap(p, cont), UNCHANGED <<handled, retained>>
  PROVE  Located'
  <1>1. PICK w, dp : Placed(w, dp)
    BY DEF Frame, Located
  <1>2. PICK t \in Pes, s \in Sizes : t = Theirs(p) /\ s = sz[p]
    BY ConstantFacts, FrameFacts DEF Typed, BlocksTypeOK
  <1>3. PICK l \in Lists : l = PoolList(t, s)
    BY PlaceFacts
  <1>4. PICK b \in Blocks : b = head[p] /\ ~used[b]
    BY DEF Frame, Safe, FreeLists, Shape, Linked, RallocSwap
  <1>5. /\ pc[p] = "ralloc_swap" /\ pc'[p] = cont /\ queue' = queue /\ next' = next
        /\ pool' = [pool EXCEPT ![t][s] = next[b]] /\ blk'[p] = b
        /\ used' = [used EXCEPT ![b] = TRUE]
    BY <1>2, <1>4, FrameFacts DEF RallocSwap, GoTo, Typed, BlocksTypeOK
  <1>6. Taken(p) /\ ~Taken(p)' /\ InHand(p) = {} /\ InHand(p)' = {b}
    BY <1>5 DEF Taken, InHand
  <1>7. /\ HeadOf(HeldList(p)) = b /\ b \in BornBlocks
        /\ \A q \in Pes : b \notin InHand(q) /\ b \notin Out(q)
    BY <1>1, <1>4, <1>6, HeadHeld
  <1>8. HeadOf(l) = Null /\ l # HeldList(p)
    <2>1. HoldsPool(p, t, s)
      BY <1>2, <1>5 DEF HoldsPool
    <2>2. QED
      BY <1>3, <2>1, HeadFacts, PlaceFacts DEF Frame, Safe, Exclusive, PoolsExclusive
  <1>9. NewHeads(p, l, next[b], Tail)
    BY <1>3, <1>5, <1>6, PoolHeads, FrameFacts
  <1>10. OutsStay
    <2>1. \A c \in Blocks \ {b} : used'[c] = used[c]
      BY <1>5
    <2>2. ASSUME NEW q \in Pes, program # "basic"
          PROVE  Out(q)' = Out(q)
      <3>1. retained[q] # b /\ retained'[q] = retained[q] /\ program' # "basic"
        BY <1>4, <1>7, <2>2, ConstantFacts DEF Out, Frame
      <3>2. retained[q] \in Blocks \/ retained[q] = Null \/ retained[q] = Tail
        BY FrameFacts DEF Typed, Pointers
      <3>3. used'[retained[q]] = used[retained[q]]
        BY <1>5, <2>1, <3>1, <3>2, FrameFacts DEF Typed, BlocksTypeOK
      <3>4. QED
        BY <2>2, <3>1, <3>3 DEF Out
    <2>3. QED
      BY <2>2 DEF Out, OutsStay, Frame
  <1>11. Goes(b, Hand(p))
    <2>1. \A c \in Blocks \ {b} : SameOwners(c)
      BY <1>6, <1>10, FrameFacts DEF SameOwners, OthersHands, OutsStay
    <2>2. \A q \in Pes : Hand(p) = Hand(q) <=> b \in InHand(q)'
      BY <1>6, <1>7, NoListFacts, FrameFacts DEF OthersHands
    <2>3. \A q \in Pes : Hand(p) = Aside(q) <=> b \in Out(q)'
      BY <1>7, <1>10, NoListFacts DEF OutsStay
    <2>4. \A q \in Pes : InHand(q)' \subseteq Blocks /\ Out(q)' \subseteq Blocks
      BY <1>1, <1>6, <1>10, FrameFacts DEF OthersHands, OutsStay, Placed, Owned
    <2>5. QED
      BY <1>7, <2>1, <2>2, <2>3, <2>4, NoListFacts DEF Goes
  <1>12. Hand(p) \notin Lists /\ Null \notin Blocks
    BY NoListFacts, ConstantFacts
  <1>13. QED
    BY <1>1, <1>5, <1>7, <1>8, <1>9, <1>11, <1>12, PopPlaced

(* What both uses of dequeue have in common. *)
LEMMA DequeueSwapHeads ==
  ASSUME NEW p \in Pes, Frame(p), NEW cont \in {"exit", "dequeue", "free"}, DequeueSwap(p, cont),
         NEW w, NEW dp, Placed(w, dp)
  PROVE  \E l \in Lists, b \in Blocks :
           /\ l # HeldList(p) /\ HeadOf(l) \notin Blocks /\ NewHeads(p, l, next[b], Tail)
           /\ b = head[p] /\ HeadOf(HeldList(p)) = b /\ b \in BornBlocks
           /\ next' = next /\ used' = used /\ blk'[p] = b /\ InHand(p) = {} /\ pc'[p] = cont
           /\ \A q \in Pes : b \notin InHand(q) /\ b \notin Out(q)
  <1>1. PICK l \in Lists : l = QueueList(p)
    BY PlaceFacts
  <1>2. PICK b \in Blocks : b = head[p]
    BY DEF Frame, Safe, Typed, DequeueSwap
  <1>3. /\ pc[p] = "dequeue_swap" /\ pc'[p] = cont /\ pool' = pool /\ next' = next
        /\ queue' = [queue EXCEPT ![p] = next[b]] /\ blk'[p] = b /\ used' = used
    BY <1>2, FrameFacts DEF DequeueSwap, GoTo, Typed, BlocksTypeOK
  <1>4. Taken(p) /\ ~Taken(p)' /\ InHand(p) = {}
    BY <1>3 DEF Taken, InHand
  <1>5. /\ HeadOf(HeldList(p)) = b /\ b \in BornBlocks
        /\ \A q \in Pes : b \notin InHand(q) /\ b \notin Out(q)
    BY <1>2, <1>4, HeadHeld
  <1>6. HeadOf(l) = Null /\ l # HeldList(p)
    <2>1. HoldsQueue(p, p)
      BY <1>3 DEF HoldsQueue
    <2>2. QED
      BY <1>1, <2>1, HeadFacts, PlaceFacts DEF Frame, Safe, Exclusive, QueuesExclusive
  <1>7. NewHeads(p, l, next[b], Tail)
    BY <1>1, <1>3, <1>4, QueueHeads, FrameFacts
  <1>8. QED
    BY <1>2, <1>3, <1>4, <1>5, <1>6, <1>7, ConstantFacts

(* The benchmark has the received block in hand. *)
LEMMA DequeueSwapPlaced ==
  ASSUME NEW p \in Pes, Kept(p), DequeueSwap(p, "free")
  PROVE  Located'
  <1>1. PICK w, dp : Placed(w, dp)
    BY KeptFacts DEF Located
  <1>2. PICK l \in Lists, b \in Blocks :
           /\ l # HeldList(p) /\ HeadOf(l) \notin Blocks /\ NewHeads(p, l, next[b], Tail)
           /\ b = head[p] /\ HeadOf(HeldList(p)) = b /\ b \in BornBlocks
           /\ next' = next /\ used' = used /\ blk'[p] = b /\ InHand(p) = {} /\ pc'[p] = "free"
           /\ \A q \in Pes : b \notin InHand(q) /\ b \notin Out(q)
    BY <1>1, DequeueSwapHeads DEF Kept
  <1>3. InHand(p)' = {b}
    BY <1>2 DEF InHand
  <1>4. Goes(b, Hand(p))
    <2>1. \A c \in Blocks \ {b} : SameOwners(c)
      BY <1>2, <1>3, KeptFacts DEF SameOwners, OthersHands, OutsStay
    <2>2. \A q \in Pes : Hand(p) = Hand(q) <=> b \in InHand(q)'
      BY <1>2, <1>3, NoListFacts, KeptFacts DEF OthersHands
    <2>3. \A q \in Pes : Hand(p) = Aside(q) <=> b \in Out(q)'
      BY <1>2, NoListFacts, KeptFacts DEF OutsStay
    <2>4. \A q \in Pes : InHand(q)' \subseteq Blocks /\ Out(q)' \subseteq Blocks
      BY <1>1, <1>3, KeptFacts DEF OthersHands, OutsStay, Placed, Owned
    <2>5. QED
      BY <1>2, <2>1, <2>2, <2>3, <2>4, NoListFacts, KeptFacts DEF Goes
  <1>5. Hand(p) \notin Lists
    BY NoListFacts
  <1>6. QED
    BY <1>1, <1>2, <1>4, <1>5, PopPlaced

(* The basic test has handled it. *)
LEMMA HandledPlaced ==
  ASSUME NEW p \in Pes, Frame(p), BornBlocks' = BornBlocks, program = "basic",
         NEW cont \in {"exit", "dequeue"}, DequeueSwap(p, cont),
         handled \in [Pes -> SUBSET Blocks],
         handled' = [handled EXCEPT ![p] = @ \cup {head[p]}]
  PROVE  Located'
  <1>1. PICK w, dp : Placed(w, dp)
    BY FrameFacts DEF Located
  <1>2. PICK l \in Lists, b \in Blocks :
           /\ l # HeldList(p) /\ HeadOf(l) \notin Blocks /\ NewHeads(p, l, next[b], Tail)
           /\ b = head[p] /\ HeadOf(HeldList(p)) = b /\ b \in BornBlocks
           /\ next' = next /\ used' = used /\ blk'[p] = b /\ InHand(p) = {} /\ pc'[p] = cont
           /\ \A q \in Pes : b \notin InHand(q) /\ b \notin Out(q)
    BY <1>1, DequeueSwapHeads
  <1>3. /\ \A q \in Pes : InHand(q)' = InHand(q)
        /\ Out(p)' = Out(p) \cup {b} /\ \A q \in Pes \ {p} : Out(q)' = Out(q)
    <2>1. InHand(p)' = {}
      BY <1>2 DEF InHand
    <2>2. QED
      BY <1>2, <2>1, FrameFacts DEF Out, Frame, OthersHands
  <1>4. Goes(b, Aside(p))
    <2>1. \A c \in Blocks \ {b} : SameOwners(c)
      BY <1>3 DEF SameOwners
    <2>2. \A q \in Pes : Aside(p) = Hand(q) <=> b \in InHand(q)'
      BY <1>2, <1>3, NoListFacts
    <2>3. \A q \in Pes : Aside(p) = Aside(q) <=> b \in Out(q)'
      BY <1>2, <1>3, NoListFacts
    <2>4. \A q \in Pes : InHand(q)' \subseteq Blocks /\ Out(q)' \subseteq Blocks
      BY <1>1, <1>3 DEF Placed, Owned
    <2>5. QED
      BY <1>2, <2>1, <2>2, <2>3, <2>4, NoListFacts DEF Goes
  <1>5. Aside(p) \notin Lists
    BY NoListFacts
  <1>6. QED
    BY <1>1, <1>2, <1>4, <1>5, PopPlaced

-----------------------------------------------------------------------------
(* The benchmark: one PE retains a block in use, unless it has just come from the pool. *)
Keeps ==
  /\ \A p, q \in Pes : retained[p] = retained[q] /\ retained[p] \in Blocks => p = q
  /\ \A p \in Pes : pc[p] = "cache" =>
       /\ retained[p] \in {Null, blk[p]}
       /\ \A q \in Pes : retained[q] = blk[p] => q = p
  /\ \A b \in Blocks : used[b] =>
       \E h \in Pes : retained[h] = b \/ (pc[h] = "cache" /\ blk[h] = b)

(* The block that a PE frees is the one in use. *)
LEMMA AtFree ==
  ASSUME Ping, NEW p \in Pes, pc[p] = "free"
  PROVE  OnlyUsed(blk[p])
  <1>1. ~Waits(p)
    BY DEF Waits
  <1>2. PICK d \in Pes, r \in Nat : Playing(d, r)
    BY <1>1 DEF Ping, Before, PlainPhase, Starting, Ended
  <1>3. CASE OnItsWay(d)
    BY <1>1, <1>3 DEF OnItsWay
  <1>4. CASE \E h \in Pes : Theirs(h) = d /\ Sending(h)
    BY <1>1, <1>4 DEF Sending
  <1>5. QED
    BY <1>2, <1>3, <1>4 DEF Playing

LEMMA AllocFromPlaced ==
  ASSUME NEW p \in Pes, Frame(p), BornBlocks' = BornBlocks, program # "basic", Ping,
         retained \in [Pes -> Blocks \cup {Null}], AllocFrom(p)
  PROVE  Located'
  <1>1. Sending(p) /\ blk[p] = retained[p] /\ pc[p] = "alloc"
    BY NotAtAlloc DEF AllocFrom, Sending, Ended
  <1>2. /\ ~Taken(p) /\ InHand(p) = {} /\ next' = next /\ pool' = pool /\ queue' = queue
        /\ retained' = retained /\ program' # "basic"
    BY <1>1 DEF Taken, InHand, AllocFrom, pingVars, Frame
  <1>3. CASE used' = used /\ pc'[p] \in {"alloc", "ralloc"}
    <2>1. OutsStay
      BY <1>2, <1>3 DEF OutsStay, Out, Frame
    <2>2. ~Taken(p)' /\ InHand(p)' = {}
      BY <1>3 DEF Taken, InHand
    <2>3. QED
      BY <1>2, <2>1, <2>2, QuietPlaced DEF Kept
  <1>4. CASE /\ blk[p] \in Blocks /\ ~used[blk[p]] /\ used' = [used EXCEPT ![blk[p]] = TRUE]
             /\ pc'[p] = "cache" /\ blk'[p] = blk[p]
    <2>1. PICK w, dp : Placed(w, dp)
      BY FrameFacts DEF Located
    <2>2. PICK b \in Blocks : b = blk[p]
      BY <1>4
    <2>3. Out(p) = {b} /\ b # Null
      BY <1>1, <1>4, <2>2, ConstantFacts DEF Out, Frame
    <2>4. /\ w[b] = Aside(p) /\ b \in BornBlocks
          /\ \A q \in Pes : b \notin InHand(q) /\ (b \in Out(q) => q = p)
      BY <2>1, <2>3, AsideHas
    <2>5. \A q \in Pes \ {p} : retained[q] # b
      BY <1>2, <1>4, <2>2, <2>3, <2>4 DEF Out, Frame
    <2>6. used'[b] /\ \A c \in Blocks \ {b} : used'[c] = used[c]
      BY <1>4, <2>2, FrameFacts DEF Typed, BlocksTypeOK
    <2>7. Out(p)' = {} /\ \A q \in Pes \ {p} : Out(q)' = Out(q)
      <3>1. Out(p)' = {}
        BY <1>1, <1>2, <2>2, <2>6 DEF Out
      <3>2. ASSUME NEW q \in Pes \ {p}
            PROVE  Out(q)' = Out(q)
        <4>1. retained[q] = Null \/ used'[retained[q]] = used[retained[q]]
          BY <2>5, <2>6
        <4>2. QED
          BY <1>2, <4>1 DEF Out, Frame
      <3>3. QED
        BY <3>1, <3>2
    <2>8. ~Taken(p)' /\ InHand(p)' = {b}
      BY <1>4, <2>2 DEF Taken, InHand
    <2>9. Goes(b, Hand(p))
      <3>1. \A c \in Blocks \ {b} : SameOwners(c)
        BY <1>2, <2>3, <2>7, <2>8, FrameFacts DEF SameOwners, OthersHands
      <3>2. \A q \in Pes : Hand(p) = Hand(q) <=> b \in InHand(q)'
        BY <2>4, <2>8, NoListFacts, FrameFacts DEF OthersHands
      <3>3. \A q \in Pes : Hand(p) = Aside(q) <=> b \in Out(q)'
        BY <2>4, <2>7, NoListFacts
      <3>4. \A q \in Pes : InHand(q)' \subseteq Blocks /\ Out(q)' \subseteq Blocks
        BY <2>1, <2>7, <2>8, FrameFacts DEF OthersHands, Placed, Owned
      <3>5. QED
        BY <2>4, <3>1, <3>2, <3>3, <3>4, NoListFacts DEF Goes
    <2>10. w[b] \notin Lists /\ Hand(p) \notin Lists
      BY <2>4, NoListFacts
    <2>11. \A l \in Lists : HeadOf(l)' = HeadOf(l)
      BY <1>2, <2>8, SameHeads
    <2>12. QED
      BY <1>2, <2>1, <2>9, <2>10, <2>11, RelabelPlaced
  <1>5. QED
    BY <1>1, <1>3, <1>4, FrameFacts DEF AllocFrom, GoTo, Typed, BlocksTypeOK

LEMMA CacheBlockPlaced ==
  ASSUME NEW p \in Pes, Frame(p), BornBlocks' = BornBlocks, program # "basic", Ping,
         retained \in [Pes -> Blocks \cup {Null}], Keeps, CacheBlock(p)
  PROVE  Located'
  <1>1. Sending(p) /\ pc[p] = "cache" /\ OnlyUsed(blk[p])
    BY NotAtAlloc DEF CacheBlock, Sending, Ended
  <1>2. /\ pc'[p] = "enqueue" /\ blk'[p] = blk[p] /\ pool' = pool /\ queue' = queue
        /\ used' = used /\ retained' = [retained EXCEPT ![p] = blk[p]]
        /\ next' = [next EXCEPT ![blk[p]] = retained[p]] /\ program' # "basic"
    BY <1>1, FrameFacts DEF CacheBlock, GoTo, Typed, Frame
  <1>3. OutsStay
    <2>1. retained[p] \in {Null, blk[p]} /\ used[blk[p]]
      BY <1>1 DEF Keeps, OnlyUsed
    <2>2. retained'[p] = blk[p] /\ \A q \in Pes \ {p} : retained'[q] = retained[q]
      BY <1>2
    <2>3. Out(p) = {} /\ Out(p)' = {}
      BY <1>2, <2>1, <2>2 DEF Out, Frame
    <2>4. \A q \in Pes \ {p} : Out(q)' = Out(q)
      BY <1>2, <2>2 DEF Out, Frame
    <2>5. QED
      BY <2>3, <2>4 DEF OutsStay
  <1>4. ~Taken(p) /\ ~Taken(p)' /\ InHand(p) = {blk[p]} /\ InHand(p)' = {blk[p]}
    BY <1>1, <1>2 DEF Taken, InHand
  <1>5. \A b \in Blocks : b \notin InHand(p) => next'[b] = next[b]
    BY <1>2, <1>4
  <1>6. QED
    BY <1>2, <1>3, <1>4, <1>5, QuietPlaced DEF Kept

(* The freed block is among those that its PE retains, which may be another one. *)
LEMMA RecvXpmemPlaced ==
  ASSUME NEW p \in Pes, Frame(p), BornBlocks' = BornBlocks, program # "basic", Ping,
         retained \in [Pes -> Blocks \cup {Null}], Keeps, RecvXpmem(p)
  PROVE  Located'
  <1>1. PICK w, dp : Placed(w, dp)
    BY FrameFacts DEF Located
  <1>2. PICK b \in Blocks : b = blk[p] /\ used[b]
    BY AtFree DEF OnlyUsed, RecvXpmem
  <1>3. /\ pc[p] = "free" /\ pc'[p] \in {"idle", "alloc"} /\ pool' = pool /\ queue' = queue
        /\ next' = next /\ retained' = retained /\ used' = [used EXCEPT ![b] = FALSE]
        /\ program' # "basic"
    BY <1>2, FrameFacts DEF RecvXpmem, GoTo, Typed, Free, Frame
  <1>4. ~Taken(p) /\ ~Taken(p)' /\ InHand(p) = {b} /\ InHand(p)' = {}
    BY <1>2, <1>3 DEF Taken, InHand
  <1>5. /\ w[b] = Hand(p) /\ b \in BornBlocks
        /\ \A q \in Pes : b \notin Out(q) /\ (b \in InHand(q) => q = p)
    BY <1>1, <1>4, HolderHas
  <1>6. PICK h \in Pes : retained[h] = b
    <2>1. \A q \in Pes : pc[q] = "cache" => blk[q] # b
      <3>1. \A q \in Pes : pc[q] = "cache" => InHand(q) = {blk[q]}
        BY DEF InHand
      <3>2. QED
        BY <1>3, <1>5, <3>1
    <2>2. QED
      BY <1>2, <2>1 DEF Keeps
  <1>7. ~used'[b] /\ \A c \in Blocks \ {b} : used'[c] = used[c]
    BY <1>3, FrameFacts DEF Typed, BlocksTypeOK
  <1>8. Out(h) = {} /\ Out(h)' = {b} /\ \A q \in Pes \ {h} : Out(q)' = Out(q)
    <2>1. Out(h) = {} /\ Out(h)' = {b}
      BY <1>2, <1>3, <1>6, <1>7, ConstantFacts DEF Out
    <2>2. ASSUME NEW q \in Pes \ {h}
          PROVE  Out(q)' = Out(q)
      <3>1. retained[q] # b
        BY <1>6 DEF Keeps
      <3>2. retained[q] = Null \/ used'[retained[q]] = used[retained[q]]
        BY <1>7, <3>1
      <3>3. QED
        BY <1>3, <3>2 DEF Out, Frame
    <2>3. QED
      BY <2>1, <2>2
  <1>9. Goes(b, Aside(h))
    <2>1. \A c \in Blocks \ {b} : SameOwners(c)
      BY <1>4, <1>8, FrameFacts DEF SameOwners, OthersHands
    <2>2. \A q \in Pes : Aside(h) = Hand(q) <=> b \in InHand(q)'
      BY <1>4, <1>5, NoListFacts, FrameFacts DEF OthersHands
    <2>3. \A q \in Pes : Aside(h) = Aside(q) <=> b \in Out(q)'
      BY <1>5, <1>8, NoListFacts
    <2>4. \A q \in Pes : InHand(q)' \subseteq Blocks /\ Out(q)' \subseteq Blocks
      BY <1>1, <1>4, <1>8, FrameFacts DEF OthersHands, Placed, Owned
    <2>5. QED
      BY <1>5, <2>1, <2>2, <2>3, <2>4, NoListFacts DEF Goes
  <1>10. w[b] \notin Lists /\ Aside(h) \notin Lists
    BY <1>5, NoListFacts
  <1>11. \A l \in Lists : HeadOf(l)' = HeadOf(l)
    BY <1>3, <1>4, SameHeads
  <1>12. QED
    BY <1>1, <1>3, <1>9, <1>10, <1>11, RelabelPlaced

-----------------------------------------------------------------------------
(* The steps of a PE of either program, as far as blocks are concerned. *)
Exchange(p) ==
  \/ Put(p) \/ Take(p) \/ RallocBack(p) \/ Enqueue(p) \/ Dequeue(p) \/ DequeueBack(p)
  \/ \E cont \in {"ralloc", "idle"} : LputSwap(p, i[p] < Quota, cont)
  \/ \E cont \in {"ralloc", "dequeue", "idle"} : EnqueueSwap(p, cont)

Rests(p) ==
  /\ UNCHANGED <<shared, i, head>>
  /\ \/ UNCHANGED <<pc, blk>>
     \/ program = "basic" /\ pc[p] = "init" /\ GoTo(p, "lput") /\ UNCHANGED blk
     \/ /\ pc[p] = "idle" /\ \E cont \in {"alloc", "dequeue", "exit"} : GoTo(p, cont)
        /\ \A q \in Pes \ {p} : blk'[q] = blk[q]

BasicMove(p) ==
  /\ program = "basic" /\ UNCHANGED retained
  /\ \/ RallocSwap(p, "enqueue") /\ UNCHANGED handled /\ i' = [i EXCEPT ![p] = @ + 1]
     \/ /\ \E cont \in {"exit", "dequeue"} : DequeueSwap(p, cont)
        /\ handled' = [handled EXCEPT ![p] = @ \cup {head[p]}]

PingMove(p) ==
  /\ program # "basic" /\ UNCHANGED handled
  /\ \/ AllocFrom(p) \/ CacheBlock(p) \/ RecvXpmem(p)
     \/ RallocSwap(p, "cache") /\ UNCHANGED <<retained, i>>
     \/ DequeueSwap(p, "free") /\ UNCHANGED retained

LEMMA PeCases ==
  ASSUME Typed, NEW p \in Pes, Pe(p)
  PROVE  /\ program' = program
         /\ \/ (Exchange(p) \/ Rests(p)) /\ UNCHANGED <<handled, retained, used>>
            \/ BasicMove(p) \/ PingMove(p)
  <1> USE DEF basicVars
  <1>1. ASSUME program = "basic", BasicPe(p), UNCHANGED <<program, pingVars>>
        PROVE  \/ (Exchange(p) \/ Rests(p)) /\ UNCHANGED <<handled, retained, used>>
               \/ BasicMove(p)
    <2> USE <1>1 DEF pingVars
    <2>1. CASE (\E src \in Pes : pc[p] = "init" /\ HandleInitiate(p, src) /\ UNCHANGED basicVars)
               \/ HandleRun(p)
      BY <2>1 DEF HandleInitiate, HandleRun, Rests, shared
    <2>2. CASE Populate(p)
      <3>1. SizeOf(i[p]) \in Sizes /\ MoreToPut(i[p]) = (i[p] < Quota)
        BY DEF SizeOf, Sizes, MoreToPut, Quota
      <3>2. CASE Lput(p, SizeOf(i[p]))
        BY <2>2, <3>1, <3>2 DEF Populate, Exchange, Put, Lput
      <3>3. CASE LputSwap(p, i[p] < Quota, "ralloc")
        BY <2>2, <3>3 DEF Populate, Exchange, LputSwap
      <3>4. QED
        BY <2>2, <3>1, <3>2, <3>3 DEF Populate
    <2>3. CASE FillBlock(p)
      BY <2>3 DEF FillBlock, BasicMove
    <2>4. CASE SendBlock(p)
      BY <2>4 DEF SendBlock, Exchange, Take, Ralloc, EnqueueSwap
    <2>5. CASE HandleBlock(p)
      BY <2>5 DEF HandleBlock, BasicMove
    <2>6. CASE PoolAndQueueCall(p) /\ UNCHANGED basicVars
      BY <2>6 DEF PoolAndQueueCall, Exchange, RallocBack, Enqueue, Dequeue, DequeueBack
    <2>7. QED
      BY <2>1, <2>2, <2>3, <2>4, <2>5, <2>6 DEF BasicPe
  <1>2. ASSUME program # "basic", PingPe(p), UNCHANGED <<program, basicVars>>
        PROVE  \/ (Exchange(p) \/ Rests(p)) /\ UNCHANGED <<handled, retained, used>>
               \/ PingMove(p)
    <2> USE <1>2 DEF pingVars
    <2>1. CASE PopulateBuffers(p)
      <3>1. 64 \in Sizes /\ (i[p] < NBuffers) = (i[p] < Quota)
        BY DEF Sizes, Quota
      <3>2. CASE Lput(p, 64)
        BY <2>1, <3>1, <3>2 DEF PopulateBuffers, Exchange, Put, Lput
      <3>3. CASE LputSwap(p, i[p] < Quota, "idle")
        BY <2>1, <3>3 DEF PopulateBuffers, Exchange, LputSwap
      <3>4. QED
        BY <2>1, <3>1, <3>2, <3>3 DEF PopulateBuffers
    <2>2. CASE (\E src \in Pes : Initiate(p, src)) \/ StartPlain \/ RecvPlain(p)
      BY <2>2 DEF Initiate, HandleInitiate, StartPlain, RecvPlain, Rests, shared, blockVars
    <2>3. CASE StartXpmem(p) \/ HandleExit(p)
      <3>1. \A q \in Pes \ {p} : blk'[q] = blk[q]
        BY <2>3 DEF StartXpmem, HandleExit, Typed, BlocksTypeOK
      <3>2. QED
        BY <2>3, <3>1 DEF StartXpmem, HandleExit, Rests, shared
    <2>4. CASE AllocFrom(p) \/ CacheBlock(p) \/ RecvXpmem(p)
      BY <2>4 DEF PingMove
    <2>5. CASE AskPool(p)
      <3>1. 64 \in Sizes
        BY DEF Sizes
      <3>2. QED
        BY <2>5, <3>1 DEF AskPool, Exchange, Take, Ralloc, PingMove
    <2>6. CASE SentBlock(p)
      BY <2>6 DEF SentBlock, Exchange, EnqueueSwap
    <2>7. CASE DequeueSwap(p, "free") /\ UNCHANGED pingVars
      BY <2>7 DEF PingMove
    <2>8. CASE PoolAndQueueCall(p) /\ UNCHANGED pingVars
      BY <2>8 DEF PoolAndQueueCall, Exchange, RallocBack, Enqueue, Dequeue, DequeueBack
    <2>9. QED
      BY <2>1, <2>2, <2>3, <2>4, <2>5, <2>6, <2>7, <2>8 DEF PingPe
  <1>3. QED
    BY <1>1, <1>2 DEF Pe

(* A step of p leaves the other PEs where they are. *)
LEMMA PeFrame ==
  ASSUME Typed, NEW p \in Pes, Pe(p)
  PROVE  \A q \in Pes \ {p} : /\ pc'[q] = pc[q] /\ head'[q] = head[q] /\ blk'[q] = blk[q]
                              /\ i'[q] = i[q]
  <1> USE DEF Typed, BlocksTypeOK, GoTo
  <1>1. CASE Exchange(p)
    BY <1>1 DEF Exchange, Put, Take, Lput, Ralloc, RallocBack, Enqueue, Dequeue, DequeueBack,
                LputSwap, EnqueueSwap
  <1>2. CASE Rests(p)
    BY <1>2 DEF Rests
  <1>3. CASE BasicMove(p)
    BY <1>3 DEF BasicMove, RallocSwap, DequeueSwap
  <1>4. CASE PingMove(p)
    BY <1>4 DEF PingMove, RallocSwap, DequeueSwap, AllocFrom, CacheBlock, RecvXpmem
  <1>5. QED
    BY <1>1, <1>2, <1>3, <1>4, PeCases

LEMMA QuotasStep ==
  ASSUME Typed, Quotas, NEW p \in Pes, Pe(p)
  PROVE  Quotas'
  <1>1. program' = program /\ Quota' = Quota /\ Quota \in Nat
    BY PeCases, ConstantFacts DEF Quota
  <1>2. /\ Putting(p)' => i'[p] <= Quota
        /\ program # "basic" => pc'[p] # "init"
    <2> USE DEF Typed, BlocksTypeOK, GoTo, Putting
    <2>1. CASE Put(p)
      BY <2>1 DEF Put, Lput, Quotas
    <2>2. CASE \E cont \in {"ralloc", "idle"} : LputSwap(p, i[p] < Quota, cont)
      <3>1. /\ pc'[p] # "init" /\ (Putting(p)' => i[p] < Quota /\ i'[p] = i[p] + 1)
            /\ i[p] \in Int
        BY <2>2 DEF LputSwap
      <3>2. QED
        BY <1>1, <3>1
    <2>3. CASE Take(p) \/ RallocBack(p) \/ Enqueue(p) \/ Dequeue(p) \/ DequeueBack(p)
      BY <2>3 DEF Take, Ralloc, RallocBack, Enqueue, Dequeue, DequeueBack
    <2>4. CASE \E cont \in {"ralloc", "dequeue", "idle"} : EnqueueSwap(p, cont)
      BY <2>4 DEF EnqueueSwap
    <2>5. CASE Rests(p)
      BY <2>5 DEF Rests, Quotas
    <2>6. CASE BasicMove(p)
      BY <2>6 DEF BasicMove, RallocSwap, DequeueSwap
    <2>7. CASE PingMove(p)
      <3>1. CASE RallocSwap(p, "cache") \/ DequeueSwap(p, "free") \/ CacheBlock(p) \/ RecvXpmem(p)
        BY <3>1 DEF RallocSwap, DequeueSwap, CacheBlock, RecvXpmem
      <3>2. CASE AllocFrom(p)
        BY <3>2 DEF AllocFrom
      <3>3. QED
        BY <2>7, <3>1, <3>2 DEF PingMove
    <2>8. QED
      BY <2>1, <2>2, <2>3, <2>4, <2>5, <2>6, <2>7, PeCases DEF Exchange
  <1>3. ASSUME NEW q \in Pes \ {p}
        PROVE  /\ Putting(q)' => i'[q] <= Quota
               /\ program # "basic" => pc'[q] # "init"
    BY PeFrame DEF Quotas, Putting
  <1>4. QED
    BY <1>1, <1>2, <1>3 DEF Quotas

-----------------------------------------------------------------------------
(* What is retained. *)
LEMMA KeepsStay ==
  ASSUME Typed, Keeps, NEW p \in Pes, Pe(p), retained' = retained,
         \A b \in Blocks : used'[b] => used[b], pc[p] # "cache", pc'[p] # "cache"
  PROVE  Keeps'
  <1>1. \A q \in Pes : /\ pc'[q] = "cache" <=> pc[q] = "cache"
                       /\ pc[q] = "cache" => blk'[q] = blk[q]
    BY PeFrame
  <1>2. QED
    BY <1>1 DEF Keeps

LEMMA KeepsRalloc ==
  ASSUME Safe, Located, Keeps, program # "basic", Ping,
         NEW p \in Pes, Pe(p), RallocSwap(p, "cache"), retained' = retained
  PROVE  Keeps'
  <1>1. PICK b \in Blocks : b = head[p] /\ ~used[b]
    BY DEF Safe, FreeLists, Shape, Linked, RallocSwap
  <1>2. /\ pc[p] = "ralloc_swap" /\ pc'[p] = "cache" /\ blk'[p] = b
        /\ used'[b] /\ \A c \in Blocks \ {b} : used'[c] = used[c]
    BY <1>1 DEF RallocSwap, GoTo, Safe, Typed, BlocksTypeOK
  <1>3. retained[p] = Null
    BY <1>2, NotAtAlloc DEF Sending, Ended
  <1>4. \A q \in Pes : retained[q] # b
    <2>1. PICK w, dp : Placed(w, dp)
      BY DEF Located
    <2>2. \A q \in Pes : b \notin Out(q)
      BY <1>1, <1>2, <2>1, HeadHeld DEF Taken
    <2>3. QED
      BY <1>1, <2>2, ConstantFacts DEF Out
  <1>5. \A q \in Pes \ {p} : pc'[q] = pc[q] /\ blk'[q] = blk[q]
    BY PeFrame DEF Safe
  <1>6. ASSUME NEW q \in Pes, pc'[q] = "cache"
        PROVE  /\ retained[q] \in {Null, blk'[q]}
               /\ \A r \in Pes : retained[r] = blk'[q] => r = q
    <2>1. CASE q = p
      BY <1>2, <1>3, <1>4, <2>1
    <2>2. CASE q # p
      BY <1>5, <1>6, <2>2 DEF Keeps
    <2>3. QED
      BY <2>1, <2>2
  <1>7. ASSUME NEW c \in Blocks, used'[c]
        PROVE  \E h \in Pes : retained[h] = c \/ (pc'[h] = "cache" /\ blk'[h] = c)
    <2>1. CASE c = b
      BY <1>2, <2>1
    <2>2. CASE c # b
      <3>1. PICK h \in Pes : retained[h] = c \/ (pc[h] = "cache" /\ blk[h] = c)
        BY <1>2, <1>7, <2>2 DEF Keeps
      <3>2. pc[h] = "cache" => pc'[h] = "cache" /\ blk'[h] = blk[h]
        BY <1>2, <1>5
      <3>3. QED
        BY <3>1, <3>2
    <2>3. QED
      BY <2>1, <2>2
  <1>8. QED
    BY <1>6, <1>7 DEF Keeps

LEMMA KeepsAlloc ==
  ASSUME Typed, Keeps, Ping, retained \in [Pes -> Blocks \cup {Null}],
         NEW p \in Pes, Pe(p), AllocFrom(p)
  PROVE  Keeps'
  <1>1. pc[p] = "alloc" /\ blk[p] = retained[p] /\ retained' = retained
    BY NotAtAlloc DEF AllocFrom, pingVars, Sending, Ended
  <1>2. CASE used' = used /\ pc'[p] # "cache"
    BY <1>1, <1>2, KeepsStay
  <1>3. CASE /\ blk[p] \in Blocks /\ used' = [used EXCEPT ![blk[p]] = TRUE]
             /\ pc'[p] = "cache" /\ blk'[p] = blk[p]
    <2>1. PICK b \in Blocks : b = blk[p]
      BY <1>3
    <2>2. \A c \in Blocks \ {b} : used'[c] = used[c]
      BY <1>3, <2>1 DEF Typed, BlocksTypeOK
    <2>3. \A q \in Pes \ {p} : pc'[q] = pc[q] /\ blk'[q] = blk[q]
      BY PeFrame
    <2>4. ASSUME NEW q \in Pes, pc'[q] = "cache"
          PROVE  /\ retained[q] \in {Null, blk'[q]}
                 /\ \A r \in Pes : retained[r] = blk'[q] => r = q
      <3>1. CASE q = p
        BY <1>1, <1>3, <2>1, <3>1 DEF Keeps
      <3>2. CASE q # p
        BY <2>3, <2>4, <3>2 DEF Keeps
      <3>3. QED
        BY <3>1, <3>2
    <2>5. ASSUME NEW c \in Blocks, used'[c]
          PROVE  \E h \in Pes : retained[h] = c \/ (pc'[h] = "cache" /\ blk'[h] = c)
      <3>1. CASE c = b
        BY <1>1, <2>1, <3>1
      <3>2. CASE c # b
        <4>1. PICK h \in Pes : retained[h] = c \/ (pc[h] = "cache" /\ blk[h] = c)
          BY <2>2, <2>5, <3>2 DEF Keeps
        <4>2. pc[h] = "cache" => pc'[h] = "cache" /\ blk'[h] = blk[h]
          BY <1>1, <2>3
        <4>3. QED
          BY <4>1, <4>2
      <3>3. QED
        BY <3>1, <3>2
    <2>6. QED
      BY <1>1, <2>4, <2>5 DEF Keeps
  <1>4. QED
    BY <1>1, <1>2, <1>3 DEF AllocFrom, GoTo, Typed, BlocksTypeOK

LEMMA KeepsCache ==
  ASSUME Typed, Keeps, Ping, retained \in [Pes -> Blocks \cup {Null}],
         NEW p \in Pes, Pe(p), CacheBlock(p)
  PROVE  Keeps'
  <1>1. pc[p] = "cache" /\ blk[p] \in Blocks /\ \A q \in Pes \ {p} : pc[q] # "cache"
    <2>1. Sending(p) /\ pc[p] = "cache"
      BY NotAtAlloc DEF CacheBlock, Ended
    <2>2. QED
      BY <2>1 DEF Sending, OnlyUsed, Waits
  <1>2. /\ used' = used /\ blk' = blk /\ retained'[p] = blk[p]
        /\ \A q \in Pes \ {p} : retained'[q] = retained[q]
        /\ \A q \in Pes : pc'[q] # "cache"
    BY <1>1 DEF CacheBlock, GoTo, Typed
  <1>3. /\ retained[p] \in {Null, blk[p]} /\ \A q \in Pes : retained[q] = blk[p] => q = p
    BY <1>1 DEF Keeps
  <1>4. \A q, r \in Pes : retained'[q] = retained'[r] /\ retained'[q] \in Blocks => q = r
    BY <1>2, <1>3 DEF Keeps
  <1>5. ASSUME NEW c \in Blocks, used[c]
        PROVE  \E h \in Pes : retained'[h] = c
    <2>1. PICK h \in Pes : retained[h] = c \/ (pc[h] = "cache" /\ blk[h] = c)
      BY <1>5 DEF Keeps
    <2>2. CASE h = p
      BY <1>2, <1>3, <2>1, <2>2, ConstantFacts
    <2>3. CASE h # p
      BY <1>1, <1>2, <2>1, <2>3
    <2>4. QED
      BY <2>2, <2>3
  <1>6. QED
    BY <1>2, <1>4, <1>5 DEF Keeps

-----------------------------------------------------------------------------
(* Together: where the blocks are is known after every step. *)
PutAside ==
  IF program = "basic" THEN handled \in [Pes -> SUBSET Blocks]
  ELSE Keeps /\ retained \in [Pes -> Blocks \cup {Null}] /\ Ping

Resting == Located /\ Quotas /\ PutAside

LEMMA KeepsStep ==
  ASSUME Safe, Located, program # "basic", PutAside, NEW p \in Pes, Pe(p)
  PROVE  Keeps'
  <1> USE DEF PutAside, Safe
  <1>1. CASE Exchange(p) /\ UNCHANGED <<handled, retained, used>>
    <2>1. pc[p] # "cache" /\ pc'[p] # "cache"
      BY <1>1 DEF Exchange, Put, Take, Lput, Ralloc, RallocBack, Enqueue, Dequeue, DequeueBack,
                  LputSwap, EnqueueSwap, Typed, GoTo
    <2>2. QED
      BY <1>1, <2>1, KeepsStay
  <1>2. CASE Rests(p) /\ UNCHANGED <<handled, retained, used>>
    <2>1. CASE pc[p] = "cache"
      <3>1. UNCHANGED <<pc, blk>>
        BY <1>2, <2>1 DEF Rests
      <3>2. QED
        BY <1>2, <3>1 DEF Keeps
    <2>2. CASE pc[p] # "cache"
      <3>1. pc'[p] # "cache"
        BY <1>2, <2>2 DEF Rests, GoTo, Typed
      <3>2. QED
        BY <1>2, <2>2, <3>1, KeepsStay
    <2>3. QED
      BY <2>1, <2>2
  <1>3. CASE RecvXpmem(p)
    <2>1. /\ pc[p] = "free" /\ pc'[p] # "cache" /\ retained' = retained
          /\ \A b \in Blocks : used'[b] => used[b]
      BY <1>3 DEF RecvXpmem, Free, GoTo, Typed, BlocksTypeOK
    <2>2. QED
      BY <2>1, KeepsStay
  <1>4. CASE DequeueSwap(p, "free") /\ UNCHANGED retained
    <2>1. pc[p] # "cache" /\ pc'[p] # "cache" /\ used' = used
      BY <1>4 DEF DequeueSwap, GoTo, Typed
    <2>2. QED
      BY <1>4, <2>1, KeepsStay
  <1>5. CASE AllocFrom(p) \/ CacheBlock(p)
    BY <1>5, KeepsAlloc, KeepsCache
  <1>6. CASE RallocSwap(p, "cache") /\ UNCHANGED retained
    BY <1>6, KeepsRalloc
  <1>7. QED
    BY <1>1, <1>2, <1>3, <1>4, <1>5, <1>6, PeCases DEF PingMove, BasicMove

(* What lput has put into a list is still there after the second exchange. *)
LEMMA BornLputSwap ==
  ASSUME Typed, Quotas, NEW p \in Pes, Pe(p), NEW cont \in {"ralloc", "idle"},
         LputSwap(p, i[p] < Quota, cont)
  PROVE  BornBlocks' = BornBlocks
  <1>1. program' = program /\ \A q \in Pes \ {p} : pc'[q] = pc[q] /\ i'[q] = i[q]
    BY PeCases, PeFrame
  <1>2. /\ pc[p] = "lput_swap" /\ i[p] \in Int /\ i[p] <= Quota /\ Quota \in Int
        /\ pc'[p] = (IF i[p] < Quota THEN "lput" ELSE cont)
        /\ i[p] < Quota => i'[p] = i[p] + 1
    BY ConstantFacts DEF LputSwap, GoTo, Typed, BlocksTypeOK, Quotas, Putting, Quota
  <1>3. Born(p)' = Born(p)
    <2>1. CASE i[p] < Quota
      BY <1>1, <1>2, <2>1 DEF Born, BasicPut
    <2>2. CASE ~(i[p] < Quota)
      BY <1>1, <1>2, <2>2 DEF Born, BasicPut, Quota
    <2>3. QED
      BY <2>1, <2>2
  <1>4. \A q \in Pes : Born(q)' = Born(q)
    BY <1>1, <1>3 DEF Born, BasicPut
  <1>5. QED
    BY <1>4 DEF BornBlocks

LEMMA LocatedStep ==
  ASSUME Safe, Resting, NEW p \in Pes, Pe(p)
  PROVE  Located'
  <1> USE DEF GoTo
  <1>1. Frame(p) /\ Typed /\ Quotas /\ Quotas'
    BY PeCases, PeFrame, QuotasStep DEF Frame, Resting, Safe
  <1>2. ASSUME ~Putting(p), ~Putting(p)'
        PROVE  BornBlocks' = BornBlocks
    BY <1>1, <1>2, PeFrame, BornStays DEF Frame
  <1>3. ASSUME UNCHANGED <<handled, retained, used>>
        PROVE  OutsStay
    BY <1>1, <1>3 DEF OutsStay, Out, Frame
  <1>4. CASE Exchange(p) /\ UNCHANGED <<handled, retained, used>>
    <2>1. CASE Put(p)
      BY <1>1, <1>3, <1>4, <2>1, LputPlaced DEF Put
    <2>2. CASE \E cont \in {"ralloc", "idle"} : LputSwap(p, i[p] < Quota, cont)
      <3>1. Kept(p)
        BY <1>1, <1>3, <1>4, <2>2, BornLputSwap DEF Kept
      <3>2. (i[p] < Quota) \in BOOLEAN
        OBVIOUS
      <3>3. QED
        BY <2>2, <3>1, <3>2, LputSwapPlaced
    <2>3. CASE \/ Take(p) \/ RallocBack(p) \/ Enqueue(p) \/ Dequeue(p) \/ DequeueBack(p)
               \/ \E cont \in {"ralloc", "dequeue", "idle"} : EnqueueSwap(p, cont)
      <3>1. ~Putting(p) /\ ~Putting(p)'
        BY <1>1, <2>3 DEF Take, Ralloc, RallocBack, Enqueue, Dequeue, DequeueBack, EnqueueSwap,
                          Putting, Typed
      <3>2. Kept(p)
        BY <1>1, <1>2, <1>3, <1>4, <3>1 DEF Kept
      <3>3. QED
        BY <2>3, <3>2, RallocPlaced, RallocBackPlaced, EnqueuePlaced, DequeuePlaced,
           DequeueBackPlaced, EnqueueSwapPlaced DEF Take
    <2>4. QED
      BY <1>4, <2>1, <2>2, <2>3 DEF Exchange
  <1>5. CASE Rests(p) /\ UNCHANGED <<handled, retained, used>>
    <2>1. UNCHANGED <<pool, queue, next, i, head>>
      BY <1>5 DEF Rests, shared
    <2>2. \/ UNCHANGED <<pc, blk>>
          \/ program = "basic" /\ pc[p] = "init" /\ pc'[p] = "lput"
          \/ pc[p] = "idle" /\ pc'[p] \in {"alloc", "dequeue", "exit"}
      BY <1>1, <1>5 DEF Rests, Typed
    <2>3. BornBlocks' = BornBlocks
      BY <1>1, <2>1, <2>2, PeFrame, BornStays DEF Frame, Putting
    <2>4. Kept(p)
      BY <1>1, <1>3, <1>5, <2>3 DEF Kept
    <2>5. CASE UNCHANGED <<pc, blk>>
      <3>1. HandsStay /\ \A l \in Lists : HeadOf(l)' = HeadOf(l)
        <4>1. \A q \in Pes : InHand(q)' = InHand(q) /\ (Taken(q)' <=> Taken(q))
          BY <2>5 DEF InHand, Taken
        <4>2. \A l \in Lists : HeadOf(l)' = HeadOf(l)
          BY <2>1, <4>1, HeadFacts, PlaceFacts
        <4>3. QED
          BY <4>1, <4>2 DEF HandsStay
      <3>2. QED
        BY <2>1, <2>4, <3>1, SamePlaced, KeptFacts
    <2>6. CASE ~(UNCHANGED <<pc, blk>>)
      <3>1. ~Taken(p) /\ ~Taken(p)' /\ InHand(p) = {} /\ InHand(p)' = {}
        BY <2>2, <2>6 DEF Taken, InHand
      <3>2. QED
        BY <2>1, <2>4, <3>1, QuietPlaced
    <2>7. QED
      BY <2>5, <2>6
  <1>6. CASE BasicMove(p)
    <2>1. ~Putting(p) /\ ~Putting(p)'
      BY <1>1, <1>6 DEF BasicMove, RallocSwap, DequeueSwap, Putting, Typed
    <2>2. BornBlocks' = BornBlocks
      BY <1>2, <2>1
    <2>3. CASE RallocSwap(p, "enqueue") /\ UNCHANGED handled
      BY <1>1, <1>6, <2>2, <2>3, RallocSwapPlaced DEF BasicMove
    <2>4. CASE /\ \E cont \in {"exit", "dequeue"} : DequeueSwap(p, cont)
               /\ handled' = [handled EXCEPT ![p] = @ \cup {head[p]}]
      <3>1. handled \in [Pes -> SUBSET Blocks] /\ program = "basic"
        BY <1>6 DEF Resting, PutAside, BasicMove
      <3>2. QED
        BY <1>1, <2>2, <2>4, <3>1, HandledPlaced
    <2>5. QED
      BY <1>6, <2>3, <2>4 DEF BasicMove
  <1>7. CASE PingMove(p)
    <2>1. /\ program # "basic" /\ Ping /\ Keeps /\ retained \in [Pes -> Blocks \cup {Null}]
      BY <1>7 DEF PingMove, Resting, PutAside
    <2>2. ~Putting(p) /\ ~Putting(p)'
      <3>1. CASE AllocFrom(p)
        BY <1>1, <3>1 DEF AllocFrom, Putting, Typed
      <3>2. CASE CacheBlock(p) \/ RecvXpmem(p) \/ RallocSwap(p, "cache") \/ DequeueSwap(p, "free")
        BY <1>1, <3>2 DEF CacheBlock, RecvXpmem, RallocSwap, DequeueSwap, Putting, Typed
      <3>3. QED
        BY <1>7, <3>1, <3>2 DEF PingMove
    <2>3. BornBlocks' = BornBlocks
      BY <1>2, <2>2
    <2>4. CASE AllocFrom(p) \/ CacheBlock(p) \/ RecvXpmem(p)
      BY <1>1, <2>1, <2>3, <2>4, AllocFromPlaced, CacheBlockPlaced, RecvXpmemPlaced
    <2>5. CASE RallocSwap(p, "cache") /\ UNCHANGED retained
      BY <1>1, <1>7, <2>3, <2>5, RallocSwapPlaced DEF PingMove
    <2>6. CASE DequeueSwap(p, "free") /\ UNCHANGED retained
      <3>1. used' = used
        BY <2>6 DEF DequeueSwap
      <3>2. Kept(p)
        BY <1>1, <1>3, <1>7, <2>3, <2>6, <3>1 DEF Kept, PingMove
      <3>3. QED
        BY <2>6, <3>2, DequeueSwapPlaced
    <2>7. QED
      BY <1>7, <2>4, <2>5, <2>6 DEF PingMove
  <1>8. QED
    BY <1>1, <1>4, <1>5, <1>6, <1>7, PeCases

LEMMA RestingInit == Init => Resting
  <1> SUFFICES ASSUME Init PROVE Resting
    OBVIOUS
  <1> USE ConstantFacts DEF Init, BlocksInit, BasicInit, PingInit
  <1>1. \A p \in Pes : /\ pc[p] = (IF program = "basic" THEN "init" ELSE "lput") /\ i[p] = 1
                       /\ retained[p] = Null /\ handled[p] = {} /\ queue[p] = Tail
                       /\ \A s \in Sizes : pool[p][s] = Tail
    OBVIOUS
  <1>2. \A p \in Pes : Born(p) = 0 /\ Out(p) = {} /\ InHand(p) = {} /\ ~Taken(p)
    BY <1>1 DEF Born, BasicPut, Out, InHand, Taken
  <1>3. BornBlocks = {}
    BY <1>2 DEF BornBlocks
  <1>4. \A l \in Lists : HeadOf(l) = Tail
    BY <1>1, <1>2, PlaceFacts, HeadFacts
  <1>5. Located
    <2>1. PICK w, dp : w = [b \in Blocks |-> Nowhere] /\ dp = [b \in Blocks |-> 0]
      OBVIOUS
    <2>2. \A b \in Blocks : w[b] = Nowhere
      BY <2>1
    <2>3. Thread(Heads, next, w, dp)
      BY <1>4, <2>2, HeadsAre, NoListFacts DEF Thread
    <2>4. Owned(w)
      BY <1>2, <1>3, <2>2, NoListFacts DEF Owned, Fits
    <2>5. Placed(w, dp)
      BY <2>1, <2>3, <2>4 DEF Placed
    <2>6. QED
      BY <2>5 DEF Located
  <1>6. Quotas
    BY <1>1 DEF Quotas, Quota
  <1>7. PutAside
    <2>1. CASE program = "basic"
      BY <2>1 DEF PutAside
    <2>2. CASE program # "basic"
      <3>1. Ping /\ retained \in [Pes -> Blocks \cup {Null}]
        BY <2>2, BallInit DEF Ball
      <3>2. Keeps
        BY <1>1, <2>2 DEF Keeps
      <3>3. QED
        BY <2>2, <3>1, <3>2 DEF PutAside
    <2>3. QED
      BY <2>1, <2>2
  <1>8. QED
    BY <1>5, <1>6, <1>7 DEF Resting

LEMMA RestingStep ==
  ASSUME Safe, Ball, Ball', Resting, [Next]_vars
  PROVE  Resting'
  <1>1. CASE UNCHANGED vars
    <2>1. UNCHANGED <<program, pc, i, blk, head, pool, queue, next, used, handled, retained>>
      BY <1>1 DEF vars, blockVars, basicVars, pingVars, shared
    <2>2. /\ Quotas' /\ BornBlocks' = BornBlocks /\ OutsStay /\ HandsStay
          /\ \A q \in Pes : Taken(q)' <=> Taken(q)
      BY <2>1 DEF Resting, Quotas, Quota, Putting, BornBlocks, Born, BasicPut, OutsStay, Out,
                  HandsStay, InHand, Taken
    <2>3. \A l \in Lists : HeadOf(l)' = HeadOf(l)
      BY <2>1, <2>2, HeadFacts, PlaceFacts
    <2>4. Located'
      BY <2>1, <2>2, <2>3, SamePlaced DEF Resting
    <2>5. PutAside'
      BY <2>1 DEF Resting, PutAside, Keeps, Ball
    <2>6. QED
      BY <2>2, <2>4, <2>5 DEF Resting
  <1>2. ASSUME NEW p \in Pes, Pe(p)
        PROVE  Resting'
    <2>1. Located' /\ Quotas' /\ program' = program
      BY <1>2, LocatedStep, QuotasStep, PeCases DEF Resting, Safe
    <2>2. CASE program = "basic"
      <3>1. handled' \in [Pes -> SUBSET Blocks]
        <4>1. CASE handled' = handled
          BY <2>2, <4>1 DEF Resting, PutAside
        <4>2. CASE (\E cont \in {"exit", "dequeue"} : DequeueSwap(p, cont))
                   /\ handled' = [handled EXCEPT ![p] = @ \cup {head[p]}]
          <5>1. head[p] \in Blocks
            BY <4>2 DEF DequeueSwap, Safe, Typed
          <5>2. QED
            BY <2>2, <4>2, <5>1 DEF Resting, PutAside
        <4>3. QED
          BY <1>2, <4>1, <4>2, PeCases DEF BasicMove, PingMove, Safe
      <3>2. QED
        BY <2>1, <2>2, <3>1 DEF Resting, PutAside
    <2>3. CASE program # "basic"
      BY <1>2, <2>1, <2>3, KeepsStep DEF Resting, PutAside, Ball
    <2>4. QED
      BY <2>2, <2>3
  <1>3. QED
    BY <1>1, <1>2 DEF Next, Exited

(***************************************************************************)
(* No block is lost and none is in two lists: whoever holds a list, the    *)
(* blocks put into the pools are in the free lists and queues, in a hand,  *)
(* among those handled or retained, and each of them in one place.         *)
(***************************************************************************)
THEOREM BlocksAlwaysConserved == Spec => []BlocksConserved
  <1>1. Safe /\ Resting => BlocksConserved
    BY BornFacts, PlacedConserved DEF Resting, Located, Safe
  <1>2. Spec => []Resting
    BY RestingInit, RestingStep, SafeInvariant, BallInvariant, PTL DEF Spec
  <1>3. QED
    BY <1>1, <1>2, SafeInvariant, PTL
=============================================================================
