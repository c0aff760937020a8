-------------------------- MODULE Collective_proofs --------------------------
(***************************************************************************)
(* Collective, for any number of PEs, any tree and any programs: nothing   *)
(* is lost, doubled or stranded, an element's constructor runs first, and  *)
(* a group handles its broadcasts in one order.                            *)
(***************************************************************************)
EXTENDS Collective, FiniteSetTheorems, SequenceTheorems, TLAPS

(* A broadcast that has its number, for an element. *)
Numbered == {m \in Messages : m.kind = "bcast" /\ m.to # ChareMax}

(***************************************************************************)
(* What the machine layer and the buffers hold: messages to elements,      *)
(* broadcasts that have a number (groups only) or wait for the root to     *)
(* give them one, and, in flight only, the creation of the collective.     *)
(***************************************************************************)
Direct == {m \in Messages : m.kind \in {"ctor", "p2p"} /\ m.to \in Indices /\ m.bcast = 0}
Copies == {m \in Messages : /\ m.kind = "bcast" /\ IsGroup
                            /\ m.to \in Indices /\ m.bcast # 0}
Unordered == {m \in Messages : /\ m.kind = "bcast" /\ IsGroup
                               /\ m.to = ChareMax /\ m.bcast = 0}
Awaiting == Direct \cup Copies \cup Unordered
Pending == Awaiting \cup {m \in Messages : m.kind = "create"}

(* What waits for element i, and what its methods run on. *)
Buffered(i) == {m \in Direct \cup Copies : m.to = i /\ m.kind # "ctor"}
Runnable(i) == {m \in Messages : m.to = i /\ m.kind # "create"}

Clients ==
  /\ inst \in Instances /\ made \in BOOLEAN
  /\ inserted \subseteq Indices
  /\ sends \in 0 .. inst.sends /\ bcasts \in 0 .. inst.bcasts

(* The table of collectives: messages wait for it to be filled, not longer. *)
Table ==
  /\ created \in [Pes -> BOOLEAN] /\ cflush \in [Pes -> BOOLEAN]
  /\ cbuf \in [Pes -> Seq(Awaiting)]
  /\ \A pe \in Pes : cflush[pe] => cbuf[pe] # << >> /\ created[pe]
  /\ \A pe \in Pes : created[pe] /\ cbuf[pe] # << >> => cflush[pe]

(* Elements that are there have run their constructor, the others nothing. *)
Constructed ==
  \A i \in Indices :
    IF i \in chares THEN handled[i] # << >> /\ handled[i][1].kind = "ctor"
    ELSE handled[i] = << >>

(* The loops that empty buffers are on the PE of their element. *)
Loops ==
  \A pe \in Pes : \A k \in 1 .. Len(frames[pe]) :
    frames[pe][k] \in chares /\ PeFor(frames[pe][k]) = pe

Active(i) == \E k \in 1 .. Len(frames[PeFor(i)]) : frames[PeFor(i)][k] = i

(* Only broadcasts wait for an element that is there. *)
Waits ==
  \A i \in chares : \A k \in 1 .. Len(buffers[i]) : buffers[i][k].bcast = 0 => Active(i)

TypedElements ==
  /\ chares \subseteq Indices
  /\ last_bcast \in [Elements -> 0 .. BcastMod - 1]
  /\ buffers \in [Elements -> Seq(Messages)]
  /\ \A i \in Elements : buffers[i] \in Seq(Buffered(i))
  /\ frames \in [Pes -> Seq(Indices)]
  /\ handled \in [Elements -> Seq(Messages)]
  /\ \A i \in Elements : handled[i] \in Seq(Runnable(i))
  /\ delivered \in [Elements -> Seq(Nat)]

Channels == [Pes -> [Pes -> Seq(Pending)]]

Local == net \in Channels /\ TypedElements /\ Loops /\ Constructed /\ Waits

Basic == Clients /\ Table /\ Local

-----------------------------------------------------------------------------
LEMMA Constants ==
  /\ NPes \in Nat \ {0} /\ Pes \subseteq Nat /\ Root \in Pes /\ Pes \subseteq Elements
  /\ Elements \subseteq Nat /\ ChareMax \in Nat \ Elements /\ BcastMod \in Nat \ {0, 1}
  /\ \A pe \in Pes : Children[pe] \subseteq Pes
  /\ \A i \in Nat : PeFor(i) \in Pes
  BY CollectiveAssumption DEF Pes, Root, Elements, PeFor

LEMMA IndexFacts ==
  /\ Indices \subseteq Elements /\ (IsGroup => Indices = Pes)
  BY Constants DEF Indices, Elements

LEMMA FirstKept ==
  ASSUME NEW q \in Seq(Messages), NEW m \in Messages, q # << >>
  PROVE  Append(q, m) # << >> /\ Append(q, m)[1] = q[1]
  <1>1. Len(q) \in Nat \ {0} /\ 1 \in 1 .. Len(q)
    OBVIOUS
  <1>2. Len(Append(q, m)) = Len(q) + 1 /\ Append(q, m)[1] = q[1]
    BY <1>1
  <1>3. QED
    BY <1>1, <1>2

(* What running a method leaves: handled and delivered. *)
LEMMA RunTyped ==
  ASSUME TypedElements, Constructed, NEW i \in Indices, NEW m \in Messages,
         m.to = i, m.kind # "create", Run(i, m)
  PROVE  /\ handled' \in [Elements -> Seq(Messages)]
         /\ \A e \in Elements : handled'[e] \in Seq(Runnable(e))
         /\ delivered' \in [Elements -> Seq(Nat)]
         /\ \A e \in Elements \ {i} : handled'[e] = handled[e]
         /\ handled'[i] = Append(handled[i], m)
  <1>1. i \in Elements
    BY IndexFacts
  <1>2. m \in Runnable(i) /\ handled[i] \in Seq(Runnable(i)) /\ handled[i] \in Seq(Messages)
    BY <1>1 DEF Runnable, TypedElements
  <1>3. Append(handled[i], m) \in Seq(Runnable(i)) /\ Append(handled[i], m) \in Seq(Messages)
    BY <1>2
  <1>4. handled' = [handled EXCEPT ![i] = Append(handled[i], m)]
    BY DEF Run
  <1>5. /\ handled' \in [Elements -> Seq(Messages)]
        /\ \A e \in Elements \ {i} : handled'[e] = handled[e]
        /\ handled'[i] = Append(handled[i], m)
    BY <1>1, <1>3, <1>4 DEF TypedElements
  <1>6. ASSUME NEW e \in Elements PROVE handled'[e] \in Seq(Runnable(e))
    BY <1>3, <1>5 DEF TypedElements
  <1>7. delivered' \in [Elements -> Seq(Nat)]
    <2>1. m.id \in Nat /\ delivered[i] \in Seq(Nat)
      BY <1>1 DEF Messages, TypedElements
    <2>2. Append(delivered[i], m.id) \in Seq(Nat)
      BY <2>1
    <2>3. QED
      BY <1>1, <2>2 DEF Run, TypedElements
  <1>8. QED
    BY <1>5, <1>6, <1>7

LEMMA CallFlushActive ==
  ASSUME TypedElements, Loops, NEW pe \in Pes, NEW i \in Indices, PeFor(i) = pe,
         i \in chares', chares \subseteq chares', CallFlush(pe, i)
  PROVE  /\ frames' \in [Pes -> Seq(Indices)] /\ Loops'
         /\ \A e \in Indices : Active(e) => Active(e)'
         /\ buffers[i] # << >> => Active(i)'
  <1>1. CASE buffers[i] = << >>
    <2>1. frames' = frames
      BY <1>1 DEF CallFlush
    <2>2. QED
      BY <1>1, <2>1 DEF TypedElements, Loops, Active
  <1>2. CASE buffers[i] # << >>
    <2>1. frames' = [frames EXCEPT ![pe] = <<i>> \o frames[pe]]
      BY <1>2 DEF CallFlush
    <2>2. i \in Indices /\ frames[pe] \in Seq(Indices)
      BY DEF TypedElements
    <2>3. <<i>> \in Seq(Indices)
      BY <2>2
    <2>4. /\ <<i>> \o frames[pe] \in Seq(Indices) /\ Len(<<i>> \o frames[pe]) = Len(frames[pe]) + 1
          /\ (<<i>> \o frames[pe])[1] = i
          /\ \A k \in 1 .. Len(frames[pe]) : (<<i>> \o frames[pe])[k + 1] = frames[pe][k]
          /\ \A k \in 1 .. Len(frames[pe]) + 1 :
               k = 1 \/ (k - 1 \in 1 .. Len(frames[pe])
                         /\ (<<i>> \o frames[pe])[k] = frames[pe][k - 1])
      BY <2>2, <2>3
    <2>5. /\ frames' \in [Pes -> Seq(Indices)] /\ frames'[pe] = <<i>> \o frames[pe]
          /\ \A p \in Pes \ {pe} : frames'[p] = frames[p]
      BY <2>1, <2>4 DEF TypedElements
    <2>6. Loops'
      <3> SUFFICES ASSUME NEW p \in Pes, NEW k \in 1 .. Len(frames'[p])
                   PROVE  frames'[p][k] \in chares' /\ PeFor(frames'[p][k]) = p
        BY DEF Loops
      <3>1. CASE p # pe
        BY <2>5, <3>1 DEF Loops
      <3>2. CASE p = pe /\ k = 1
        BY <2>4, <2>5, <3>2
      <3>3. CASE p = pe /\ k # 1
        <4>1. k - 1 \in 1 .. Len(frames[pe]) /\ frames'[p][k] = frames[pe][k - 1]
          BY <2>4, <2>5, <3>3
        <4>2. QED
          BY <3>3, <4>1 DEF Loops
      <3>4. QED
        BY <3>1, <3>2, <3>3
    <2>7. ASSUME NEW e \in Indices, Active(e) PROVE Active(e)'
      <3>1. PICK k \in 1 .. Len(frames[PeFor(e)]) : frames[PeFor(e)][k] = e
        BY <2>7 DEF Active
      <3>2. PeFor(e) \in Pes
        BY IndexFacts, Constants
      <3>3. CASE PeFor(e) = pe
        <4>1. k + 1 \in 1 .. Len(frames'[pe]) /\ frames'[pe][k + 1] = e
          BY <2>4, <2>5, <3>1, <3>3
        <4>2. QED
          BY <3>3, <4>1 DEF Active
      <3>4. CASE PeFor(e) # pe
        BY <2>5, <3>1, <3>2, <3>4 DEF Active
      <3>5. QED
        BY <3>3, <3>4
    <2>8. Active(i)'
      <3>1. 1 \in 1 .. Len(frames'[pe]) /\ frames'[pe][1] = i
        BY <2>2, <2>4, <2>5
      <3>2. QED
        BY <3>1 DEF Active
    <2>9. QED
      BY <2>5, <2>6, <2>7, <2>8
  <1>3. QED
    BY <1>1, <1>2

(* Handling a message of an element that is there. *)
LEMMA HandleLocal ==
  ASSUME Local, inst' = inst, NEW pe \in Pes, NEW n \in Channels, NEW m \in Messages, NEW rest,
         m.to \in chares, PeFor(m.to) = pe, m.kind \in {"p2p", "bcast"},
         m.bcast # 0 => IsGroup /\ m.kind = "bcast",
         rest \in Seq(Buffered(m.to)),
         \A k \in 1 .. Len(rest) : \E j \in 1 .. Len(buffers[m.to]) : rest[k] = buffers[m.to][j],
         Handle(pe, m, n, rest)
  PROVE  Local'
  <1> DEFINE i == m.to
  <1>1. TypedElements /\ Loops /\ Constructed /\ Waits
    BY DEF Local
  <1>2. i \in Indices /\ i \in Elements /\ chares' = chares
    BY <1>1, IndexFacts DEF TypedElements, Handle
  <1>3. Indices' = Indices /\ Pending' = Pending /\ \A e \in Elements : Buffered(e)' = Buffered(e)
    BY DEF Indices, IsGroup, Pending, Awaiting, Direct, Copies, Unordered, Buffered
  <1>4. ASSUME Run(i, m)
        PROVE  /\ handled' \in [Elements -> Seq(Messages)]
               /\ \A e \in Elements : handled'[e] \in Seq(Runnable(e))'
               /\ delivered' \in [Elements -> Seq(Nat)]
               /\ Constructed'
    <2>1. /\ handled' \in [Elements -> Seq(Messages)]
          /\ \A e \in Elements : handled'[e] \in Seq(Runnable(e))
          /\ delivered' \in [Elements -> Seq(Nat)]
          /\ \A e \in Elements \ {i} : handled'[e] = handled[e]
          /\ handled'[i] = Append(handled[i], m)
      BY <1>1, <1>2, <1>4, RunTyped
    <2>2. handled[i] # << >> /\ handled[i][1].kind = "ctor" /\ handled[i] \in Seq(Messages)
      BY <1>1, <1>2 DEF Constructed, TypedElements
    <2>3. handled'[i] # << >> /\ handled'[i][1] = handled[i][1]
      BY <2>1, <2>2, FirstKept, ZenonT(40)
    <2>4. Constructed'
      BY <1>1, <1>2, <1>3, <2>1, <2>2, <2>3, IndexFacts DEF Constructed
    <2>5. QED
      BY <2>1, <2>4 DEF Runnable
  <1>5. ASSUME NEW r \in Seq(Buffered(i)), buffers' = [buffers EXCEPT ![i] = r]
        PROVE  buffers' \in [Elements -> Seq(Messages)]
               /\ \A e \in Elements : buffers'[e] \in Seq(Buffered(e))'
    <2>1. Buffered(i) \subseteq Messages
      BY DEF Buffered, Direct, Copies
    <2>2. r \in Seq(Messages)
      BY <2>1
    <2>3. QED
      BY <1>1, <1>2, <1>3, <1>5, <2>2 DEF TypedElements
  <1>6. n \in Channels'
    BY <1>3 DEF Channels
  <1>7. CASE m.bcast = 0
    <2>1. /\ Run(i, m) /\ buffers' = [buffers EXCEPT ![i] = rest] /\ net' = n
          /\ UNCHANGED <<last_bcast, frames>>
      BY <1>7 DEF Handle
    <2>2. TypedElements'
      BY <1>1, <1>2, <1>3, <1>4, <1>5, <2>1 DEF TypedElements
    <2>3. Waits'
      <3> SUFFICES ASSUME NEW e \in chares, NEW k \in 1 .. Len(buffers'[e]), buffers'[e][k].bcast = 0
                   PROVE  Active(e)'
        BY <1>2 DEF Waits
      <3>1. PICK j \in 1 .. Len(buffers[e]) : buffers'[e][k] = buffers[e][j]
        <4>1. CASE e = i
          BY <1>1, <1>2, <2>1, <4>1 DEF TypedElements
        <4>2. CASE e # i
          BY <1>1, <1>2, <2>1, <4>2, IndexFacts DEF TypedElements
        <4>3. QED
          BY <4>1, <4>2
      <3>2. QED
        BY <1>1, <2>1, <3>1 DEF Waits, Active
    <2>4. QED
      BY <1>1, <1>2, <1>4, <1>6, <2>1, <2>2, <2>3 DEF Local, Loops
  <1>8. CASE m.bcast # 0 /\ InOrder(m)
    <2>1. /\ last_bcast' = [last_bcast EXCEPT ![i] = last_bcast[i] + 1]
          /\ net' = [n EXCEPT ![pe] = [d \in Pes |-> IF d \in Children[pe]
                                         THEN Append(n[pe][d], [m EXCEPT !.to = d]) ELSE n[pe][d]]]
          /\ Run(i, m) /\ CallFlush(pe, i) /\ UNCHANGED buffers
      BY <1>8 DEF Handle
    <2>2. last_bcast' \in [Elements -> 0 .. BcastMod - 1]
      <3>1. m.bcast = last_bcast[i] + 1 /\ m.bcast \in 0 .. BcastMod - 1
        BY <1>8 DEF InOrder, Messages
      <3>2. QED
        BY <1>1, <1>2, <2>1, <3>1 DEF TypedElements
    <2>3. /\ frames' \in [Pes -> Seq(Indices)] /\ Loops'
          /\ \A e \in Indices : Active(e) => Active(e)'
      BY <1>1, <1>2, <2>1, CallFlushActive
    <2>4. net' \in Channels
      <3>1. ASSUME NEW d \in Children[pe]
            PROVE  d \in Pes /\ [m EXCEPT !.to = d] \in Pending
        <4>1. d \in Pes /\ d \in Indices /\ d \in Elements
          BY <1>8, IndexFacts, Constants
        <4>2. [m EXCEPT !.to = d] \in Copies
          BY <1>8, <4>1 DEF Messages, Copies
        <4>3. QED
          BY <4>1, <4>2 DEF Pending, Awaiting
      <3>2. ASSUME NEW d \in Pes
            PROVE  (IF d \in Children[pe] THEN Append(n[pe][d], [m EXCEPT !.to = d]) ELSE n[pe][d])
                     \in Seq(Pending)
        <4>1. n[pe][d] \in Seq(Pending)
          BY DEF Channels
        <4>2. QED
          BY <3>1, <4>1
      <3>3. QED
        BY <2>1, <3>2 DEF Channels
    <2>5. TypedElements'
      BY <1>1, <1>2, <1>3, <1>4, <2>1, <2>2, <2>3 DEF TypedElements
    <2>6. Waits'
      BY <1>1, <1>2, <2>1, <2>3 DEF Waits, TypedElements
    <2>7. QED
      BY <1>3, <1>4, <2>1, <2>3, <2>4, <2>5, <2>6 DEF Local, Channels
  <1>9. CASE m.bcast # 0 /\ ~InOrder(m)
    <2>1. /\ buffers' = [buffers EXCEPT ![i] = Append(rest, m)] /\ net' = n
          /\ UNCHANGED <<last_bcast, handled, delivered, frames>>
      BY <1>9 DEF Handle, Rebuffer, history
    <2>2. m \in Buffered(i)
      BY <1>2, <1>9 DEF Buffered, Copies
    <2>3. Append(rest, m) \in Seq(Buffered(i))
      BY <2>2
    <2>4. TypedElements'
      BY <1>1, <1>2, <1>3, <1>5, <2>1, <2>3 DEF TypedElements, Runnable
    <2>5. Waits'
      <3> SUFFICES ASSUME NEW e \in chares, NEW k \in 1 .. Len(buffers'[e]), buffers'[e][k].bcast = 0
                   PROVE  Active(e)'
        BY <1>2 DEF Waits
      <3>1. PICK j \in 1 .. Len(buffers[e]) : buffers'[e][k] = buffers[e][j]
        <4>1. CASE e = i
          <5>1. buffers'[i] = Append(rest, m)
            BY <1>1, <1>2, <2>1 DEF TypedElements
          <5>2. k \in 1 .. Len(rest) /\ buffers'[i][k] = rest[k]
            BY <1>9, <4>1, <5>1
          <5>3. QED
            BY <4>1, <5>2
        <4>2. CASE e # i
          BY <1>1, <1>2, <2>1, <4>2, IndexFacts DEF TypedElements
        <4>3. QED
          BY <4>1, <4>2
      <3>2. QED
        BY <1>1, <2>1, <3>1 DEF Waits, Active
    <2>6. QED
      BY <1>1, <1>2, <1>3, <1>6, <2>1, <2>4, <2>5 DEF Local, Loops, Constructed
  <1>10. QED
    BY <1>7, <1>8, <1>9

(* A message that joins a channel. *)
LEMMA PostTyped ==
  ASSUME NEW n \in Channels, NEW p \in Pes, NEW q \in Pes, NEW m \in Pending
  PROVE  Post(n, p, q, m) \in Channels
  <1>1. Append(n[p][q], m) \in Seq(Pending)
    BY DEF Channels
  <1>2. QED
    BY <1>1 DEF Post, Channels

(* The root numbers broadcasts one by one, until the numbers run out. *)
LEMMA NextNumber ==
  ASSUME TypedElements
  PROVE  /\ NextBcast \in 0 .. BcastMod - 1 /\ last_bcast[Root] \in 0 .. BcastMod - 1
         /\ NextBcast # 0 => NextBcast = last_bcast[Root] + 1
         /\ last_bcast[Root] + 1 < BcastMod => NextBcast # 0
  <1>1. Root \in Elements /\ BcastMod \in Nat \ {0, 1}
    BY Constants
  <1>2. last_bcast[Root] \in 0 .. BcastMod - 1
    BY <1>1 DEF TypedElements
  <1>3. last_bcast[Root] + 1 \in 1 .. BcastMod
    BY <1>1, <1>2
  <1>4. CASE last_bcast[Root] + 1 = BcastMod
    <2>1. NextBcast = 0
      BY <1>1, <1>4 DEF NextBcast
    <2>2. QED
      BY <1>1, <1>2, <1>4, <2>1
  <1>5. CASE last_bcast[Root] + 1 # BcastMod
    <2>1. NextBcast = last_bcast[Root] + 1
      BY <1>1, <1>2, <1>3, <1>5 DEF NextBcast
    <2>2. QED
      BY <1>1, <1>2, <1>3, <1>5, <2>1
  <1>6. QED
    BY <1>4, <1>5

LEMMA DeliverNowLocal ==
  ASSUME Local, inst' = inst, NEW pe \in Pes, NEW n \in Channels, NEW m \in Awaiting,
         DeliverNow(pe, m, n)
  PROVE  Local'
  <1>1. TypedElements /\ Loops /\ Constructed /\ Waits /\ m \in Pending /\ m \in Messages
    BY DEF Local, Pending, Awaiting, Direct, Copies, Unordered
  <1>2. Indices' = Indices /\ Pending' = Pending /\ \A e \in Elements : Buffered(e)' = Buffered(e)
    BY DEF Indices, IsGroup, Pending, Awaiting, Direct, Copies, Unordered, Buffered
  <1>3. Channels' = Channels /\ \A e \in Elements : Runnable(e)' = Runnable(e)
    BY <1>2 DEF Channels, Runnable
  <1>4. ASSUME net' \in Channels, UNCHANGED <<chares, last_bcast, buffers, frames, history>>
        PROVE  Local'
    BY <1>1, <1>2, <1>3, <1>4 DEF history, Local, TypedElements, Loops, Constructed, Waits, Active
  <1>5. CASE m.to = ChareMax
    <2>1. OrderBroadcast(pe, m, n) /\ IsGroup /\ m.kind = "bcast"
      BY <1>5, IndexFacts, Constants DEF DeliverNow, Awaiting, Direct, Copies, Unordered
    <2>2. CASE Root \in chares /\ PeFor(Root) = pe
      <3> DEFINE r == [m EXCEPT !.to = Root, !.bcast = NextBcast]
      <3>1. NextBcast \in 0 .. BcastMod - 1 /\ Root \in Elements
        BY <1>1, NextNumber, Constants
      <3>2. r \in Messages /\ r.to = Root /\ r.kind = "bcast"
        BY <1>1, <2>1, <3>1 DEF Messages
      <3>3. Handle(pe, r, n, buffers[Root])
        BY <2>1, <2>2 DEF OrderBroadcast
      <3>4. buffers[Root] \in Seq(Buffered(Root))
        BY <1>1, <3>1 DEF TypedElements
      <3> HIDE DEF r
      <3>5. QED
        BY <2>1, <2>2, <3>2, <3>3, <3>4, HandleLocal
    <2>3. CASE ~(Root \in chares /\ PeFor(Root) = pe)
      <3>1. PeFor(Root) \in Pes
        BY Constants
      <3>2. QED
        BY <1>1, <1>4, <2>1, <2>3, <3>1, PostTyped DEF OrderBroadcast
    <2>4. QED
      BY <2>2, <2>3
  <1>6. CASE m.to # ChareMax
    <2> DEFINE i == m.to
    <2>1. m \in Direct \cup Copies /\ i \in Indices /\ i \in Elements
      BY <1>6, IndexFacts DEF Awaiting, Direct, Copies, Unordered
    <2>2. CASE ConstructChare(pe, m, n)
      <3>1. /\ m.kind = "ctor" /\ PeFor(i) = pe /\ chares' = chares \cup {i}
            /\ Run(i, m) /\ CallFlush(pe, i) /\ net' = n /\ UNCHANGED <<last_bcast, buffers>>
        BY <2>2 DEF ConstructChare, Run
      <3>2. /\ handled' \in [Elements -> Seq(Messages)]
            /\ \A e \in Elements : handled'[e] \in Seq(Runnable(e))
            /\ delivered' \in [Elements -> Seq(Nat)]
            /\ \A e \in Elements \ {i} : handled'[e] = handled[e]
            /\ handled'[i] = Append(handled[i], m)
        BY <1>1, <2>1, <3>1, RunTyped
      <3>3. /\ frames' \in [Pes -> Seq(Indices)] /\ Loops'
            /\ \A e \in Indices : Active(e) => Active(e)'
            /\ buffers[i] # << >> => Active(i)'
        BY <1>1, <2>1, <3>1, CallFlushActive
      <3>4. TypedElements'
        BY <1>1, <1>2, <1>3, <2>1, <3>1, <3>2, <3>3 DEF TypedElements
      <3>5. Waits'
        <4> SUFFICES ASSUME NEW e \in chares', NEW k \in 1 .. Len(buffers[e]), buffers[e][k].bcast = 0
                     PROVE  Active(e)'
          BY <3>1 DEF Waits
        <4>1. CASE e = i
          <5>1. buffers[i] # << >>
            BY <4>1
          <5>2. QED
            BY <3>3, <4>1, <5>1
        <4>2. CASE e # i
          BY <1>1, <3>1, <3>3, <4>2 DEF Waits, TypedElements
        <4>3. QED
          BY <4>1, <4>2
      <3>6. Constructed'
        <4>1. handled'[i] # << >> /\ handled'[i][1].kind = "ctor"
          <5>1. handled[i] \in Seq(Messages)
            BY <1>1, <2>1 DEF TypedElements
          <5>2. CASE handled[i] = << >>
            BY <3>1, <3>2, <5>2
          <5>3. CASE handled[i] # << >>
            <6>1. handled[i][1].kind = "ctor"
              BY <1>1, <2>1, <5>3 DEF Constructed
            <6>2. QED
              BY <3>2, <5>1, <5>3, <6>1, FirstKept
          <5>4. QED
            BY <5>2, <5>3
        <4>2. QED
          BY <1>1, <1>2, <3>1, <3>2, <4>1, IndexFacts DEF Constructed
      <3>7. QED
        BY <1>3, <3>1, <3>3, <3>4, <3>5, <3>6 DEF Local
    <2>3. CASE InvokeChare(pe, m, n)
      <3>1. /\ i \in chares /\ PeFor(i) = pe /\ m.kind # "ctor" /\ Handle(pe, m, n, buffers[i])
            /\ buffers[i] \in Seq(Buffered(i))
        BY <1>1, <2>1, <2>3 DEF InvokeChare, TypedElements
      <3>2. m.kind \in {"p2p", "bcast"} /\ (m.bcast # 0 => IsGroup /\ m.kind = "bcast")
        BY <2>1, <3>1 DEF Direct, Copies
      <3>3. QED
        BY <1>1, <3>1, <3>2, HandleLocal
    <2>4. CASE BufferMessage(pe, m, n)
      <3>1. /\ m.kind # "ctor" /\ i \notin chares /\ net' = n
            /\ buffers' = [buffers EXCEPT ![i] = Append(buffers[i], m)]
            /\ UNCHANGED <<chares, last_bcast, frames, handled, delivered>>
        BY <2>4 DEF BufferMessage, history
      <3>2. m \in Buffered(i) /\ buffers[i] \in Seq(Buffered(i)) /\ buffers[i] \in Seq(Messages)
        BY <1>1, <2>1, <3>1 DEF Buffered, TypedElements
      <3>3. Append(buffers[i], m) \in Seq(Buffered(i)) /\ Append(buffers[i], m) \in Seq(Messages)
        BY <1>1, <3>2
      <3>4. TypedElements'
        BY <1>1, <1>2, <1>3, <2>1, <3>1, <3>3 DEF TypedElements
      <3>5. \A e \in chares : buffers'[e] = buffers[e]
        BY <1>1, <3>1, IndexFacts DEF TypedElements
      <3>6. QED
        BY <1>1, <1>2, <1>3, <3>1, <3>4, <3>5 DEF Local, Loops, Constructed, Waits, Active
    <2>5. CASE RouteMessage(pe, m, n)
      <3>1. PeFor(i) \in Pes
        BY <2>1, Constants
      <3>2. QED
        BY <1>1, <1>4, <2>5, <3>1, PostTyped DEF RouteMessage
    <2>6. QED
      BY <1>6, <2>2, <2>3, <2>4, <2>5 DEF DeliverNow
  <1>7. QED
    BY <1>5, <1>6

LEMMA DeliverBasic ==
  ASSUME Table, Local, inst' = inst, NEW pe \in Pes, NEW n \in Channels, NEW m \in Pending,
         Idle(pe), Deliver(pe, m, n)
  PROVE  Table' /\ Local'
  <1>1. /\ Awaiting' = Awaiting /\ Channels' = Channels /\ Indices' = Indices
        /\ \A e \in Elements : Runnable(e)' = Runnable(e) /\ Buffered(e)' = Buffered(e)
    BY DEF Channels, Indices, IsGroup, Pending, Awaiting, Direct, Copies, Unordered,
           Runnable, Buffered
  <1>2. ASSUME net' = n, UNCHANGED <<chares, last_bcast, buffers, frames, history>>
        PROVE  Local'
    BY <1>1, <1>2 DEF history, Local, TypedElements, Loops, Constructed, Waits, Active
  <1>3. CASE CreateCollective(pe, m, n)
    <2>1. /\ created' = [created EXCEPT ![pe] = TRUE]
          /\ cflush' = [cflush EXCEPT ![pe] = cbuf[pe] # << >>]
          /\ cbuf' = cbuf
      BY <1>3 DEF CreateCollective
    <2>2. PICK b \in BOOLEAN : b <=> cbuf[pe] # << >>
      <3>1. (cbuf[pe] # << >>) \in BOOLEAN
        OBVIOUS
      <3>2. QED
        BY <3>1, Zenon
    <2>3. cflush' \in [Pes -> BOOLEAN] /\ (cflush'[pe] <=> b)
          /\ \A p \in Pes \ {pe} : cflush'[p] = cflush[p]
      <3>1. cflush' = [cflush EXCEPT ![pe] = b]
        BY <2>1, <2>2
      <3>2. QED
        BY <3>1 DEF Table
    <2>4. created' \in [Pes -> BOOLEAN] /\ created'[pe]
          /\ \A p \in Pes \ {pe} : created'[p] = created[p]
      BY <2>1 DEF Table
    <2>5. Table'
      BY <1>1, <2>1, <2>2, <2>3, <2>4 DEF Table
    <2>6. QED
      BY <1>2, <1>3, <2>5 DEF CreateCollective
  <1>4. CASE AwaitCollective(pe, m, n)
    <2>1. /\ m.kind # "create" /\ ~created[pe]
          /\ cbuf' = [cbuf EXCEPT ![pe] = Append(cbuf[pe], m)]
          /\ UNCHANGED <<created, cflush>>
      BY <1>4 DEF AwaitCollective
    <2>2. m \in Awaiting
      BY <2>1 DEF Pending
    <2>3. /\ cbuf' \in [Pes -> Seq(Awaiting)]
          /\ \A p \in Pes \ {pe} : cbuf'[p] = cbuf[p]
      BY <2>1, <2>2 DEF Table
    <2>4. Table'
      BY <1>1, <2>1, <2>3 DEF Table
    <2>5. QED
      BY <1>2, <1>4, <2>4 DEF AwaitCollective
  <1>5. CASE m.kind # "create" /\ created[pe] /\ DeliverNow(pe, m, n) /\ UNCHANGED table
    <2>1. m \in Awaiting
      BY <1>5 DEF Pending
    <2>2. Table'
      BY <1>1, <1>5 DEF Table, table
    <2>3. QED
      BY <1>5, <2>1, <2>2, DeliverNowLocal
  <1>6. QED
    BY <1>3, <1>4, <1>5 DEF Deliver

(* The messages clients make. *)
LEMMA MessageTyped ==
  ASSUME NEW id \in Nat
  PROVE  /\ Message("create", id, ChareMax) \in Pending
         /\ \A i \in Indices : \A k \in {"ctor", "p2p"} : Message(k, id, i) \in Direct
         /\ IsGroup => Message("bcast", id, ChareMax) \in Unordered
         /\ Direct \cup Unordered \subseteq Awaiting /\ Awaiting \subseteq Pending
  BY IndexFacts, Constants DEF Message, Messages, Pending, Awaiting, Direct, Copies, Unordered

(* Removing a message of a channel leaves a channel. *)
LEMMA RemoveTyped ==
  ASSUME NEW X, NEW q \in Seq(X), NEW k \in 1 .. Len(q)
  PROVE  /\ RemoveAt(q, k) \in Seq(X) /\ Len(RemoveAt(q, k)) = Len(q) - 1
         /\ \A j \in 1 .. Len(q) - 1 : RemoveAt(q, k)[j] = IF j < k THEN q[j] ELSE q[j + 1]
  <1> DEFINE a == SubSeq(q, 1, k - 1)
             b == SubSeq(q, k + 1, Len(q))
  <1>1. /\ a \in Seq(X) /\ Len(a) = k - 1 /\ \A j \in 1 .. k - 1 : a[j] = q[j]
    OBVIOUS
  <1>2. /\ b \in Seq(X) /\ Len(b) = Len(q) - k /\ \A j \in 1 .. Len(q) - k : b[j] = q[k + j]
    OBVIOUS
  <1>3. RemoveAt(q, k) = a \o b
    BY DEF RemoveAt
  <1> HIDE DEF a, b
  <1>4. /\ a \o b \in Seq(X) /\ Len(a \o b) = Len(a) + Len(b)
        /\ \A j \in 1 .. Len(a) + Len(b) : (a \o b)[j] = IF j <= Len(a) THEN a[j] ELSE b[j - Len(a)]
    <2>1. a \in Seq(X) /\ b \in Seq(X)
      BY <1>1, <1>2
    <2>2. QED
      BY <2>1, ConcatProperties
  <1>5. Len(q) \in Nat /\ Len(a) + Len(b) = Len(q) - 1
    BY <1>1, <1>2
  <1>6. ASSUME NEW j \in 1 .. Len(q) - 1
        PROVE  (a \o b)[j] = IF j < k THEN q[j] ELSE q[j + 1]
    <2>1. CASE j < k
      BY <1>1, <1>4, <1>5, <2>1
    <2>2. CASE ~(j < k)
      <3>1. j - (k - 1) \in 1 .. Len(q) - k /\ k + (j - (k - 1)) = j + 1
        BY <2>2
      <3>2. (a \o b)[j] = b[j - (k - 1)]
        BY <1>1, <1>4, <1>5, <2>2
      <3>3. QED
        BY <1>2, <2>2, <3>1, <3>2
    <2>3. QED
      BY <2>1, <2>2
  <1>7. QED
    BY <1>3, <1>4, <1>5, <1>6

-----------------------------------------------------------------------------
LEMMA BasicInit == Init => Basic
  <1> SUFFICES ASSUME Init PROVE Basic
    OBVIOUS
  <1>1. << >> \in Seq(Pending) /\ << >> \in Seq(Awaiting) /\ << >> \in Seq(Messages)
        /\ << >> \in Seq(Indices) /\ << >> \in Seq(Nat)
        /\ \A i \in Elements : << >> \in Seq(Buffered(i)) /\ << >> \in Seq(Runnable(i))
    OBVIOUS
  <1>2. inst \in Instances /\ inst.sends \in Nat /\ inst.bcasts \in Nat
    BY CollectiveAssumption DEF Init
  <1>3. Clients
    <2>1. sends = 0 /\ bcasts = 0 /\ made = FALSE /\ inserted = {}
      BY DEF Init
    <2>2. 0 \in 0 .. inst.sends /\ 0 \in 0 .. inst.bcasts
      BY <1>2
    <2>3. QED
      BY <1>2, <2>1, <2>2 DEF Clients
  <1>4. Table
    BY <1>1 DEF Init, Table
  <1>5. TypedElements
    BY <1>1, Constants DEF Init, TypedElements
  <1>6. net \in Channels /\ Loops /\ Constructed /\ Waits
    BY <1>1, IndexFacts DEF Init, Channels, Loops, Constructed, Waits
  <1>7. QED
    BY <1>3, <1>4, <1>5, <1>6 DEF Basic, Local

(* PostAll puts one message at the end of each channel of a PE. *)
LEMMA PostAllTyped ==
  ASSUME NEW n \in Channels, NEW p \in Pes, NEW f, \A d \in Pes : f[d] \in Pending
  PROVE  [n EXCEPT ![p] = [d \in Pes |-> Append(n[p][d], f[d])]] \in Channels
  <1>1. ASSUME NEW d \in Pes PROVE Append(n[p][d], f[d]) \in Seq(Pending)
    <2>1. n[p][d] \in Seq(Pending) /\ f[d] \in Pending
      BY DEF Channels
    <2>2. QED
      BY <2>1
  <1>2. QED
    BY <1>1 DEF Channels

(* What construct puts into the channels of the creator. *)
LEMMA ConstructNet ==
  ASSUME net \in Channels
  PROVE  LET create == Message("create", 0, ChareMax)
             n == PostAll(net, Creator, create)
         IN  /\ create \in Pending
             /\ n \in Channels
             /\ n = [net EXCEPT ![Creator] = [d \in Pes |-> Append(net[Creator][d], create)]]
             /\ IsGroup =>
                  [n EXCEPT ![Creator] = [d \in Pes |-> Append(n[Creator][d],
                     Message("ctor", 0, ElementOf(d)))]] \in Channels
  <1> DEFINE create == Message("create", 0, ChareMax)
             n == PostAll(net, Creator, create)
             f == [d \in Pes |-> create]
             g == [d \in Pes |-> Message("ctor", 0, ElementOf(d))]
  <1>1. create \in Pending /\ Creator \in Pes
    BY MessageTyped, CollectiveAssumption
  <1>2. n = [net EXCEPT ![Creator] = [d \in Pes |-> Append(net[Creator][d], create)]]
    BY <1>1 DEF PostAll, Channels
  <1>3. n = [net EXCEPT ![Creator] = [d \in Pes |-> Append(net[Creator][d], f[d])]]
    BY <1>2
  <1>4. n \in Channels
    <2> HIDE DEF create, n
    <2>1. \A d \in Pes : f[d] \in Pending
      BY <1>1
    <2> HIDE DEF f
    <2>2. QED
      BY <1>1, <1>3, <2>1, PostAllTyped
  <1>5. ASSUME IsGroup
        PROVE  [n EXCEPT ![Creator] = [d \in Pes |-> Append(n[Creator][d], g[d])]] \in Channels
    <2>1. ASSUME NEW d \in Pes PROVE g[d] \in Pending
      <3>1. d \in Indices /\ ElementOf(d) = d
        BY <1>5, IndexFacts DEF ElementOf
      <3>2. Message("ctor", 0, d) \in Direct
        BY <3>1, MessageTyped
      <3>3. QED
        BY <3>1, <3>2, MessageTyped
    <2> HIDE DEF n, g
    <2>2. QED
      BY <1>1, <1>4, <2>1, PostAllTyped
  <1>6. QED
    BY <1>1, <1>2, <1>4, <1>5

LEMMA BasicConstruct ==
  ASSUME Basic, ConstructGroup \/ ConstructArray
  PROVE  Basic'
  <1>1. net' \in Channels /\ made' \in BOOLEAN /\ inserted' \subseteq Indices
    BY ConstructNet DEF Basic, Clients, Local, ConstructGroup, ConstructArray
  <1>2. UNCHANGED <<inst, table, chares, last_bcast, buffers, frames, history, sends, bcasts>>
    BY DEF ConstructGroup, ConstructArray
  <1>3. /\ Awaiting' = Awaiting /\ Channels' = Channels /\ Indices' = Indices
        /\ \A e \in Elements : Runnable(e)' = Runnable(e) /\ Buffered(e)' = Buffered(e)
    BY <1>2 DEF Channels, Indices, IsGroup, Pending, Awaiting, Direct, Copies, Unordered,
                Runnable, Buffered
  <1>4. Local'
    BY <1>1, <1>2, <1>3 DEF history, Basic, Local, TypedElements, Loops, Constructed, Waits, Active
  <1>5. Table' /\ Clients'
    BY <1>1, <1>2, <1>3 DEF Basic, Table, table, Clients
  <1>6. QED
    BY <1>4, <1>5 DEF Basic

LEMMA BasicSend ==
  ASSUME Basic, NEW pe \in Pes, NEW i \in Indices, Insert(pe, i) \/ Send(pe, i)
  PROVE  Basic'
  <1>1. /\ Clients /\ Table /\ Local /\ net \in Channels /\ inst' = inst /\ Indices' = Indices
        /\ Idle(pe) /\ sends \in Nat /\ sends' \in 0 .. inst.sends
    <2>1. inst.sends \in Nat
      BY CollectiveAssumption DEF Basic, Clients
    <2>2. QED
      BY <2>1 DEF Basic, Clients, Local, Insert, Send, Indices, IsGroup
  <1>2. Clients'
    BY <1>1 DEF Clients, Insert, Send
  <1>3. PICK m \in Direct : Deliver(pe, m, net)
    BY <1>1, MessageTyped DEF Insert, Send
  <1>4. m \in Pending
    BY MessageTyped
  <1>5. QED
    BY <1>1, <1>2, <1>3, <1>4, DeliverBasic DEF Basic

LEMMA BasicBroadcast ==
  ASSUME Basic, NEW pe \in Pes, Broadcast(pe)
  PROVE  Basic'
  <1> DEFINE m == Message("bcast", bcasts', ChareMax)
  <1>1. /\ Clients /\ Table /\ Local
        /\ bcasts' \in Nat /\ bcasts' \in 0 .. inst.bcasts
        /\ UNCHANGED <<inst, made, created, cflush, chares, last_bcast, buffers, frames,
                       history, inserted, sends>>
    <2>1. inst.bcasts \in Nat
      BY CollectiveAssumption DEF Basic, Clients
    <2>2. QED
      BY <2>1 DEF Basic, Clients, Broadcast
  <1>2. m \in Awaiting /\ m \in Pending
    BY <1>1, MessageTyped DEF Broadcast
  <1>3. /\ Awaiting' = Awaiting /\ Channels' = Channels /\ Indices' = Indices
        /\ \A e \in Elements : Runnable(e)' = Runnable(e) /\ Buffered(e)' = Buffered(e)
    BY <1>1 DEF Channels, Indices, IsGroup, Pending, Awaiting, Direct, Copies, Unordered,
                Runnable, Buffered
  <1>4. \/ net' = Post(net, pe, PeFor(ChareMax), m) /\ cbuf' = cbuf
        \/ ~created[pe] /\ cbuf' = [cbuf EXCEPT ![pe] = Append(cbuf[pe], m)] /\ net' = net
    BY DEF Broadcast
  <1> HIDE DEF m
  <1>5. net' \in Channels
    <2>1. PeFor(ChareMax) \in Pes
      BY Constants
    <2>2. QED
      BY <1>1, <1>2, <1>4, <2>1, PostTyped DEF Local
  <1>6. Table'
    <2>1. /\ cbuf' \in [Pes -> Seq(Awaiting)]
          /\ \A p \in Pes : cbuf'[p] = cbuf[p] \/ (p = pe /\ ~created[pe])
      <3>1. CASE cbuf' = cbuf
        BY <1>1, <3>1 DEF Table
      <3>2. CASE ~created[pe] /\ cbuf' = [cbuf EXCEPT ![pe] = Append(cbuf[pe], m)]
        <4>1. cbuf[pe] \in Seq(Awaiting) /\ cbuf \in [Pes -> Seq(Awaiting)]
          BY <1>1 DEF Table
        <4>2. Append(cbuf[pe], m) \in Seq(Awaiting)
          BY <1>2, <4>1
        <4>3. QED
          BY <3>2, <4>1, <4>2
      <3>3. QED
        BY <1>4, <3>1, <3>2
    <2>2. QED
      BY <1>1, <1>3, <2>1 DEF Table
  <1>7. Local'
    BY <1>1, <1>3, <1>5 DEF history, Local, TypedElements, Loops, Constructed, Waits, Active
  <1>8. Clients'
    BY <1>1, <1>3 DEF Clients
  <1>9. QED
    BY <1>6, <1>7, <1>8 DEF Basic

LEMMA BasicReceive ==
  ASSUME Basic, NEW pe \in Pes, NEW src \in Pes, Receive(pe, src)
  PROVE  Basic'
  <1>1. /\ Clients /\ Table /\ Local /\ net \in Channels /\ Idle(pe)
        /\ UNCHANGED <<inst, made, inserted, sends, bcasts>>
    BY DEF Basic, Local, Receive, ReceiveNth, client
  <1>2. PICK k \in DOMAIN net[src][pe] :
          Deliver(pe, net[src][pe][k], [net EXCEPT ![src][pe] = RemoveAt(net[src][pe], k)])
    BY DEF Receive, ReceiveNth
  <1>3. net[src][pe] \in Seq(Pending) /\ k \in 1 .. Len(net[src][pe])
    BY <1>1 DEF Channels
  <1>4. net[src][pe][k] \in Pending /\ RemoveAt(net[src][pe], k) \in Seq(Pending)
    BY <1>3, RemoveTyped
  <1>5. [net EXCEPT ![src][pe] = RemoveAt(net[src][pe], k)] \in Channels
    BY <1>1, <1>4 DEF Channels
  <1>6. Clients'
    BY <1>1 DEF Clients, Indices, IsGroup
  <1>7. QED
    BY <1>1, <1>2, <1>4, <1>5, <1>6, DeliverBasic DEF Basic

LEMMA BasicFlushCollective ==
  ASSUME Basic, NEW pe \in Pes, FlushCollectiveBuffer(pe)
  PROVE  Basic'
  <1>1. /\ Clients /\ Table /\ Local /\ net \in Channels
        /\ UNCHANGED <<inst, made, inserted, sends, bcasts, created>>
    BY DEF Basic, Local, FlushCollectiveBuffer, client
  <1>2. /\ cbuf[pe] \in Seq(Awaiting) /\ cbuf[pe] # << >> /\ created[pe]
        /\ DeliverNow(pe, Head(cbuf[pe]), net)
        /\ cbuf' = [cbuf EXCEPT ![pe] = Tail(cbuf[pe])]
        /\ cflush' = [cflush EXCEPT ![pe] = Len(cbuf[pe]) > 1]
    BY <1>1 DEF Table, FlushCollectiveBuffer
  <1>3. Local'
    <2>1. Head(cbuf[pe]) \in Awaiting
      BY <1>2
    <2>2. QED
      BY <1>1, <1>2, <2>1, DeliverNowLocal
  <1>4. Awaiting' = Awaiting /\ Indices' = Indices
    BY <1>1 DEF Indices, IsGroup, Pending, Awaiting, Direct, Copies, Unordered
  <1>5. Table'
    <2> DEFINE more == Len(cbuf[pe]) > 1
    <2>1. more \in BOOLEAN
      OBVIOUS
    <2>2. cflush' = [cflush EXCEPT ![pe] = more] /\ cflush \in [Pes -> BOOLEAN]
      BY <1>1, <1>2 DEF Table
    <2>3. /\ cflush' \in [Pes -> BOOLEAN] /\ cflush'[pe] = more
          /\ \A p \in Pes \ {pe} : cflush'[p] = cflush[p]
      <3> HIDE DEF more
      <3>1. QED
        BY <2>1, <2>2, Zenon
    <2>4. Tail(cbuf[pe]) \in Seq(Awaiting) /\ (Tail(cbuf[pe]) # << >> <=> more)
      <3>1. Len(Tail(cbuf[pe])) = Len(cbuf[pe]) - 1 /\ Tail(cbuf[pe]) \in Seq(Awaiting)
            /\ Len(cbuf[pe]) \in Nat \ {0}
        BY <1>2
      <3>2. PICK t \in Seq(Awaiting) : t = Tail(cbuf[pe]) /\ Len(t) = Len(cbuf[pe]) - 1
        BY <3>1
      <3>3. t # << >> <=> Len(t) > 0
        OBVIOUS
      <3>4. QED
        BY <3>1, <3>2, <3>3
    <2>5. /\ cbuf' \in [Pes -> Seq(Awaiting)] /\ cbuf'[pe] = Tail(cbuf[pe])
          /\ \A p \in Pes \ {pe} : cbuf'[p] = cbuf[p]
      BY <1>1, <1>2, <2>4 DEF Table
    <2>6. QED
      BY <1>1, <1>2, <1>4, <2>3, <2>4, <2>5 DEF Table
  <1>6. Clients'
    BY <1>1, <1>4 DEF Clients
  <1>7. QED
    BY <1>3, <1>5, <1>6 DEF Basic

LEMMA BasicFlush ==
  ASSUME Basic, NEW pe \in Pes, FlushBuffers(pe)
  PROVE  Basic'
  <1> DEFINE i == Head(frames[pe])
             m == Head(buffers[i])
  <1>1. /\ Clients /\ Table /\ Local /\ net \in Channels /\ TypedElements /\ Loops /\ Constructed /\ Waits
        /\ UNCHANGED <<inst, made, inserted, sends, bcasts, created, cflush, cbuf>>
    BY DEF Basic, Local, FlushBuffers, client, table
  <1>2. frames[pe] \in Seq(Indices) /\ frames[pe] # << >> /\ 1 \in 1 .. Len(frames[pe])
        /\ i = frames[pe][1]
    BY <1>1 DEF TypedElements, FlushBuffers
  <1>3. i \in chares /\ PeFor(i) = pe /\ i \in Indices /\ i \in Elements
    BY <1>1, <1>2, IndexFacts DEF Loops, TypedElements
  <1>4. Awaiting' = Awaiting /\ Indices' = Indices /\ Channels' = Channels
        /\ \A e \in Elements : Runnable(e)' = Runnable(e) /\ Buffered(e)' = Buffered(e)
    BY <1>1 DEF Indices, IsGroup, Pending, Awaiting, Direct, Copies, Unordered, Channels,
                Runnable, Buffered
  <1>5. Table' /\ Clients'
    BY <1>1, <1>4 DEF Table, Clients
  <1> HIDE DEF i
  <1>6. CASE buffers[i] # << >> /\ Handle(pe, m, net, Tail(buffers[i]))
    <2>1. buffers[i] \in Seq(Buffered(i)) /\ m \in Buffered(i) /\ Tail(buffers[i]) \in Seq(Buffered(i))
      BY <1>1, <1>3, <1>6 DEF TypedElements
    <2>2. \A k \in 1 .. Len(Tail(buffers[i])) : k + 1 \in 1 .. Len(buffers[i])
            /\ Tail(buffers[i])[k] = buffers[i][k + 1]
      BY <1>6, <2>1
    <2> HIDE DEF m
    <2>3. /\ m \in Messages /\ m.to = i /\ m.kind \in {"p2p", "bcast"}
          /\ m.bcast # 0 => IsGroup /\ m.kind = "bcast"
      BY <2>1 DEF Buffered, Direct, Copies
    <2>4. Local'
      BY <1>1, <1>3, <1>6, <2>1, <2>2, <2>3, HandleLocal
    <2>5. QED
      BY <1>5, <2>4 DEF Basic
  <1>7. CASE /\ buffers[i] = << >>
             /\ frames' = [frames EXCEPT ![pe] = Tail(frames[pe])]
             /\ UNCHANGED <<net, chares, last_bcast, buffers, history>>
    <2>1. /\ Tail(frames[pe]) \in Seq(Indices) /\ Len(Tail(frames[pe])) = Len(frames[pe]) - 1
          /\ \A k \in 1 .. Len(frames[pe]) - 1 : Tail(frames[pe])[k] = frames[pe][k + 1]
      BY <1>2
    <2>2. /\ frames' \in [Pes -> Seq(Indices)] /\ frames'[pe] = Tail(frames[pe])
          /\ \A p \in Pes \ {pe} : frames'[p] = frames[p]
      BY <1>1, <1>7, <2>1 DEF TypedElements
    <2>3. Loops'
      <3> SUFFICES ASSUME NEW p \in Pes, NEW k \in 1 .. Len(frames'[p])
                   PROVE  frames'[p][k] \in chares /\ PeFor(frames'[p][k]) = p
        BY <1>7 DEF Loops
      <3>1. CASE p = pe
        <4>1. k + 1 \in 1 .. Len(frames[pe]) /\ frames'[pe][k] = frames[pe][k + 1]
          BY <1>2, <2>1, <2>2, <3>1
        <4>2. QED
          BY <1>1, <3>1, <4>1 DEF Loops
      <3>2. CASE p # pe
        BY <1>1, <2>2, <3>2 DEF Loops
      <3>3. QED
        BY <3>1, <3>2
    <2>4. Waits'
      <3> SUFFICES ASSUME NEW e \in chares, NEW k \in 1 .. Len(buffers[e]), buffers[e][k].bcast = 0
                   PROVE  Active(e)'
        BY <1>7 DEF Waits
      <3>1. Active(e) /\ e # i /\ e \in Indices /\ PeFor(e) \in Pes
        <4>1. Active(e) /\ e \in Indices
          BY <1>1 DEF Waits, TypedElements
        <4>2. PeFor(e) \in Pes
          BY <4>1, IndexFacts, Constants
        <4>3. e # i
          BY <1>7
        <4>4. QED
          BY <4>1, <4>2, <4>3
      <3>2. PICK j \in 1 .. Len(frames[PeFor(e)]) : frames[PeFor(e)][j] = e
        BY <3>1 DEF Active
      <3>3. CASE PeFor(e) = pe
        <4>1. j # 1
          BY <1>2, <3>1, <3>2, <3>3
        <4>2. j - 1 \in 1 .. Len(frames[pe]) - 1 /\ (j - 1) + 1 = j
          BY <1>2, <3>2, <3>3, <4>1
        <4>3. j - 1 \in 1 .. Len(frames'[pe]) /\ frames'[pe][j - 1] = e
          BY <2>1, <2>2, <3>2, <3>3, <4>2
        <4>4. QED
          BY <3>3, <4>3 DEF Active
      <3>4. CASE PeFor(e) # pe
        BY <2>2, <3>1, <3>2, <3>4 DEF Active
      <3>5. QED
        BY <3>3, <3>4
    <2>5. Local'
      BY <1>1, <1>4, <1>7, <2>2, <2>3, <2>4 DEF history, Local, TypedElements, Constructed
    <2>6. QED
      BY <1>5, <2>5 DEF Basic
  <1>8. QED
    BY <1>6, <1>7 DEF FlushBuffers, i

LEMMA BasicNext == Basic /\ [Next]_vars => Basic'
  <1> SUFFICES ASSUME Basic, [Next]_vars PROVE Basic'
    OBVIOUS
  <1>1. CASE ConstructGroup \/ ConstructArray
    BY <1>1, BasicConstruct
  <1>2. ASSUME NEW pe \in Pes, NEW i \in Indices, Insert(pe, i) \/ Send(pe, i) PROVE Basic'
    BY <1>2, BasicSend
  <1>3. ASSUME NEW pe \in Pes, Broadcast(pe) PROVE Basic'
    BY <1>3, BasicBroadcast
  <1>4. ASSUME NEW pe \in Pes, PeStep(pe) PROVE Basic'
    BY <1>4, BasicFlushCollective, BasicFlush, BasicReceive DEF PeStep
  <1>5. CASE UNCHANGED vars
    <2>1. /\ Awaiting' = Awaiting /\ Indices' = Indices /\ Channels' = Channels
          /\ \A e \in Elements : Runnable(e)' = Runnable(e) /\ Buffered(e)' = Buffered(e)
      BY <1>5 DEF vars, Indices, IsGroup, Pending, Awaiting, Direct, Copies, Unordered, Channels,
                  Runnable, Buffered
    <2>2. Clients' /\ Table'
      BY <1>5, <2>1 DEF vars, Basic, Clients, Table
    <2>3. Local'
      BY <1>5, <2>1 DEF vars, Basic, Local, TypedElements, Loops, Constructed, Waits, Active
    <2>4. QED
      BY <2>2, <2>3 DEF Basic
  <1>6. QED
    BY <1>1, <1>2, <1>3, <1>4, <1>5 DEF Next

(***************************************************************************)
(* No message is left in a buffer nobody will flush (deliver_to_endpoint_, *)
(* try_deliver and flush_buffers), for any number of PEs, any collective   *)
(* and any programs, whatever overtakes what.                              *)
(***************************************************************************)
THEOREM NothingIsStranded == Spec => []NoStrandedMessage
  <1>1. Basic => NoStrandedMessage
    <2> SUFFICES ASSUME Basic PROVE NoStrandedMessage
      OBVIOUS
    <2>1. \A pe \in Pes : created[pe] /\ cbuf[pe] # << >> => cflush[pe]
      BY DEF Basic, Table
    <2>2. ASSUME NEW i \in chares, NEW m \in Ran(buffers[i]), m.bcast = 0
          PROVE  i \in Ran(frames[PeFor(i)])
      <3>1. i \in Indices /\ i \in Elements /\ PeFor(i) \in Pes
        BY IndexFacts, Constants DEF Basic, Local, TypedElements
      <3>2. buffers[i] \in Seq(Messages) /\ frames[PeFor(i)] \in Seq(Indices)
        BY <3>1 DEF Basic, Local, TypedElements
      <3>3. Active(i)
        BY <2>2, <3>2 DEF Ran, Basic, Local, Waits
      <3>4. QED
        BY <3>2, <3>3 DEF Active, Ran
    <2>3. QED
      BY <2>1, <2>2 DEF NoStrandedMessage
  <1>2. QED
    BY <1>1, BasicInit, BasicNext, PTL DEF Spec

-----------------------------------------------------------------------------
(* What is where: n, c, b and h are the network and the other places. *)
Held(n, c, b, h, place) ==
  CASE place[1] = "net"     -> n[place[2]][place[3]]
    [] place[1] = "cbuf"    -> c[place[2]]
    [] place[1] = "buffer"  -> b[place[2]]
    [] place[1] = "handled" -> h[place[2]]

Where(n, c, b, h) == [place \in Places |-> Held(n, c, b, h, place)]

NoneIn(w, S) == \A place \in Places : \A k \in 1 .. Len(w[place]) : w[place][k] \notin S

OneIn(w, S) ==
  \E place \in Places : \E k \in 1 .. Len(w[place]) :
    /\ w[place][k] \in S
    /\ \A other \in Places : \A j \in 1 .. Len(w[other]) :
         w[other][j] \in S => other = place /\ j = k

Ctor(i) == {m \in Messages : m.kind = "ctor" /\ m.to = i}
P2p(id) == {m \in Messages : m.kind = "p2p" /\ m.id = id}
Bcast(id) == {m \in Messages : m.kind = "bcast" /\ m.id = id /\ m.to = ChareMax}

Now == Where(net, cbuf, buffers, handled)

(* One message for each thing that was asked for. *)
Conserved ==
  /\ \A i \in Indices : IF i \in inserted THEN OneIn(Now, Ctor(i)) ELSE NoneIn(Now, Ctor(i))
  /\ \A id \in Nat \ {0} : IF id <= sends THEN OneIn(Now, P2p(id)) ELSE NoneIn(Now, P2p(id))

Made == /\ ~made => inserted = {}
        /\ made /\ IsGroup => inserted = Indices

-----------------------------------------------------------------------------
(* The places, one by one. *)
LEMMA PlaceCases ==
  ASSUME NEW place \in Places
  PROVE  \/ \E p, q \in Pes : place = <<"net", p, q>>
         \/ \E p \in Pes : place = <<"cbuf", p>>
         \/ \E i \in Elements : place = <<"buffer", i>> \/ place = <<"handled", i>>
  BY DEF Places

LEMMA WhereAt ==
  ASSUME NEW n, NEW c, NEW b, NEW h
  PROVE  /\ \A p, q \in Pes : /\ <<"net", p, q>> \in Places
                              /\ Where(n, c, b, h)[<<"net", p, q>>] = n[p][q]
         /\ \A p \in Pes : /\ <<"cbuf", p>> \in Places
                           /\ Where(n, c, b, h)[<<"cbuf", p>>] = c[p]
         /\ \A i \in Elements : /\ <<"buffer", i>> \in Places
                                /\ Where(n, c, b, h)[<<"buffer", i>>] = b[i]
         /\ \A i \in Elements : /\ <<"handled", i>> \in Places
                                /\ Where(n, c, b, h)[<<"handled", i>>] = h[i]
  BY DEF Places, Where, Held

Holdings == [Places -> Seq(Messages)]

(* Messages that are not of S come in. *)
LEMMA GrowKeeps ==
  ASSUME NEW w \in Holdings, NEW v \in Holdings, NEW S,
         \A place \in Places :
           \/ v[place] = w[place]
           \/ \E x \in Messages : x \notin S /\ v[place] = Append(w[place], x)
  PROVE  (NoneIn(w, S) => NoneIn(v, S)) /\ (OneIn(w, S) => OneIn(v, S))
  <1>1. ASSUME NEW place \in Places
        PROVE  /\ \A k \in 1 .. Len(v[place]) : v[place][k] \in S =>
                    k \in 1 .. Len(w[place]) /\ w[place][k] \in S
               /\ \A k \in 1 .. Len(w[place]) : w[place][k] \in S =>
                    k \in 1 .. Len(v[place]) /\ v[place][k] \in S
    <2>1. w[place] \in Seq(Messages)
      BY DEF Holdings
    <2>2. CASE v[place] = w[place]
      BY <2>2
    <2>3. CASE \E x \in Messages : x \notin S /\ v[place] = Append(w[place], x)
      BY <2>1, <2>3
    <2>4. QED
      BY <2>2, <2>3
  <1>2. NoneIn(w, S) => NoneIn(v, S)
    BY <1>1 DEF NoneIn
  <1>3. OneIn(w, S) => OneIn(v, S)
    BY <1>1 DEF OneIn
  <1>4. QED
    BY <1>2, <1>3

(* The first message of S comes in. *)
LEMMA GrowOne ==
  ASSUME NEW w \in Holdings, NEW v \in Holdings, NEW S, NEW first \in Places, NEW m \in Messages,
         m \in S, v[first] = Append(w[first], m),
         \A place \in Places \ {first} :
           \/ v[place] = w[place]
           \/ \E x \in Messages : x \notin S /\ v[place] = Append(w[place], x),
         NoneIn(w, S)
  PROVE  OneIn(v, S)
  <1>1. w[first] \in Seq(Messages)
    BY DEF Holdings
  <1> DEFINE k == Len(w[first]) + 1
  <1>2. k \in 1 .. Len(v[first]) /\ v[first][k] = m
    BY <1>1
  <1>3. ASSUME NEW place \in Places, NEW j \in 1 .. Len(v[place]), v[place][j] \in S
        PROVE  place = first /\ j = k
    <2>1. CASE place # first
      <3>1. w[place] \in Seq(Messages)
        BY DEF Holdings
      <3>2. CASE v[place] = w[place]
        BY <1>3, <3>2 DEF NoneIn
      <3>3. CASE \E x \in Messages : x \notin S /\ v[place] = Append(w[place], x)
        <4>1. j \in 1 .. Len(w[place]) /\ w[place][j] \in S
          BY <1>3, <3>1, <3>3
        <4>2. QED
          BY <4>1 DEF NoneIn
      <3>4. QED
        BY <2>1, <3>2, <3>3
    <2>2. CASE place = first /\ j # k
      <3>1. j \in 1 .. Len(w[first]) /\ v[first][j] = w[first][j]
        BY <1>1, <2>2
      <3>2. QED
        BY <1>3, <2>2, <3>1 DEF NoneIn
    <2>3. QED
      BY <2>1, <2>2
  <1>4. QED
    BY <1>2, <1>3 DEF OneIn

(* r is q without its k-th message. *)
Without(q, k, r) ==
  /\ Len(r) = Len(q) - 1
  /\ \A j \in 1 .. Len(q) - 1 : r[j] = IF j < k THEN q[j] ELSE q[j + 1]

LEMMA TailWithout ==
  ASSUME NEW X, NEW q \in Seq(X), q # << >>
  PROVE  Without(q, 1, Tail(q)) /\ 1 \in 1 .. Len(q) /\ Head(q) = q[1] /\ Tail(q) \in Seq(X)
  BY DEF Without

(* A message of S, or another one, is taken out. *)
LEMMA TakeOut ==
  ASSUME NEW w \in Holdings, NEW v \in Holdings, NEW S, NEW from \in Places,
         NEW k \in 1 .. Len(w[from]), Without(w[from], k, v[from]),
         \A place \in Places \ {from} : v[place] = w[place]
  PROVE  /\ NoneIn(w, S) => NoneIn(v, S)
         /\ w[from][k] \notin S /\ OneIn(w, S) => OneIn(v, S)
         /\ w[from][k] \in S /\ OneIn(w, S) => NoneIn(v, S)
  <1> DEFINE Old(place, j) == IF place = from /\ j >= k THEN j + 1 ELSE j
  <1>1. w[from] \in Seq(Messages) /\ Len(w[from]) \in Nat /\ Len(v[from]) = Len(w[from]) - 1
    BY DEF Holdings, Without
  <1>2. ASSUME NEW place \in Places, NEW j \in 1 .. Len(v[place])
        PROVE  /\ Old(place, j) \in 1 .. Len(w[place]) /\ w[place][Old(place, j)] = v[place][j]
               /\ ~(place = from /\ Old(place, j) = k)
    <2>1. CASE place = from
      BY <1>1, <2>1 DEF Without
    <2>2. CASE place # from
      BY <2>2
    <2>3. QED
      BY <2>1, <2>2
  <1>3. NoneIn(w, S) => NoneIn(v, S)
    <2> HIDE DEF Old
    <2>1. QED
      BY <1>2 DEF NoneIn
  <1>4. ASSUME w[from][k] \in S, OneIn(w, S) PROVE NoneIn(v, S)
    <2>1. \E place \in Places : \E l \in 1 .. Len(w[place]) :
            \A other \in Places : \A j \in 1 .. Len(w[other]) :
              w[other][j] \in S => other = place /\ j = l
      BY <1>4 DEF OneIn
    <2>2. \A other \in Places : \A j \in 1 .. Len(w[other]) :
            w[other][j] \in S => other = from /\ j = k
      BY <1>4, <2>1
    <2> HIDE DEF Old
    <2>3. QED
      BY <1>2, <2>2 DEF NoneIn
  <1>5. ASSUME w[from][k] \notin S, OneIn(w, S) PROVE OneIn(v, S)
    <2>0. PICK place \in Places : \E l \in 1 .. Len(w[place]) :
            /\ w[place][l] \in S
            /\ \A other \in Places : \A j \in 1 .. Len(w[other]) :
                 w[other][j] \in S => other = place /\ j = l
      BY <1>5 DEF OneIn
    <2>1. PICK l \in 1 .. Len(w[place]) :
            /\ w[place][l] \in S
            /\ \A other \in Places : \A j \in 1 .. Len(w[other]) :
                 w[other][j] \in S => other = place /\ j = l
      BY <2>0
    <2> DEFINE x == IF place = from /\ l > k THEN l - 1 ELSE l
    <2>2. ~(place = from /\ l = k)
      BY <1>5, <2>1
    <2>3. x \in 1 .. Len(v[place]) /\ Old(place, x) = l
      <3>1. CASE place = from
        BY <1>1, <2>2, <3>1
      <3>2. CASE place # from
        BY <3>2
      <3>3. QED
        BY <3>1, <3>2
    <2>4. ASSUME NEW j \in 1 .. Len(v[place]), Old(place, j) = l PROVE j = x
      <3>1. CASE place = from
        <4>1. j \in Int /\ l \in Int /\ k \in Int
          BY <1>1, <3>1
        <4>2. QED
          BY <2>4, <3>1, <4>1
      <3>2. CASE place # from
        BY <2>4, <3>2
      <3>3. QED
        BY <3>1, <3>2
    <2> HIDE DEF Old, x
    <2>5. v[place][x] \in S
      BY <1>2, <2>1, <2>3
    <2>6. ASSUME NEW other \in Places, NEW j \in 1 .. Len(v[other]), v[other][j] \in S
          PROVE  other = place /\ j = x
      <3>1. other = place /\ Old(other, j) = l
        BY <1>2, <2>1, <2>6
      <3>2. QED
        BY <2>4, <3>1
    <2>7. QED
      BY <2>3, <2>5, <2>6 DEF OneIn
  <1>6. QED
    BY <1>3, <1>4, <1>5

-----------------------------------------------------------------------------
LEMMA WhereTyped ==
  ASSUME NEW n \in [Pes -> [Pes -> Seq(Messages)]], NEW c \in [Pes -> Seq(Messages)],
         NEW b \in [Elements -> Seq(Messages)], NEW h \in [Elements -> Seq(Messages)]
  PROVE  Where(n, c, b, h) \in Holdings
  <1>1. ASSUME NEW place \in Places PROVE Where(n, c, b, h)[place] \in Seq(Messages)
    <2>1. CASE \E p, q \in Pes : place = <<"net", p, q>>
      BY <2>1, WhereAt
    <2>2. CASE \E p \in Pes : place = <<"cbuf", p>>
      BY <2>2, WhereAt
    <2>3. CASE \E i \in Elements : place = <<"buffer", i>> \/ place = <<"handled", i>>
      BY <2>3, WhereAt
    <2>4. QED
      BY <2>1, <2>2, <2>3, PlaceCases
  <1>2. Where(n, c, b, h) = [place \in Places |-> Where(n, c, b, h)[place]]
    BY DEF Where
  <1>3. QED
    BY <1>1, <1>2 DEF Holdings

(* One message joins one place. *)
Moved(w, v, m) ==
  \E place \in Places :
    /\ v[place] = Append(w[place], m)
    /\ \A other \in Places \ {place} : v[other] = w[other]

(* Only numbered broadcasts come in. *)
Spread(w, v) ==
  \A place \in Places :
    v[place] = w[place] \/ \E x \in Numbered : v[place] = Append(w[place], x)

(* Only copies of m come in. *)
CopiesOf(m) == {x \in Numbered : x.id = m.id /\ x.bcast = m.bcast}

Copied(w, v, m) ==
  \A place \in Places :
    v[place] = w[place] \/ \E x \in CopiesOf(m) : v[place] = Append(w[place], x)

LEMMA CopiedSpread ==
  ASSUME NEW w, NEW v, NEW m, Copied(w, v, m)
  PROVE  Spread(w, v)
  BY DEF Copied, CopiesOf, Spread

(* One place is extended; the others are as they were. *)
LEMMA MovedNet ==
  ASSUME NEW n \in Channels, NEW c, NEW b, NEW h, NEW p \in Pes, NEW q \in Pes, NEW m
  PROVE  Moved(Where(n, c, b, h), Where(Post(n, p, q, m), c, b, h), m)
  <1> DEFINE k == Post(n, p, q, m)
             w == Where(n, c, b, h)
             v == Where(k, c, b, h)
             at == <<"net", p, q>>
  <1>1. k[p][q] = Append(n[p][q], m)
    BY DEF Channels, Post
  <1>2. ASSUME NEW x \in Pes, NEW y \in Pes, <<"net", x, y>> # at PROVE k[x][y] = n[x][y]
    BY <1>2 DEF Channels, Post
  <1> HIDE DEF k
  <1>3. at \in Places /\ v[at] = Append(w[at], m)
    <2>1. at \in Places /\ v[at] = k[p][q] /\ w[at] = n[p][q]
      BY WhereAt
    <2>2. QED
      BY <1>1, <2>1
  <1>4. \A place \in Places \ {at} : v[place] = w[place]
    <2>1. /\ \A x \in Pes : v[<<"cbuf", x>>] = w[<<"cbuf", x>>]
          /\ \A e \in Elements : v[<<"buffer", e>>] = w[<<"buffer", e>>]
          /\ \A e \in Elements : v[<<"handled", e>>] = w[<<"handled", e>>]
      BY WhereAt
    <2>2. \A x, y \in Pes : <<"net", x, y>> # at => v[<<"net", x, y>>] = w[<<"net", x, y>>]
      BY <1>2, WhereAt
    <2> HIDE DEF at, v, w
    <2>3. QED
      BY <2>1, <2>2, PlaceCases
  <1> HIDE DEF at, v, w
  <1>5. Moved(w, v, m)
    BY <1>3, <1>4 DEF Moved
  <1>6. QED
    BY <1>5 DEF v, w, k

LEMMA MovedCbuf ==
  ASSUME NEW n, NEW c, DOMAIN c = Pes, NEW b, NEW h, NEW p \in Pes, NEW m
  PROVE  Moved(Where(n, c, b, h), Where(n, [c EXCEPT ![p] = Append(c[p], m)], b, h), m)
  <1> DEFINE k == [c EXCEPT ![p] = Append(c[p], m)]
             w == Where(n, c, b, h)
             v == Where(n, k, b, h)
             at == <<"cbuf", p>>
  <1>1. k[p] = Append(c[p], m) /\ \A x \in Pes : x # p => k[x] = c[x]
    OBVIOUS
  <1> HIDE DEF k
  <1>2. at \in Places /\ v[at] = Append(w[at], m)
    <2>1. at \in Places /\ v[at] = k[p] /\ w[at] = c[p]
      BY WhereAt
    <2>2. QED
      BY <1>1, <2>1
  <1>3. \A place \in Places \ {at} : v[place] = w[place]
    <2>1. /\ \A x, y \in Pes : v[<<"net", x, y>>] = w[<<"net", x, y>>]
          /\ \A e \in Elements : v[<<"buffer", e>>] = w[<<"buffer", e>>]
          /\ \A e \in Elements : v[<<"handled", e>>] = w[<<"handled", e>>]
      BY WhereAt
    <2>2. \A x \in Pes : <<"cbuf", x>> # at => v[<<"cbuf", x>>] = w[<<"cbuf", x>>]
      BY <1>1, WhereAt
    <2> HIDE DEF at, v, w
    <2>3. QED
      BY <2>1, <2>2, PlaceCases
  <1> HIDE DEF at, v, w
  <1>4. Moved(w, v, m)
    BY <1>2, <1>3 DEF Moved
  <1>5. QED
    BY <1>4 DEF v, w, k

LEMMA MovedElement ==
  ASSUME NEW n, NEW c, NEW b, NEW h, NEW i \in Elements, NEW m, NEW b2, NEW h2
  PROVE  (\/ /\ b2[i] = Append(b[i], m) /\ h2 = h
             /\ \A e \in Elements : e # i => b2[e] = b[e]
          \/ /\ h2[i] = Append(h[i], m) /\ b2 = b
             /\ \A e \in Elements : e # i => h2[e] = h[e])
         => Moved(Where(n, c, b, h), Where(n, c, b2, h2), m)
  <1> DEFINE w == Where(n, c, b, h)
             v == Where(n, c, b2, h2)
  <1>0. \A e \in Elements : /\ v[<<"buffer", e>>] = b2[e] /\ w[<<"buffer", e>>] = b[e]
                           /\ v[<<"handled", e>>] = h2[e] /\ w[<<"handled", e>>] = h[e]
    <2> TAKE e \in Elements
    <2>1. v[<<"buffer", e>>] = b2[e]
      BY DEF Places, Where, Held
    <2>2. w[<<"buffer", e>>] = b[e]
      BY DEF Places, Where, Held
    <2>3. v[<<"handled", e>>] = h2[e]
      BY DEF Places, Where, Held
    <2>4. w[<<"handled", e>>] = h[e]
      BY DEF Places, Where, Held
    <2>5. QED
      BY <2>1, <2>2, <2>3, <2>4
  <1> HAVE \/ /\ b2[i] = Append(b[i], m) /\ h2 = h
              /\ \A e \in Elements : e # i => b2[e] = b[e]
           \/ /\ h2[i] = Append(h[i], m) /\ b2 = b
              /\ \A e \in Elements : e # i => h2[e] = h[e]
  <1>1. PICK at \in {<<"buffer", i>>, <<"handled", i>>} :
          /\ v[at] = Append(w[at], m)
          /\ \A e \in Elements : <<"buffer", e>> # at => v[<<"buffer", e>>] = w[<<"buffer", e>>]
          /\ \A e \in Elements : <<"handled", e>> # at => v[<<"handled", e>>] = w[<<"handled", e>>]
    <2> HIDE DEF v, w
    <2>2. CASE /\ b2[i] = Append(b[i], m) /\ h2 = h
               /\ \A e \in Elements : e # i => b2[e] = b[e]
      <3> WITNESS <<"buffer", i>> \in {<<"buffer", i>>, <<"handled", i>>}
      <3>1. QED
        BY <1>0, <2>2
    <2>3. CASE /\ h2[i] = Append(h[i], m) /\ b2 = b
               /\ \A e \in Elements : e # i => h2[e] = h[e]
      <3> WITNESS <<"handled", i>> \in {<<"buffer", i>>, <<"handled", i>>}
      <3>1. QED
        BY <1>0, <2>3
    <2>4. QED
      BY <2>2, <2>3
  <1>2. \A place \in Places \ {at} : v[place] = w[place]
    <2>1. /\ \A x, y \in Pes : v[<<"net", x, y>>] = w[<<"net", x, y>>]
          /\ \A x \in Pes : v[<<"cbuf", x>>] = w[<<"cbuf", x>>]
      BY WhereAt
    <2> HIDE DEF v, w
    <2>2. QED
      BY <1>1, <2>1, PlaceCases
  <1>3. at \in Places
    BY <1>1, WhereAt
  <1> HIDE DEF v, w
  <1>4. Moved(w, v, m)
    BY <1>1, <1>2, <1>3 DEF Moved
  <1>5. QED
    BY <1>4 DEF v, w

LEMMA HandleMoves ==
  ASSUME Local, inst' = inst, NEW pe \in Pes, NEW n \in Channels, NEW m \in Messages, NEW rest,
         m.to \in chares, PeFor(m.to) = pe, m.kind \in {"p2p", "bcast"},
         m.bcast # 0 => IsGroup /\ m.kind = "bcast", NEW c,
         Handle(pe, m, n, rest)
  PROVE  LET b == [buffers EXCEPT ![m.to] = rest]
             v == Where(net', c, buffers', handled')
         IN  \/ /\ m.bcast # 0 => ~InOrder(m)
                /\ Moved(Where(n, c, b, handled), v, m)
             \/ m.bcast # 0 /\ InOrder(m) /\ Copied(Where(n, c, buffers, handled), v, m)
  <1> DEFINE i == m.to
             b == [buffers EXCEPT ![m.to] = rest]
             v == Where(net', c, buffers', handled')
             w == Where(n, c, b, handled)
  <1>1. TypedElements /\ i \in Indices /\ i \in Elements
    BY IndexFacts DEF Local, TypedElements
  <1>2. CASE m.bcast = 0
    <2>1. /\ handled' = [handled EXCEPT ![i] = Append(handled[i], m)] /\ buffers' = b /\ net' = n
      BY <1>2 DEF Handle, Run
    <2>2. /\ handled'[i] = Append(handled[i], m)
          /\ \A e \in Elements : e # i => handled'[e] = handled[e]
      BY <1>1, <2>1 DEF TypedElements
    <2> HIDE DEF b
    <2>3. Moved(w, v, m)
      BY <1>1, <2>1, <2>2, MovedElement
    <2>4. QED
      BY <1>2, <2>3 DEF b
  <1>3. CASE m.bcast # 0 /\ ~InOrder(m)
    <2>1. buffers' = [buffers EXCEPT ![i] = Append(rest, m)] /\ net' = n /\ handled' = handled
      BY <1>3 DEF Handle, Rebuffer, history
    <2>2. /\ buffers'[i] = Append(b[i], m)
          /\ \A e \in Elements : e # i => buffers'[e] = b[e]
      BY <1>1, <2>1 DEF TypedElements
    <2> HIDE DEF b
    <2>3. Moved(w, v, m)
      BY <1>1, <2>1, <2>2, MovedElement
    <2>4. QED
      BY <1>3, <2>3 DEF b
  <1>4. CASE m.bcast # 0 /\ InOrder(m)
    <2> DEFINE u == Where(n, c, buffers, handled)
    <2>1. /\ handled' = [handled EXCEPT ![i] = Append(handled[i], m)] /\ buffers' = buffers
          /\ net' = [n EXCEPT ![pe] = [d \in Pes |-> IF d \in Children[pe]
                                         THEN Append(n[pe][d], [m EXCEPT !.to = d]) ELSE n[pe][d]]]
      BY <1>4 DEF Handle, Run
    <2>2. \A e \in Elements : handled'[e] = handled[e] \/ handled'[e] = Append(handled[e], m)
      BY <1>1, <2>1 DEF TypedElements
    <2>3. m \in CopiesOf(m)
      BY <1>1, <1>4, Constants DEF Numbered, CopiesOf
    <2>4. ASSUME NEW p \in Pes, NEW q \in Pes
          PROVE  net'[p][q] = n[p][q] \/ \E x \in CopiesOf(m) : net'[p][q] = Append(n[p][q], x)
      <3>1. CASE p = pe /\ q \in Children[pe]
        <4>1. net'[p][q] = Append(n[p][q], [m EXCEPT !.to = q])
          BY <2>1, <3>1 DEF Channels
        <4>2. q \in Elements /\ q # ChareMax
          BY Constants
        <4>3. [m EXCEPT !.to = q] \in CopiesOf(m)
          BY <1>4, <4>2 DEF Numbered, CopiesOf, Messages
        <4>4. QED
          BY <4>1, <4>3
      <3>2. CASE ~(p = pe /\ q \in Children[pe])
        BY <2>1, <3>2 DEF Channels
      <3>3. QED
        BY <3>1, <3>2
    <2>5. ASSUME NEW place \in Places
          PROVE  v[place] = u[place] \/ \E x \in CopiesOf(m) : v[place] = Append(u[place], x)
      <3>1. CASE \E p, q \in Pes : place = <<"net", p, q>>
        <4>1. PICK p \in Pes, q \in Pes : place = <<"net", p, q>>
          BY <3>1
        <4>2. v[place] = net'[p][q] /\ u[place] = n[p][q]
          BY <4>1, WhereAt
        <4>3. QED
          BY <2>4, <4>2
      <3>2. CASE \E p \in Pes : place = <<"cbuf", p>>
        BY <3>2, WhereAt
      <3>3. CASE \E e \in Elements : place = <<"buffer", e>>
        BY <2>1, <3>3, WhereAt
      <3>4. CASE \E e \in Elements : place = <<"handled", e>>
        <4>1. PICK e \in Elements : place = <<"handled", e>>
          BY <3>4
        <4>2. v[place] = handled'[e] /\ u[place] = handled[e]
          BY <4>1, WhereAt
        <4>3. QED
          BY <2>2, <2>3, <4>2
      <3>5. QED
        BY <3>1, <3>2, <3>3, <3>4, PlaceCases
    <2>6. QED
      BY <1>4, <2>5 DEF Copied
  <1>5. QED
    BY <1>2, <1>3, <1>4

(* An element handles broadcast id: the next one it waits for moves on. *)
Advance(i, id) ==
  /\ last_bcast' = [last_bcast EXCEPT ![i] = last_bcast[i] + 1]
  /\ delivered' = [delivered EXCEPT ![i] = Append(delivered[i], id)]

LEMMA HandleCounts ==
  ASSUME NEW pe, NEW n, NEW m, NEW rest, Handle(pe, m, n, rest), m.kind \in {"p2p", "bcast"},
         m.bcast # 0 => m.kind = "bcast"
  PROVE  /\ m.bcast # 0 /\ InOrder(m) => Advance(m.to, m.id)
         /\ (m.bcast # 0 => ~InOrder(m)) /\ (m.kind = "bcast" => m.bcast # 0) =>
              UNCHANGED <<last_bcast, delivered>>
  BY DEF Handle, Run, Advance, history

(***************************************************************************)
(* What delivering m does: it moves on, it is a broadcast that gets its    *)
(* number at the root, or one that has its number and is the next of its   *)
(* element; or the numbers have run out.                                   *)
(***************************************************************************)
Quiet(w, v, m) == Moved(w, v, m) /\ UNCHANGED <<last_bcast, delivered>>

Gives(w, v, m) ==
  /\ m \in Unordered /\ NextBcast # 0 /\ NextBcast = last_bcast[Root] + 1
  /\ Copied(w, v, [m EXCEPT !.to = Root, !.bcast = NextBcast])
  /\ Advance(Root, m.id)

Follows(w, v, m) ==
  /\ m \in Copies /\ InOrder(m) /\ Copied(w, v, m)
  /\ Advance(m.to, m.id)

Effect(w, v, m) ==
  \/ Quiet(w, v, m)
  \/ Gives(w, v, m)
  \/ Follows(w, v, m)
  \/ m \in Unordered /\ NextBcast = 0 /\ Spread(w, v)

LEMMA MovedSpread ==
  ASSUME NEW w, NEW v, NEW m \in Numbered, Moved(w, v, m)
  PROVE  Spread(w, v)
  BY DEF Moved, Spread

LEMMA DeliverNowEffect ==
  ASSUME Local, inst' = inst, NEW pe \in Pes, NEW n \in Channels, NEW m \in Awaiting, NEW c,
         DeliverNow(pe, m, n)
  PROVE  LET w == Where(n, c, buffers, handled)
             v == Where(net', c, buffers', handled')
         IN  Effect(w, v, m)
  <1> DEFINE w == Where(n, c, buffers, handled)
             v == Where(net', c, buffers', handled')
  <1>1. TypedElements /\ m \in Messages
    BY DEF Local, Awaiting, Direct, Copies, Unordered
  <1>2. \A e \in Elements : [buffers EXCEPT ![e] = buffers[e]] = buffers
    BY <1>1 DEF TypedElements
  <1>3. ASSUME NEW q \in Pes, net' = Post(n, pe, q, m),
               UNCHANGED <<buffers, handled, last_bcast, delivered>>
        PROVE  Effect(w, v, m)
    BY <1>3, MovedNet DEF Effect, Quiet
  <1>4. CASE m.to = ChareMax
    <2>1. OrderBroadcast(pe, m, n) /\ IsGroup /\ m.kind = "bcast" /\ m \in Unordered
      BY <1>4, IndexFacts, Constants DEF DeliverNow, Awaiting, Direct, Copies, Unordered
    <2>2. CASE Root \in chares /\ PeFor(Root) = pe
      <3> DEFINE r == [m EXCEPT !.to = Root, !.bcast = NextBcast]
      <3>1. NextBcast \in 0 .. BcastMod - 1 /\ Root \in Elements
        BY <1>1, NextNumber, Constants
      <3>2. r \in Numbered /\ r \in Messages /\ r.to = Root /\ r.kind = "bcast"
            /\ r.id = m.id /\ r.bcast = NextBcast
        BY <1>1, <2>1, <3>1, Constants DEF Messages, Numbered
      <3>3. Handle(pe, r, n, buffers[Root])
        BY <2>1, <2>2 DEF OrderBroadcast
      <3> HIDE DEF r
      <3>4. \/ /\ r.bcast # 0 => ~InOrder(r)
               /\ Moved(Where(n, c, [buffers EXCEPT ![Root] = buffers[Root]], handled), v, r)
            \/ r.bcast # 0 /\ InOrder(r) /\ Copied(w, v, r)
        BY <2>1, <2>2, <3>2, <3>3, HandleMoves
      <3>5. \/ (r.bcast # 0 => ~InOrder(r)) /\ Moved(w, v, r)
            \/ r.bcast # 0 /\ InOrder(r) /\ Copied(w, v, r)
        BY <1>2, <3>1, <3>4
      <3> HIDE DEF w, v
      <3>6. CASE NextBcast = 0
        <4>1. Spread(w, v)
          BY <3>2, <3>5, <3>6, MovedSpread
        <4>2. QED
          BY <2>1, <3>6, <4>1 DEF Effect, w, v
      <3>7. CASE NextBcast # 0
        <4>1. InOrder(r) /\ NextBcast = last_bcast[Root] + 1
          BY <1>1, <3>2, <3>7, NextNumber DEF InOrder
        <4>2. Advance(Root, m.id)
          BY <3>2, <3>3, <3>7, <4>1, HandleCounts
        <4>3. Copied(w, v, r)
          BY <3>2, <3>5, <3>7, <4>1
        <4>4. Gives(w, v, m)
          BY <2>1, <3>7, <4>1, <4>2, <4>3 DEF Gives, r
        <4>5. QED
          BY <4>4 DEF Effect, w, v
      <3>8. QED
        BY <3>6, <3>7
    <2>3. CASE ~(Root \in chares /\ PeFor(Root) = pe)
      <3>1. PeFor(Root) \in Pes
        BY Constants
      <3>2. /\ net' = Post(n, pe, PeFor(Root), m)
            /\ UNCHANGED <<buffers, handled, last_bcast, delivered>>
        BY <2>1, <2>3 DEF OrderBroadcast, history
      <3>3. QED
        BY <1>3, <3>1, <3>2
    <2>4. QED
      BY <2>2, <2>3
  <1>5. CASE m.to # ChareMax
    <2> DEFINE i == m.to
    <2>1. m \in Direct \cup Copies /\ i \in Indices /\ i \in Elements
      BY <1>5, IndexFacts DEF Awaiting, Direct, Copies, Unordered
    <2>2. CASE ConstructChare(pe, m, n)
      <3>1. /\ handled' = [handled EXCEPT ![i] = Append(handled[i], m)] /\ net' = n
            /\ UNCHANGED <<buffers, last_bcast, delivered>>
        BY <2>2 DEF ConstructChare, Run
      <3>2. /\ handled'[i] = Append(handled[i], m)
            /\ \A e \in Elements : e # i => handled'[e] = handled[e]
        BY <1>1, <2>1, <3>1 DEF TypedElements
      <3>3. Moved(w, v, m)
        BY <2>1, <3>1, <3>2, MovedElement, ZenonT(40)
      <3>4. QED
        BY <3>1, <3>3 DEF Effect, Quiet
    <2>3. CASE InvokeChare(pe, m, n)
      <3>1. /\ i \in chares /\ PeFor(i) = pe /\ m.kind # "ctor" /\ Handle(pe, m, n, buffers[i])
        BY <2>3 DEF InvokeChare
      <3>2. /\ m.kind \in {"p2p", "bcast"} /\ (m.bcast # 0 => IsGroup /\ m.kind = "bcast")
            /\ (m.kind = "bcast" => m.bcast # 0) /\ (m.bcast # 0 => m \in Copies)
        BY <2>1, <3>1 DEF Direct, Copies
      <3>3. \/ /\ m.bcast # 0 => ~InOrder(m)
               /\ Moved(Where(n, c, [buffers EXCEPT ![i] = buffers[i]], handled), v, m)
            \/ m.bcast # 0 /\ InOrder(m) /\ Copied(w, v, m)
        BY <1>1, <3>1, <3>2, HandleMoves
      <3>4. [buffers EXCEPT ![i] = buffers[i]] = buffers
        BY <1>2, <2>1
      <3>5. CASE m.bcast # 0 /\ InOrder(m)
        BY <3>1, <3>2, <3>3, <3>5, HandleCounts DEF Effect, Follows
      <3>6. CASE m.bcast # 0 => ~InOrder(m)
        BY <3>1, <3>2, <3>3, <3>4, <3>6, HandleCounts DEF Effect, Quiet
      <3>7. QED
        BY <3>5, <3>6
    <2>4. CASE BufferMessage(pe, m, n)
      <3>1. /\ net' = n /\ UNCHANGED <<handled, last_bcast, delivered>>
            /\ buffers' = [buffers EXCEPT ![i] = Append(buffers[i], m)]
        BY <2>4 DEF BufferMessage, history
      <3>2. /\ buffers'[i] = Append(buffers[i], m)
            /\ \A e \in Elements : e # i => buffers'[e] = buffers[e]
        BY <1>1, <2>1, <3>1 DEF TypedElements
      <3>3. Moved(w, v, m)
        BY <2>1, <3>1, <3>2, MovedElement
      <3>4. QED
        BY <3>1, <3>3 DEF Effect, Quiet
    <2>5. CASE RouteMessage(pe, m, n)
      <3>1. PeFor(i) \in Pes
        BY <2>1, Constants
      <3>2. /\ net' = Post(n, pe, PeFor(i), m)
            /\ UNCHANGED <<buffers, handled, last_bcast, delivered>>
        BY <2>5 DEF RouteMessage, history
      <3>3. QED
        BY <1>3, <3>1, <3>2
    <2>6. QED
      BY <1>5, <2>2, <2>3, <2>4, <2>5 DEF DeliverNow
  <1>6. QED
    BY <1>4, <1>5

(* deliver: the same, or the message was the creation of the collective. *)
LEMMA DeliverEffect ==
  ASSUME Table, Local, inst' = inst, NEW pe \in Pes, NEW n \in Channels, NEW m \in Pending,
         Deliver(pe, m, n)
  PROVE  LET w == Where(n, cbuf, buffers, handled)
         IN  \/ Effect(w, Now', m)
             \/ m.kind = "create" /\ Now' = w /\ UNCHANGED <<last_bcast, delivered>>
  <1>1. CASE CreateCollective(pe, m, n)
    BY <1>1 DEF CreateCollective, history, Now
  <1>2. CASE AwaitCollective(pe, m, n)
    <2>1. /\ cbuf' = [cbuf EXCEPT ![pe] = Append(cbuf[pe], m)]
          /\ net' = n /\ UNCHANGED <<buffers, handled, last_bcast, delivered>>
      BY <1>2 DEF AwaitCollective, history
    <2>2. DOMAIN cbuf = Pes
      BY DEF Table
    <2>3. Moved(Where(n, cbuf, buffers, handled), Now', m)
      BY <2>1, <2>2, MovedCbuf DEF Now
    <2>4. QED
      BY <2>1, <2>3 DEF Effect, Quiet
  <1>3. CASE m.kind # "create" /\ DeliverNow(pe, m, n) /\ UNCHANGED table
    <2>1. m \in Awaiting /\ cbuf' = cbuf
      BY <1>3 DEF Pending, table
    <2>2. QED
      BY <1>3, <2>1, DeliverNowEffect DEF Now
  <1>4. QED
    BY <1>1, <1>2, <1>3 DEF Deliver

-----------------------------------------------------------------------------
LEMMA ChannelTyped == Channels \subseteq [Pes -> [Pes -> Seq(Messages)]]
  <1>1. Pending \subseteq Messages
    BY DEF Pending, Awaiting, Direct, Copies, Unordered
  <1>2. Seq(Pending) \subseteq Seq(Messages)
    BY <1>1
  <1>3. QED
    BY <1>2 DEF Channels

LEMMA CbufTyped == Table => cbuf \in [Pes -> Seq(Messages)]
  <1>1. Awaiting \subseteq Messages
    BY DEF Awaiting, Direct, Copies, Unordered
  <1>2. Seq(Awaiting) \subseteq Seq(Messages)
    BY <1>1
  <1>3. QED
    BY <1>2 DEF Table

LEMMA NowTyped == Basic => Now \in Holdings
  <1> SUFFICES ASSUME Basic PROVE Now \in Holdings
    OBVIOUS
  <1>1. /\ net \in [Pes -> [Pes -> Seq(Messages)]] /\ cbuf \in [Pes -> Seq(Messages)]
        /\ buffers \in [Elements -> Seq(Messages)] /\ handled \in [Elements -> Seq(Messages)]
    BY ChannelTyped, CbufTyped DEF Basic, Local, TypedElements
  <1>2. QED
    BY <1>1, WhereTyped DEF Now

LEMMA NowTypedNext ==
  ASSUME Basic'
  PROVE  Now' \in Holdings
  <1>1. (Now \in Holdings)'
    BY NowTyped, PTL
  <1>2. QED
    BY <1>1 DEF Holdings

(* The messages to elements: none is made or lost on the way. *)
Addressed(S) == \A m \in S : m.kind \in {"ctor", "p2p"}

Keeps(w, v, S) == (NoneIn(w, S) => NoneIn(v, S)) /\ (OneIn(w, S) => OneIn(v, S))

LEMMA MovedKeeps ==
  ASSUME NEW w \in Holdings, NEW v \in Holdings, NEW S, NEW m \in Messages, Moved(w, v, m)
  PROVE  /\ m \notin S => Keeps(w, v, S)
         /\ m \in S /\ NoneIn(w, S) => OneIn(v, S)
  <1>1. PICK first \in Places :
          /\ v[first] = Append(w[first], m)
          /\ \A other \in Places \ {first} : v[other] = w[other]
    BY DEF Moved
  <1>2. ASSUME m \notin S PROVE Keeps(w, v, S)
    <2>1. \A place \in Places :
            \/ v[place] = w[place]
            \/ \E x \in Messages : x \notin S /\ v[place] = Append(w[place], x)
      BY <1>1, <1>2
    <2>2. QED
      BY <2>1, GrowKeeps DEF Keeps
  <1>3. ASSUME m \in S, NoneIn(w, S) PROVE OneIn(v, S)
    BY <1>1, <1>3, GrowOne
  <1>4. QED
    BY <1>2, <1>3

LEMMA SpreadKeeps ==
  ASSUME NEW w \in Holdings, NEW v \in Holdings, NEW S, Addressed(S), Spread(w, v)
  PROVE  Keeps(w, v, S)
  <1>1. \A x \in Numbered : x \in Messages /\ x \notin S
    BY DEF Numbered, Addressed
  <1>2. \A place \in Places :
          \/ v[place] = w[place]
          \/ \E x \in Messages : x \notin S /\ v[place] = Append(w[place], x)
    BY <1>1 DEF Spread
  <1>3. QED
    BY <1>2, GrowKeeps DEF Keeps

LEMMA EffectMoves ==
  ASSUME NEW w, NEW v, NEW m, Effect(w, v, m)
  PROVE  Moved(w, v, m) \/ (m.kind = "bcast" /\ Spread(w, v))
  BY CopiedSpread DEF Effect, Quiet, Gives, Follows, Unordered, Copies

(* A message is taken out, and delivered. *)
LEMMA DeliveredKeeps ==
  ASSUME NEW u \in Holdings, NEW w \in Holdings, NEW v \in Holdings,
         NEW S, Addressed(S), NEW from \in Places, NEW k \in 1 .. Len(u[from]),
         Without(u[from], k, w[from]), \A place \in Places \ {from} : w[place] = u[place],
         NEW m \in Messages, m = u[from][k],
         \/ Moved(w, v, m)
         \/ m.kind = "bcast" /\ Spread(w, v)
         \/ m.kind = "create" /\ v = w
  PROVE  Keeps(u, v, S)
  <1>1. /\ NoneIn(u, S) => NoneIn(w, S)
        /\ m \notin S /\ OneIn(u, S) => OneIn(w, S)
        /\ m \in S /\ OneIn(u, S) => NoneIn(w, S)
    BY TakeOut
  <1>2. NoneIn(u, S) => m \notin S
    BY DEF NoneIn
  <1>3. CASE m \notin S
    <2>1. Keeps(w, v, S)
      BY <1>3, MovedKeeps, SpreadKeeps DEF Keeps
    <2>2. QED
      BY <1>1, <1>3, <2>1 DEF Keeps
  <1>4. CASE m \in S
    <2>1. m.kind \in {"ctor", "p2p"}
      BY <1>4 DEF Addressed
    <2>2. Moved(w, v, m)
      BY <2>1
    <2>3. NoneIn(w, S) => OneIn(v, S)
      BY <1>4, <2>2, MovedKeeps
    <2>4. QED
      BY <1>1, <1>2, <1>4, <2>3 DEF Keeps
  <1>5. QED
    BY <1>3, <1>4

-----------------------------------------------------------------------------
(* The three places messages are taken from. *)
LEMMA FromNet ==
  ASSUME Basic, NEW src \in Pes, NEW pe \in Pes, NEW k \in 1 .. Len(net[src][pe])
  PROVE  LET at == <<"net", src, pe>>
             n == [net EXCEPT ![src][pe] = RemoveAt(net[src][pe], k)]
             w == Where(n, cbuf, buffers, handled)
         IN  /\ at \in Places /\ Now[at] = net[src][pe] /\ n \in Channels /\ w \in Holdings
             /\ Without(Now[at], k, w[at]) /\ w[at] \in Seq(Messages)
             /\ \A place \in Places \ {at} : w[place] = Now[place]
  <1> DEFINE at == <<"net", src, pe>>
             n == [net EXCEPT ![src][pe] = RemoveAt(net[src][pe], k)]
             w == Where(n, cbuf, buffers, handled)
  <1>1. /\ net \in Channels /\ cbuf \in [Pes -> Seq(Messages)]
        /\ buffers \in [Elements -> Seq(Messages)] /\ handled \in [Elements -> Seq(Messages)]
    BY CbufTyped DEF Basic, Local, TypedElements
  <1>2. net[src][pe] \in Seq(Pending)
    BY <1>1 DEF Channels
  <1>3. /\ RemoveAt(net[src][pe], k) \in Seq(Pending)
        /\ Without(net[src][pe], k, RemoveAt(net[src][pe], k))
    BY <1>2, RemoveTyped DEF Without
  <1>4. /\ n \in Channels /\ n[src][pe] = RemoveAt(net[src][pe], k)
        /\ \A x, y \in Pes : <<"net", x, y>> # at => n[x][y] = net[x][y]
    BY <1>1, <1>3 DEF Channels
  <1> HIDE DEF n
  <1>5. w \in Holdings
    BY <1>1, <1>4, ChannelTyped, WhereTyped
  <1>6. at \in Places /\ Now[at] = net[src][pe] /\ w[at] = n[src][pe]
    BY WhereAt DEF Now
  <1>7. \A place \in Places \ {at} : w[place] = Now[place]
    <2>1. /\ \A x \in Pes : w[<<"cbuf", x>>] = Now[<<"cbuf", x>>]
          /\ \A e \in Elements : w[<<"buffer", e>>] = Now[<<"buffer", e>>]
          /\ \A e \in Elements : w[<<"handled", e>>] = Now[<<"handled", e>>]
      BY WhereAt DEF Now
    <2>2. \A x, y \in Pes : <<"net", x, y>> # at => w[<<"net", x, y>>] = Now[<<"net", x, y>>]
      BY <1>4, WhereAt DEF Now
    <2> HIDE DEF at, w
    <2>3. QED
      BY <2>1, <2>2, PlaceCases
  <1>8. Without(Now[at], k, w[at]) /\ w[at] \in Seq(Messages)
    BY <1>3, <1>4, <1>5, <1>6 DEF Holdings
  <1> HIDE DEF at, w
  <1>9. /\ at \in Places /\ Now[at] = net[src][pe] /\ n \in Channels /\ w \in Holdings
        /\ Without(Now[at], k, w[at]) /\ w[at] \in Seq(Messages)
        /\ \A place \in Places \ {at} : w[place] = Now[place]
    BY <1>4, <1>5, <1>6, <1>7, <1>8
  <1>10. QED
    BY <1>9 DEF at, w, n

LEMMA FromCbuf ==
  ASSUME Basic, NEW pe \in Pes, cbuf[pe] # << >>
  PROVE  LET at == <<"cbuf", pe>>
             w == Where(net, [cbuf EXCEPT ![pe] = Tail(cbuf[pe])], buffers, handled)
         IN  /\ at \in Places /\ Now[at] = cbuf[pe] /\ w \in Holdings
             /\ 1 \in 1 .. Len(Now[at]) /\ Head(cbuf[pe]) = Now[at][1]
             /\ Without(Now[at], 1, w[at])
             /\ \A place \in Places \ {at} : w[place] = Now[place]
  <1> DEFINE at == <<"cbuf", pe>>
             c == [cbuf EXCEPT ![pe] = Tail(cbuf[pe])]
             w == Where(net, c, buffers, handled)
  <1>1. /\ net \in [Pes -> [Pes -> Seq(Messages)]] /\ cbuf \in [Pes -> Seq(Messages)]
        /\ buffers \in [Elements -> Seq(Messages)] /\ handled \in [Elements -> Seq(Messages)]
    BY ChannelTyped, CbufTyped DEF Basic, Local, TypedElements
  <1>2. /\ Without(cbuf[pe], 1, Tail(cbuf[pe])) /\ 1 \in 1 .. Len(cbuf[pe])
        /\ Head(cbuf[pe]) = cbuf[pe][1] /\ Tail(cbuf[pe]) \in Seq(Messages)
    BY <1>1, TailWithout
  <1>3. /\ c \in [Pes -> Seq(Messages)] /\ c[pe] = Tail(cbuf[pe])
        /\ \A x \in Pes : x # pe => c[x] = cbuf[x]
    BY <1>1, <1>2
  <1> HIDE DEF c
  <1>4. w \in Holdings
    BY <1>1, <1>3, WhereTyped
  <1>5. at \in Places /\ Now[at] = cbuf[pe] /\ w[at] = c[pe]
    BY WhereAt DEF Now
  <1>6. \A place \in Places \ {at} : w[place] = Now[place]
    <2>1. /\ \A x, y \in Pes : w[<<"net", x, y>>] = Now[<<"net", x, y>>]
          /\ \A e \in Elements : w[<<"buffer", e>>] = Now[<<"buffer", e>>]
          /\ \A e \in Elements : w[<<"handled", e>>] = Now[<<"handled", e>>]
      BY WhereAt DEF Now
    <2>2. \A x \in Pes : <<"cbuf", x>> # at => w[<<"cbuf", x>>] = Now[<<"cbuf", x>>]
      BY <1>3, WhereAt DEF Now
    <2> HIDE DEF at, w
    <2>3. QED
      BY <2>1, <2>2, PlaceCases
  <1> HIDE DEF at, w
  <1>7. /\ at \in Places /\ Now[at] = cbuf[pe] /\ w \in Holdings
        /\ 1 \in 1 .. Len(Now[at]) /\ Head(cbuf[pe]) = Now[at][1]
        /\ Without(Now[at], 1, w[at])
        /\ \A place \in Places \ {at} : w[place] = Now[place]
    BY <1>2, <1>3, <1>4, <1>5, <1>6
  <1>8. QED
    BY <1>7 DEF at, w, c

LEMMA FromBuffer ==
  ASSUME Basic, NEW i \in Elements, buffers[i] # << >>
  PROVE  LET at == <<"buffer", i>>
             w == Where(net, cbuf, [buffers EXCEPT ![i] = Tail(buffers[i])], handled)
         IN  /\ at \in Places /\ Now[at] = buffers[i] /\ w \in Holdings
             /\ 1 \in 1 .. Len(Now[at]) /\ Head(buffers[i]) = Now[at][1]
             /\ Without(Now[at], 1, w[at])
             /\ \A place \in Places \ {at} : w[place] = Now[place]
  <1> DEFINE at == <<"buffer", i>>
             b == [buffers EXCEPT ![i] = Tail(buffers[i])]
             w == Where(net, cbuf, b, handled)
  <1>1. /\ net \in [Pes -> [Pes -> Seq(Messages)]] /\ cbuf \in [Pes -> Seq(Messages)]
        /\ buffers \in [Elements -> Seq(Messages)] /\ handled \in [Elements -> Seq(Messages)]
    BY ChannelTyped, CbufTyped DEF Basic, Local, TypedElements
  <1>2. /\ Without(buffers[i], 1, Tail(buffers[i])) /\ 1 \in 1 .. Len(buffers[i])
        /\ Head(buffers[i]) = buffers[i][1] /\ Tail(buffers[i]) \in Seq(Messages)
    BY <1>1, TailWithout
  <1>3. /\ b \in [Elements -> Seq(Messages)] /\ b[i] = Tail(buffers[i])
        /\ \A e \in Elements : e # i => b[e] = buffers[e]
    BY <1>1, <1>2
  <1> HIDE DEF b
  <1>4. w \in Holdings
    BY <1>1, <1>3, WhereTyped
  <1>5. at \in Places /\ Now[at] = buffers[i] /\ w[at] = b[i]
    BY DEF Now, Places, Where, Held
  <1>6. \A place \in Places \ {at} : w[place] = Now[place]
    <2>1. /\ \A x, y \in Pes : w[<<"net", x, y>>] = Now[<<"net", x, y>>]
          /\ \A x \in Pes : w[<<"cbuf", x>>] = Now[<<"cbuf", x>>]
          /\ \A e \in Elements : w[<<"handled", e>>] = Now[<<"handled", e>>]
      BY WhereAt DEF Now
    <2>2. \A e \in Elements : <<"buffer", e>> # at => w[<<"buffer", e>>] = Now[<<"buffer", e>>]
      BY <1>3, WhereAt DEF Now
    <2> HIDE DEF at, w
    <2>3. QED
      BY <2>1, <2>2, PlaceCases
  <1> HIDE DEF at, w
  <1>7. /\ at \in Places /\ Now[at] = buffers[i] /\ w \in Holdings
        /\ 1 \in 1 .. Len(Now[at]) /\ Head(buffers[i]) = Now[at][1]
        /\ Without(Now[at], 1, w[at])
        /\ \A place \in Places \ {at} : w[place] = Now[place]
    BY <1>2, <1>3, <1>4, <1>5, <1>6
  <1>8. QED
    BY <1>7 DEF at, w, b

-----------------------------------------------------------------------------
LEMMA KeptReceive ==
  ASSUME Basic, Basic', NEW src \in Pes, NEW pe \in Pes, Receive(pe, src), NEW S, Addressed(S)
  PROVE  Keeps(Now, Now', S)
  <1>1. Table /\ Local /\ net \in Channels /\ inst' = inst
    BY DEF Basic, Local, Receive, ReceiveNth, client
  <1>2. PICK k \in DOMAIN net[src][pe] :
          Deliver(pe, net[src][pe][k], [net EXCEPT ![src][pe] = RemoveAt(net[src][pe], k)])
    BY DEF Receive, ReceiveNth
  <1> DEFINE m == net[src][pe][k]
             at == <<"net", src, pe>>
             n == [net EXCEPT ![src][pe] = RemoveAt(net[src][pe], k)]
             w == Where(n, cbuf, buffers, handled)
  <1>3. k \in 1 .. Len(net[src][pe]) /\ m \in Pending /\ m \in Messages
    <2>1. net[src][pe] \in Seq(Pending)
      BY <1>1 DEF Channels
    <2>2. Pending \subseteq Messages
      BY DEF Pending, Awaiting, Direct, Copies, Unordered
    <2>3. QED
      BY <2>1, <2>2
  <1>4. /\ at \in Places /\ Now[at] = net[src][pe] /\ n \in Channels /\ w \in Holdings
        /\ Without(Now[at], k, w[at])
        /\ \A place \in Places \ {at} : w[place] = Now[place]
    BY <1>3, FromNet
  <1>5. k \in 1 .. Len(Now[at]) /\ m = Now[at][k]
    BY <1>3, <1>4
  <1>6. Deliver(pe, m, n)
    BY <1>2
  <1> HIDE DEF m, n, at
  <1>7. \/ Moved(w, Now', m)
        \/ m.kind = "bcast" /\ Spread(w, Now')
        \/ m.kind = "create" /\ Now' = w
    BY <1>1, <1>3, <1>4, <1>6, DeliverEffect, EffectMoves
  <1>8. Now \in Holdings /\ Now' \in Holdings
    BY NowTyped, NowTypedNext
  <1> HIDE DEF w
  <1>9. QED
    BY <1>3, <1>4, <1>5, <1>7, <1>8, DeliveredKeeps

LEMMA KeptFlushCollective ==
  ASSUME Basic, Basic', NEW pe \in Pes, FlushCollectiveBuffer(pe), NEW S, Addressed(S)
  PROVE  Keeps(Now, Now', S)
  <1> DEFINE m == Head(cbuf[pe])
             at == <<"cbuf", pe>>
             w == Where(net, cbuf', buffers, handled)
  <1>1. /\ Local /\ net \in Channels /\ inst' = inst /\ cbuf[pe] # << >>
        /\ cbuf' = [cbuf EXCEPT ![pe] = Tail(cbuf[pe])] /\ DeliverNow(pe, m, net)
    BY DEF Basic, Local, Table, FlushCollectiveBuffer, client
  <1>2. /\ at \in Places /\ w \in Holdings /\ 1 \in 1 .. Len(Now[at]) /\ m = Now[at][1]
        /\ Without(Now[at], 1, w[at])
        /\ \A place \in Places \ {at} : w[place] = Now[place]
    BY <1>1, FromCbuf
  <1>3. m \in Awaiting /\ m \in Messages
    <2>1. cbuf[pe] \in Seq(Awaiting)
      BY DEF Basic, Table
    <2>2. Awaiting \subseteq Messages
      BY DEF Awaiting, Direct, Copies, Unordered
    <2>3. m \in Awaiting
      BY <1>1, <2>1
    <2>4. QED
      BY <2>2, <2>3
  <1> HIDE DEF m, at
  <1>4. Moved(w, Now', m) \/ (m.kind = "bcast" /\ Spread(w, Now'))
    BY <1>1, <1>3, DeliverNowEffect, EffectMoves DEF Now
  <1>5. Now \in Holdings /\ Now' \in Holdings
    BY NowTyped, NowTypedNext
  <1> HIDE DEF w
  <1>6. QED
    BY <1>2, <1>3, <1>4, <1>5, DeliveredKeeps

(* What flush_buffers passes to handle_. *)
LEMMA FlushedMessage ==
  ASSUME Basic, NEW pe \in Pes, FlushBuffers(pe)
  PROVE  LET i == Head(frames[pe])
             m == Head(buffers[i])
         IN  /\ i \in chares /\ PeFor(i) = pe /\ i \in Indices /\ i \in Elements
             /\ buffers[i] # << >> =>
                  /\ m \in Buffered(i) /\ m \in Messages /\ m.to = i /\ m.kind \in {"p2p", "bcast"}
                  /\ m.bcast # 0 => IsGroup /\ m.kind = "bcast"
                  /\ Tail(buffers[i]) \in Seq(Buffered(i))
                  /\ Handle(pe, m, net, Tail(buffers[i]))
             /\ buffers[i] = << >> =>
                  UNCHANGED <<net, chares, last_bcast, buffers, handled, delivered>>
             /\ UNCHANGED <<created, cbuf, cflush, inst, made, inserted, sends, bcasts>>
  <1> DEFINE i == Head(frames[pe])
             m == Head(buffers[i])
  <1>1. Loops /\ TypedElements /\ frames[pe] \in Seq(Indices) /\ frames[pe] # << >>
    BY DEF Basic, Local, TypedElements, FlushBuffers
  <1>2. 1 \in 1 .. Len(frames[pe]) /\ i = frames[pe][1]
    BY <1>1
  <1>3. i \in chares /\ PeFor(i) = pe /\ i \in Indices /\ i \in Elements
    BY <1>1, <1>2, IndexFacts DEF Loops, TypedElements
  <1>4. ASSUME buffers[i] # << >>
        PROVE  m \in Buffered(i) /\ Tail(buffers[i]) \in Seq(Buffered(i))
    <2>1. buffers[i] \in Seq(Buffered(i))
      BY <1>1, <1>3 DEF TypedElements
    <2> HIDE DEF i
    <2>2. QED
      BY <1>4, <2>1
  <1>5. m \in Buffered(i) => /\ m \in Messages /\ m.to = i /\ m.kind \in {"p2p", "bcast"}
                             /\ m.bcast # 0 => IsGroup /\ m.kind = "bcast"
    BY DEF Buffered, Direct, Copies
  <1>6. /\ buffers[i] # << >> => Handle(pe, m, net, Tail(buffers[i]))
        /\ buffers[i] = << >> => UNCHANGED <<net, chares, last_bcast, buffers, handled, delivered>>
        /\ UNCHANGED <<created, cbuf, cflush, inst, made, inserted, sends, bcasts>>
    BY DEF FlushBuffers, history, table, client
  <1> HIDE DEF i, m
  <1>7. /\ i \in chares /\ PeFor(i) = pe /\ i \in Indices /\ i \in Elements
        /\ buffers[i] # << >> =>
             /\ m \in Buffered(i) /\ m \in Messages /\ m.to = i /\ m.kind \in {"p2p", "bcast"}
             /\ m.bcast # 0 => IsGroup /\ m.kind = "bcast"
             /\ Tail(buffers[i]) \in Seq(Buffered(i))
             /\ Handle(pe, m, net, Tail(buffers[i]))
        /\ buffers[i] = << >> =>
             UNCHANGED <<net, chares, last_bcast, buffers, handled, delivered>>
        /\ UNCHANGED <<created, cbuf, cflush, inst, made, inserted, sends, bcasts>>
    BY <1>3, <1>4, <1>5, <1>6
  <1>8. QED
    BY <1>7 DEF m, i

LEMMA KeptFlush ==
  ASSUME Basic, Basic', NEW pe \in Pes, FlushBuffers(pe), NEW S, Addressed(S)
  PROVE  Keeps(Now, Now', S)
  <1> DEFINE i == Head(frames[pe])
             m == Head(buffers[i])
             at == <<"buffer", i>>
             w == Where(net, cbuf, [buffers EXCEPT ![i] = Tail(buffers[i])], handled)
  <1>1. /\ i \in chares /\ PeFor(i) = pe /\ i \in Elements
        /\ buffers[i] # << >> =>
             /\ m \in Messages /\ m.to = i /\ m.kind \in {"p2p", "bcast"}
             /\ m.bcast # 0 => IsGroup /\ m.kind = "bcast"
             /\ Handle(pe, m, net, Tail(buffers[i]))
        /\ buffers[i] = << >> => UNCHANGED <<net, buffers, handled>>
        /\ UNCHANGED <<cbuf, inst>>
    BY FlushedMessage
  <1>2. Local /\ net \in Channels
    BY DEF Basic, Local
  <1>3. Now \in Holdings /\ Now' \in Holdings
    BY NowTyped, NowTypedNext
  <1> HIDE DEF i
  <1>4. CASE buffers[i] = << >>
    <2>1. Now' = Now
      BY <1>1, <1>4 DEF Now
    <2>2. QED
      BY <2>1 DEF Keeps
  <1>5. CASE buffers[i] # << >>
    <2>1. /\ at \in Places /\ w \in Holdings /\ 1 \in 1 .. Len(Now[at]) /\ m = Now[at][1]
          /\ Without(Now[at], 1, w[at])
          /\ \A place \in Places \ {at} : w[place] = Now[place]
      BY <1>1, <1>5, FromBuffer
    <2> HIDE DEF at, m
    <2>2. Moved(w, Now', m) \/ Spread(Now, Now')
      <3>1. Moved(w, Now', m) \/ Copied(Now, Now', m)
        BY <1>1, <1>2, <1>5, HandleMoves DEF Now, m
      <3>2. QED
        BY <3>1, CopiedSpread
    <2> HIDE DEF w
    <2>3. CASE Moved(w, Now', m)
      BY <1>1, <1>3, <1>5, <2>1, <2>3, DeliveredKeeps
    <2>4. CASE Spread(Now, Now')
      BY <1>3, <2>4, SpreadKeeps
    <2>5. QED
      BY <2>2, <2>3, <2>4
  <1>6. QED
    BY <1>4, <1>5

-----------------------------------------------------------------------------
(* A message for every PE joins the channels from p. *)
Posted(w, v, p, f) ==
  /\ \A d \in Pes : /\ <<"net", p, d>> \in Places
                    /\ v[<<"net", p, d>>] = Append(w[<<"net", p, d>>], f[d])
  /\ \A place \in Places :
       v[place] = w[place] \/ \E d \in Pes : place = <<"net", p, d>>

LEMMA PostAllPlaces ==
  ASSUME NEW n \in Channels, NEW p \in Pes, NEW f, NEW c, NEW b, NEW h
  PROVE  Posted(Where(n, c, b, h),
                Where([n EXCEPT ![p] = [d \in Pes |-> Append(n[p][d], f[d])]], c, b, h), p, f)
  <1> DEFINE k == [n EXCEPT ![p] = [d \in Pes |-> Append(n[p][d], f[d])]]
             w == Where(n, c, b, h)
             v == Where(k, c, b, h)
  <1>1. \A d \in Pes : k[p][d] = Append(n[p][d], f[d])
    BY DEF Channels
  <1>2. \A x, y \in Pes : x # p => k[x][y] = n[x][y]
    BY DEF Channels
  <1> HIDE DEF k
  <1>3. ASSUME NEW d \in Pes
        PROVE  /\ <<"net", p, d>> \in Places
               /\ v[<<"net", p, d>>] = Append(w[<<"net", p, d>>], f[d])
    <2>1. <<"net", p, d>> \in Places /\ v[<<"net", p, d>>] = k[p][d] /\ w[<<"net", p, d>>] = n[p][d]
      BY WhereAt
    <2>2. QED
      BY <1>1, <2>1
  <1>4. ASSUME NEW place \in Places
        PROVE  v[place] = w[place] \/ \E d \in Pes : place = <<"net", p, d>>
    <2>1. /\ \A x \in Pes : v[<<"cbuf", x>>] = w[<<"cbuf", x>>]
          /\ \A e \in Elements : v[<<"buffer", e>>] = w[<<"buffer", e>>]
          /\ \A e \in Elements : v[<<"handled", e>>] = w[<<"handled", e>>]
      BY WhereAt
    <2>2. \A x, y \in Pes : x # p => v[<<"net", x, y>>] = w[<<"net", x, y>>]
      BY <1>2, WhereAt
    <2> HIDE DEF v, w
    <2>3. QED
      BY <2>1, <2>2, PlaceCases
  <1>5. QED
    BY <1>3, <1>4 DEF k, Posted

LEMMA CreationKeeps ==
  ASSUME Basic, NEW S, \A x \in S : x.kind # "create"
  PROVE  LET n == PostAll(net, Creator, Message("create", 0, ChareMax))
             w == Where(n, cbuf, buffers, handled)
         IN  n \in Channels /\ w \in Holdings /\ Keeps(Now, w, S)
  <1> DEFINE create == Message("create", 0, ChareMax)
             f == [d \in Pes |-> create]
             n == PostAll(net, Creator, create)
             w == Where(n, cbuf, buffers, handled)
  <1>1. /\ net \in Channels /\ Creator \in Pes /\ n \in Channels
        /\ n = [net EXCEPT ![Creator] = [d \in Pes |-> Append(net[Creator][d], f[d])]]
        /\ create \in Messages /\ create \notin S
    <2>1. create.kind = "create"
      BY DEF Message
    <2>2. Pending \subseteq Messages
      BY DEF Pending, Awaiting, Direct, Copies, Unordered
    <2>3. net \in Channels /\ Creator \in Pes
      BY CollectiveAssumption DEF Basic, Local
    <2>4. create \in Pending /\ n \in Channels
          /\ n = [net EXCEPT ![Creator] = [d \in Pes |-> Append(net[Creator][d], create)]]
      BY <2>3, ConstructNet
    <2> HIDE DEF create, n
    <2>5. QED
      BY <2>1, <2>2, <2>3, <2>4
  <1>2. \A d \in Pes : f[d] \in Messages /\ f[d] \notin S
    BY <1>1
  <1>3. w \in Holdings
    <2>1. /\ cbuf \in [Pes -> Seq(Messages)]
          /\ buffers \in [Elements -> Seq(Messages)] /\ handled \in [Elements -> Seq(Messages)]
      BY CbufTyped DEF Basic, Local, TypedElements
    <2> HIDE DEF n
    <2>2. QED
      BY <1>1, <2>1, ChannelTyped, WhereTyped
  <1> HIDE DEF f, n, create
  <1>4. /\ \A d \in Pes : w[<<"net", Creator, d>>] = Append(Now[<<"net", Creator, d>>], f[d])
        /\ \A place \in Places :
             w[place] = Now[place] \/ \E d \in Pes : place = <<"net", Creator, d>>
    <2> DEFINE k == [net EXCEPT ![Creator] = [d \in Pes |-> Append(net[Creator][d], f[d])]]
               v == Where(k, cbuf, buffers, handled)
    <2>1. Posted(Now, v, Creator, f)
      BY <1>1, PostAllPlaces DEF Now
    <2>2. v = w
      BY <1>1
    <2> HIDE DEF v, w
    <2>3. QED
      BY <2>1, <2>2 DEF Posted
  <1> HIDE DEF w
  <1>5. \A place \in Places :
          \/ w[place] = Now[place]
          \/ \E x \in Messages : x \notin S /\ w[place] = Append(Now[place], x)
    BY <1>2, <1>4
  <1>6. Keeps(Now, w, S)
    BY <1>3, <1>5, NowTyped, GrowKeeps DEF Keeps
  <1>7. n \in Channels /\ w \in Holdings /\ Keeps(Now, w, S)
    BY <1>1, <1>3, <1>6
  <1>8. QED
    BY <1>7 DEF w, n, create

(* The sets of messages that are counted. *)
LEMMA Counted ==
  /\ \A i \in Indices : Addressed(Ctor(i))
  /\ \A id \in Nat : Addressed(P2p(id))
  BY DEF Addressed, Ctor, P2p

LEMMA ConstructKeeps ==
  ASSUME Basic, Basic', Made, ConstructGroup \/ ConstructArray
  PROVE  /\ \A S : (\A x \in S : x.kind \in {"p2p", "bcast"}) => Keeps(Now, Now', S)
         /\ ConstructArray => \A i \in Indices : Keeps(Now, Now', Ctor(i))
         /\ ConstructGroup =>
              \A i \in Indices : NoneIn(Now, Ctor(i)) => OneIn(Now', Ctor(i))
  <1> DEFINE create == Message("create", 0, ChareMax)
             n == PostAll(net, Creator, create)
             w == Where(n, cbuf, buffers, handled)
  <1>0. \A i \in Indices : \A x \in Ctor(i) : x.kind = "ctor"
    BY DEF Ctor
  <1>1. Now \in Holdings /\ Now' \in Holdings
    BY NowTyped, NowTypedNext
  <1>2. ASSUME NEW S, \A x \in S : x.kind # "create"
        PROVE  n \in Channels /\ w \in Holdings /\ Keeps(Now, w, S)
    BY <1>2, CreationKeeps
  <1>3. CASE ConstructArray
    <2>1. net' = n /\ UNCHANGED <<cbuf, buffers, handled>> /\ ~IsGroup
      BY <1>3 DEF ConstructArray, table, history
    <2>2. Now' = w
      BY <2>1 DEF Now
    <2>3. ~ConstructGroup
      BY <2>1 DEF ConstructGroup
    <2> HIDE DEF n, w
    <2>4. \A i \in Indices : Keeps(Now, Now', Ctor(i))
      BY <1>0, <1>2, <2>2
    <2>5. ASSUME NEW S, \A x \in S : x.kind \in {"p2p", "bcast"} PROVE Keeps(Now, Now', S)
      BY <1>2, <2>2, <2>5
    <2>6. QED
      BY <2>3, <2>4, <2>5
  <1>4. CASE ConstructGroup
    <2> DEFINE f == [d \in Pes |-> Message("ctor", 0, d)]
    <2>1. /\ net' = [n EXCEPT ![Creator] = [d \in Pes |-> Append(n[Creator][d], f[d])]]
          /\ UNCHANGED <<cbuf, buffers, handled>> /\ IsGroup
      <3>1. net' = [n EXCEPT ![Creator] = [d \in Pes |->
                      Append(n[Creator][d], Message("ctor", 0, ElementOf(d)))]]
        BY <1>4 DEF ConstructGroup
      <3> HIDE DEF n
      <3>2. QED
        BY <1>4, <3>1 DEF ConstructGroup, table, history, ElementOf
    <2>2. Indices = Pes /\ Creator \in Pes /\ n \in Channels /\ w \in Holdings
      <3>1. \A x \in {} : x.kind # "create"
        OBVIOUS
      <3> HIDE DEF n, w
      <3>2. n \in Channels /\ w \in Holdings /\ Keeps(Now, w, {})
        BY <1>2, <3>1
      <3>3. QED
        BY <2>1, <3>2, IndexFacts, CollectiveAssumption
    <2>3. \A d \in Pes : f[d] \in Messages /\ f[d].kind = "ctor" /\ f[d].to = d
      <3>1. ASSUME NEW d \in Pes PROVE f[d] \in Messages /\ f[d].kind = "ctor" /\ f[d].to = d
        <4>1. Message("ctor", 0, d) \in Direct
          BY <2>2, MessageTyped
        <4>2. QED
          BY <4>1 DEF Direct, Message
      <3>2. QED
        BY <3>1
    <2> HIDE DEF f, n
    <2>4. /\ \A d \in Pes : /\ <<"net", Creator, d>> \in Places
                            /\ Now'[<<"net", Creator, d>>] = Append(w[<<"net", Creator, d>>], f[d])
          /\ \A place \in Places :
               Now'[place] = w[place] \/ \E d \in Pes : place = <<"net", Creator, d>>
      <3> DEFINE k == [n EXCEPT ![Creator] = [d \in Pes |-> Append(n[Creator][d], f[d])]]
                 v == Where(k, cbuf, buffers, handled)
      <3>1. Posted(w, v, Creator, f)
        BY <2>2, PostAllPlaces
      <3>2. v = Now'
        BY <2>1 DEF Now
      <3> HIDE DEF v, w
      <3>3. QED
        BY <3>1, <3>2 DEF Posted
    <2> HIDE DEF w
    <2>5. ~ConstructArray
      BY <2>1 DEF ConstructArray
    <2>6. ASSUME NEW S, \A x \in S : x.kind \in {"p2p", "bcast"} PROVE Keeps(Now, Now', S)
      <3>1. Keeps(Now, w, S)
        BY <1>2, <2>6
      <3>2. \A place \in Places :
              \/ Now'[place] = w[place]
              \/ \E x \in Messages : x \notin S /\ Now'[place] = Append(w[place], x)
        BY <2>3, <2>4, <2>6
      <3>3. Keeps(w, Now', S)
        BY <1>1, <2>2, <3>2, GrowKeeps DEF Keeps
      <3>4. QED
        BY <3>1, <3>3 DEF Keeps
    <2>7. ASSUME NEW i \in Pes, NoneIn(Now, Ctor(i)) PROVE OneIn(Now', Ctor(i))
      <3> DEFINE first == <<"net", Creator, i>>
      <3>1. NoneIn(w, Ctor(i))
        BY <1>0, <1>2, <2>2, <2>7 DEF Keeps
      <3>2. f[i] \in Messages /\ f[i] \in Ctor(i) /\ first \in Places
            /\ Now'[first] = Append(w[first], f[i])
        BY <2>3, <2>4 DEF Ctor
      <3>3. \A place \in Places \ {first} :
              \/ Now'[place] = w[place]
              \/ \E x \in Messages : x \notin Ctor(i) /\ Now'[place] = Append(w[place], x)
        <4> TAKE place \in Places \ {first}
        <4>1. CASE Now'[place] = w[place]
          BY <4>1
        <4>2. CASE \E d \in Pes : place = <<"net", Creator, d>>
          <5>1. PICK d \in Pes : place = <<"net", Creator, d>>
            BY <4>2
          <5>2. d # i
            BY <5>1
          <5>3. f[d] \in Messages /\ f[d] \notin Ctor(i) /\ Now'[place] = Append(w[place], f[d])
            BY <2>3, <2>4, <5>1, <5>2 DEF Ctor
          <5>4. QED
            BY <5>3
        <4>3. QED
          BY <2>4, <4>1, <4>2
      <3> HIDE DEF first
      <3>4. QED
        BY <1>1, <2>2, <3>1, <3>2, <3>3, GrowOne
    <2>8. QED
      BY <2>2, <2>5, <2>6, <2>7
  <1>5. QED
    BY <1>3, <1>4

LEMMA SendMoves ==
  ASSUME Basic, NEW pe \in Pes, NEW i \in Indices, Insert(pe, i) \/ Send(pe, i)
  PROVE  \E m \in Direct :
           /\ Moved(Now, Now', m) /\ UNCHANGED <<last_bcast, delivered>>
           /\ Insert(pe, i) => m = Message("ctor", 0, i)
           /\ Send(pe, i) => m = Message("p2p", sends + 1, i)
  <1>1. PICK m \in Direct :
          /\ Deliver(pe, m, net)
          /\ Insert(pe, i) => m = Message("ctor", 0, i)
          /\ Send(pe, i) => m = Message("p2p", sends + 1, i)
    <2>1. sends \in Nat /\ inst.sends \in Nat
      BY CollectiveAssumption DEF Basic, Clients
    <2>2. CASE Insert(pe, i)
      <3>1. ~Send(pe, i) \/ inserted' = inserted
        BY DEF Send
      <3>2. inserted' # inserted
        BY <2>2 DEF Insert
      <3>3. Message("ctor", 0, i) \in Direct /\ Deliver(pe, Message("ctor", 0, i), net)
        BY <2>2, MessageTyped DEF Insert
      <3>4. QED
        BY <3>1, <3>2, <3>3
    <2>3. CASE Send(pe, i)
      <3>1. ~Insert(pe, i)
        BY <2>1, <2>3 DEF Insert, Send
      <3>2. sends + 1 \in Nat /\ Deliver(pe, Message("p2p", sends + 1, i), net)
        BY <2>1, <2>3 DEF Send
      <3>3. Message("p2p", sends + 1, i) \in Direct
        BY <3>2, MessageTyped
      <3>4. QED
        BY <3>1, <3>2, <3>3
    <2>4. QED
      BY <2>2, <2>3
  <1>2. Table /\ Local /\ net \in Channels /\ inst' = inst
    BY DEF Basic, Local, Insert, Send
  <1>3. m \in Pending /\ m.kind \in {"ctor", "p2p"}
    BY MessageTyped DEF Direct
  <1>4. Moved(Now, Now', m) /\ UNCHANGED <<last_bcast, delivered>>
    <2>1. Effect(Now, Now', m)
      BY <1>1, <1>2, <1>3, DeliverEffect DEF Now
    <2>2. m \notin Copies /\ m \notin Unordered
      BY <1>3 DEF Copies, Unordered
    <2>3. QED
      BY <2>1, <2>2 DEF Effect, Quiet, Gives, Follows
  <1>5. QED
    BY <1>1, <1>4

LEMMA BroadcastMoves ==
  ASSUME Basic, NEW pe \in Pes, Broadcast(pe)
  PROVE  LET m == Message("bcast", bcasts + 1, ChareMax)
         IN  m \in Unordered /\ Moved(Now, Now', m)
  <1> DEFINE m == Message("bcast", bcasts + 1, ChareMax)
  <1>1. net \in Channels /\ DOMAIN cbuf = Pes /\ PeFor(ChareMax) \in Pes /\ IsGroup
    BY Constants DEF Basic, Local, Table, Broadcast
  <1>2. bcasts + 1 \in Nat
    BY CollectiveAssumption DEF Basic, Clients
  <1>3. m \in Unordered
    BY <1>1, <1>2, MessageTyped
  <1>4. /\ UNCHANGED <<buffers, handled>>
        /\ \/ net' = Post(net, pe, PeFor(ChareMax), m) /\ cbuf' = cbuf
           \/ cbuf' = [cbuf EXCEPT ![pe] = Append(cbuf[pe], m)] /\ net' = net
    BY DEF Broadcast, history
  <1> HIDE DEF m
  <1>5. Moved(Now, Now', m)
    <2>1. CASE net' = Post(net, pe, PeFor(ChareMax), m) /\ cbuf' = cbuf
      BY <1>1, <1>4, <2>1, MovedNet DEF Now
    <2>2. CASE cbuf' = [cbuf EXCEPT ![pe] = Append(cbuf[pe], m)] /\ net' = net
      BY <1>1, <1>4, <2>2, MovedCbuf DEF Now
    <2>3. QED
      BY <1>4, <2>1, <2>2
  <1>6. QED
    BY <1>3, <1>5 DEF m

-----------------------------------------------------------------------------
(* Init: no message is anywhere. *)
LEMMA NothingYet ==
  ASSUME Init, NEW S
  PROVE  NoneIn(Now, S)
  <1>1. ASSUME NEW place \in Places PROVE Now[place] = << >>
    <2>1. CASE \E p, q \in Pes : place = <<"net", p, q>>
      BY <2>1, WhereAt DEF Init, Now
    <2>2. CASE \E p \in Pes : place = <<"cbuf", p>>
      BY <2>2, WhereAt DEF Init, Now
    <2>3. CASE \E i \in Elements : place = <<"buffer", i>> \/ place = <<"handled", i>>
      BY <2>3, WhereAt DEF Init, Now
    <2>4. QED
      BY <2>1, <2>2, <2>3, PlaceCases
  <1>2. QED
    BY <1>1 DEF NoneIn

LEMMA ConservedInit == Init => Conserved /\ Made
  <1> SUFFICES ASSUME Init PROVE Conserved /\ Made
    OBVIOUS
  <1>1. inserted = {} /\ sends = 0 /\ ~made
    BY DEF Init
  <1>2. QED
    BY <1>1, NothingYet DEF Conserved, Made

(* A PE's own steps are no step of a client. *)
LEMMA PeStepKeepsClient ==
  ASSUME NEW pe \in Pes, PeStep(pe) PROVE UNCHANGED client
  <1>1. CASE FlushCollectiveBuffer(pe)
    BY <1>1 DEF FlushCollectiveBuffer
  <1>2. CASE FlushBuffers(pe)
    BY <1>2 DEF FlushBuffers
  <1>3. ASSUME NEW src \in Pes, Receive(pe, src) PROVE UNCHANGED client
    BY <1>3 DEF Receive, ReceiveNth
  <1>4. QED
    BY <1>1, <1>2, <1>3 DEF PeStep

LEMMA MadeNext == Made /\ [Next]_vars => Made'
  <1> SUFFICES ASSUME Made, [Next]_vars PROVE Made'
    OBVIOUS
  <1> USE DEF Made, Indices, IsGroup
  <1>1. CASE ConstructGroup
    BY <1>1 DEF ConstructGroup
  <1>2. CASE ConstructArray
    BY <1>2 DEF ConstructArray
  <1>3. ASSUME NEW pe \in Pes, NEW i \in Indices, Insert(pe, i) \/ Send(pe, i) PROVE Made'
    BY <1>3 DEF Insert, Send
  <1>4. ASSUME NEW pe \in Pes, Broadcast(pe) PROVE Made'
    BY <1>4 DEF Broadcast
  <1>5. ASSUME NEW pe \in Pes, PeStep(pe) PROVE Made'
    <2>1. UNCHANGED client
      BY <1>5, PeStepKeepsClient
    <2>2. QED
      BY <2>1 DEF client
  <1>6. CASE UNCHANGED vars
    BY <1>6 DEF vars
  <1>7. QED
    BY <1>1, <1>2, <1>3, <1>4, <1>5, <1>6 DEF Next

(* Nothing new is asked for: everything stays as it was. *)
LEMMA ConservedKept ==
  ASSUME Conserved, UNCHANGED <<inst, inserted, sends>>,
         \A i \in Indices : Keeps(Now, Now', Ctor(i)),
         \A id \in Nat : Keeps(Now, Now', P2p(id))
  PROVE  Conserved'
  BY DEF Conserved, Keeps, Indices, IsGroup

LEMMA ConservedNext == Basic /\ Basic' /\ Made /\ Conserved /\ [Next]_vars => Conserved'
  <1> SUFFICES ASSUME Basic, Basic', Made, Conserved, [Next]_vars PROVE Conserved'
    OBVIOUS
  <1>1. Now \in Holdings /\ Now' \in Holdings
    BY NowTyped, NowTypedNext
  <1>2. CASE ConstructArray
    <2>1. UNCHANGED <<inst, inserted, sends>>
      BY <1>2 DEF ConstructArray
    <2>2. \A id \in Nat : Keeps(Now, Now', P2p(id))
      BY <1>2, ConstructKeeps DEF P2p
    <2>3. QED
      BY <1>2, <2>1, <2>2, ConstructKeeps, ConservedKept
  <1>3. CASE ConstructGroup
    <2>1. inst' = inst /\ sends' = sends /\ inserted' = Indices /\ Indices' = Indices /\ inserted = {}
      BY <1>3 DEF ConstructGroup, Made, Indices, IsGroup
    <2>2. \A id \in Nat : Keeps(Now, Now', P2p(id))
      BY <1>3, ConstructKeeps DEF P2p
    <2>3. \A i \in Indices : OneIn(Now', Ctor(i))
      BY <1>3, <2>1, ConstructKeeps DEF Conserved
    <2>4. QED
      BY <2>1, <2>2, <2>3 DEF Conserved, Keeps
  <1>4. ASSUME NEW pe \in Pes, NEW i \in Indices, Insert(pe, i) \/ Send(pe, i) PROVE Conserved'
    <2>1. PICK m \in Direct :
            /\ Moved(Now, Now', m)
            /\ Insert(pe, i) => m = Message("ctor", 0, i)
            /\ Send(pe, i) => m = Message("p2p", sends + 1, i)
      BY <1>4, SendMoves
    <2>2. m \in Messages
      BY DEF Direct
    <2>3. ASSUME NEW S, m \notin S PROVE Keeps(Now, Now', S)
      BY <1>1, <2>1, <2>2, <2>3, MovedKeeps
    <2>4. ASSUME NEW S, m \in S, NoneIn(Now, S) PROVE OneIn(Now', S)
      BY <1>1, <2>1, <2>2, <2>4, MovedKeeps
    <2>5. CASE Insert(pe, i)
      <3>1. /\ UNCHANGED <<inst, sends>> /\ Indices' = Indices
            /\ i \notin inserted /\ inserted' = inserted \cup {i}
        BY <2>5 DEF Insert, Indices, IsGroup
      <3>2. m.kind = "ctor" /\ m.to = i
        BY <2>1, <2>5 DEF Message
      <3>3. OneIn(Now', Ctor(i))
        BY <2>2, <2>4, <3>1, <3>2 DEF Conserved, Ctor
      <3>4. \A j \in Indices : j # i => Keeps(Now, Now', Ctor(j))
        BY <2>3, <3>2 DEF Ctor
      <3>5. \A id \in Nat : Keeps(Now, Now', P2p(id))
        BY <2>3, <3>2 DEF P2p
      <3>6. QED
        BY <3>1, <3>3, <3>4, <3>5 DEF Conserved, Keeps
    <2>6. CASE Send(pe, i)
      <3>1. UNCHANGED <<inst, inserted>> /\ Indices' = Indices /\ sends' = sends + 1 /\ sends \in Nat
        BY <2>6, CollectiveAssumption DEF Send, Indices, IsGroup, Basic, Clients
      <3>2. m.kind = "p2p" /\ m.id = sends + 1
        BY <2>1, <2>6 DEF Message
      <3>3. OneIn(Now', P2p(sends + 1))
        <4>1. sends + 1 \in Nat \ {0} /\ ~(sends + 1 <= sends)
          BY <3>1
        <4>2. NoneIn(Now, P2p(sends + 1))
          BY <4>1 DEF Conserved
        <4>3. QED
          BY <2>2, <2>4, <3>2, <4>2 DEF P2p
      <3>4. \A id \in Nat : id # sends + 1 => Keeps(Now, Now', P2p(id))
        BY <2>3, <3>2 DEF P2p
      <3>5. \A j \in Indices : Keeps(Now, Now', Ctor(j))
        BY <2>3, <3>2 DEF Ctor
      <3>6. \A id \in Nat : id # sends + 1 => (id <= sends + 1 <=> id <= sends)
        BY <3>1
      <3>7. \A j \in Indices :
              IF j \in inserted THEN OneIn(Now', Ctor(j)) ELSE NoneIn(Now', Ctor(j))
        BY <3>5 DEF Conserved, Keeps
      <3>8. \A id \in Nat \ {0} :
              IF id <= sends + 1 THEN OneIn(Now', P2p(id)) ELSE NoneIn(Now', P2p(id))
        BY <3>1, <3>3, <3>4, <3>6 DEF Conserved, Keeps
      <3>9. QED
        BY <3>1, <3>7, <3>8 DEF Conserved
    <2>7. QED
      BY <1>4, <2>5, <2>6
  <1>5. ASSUME NEW pe \in Pes, Broadcast(pe) PROVE Conserved'
    <2> DEFINE m == Message("bcast", bcasts + 1, ChareMax)
    <2>1. Moved(Now, Now', m) /\ m \in Messages /\ m.kind = "bcast"
      BY <1>5, BroadcastMoves DEF Unordered
    <2>2. UNCHANGED <<inst, inserted, sends>>
      BY <1>5 DEF Broadcast
    <2> HIDE DEF m
    <2>3. /\ \A i \in Indices : Keeps(Now, Now', Ctor(i))
          /\ \A id \in Nat : Keeps(Now, Now', P2p(id))
      <3>1. ASSUME NEW S, m \notin S PROVE Keeps(Now, Now', S)
        BY <1>1, <2>1, <3>1, MovedKeeps
      <3>2. QED
        BY <2>1, <3>1 DEF Ctor, P2p
    <2>4. QED
      BY <2>2, <2>3, ConservedKept
  <1>6. ASSUME NEW pe \in Pes, PeStep(pe) PROVE Conserved'
    <2>1. UNCHANGED <<inst, inserted, sends>>
      BY <1>6, PeStepKeepsClient DEF client
    <2>2. ASSUME NEW S, Addressed(S) PROVE Keeps(Now, Now', S)
      BY <1>6, <2>2, KeptReceive, KeptFlushCollective, KeptFlush DEF PeStep
    <2>3. QED
      BY <2>1, <2>2, Counted, ConservedKept
  <1>7. CASE UNCHANGED vars
    <2>1. UNCHANGED <<inst, inserted, sends>> /\ Now' = Now
      BY <1>7 DEF vars, Now
    <2>2. QED
      BY <2>1, ConservedKept DEF Keeps
  <1>8. QED
    BY <1>2, <1>3, <1>4, <1>5, <1>6, <1>7 DEF Next

Counting == Basic /\ Made /\ Conserved

LEMMA CountingHolds == Spec => []Counting
  <1>1. Init => Counting
    BY BasicInit, ConservedInit DEF Counting
  <1>2. Counting /\ [Next]_vars => Counting'
    BY BasicNext, MadeNext, ConservedNext DEF Counting
  <1>3. QED
    BY <1>1, <1>2, PTL DEF Spec

(***************************************************************************)
(* try_deliver constructs an element once, before anything runs on it: the *)
(* first thing its methods are run on is the one constructor message made  *)
(* for it, for any number of PEs and any programs.                         *)
(***************************************************************************)
THEOREM ConstructorRunsFirst == Spec => []ConstructedFirst
  <1>1. Counting => ConstructedFirst
    <2> SUFFICES ASSUME Counting, NEW i \in Indices, handled[i] # << >>
                 PROVE  /\ Head(handled[i]).kind = "ctor"
                        /\ \A k \in 2 .. Len(handled[i]) : handled[i][k].kind # "ctor"
      BY DEF ConstructedFirst
    <2>1. i \in Elements /\ handled[i] \in Seq(Runnable(i)) /\ handled[i] \in Seq(Messages)
      BY IndexFacts DEF Counting, Basic, Local, TypedElements
    <2>2. handled[i][1].kind = "ctor" /\ 1 \in 1 .. Len(handled[i]) /\ Head(handled[i]) = handled[i][1]
      BY <2>1 DEF Counting, Basic, Local, Constructed
    <2> DEFINE at == <<"handled", i>>
    <2>3. at \in Places /\ Now[at] = handled[i]
      BY <2>1, WhereAt DEF Now
    <2>4. \A k \in 1 .. Len(Now[at]) : Now[at][k].kind = "ctor" => Now[at][k] \in Ctor(i)
      BY <2>1, <2>3 DEF Runnable, Ctor
    <2> HIDE DEF at
    <2>5. Now[at][1] \in Ctor(i) /\ 1 \in 1 .. Len(Now[at])
      BY <2>2, <2>3, <2>4
    <2>6. ~NoneIn(Now, Ctor(i))
      BY <2>3, <2>5 DEF NoneIn
    <2>7. OneIn(Now, Ctor(i))
      BY <2>6 DEF Counting, Conserved
    <2>8. ASSUME NEW k \in 2 .. Len(handled[i]), handled[i][k].kind = "ctor" PROVE FALSE
      <3>1. k \in 1 .. Len(Now[at]) /\ Now[at][k] \in Ctor(i) /\ k # 1
        BY <2>1, <2>3, <2>4, <2>8
      <3>2. QED
        BY <2>3, <2>5, <2>7, <3>1 DEF OneIn
    <2>9. QED
      BY <2>2, <2>8
  <1>2. QED
    BY <1>1, CountingHolds, PTL

(***************************************************************************)
(* A message to an element is never lost and never doubled by try_deliver, *)
(* buffer_, handle_ or the flushing loops: it is in exactly one place.     *)
(***************************************************************************)
THEOREM MessagesConserved == Spec => []MessageConserved
  <1>1. Counting => MessageConserved
    <2> SUFFICES ASSUME Counting, NEW id \in 1 .. sends
                 PROVE  LET in(place) == {k \in DOMAIN At(place) :
                                            At(place)[k].kind = "p2p" /\ At(place)[k].id = id}
                        IN  \E place \in Places :
                              /\ \E k \in in(place) : in(place) = {k}
                              /\ \A other \in Places \ {place} : in(other) = {}
      BY DEF MessageConserved
    <2>1. sends \in Nat /\ id \in Nat \ {0} /\ id <= sends
      BY CollectiveAssumption DEF Counting, Basic, Clients
    <2>2. OneIn(Now, P2p(id))
      BY <2>1 DEF Counting, Conserved
    <2> DEFINE in(place) == {k \in DOMAIN At(place) :
                               At(place)[k].kind = "p2p" /\ At(place)[k].id = id}
               there(place) == {k \in 1 .. Len(Now[place]) : Now[place][k] \in P2p(id)}
    <2>3. ASSUME NEW place \in Places PROVE in(place) = there(place)
      <3>1. At(place) = Now[place]
        <4>1. CASE \E p, q \in Pes : place = <<"net", p, q>>
          BY <4>1, WhereAt DEF At, Now
        <4>2. CASE \E p \in Pes : place = <<"cbuf", p>>
          BY <4>2, WhereAt DEF At, Now
        <4>3. CASE \E i \in Elements : place = <<"buffer", i>> \/ place = <<"handled", i>>
          BY <4>3, WhereAt DEF At, Now
        <4>4. QED
          BY <4>1, <4>2, <4>3, PlaceCases
      <3>2. Now[place] \in Seq(Messages)
        BY NowTyped DEF Counting, Holdings
      <3>3. DOMAIN Now[place] = 1 .. Len(Now[place])
            /\ \A k \in 1 .. Len(Now[place]) : Now[place][k] \in Messages
        BY <3>2
      <3>4. QED
        BY <3>1, <3>3 DEF P2p
    <2>4. PICK place \in Places : \E k \in 1 .. Len(Now[place]) :
            /\ Now[place][k] \in P2p(id)
            /\ \A other \in Places : \A j \in 1 .. Len(Now[other]) :
                 Now[other][j] \in P2p(id) => other = place /\ j = k
      BY <2>2 DEF OneIn
    <2>5. /\ \E k \in there(place) : there(place) = {k}
          /\ \A other \in Places \ {place} : there(other) = {}
      BY <2>4
    <2> HIDE DEF in, there
    <2>6. \E p \in Places : /\ \E k \in in(p) : in(p) = {k}
                            /\ \A other \in Places \ {p} : in(other) = {}
      BY <2>3, <2>5
    <2>7. QED
      BY <2>6 DEF in
  <1>2. QED
    BY <1>1, CountingHolds, PTL

-----------------------------------------------------------------------------
(* Broadcast b has its place in the order, which is that of the root. *)
Order == delivered[Root]
Given(b) == \E k \in 1 .. Len(Order) : Order[k] = b

(* Every element waits for the number after those it has handled. *)
Progress ==
  /\ \A i \in Elements : last_bcast[i] = Len(delivered[i])
  /\ \A j, k \in 1 .. Len(Order) : Order[j] = Order[k] => j = k
  /\ \A k \in 1 .. Len(Order) : Order[k] \in 1 .. bcasts

(* A broadcast without a place is on its way to the root, once. *)
Unplaced(b) == b \in 1 .. bcasts /\ ~Given(b)
Underway(w) ==
  \A b \in Nat : IF Unplaced(b) THEN OneIn(w, Bcast(b)) ELSE NoneIn(w, Bcast(b))

(* The number of a broadcast is its place in the order. *)
Misnumbered ==
  {x \in Numbered : ~(x.bcast \in 1 .. Len(Order) /\ Order[x.bcast] = x.id)}

(***************************************************************************)
(* A broadcast gets its place in the order of the root when the root       *)
(* handles it, once; and every copy carries the number of that place.      *)
(***************************************************************************)
Numbers == Progress /\ Underway(Now) /\ NoneIn(Now, Misnumbered)

(* The numbers of bcast_id_t do not run out. *)
Window == \A r \in Instances : r.bcasts <= MaxBcasts /\ MaxBcasts \in 0 .. BcastMod - 1

LEMMA DeliveredTyped ==
  ASSUME Basic
  PROVE  /\ delivered \in [Elements -> Seq(Nat)] /\ Root \in Elements
         /\ Order \in Seq(Nat) /\ bcasts \in Nat
  BY Constants, CollectiveAssumption DEF Basic, Local, TypedElements, Clients, Order

(* As long as one of n broadcasts has no place, fewer than n have one. *)
LEMMA RootRoom ==
  ASSUME NEW n \in Nat, NEW q \in Seq(Nat), NEW b \in 1 .. n,
         \A k \in 1 .. Len(q) : q[k] \in 1 .. n /\ q[k] # b,
         \A j, k \in 1 .. Len(q) : q[j] = q[k] => j = k
  PROVE  Len(q) < n
  <1> SUFFICES ASSUME ~(Len(q) < n) PROVE FALSE
    OBVIOUS
  <1> DEFINE S == 1 .. Len(q)
             T == (1 .. n) \ {b}
             f == [k \in S |-> q[k]]
  <1>1. Len(q) \in Nat /\ n \in Nat \ {0}
    OBVIOUS
  <1>2. IsFiniteSet(S) /\ Cardinality(S) = Len(q)
    <2>1. PICK l \in Nat : l = Len(q)
      BY <1>1
    <2>2. IsFiniteSet(1 .. l) /\ Cardinality(1 .. l) = IF 1 > l THEN 0 ELSE l - 1 + 1
      BY FS_Interval
    <2>3. QED
      BY <2>1, <2>2
  <1>3. IsFiniteSet(T) /\ Cardinality(T) = n - 1
    <2>1. IsFiniteSet(1 .. n) /\ Cardinality(1 .. n) = n
      BY <1>1, FS_Interval
    <2>2. QED
      BY <2>1, FS_RemoveElement
  <1>4. f \in [S -> T]
    OBVIOUS
  <1>5. Cardinality(T) < Cardinality(S)
    BY <1>1, <1>2, <1>3
  <1>6. \A x, y \in S : f[x] = f[y] => x = y
    OBVIOUS
  <1> HIDE DEF S, T, f
  <1>7. \E x, y \in S : x # y /\ f[x] = f[y]
    BY <1>2, <1>3, <1>4, <1>5, FS_PigeonHole, SMTT(30)
  <1>8. QED
    BY <1>6, <1>7

LEMMA CopiedKeeps ==
  ASSUME NEW w \in Holdings, NEW v \in Holdings, NEW S, NEW m, Copied(w, v, m),
         \A x \in CopiesOf(m) : x \notin S
  PROVE  Keeps(w, v, S)
  <1>1. \A place \in Places :
          \/ v[place] = w[place]
          \/ \E x \in Messages : x \notin S /\ v[place] = Append(w[place], x)
    BY DEF Copied, CopiesOf, Numbered
  <1>2. QED
    BY <1>1, GrowKeeps DEF Keeps

LEMMA CopiesNotUnderway ==
  ASSUME NEW m, NEW b
  PROVE  \A x \in CopiesOf(m) : x \notin Bcast(b)
  BY DEF CopiesOf, Numbered, Bcast

(* Broadcasts stay where they are, or move on. *)
LEMMA NumbersQuiet ==
  ASSUME Numbers, UNCHANGED <<bcasts, last_bcast, delivered>>,
         \A S : (\A x \in S : x.kind = "bcast") => Keeps(Now, Now', S)
  PROVE  Numbers'
  <1>1. /\ Misnumbered' = Misnumbered /\ Progress' /\ \A b : Unplaced(b)' = Unplaced(b)
    BY DEF Numbers, Misnumbered, Progress, Order, Unplaced, Given
  <1>2. Keeps(Now, Now', Misnumbered) /\ \A b \in Nat : Keeps(Now, Now', Bcast(b))
    BY DEF Misnumbered, Numbered, Bcast
  <1>3. NoneIn(Now', Misnumbered)
    BY <1>2 DEF Numbers, Keeps
  <1>4. \A b \in Nat : IF Unplaced(b) THEN OneIn(Now', Bcast(b)) ELSE NoneIn(Now', Bcast(b))
    BY <1>2 DEF Numbers, Keeps, Underway
  <1>5. QED
    BY <1>1, <1>3, <1>4 DEF Numbers, Underway

(* An element that is not the root handles the next broadcast. *)
LEMMA NumbersFollows ==
  ASSUME Basic, Progress, NEW w \in Holdings, Now' \in Holdings, Underway(w),
         NoneIn(w, Misnumbered), NEW m, m \notin Misnumbered,
         Follows(w, Now', m), bcasts' = bcasts
  PROVE  Numbers' /\ m.to \in Elements \ {Root} /\ Ordered!Follow(m.to)
  <1> DEFINE i == m.to
  <1>1. /\ m \in Copies /\ i \in Elements /\ i # ChareMax /\ m \in Numbered
        /\ m.bcast = last_bcast[i] + 1 /\ Copied(w, Now', m)
        /\ last_bcast' = [last_bcast EXCEPT ![i] = last_bcast[i] + 1]
        /\ delivered' = [delivered EXCEPT ![i] = Append(delivered[i], m.id)]
    BY IndexFacts, Constants DEF Follows, Copies, Numbered, InOrder, Advance
  <1>2. m.bcast \in 1 .. Len(Order) /\ Order[m.bcast] = m.id
    BY <1>1 DEF Misnumbered
  <1>3. /\ delivered \in [Elements -> Seq(Nat)] /\ Root \in Elements /\ Order \in Seq(Nat)
        /\ last_bcast \in [Elements -> 0 .. BcastMod - 1]
    BY DeliveredTyped DEF Basic, Local, TypedElements
  <1>4. last_bcast[i] = Len(delivered[i]) /\ m.bcast = Len(delivered[i]) + 1
    BY <1>1 DEF Progress
  <1>5. i # Root
    BY <1>2, <1>3, <1>4 DEF Order
  <1>6. Order' = Order
    BY <1>1, <1>3, <1>5 DEF Order
  <1>7. Ordered!Follow(i)
    <2>1. Len(delivered[i]) < Len(delivered[Root])
      BY <1>1, <1>2, <1>3, <1>4 DEF Order
    <2>2. m.id = delivered[Root][Len(delivered[i]) + 1]
      BY <1>2, <1>4 DEF Order
    <2>3. QED
      BY <1>1, <2>1, <2>2 DEF Ordered!Follow
  <1>8. Progress'
    <2>1. ASSUME NEW e \in Elements PROVE last_bcast'[e] = Len(delivered'[e])
      <3>1. CASE e = i
        <4>1. m.id \in Nat /\ delivered[i] \in Seq(Nat)
          BY <1>1, <1>3 DEF Numbered, Messages
        <4>2. last_bcast'[i] = last_bcast[i] + 1 /\ delivered'[i] = Append(delivered[i], m.id)
          BY <1>1, <1>3
        <4>3. QED
          BY <1>4, <3>1, <4>1, <4>2
      <3>2. CASE e # i
        BY <1>1, <1>3, <3>2 DEF Progress
      <3>3. QED
        BY <3>1, <3>2
    <2>2. QED
      BY <1>6, <2>1 DEF Progress
  <1>9. Misnumbered' = Misnumbered /\ \A b : Unplaced(b)' = Unplaced(b)
    BY <1>6 DEF Misnumbered, Unplaced, Given
  <1>10. NoneIn(Now', Misnumbered)
    <2>1. \A x \in CopiesOf(m) : x \notin Misnumbered
      BY <1>2 DEF CopiesOf, Misnumbered
    <2>2. QED
      BY <1>1, <2>1, CopiedKeeps DEF Keeps
  <1>11. \A b \in Nat : IF Unplaced(b) THEN OneIn(Now', Bcast(b)) ELSE NoneIn(Now', Bcast(b))
    <2>1. \A b \in Nat : Keeps(w, Now', Bcast(b))
      BY <1>1, CopiedKeeps, CopiesNotUnderway
    <2>2. QED
      BY <2>1 DEF Keeps, Underway
  <1>12. QED
    BY <1>1, <1>5, <1>7, <1>8, <1>9, <1>10, <1>11 DEF Numbers, Underway

(* The root puts broadcast m, taken out of w, into the order. *)
LEMMA NumbersGives ==
  ASSUME Basic, Progress, NEW w \in Holdings, Now' \in Holdings,
         NoneIn(w, Misnumbered), NEW m, Gives(w, Now', m), Unplaced(m.id),
         \A b \in Nat : IF Unplaced(b) /\ b # m.id THEN OneIn(w, Bcast(b)) ELSE NoneIn(w, Bcast(b)),
         bcasts' = bcasts
  PROVE  Numbers' /\ Ordered!Order(m.id)
  <1> DEFINE r == [m EXCEPT !.to = Root, !.bcast = NextBcast]
  <1>1. /\ m \in Messages /\ m.id \in Nat /\ NextBcast = last_bcast[Root] + 1
        /\ Copied(w, Now', r)
        /\ last_bcast' = [last_bcast EXCEPT ![Root] = last_bcast[Root] + 1]
        /\ delivered' = [delivered EXCEPT ![Root] = Append(delivered[Root], m.id)]
    BY DEF Gives, Advance, Unordered, Messages
  <1>2. r.id = m.id /\ r.bcast = last_bcast[Root] + 1
    BY <1>1 DEF Messages
  <1> HIDE DEF r
  <1>3. /\ delivered \in [Elements -> Seq(Nat)] /\ Root \in Elements /\ Order \in Seq(Nat)
        /\ last_bcast \in [Elements -> 0 .. BcastMod - 1] /\ bcasts \in Nat
    BY DeliveredTyped DEF Basic, Local, TypedElements
  <1>4. last_bcast[Root] = Len(Order)
    BY <1>3 DEF Progress, Order
  <1>5. /\ Order' = Append(Order, m.id) /\ Len(Order') = Len(Order) + 1
        /\ \A k \in 1 .. Len(Order) : Order'[k] = Order[k]
        /\ Order'[Len(Order) + 1] = m.id
    <2>1. Order' = Append(Order, m.id)
      BY <1>1, <1>3 DEF Order
    <2>2. QED
      BY <1>1, <1>3, <2>1
  <1>6. m.id \in 1 .. bcasts /\ \A k \in 1 .. Len(Order) : Order[k] # m.id
    BY DEF Unplaced, Given
  <1>7. Ordered!Order(m.id)
    BY <1>1, <1>6 DEF Ordered!Order, Order
  <1>8. Progress'
    <2>1. ASSUME NEW e \in Elements PROVE last_bcast'[e] = Len(delivered'[e])
      <3>1. CASE e = Root
        <4>1. last_bcast'[Root] = last_bcast[Root] + 1 /\ delivered'[Root] = Order'
          BY <1>1, <1>3 DEF Order
        <4>2. QED
          BY <1>4, <1>5, <3>1, <4>1
      <3>2. CASE e # Root
        BY <1>1, <1>3, <3>2 DEF Progress
      <3>3. QED
        BY <3>1, <3>2
    <2>2. Len(Order) \in Nat
      BY <1>3
    <2>3. \A k \in 1 .. Len(Order') : k \in 1 .. Len(Order) \/ k = Len(Order) + 1
      BY <1>5, <2>2
    <2>4. \A j, k \in 1 .. Len(Order') : Order'[j] = Order'[k] => j = k
      BY <1>5, <1>6, <2>3 DEF Progress
    <2>5. \A k \in 1 .. Len(Order') : Order'[k] \in 1 .. bcasts'
      BY <1>5, <1>6, <2>3 DEF Progress
    <2>6. QED
      BY <2>1, <2>4, <2>5 DEF Progress
  <1>9. \A b : Given(b)' <=> Given(b) \/ b = m.id
    <2>1. Len(Order) \in Nat
      BY <1>3
    <2>2. QED
      BY <1>5, <2>1 DEF Given
  <1>10. \A b \in Nat : IF Unplaced(b)' THEN OneIn(Now', Bcast(b)) ELSE NoneIn(Now', Bcast(b))
    <2>1. \A b \in Nat : Keeps(w, Now', Bcast(b))
      BY <1>1, CopiedKeeps, CopiesNotUnderway
    <2>2. \A b \in Nat : Unplaced(b)' <=> Unplaced(b) /\ b # m.id
      BY <1>9 DEF Unplaced
    <2>3. QED
      BY <2>1, <2>2 DEF Keeps
  <1>11. NoneIn(Now', Misnumbered')
    <2>1. Len(Order) \in Nat
      BY <1>3
    <2>2. Misnumbered' \subseteq Misnumbered
      <3> SUFFICES ASSUME NEW x \in Misnumbered' PROVE x \in Misnumbered
        OBVIOUS
      <3>1. x \in Numbered /\ ~(x.bcast \in 1 .. Len(Order') /\ Order'[x.bcast] = x.id)
        BY DEF Misnumbered
      <3>2. ~(x.bcast \in 1 .. Len(Order) /\ Order[x.bcast] = x.id)
        BY <1>5, <2>1, <3>1
      <3>3. QED
        BY <3>1, <3>2 DEF Misnumbered
    <2>3. NoneIn(w, Misnumbered')
      BY <2>2 DEF NoneIn
    <2>4. \A x \in CopiesOf(r) : x \notin Misnumbered'
      <3> SUFFICES ASSUME NEW x \in CopiesOf(r) PROVE x \notin Misnumbered'
        OBVIOUS
      <3>1. x.id = m.id /\ x.bcast = Len(Order) + 1
        BY <1>2, <1>4 DEF CopiesOf
      <3>2. x.bcast \in 1 .. Len(Order') /\ Order'[x.bcast] = x.id
        BY <1>5, <2>1, <3>1
      <3>3. QED
        BY <3>2 DEF Misnumbered
    <2>5. Keeps(w, Now', Misnumbered')
      BY <1>1, <2>4, CopiedKeeps
    <2>6. QED
      BY <2>3, <2>5 DEF Keeps
  <1>12. QED
    BY <1>7, <1>8, <1>10, <1>11 DEF Numbers, Underway

(* A message is taken out, and delivered. *)
LEMMA NumbersDelivered ==
  ASSUME Window, Basic, Basic', Numbers, NEW w \in Holdings, Now \in Holdings, Now' \in Holdings,
         NEW from \in Places, NEW k \in 1 .. Len(Now[from]), Without(Now[from], k, w[from]),
         \A place \in Places \ {from} : w[place] = Now[place],
         NEW m \in Messages, m = Now[from][k],
         \/ Effect(w, Now', m)
         \/ m.kind = "create" /\ Now' = w /\ UNCHANGED <<last_bcast, delivered>>,
         bcasts' = bcasts
  PROVE  Numbers' /\ (Ordered!Next \/ delivered' = delivered)
  <1>1. ASSUME NEW S
        PROVE  /\ NoneIn(Now, S) => NoneIn(w, S)
               /\ m \notin S /\ OneIn(Now, S) => OneIn(w, S)
               /\ m \in S /\ OneIn(Now, S) => NoneIn(w, S)
    BY TakeOut
  <1>2. ASSUME NEW S, m \notin S PROVE Keeps(Now, w, S)
    BY <1>1, <1>2 DEF Keeps
  <1>3. \A S : NoneIn(Now, S) => m \notin S
    BY DEF NoneIn
  <1>4. m \notin Misnumbered /\ NoneIn(w, Misnumbered)
    BY <1>1, <1>3 DEF Numbers
  <1>5. CASE m.kind = "create" /\ Now' = w /\ UNCHANGED <<last_bcast, delivered>>
    <2>1. \A S : (\A x \in S : x.kind = "bcast") => Keeps(Now, Now', S)
      BY <1>2, <1>5
    <2>2. QED
      BY <1>5, <2>1, NumbersQuiet
  <1>6. CASE Quiet(w, Now', m)
    <2>1. ASSUME NEW S PROVE Keeps(Now, Now', S)
      <3>1. CASE m \notin S
        <4>1. Keeps(Now, w, S) /\ Keeps(w, Now', S)
          BY <1>2, <1>6, <3>1, MovedKeeps DEF Quiet
        <4>2. QED
          BY <4>1 DEF Keeps
      <3>2. CASE m \in S
        <4>1. NoneIn(w, S) => OneIn(Now', S)
          BY <1>6, <3>2, MovedKeeps DEF Quiet
        <4>2. QED
          BY <1>1, <1>3, <3>2, <4>1 DEF Keeps
      <3>3. QED
        BY <3>1, <3>2
    <2>2. UNCHANGED <<last_bcast, delivered>>
      BY <1>6 DEF Quiet
    <2>3. QED
      BY <2>1, <2>2, NumbersQuiet
  <1>7. ASSUME m \in Unordered
        PROVE  Unplaced(m.id) /\ m.id \in Nat /\ m \in Bcast(m.id) /\ \A b : b # m.id => m \notin Bcast(b)
    <2>1. m.id \in Nat /\ m \in Bcast(m.id) /\ \A b : b # m.id => m \notin Bcast(b)
      BY <1>7 DEF Unordered, Bcast, Messages
    <2>2. Unplaced(m.id)
      BY <1>3, <2>1 DEF Numbers, Underway
    <2>3. QED
      BY <2>1, <2>2
  <1>8. bcasts \in 0 .. MaxBcasts /\ MaxBcasts \in 0 .. BcastMod - 1 /\ BcastMod \in Nat
    <2>1. inst \in Instances /\ bcasts \in 0 .. inst.bcasts /\ inst.bcasts \in Nat
      BY CollectiveAssumption DEF Basic, Clients
    <2>2. QED
      BY <2>1, Constants DEF Window
  <1>9. CASE Gives(w, Now', m)
    <2>1. m \in Unordered
      BY <1>9 DEF Gives
    <2>2. \A b \in Nat : IF Unplaced(b) /\ b # m.id THEN OneIn(w, Bcast(b)) ELSE NoneIn(w, Bcast(b))
      <3> TAKE b \in Nat
      <3>1. CASE b = m.id
        BY <1>1, <1>7, <2>1, <3>1 DEF Numbers, Underway
      <3>2. CASE b # m.id
        <4>1. Keeps(Now, w, Bcast(b))
          BY <1>2, <1>7, <2>1, <3>2
        <4>2. QED
          BY <3>2, <4>1 DEF Keeps, Numbers, Underway
      <3>3. QED
        BY <3>1, <3>2
    <2>3. Numbers' /\ Ordered!Order(m.id)
      BY <1>4, <1>7, <1>9, <2>1, <2>2, NumbersGives DEF Numbers
    <2>4. m.id \in 1 .. MaxBcasts
      BY <1>7, <1>8, <2>1 DEF Unplaced
    <2>5. QED
      BY <2>3, <2>4 DEF Ordered!Next
  <1>10. CASE Follows(w, Now', m)
    <2>1. \A b : m \notin Bcast(b)
      BY <1>10, IndexFacts, Constants DEF Follows, Copies, Bcast
    <2>2. Underway(w)
      BY <1>2, <2>1 DEF Keeps, Numbers, Underway
    <2>3. Numbers' /\ m.to \in Elements \ {Root} /\ Ordered!Follow(m.to)
      BY <1>4, <1>10, <2>2, NumbersFollows DEF Numbers
    <2>4. QED
      BY <2>3 DEF Ordered!Next
  <1>11. ~(m \in Unordered /\ NextBcast = 0)
    <2> SUFFICES ASSUME m \in Unordered PROVE NextBcast # 0
      OBVIOUS
    <2>1. m.id \in 1 .. bcasts /\ \A i \in 1 .. Len(Order) : Order[i] # m.id
      BY <1>7 DEF Unplaced, Given
    <2>2. /\ \A i \in 1 .. Len(Order) : Order[i] \in 1 .. bcasts
          /\ \A i, j \in 1 .. Len(Order) : Order[i] = Order[j] => i = j
          /\ last_bcast[Root] = Len(Order)
      BY DeliveredTyped DEF Numbers, Progress, Order
    <2>3. Order \in Seq(Nat) /\ bcasts \in Nat
      BY DeliveredTyped
    <2>4. Len(Order) < bcasts
      BY <2>1, <2>2, <2>3, RootRoom
    <2>5. last_bcast[Root] + 1 < BcastMod
      BY <1>8, <2>2, <2>3, <2>4
    <2>6. QED
      BY <2>5, NextNumber DEF Basic, Local
  <1>12. QED
    BY <1>5, <1>6, <1>9, <1>10, <1>11 DEF Effect

LEMMA NumbersReceive ==
  ASSUME Window, Basic, Basic', Numbers, NEW src \in Pes, NEW pe \in Pes, Receive(pe, src)
  PROVE  Numbers' /\ (Ordered!Next \/ delivered' = delivered)
  <1>1. Table /\ Local /\ net \in Channels /\ inst' = inst /\ bcasts' = bcasts
    BY DEF Basic, Local, Receive, ReceiveNth, client
  <1>2. PICK k \in DOMAIN net[src][pe] :
          Deliver(pe, net[src][pe][k], [net EXCEPT ![src][pe] = RemoveAt(net[src][pe], k)])
    BY DEF Receive, ReceiveNth
  <1> DEFINE m == net[src][pe][k]
             at == <<"net", src, pe>>
             n == [net EXCEPT ![src][pe] = RemoveAt(net[src][pe], k)]
             w == Where(n, cbuf, buffers, handled)
  <1>3. k \in 1 .. Len(net[src][pe]) /\ m \in Pending /\ m \in Messages
    <2>1. net[src][pe] \in Seq(Pending)
      BY <1>1 DEF Channels
    <2>2. Pending \subseteq Messages
      BY DEF Pending, Awaiting, Direct, Copies, Unordered
    <2>3. QED
      BY <2>1, <2>2
  <1>4. /\ at \in Places /\ Now[at] = net[src][pe] /\ n \in Channels /\ w \in Holdings
        /\ Without(Now[at], k, w[at])
        /\ \A place \in Places \ {at} : w[place] = Now[place]
    BY <1>3, FromNet
  <1>5. k \in 1 .. Len(Now[at]) /\ m = Now[at][k]
    BY <1>3, <1>4
  <1>6. Deliver(pe, m, n)
    BY <1>2
  <1> HIDE DEF m, n, at
  <1>7. \/ Effect(w, Now', m)
        \/ m.kind = "create" /\ Now' = w /\ UNCHANGED <<last_bcast, delivered>>
    BY <1>1, <1>3, <1>4, <1>6, DeliverEffect
  <1>8. Now \in Holdings /\ Now' \in Holdings
    BY NowTyped, NowTypedNext
  <1> HIDE DEF w
  <1>9. QED
    BY <1>1, <1>3, <1>4, <1>5, <1>7, <1>8, NumbersDelivered

LEMMA NumbersFlushCollective ==
  ASSUME Window, Basic, Basic', Numbers, NEW pe \in Pes, FlushCollectiveBuffer(pe)
  PROVE  Numbers' /\ (Ordered!Next \/ delivered' = delivered)
  <1> DEFINE m == Head(cbuf[pe])
             at == <<"cbuf", pe>>
             w == Where(net, cbuf', buffers, handled)
  <1>1. /\ Local /\ net \in Channels /\ inst' = inst /\ bcasts' = bcasts /\ cbuf[pe] # << >>
        /\ cbuf' = [cbuf EXCEPT ![pe] = Tail(cbuf[pe])] /\ DeliverNow(pe, m, net)
    BY DEF Basic, Local, Table, FlushCollectiveBuffer, client
  <1>2. /\ at \in Places /\ w \in Holdings /\ 1 \in 1 .. Len(Now[at]) /\ m = Now[at][1]
        /\ Without(Now[at], 1, w[at])
        /\ \A place \in Places \ {at} : w[place] = Now[place]
    BY <1>1, FromCbuf
  <1>3. m \in Awaiting /\ m \in Messages
    <2>1. cbuf[pe] \in Seq(Awaiting)
      BY DEF Basic, Table
    <2>2. Awaiting \subseteq Messages
      BY DEF Awaiting, Direct, Copies, Unordered
    <2>3. m \in Awaiting
      BY <1>1, <2>1
    <2>4. QED
      BY <2>2, <2>3
  <1> HIDE DEF m, at
  <1>4. Effect(w, Now', m)
    BY <1>1, <1>3, DeliverNowEffect DEF Now
  <1>5. Now \in Holdings /\ Now' \in Holdings
    BY NowTyped, NowTypedNext
  <1> HIDE DEF w
  <1>6. QED
    BY <1>1, <1>2, <1>3, <1>4, <1>5, NumbersDelivered

LEMMA NumbersFlush ==
  ASSUME Window, Basic, Basic', Numbers, NEW pe \in Pes, FlushBuffers(pe)
  PROVE  Numbers' /\ (Ordered!Next \/ delivered' = delivered)
  <1> DEFINE i == Head(frames[pe])
             m == Head(buffers[i])
             at == <<"buffer", i>>
             w == Where(net, cbuf, [buffers EXCEPT ![i] = Tail(buffers[i])], handled)
  <1>1. /\ i \in chares /\ PeFor(i) = pe /\ i \in Elements
        /\ buffers[i] # << >> =>
             /\ m \in Buffered(i) /\ m \in Messages /\ m.to = i /\ m.kind \in {"p2p", "bcast"}
             /\ m.bcast # 0 => IsGroup /\ m.kind = "bcast"
             /\ Handle(pe, m, net, Tail(buffers[i]))
        /\ buffers[i] = << >> => UNCHANGED <<net, last_bcast, buffers, handled, delivered>>
        /\ UNCHANGED <<cbuf, inst, bcasts>>
    BY FlushedMessage
  <1>2. Local /\ net \in Channels
    BY DEF Basic, Local
  <1>3. Now \in Holdings /\ Now' \in Holdings
    BY NowTyped, NowTypedNext
  <1> HIDE DEF i
  <1>4. CASE buffers[i] = << >>
    <2>1. Now' = Now /\ UNCHANGED <<bcasts, last_bcast, delivered>>
      BY <1>1, <1>4 DEF Now
    <2>2. \A S : Keeps(Now, Now', S)
      BY <2>1 DEF Keeps
    <2>3. QED
      BY <2>1, <2>2, NumbersQuiet
  <1>5. CASE buffers[i] # << >>
    <2>1. /\ at \in Places /\ w \in Holdings /\ 1 \in 1 .. Len(Now[at]) /\ m = Now[at][1]
          /\ Without(Now[at], 1, w[at])
          /\ \A place \in Places \ {at} : w[place] = Now[place]
      BY <1>1, <1>5, FromBuffer
    <2>2. (m.kind = "bcast" => m.bcast # 0) /\ (m.bcast # 0 => m \in Copies)
      BY <1>1, <1>5 DEF Buffered, Direct, Copies
    <2> HIDE DEF at, m
    <2>3. \/ (m.bcast # 0 => ~InOrder(m)) /\ Moved(w, Now', m)
          \/ m.bcast # 0 /\ InOrder(m) /\ Copied(Now, Now', m)
      BY <1>1, <1>2, <1>5, HandleMoves DEF Now, m
    <2> HIDE DEF w
    <2>4. CASE (m.bcast # 0 => ~InOrder(m)) /\ Moved(w, Now', m)
      <3>1. UNCHANGED <<last_bcast, delivered>>
        BY <1>1, <1>5, <2>2, <2>4, HandleCounts
      <3>2. Effect(w, Now', m)
        BY <2>4, <3>1 DEF Effect, Quiet
      <3>3. QED
        BY <1>1, <1>3, <1>5, <2>1, <3>2, NumbersDelivered
    <2>5. CASE m.bcast # 0 /\ InOrder(m) /\ Copied(Now, Now', m)
      <3>1. Advance(m.to, m.id)
        BY <1>1, <1>5, <2>5, HandleCounts
      <3>2. Follows(Now, Now', m)
        BY <2>2, <2>5, <3>1 DEF Follows
      <3>3. m \notin Misnumbered
        BY <2>1 DEF Numbers, NoneIn
      <3>4. Numbers' /\ m.to \in Elements \ {Root} /\ Ordered!Follow(m.to)
        BY <1>1, <1>3, <3>2, <3>3, NumbersFollows DEF Numbers
      <3>5. QED
        BY <3>4 DEF Ordered!Next
    <2>6. QED
      BY <2>3, <2>4, <2>5
  <1>6. QED
    BY <1>4, <1>5

(* A client broadcasts: one more is on its way to the root. *)
LEMMA NumbersBroadcast ==
  ASSUME Basic, Basic', Numbers, NEW pe \in Pes, Broadcast(pe)
  PROVE  Numbers' /\ delivered' = delivered
  <1> DEFINE b1 == bcasts + 1
             m == Message("bcast", b1, ChareMax)
  <1>1. m \in Unordered /\ Moved(Now, Now', m)
    BY BroadcastMoves
  <1>2. bcasts \in Nat /\ bcasts' = b1 /\ UNCHANGED <<last_bcast, delivered>>
    BY DeliveredTyped DEF Broadcast, history
  <1>3. m \in Messages /\ m \notin Misnumbered /\ m \in Bcast(b1) /\ \A b : b # b1 => m \notin Bcast(b)
    BY <1>1 DEF Unordered, Misnumbered, Numbered, Bcast, Message
  <1>4. Now \in Holdings /\ Now' \in Holdings
    BY NowTyped, NowTypedNext
  <1> HIDE DEF m
  <1>5. Order' = Order /\ Misnumbered' = Misnumbered /\ \A b : Given(b)' = Given(b)
    BY <1>2 DEF Order, Misnumbered, Given
  <1>6. Progress'
    <2>1. \A k \in 1 .. Len(Order) : Order[k] \in 1 .. b1
      BY <1>2 DEF Numbers, Progress
    <2>2. QED
      BY <1>2, <1>5, <2>1 DEF Numbers, Progress
  <1>7. NoneIn(Now', Misnumbered)
    BY <1>1, <1>3, <1>4, MovedKeeps DEF Numbers, Keeps
  <1>8. ~Given(b1)
    BY <1>2 DEF Numbers, Progress, Given
  <1>9. ASSUME NEW b \in Nat
        PROVE  IF Unplaced(b)' THEN OneIn(Now', Bcast(b)) ELSE NoneIn(Now', Bcast(b))
    <2>1. CASE b = b1
      <3>1. NoneIn(Now, Bcast(b1))
        BY <1>2, <2>1 DEF Numbers, Underway, Unplaced
      <3>2. OneIn(Now', Bcast(b1))
        BY <1>1, <1>3, <1>4, <3>1, MovedKeeps
      <3>3. Unplaced(b)'
        BY <1>2, <1>5, <1>8, <2>1 DEF Unplaced
      <3>4. QED
        BY <2>1, <3>2, <3>3
    <2>2. CASE b # b1
      <3>1. Keeps(Now, Now', Bcast(b))
        BY <1>1, <1>3, <1>4, <2>2, MovedKeeps
      <3>2. b \in 1 .. b1 <=> b \in 1 .. bcasts
        BY <1>2, <2>2
      <3>3. Unplaced(b)' <=> Unplaced(b)
        BY <1>2, <1>5, <3>2 DEF Unplaced
      <3>4. QED
        BY <3>1, <3>3 DEF Keeps, Numbers, Underway
    <2>3. QED
      BY <2>1, <2>2
  <1>10. QED
    BY <1>2, <1>5, <1>6, <1>7, <1>9 DEF Numbers, Underway

LEMMA NumbersInit ==
  ASSUME Init
  PROVE  Numbers /\ Ordered!Init
  <1>1. Ordered!Init /\ bcasts = 0
    BY DEF Init, Ordered!Init
  <1>2. Root \in Elements
    BY Constants
  <1>3. Order = << >> /\ \A b : ~Unplaced(b)
    BY <1>1, <1>2 DEF Init, Order, Unplaced
  <1>4. Progress
    BY <1>3 DEF Init, Progress
  <1>5. QED
    BY <1>1, <1>3, <1>4, NothingYet DEF Numbers, Underway

LEMMA NumbersNext ==
  ASSUME Window, Basic, Basic', Made, Numbers, [Next]_vars
  PROVE  Numbers' /\ (Ordered!Next \/ delivered' = delivered)
  <1>1. CASE ConstructGroup \/ ConstructArray
    <2>1. UNCHANGED <<bcasts, last_bcast, delivered>>
      BY <1>1 DEF ConstructGroup, ConstructArray, history
    <2>2. \A S : (\A x \in S : x.kind = "bcast") => Keeps(Now, Now', S)
      BY <1>1, ConstructKeeps
    <2>3. QED
      BY <2>1, <2>2, NumbersQuiet
  <1>2. ASSUME NEW pe \in Pes, NEW i \in Indices, Insert(pe, i) \/ Send(pe, i)
        PROVE  Numbers' /\ delivered' = delivered
    <2>1. PICK m \in Direct : Moved(Now, Now', m) /\ UNCHANGED <<last_bcast, delivered>>
      BY <1>2, SendMoves
    <2>2. m \in Messages /\ m.kind # "bcast" /\ bcasts' = bcasts
      BY <1>2 DEF Direct, Insert, Send
    <2>3. ASSUME NEW S, \A x \in S : x.kind = "bcast" PROVE Keeps(Now, Now', S)
      <3>1. m \notin S
        BY <2>2, <2>3
      <3>2. QED
        BY <2>1, <2>2, <3>1, NowTyped, NowTypedNext, MovedKeeps
    <2>4. QED
      BY <2>1, <2>2, <2>3, NumbersQuiet
  <1>3. ASSUME NEW pe \in Pes, Broadcast(pe) PROVE Numbers' /\ delivered' = delivered
    BY <1>3, NumbersBroadcast
  <1>4. ASSUME NEW pe \in Pes, PeStep(pe)
        PROVE  Numbers' /\ (Ordered!Next \/ delivered' = delivered)
    BY <1>4, NumbersReceive, NumbersFlushCollective, NumbersFlush DEF PeStep
  <1>5. CASE UNCHANGED vars
    <2>1. Now' = Now /\ UNCHANGED <<bcasts, last_bcast, delivered>>
      BY <1>5 DEF vars, Now
    <2>2. \A S : Keeps(Now, Now', S)
      BY <2>1 DEF Keeps
    <2>3. QED
      BY <2>1, <2>2, NumbersQuiet
  <1>6. QED
    BY <1>1, <1>2, <1>3, <1>4, <1>5 DEF Next

(***************************************************************************)
(* "broadcasts are processed in-order": as long as fewer than BcastMod are *)
(* made, all elements of a group handle the broadcasts in one order, each  *)
(* one once, however they overtake each other on the way to the root or    *)
(* down the tree: Collective implements OrderedBroadcast.  After that many *)
(* the counter of bcast_id_t is back at 0, which marks an unordered one.   *)
(***************************************************************************)
THEOREM BroadcastsAreOrdered == ASSUME Window PROVE Spec => OrderedBroadcasts
  <1> DEFINE Inv == Counting /\ Numbers
  <1>1. Init => Inv /\ Ordered!Init
    BY BasicInit, ConservedInit, NumbersInit DEF Counting
  <1>2. Inv /\ [Next]_vars => Inv' /\ [Ordered!Next]_delivered
    BY BasicNext, MadeNext, ConservedNext, NumbersNext DEF Counting
  <1> HIDE DEF Inv
  <1>3. QED
    BY <1>1, <1>2, PTL DEF Spec, OrderedBroadcasts, Ordered!Spec
=============================================================================
