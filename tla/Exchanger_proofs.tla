--------------------------- MODULE Exchanger_proofs ---------------------------
(***************************************************************************)
(* Exchanger, for every even number of elements: what the adders and       *)
(* consumers do with the values they accept, in any order of the calls,    *)
(* and that the exchange pairs all of them.                                *)
(***************************************************************************)
EXTENDS Exchanger, FiniteSetTheorems, TLAPS

Values == (SUBSET Nat) \ {{}}

(* Sets of values for an adder and for a consumer. *)
Pairs == [{0, 1} -> SUBSET Nat]
Singles == [{0} -> SUBSET Nat]

(* What each component holds is said per element, below. *)
Typed ==
  /\ exchanging \in BOOLEAN /\ constructed \subseteq Elts /\ net \in [Messages -> Nat]
  /\ persistent \subseteq Coms /\ active \subseteq Coms
  /\ connected \subseteq {Adder(e) : e \in Elts}
  /\ qd \in Int /\ activations \in [Coms -> Nat]
  /\ DOMAIN incoming = Coms /\ DOMAIN outbox = Coms
  /\ DOMAIN acted = Coms /\ DOMAIN arrived = Coms

-----------------------------------------------------------------------------
(* What one element holds. *)

(* The values that came to port p of the adder of e; by how much it is behind. *)
Came(e, p) == Len(arrived[Adder(e)][p])
Behind(e, p) == Came(e, 1 - p) - Came(e, p)

(* A pair of k-th arrivals. *)
PairOf(e, k, set) ==
  set[0] = {k} /\ set[1] = {k} /\ k \in 1 .. Came(e, 0) /\ k \in 1 .. Came(e, 1)

ArrivedInOrder(e) ==
  /\ arrived[Adder(e)] \in [{0, 1} -> Seq(SUBSET Nat)]
  /\ \A p \in {0, 1} : \A k \in 1 .. Came(e, p) : arrived[Adder(e)][p][k] = {k}

(* The sets that wait for a value at p are the first ones, the newest first. *)
Waiting(e) ==
  /\ incoming[Adder(e)] \in Seq(Pairs)
  /\ \A p \in {0, 1} : Behind(e, p) <= Len(incoming[Adder(e)])
  /\ \A p \in {0, 1} : \A j \in 1 .. Len(incoming[Adder(e)]) :
       j <= Behind(e, p) => /\ incoming[Adder(e)][j][p] = {}
                            /\ incoming[Adder(e)][j][1 - p] = {Came(e, 1 - p) - j + 1}
  /\ \A j \in 1 .. Len(incoming[Adder(e)]) :
       j > Behind(e, 0) /\ j > Behind(e, 1) =>
         \E k \in Nat : PairOf(e, k, incoming[Adder(e)][j])

(* The adder has acted on pairs; n is the set it is acting on, or 0. *)
Paired(e, n) ==
  /\ acted[Adder(e)] \in Seq(Pairs)
  /\ \A j \in 1 .. Len(acted[Adder(e)]) : \E k \in Nat : PairOf(e, k, acted[Adder(e)][j])
  /\ n \in 0 .. Len(incoming[Adder(e)])
  /\ n # 0 => n > Behind(e, 0) /\ n > Behind(e, 1)
  /\ LET all == Len(acted[Adder(e)]) + Len(incoming[Adder(e)]) - (IF n = 0 THEN 0 ELSE 1)
     IN  \/ all = Came(e, 0) /\ Came(e, 1) <= all
         \/ all = Came(e, 1) /\ Came(e, 0) <= all

AdderSets(e, n) == ArrivedInOrder(e) /\ Waiting(e) /\ Paired(e, n)

(* A consumer holds values, none twice; m is the set it is acting on, or 0. *)
ConsumerSets(e, m) ==
  LET c == Consumer(e) IN
  /\ incoming[c] \in Seq(Singles) /\ acted[c] \in Seq(Singles)
  /\ arrived[c] \in [{0} -> Seq(SUBSET Nat)]
  /\ \A j \in 1 .. Len(incoming[c]) : incoming[c][j][0] # {}
  /\ m \in 0 .. Len(incoming[c])
  /\ Len(arrived[c][0]) = Len(acted[c]) + Len(incoming[c]) - (IF m = 0 THEN 0 ELSE 1)

(* The results of the adder: received, on the way, and in the outbox. *)
Given(e, pending) == arrived[Consumer(e)][0] \o pending \o outbox[Adder(e)]

Relayed(e, pending) ==
  /\ outbox[Adder(e)] \in Seq(SUBSET Nat)
  /\ Len(Given(e, pending)) = Len(acted[Adder(e)])
  /\ ToSet(Given(e, pending)) = ToSet(Results(Adder(e)))
  /\ Adder(e) \in persistent => Given(e, pending) = Results(Adder(e))

(* A component acts while it is active, once for an activation or for ever. *)
ActsOnce(c, acting) ==
  /\ acting => c \in active
  /\ c \in persistent /\ c \notin active => acted[c] = << >>
  /\ c \notin persistent =>
       Len(acted[c]) + (IF c \in active /\ ~acting THEN 1 ELSE 0) <= activations[c]

(* No set is ready, but the n-th that the adder is acting on. *)
AdderIdle(e, n) ==
  Adder(e) \in active => \A j \in 1 .. Len(incoming[Adder(e)]) :
    j <= Behind(e, 0) \/ j <= Behind(e, 1) \/ j = n

ConsumerIdle(e) == Consumer(e) \in active => incoming[Consumer(e)] = << >>

Flushed(e) == Adder(e) \in persistent /\ Adder(e) \in connected => outbox[Adder(e)] = << >>

AdderAt(e, n) == AdderSets(e, n) /\ ActsOnce(Adder(e), n # 0)
ConsumerAt(e, m, acting) == ConsumerSets(e, m) /\ ActsOnce(Consumer(e), acting)

-----------------------------------------------------------------------------
(* The calls in progress, all on the components of one element. *)

Resting(e) ==
  /\ AdderAt(e, 0) /\ AdderIdle(e, 0) /\ Flushed(e)
  /\ ConsumerAt(e, 0, FALSE) /\ ConsumerIdle(e)
  /\ Relayed(e, << >>)

(* The adder has accepted a value, or is about to. *)
Accepting(e) ==
  /\ \E p \in {0, 1} : stack = <<AcceptBy(Adder(e), p, {Came(e, p) + 1})>>
  /\ Resting(e)

(* The calls in rest relay a result: the consumer is called, or was. *)
ConsumerCall(e, rest) ==
  /\ ConsumerIdle(e)
  /\ \/ stack = rest /\ ConsumerAt(e, 0, FALSE) /\ Relayed(e, << >>)
     \/ \E val \in Values :
          /\ stack = <<AcceptBy(Consumer(e), 0, val)>> \o rest
          /\ ConsumerAt(e, 0, FALSE) /\ Relayed(e, <<val>>)
     \/ /\ stack = <<Staged(Consumer(e), 0)>> \o rest
        /\ ConsumerAt(e, 0, TRUE) /\ Relayed(e, << >>)

(* The adder acts on a set, from accept or from activate. *)
Acting(e) ==
  \E n \in Nat \ {0} :
    /\ AdderAt(e, n) /\ Flushed(e)
    /\ \/ ConsumerCall(e, <<Staged(Adder(e), n)>>) /\ AdderIdle(e, n)
       \/ ConsumerCall(e, <<Staged(Adder(e), n), Activating(Adder(e))>>)

FlushingOutbox(e) ==
  /\ AdderAt(e, 0) /\ AdderIdle(e, 0)
  /\ ConsumerCall(e, <<Flushing(Adder(e))>>)

(* activate looks for another set. *)
AdderLoop(e) ==
  /\ stack = <<Activating(Adder(e))>>
  /\ AdderAt(e, 0) /\ Flushed(e)
  /\ ConsumerAt(e, 0, FALSE) /\ ConsumerIdle(e)
  /\ Relayed(e, << >>)

ConsumerLoop(e) ==
  /\ AdderAt(e, 0) /\ AdderIdle(e, 0) /\ Flushed(e) /\ Relayed(e, << >>)
  /\ \/ stack = <<Activating(Consumer(e))>> /\ ConsumerAt(e, 0, FALSE)
     \/ \E m \in Nat \ {0} :
          /\ stack = <<Staged(Consumer(e), m), Activating(Consumer(e))>>
          /\ ConsumerAt(e, m, TRUE)

(* The calls that can be in progress when a step of one has been taken. *)
Relaying(e) == Acting(e) \/ FlushingOutbox(e) \/ AdderLoop(e) \/ ConsumerLoop(e)

Busy(e) == Accepting(e) \/ Relaying(e)

Calls ==
  \/ stack = << >> /\ \A e \in Elts : Resting(e)
  \/ \E e \in Elts : /\ Busy(e) /\ (exchanging => e \in constructed)
                     /\ \A d \in Elts \ {e} : Resting(d)

-----------------------------------------------------------------------------
(* The exchange. *)

(* The values that quiescence detection should know of. *)
Held == UNION {{c} \X HeldBy(c) : c \in Coms}

Counted == qd = Cardinality(Held)

(* Elements are online when they are constructed; nothing came before. *)
Online ==
  exchanging =>
    /\ persistent = Coms
    /\ \A e \in constructed : {Adder(e), Consumer(e)} \subseteq active /\ Adder(e) \in connected
    /\ \A e \in Elts \ constructed :
         /\ Adder(e) \notin active /\ Consumer(e) \notin active /\ Adder(e) \notin connected
         /\ \A p \in {0, 1} : arrived[Adder(e)][p] = << >>

(* Who sends to e. *)
Senders(e) == {s \in Elts : Even(s) = e \/ Odd(s) = e}

(* The adder of e is about to accept a value at port p. *)
Accepted(e, p) ==
  IF /\ stack # << >> /\ Head(stack).op = "accept"
     /\ Head(stack).com = Adder(e) /\ Head(stack).port = p
  THEN 1 ELSE 0

(* All messages of constructed elements are under way or have come. *)
Exchanged ==
  /\ \A m \in Messages : net[m] > 0 => exchanging /\ m[3] = PortType(m[1], m[2])
  /\ exchanging =>
       \A e \in Elts, p \in {0, 1} :
         net[<<e, p, PortType(e, p)>>] + (Came(e, p) + Accepted(e, p))
           = (NumIters \div 4) * Cardinality(constructed \cap Senders(e))

Inv == Typed /\ Calls /\ Counted /\ Online /\ Exchanged

-----------------------------------------------------------------------------
(* Facts about the constants, and about the calls on the stack. *)

LEMMA ElementFacts ==
  /\ \A d, e \in Elts : /\ Adder(d) = Adder(e) => d = e
                        /\ Consumer(d) = Consumer(e) => d = e
                        /\ Adder(d) # Consumer(e)
  /\ \A e \in Elts : /\ Adder(e) \in Coms /\ Consumer(e) \in Coms
                     /\ Ports(Adder(e)) = {0, 1} /\ Ports(Consumer(e)) = {0}
                     /\ NIn[Adder(e)] = 2 /\ NIn[Consumer(e)] = 1
                     /\ Wire[Adder(e)] = <<Consumer(e), 0>> /\ Wire[Consumer(e)] = << >>
  /\ \A c \in Coms : \E e \in Elts : c = Adder(e) \/ c = Consumer(e)
  /\ 0 \in Elts /\ NumElts \in Nat \ {0} /\ NumElts % 2 = 0
  /\ NumIters \in Nat /\ NumIters % 4 = 0
  <1> USE ExchangerAssumption
  <1>1. \A d, e \in Elts : /\ Adder(d) = Adder(e) => d = e
                           /\ Consumer(d) = Consumer(e) => d = e
                           /\ Adder(d) # Consumer(e)
    BY DEF Adder, Consumer
  <1>2. \A e \in Elts : Adder(e) \in Coms /\ Consumer(e) \in Coms
    OBVIOUS
  <1>3. \A e \in Elts : NIn[Adder(e)] = 2 /\ NIn[Consumer(e)] = 1
    OBVIOUS
  <1>4. \A e \in Elts : Ports(Adder(e)) = {0, 1} /\ Ports(Consumer(e)) = {0}
    BY <1>3 DEF Ports
  <1>5. \A c \in Coms : \E e \in Elts : c = Adder(e) \/ c = Consumer(e)
    OBVIOUS
  <1>6. 0 \in Elts
    BY DEF Elts
  <1>7. QED
    BY <1>1, <1>2, <1>3, <1>4, <1>5, <1>6

LEMMA FrameFacts ==
  /\ \A c, p, v : AcceptBy(c, p, v).op = "accept" /\ AcceptBy(c, p, v).com = c
                  /\ AcceptBy(c, p, v).port = p /\ AcceptBy(c, p, v).val = v
  /\ \A c, n : Staged(c, n).op = "staged" /\ Staged(c, n).com = c /\ Staged(c, n).at = n
  /\ \A c : Activating(c).op = "activate" /\ Activating(c).com = c
  /\ \A c : Flushing(c).op = "flush" /\ Flushing(c).com = c
  BY DEF AcceptBy, Staged, Activating, Flushing, Frame

LEMMA Push ==
  ASSUME NEW f, NEW g, NEW h
  PROVE  <<f>> \o <<g>> = <<f, g>> /\ <<f>> \o <<g, h>> = <<f, g, h>>
  <1> DEFINE S == {f, g, h}
             q == <<f>> \o <<g>>
             r == <<f>> \o <<g, h>>
  <1>1. <<f>> \in Seq(S) /\ <<g>> \in Seq(S) /\ <<g, h>> \in Seq(S)
    OBVIOUS
  <1>2. q \in Seq(S) /\ Len(q) = 2 /\ q[1] = f /\ q[2] = g
    BY <1>1
  <1>3. r \in Seq(S) /\ Len(r) = 3 /\ r[1] = f /\ r[2] = g /\ r[3] = h
    BY <1>1
  <1> HIDE DEF q, r
  <1>4. q = <<f, g>>
    BY <1>2
  <1>5. r = <<f, g, h>>
    BY <1>3
  <1>6. QED
    BY <1>4, <1>5 DEF q, r

LEMMA StackFacts ==
  /\ \A f : Head(<<f>>) = f /\ Tail(<<f>>) = << >> /\ <<f>> # << >> /\ <<f>> \o << >> = <<f>>
  /\ \A f, g : /\ <<f>> \o <<g>> = <<f, g>> /\ Head(<<f, g>>) = f
               /\ Tail(<<f, g>>) = <<g>> /\ <<f, g>> # << >>
  /\ \A f, g, h : /\ <<f>> \o <<g, h>> = <<f, g, h>> /\ Head(<<f, g, h>>) = f
                  /\ Tail(<<f, g, h>>) = <<g, h>> /\ <<f, g, h>> # << >>
  <1>1. \A f : Head(<<f>>) = f /\ Tail(<<f>>) = << >> /\ <<f>> # << >> /\ <<f>> \o << >> = <<f>>
    OBVIOUS
  <1>2. \A f, g : Head(<<f, g>>) = f /\ Tail(<<f, g>>) = <<g>> /\ <<f, g>> # << >>
    OBVIOUS
  <1>3. \A f, g, h : Head(<<f, g, h>>) = f /\ <<f, g, h>> # << >>
    OBVIOUS
  <1>4. \A f, g, h : Tail(<<f, g, h>>) = <<g, h>>
    OBVIOUS
  <1>5. \A f, g, h : <<f>> \o <<g>> = <<f, g>> /\ <<f>> \o <<g, h>> = <<f, g, h>>
    BY Push
  <1>6. QED
    BY <1>1, <1>2, <1>3, <1>4, <1>5

-----------------------------------------------------------------------------
(* Facts about numbers and sequences. *)

(* A set of subsets of a finite set has a smallest member. *)
LEMMA SmallestSubset ==
  ASSUME NEW S, IsFiniteSet(S), NEW T \in SUBSET SUBSET S, T # {}
  PROVE  \E A \in T : \A B \in T : B \subseteq A => B = A
  <1>1. IsWellFoundedOn(StrictSubsetOrdering(S), SUBSET S)
    BY FS_StrictSubsetOrderingWellFounded, FS_FiniteSubsetsOfFinite
  <1>2. PICK A \in T : \A B \in T : ~(<<B, A>> \in StrictSubsetOrdering(S))
    BY <1>1, WFMin
  <1>3. \A B \in T : B \subseteq A => B = A
    BY <1>2 DEF StrictSubsetOrdering
  <1>4. QED
    BY <1>3

LEMMA SmallestNumber ==
  ASSUME NEW n \in Nat, NEW I \in SUBSET (1 .. n), I # {}
  PROVE  \E k \in I : \A j \in I : k <= j
  <1> DEFINE T == {1 .. k : k \in I}
             N == 1 .. n
  <1>1. IsFiniteSet(N)
    BY FS_Interval
  <1>2. T \in SUBSET SUBSET N /\ T # {}
    <2>1. \A k \in I : 1 .. k \in SUBSET N
      OBVIOUS
    <2> HIDE DEF N
    <2>2. QED
      BY <2>1
  <1> HIDE DEF T, N
  <1>3. PICK A \in T : \A B \in T : B \subseteq A => B = A
    BY <1>1, <1>2, SmallestSubset
  <1> USE DEF T
  <1>4. PICK k \in I : A = 1 .. k
    OBVIOUS
  <1>5. ASSUME NEW j \in I
        PROVE  k <= j
    <2>1. SUFFICES ASSUME j < k PROVE FALSE
      OBVIOUS
    <2>2. 1 .. j \in T /\ 1 .. j \subseteq A
      BY <1>4, <2>1
    <2>3. 1 .. j = 1 .. k
      BY <1>3, <1>4, <2>2
    <2>4. k \in 1 .. k /\ k \notin 1 .. j
      BY <2>1
    <2>5. QED
      BY <2>3, <2>4
  <1>6. QED
    BY <1>5

LEMMA MinIn ==
  ASSUME NEW n \in Nat, NEW I \in SUBSET (1 .. n), I # {}
  PROVE  Min(I) \in I
  BY SmallestNumber DEF Min

LEMMA MaxOfInterval ==
  ASSUME NEW n \in Nat \ {0}
  PROVE  Max(1 .. n) = n
  <1>1. n \in 1 .. n /\ \A j \in 1 .. n : n >= j
    OBVIOUS
  <1>2. \A k \in 1 .. n : (\A j \in 1 .. n : k >= j) => k = n
    OBVIOUS
  <1>3. QED
    BY <1>1, <1>2 DEF Max

(* Sequences of the same length with the same elements. *)
LEMMA SameSequence ==
  ASSUME NEW S, NEW q \in Seq(S), NEW r \in Seq(S), Len(q) = Len(r),
         \A j \in 1 .. Len(q) : q[j] = r[j]
  PROVE  q = r
  OBVIOUS

LEMMA Elements ==
  ASSUME NEW S, NEW q \in Seq(S)
  PROVE  ToSet(q) = {q[j] : j \in 1 .. Len(q)}
  BY DEF ToSet

LEMMA Prepend ==
  ASSUME NEW S, NEW q \in Seq(S), NEW x \in S
  PROVE  /\ <<x>> \o q \in Seq(S) /\ Len(<<x>> \o q) = Len(q) + 1
         /\ (<<x>> \o q)[1] = x
         /\ \A j \in 2 .. Len(q) + 1 : (<<x>> \o q)[j] = q[j - 1]
  <1>1. <<x>> \in Seq(S)
    OBVIOUS
  <1>2. QED
    BY <1>1

Rests(q, a, b) == q = a \o << >> \o b
Carries(q, a, x, b) == q = a \o <<x>> \o b
Extends(r, q, x) == r = Append(q, x)
OneMore(r, q, x) == Len(r) = Len(q) + 1 /\ ToSet(r) = ToSet(q) \cup {x}

(* The results of an adder: a has arrived, b is in the outbox; x is another. *)
LEMMA OnTheWay ==
  ASSUME NEW S, NEW a \in Seq(S), NEW b \in Seq(S), NEW x \in S, NEW q, NEW r,
         Rests(q, a, b), Carries(r, a, x, b)
  PROVE  /\ q \in Seq(S) /\ r \in Seq(S) /\ OneMore(r, q, x)
         /\ b = << >> => Extends(r, q, x)
         /\ Rests(r, Append(a, x), b)
         /\ Rests(Append(q, x), a, Append(b, x))
         /\ b # << >> => Carries(q, a, Head(b), Tail(b))
  <1>1. /\ << >> \in Seq(S) /\ <<x>> \in Seq(S) /\ Append(a, x) \in Seq(S) /\ Append(b, x) \in Seq(S)
        /\ a \o << >> \in Seq(S) /\ a \o <<x>> \in Seq(S)
    OBVIOUS
  <1>2. /\ q \in Seq(S) /\ Len(q) = Len(a) + Len(b)
        /\ \A j \in 1 .. Len(a) : q[j] = a[j]
        /\ \A j \in 1 .. Len(b) : q[Len(a) + j] = b[j]
    BY <1>1 DEF Rests, Carries
  <1>3. /\ r \in Seq(S) /\ Len(r) = Len(a) + Len(b) + 1
        /\ \A j \in 1 .. Len(a) : r[j] = a[j]
        /\ r[Len(a) + 1] = x
        /\ \A j \in 1 .. Len(b) : r[Len(a) + 1 + j] = b[j]
    BY <1>1 DEF Rests, Carries
  <1>4. Append(a, x) \o << >> \o b = r
    <2> DEFINE t == Append(a, x) \o << >> \o b
    <2>1. /\ t \in Seq(S) /\ Len(t) = Len(a) + Len(b) + 1
          /\ \A j \in 1 .. Len(a) : t[j] = a[j]
          /\ t[Len(a) + 1] = x
          /\ \A j \in 1 .. Len(b) : t[Len(a) + 1 + j] = b[j]
      BY <1>1
    <2> HIDE DEF t
    <2>2. \A j \in 1 .. Len(t) : t[j] = r[j]
      <3> TAKE j \in 1 .. Len(t)
      <3>1. CASE j <= Len(a)
        BY <3>1, <1>3, <2>1
      <3>2. CASE j = Len(a) + 1
        BY <3>2, <1>3, <2>1
      <3>3. CASE j > Len(a) + 1
        <4>1. j - Len(a) - 1 \in 1 .. Len(b) /\ j = Len(a) + 1 + (j - Len(a) - 1)
          BY <3>3, <2>1
        <4>2. QED
          BY <4>1, <1>3, <2>1
      <3>4. QED
        BY <3>1, <3>2, <3>3, <2>1
    <2>3. t = r
      BY <1>3, <2>1, <2>2, SameSequence
    <2>4. QED
      BY <2>3 DEF t
  <1>5. ASSUME b # << >> PROVE a \o <<Head(b)>> \o Tail(b) = q
    <2> DEFINE t == a \o <<Head(b)>> \o Tail(b)
    <2>1. /\ Head(b) \in S /\ Tail(b) \in Seq(S) /\ Len(Tail(b)) = Len(b) - 1 /\ Head(b) = b[1]
          /\ \A j \in 1 .. Len(b) - 1 : Tail(b)[j] = b[j + 1]
      BY <1>5
    <2>2. <<Head(b)>> \in Seq(S) /\ a \o <<Head(b)>> \in Seq(S)
      BY <2>1
    <2>3. /\ t \in Seq(S) /\ Len(t) = Len(a) + Len(b)
          /\ \A j \in 1 .. Len(a) : t[j] = a[j]
          /\ t[Len(a) + 1] = b[1]
          /\ \A j \in 1 .. Len(b) - 1 : t[Len(a) + 1 + j] = Tail(b)[j]
      BY <2>1, <2>2
    <2>4. Len(b) >= 1
      BY <1>5
    <2> HIDE DEF t
    <2>5. \A j \in 1 .. Len(t) : t[j] = q[j]
      <3> TAKE j \in 1 .. Len(t)
      <3>1. CASE j <= Len(a)
        BY <3>1, <1>2, <2>3
      <3>2. CASE j = Len(a) + 1
        BY <3>2, <1>2, <2>3, <2>4
      <3>3. CASE j > Len(a) + 1
        <4>1. /\ j - Len(a) - 1 \in 1 .. Len(b) - 1 /\ j = Len(a) + 1 + (j - Len(a) - 1)
              /\ j - Len(a) \in 1 .. Len(b) /\ j = Len(a) + (j - Len(a))
          BY <3>3, <2>3
        <4>2. t[j] = b[j - Len(a)]
          BY <4>1, <2>1, <2>3
        <4>3. QED
          BY <4>1, <4>2, <1>2
      <3>4. QED
        BY <3>1, <3>2, <3>3, <2>3
    <2>6. t = q
      BY <1>2, <2>3, <2>5, SameSequence
    <2>7. QED
      BY <2>6 DEF t
  <1>6. a \o << >> \o Append(b, x) = Append(q, x)
    <2> DEFINE t == a \o << >> \o Append(b, x)
    <2>1. /\ t \in Seq(S) /\ Len(t) = Len(a) + Len(b) + 1
          /\ \A j \in 1 .. Len(a) : t[j] = a[j]
          /\ \A j \in 1 .. Len(b) : t[Len(a) + j] = b[j]
          /\ t[Len(a) + Len(b) + 1] = x
      BY <1>1
    <2> DEFINE u == Append(q, x)
    <2>2. /\ u \in Seq(S) /\ Len(u) = Len(a) + Len(b) + 1
          /\ \A j \in 1 .. Len(a) + Len(b) : u[j] = q[j]
          /\ u[Len(a) + Len(b) + 1] = x
      <3>1. QED
        BY <1>2
    <2> HIDE DEF t, u
    <2>3. \A j \in 1 .. Len(t) : t[j] = u[j]
      <3> TAKE j \in 1 .. Len(t)
      <3>1. CASE j <= Len(a)
        BY <3>1, <1>2, <2>1, <2>2
      <3>2. CASE j > Len(a) /\ j <= Len(a) + Len(b)
        <4>1. j - Len(a) \in 1 .. Len(b) /\ j = Len(a) + (j - Len(a))
          BY <3>2
        <4>2. t[j] = b[j - Len(a)]
          BY <4>1, <2>1
        <4>3. q[j] = b[j - Len(a)]
          BY <4>1, <1>2
        <4>4. u[j] = q[j]
          BY <3>2, <2>2
        <4>5. QED
          BY <4>2, <4>3, <4>4
      <3>3. CASE j = Len(a) + Len(b) + 1
        BY <3>3, <2>1, <2>2
      <3>4. j \in 1 .. Len(a) + Len(b) + 1 /\ Len(a) \in Nat /\ Len(b) \in Nat
        BY <2>1
      <3>5. QED
        BY <3>1, <3>2, <3>3, <3>4
    <2>4. t = u
      BY <2>1, <2>2, <2>3, SameSequence
    <2>5. QED
      BY <2>4 DEF t, u
  <1>7. ASSUME b = << >> PROVE r = Append(q, x)
    <2> DEFINE u == Append(q, x)
    <2>1. /\ u \in Seq(S) /\ Len(u) = Len(a) + 1
          /\ \A j \in 1 .. Len(a) : u[j] = q[j]
          /\ u[Len(a) + 1] = x
      <3>1. QED
        BY <1>2, <1>7
    <2>2. Len(b) = 0
      BY <1>7
    <2> HIDE DEF u
    <2>3. \A j \in 1 .. Len(r) : r[j] = u[j]
      BY <1>2, <1>3, <2>1, <2>2
    <2>4. r = u
      BY <1>3, <2>1, <2>2, <2>3, SameSequence
    <2>5. QED
      BY <2>4 DEF u
  <1>8. ToSet(r) = ToSet(q) \cup {x}
    <2>1. ToSet(r) = {r[j] : j \in 1 .. Len(r)} /\ ToSet(q) = {q[j] : j \in 1 .. Len(q)}
      <3>1. q \in Seq(S) /\ r \in Seq(S)
        BY <1>2, <1>3
      <3>2. QED
        BY <3>1, Elements
    <2>2. \A j \in 1 .. Len(q) : \E k \in 1 .. Len(r) : q[j] = r[k]
      <3> TAKE j \in 1 .. Len(q)
      <3>1. CASE j <= Len(a)
        BY <3>1, <1>2, <1>3
      <3>2. CASE j > Len(a)
        <4>1. /\ j - Len(a) \in 1 .. Len(b) /\ j = Len(a) + (j - Len(a))
              /\ Len(a) + 1 + (j - Len(a)) = j + 1 /\ j + 1 \in 1 .. Len(r)
          BY <3>2, <1>2, <1>3
        <4>2. r[j + 1] = b[j - Len(a)]
          BY <4>1, <1>3
        <4>2a. q[j] = b[j - Len(a)]
          BY <4>1, <1>2
        <4>3. QED
          BY <4>1, <4>2, <4>2a
      <3>3. QED
        BY <3>1, <3>2
    <2>3. \A k \in 1 .. Len(r) : k = Len(a) + 1 \/ \E j \in 1 .. Len(q) : q[j] = r[k]
      <3> TAKE k \in 1 .. Len(r)
      <3>1. CASE k <= Len(a)
        BY <3>1, <1>2, <1>3
      <3>2. CASE k > Len(a) + 1
        <4>1. /\ k - Len(a) - 1 \in 1 .. Len(b) /\ k = Len(a) + 1 + (k - Len(a) - 1)
              /\ Len(a) + (k - Len(a) - 1) = k - 1 /\ k - 1 \in 1 .. Len(q)
          BY <3>2, <1>2, <1>3
        <4>2. q[k - 1] = r[k]
          BY <4>1, <1>2, <1>3, ZenonT(40)
        <4>3. QED
          BY <4>1, <4>2
      <3>3. QED
        BY <3>1, <3>2
    <2>4. Len(a) + 1 \in 1 .. Len(r) /\ r[Len(a) + 1] = x
      BY <1>3
    <2>5. QED
      BY <2>1, <2>2, <2>3, <2>4
  <1>9. Len(r) = Len(q) + 1
    BY <1>2, <1>3
  <1>10. QED
    <2>1. OneMore(r, q, x)
      BY <1>8, <1>9 DEF OneMore
    <2>2. b = << >> => Extends(r, q, x)
      BY <1>7 DEF Extends
    <2>3. Rests(r, Append(a, x), b) /\ Rests(Append(q, x), a, Append(b, x))
      BY <1>4, <1>6 DEF Rests
    <2>4. b # << >> => Carries(q, a, Head(b), Tail(b))
      BY <1>5 DEF Carries
    <2>5. QED
      BY <1>2, <1>3, <2>1, <2>2, <2>3, <2>4

LEMMA AppendFacts ==
  ASSUME NEW S, NEW q \in Seq(S), NEW x \in S
  PROVE  /\ Append(q, x) \in Seq(S) /\ Len(Append(q, x)) = Len(q) + 1
         /\ \A j \in 1 .. Len(q) : Append(q, x)[j] = q[j]
         /\ Append(q, x)[Len(q) + 1] = x
         /\ ToSet(Append(q, x)) = ToSet(q) \cup {x}
  <1> DEFINE r == Append(q, x)
  <1>1. /\ r \in Seq(S) /\ Len(r) = Len(q) + 1
        /\ \A j \in 1 .. Len(q) : r[j] = q[j]
        /\ r[Len(q) + 1] = x
    OBVIOUS
  <1> HIDE DEF r
  <1>2. ToSet(r) = {r[j] : j \in 1 .. Len(r)} /\ ToSet(q) = {q[j] : j \in 1 .. Len(q)}
    BY <1>1 DEF ToSet
  <1>3. ToSet(r) = ToSet(q) \cup {x}
    BY <1>1, <1>2
  <1>4. QED
    BY <1>1, <1>3 DEF r

LEMMA Joined ==
  ASSUME NEW S, NEW a \in Seq(S), NEW b \in Seq(S)
  PROVE  /\ a \o b \in Seq(S) /\ Len(a \o b) = Len(a) + Len(b)
         /\ \A j \in 1 .. Len(a) : (a \o b)[j] = a[j]
         /\ \A j \in 1 .. Len(b) : (a \o b)[Len(a) + j] = b[j]
  OBVIOUS

LEMMA Removed ==
  ASSUME NEW S, NEW q \in Seq(S), NEW k \in 1 .. Len(q)
  PROVE  /\ RemoveAt(q, k) \in Seq(S) /\ Len(RemoveAt(q, k)) = Len(q) - 1
         /\ \A j \in 1 .. Len(q) - 1 : RemoveAt(q, k)[j] = IF j < k THEN q[j] ELSE q[j + 1]
  <1> DEFINE a == SubSeq(q, 1, k - 1)
             b == SubSeq(q, k + 1, Len(q))
  <1>1. a \in Seq(S) /\ Len(a) = k - 1 /\ \A j \in 1 .. k - 1 : a[j] = q[j]
    OBVIOUS
  <1>2. b \in Seq(S) /\ Len(b) = Len(q) - k /\ \A j \in 1 .. Len(q) - k : b[j] = q[k + j]
    OBVIOUS
  <1>3. RemoveAt(q, k) = a \o b
    BY DEF RemoveAt
  <1> HIDE DEF a, b
  <1>4. /\ a \o b \in Seq(S) /\ Len(a \o b) = Len(a) + Len(b)
        /\ \A j \in 1 .. Len(a) : (a \o b)[j] = a[j]
        /\ \A j \in 1 .. Len(b) : (a \o b)[Len(a) + j] = b[j]
    <2>1. a \in Seq(S) /\ b \in Seq(S)
      BY <1>1, <1>2
    <2>2. QED
      BY <2>1, Joined
  <1>5. PICK l \in Nat : l = Len(q)
    OBVIOUS
  <1>6. ASSUME NEW j \in 1 .. Len(q) - 1
        PROVE  (a \o b)[j] = IF j < k THEN q[j] ELSE q[j + 1]
    <2>1. CASE j < k
      BY <1>1, <1>4, <2>1
    <2>2. CASE ~(j < k)
      <3>1. j - (k - 1) \in 1 .. Len(q) - k /\ j = (k - 1) + (j - (k - 1))
        BY <1>5, <2>2
      <3>2. (a \o b)[j] = b[j - (k - 1)]
        <4>1. PICK m : m = j - (k - 1)
          OBVIOUS
        <4>2. m \in 1 .. Len(b)
          BY <1>2, <3>1, <4>1
        <4>3. (a \o b)[Len(a) + m] = b[m]
          BY <1>4, <4>2
        <4>4. Len(a) + m = j
          BY <1>1, <3>1, <4>1
        <4>5. QED
          BY <4>1, <4>3, <4>4
      <3>3. b[j - (k - 1)] = q[k + (j - (k - 1))]
        BY <1>2, <3>1
      <3>4. k + (j - (k - 1)) = j + 1
        BY <1>5
      <3>5. QED
        BY <2>2, <3>2, <3>3, <3>4
    <2>3. QED
      BY <2>1, <2>2
  <1>7. QED
    BY <1>1, <1>2, <1>3, <1>4, <1>5, <1>6

-----------------------------------------------------------------------------
(* What does not change when another component is called. *)

SameAdder(e) ==
  LET a == Adder(e) IN
  /\ persistent' = persistent /\ incoming'[a] = incoming[a] /\ arrived'[a] = arrived[a]
  /\ acted'[a] = acted[a] /\ activations'[a] = activations[a]
  /\ a \in active' <=> a \in active

SameConsumer(e) ==
  LET c == Consumer(e) IN
  /\ persistent' = persistent /\ incoming'[c] = incoming[c] /\ arrived'[c] = arrived[c]
  /\ acted'[c] = acted[c] /\ activations'[c] = activations[c]
  /\ c \in active' <=> c \in active

SameOutbox(e) ==
  /\ persistent' = persistent /\ outbox'[Adder(e)] = outbox[Adder(e)]
  /\ Adder(e) \in connected' <=> Adder(e) \in connected

LEMMA AdderStays ==
  ASSUME NEW e \in Elts, NEW n, SameAdder(e)
  PROVE  /\ AdderAt(e, n)' <=> AdderAt(e, n)
         /\ AdderIdle(e, n)' <=> AdderIdle(e, n)
         /\ \A p : Came(e, p)' = Came(e, p) /\ Behind(e, p)' = Behind(e, p)
  <1> USE DEF SameAdder
  <1>1. \A p : Came(e, p)' = Came(e, p)
    BY DEF Came
  <1>2. \A p : Behind(e, p)' = Behind(e, p)
    BY <1>1 DEF Behind
  <1>3. ArrivedInOrder(e)' <=> ArrivedInOrder(e)
    BY <1>1 DEF ArrivedInOrder
  <1>4. \A k, set : PairOf(e, k, set)' <=> PairOf(e, k, set)
    BY <1>1 DEF PairOf
  <1>5. Waiting(e)' <=> Waiting(e)
    BY <1>1, <1>2, <1>4 DEF Waiting
  <1>6. Paired(e, n)' <=> Paired(e, n)
    BY <1>1, <1>2, <1>4 DEF Paired
  <1>7. ActsOnce(Adder(e), n # 0)' <=> ActsOnce(Adder(e), n # 0)
    BY DEF ActsOnce
  <1>8. AdderIdle(e, n)' <=> AdderIdle(e, n)
    BY <1>2 DEF AdderIdle
  <1>9. QED
    BY <1>1, <1>2, <1>3, <1>5, <1>6, <1>7, <1>8 DEF AdderAt, AdderSets

LEMMA ConsumerStays ==
  ASSUME NEW e \in Elts, NEW m, NEW acting, SameConsumer(e)
  PROVE  /\ ConsumerAt(e, m, acting)' <=> ConsumerAt(e, m, acting)
         /\ ConsumerIdle(e)' <=> ConsumerIdle(e)
  BY DEF SameConsumer, ConsumerAt, ConsumerSets, ActsOnce, ConsumerIdle

LEMMA OutboxStays ==
  ASSUME NEW e \in Elts, NEW pending, SameOutbox(e)
  PROVE  /\ Flushed(e)' <=> Flushed(e)
         /\ SameAdder(e) /\ SameConsumer(e) =>
              (Relayed(e, pending)' <=> Relayed(e, pending))
  <1>1. Flushed(e)' <=> Flushed(e)
    BY DEF SameOutbox, Flushed
  <1>2. ASSUME SameAdder(e), SameConsumer(e)
        PROVE  Relayed(e, pending)' <=> Relayed(e, pending)
    <2>1. Given(e, pending)' = Given(e, pending)
      BY <1>2 DEF SameOutbox, SameConsumer, Given
    <2>2. Results(Adder(e))' = Results(Adder(e))
      BY <1>2 DEF SameAdder, Results
    <2>3. QED
      BY <1>2, <2>1, <2>2 DEF Relayed, SameAdder, SameOutbox
  <1>3. QED
    BY <1>1, <1>2

(* Only the components of e are called. *)
OnlyElement(e) ==
  \A d \in Elts \ {e} : SameAdder(d) /\ SameConsumer(d) /\ SameOutbox(d)

LEMMA OthersRest ==
  ASSUME NEW e \in Elts, OnlyElement(e), \A d \in Elts \ {e} : Resting(d)
  PROVE  \A d \in Elts \ {e} : Resting(d)'
  BY AdderStays, ConsumerStays, OutboxStays DEF OnlyElement, Resting

-----------------------------------------------------------------------------
(* Where the adder puts a value. *)

LEMMA CameType ==
  ASSUME NEW e, ArrivedInOrder(e)
  PROVE  \A p \in {0, 1} : Came(e, p) \in Nat /\ Behind(e, p) \in Int /\ 1 - p \in {0, 1}
                           /\ Behind(e, p) = Came(e, 1 - p) - Came(e, p)
                           /\ Behind(e, 1 - p) = Came(e, p) - Came(e, 1 - p)
  <1>1. \A p \in {0, 1} : Came(e, p) \in Nat
    BY DEF ArrivedInOrder, Came
  <1>2. Behind(e, 0) = Came(e, 1) - Came(e, 0) /\ Behind(e, 1) = Came(e, 0) - Came(e, 1)
    BY DEF Behind
  <1>3. QED
    BY <1>1, <1>2

LEMMA EmptyAt ==
  ASSUME NEW e, ArrivedInOrder(e), Waiting(e), NEW p \in {0, 1},
         NEW j \in 1 .. Len(incoming[Adder(e)])
  PROVE  incoming[Adder(e)][j][p] = {} <=> j <= Behind(e, p)
  <1> DEFINE In == incoming[Adder(e)]
  <1>1. Behind(e, p) \in Int /\ Behind(e, 1 - p) \in Int /\ 1 - p \in {0, 1} /\ 1 - (1 - p) = p
    BY CameType
  <1>2. CASE j <= Behind(e, p)
    BY <1>2 DEF Waiting
  <1>3. CASE j > Behind(e, p) /\ j <= Behind(e, 1 - p)
    <2>1. In[j][1 - (1 - p)] = {Came(e, 1 - (1 - p)) - j + 1}
      BY <1>1, <1>3 DEF Waiting
    <2>2. In[j][p] # {}
      BY <1>1, <2>1
    <2>3. ~(j <= Behind(e, p))
      BY <1>1, <1>3
    <2>4. QED
      BY <2>2, <2>3
  <1>4. CASE j > Behind(e, p) /\ j > Behind(e, 1 - p)
    <2>1. j > Behind(e, 0) /\ j > Behind(e, 1)
      BY <1>4
    <2>2. PICK k \in Nat : PairOf(e, k, In[j])
      BY <2>1 DEF Waiting
    <2>3. In[j][p] = {k}
      BY <2>2 DEF PairOf
    <2>4. QED
      BY <1>1, <1>4, <2>3
  <1>5. QED
    BY <1>1, <1>2, <1>3, <1>4

(* find_gap_ finds the oldest of the sets that wait for a value at p. *)
LEMMA GapIs ==
  ASSUME NEW e, ArrivedInOrder(e), Waiting(e), NEW p \in {0, 1}
  PROVE  FindGap(Adder(e), p) = IF Behind(e, p) > 0 THEN Behind(e, p) ELSE 0
  <1> DEFINE In == incoming[Adder(e)]
             I == {j \in 1 .. Len(In) : In[j][p] = NoValue}
  <1>1. FindGap(Adder(e), p) = IF I # {} THEN Max(I) ELSE 0
    BY DEF FindGap, SelectLastInSeq
  <1>2. PICK b \in Int : b = Behind(e, p)
    BY CameType
  <1>3. \A j \in 1 .. Len(In) : In[j][p] = {} <=> j <= b
    BY <1>2, EmptyAt
  <1>4. b <= Len(In) /\ Len(In) \in Nat
    BY <1>2 DEF Waiting
  <1>5. I = 1 .. b
    <2> HIDE DEF In
    <2>1. QED
      BY <1>3, <1>4 DEF NoValue
  <1> HIDE DEF I
  <1>6. CASE b > 0
    BY <1>1, <1>2, <1>5, <1>6, MaxOfInterval
  <1>7. CASE b <= 0
    <2>1. I = {}
      BY <1>5, <1>7
    <2>2. QED
      BY <1>1, <1>2, <1>7, <2>1
  <1>8. QED
    BY <1>6, <1>7

(* The next value comes to port p of the adder. *)
Arrives(e, p) ==
  arrived'[Adder(e)] =
    [arrived[Adder(e)] EXCEPT ![p] = Append(@, {Came(e, p) + 1})]

LEMMA ArrivesFacts ==
  ASSUME NEW e, ArrivedInOrder(e), NEW p \in {0, 1}, Arrives(e, p)
  PROVE  /\ ArrivedInOrder(e)'
         /\ Came(e, p)' = Came(e, p) + 1 /\ Came(e, 1 - p)' = Came(e, 1 - p)
         /\ Behind(e, p)' = Behind(e, p) - 1 /\ Behind(e, 1 - p)' = Behind(e, 1 - p) + 1
         /\ \A k, set : PairOf(e, k, set) => PairOf(e, k, set)'
  <1> DEFINE q == arrived[Adder(e)]
             v == {Came(e, p) + 1}
  <1>1. /\ Came(e, p) \in Nat /\ Came(e, 1 - p) \in Nat /\ 1 - p \in {0, 1} /\ 1 - p # p
        /\ Behind(e, p) = Came(e, 1 - p) - Came(e, p)
        /\ Behind(e, 1 - p) = Came(e, p) - Came(e, 1 - p)
    BY CameType
  <1>2. q \in [{0, 1} -> Seq(SUBSET Nat)] /\ v \in SUBSET Nat
    BY <1>1 DEF ArrivedInOrder
  <1>3. arrived'[Adder(e)] = [q EXCEPT ![p] = Append(q[p], v)]
    BY DEF Arrives
  <1>4. q[p] \in Seq(SUBSET Nat)
    BY <1>2
  <1>5. PICK r \in Seq(SUBSET Nat) : r = Append(q[p], v)
    BY <1>2, <1>4, AppendFacts
  <1>6. /\ Len(r) = Came(e, p) + 1 /\ r[Came(e, p) + 1] = v
        /\ \A k \in 1 .. Came(e, p) : r[k] = q[p][k]
    BY <1>2, <1>4, <1>5, AppendFacts DEF Came
  <1>7. arrived'[Adder(e)][p] = r /\ arrived'[Adder(e)][1 - p] = q[1 - p]
    BY <1>1, <1>2, <1>3, <1>5
  <1>8. Came(e, p)' = Came(e, p) + 1 /\ Came(e, 1 - p)' = Came(e, 1 - p)
    BY <1>6, <1>7 DEF Came
  <1>9. arrived'[Adder(e)] \in [{0, 1} -> Seq(SUBSET Nat)]
    BY <1>2, <1>3, <1>5
  <1>10. \A k \in 1 .. Came(e, p)' : arrived'[Adder(e)][p][k] = {k}
    <2>1. \A k \in 1 .. Came(e, p) : q[p][k] = {k}
      BY DEF ArrivedInOrder
    <2>2. QED
      BY <1>1, <1>6, <1>7, <1>8, <2>1
  <1>11. \A k \in 1 .. Came(e, 1 - p)' : arrived'[Adder(e)][1 - p][k] = {k}
    <2>1. \A k \in 1 .. Came(e, 1 - p) : q[1 - p][k] = {k}
      BY <1>1 DEF ArrivedInOrder
    <2>2. QED
      BY <1>7, <1>8, <2>1
  <1>12. ArrivedInOrder(e)'
    <2>1. \A r2 \in {0, 1} : r2 = p \/ r2 = 1 - p
      BY <1>1
    <2>2. QED
      BY <1>9, <1>10, <1>11, <2>1 DEF ArrivedInOrder
  <1>13. Behind(e, p)' = Behind(e, p) - 1 /\ Behind(e, 1 - p)' = Behind(e, 1 - p) + 1
    <2>1. Behind(e, p)' = Came(e, 1 - p)' - Came(e, p)'
      BY DEF Behind
    <2>2. Behind(e, 1 - p)' = Came(e, p)' - Came(e, 1 - p)'
      <3>1. 1 - (1 - p) = p
        OBVIOUS
      <3>2. QED
        BY <3>1 DEF Behind
    <2>3. QED
      BY <1>1, <1>8, <2>1, <2>2
  <1>14. \A k, set : PairOf(e, k, set) => PairOf(e, k, set)'
    <2>1. /\ \A k : k \in 1 .. Came(e, 0) => k \in 1 .. Came(e, 0)'
          /\ \A k : k \in 1 .. Came(e, 1) => k \in 1 .. Came(e, 1)'
      BY <1>1, <1>8
    <2>2. QED
      BY <2>1 DEF PairOf
  <1>15. QED
    BY <1>8, <1>12, <1>13, <1>14

(* The value completes the oldest set that waits for it. *)
LEMMA FillGap ==
  ASSUME NEW e, ArrivedInOrder(e), Waiting(e), NEW p \in {0, 1}, Arrives(e, p),
         NEW b \in Nat \ {0}, b = Behind(e, p),
         LET In == incoming[Adder(e)]
         IN  incoming'[Adder(e)] =
               [In EXCEPT ![b] = [In[b] EXCEPT ![p] = {Came(e, p) + 1}]]
  PROVE  /\ Waiting(e)'
         /\ b \in 1 .. Len(incoming[Adder(e)])
         /\ Len(incoming[Adder(e)])' = Len(incoming[Adder(e)])
         /\ \E k \in Nat : PairOf(e, k, incoming[Adder(e)][b])'
         /\ b > Behind(e, 0)' /\ b > Behind(e, 1)'
  <1> DEFINE In == incoming[Adder(e)]
  <1>1. PICK c \in Nat, d \in Nat :
          b = Behind(e, p) /\ c = Came(e, p) /\ d = Came(e, 1 - p)
    BY CameType
  <1>2. b = d - c /\ Behind(e, 1 - p) = c - d /\ 1 - p \in {0, 1} /\ 1 - (1 - p) = p /\ 1 - p # p
    BY <1>1, CameType
  <1>3. /\ ArrivedInOrder(e)'
        /\ Came(e, p)' = c + 1 /\ Came(e, 1 - p)' = d
        /\ Behind(e, p)' = b - 1 /\ Behind(e, 1 - p)' = c - d + 1
        /\ \A k, set : PairOf(e, k, set) => PairOf(e, k, set)'
    BY <1>1, <1>2, ArrivesFacts, ZenonT(60)
  <1>4. In \in Seq(Pairs) /\ b \in 1 .. Len(In)
    BY <1>1 DEF Waiting
  <1>5. PICK set \in Pairs : set = [In[b] EXCEPT ![p] = {c + 1}]
    <2>1. In[b] \in Pairs
      BY <1>4
    <2>2. {c + 1} \in SUBSET Nat
      BY <1>1
    <2> HIDE DEF In
    <2>3. QED
      BY <2>1, <2>2 DEF Pairs
  <1>6. In[b][1 - p] = {c + 1}
    <2>1. In[b][1 - p] = {d - b + 1}
      <3>1. b <= Behind(e, p)
        BY <1>1
      <3>2. In[b][1 - p] = {Came(e, 1 - p) - b + 1}
        BY <3>1, <1>4 DEF Waiting
      <3>3. QED
        BY <3>2, <1>1
    <2>2. d - b + 1 = c + 1
      BY <1>2
    <2>3. QED
      BY <2>1, <2>2
  <1>7. set[p] = {c + 1} /\ set[1 - p] = {c + 1}
    <2>1. In[b] \in Pairs
      BY <1>4
    <2>2. QED
      BY <1>2, <1>5, <1>6, <2>1 DEF Pairs
  <1>8. PairOf(e, c + 1, set)'
    <2>1. c + 1 \in 1 .. Came(e, p)' /\ c + 1 \in 1 .. Came(e, 1 - p)'
      BY <1>1, <1>2, <1>3
    <2>2. CASE p = 0
      BY <1>7, <2>1, <2>2 DEF PairOf
    <2>3. CASE p = 1
      BY <1>7, <2>1, <2>3 DEF PairOf
    <2>4. QED
      BY <2>2, <2>3
  <1>9. PICK Out \in Seq(Pairs) : Out = incoming'[Adder(e)]
    <2>1. incoming'[Adder(e)] = [In EXCEPT ![b] = set]
      BY <1>1, <1>5
    <2>2. [In EXCEPT ![b] = set] \in Seq(Pairs)
      <3> HIDE DEF In
      <3>1. QED
        BY <1>4
    <2>3. QED
      BY <2>1, <2>2
  <1>10. Len(Out) = Len(In) /\ Out[b] = set /\ \A j \in 1 .. Len(In) : j # b => Out[j] = In[j]
    <2>1. Out = [In EXCEPT ![b] = set]
      BY <1>1, <1>5, <1>9
    <2> HIDE DEF In
    <2>2. QED
      BY <1>4, <2>1
  <1>11. \A j \in 1 .. Len(In) : j <= b - 1 => Out[j][p] = {} /\ Out[j][1 - p] = {d - j + 1}
    <2> TAKE j \in 1 .. Len(In)
    <2>1. j <= b => In[j][p] = {} /\ In[j][1 - p] = {d - j + 1}
      BY <1>1, <1>4 DEF Waiting
    <2>2. j \in Nat
      OBVIOUS
    <2> HIDE DEF In
    <2>3. QED
      BY <1>1, <1>10, <2>1, <2>2, SMTT(30)
  <1>12. \A j \in 1 .. Len(In) : j > b - 1 /\ j > c - d + 1 =>
           \E k \in Nat : PairOf(e, k, Out[j])'
    <2> SUFFICES ASSUME NEW j \in 1 .. Len(In), j > b - 1 PROVE \E k \in Nat : PairOf(e, k, Out[j])'
      OBVIOUS
    <2>1. CASE j = b
      <3>1. Out[j] = set /\ c + 1 \in Nat
        BY <1>1, <1>10, <2>1
      <3>2. QED
        BY <1>8, <3>1
    <2>2. CASE j > b
      <3>1. j > Behind(e, p) /\ j > Behind(e, 1 - p)
        BY <1>1, <1>2, <2>2
      <3>2. j > Behind(e, 0) /\ j > Behind(e, 1)
        BY <3>1, <1>2
      <3>3. PICK k \in Nat : PairOf(e, k, In[j])
        BY <3>2 DEF Waiting
      <3>4. Out[j] = In[j]
        BY <1>10, <2>2
      <3>5. QED
        BY <1>3, <3>3, <3>4
    <2>3. QED
      BY <1>1, <2>1, <2>2
  <1> HIDE DEF In
  <1>13. PICK x \in Int : x = Behind(e, 1 - p)' /\ x <= 0 /\ Behind(e, p)' = b - 1
    <2>1. c - d + 1 \in Int /\ c - d + 1 <= 0
      BY <1>1, <1>2, SMTT(30)
    <2>2. QED
      BY <1>3, <2>1
  <1>14. \A r \in {0, 1} : r = p \/ r = 1 - p
    OBVIOUS
  <1>15. Waiting(e)'
    <2>1. \A r \in {0, 1} : Behind(e, r)' <= Len(Out)
      <3>1. Len(Out) = Len(In) /\ Len(In) \in Nat /\ b <= Len(In)
        BY <1>4, <1>10
      <3>2. Behind(e, p)' <= Len(Out) /\ Behind(e, 1 - p)' <= Len(Out)
        BY <1>13, <3>1
      <3>3. QED
        BY <1>14, <3>2
    <2>2. \A r \in {0, 1} : \A j \in 1 .. Len(Out) :
            j <= Behind(e, r)' => Out[j][r] = {} /\ Out[j][1 - r] = {Came(e, 1 - r)' - j + 1}
      <3> TAKE r \in {0, 1}
      <3> TAKE j \in 1 .. Len(Out)
      <3>1. CASE r = p
        BY <1>3, <1>10, <1>11, <1>13, <3>1
      <3>2. CASE r = 1 - p
        <4>1. ~(j <= Behind(e, 1 - p)')
          BY <1>13
        <4>2. QED
          BY <3>2, <4>1
      <3>3. QED
        BY <1>14, <3>1, <3>2
    <2>3. \A j \in 1 .. Len(Out) : j > Behind(e, 0)' /\ j > Behind(e, 1)' =>
            \E k \in Nat : PairOf(e, k, Out[j])'
      <3> TAKE j \in 1 .. Len(Out)
      <3> HAVE j > Behind(e, 0)' /\ j > Behind(e, 1)'
      <3>1. j > Behind(e, p)' /\ j > Behind(e, 1 - p)'
        BY <1>14, <1>2
      <3>2. j > b - 1 /\ j > c - d + 1
        BY <3>1, <1>3
      <3>3. QED
        BY <1>10, <1>12, <3>2
    <2>4. QED
      BY <1>9, <2>1, <2>2, <2>3 DEF Waiting
  <1>16. b > Behind(e, p)' /\ b > Behind(e, 1 - p)'
    BY <1>1, <1>13
  <1>17. b > Behind(e, 0)' /\ b > Behind(e, 1)'
    <2>1. CASE p = 0
      BY <1>16, <2>1
    <2>2. CASE p = 1
      BY <1>16, <2>2
    <2>3. QED
      BY <2>1, <2>2
  <1>18. \E k \in Nat : PairOf(e, k, Out[b])'
    <2>1. c + 1 \in Nat /\ Out[b] = set
      BY <1>1, <1>10
    <2>2. QED
      BY <1>8, <2>1
  <1>19. QED
    <2>1. Len(incoming[Adder(e)])' = Len(In) /\ incoming[Adder(e)]' = Out
      BY <1>9, <1>10
    <2>2. \E k \in Nat : PairOf(e, k, incoming[Adder(e)][b])'
      BY <1>18, <2>1 DEF PairOf
    <2>3. QED
      BY <1>4, <1>15, <1>17, <2>1, <2>2 DEF In

(* No set waits for the value: a new one is made, in front. *)
LEMMA NewSet ==
  ASSUME NEW e, ArrivedInOrder(e), Waiting(e), NEW p \in {0, 1}, Arrives(e, p),
         Behind(e, p) <= 0,
         incoming'[Adder(e)] =
           [<<[r \in {0, 1} |-> {}]>> \o incoming[Adder(e)] EXCEPT
              ![1] = [[r \in {0, 1} |-> {}] EXCEPT ![p] = {Came(e, p) + 1}]]
  PROVE  /\ Waiting(e)'
         /\ Len(incoming[Adder(e)])' = Len(incoming[Adder(e)]) + 1
  <1> DEFINE In == incoming[Adder(e)]
             new == [r \in {0, 1} |-> {}]
  <1>1. PICK c \in Nat, d \in Nat, y \in Nat :
          c = Came(e, p) /\ d = Came(e, 1 - p) /\ y = Behind(e, 1 - p)
    BY CameType
  <1>2. Behind(e, p) = d - c /\ y = c - d /\ 1 - p \in {0, 1} /\ 1 - (1 - p) = p /\ 1 - p # p
    BY <1>1, CameType
  <1>3. /\ ArrivedInOrder(e)'
        /\ Came(e, p)' = c + 1 /\ Came(e, 1 - p)' = d
        /\ Behind(e, p)' = 0 - y - 1 /\ Behind(e, 1 - p)' = y + 1
        /\ \A k, set : PairOf(e, k, set) => PairOf(e, k, set)'
    <2>1. /\ ArrivedInOrder(e)'
          /\ Came(e, p)' = c + 1 /\ Came(e, 1 - p)' = d
          /\ Behind(e, p)' = Behind(e, p) - 1 /\ Behind(e, 1 - p)' = y + 1
          /\ \A k, set : PairOf(e, k, set) => PairOf(e, k, set)'
      BY <1>1, ArrivesFacts
    <2>2. Behind(e, p) - 1 = 0 - y - 1
      BY <1>1, <1>2
    <2>3. QED
      BY <2>1, <2>2
  <1>4. In \in Seq(Pairs)
    BY DEF Waiting
  <1>5. PICK set \in Pairs : set = [new EXCEPT ![p] = {c + 1}]
    <2>1. new \in Pairs /\ {c + 1} \in SUBSET Nat
      BY <1>1 DEF Pairs
    <2> HIDE DEF new
    <2>2. QED
      BY <2>1 DEF Pairs
  <1>6. set[p] = {c + 1} /\ set[1 - p] = {}
    BY <1>2, <1>5
  <1>7. PICK Out \in Seq(Pairs) :
          /\ Out = incoming'[Adder(e)] /\ Len(Out) = Len(In) + 1 /\ Out[1] = set
          /\ \A j \in 2 .. Len(In) + 1 : Out[j] = In[j - 1]
    <2> DEFINE m == <<new>> \o In
    <2>1. /\ m \in Seq(Pairs) /\ Len(m) = Len(In) + 1
          /\ \A j \in 2 .. Len(In) + 1 : m[j] = In[j - 1]
      <3>1. new \in Pairs
        BY DEF Pairs
      <3> HIDE DEF new, In
      <3>2. QED
        BY <1>4, <3>1, Prepend
    <2>2. incoming'[Adder(e)] = [m EXCEPT ![1] = set]
      BY <1>1, <1>5
    <2> HIDE DEF m, In
    <2>3. Len(In) \in Nat
      BY <1>4
    <2> DEFINE o == [m EXCEPT ![1] = set]
    <2>4. /\ o \in Seq(Pairs) /\ Len(o) = Len(m) /\ o[1] = set
          /\ \A j \in 2 .. Len(In) + 1 : o[j] = m[j]
      BY <2>1, <2>3
    <2>5. o = incoming'[Adder(e)]
      BY <2>2
    <2> HIDE DEF o
    <2>6. Len(o) = Len(In) + 1 /\ \A j \in 2 .. Len(In) + 1 : o[j] = In[j - 1]
      BY <2>1, <2>4
    <2>7. QED
      BY <2>4, <2>5, <2>6
  <1>8. Len(In) \in Nat /\ y <= Len(In)
    BY <1>1, <1>2, SMTT(30) DEF Waiting
  <1>9. \A j \in 1 .. Len(In) : j <= y => In[j][1 - p] = {} /\ In[j][p] = {c - j + 1}
    <2>1. \A j \in 1 .. Len(In) :
            j <= Behind(e, 1 - p) =>
              In[j][1 - p] = {} /\ In[j][1 - (1 - p)] = {Came(e, 1 - (1 - p)) - j + 1}
      BY <1>2 DEF Waiting
    <2>2. QED
      BY <1>1, <1>2, <2>1
  <1>10. \A j \in 1 .. Len(In) : j > y => \E k \in Nat : PairOf(e, k, In[j])
    <2> TAKE j \in 1 .. Len(In)
    <2> HAVE j > y
    <2>1. j > Behind(e, p) /\ j > Behind(e, 1 - p)
      BY <1>1, <1>2
    <2>2. j > Behind(e, 0) /\ j > Behind(e, 1)
      BY <1>2, <2>1
    <2>3. QED
      BY <2>2 DEF Waiting
  <1> HIDE DEF In
  <1>11. \A j \in 1 .. Len(Out) : j <= y + 1 => Out[j][1 - p] = {} /\ Out[j][p] = {c + 1 - j + 1}
    <2> TAKE j \in 1 .. Len(Out)
    <2> HAVE j <= y + 1
    <2>1. CASE j = 1
      <3>1. c + 1 - j + 1 = c + 1
        BY <1>1, <2>1
      <3>2. QED
        BY <1>6, <1>7, <2>1, <3>1
    <2>2. CASE j # 1
      <3>1. /\ j \in 2 .. Len(In) + 1 /\ j - 1 \in 1 .. Len(In) /\ j - 1 <= y
            /\ c + 1 - j + 1 = c - (j - 1) + 1
        BY <1>1, <1>7, <1>8, <2>2, SMTT(30)
      <3>2. Out[j] = In[j - 1]
        BY <1>7, <3>1
      <3>3. QED
        BY <1>9, <3>1, <3>2
    <2>3. QED
      BY <2>1, <2>2
  <1>12. \A j \in 1 .. Len(Out) : j > y + 1 => \E k \in Nat : PairOf(e, k, Out[j])'
    <2> TAKE j \in 1 .. Len(Out)
    <2> HAVE j > y + 1
    <2>1. j \in 2 .. Len(In) + 1 /\ j - 1 \in 1 .. Len(In) /\ j - 1 > y
      BY <1>1, <1>7, <1>8
    <2>2. PICK k \in Nat : PairOf(e, k, In[j - 1])
      BY <1>10, <2>1
    <2>3. Out[j] = In[j - 1]
      BY <1>7, <2>1
    <2>4. QED
      BY <1>3, <2>2, <2>3
  <1>13. \A r \in {0, 1} : r = p \/ r = 1 - p
    OBVIOUS
  <1>14. Waiting(e)'
    <2>1. \A r \in {0, 1} : Behind(e, r)' <= Len(Out)
      <3>1. y + 1 <= Len(Out) /\ 0 - y - 1 <= Len(Out)
        BY <1>1, <1>7, <1>8
      <3>2. QED
        BY <1>3, <1>13, <3>1
    <2>2. \A r \in {0, 1} : \A j \in 1 .. Len(Out) :
            j <= Behind(e, r)' => Out[j][r] = {} /\ Out[j][1 - r] = {Came(e, 1 - r)' - j + 1}
      <3> TAKE r \in {0, 1}
      <3> TAKE j \in 1 .. Len(Out)
      <3>1. CASE r = p
        <4>1. ~(j <= Behind(e, p)')
          BY <1>1, <1>3
        <4>2. QED
          BY <3>1, <4>1
      <3>2. CASE r = 1 - p
        <4>1. j <= y + 1 => Out[j][1 - p] = {} /\ Out[j][p] = {c + 1 - j + 1}
          BY <1>11
        <4>2. Behind(e, r)' = y + 1 /\ Came(e, 1 - r)' = c + 1 /\ 1 - r = p
          BY <1>2, <1>3, <3>2
        <4>3. Out[j][r] = Out[j][1 - p] /\ Out[j][1 - r] = Out[j][p]
          BY <3>2, <4>2
        <4>4. Came(e, 1 - r)' - j + 1 = c + 1 - j + 1 /\ (j <= Behind(e, r)' <=> j <= y + 1)
          BY <4>2
        <4>5. QED
          BY <4>1, <4>3, <4>4
      <3>3. QED
        BY <1>13, <3>1, <3>2
    <2>3. \A j \in 1 .. Len(Out) : j > Behind(e, 0)' /\ j > Behind(e, 1)' =>
            \E k \in Nat : PairOf(e, k, Out[j])'
      <3> TAKE j \in 1 .. Len(Out)
      <3> HAVE j > Behind(e, 0)' /\ j > Behind(e, 1)'
      <3>1. j > Behind(e, 1 - p)'
        BY <1>2
      <3>2. QED
        BY <1>3, <1>12, <3>1
    <2>4. QED
      BY <1>7, <2>1, <2>2, <2>3 DEF Waiting
  <1>15. QED
    BY <1>7, <1>14 DEF In

-----------------------------------------------------------------------------
(* How many values a component holds. *)

Places(q, P) == {place \in (DOMAIN q) \X P : q[place[1]][place[2]] # {}}

LEMMA PlacesFinite ==
  ASSUME NEW S, NEW q \in Seq(S), NEW P, IsFiniteSet(P)
  PROVE  IsFiniteSet(Places(q, P))
  <1> DEFINE N == 1 .. Len(q)
  <1>1. DOMAIN q = N /\ IsFiniteSet(N)
    BY FS_Interval
  <1> HIDE DEF N
  <1>2. IsFiniteSet(N \X P)
    BY <1>1, FS_Product
  <1>3. Places(q, P) \subseteq N \X P
    BY <1>1 DEF Places
  <1>4. QED
    BY <1>2, <1>3, FS_Subset

(* r is q with another set, the k-th. *)
Inserted(q, r, k) ==
  /\ Len(r) = Len(q) + 1 /\ k \in 1 .. Len(r)
  /\ \A j \in 1 .. Len(q) : q[j] = r[IF j < k THEN j ELSE j + 1]

Filled(r, k, P) == {p \in P : r[k][p] # {}}

LEMMA PlacesInserted ==
  ASSUME NEW S, NEW q \in Seq(S), NEW r \in Seq(S), NEW P, IsFiniteSet(P),
         NEW k, Inserted(q, r, k)
  PROVE  Cardinality(Places(r, P)) = Cardinality(Places(q, P)) + Cardinality(Filled(r, k, P))
  <1> DEFINE filled == {p \in P : r[k][p] # {}}
             Q == Places(q, P)
             R == Places(r, P)
             M == {k} \X filled
             move(j) == IF j < k THEN j ELSE j + 1
             f == [x \in Q |-> <<move(x[1]), x[2]>>]
  <1>1. IsFiniteSet(Q) /\ IsFiniteSet(R)
    BY PlacesFinite
  <1>2. IsFiniteSet(filled)
    BY FS_Subset
  <1>3. IsFiniteSet(M) /\ Cardinality(M) = Cardinality(filled)
    <2>1. IsFiniteSet({k}) /\ Cardinality({k}) = 1
      BY FS_Singleton
    <2>2. Cardinality(filled) \in Nat
      BY <1>2, FS_CardinalityType
    <2> HIDE DEF filled
    <2>3. IsFiniteSet({k} \X filled) /\ Cardinality({k} \X filled) = 1 * Cardinality(filled)
      BY <1>2, <2>1, FS_Product
    <2>4. QED
      BY <2>2, <2>3
  <1>4. PICK l \in Nat : l = Len(q) /\ Len(r) = l + 1 /\ k \in 1 .. l + 1
                         /\ DOMAIN q = 1 .. l /\ DOMAIN r = 1 .. l + 1
    BY DEF Inserted
  <1>5. \A j \in 1 .. l : q[j] = r[move(j)] /\ move(j) \in 1 .. l + 1 /\ move(j) # k
    BY <1>4 DEF Inserted
  <1>6. \A i, j \in 1 .. l : move(i) = move(j) => i = j
    BY <1>4
  <1>7. \A j \in 1 .. l + 1 : j # k => \E i \in 1 .. l : move(i) = j
    <2> TAKE j \in 1 .. l + 1
    <2> HAVE j # k
    <2>1. CASE j < k
      BY <1>4, <2>1
    <2>2. CASE j > k
      <3>1. j - 1 \in 1 .. l /\ move(j - 1) = j
        BY <1>4, <2>2
      <3>2. QED
        BY <3>1
    <2>3. QED
      BY <1>4, <2>1, <2>2
  <1> HIDE DEF move
  <1>8. \A x \in Q : x[1] \in 1 .. l /\ x[2] \in P /\ x = <<x[1], x[2]>> /\ q[x[1]][x[2]] # {}
    BY <1>4 DEF Places
  <1>9. \A x \in R : x[1] \in 1 .. l + 1 /\ x[2] \in P /\ x = <<x[1], x[2]>> /\ r[x[1]][x[2]] # {}
    BY <1>4 DEF Places
  <1>10. \A j \in 1 .. l + 1, p \in P : r[j][p] # {} => <<j, p>> \in R
    BY <1>4 DEF Places
  <1>11. \A j \in 1 .. l, p \in P : q[j][p] # {} => <<j, p>> \in Q
    BY <1>4 DEF Places
  <1>12. M \subseteq R
    <2>1. \A p \in filled : <<k, p>> \in R
      BY <1>4, <1>10
    <2> HIDE DEF R
    <2>2. QED
      BY <2>1
  <1>13. \A x \in R : x \in M <=> x[1] = k
    BY <1>9
  <1> HIDE DEF Q, R, M
  <1>14. f \in Bijection(Q, R \ M)
    <2>1. f \in [Q -> R \ M]
      <3> SUFFICES ASSUME NEW x \in Q PROVE <<move(x[1]), x[2]>> \in R \ M
        OBVIOUS
      <3>1. <<move(x[1]), x[2]>> \in R
        BY <1>5, <1>8, <1>10
      <3>2. QED
        BY <1>5, <1>8, <1>13, <3>1
    <2>2. \A x, y \in Q : f[x] = f[y] => x = y
      <3> TAKE x, y \in Q
      <3> HAVE f[x] = f[y]
      <3>1. move(x[1]) = move(y[1]) /\ x[2] = y[2]
        OBVIOUS
      <3>2. QED
        BY <1>6, <1>8, <3>1
    <2>3. \A z \in R \ M : \E x \in Q : f[x] = z
      <3> TAKE z \in R \ M
      <3>1. PICK i \in 1 .. l : move(i) = z[1]
        BY <1>7, <1>9, <1>13
      <3>2. <<i, z[2]>> \in Q
        BY <1>5, <1>9, <1>11, <3>1
      <3>3. f[<<i, z[2]>>] = z
        BY <1>9, <3>1, <3>2
      <3>4. QED
        BY <3>2, <3>3
    <2>4. QED
      BY <2>1, <2>2, <2>3 DEF Bijection, Injection, Surjection, IsInjective
  <1>15. IsFiniteSet(R \ M) /\ Cardinality(R \ M) = Cardinality(Q)
    BY <1>1, <1>14, FS_Bijection DEF ExistsBijection
  <1>16. Cardinality(R) = Cardinality(R \ M) + Cardinality(M)
    <2>1. PICK D : D = R \ M
      OBVIOUS
    <2>2. R = D \cup M /\ D \cap M = {}
      BY <1>12, <2>1
    <2>3. IsFiniteSet(D) /\ Cardinality(D) \in Nat /\ Cardinality(M) \in Nat
      BY <1>3, <1>15, <2>1, FS_CardinalityType
    <2>4. Cardinality(D \cup M) = Cardinality(D) + Cardinality(M) - 0
      BY <1>3, <2>2, <2>3, FS_Union, FS_EmptySet
    <2>5. Cardinality(R) = Cardinality(D \cup M)
      BY <2>2
    <2>6. Cardinality(D \cup M) = Cardinality(D) + Cardinality(M)
      BY <2>3, <2>4
    <2>7. QED
      BY <2>1, <2>5, <2>6
  <1>17. QED
    BY <1>3, <1>15, <1>16 DEF Q, R, Filled

(* A set gets another value. *)
LEMMA PlacesFilled ==
  ASSUME NEW S, NEW q \in Seq(S), NEW r \in Seq(S), NEW P, IsFiniteSet(P),
         Len(r) = Len(q), NEW k \in 1 .. Len(q), NEW p \in P,
         q[k][p] = {}, r[k][p] # {},
         \A j \in 1 .. Len(q), o \in P : <<j, o>> # <<k, p>> => r[j][o] = q[j][o]
  PROVE  Cardinality(Places(r, P)) = Cardinality(Places(q, P)) + 1
  <1>1. IsFiniteSet(Places(q, P))
    BY PlacesFinite
  <1>2. DOMAIN q = 1 .. Len(q) /\ DOMAIN r = 1 .. Len(q)
    OBVIOUS
  <1>3. Places(r, P) = Places(q, P) \cup {<<k, p>>}
    <2>1. \A j \in 1 .. Len(q), o \in P :
            r[j][o] # {} <=> (q[j][o] # {} \/ <<j, o>> = <<k, p>>)
      OBVIOUS
    <2>2. \A x \in (1 .. Len(q)) \X P :
            r[x[1]][x[2]] # {} <=> (q[x[1]][x[2]] # {} \/ x = <<k, p>>)
      BY <2>1
    <2>3. <<k, p>> \in (1 .. Len(q)) \X P
      OBVIOUS
    <2>4. QED
      BY <1>2, <2>2, <2>3 DEF Places
  <1>4. <<k, p>> \notin Places(q, P)
    BY DEF Places
  <1>5. QED
    BY <1>1, <1>3, <1>4, FS_AddElement

-----------------------------------------------------------------------------
(* What is known of every element, whatever is going on. *)

LEMMA SetsOfElements ==
  ASSUME Calls, NEW e \in Elts
  PROVE  /\ \E n : AdderSets(e, n)
         /\ \E m : ConsumerSets(e, m)
  <1>1. \A d : Resting(d) => AdderSets(d, 0) /\ ConsumerSets(d, 0)
    BY DEF Resting, AdderAt, ConsumerAt
  <1>2. \A d, rest : ConsumerCall(d, rest) => ConsumerSets(d, 0)
    BY DEF ConsumerCall, ConsumerAt
  <1>3. \A d : Acting(d) => (\E n : AdderSets(d, n)) /\ ConsumerSets(d, 0)
    BY <1>2 DEF Acting, AdderAt
  <1>4. \A d : FlushingOutbox(d) => AdderSets(d, 0) /\ ConsumerSets(d, 0)
    BY <1>2 DEF FlushingOutbox, AdderAt
  <1>5. \A d : AdderLoop(d) => AdderSets(d, 0) /\ ConsumerSets(d, 0)
    BY DEF AdderLoop, AdderAt, ConsumerAt
  <1>6. \A d : ConsumerLoop(d) => AdderSets(d, 0) /\ \E m : ConsumerSets(d, m)
    BY DEF ConsumerLoop, AdderAt, ConsumerAt
  <1>7. \A d : Busy(d) => (\E n : AdderSets(d, n)) /\ (\E m : ConsumerSets(d, m))
    BY <1>1, <1>3, <1>4, <1>5, <1>6 DEF Busy, Relaying, Accepting
  <1>8. QED
    BY <1>1, <1>7 DEF Calls

(* What quiescence detection is told of a component that is called. *)
Reported(c) ==
  /\ DOMAIN incoming' = Coms
  /\ \A d \in Coms \ {c} : incoming'[d] = incoming[d]
  /\ qd' - qd = Cardinality(HeldBy(c)') - Cardinality(HeldBy(c))

LEMMA HeldByPlaces ==
  /\ \A c \in Coms : HeldBy(c) = Places(incoming[c], Ports(c))
  /\ \A c \in Coms : HeldBy(c)' = Places(incoming'[c], Ports(c))
  /\ \A c \in Coms : IsFiniteSet(Ports(c))
  <1>1. \A c \in Coms : HeldBy(c) = Places(incoming[c], Ports(c))
    BY DEF HeldBy, Places, NoValue
  <1>2. \A c \in Coms : HeldBy(c)' = Places(incoming'[c], Ports(c))
    BY DEF HeldBy, Places, NoValue
  <1>3. \A c \in Coms : IsFiniteSet(Ports(c))
    <2>1. \A e \in Elts : Ports(Adder(e)) = {0} \cup {1} /\ Ports(Consumer(e)) = {0}
      BY ElementFacts
    <2>2. IsFiniteSet({0}) /\ IsFiniteSet({0} \cup {1})
      BY FS_Singleton, FS_Union
    <2>3. {0} \cup {1} = {0, 1}
      OBVIOUS
    <2>4. TAKE c \in Coms
    <2>5. PICK e \in Elts : c = Adder(e) \/ c = Consumer(e)
      BY ElementFacts
    <2>6. QED
      BY <2>1, <2>2, <2>5
  <1>4. QED
    BY <1>1, <1>2, <1>3

FiniteHeld ==
  Calls => \A c \in Coms : IsFiniteSet(HeldBy(c)) /\ Cardinality(HeldBy(c)) \in Nat

LEMMA HeldIsFinite == FiniteHeld
  <1> SUFFICES ASSUME Calls, NEW c \in Coms
               PROVE  IsFiniteSet(HeldBy(c)) /\ Cardinality(HeldBy(c)) \in Nat
    BY DEF FiniteHeld
  <1>1. PICK e \in Elts : c = Adder(e) \/ c = Consumer(e)
    BY ElementFacts
  <1>2. PICK n, m : AdderSets(e, n) /\ ConsumerSets(e, m)
    BY SetsOfElements
  <1>3. incoming[c] \in Seq(Pairs) \/ incoming[c] \in Seq(Singles)
    BY <1>1, <1>2 DEF AdderSets, Waiting, ConsumerSets
  <1>4. IsFiniteSet(Places(incoming[c], Ports(c)))
    BY <1>3, HeldByPlaces, PlacesFinite
  <1>5. QED
    BY <1>4, HeldByPlaces, FS_CardinalityType

LEMMA CountedStep ==
  ASSUME Calls, Calls', Counted, qd \in Int, qd' \in Int, DOMAIN incoming = Coms,
         NEW c \in Coms, Reported(c)
  PROVE  Counted'
  <1> DEFINE Of(d) == {d} \X HeldBy(d)
             F == [d \in Coms \ {c} |-> Of(d)]
             R == {F[d] : d \in Coms \ {c}}
             Rest == UNION R
  <1>1. \A d \in Coms : /\ IsFiniteSet(HeldBy(d)) /\ Cardinality(HeldBy(d)) \in Nat
                        /\ IsFiniteSet(Of(d)) /\ Cardinality(Of(d)) = Cardinality(HeldBy(d))
    <2> TAKE d \in Coms
    <2>1. IsFiniteSet(HeldBy(d)) /\ Cardinality(HeldBy(d)) \in Nat
      BY HeldIsFinite DEF FiniteHeld
    <2>2. IsFiniteSet({d}) /\ Cardinality({d}) = 1
      BY FS_Singleton
    <2>3. IsFiniteSet(Of(d)) /\ Cardinality(Of(d)) = 1 * Cardinality(HeldBy(d))
      BY <2>1, <2>2, FS_Product
    <2>4. QED
      BY <2>1, <2>3
  <1>2. PICK H : H = HeldBy(c)'
    OBVIOUS
  <1>3. /\ IsFiniteSet(H) /\ Cardinality(H) \in Nat
        /\ IsFiniteSet({c} \X H) /\ Cardinality({c} \X H) = Cardinality(H)
    <2>0. FiniteHeld'
      BY HeldIsFinite, PTL
    <2>1. IsFiniteSet(HeldBy(c)') /\ Cardinality(HeldBy(c)') \in Nat
      BY <2>0 DEF FiniteHeld
    <2>2. IsFiniteSet({c}) /\ Cardinality({c}) = 1
      BY FS_Singleton
    <2>3. IsFiniteSet(H) /\ Cardinality(H) \in Nat
      BY <1>2, <2>1
    <2>4. IsFiniteSet({c} \X H) /\ Cardinality({c} \X H) = 1 * Cardinality(H)
      BY <2>2, <2>3, FS_Product
    <2>5. QED
      BY <2>3, <2>4
  <1>4. IsFiniteSet(Rest)
    <2>1. IsFiniteSet(Coms \ {c})
      BY ComponentAssumption, FS_Difference
    <2>2. F \in Surjection(Coms \ {c}, R)
      BY DEF Surjection
    <2>3. IsFiniteSet(R)
      <3> HIDE DEF F, R
      <3>1. QED
        BY <2>1, <2>2, FS_Surjection
    <2>4. \A T \in R : IsFiniteSet(T)
      BY <1>1
    <2> HIDE DEF R
    <2>5. QED
      BY <2>3, <2>4, FS_UNION
  <1>5. Held = Rest \cup Of(c) /\ Rest \cap Of(c) = {}
    <2>1. Held = Rest \cup Of(c)
      BY DEF Held
    <2>2. Rest \cap Of(c) = {}
      OBVIOUS
    <2>3. QED
      BY <2>1, <2>2
  <1>6. Held' = Rest \cup ({c} \X H) /\ Rest \cap ({c} \X H) = {}
    <2>1. \A d \in Coms \ {c} : HeldBy(d)' = HeldBy(d)
      BY HeldByPlaces DEF Reported
    <2>2. Held' = UNION {{d} \X HeldBy(d)' : d \in Coms}
      BY DEF Held
    <2>3. UNION {{d} \X HeldBy(d)' : d \in Coms} = Rest \cup ({c} \X H)
      BY <1>2, <2>1
    <2>4. Rest \cap ({c} \X H) = {}
      OBVIOUS
    <2>5. QED
      BY <2>2, <2>3, <2>4
  <1>7. \A T : IsFiniteSet(T) /\ Rest \cap T = {} =>
          Cardinality(Rest \cup T) = Cardinality(Rest) + Cardinality(T) - 0
    <2> HIDE DEF Rest
    <2>1. QED
      BY <1>4, FS_Union, FS_EmptySet
  <1>8. Cardinality(Rest) \in Nat
    BY <1>4, FS_CardinalityType
  <1> HIDE DEF Rest, Of
  <1>9. PICK x \in Nat, y \in Nat, z \in Nat :
          x = Cardinality(Rest) /\ y = Cardinality(HeldBy(c)) /\ z = Cardinality(H)
    BY <1>1, <1>3, <1>8
  <1>10. Cardinality(Held) = x + y - 0
    BY <1>1, <1>5, <1>7, <1>9
  <1>11. Cardinality(Held') = x + z - 0
    BY <1>3, <1>6, <1>7, <1>9
  <1>12. qd' - qd = z - y
    BY <1>2, <1>9 DEF Reported
  <1>13. QED
    BY <1>9, <1>10, <1>11, <1>12 DEF Counted

-----------------------------------------------------------------------------
(* A step of a call changes what belongs to the component called, only. *)

Only(c) ==
  /\ persistent' = persistent
  /\ \A d \in Coms \ {c} :
       /\ incoming'[d] = incoming[d] /\ outbox'[d] = outbox[d] /\ acted'[d] = acted[d]
       /\ arrived'[d] = arrived[d] /\ activations'[d] = activations[d]
       /\ d \in active' <=> d \in active
       /\ d \in connected' <=> d \in connected

LEMMA StageOnly ==
  ASSUME Typed, NEW c \in Coms, NEW set, NEW at, NEW rest, StageAction(c, set, at, rest)
  PROVE  /\ DOMAIN acted' = Coms /\ DOMAIN outbox' = Coms
         /\ \A d \in Coms \ {c} : acted'[d] = acted[d] /\ outbox'[d] = outbox[d]
  BY DEF Typed, StageAction

LEMMA CallOnly ==
  ASSUME Typed, Call, UNCHANGED exVars, NEW c \in Coms, Head(stack).com = c
  PROVE  /\ Typed' /\ Only(c) /\ connected' = connected /\ activations' = activations
         /\ c \in persistent => active' = active
  <1>1. NIn[c] \in Nat
    BY ComponentAssumption
  <1>2. PICK f : f = Head(stack) /\ f.com = c
    OBVIOUS
  <1>3. UNCHANGED <<exchanging, constructed, net>>
    BY DEF exVars
  <1>4. ASSUME Accept
        PROVE  Typed' /\ Only(c) /\ connected' = connected /\ activations' = activations
               /\ active' = active
    <2>1. /\ arrived' = [arrived EXCEPT ![c][f.port] = Append(@, f.val)]
          /\ UNCHANGED <<persistent, active, connected, activations>>
      BY <1>2, <1>4 DEF Accept
    <2>2. DOMAIN arrived' = Coms /\ \A d \in Coms \ {c} : arrived'[d] = arrived[d]
      BY <2>1 DEF Typed
    <2>3. /\ DOMAIN incoming' = Coms /\ DOMAIN outbox' = Coms /\ DOMAIN acted' = Coms
          /\ qd' \in Int
          /\ \A d \in Coms \ {c} :
               incoming'[d] = incoming[d] /\ outbox'[d] = outbox[d] /\ acted'[d] = acted[d]
      <3>1. CASE NIn[c] = 1
        <4>1. DirectStage(f)
          BY <1>2, <1>4, <3>1 DEF Accept
        <4>2. PICK set : set = [p \in Ports(c) |-> f.val]
          OBVIOUS
        <4>3. CASE c \in active
          <5>1. StageAction(c, set, 0, Tail(stack)) /\ UNCHANGED <<incoming, qd>>
            BY <1>2, <4>1, <4>2, <4>3 DEF DirectStage
          <5>2. QED
            BY <5>1, StageOnly DEF Typed
        <4>4. CASE c \notin active
          <5>1. /\ incoming' = [incoming EXCEPT ![c] = <<set>> \o @]
                /\ qd' = qd + NIn[c] /\ UNCHANGED <<outbox, acted>>
            BY <1>2, <4>1, <4>2, <4>4 DEF DirectStage
          <5>2. QED
            BY <1>1, <5>1 DEF Typed
        <4>5. QED
          BY <4>3, <4>4
      <3>2. CASE NIn[c] # 1
        <4>1. AcceptInto(f)
          BY <1>2, <1>4, <3>2 DEF Accept
        <4> DEFINE gap == FindGap(c, f.port)
                   new == [p \in Ports(c) |-> NoValue]
                   sets == IF gap = 0 THEN <<new>> \o incoming[c] ELSE incoming[c]
                   at == IF gap = 0 THEN 1 ELSE gap
                   set == [sets[at] EXCEPT ![f.port] = f.val]
        <4>2. /\ incoming' = [incoming EXCEPT ![c] = [sets EXCEPT ![at] = set]]
              /\ qd' = qd + 1
              /\ StageAction(c, set, at, Tail(stack)) \/ UNCHANGED <<outbox, acted>>
          BY <1>2, <4>1 DEF AcceptInto
        <4> HIDE DEF sets, at, set
        <4>3. CASE StageAction(c, set, at, Tail(stack))
          BY <4>2, <4>3, StageOnly DEF Typed
        <4>4. CASE UNCHANGED <<outbox, acted>>
          BY <4>2, <4>4 DEF Typed
        <4>5. QED
          BY <4>2, <4>3, <4>4
      <3>3. QED
        BY <3>1, <3>2
    <2>4. QED
      BY <1>3, <2>1, <2>2, <2>3 DEF Typed, Only
  <1>5. ASSUME FinishStage
        PROVE  Typed' /\ Only(c) /\ connected' = connected /\ activations' = activations
               /\ (c \in persistent => active' = active)
    <2>1. /\ active' = IF c \in persistent THEN active ELSE active \ {c}
          /\ UNCHANGED <<persistent, outbox, connected, arrived, acted, activations>>
      BY <1>2, <1>5 DEF FinishStage
    <2>2. DOMAIN incoming' = Coms /\ qd' \in Int
          /\ \A d \in Coms \ {c} : incoming'[d] = incoming[d]
      <3>1. CASE f.at = 0
        BY <1>2, <1>5, <3>1 DEF FinishStage, Typed
      <3>2. CASE f.at # 0
        <4>1. incoming' = [incoming EXCEPT ![c] = RemoveAt(@, f.at)] /\ qd' = qd - NIn[c]
          BY <1>2, <1>5, <3>2 DEF FinishStage, Processed
        <4>2. QED
          BY <1>1, <4>1 DEF Typed
      <3>3. QED
        BY <3>1, <3>2
    <2>3. QED
      BY <1>3, <2>1, <2>2 DEF Typed, Only
  <1>6. ASSUME ActivateLoop
        PROVE  Typed' /\ Only(c) /\ connected' = connected /\ activations' = activations
               /\ active' = active
    <2>1. UNCHANGED <<persistent, active, incoming, connected, qd, arrived, activations>>
      BY <1>6 DEF ActivateLoop
    <2>2. /\ DOMAIN outbox' = Coms /\ DOMAIN acted' = Coms
          /\ \A d \in Coms \ {c} : outbox'[d] = outbox[d] /\ acted'[d] = acted[d]
      <3>1. PICK at, set, rest : StageAction(c, set, at, rest) \/ UNCHANGED <<outbox, acted>>
        BY <1>2, <1>6 DEF ActivateLoop
      <3>2. QED
        BY <3>1, StageOnly DEF Typed
    <2>3. QED
      BY <1>3, <2>1, <2>2 DEF Typed, Only
  <1>7. ASSUME TryFlush
        PROVE  Typed' /\ Only(c) /\ connected' = connected /\ activations' = activations
               /\ active' = active
    <2>1. UNCHANGED <<persistent, active, incoming, connected, qd, arrived, acted, activations>>
      BY <1>7 DEF TryFlush
    <2>2. outbox' = [outbox EXCEPT ![c] = Tail(@)] \/ outbox' = outbox
      BY <1>2, <1>7 DEF TryFlush
    <2>3. DOMAIN outbox' = Coms /\ \A d \in Coms \ {c} : outbox'[d] = outbox[d]
      BY <2>2 DEF Typed
    <2>4. QED
      BY <1>3, <2>1, <2>3 DEF Typed, Only
  <1>8. QED
    BY <1>4, <1>5, <1>6, <1>7 DEF Call

LEMMA OnlyFacts ==
  ASSUME NEW e \in Elts
  PROVE  /\ Only(Adder(e)) => SameConsumer(e)
         /\ Only(Consumer(e)) => SameAdder(e) /\ SameOutbox(e)
         /\ Only(Adder(e)) \/ Only(Consumer(e)) => OnlyElement(e)
  <1>1. \A d \in Elts : Adder(d) \in Coms /\ Consumer(d) \in Coms /\ Adder(d) # Consumer(e)
                        /\ Adder(e) # Consumer(d)
                        /\ (d # e => Adder(d) # Adder(e) /\ Consumer(d) # Consumer(e))
    BY ElementFacts
  <1>2. Only(Adder(e)) => SameConsumer(e)
    BY <1>1 DEF Only, SameConsumer
  <1>3. Only(Consumer(e)) => SameAdder(e) /\ SameOutbox(e)
    BY <1>1 DEF Only, SameAdder, SameOutbox
  <1>4. ASSUME NEW c \in {Adder(e), Consumer(e)}, Only(c)
        PROVE  OnlyElement(e)
    <2>1. SUFFICES ASSUME NEW d \in Elts \ {e}
                   PROVE  SameAdder(d) /\ SameConsumer(d) /\ SameOutbox(d)
      BY DEF OnlyElement
    <2>2. Adder(d) \in Coms \ {c} /\ Consumer(d) \in Coms \ {c}
      BY <1>1
    <2>3. QED
      BY <1>4, <2>2 DEF Only, SameAdder, SameConsumer, SameOutbox
  <1>5. QED
    BY <1>2, <1>3, <1>4

(* Nothing is reported of a component when the sets stay. *)
LEMMA NothingReported ==
  ASSUME Typed, Calls, NEW c \in Coms, UNCHANGED <<incoming, qd>>
  PROVE  Reported(c)
  <1>1. HeldBy(c)' = HeldBy(c)
    BY DEF HeldBy
  <1>2. Cardinality(HeldBy(c)) \in Nat
    BY HeldIsFinite DEF FiniteHeld
  <1>3. qd' - qd = 0
    BY DEF Typed
  <1>4. PICK x \in Nat : x = Cardinality(HeldBy(c))
    BY <1>2
  <1>5. Cardinality(HeldBy(c)') - Cardinality(HeldBy(c)) = 0
    BY <1>1, <1>4
  <1>6. QED
    BY <1>3, <1>5 DEF Reported, Typed

-----------------------------------------------------------------------------
(* The consumer is called by the adder. *)

Above(rest) == \E g, h : rest = <<g>> \/ rest = <<g, h>>

LEMMA CallAbove ==
  ASSUME NEW rest, Above(rest), NEW f
  PROVE  Head(<<f>> \o rest) = f /\ Tail(<<f>> \o rest) = rest /\ <<f>> \o rest # << >>
  BY StackFacts DEF Above

LEMMA SingleSet ==
  ASSUME NEW val \in SUBSET Nat
  PROVE  [p \in {0} |-> val] \in Singles /\ [p \in {0} |-> val][0] = val
  BY DEF Singles

(* A consumer that is not acting on a set it holds. *)
LEMMA ConsumerCounts ==
  ASSUME NEW e, ConsumerSets(e, 0)
  PROVE  LET c == Consumer(e)
         IN  /\ incoming[c] \in Seq(Singles) /\ acted[c] \in Seq(Singles)
             /\ arrived[c] \in [{0} -> Seq(SUBSET Nat)]
             /\ \A j \in 1 .. Len(incoming[c]) : incoming[c][j][0] # {}
             /\ Len(arrived[c][0]) = Len(acted[c]) + Len(incoming[c])
  <1> DEFINE c == Consumer(e)
  <1>1. incoming[c] \in Seq(Singles) /\ acted[c] \in Seq(Singles)
    BY DEF ConsumerSets
  <1>2. Len(incoming[c]) \in Nat /\ Len(acted[c]) \in Nat
    BY <1>1
  <1>3. Len(arrived[c][0]) = Len(acted[c]) + Len(incoming[c]) - 0
    BY DEF ConsumerSets
  <1>4. Len(arrived[c][0]) = Len(acted[c]) + Len(incoming[c])
    BY <1>2, <1>3
  <1>5. QED
    BY <1>1, <1>4 DEF ConsumerSets

LEMMA ConsumerCounted ==
  ASSUME NEW e,
         LET c == Consumer(e)
         IN  /\ incoming'[c] \in Seq(Singles) /\ acted'[c] \in Seq(Singles)
             /\ arrived'[c] \in [{0} -> Seq(SUBSET Nat)]
             /\ \A j \in 1 .. Len(incoming'[c]) : incoming'[c][j][0] # {}
             /\ Len(arrived'[c][0]) = Len(acted'[c]) + Len(incoming'[c])
  PROVE  ConsumerSets(e, 0)'
  <1> DEFINE c == Consumer(e)
  <1>1. Len(incoming'[c]) \in Nat /\ Len(acted'[c]) \in Nat
    OBVIOUS
  <1>2. Len(arrived'[c][0]) = Len(acted'[c]) + Len(incoming'[c]) - 0
    BY <1>1
  <1>3. 0 \in 0 .. Len(incoming'[c])
    BY <1>1
  <1>4. QED
    BY <1>2, <1>3 DEF ConsumerSets

(* The consumer gets a value: what it has accepted. *)
Received(e, val) ==
  arrived'[Consumer(e)] = [arrived[Consumer(e)] EXCEPT ![0] = Append(@, val)]

LEMMA ReceivedFacts ==
  ASSUME NEW e, arrived[Consumer(e)] \in [{0} -> Seq(SUBSET Nat)],
         NEW val \in SUBSET Nat, Received(e, val)
  PROVE  /\ arrived'[Consumer(e)] \in [{0} -> Seq(SUBSET Nat)]
         /\ arrived'[Consumer(e)][0] = Append(arrived[Consumer(e)][0], val)
         /\ Len(arrived'[Consumer(e)][0]) = Len(arrived[Consumer(e)][0]) + 1
  <1>1. arrived[Consumer(e)][0] \in Seq(SUBSET Nat)
    OBVIOUS
  <1>2. PICK r \in Seq(SUBSET Nat) : r = Append(arrived[Consumer(e)][0], val)
    BY <1>1, AppendFacts
  <1>3. Len(r) = Len(arrived[Consumer(e)][0]) + 1
    BY <1>1, <1>2, AppendFacts
  <1>4. arrived'[Consumer(e)] = [arrived[Consumer(e)] EXCEPT ![0] = r]
    BY <1>2 DEF Received
  <1>5. QED
    BY <1>2, <1>3, <1>4

(* The result on the way arrives. *)
LEMMA RelayedArrives ==
  ASSUME NEW e \in Elts, NEW val \in SUBSET Nat, Relayed(e, <<val>>), Received(e, val),
         arrived[Consumer(e)] \in [{0} -> Seq(SUBSET Nat)],
         SameAdder(e), SameOutbox(e)
  PROVE  Relayed(e, << >>)'
  <1>1. Given(e, << >>)' = Given(e, <<val>>)
    <2>1. PICK S, a, b : /\ a \in Seq(S) /\ b \in Seq(S) /\ val \in S
                         /\ a = arrived[Consumer(e)][0] /\ b = outbox[Adder(e)]
      <3>1. arrived[Consumer(e)][0] \in Seq(SUBSET Nat) /\ outbox[Adder(e)] \in Seq(SUBSET Nat)
        BY DEF Relayed
      <3>2. QED
        BY <3>1
    <2>2. a \in Seq(S) /\ b \in Seq(S) /\ val \in S
      BY <2>1
    <2>3. PICK q, r : Rests(q, a, b) /\ Carries(r, a, val, b)
      BY DEF Rests, Carries
    <2>4. Rests(r, Append(a, val), b)
      BY <2>2, <2>3, OnTheWay
    <2>5. arrived'[Consumer(e)][0] = Append(a, val) /\ outbox'[Adder(e)] = b
      BY <2>1, ReceivedFacts DEF SameOutbox
    <2>6. QED
      BY <2>1, <2>3, <2>4, <2>5 DEF Given, Rests, Carries
  <1>2. Results(Adder(e))' = Results(Adder(e))
    BY DEF SameAdder, Results
  <1>3. QED
    BY <1>1, <1>2 DEF Relayed, SameAdder, SameOutbox

(* The consumer accepts a value. *)
LEMMA ConsumerAccepts ==
  ASSUME NEW e \in Elts, Typed, Calls, NEW rest, Above(rest), NEW val \in Values,
         stack = <<AcceptBy(Consumer(e), 0, val)>> \o rest,
         ConsumerIdle(e), ConsumerAt(e, 0, FALSE), Relayed(e, <<val>>),
         Accept, Only(Consumer(e))
  PROVE  ConsumerCall(e, rest)' /\ Reported(Consumer(e))
  <1> DEFINE c == Consumer(e)
  <1>1. PICK f : f = Head(stack) /\ f.com = c /\ f.port = 0 /\ f.val = val /\ Tail(stack) = rest
    BY CallAbove, FrameFacts
  <1>2. c \in Coms /\ NIn[c] = 1 /\ Ports(c) = {0} /\ c \notin connected
    BY ElementFacts DEF Typed
  <1>3. val \in SUBSET Nat /\ val # {}
    BY DEF Values
  <1>4. PICK set \in Singles : set = [p \in Ports(c) |-> val] /\ set[0] = val
    BY <1>2, <1>3, SingleSet
  <1>5. Received(e, val) /\ UNCHANGED <<persistent, active, connected, activations>>
    <2>1. /\ arrived' = [arrived EXCEPT ![c][0] = Append(@, val)]
          /\ UNCHANGED <<persistent, active, connected, activations>>
      BY <1>1 DEF Accept
    <2>2. QED
      BY <1>2, <2>1 DEF Typed, Received
  <1>6. DirectStage(f)
    BY <1>1, <1>2 DEF Accept
  <1>7. /\ incoming[c] \in Seq(Singles) /\ acted[c] \in Seq(Singles)
        /\ arrived[c] \in [{0} -> Seq(SUBSET Nat)]
        /\ \A j \in 1 .. Len(incoming[c]) : incoming[c][j][0] # {}
        /\ Len(arrived[c][0]) = Len(acted[c]) + Len(incoming[c])
    BY ConsumerCounts DEF ConsumerAt
  <1>8. /\ arrived'[c] \in [{0} -> Seq(SUBSET Nat)]
        /\ Len(arrived'[c][0]) = Len(arrived[c][0]) + 1
    BY <1>3, <1>5, <1>7, ReceivedFacts
  <1>9. SameAdder(e) /\ SameOutbox(e) /\ Relayed(e, << >>)'
    BY <1>3, <1>5, <1>7, OnlyFacts, RelayedArrives
  <1>10. ActsOnce(c, FALSE)
    BY DEF ConsumerAt
  <1>11. Len(acted[c]) \in Nat /\ Len(incoming[c]) \in Nat /\ activations[c] \in Nat
    BY <1>2, <1>7 DEF Typed
  <1>12. CASE c \in active
    <2>1. /\ acted' = [acted EXCEPT ![c] = Append(@, set)]
          /\ stack' = <<Staged(c, 0)>> \o rest
          /\ UNCHANGED <<incoming, qd>>
      BY <1>1, <1>2, <1>4, <1>6, <1>12 DEF DirectStage, StageAction
    <2>2. acted'[c] \in Seq(Singles) /\ Len(acted'[c]) = Len(acted[c]) + 1
      BY <1>2, <1>7, <2>1, AppendFacts DEF Typed
    <2>3. ConsumerSets(e, 0)'
      <3>1. Len(arrived'[c][0]) = Len(acted'[c]) + Len(incoming'[c])
        <4>1. PICK x \in Nat, y \in Nat : x = Len(acted[c]) /\ y = Len(incoming[c])
          BY <1>11
        <4>2. (x + y) + 1 = (x + 1) + y
          OBVIOUS
        <4>3. QED
          BY <1>7, <1>8, <2>1, <2>2, <4>1, <4>2
      <3>2. incoming'[c] = incoming[c]
        BY <2>1
      <3>3. QED
        BY <1>7, <1>8, <2>2, <3>1, <3>2, ConsumerCounted
    <2>4. ActsOnce(c, TRUE)'
      BY <1>5, <1>10, <1>11, <1>12, <2>2 DEF ActsOnce
    <2>5. ConsumerIdle(e)'
      BY <1>5, <2>1 DEF ConsumerIdle
    <2>6. Reported(c)
      BY <1>2, <2>1, NothingReported
    <2>7. QED
      BY <1>9, <2>1, <2>3, <2>4, <2>5, <2>6 DEF ConsumerCall, ConsumerAt
  <1>13. CASE c \notin active
    <2>1. /\ incoming' = [incoming EXCEPT ![c] = <<set>> \o @]
          /\ qd' = qd + 1 /\ stack' = rest /\ UNCHANGED <<outbox, acted>>
      BY <1>1, <1>2, <1>4, <1>6, <1>13 DEF DirectStage
    <2>2. PICK In \in Seq(Singles) : In = incoming[c]
      BY <1>7
    <2>3. PICK Out : Out = <<set>> \o In
      OBVIOUS
    <2>4. /\ Out \in Seq(Singles) /\ Len(Out) = Len(In) + 1 /\ Out[1] = set
          /\ \A j \in 2 .. Len(In) + 1 : Out[j] = In[j - 1]
      BY <2>3, Prepend
    <2>5. incoming'[c] = Out
      BY <1>2, <2>1, <2>2, <2>3 DEF Typed
    <2>6. Inserted(In, Out, 1)
      <3>1. \A j \in 1 .. Len(In) : In[j] = Out[j + 1] /\ ~(j < 1)
        <4> TAKE j \in 1 .. Len(In)
        <4>1. j + 1 \in 2 .. Len(In) + 1 /\ (j + 1) - 1 = j
          OBVIOUS
        <4>2. QED
          BY <2>4, <4>1
      <3>2. 1 \in 1 .. Len(Out)
        BY <2>4
      <3>3. QED
        BY <2>4, <3>1, <3>2 DEF Inserted
    <2>7. \A j \in 1 .. Len(Out) : Out[j][0] # {}
      <3> TAKE j \in 1 .. Len(Out)
      <3>1. CASE j = 1
        BY <1>3, <1>4, <2>4, <3>1
      <3>2. CASE j # 1
        <4>1. j \in 2 .. Len(In) + 1 /\ j - 1 \in 1 .. Len(In)
          BY <2>4, <3>2
        <4>2. QED
          BY <1>7, <2>2, <2>4, <4>1
      <3>3. QED
        BY <3>1, <3>2
    <2>8. ConsumerSets(e, 0)'
      <3>1. Len(arrived'[c][0]) = Len(acted'[c]) + Len(Out)
        <4>1. PICK x \in Nat, y \in Nat : x = Len(acted[c]) /\ y = Len(incoming[c])
          BY <1>11
        <4>2. (x + y) + 1 = x + (y + 1)
          OBVIOUS
        <4>3. QED
          BY <1>7, <1>8, <2>1, <2>2, <2>4, <4>1, <4>2
      <3>2. QED
        BY <1>7, <1>8, <2>1, <2>4, <2>5, <2>7, <3>1, ConsumerCounted
    <2>9. ActsOnce(c, FALSE)'
      BY <1>5, <1>10, <1>13, <2>1 DEF ActsOnce
    <2>10. ConsumerIdle(e)'
      BY <1>5, <1>13 DEF ConsumerIdle
    <2>11. Reported(c)
      <3>1. Filled(Out, 1, {0}) = {0}
        BY <1>3, <1>4, <2>4 DEF Filled
      <3>2. IsFiniteSet({0}) /\ Cardinality({0}) = 1
        BY FS_Singleton
      <3>3. Cardinality(Places(Out, {0})) = Cardinality(Places(In, {0})) + 1
        <4>1. Cardinality(Places(Out, {0}))
                = Cardinality(Places(In, {0})) + Cardinality(Filled(Out, 1, {0}))
          BY <2>2, <2>4, <2>6, <3>2, PlacesInserted
        <4>2. QED
          BY <3>1, <3>2, <4>1
      <3>4. HeldBy(c) = Places(In, {0}) /\ HeldBy(c)' = Places(Out, {0})
        BY <1>2, <2>2, <2>5, HeldByPlaces
      <3>5. Cardinality(HeldBy(c)) \in Nat
        BY <1>2, HeldIsFinite DEF FiniteHeld
      <3>6. Cardinality(HeldBy(c)') - Cardinality(HeldBy(c)) = 1
        BY <3>3, <3>4, <3>5
      <3>7. qd' - qd = 1
        BY <2>1 DEF Typed
      <3>8. DOMAIN incoming' = Coms /\ \A d \in Coms \ {c} : incoming'[d] = incoming[d]
        BY <2>1 DEF Typed
      <3>9. QED
        BY <3>6, <3>7, <3>8 DEF Reported
    <2>12. QED
      BY <1>9, <2>1, <2>8, <2>9, <2>10, <2>11 DEF ConsumerCall, ConsumerAt
  <1>14. QED
    BY <1>12, <1>13

(* The consumer has acted on its own value. *)
LEMMA ConsumerFinishes ==
  ASSUME NEW e \in Elts, Typed, Calls, NEW rest, Above(rest),
         stack = <<Staged(Consumer(e), 0)>> \o rest,
         ConsumerIdle(e), ConsumerAt(e, 0, TRUE), Relayed(e, << >>),
         FinishStage, Only(Consumer(e))
  PROVE  ConsumerCall(e, rest)' /\ Reported(Consumer(e))
  <1> DEFINE c == Consumer(e)
  <1>1. PICK f : f = Head(stack) /\ f.com = c /\ f.at = 0 /\ Tail(stack) = rest
    BY CallAbove, FrameFacts
  <1>2. /\ active' = IF c \in persistent THEN active ELSE active \ {c}
        /\ UNCHANGED <<incoming, qd, persistent, outbox, connected, arrived, acted, activations>>
        /\ stack' = rest
    BY <1>1 DEF FinishStage
  <1>3. ConsumerSets(e, 0)'
    BY <1>2 DEF ConsumerAt, ConsumerSets
  <1>4. ActsOnce(c, FALSE)'
    <2>1. ActsOnce(c, TRUE)
      BY DEF ConsumerAt
    <2>2. QED
      BY <1>2, <2>1 DEF ActsOnce
  <1>5. ConsumerIdle(e)'
    BY <1>2 DEF ConsumerIdle
  <1>6. SameAdder(e) /\ SameOutbox(e)
    BY OnlyFacts
  <1>7. Relayed(e, << >>)'
    BY <1>2 DEF Relayed, Given, Results
  <1>8. c \in Coms
    BY ElementFacts
  <1>9. Reported(c)
    BY <1>2, <1>8, NothingReported
  <1>10. QED
    BY <1>2, <1>3, <1>4, <1>5, <1>7, <1>9 DEF ConsumerCall, ConsumerAt

LEMMA ConsumerCallStep ==
  ASSUME NEW e \in Elts, Typed, Calls, NEW rest, Above(rest), ConsumerCall(e, rest),
         stack # rest, Call, UNCHANGED exVars
  PROVE  /\ ConsumerCall(e, rest)' /\ Reported(Consumer(e))
         /\ Typed' /\ Only(Consumer(e)) /\ connected' = connected
         /\ (Consumer(e) \in persistent => active' = active)
  <1>1. Consumer(e) \in Coms
    BY ElementFacts
  <1>2. CASE \E val \in Values :
               /\ stack = <<AcceptBy(Consumer(e), 0, val)>> \o rest
               /\ ConsumerAt(e, 0, FALSE) /\ Relayed(e, <<val>>)
    <2>1. PICK val \in Values :
               /\ stack = <<AcceptBy(Consumer(e), 0, val)>> \o rest
               /\ ConsumerAt(e, 0, FALSE) /\ Relayed(e, <<val>>)
      BY <1>2
    <2>2. Head(stack).op = "accept" /\ Head(stack).com = Consumer(e)
      BY <2>1, CallAbove, FrameFacts
    <2>3. Accept
      BY <2>2 DEF Call, FinishStage, ActivateLoop, TryFlush
    <2>4. /\ Typed' /\ Only(Consumer(e)) /\ connected' = connected
          /\ (Consumer(e) \in persistent => active' = active)
      BY <1>1, <2>2, CallOnly
    <2>5. ConsumerCall(e, rest)' /\ Reported(Consumer(e))
      BY <2>1, <2>3, <2>4, ConsumerAccepts DEF ConsumerCall
    <2>6. QED
      BY <2>4, <2>5
  <1>3. CASE /\ stack = <<Staged(Consumer(e), 0)>> \o rest
             /\ ConsumerAt(e, 0, TRUE) /\ Relayed(e, << >>)
    <2>2. Head(stack).op = "staged" /\ Head(stack).com = Consumer(e)
      BY <1>3, CallAbove, FrameFacts
    <2>3. FinishStage
      BY <2>2 DEF Call, Accept, ActivateLoop, TryFlush
    <2>4. /\ Typed' /\ Only(Consumer(e)) /\ connected' = connected
          /\ (Consumer(e) \in persistent => active' = active)
      BY <1>1, <2>2, CallOnly
    <2>5. ConsumerCall(e, rest)' /\ Reported(Consumer(e))
      BY <1>3, <2>3, <2>4, ConsumerFinishes DEF ConsumerCall
    <2>6. QED
      BY <2>4, <2>5
  <1>4. QED
    BY <1>2, <1>3 DEF ConsumerCall

-----------------------------------------------------------------------------
(* The adder acts on a pair. *)

LEMMA ActionOfPair ==
  ASSUME NEW set \in Pairs
  PROVE  Action(set) = set[0] \cup set[1] /\ Action(set) \in SUBSET Nat /\ IsReady(set) =
           (set[0] # {} /\ set[1] # {})
  <1>1. DOMAIN set = {0, 1} /\ set[0] \in SUBSET Nat /\ set[1] \in SUBSET Nat
    BY DEF Pairs
  <1>2. {set[p] : p \in {0, 1}} = {set[0], set[1]}
    OBVIOUS
  <1>3. Action(set) = set[0] \cup set[1]
    BY <1>1, <1>2 DEF Action
  <1>4. IsReady(set) <=> (set[0] # {} /\ set[1] # {})
    BY <1>1 DEF IsReady, NoValue
  <1>5. IsReady(set) \in BOOLEAN
    BY DEF IsReady
  <1>6. QED
    BY <1>1, <1>3, <1>4, <1>5

LEMMA ActionOnPairOf ==
  ASSUME NEW e, NEW set \in Pairs, NEW k \in Nat, PairOf(e, k, set)
  PROVE  Action(set) = {k} /\ Action(set) \in Values /\ IsReady(set)
  <1>1. set[0] = {k} /\ set[1] = {k}
    BY DEF PairOf
  <1>2. Action(set) = {k}
    BY <1>1, ActionOfPair
  <1>3. QED
    BY <1>1, <1>2, ActionOfPair DEF Values

LEMMA ResultsType ==
  ASSUME NEW c, acted[c] \in Seq(Pairs)
  PROVE  /\ Results(c) \in Seq(SUBSET Nat) /\ Len(Results(c)) = Len(acted[c])
         /\ \A j \in 1 .. Len(acted[c]) : Results(c)[j] = Action(acted[c][j])
  <1>1. PICK l \in Nat : l = Len(acted[c]) /\ DOMAIN acted[c] = 1 .. l
    OBVIOUS
  <1>2. \A j \in 1 .. l : Action(acted[c][j]) \in SUBSET Nat
    BY <1>1, ActionOfPair
  <1>3. Results(c) = [j \in 1 .. l |-> Action(acted[c][j])]
    BY <1>1 DEF Results
  <1>4. QED
    BY <1>1, <1>2, <1>3

LEMMA ResultsGrow ==
  ASSUME NEW c, acted[c] \in Seq(Pairs), NEW set \in Pairs, acted'[c] = Append(acted[c], set)
  PROVE  Results(c)' = Append(Results(c), Action(set))
  <1>1. PICK l \in Nat : l = Len(acted[c])
    OBVIOUS
  <1>2. PICK q \in Seq(Pairs) : q = acted'[c]
    BY AppendFacts
  <1>3. Len(q) = l + 1 /\ q[l + 1] = set /\ \A j \in 1 .. l : q[j] = acted[c][j]
    BY <1>1, <1>2, AppendFacts
  <1>4. DOMAIN q = 1 .. l + 1
    BY <1>2, <1>3
  <1>5. Results(c)' = [j \in 1 .. l + 1 |-> Action(q[j])]
    BY <1>2, <1>4 DEF Results
  <1>6. \A j \in 1 .. l + 1 : Action(q[j]) \in SUBSET Nat
    <2>1. \A j \in 1 .. l + 1 : q[j] \in Pairs
      BY <1>2, <1>4
    <2>2. QED
      BY <2>1, ActionOfPair
  <1>7. PICK r \in Seq(SUBSET Nat) : r = Results(c)'
    <2>1. Results(c)' \in Seq(SUBSET Nat)
      BY <1>5, <1>6
    <2>2. QED
      BY <2>1
  <1>8. Len(r) = l + 1 /\ \A j \in 1 .. l + 1 : r[j] = Action(q[j])
    BY <1>5, <1>7
  <1>9. /\ Results(c) \in Seq(SUBSET Nat) /\ Len(Results(c)) = l
        /\ \A j \in 1 .. l : Results(c)[j] = Action(acted[c][j])
    BY <1>1, ResultsType
  <1>10. Action(set) \in SUBSET Nat
    BY ActionOfPair
  <1>11. PICK u \in Seq(SUBSET Nat) : u = Append(Results(c), Action(set))
    BY <1>9, <1>10, AppendFacts
  <1>12. Len(u) = l + 1 /\ u[l + 1] = Action(set) /\ \A j \in 1 .. l : u[j] = Results(c)[j]
    BY <1>9, <1>10, <1>11, AppendFacts, SMTT(30)
  <1>13. \A j \in 1 .. l + 1 : r[j] = u[j]
    <2> TAKE j \in 1 .. l + 1
    <2>1. CASE j = l + 1
      BY <1>3, <1>8, <1>12, <2>1
    <2>2. CASE j # l + 1
      <3>1. j \in 1 .. l
        BY <2>2
      <3>2. QED
        BY <1>3, <1>8, <1>9, <1>12, <3>1
    <2>3. QED
      BY <2>1, <2>2
  <1>14. r = u
    BY <1>7, <1>8, <1>11, <1>12, <1>13, SameSequence, SMTT(30)
  <1>15. QED
    BY <1>7, <1>11, <1>14

Below(rest) == rest = << >> \/ \E h : rest = <<h>>

LEMMA StackTop ==
  ASSUME NEW f, NEW g, NEW rest, Below(rest)
  PROVE  /\ <<f, g>> \o rest = <<f>> \o (<<g>> \o rest)
         /\ Above(<<g>> \o rest)
  <1>1. CASE rest = << >>
    <2>1. <<f, g>> \o << >> = <<f, g>> /\ <<g>> \o << >> = <<g>>
      <3>0. <<f, g>> \in Seq({f, g})
        OBVIOUS
      <3>1. PICK q : q = <<f, g>> /\ q \in Seq({f, g})
        BY <3>0
      <3>2. q \o << >> = q
        BY <3>1
      <3>3. QED
        BY <3>1, <3>2, StackFacts
    <2>2. <<f>> \o <<g>> = <<f, g>>
      BY Push
    <2>3. QED
      BY <1>1, <2>1, <2>2 DEF Above
  <1>2. CASE \E h : rest = <<h>>
    <2>1. PICK h : rest = <<h>>
      BY <1>2
    <2>2. <<f, g>> \o <<h>> = <<f, g, h>>
      <3>1. PICK S : <<f, g>> \in Seq(S) /\ <<h>> \in Seq(S) /\ <<f, g, h>> \in Seq(S)
        <4>1. /\ <<f, g>> \in Seq({f, g, h}) /\ <<h>> \in Seq({f, g, h})
              /\ <<f, g, h>> \in Seq({f, g, h})
          OBVIOUS
        <4>2. QED
          BY <4>1
      <3>2. PICK q \in Seq(S), r \in Seq(S) : q = <<f, g>> /\ r = <<h>>
        BY <3>1
      <3>3. PICK u \in Seq(S) : u = <<f, g, h>>
        BY <3>1
      <3>4. Len(q) = 2 /\ q[1] = f /\ q[2] = g /\ Len(r) = 1 /\ r[1] = h
        BY <3>2
      <3>5. Len(u) = 3 /\ u[1] = f /\ u[2] = g /\ u[3] = h
        BY <3>3
      <3>6. /\ q \o r \in Seq(S) /\ Len(q \o r) = 3
            /\ \A j \in 1 .. 2 : (q \o r)[j] = q[j]
            /\ \A j \in 1 .. 1 : (q \o r)[2 + j] = r[j]
        BY <3>2, <3>4, Joined
      <3>7. (q \o r)[1] = f /\ (q \o r)[2] = g /\ (q \o r)[2 + 1] = h
        BY <3>4, <3>6
      <3>8. \A j \in 1 .. 3 : (q \o r)[j] = u[j]
        <4>1. 2 + 1 = 3 /\ \A j \in 1 .. 3 : j = 1 \/ j = 2 \/ j = 3
          OBVIOUS
        <4>2. QED
          BY <3>5, <3>7, <4>1
      <3>9. q \o r = u
        BY <3>3, <3>5, <3>6, <3>8, SameSequence
      <3>10. QED
        BY <3>2, <3>3, <3>9
    <2>3. <<g>> \o <<h>> = <<g, h>> /\ <<f>> \o <<g, h>> = <<f, g, h>>
      BY Push
    <2>4. QED
      BY <2>1, <2>2, <2>3 DEF Above
  <1>3. QED
    BY <1>1, <1>2 DEF Below

(* The result goes to the consumer, or waits in the outbox. *)
LEMMA AdderStages ==
  ASSUME NEW e \in Elts, Typed, NEW set \in Pairs, NEW n, NEW rest, Below(rest),
         StageAction(Adder(e), set, n, rest), SameConsumer(e), connected' = connected,
         acted[Adder(e)] \in Seq(Pairs), Action(set) \in Values,
         ConsumerAt(e, 0, FALSE), ConsumerIdle(e), Relayed(e, << >>), Flushed(e)
  PROVE  /\ acted'[Adder(e)] = Append(acted[Adder(e)], set)
         /\ ConsumerCall(e, <<Staged(Adder(e), n)>> \o rest)' /\ Flushed(e)'
  <1> DEFINE a == Adder(e)
             c == Consumer(e)
             top == <<Staged(a, n)>> \o rest
  <1>1. /\ a \in Coms /\ c \in Coms /\ a # c
        /\ Wire[a] = <<c, 0>> /\ Wire[a] # << >> /\ Wire[a][1] = c /\ Wire[a][2] = 0
    BY ElementFacts, SMTT(30)
  <1>2. acted' = [acted EXCEPT ![a] = Append(@, set)]
    BY DEF StageAction
  <1>3. acted'[a] = Append(acted[a], set)
    BY <1>1, <1>2 DEF Typed
  <1>4. Results(a)' = Append(Results(a), Action(set))
    BY <1>3, ResultsGrow
  <1>5. ConsumerAt(e, 0, FALSE)' /\ ConsumerIdle(e)'
    BY ConsumerStays
  <1>6. PICK val \in Values : val = Action(set) /\ val \in SUBSET Nat
    BY DEF Values
  <1>7. arrived[c][0] \in Seq(SUBSET Nat) /\ outbox[a] \in Seq(SUBSET Nat)
    BY DEF ConsumerAt, ConsumerSets, Relayed
  <1>7a. PICK S : S = SUBSET Nat
    OBVIOUS
  <1>8. PICK x, b : /\ x \in Seq(S) /\ b \in Seq(S) /\ val \in S
                    /\ x = arrived[c][0] /\ b = outbox[a]
    BY <1>6, <1>7, <1>7a
  <1>8a. x \in Seq(S) /\ b \in Seq(S) /\ val \in S
    BY <1>8
  <1>9. PICK r \in Seq(S) : r = Results(a)
    BY <1>7a, ResultsType
  <1>10. /\ Len(Append(r, val)) = Len(r) + 1
         /\ ToSet(Append(r, val)) = ToSet(r) \cup {val}
    BY <1>8, <1>9, AppendFacts
  <1>11. PICK q, g : Rests(q, x, b) /\ Carries(g, x, val, b)
    BY DEF Rests, Carries
  <1>11a. /\ q \in Seq(S) /\ Len(g) = Len(q) + 1 /\ ToSet(g) = ToSet(q) \cup {val}
          /\ b = << >> => g = Append(q, val)
          /\ Rests(Append(q, val), x, Append(b, val))
    <2>1. q \in Seq(S) /\ OneMore(g, q, val)
      BY <1>8a, <1>11, OnTheWay
    <2>2. b = << >> => Extends(g, q, val)
      BY <1>8a, <1>11, OnTheWay
    <2>3. Rests(Append(q, val), x, Append(b, val))
      BY <1>8a, <1>11, OnTheWay
    <2>4. QED
      BY <2>1, <2>2, <2>3 DEF OneMore, Extends
  <1>12. /\ q = Given(e, << >>)
         /\ Len(q) = Len(acted[a]) /\ ToSet(q) = ToSet(r)
         /\ a \in persistent => q = r
    <2>1. q = Given(e, << >>)
      BY <1>8, <1>11 DEF Given, Rests, Carries
    <2>2. QED
      BY <1>9, <2>1 DEF Relayed
  <1>13. Len(acted'[a]) = Len(acted[a]) + 1
    BY <1>3, AppendFacts
  <1>14. arrived'[c][0] = x /\ persistent' = persistent
    BY <1>8 DEF SameConsumer
  <1>15. CASE a \in connected
    <2>1. stack' = <<AcceptBy(c, 0, val), Staged(a, n)>> \o rest /\ outbox' = outbox
      BY <1>1, <1>6, <1>15 DEF StageAction
    <2>2. stack' = <<AcceptBy(c, 0, val)>> \o top
      BY <2>1, StackTop, SMTT(30)
    <2>3. Given(e, <<val>>)' = g
      BY <1>8, <1>11, <1>14, <2>1 DEF Given, Rests, Carries
    <2>6. a \in persistent => b = << >>
      BY <1>8, <1>15 DEF Flushed
    <2>7. /\ Len(g) = Len(acted'[a]) /\ ToSet(g) = ToSet(Append(r, val))
          /\ a \in persistent => g = Append(r, val)
      BY <1>10, <1>11a, <1>12, <1>13, <2>6
    <2>8. Relayed(e, <<val>>)'
      BY <1>4, <1>6, <1>7, <1>9, <1>14, <2>1, <2>3, <2>7 DEF Relayed
    <2>9. Flushed(e)'
      BY <1>14, <2>1 DEF Flushed
    <2>10. ConsumerCall(e, top)'
      BY <1>5, <2>2, <2>8 DEF ConsumerCall
    <2>11. QED
      BY <1>3, <2>9, <2>10
  <1>16. CASE a \notin connected
    <2>1. stack' = <<Staged(a, n)>> \o rest /\ outbox' = [outbox EXCEPT ![a] = Append(@, val)]
      BY <1>1, <1>6, <1>16 DEF StageAction
    <2>2. outbox'[a] = Append(b, val) /\ Append(b, val) \in Seq(S)
      BY <1>1, <1>8, <2>1, AppendFacts DEF Typed
    <2>3. Given(e, << >>)' = Append(q, val)
      BY <1>11a, <1>14, <2>2 DEF Given, Rests, Carries
    <2>5. /\ Len(Append(q, val)) = Len(q) + 1
          /\ ToSet(Append(q, val)) = ToSet(q) \cup {val}
      BY <1>8, <1>11a, AppendFacts
    <2>6. /\ Len(Append(q, val)) = Len(acted'[a])
          /\ ToSet(Append(q, val)) = ToSet(Append(r, val))
          /\ a \in persistent => Append(q, val) = Append(r, val)
      BY <1>10, <1>12, <1>13, <2>5
    <2>7. Relayed(e, << >>)'
      BY <1>4, <1>6, <1>7a, <1>8, <1>9, <1>14, <2>2, <2>3, <2>6 DEF Relayed
    <2>8. Flushed(e)'
      BY <1>16 DEF Flushed
    <2>9. ConsumerCall(e, top)'
      BY <1>5, <2>1, <2>7 DEF ConsumerCall
    <2>10. QED
      BY <1>3, <2>8, <2>9
  <1>17. QED
    BY <1>15, <1>16

-----------------------------------------------------------------------------
(* The adder accepts a value. *)

(* Paired, said of a port and the other one. *)
PairedBy(e, n, p) ==
  /\ acted[Adder(e)] \in Seq(Pairs)
  /\ \A j \in 1 .. Len(acted[Adder(e)]) : \E k \in Nat : PairOf(e, k, acted[Adder(e)][j])
  /\ n \in 0 .. Len(incoming[Adder(e)])
  /\ n # 0 => n > Behind(e, p) /\ n > Behind(e, 1 - p)
  /\ LET all == Len(acted[Adder(e)]) + Len(incoming[Adder(e)]) - (IF n = 0 THEN 0 ELSE 1)
     IN  \/ all = Came(e, p) /\ Came(e, 1 - p) <= all
         \/ all = Came(e, 1 - p) /\ Came(e, p) <= all

LEMMA PairedForm ==
  ASSUME NEW e, NEW n, NEW p \in {0, 1}
  PROVE  (Paired(e, n) <=> PairedBy(e, n, p)) /\ (Paired(e, n)' <=> PairedBy(e, n, p)')
  <1>1. 1 - 0 = 1 /\ 1 - 1 = 0
    OBVIOUS
  <1>2. CASE p = 0
    BY <1>1, <1>2 DEF Paired, PairedBy
  <1>3. CASE p = 1
    BY <1>1, <1>3 DEF Paired, PairedBy
  <1>4. QED
    BY <1>2, <1>3

LEMMA PortsForm ==
  ASSUME NEW e, NEW p \in {0, 1}, NEW j
  PROVE  /\ (j <= Behind(e, 0) \/ j <= Behind(e, 1))
              <=> (j <= Behind(e, p) \/ j <= Behind(e, 1 - p))
         /\ (j <= Behind(e, 0)' \/ j <= Behind(e, 1)')
              <=> (j <= Behind(e, p)' \/ j <= Behind(e, 1 - p)')
  <1>1. 1 - 0 = 1 /\ 1 - 1 = 0
    OBVIOUS
  <1>2. CASE p = 0
    BY <1>1, <1>2
  <1>3. CASE p = 1
    BY <1>1, <1>3
  <1>4. QED
    BY <1>2, <1>3

(* The value fills a gap. *)
Fills(e, p, b) ==
  LET In == incoming[Adder(e)]
  IN  incoming'[Adder(e)] = [In EXCEPT ![b] = [In[b] EXCEPT ![p] = {Came(e, p) + 1}]]

LEMMA FillFacts ==
  ASSUME NEW e, AdderSets(e, 0), NEW p \in {0, 1}, Arrives(e, p),
         NEW b \in Nat \ {0}, b = Behind(e, p), Fills(e, p, b)
  PROVE  /\ ArrivedInOrder(e)' /\ Waiting(e)'
         /\ b \in 1 .. Len(incoming[Adder(e)]) /\ incoming'[Adder(e)][b] \in Pairs
         /\ Len(incoming'[Adder(e)]) = Len(incoming[Adder(e)])
         /\ \E k \in Nat : PairOf(e, k, incoming[Adder(e)][b])'
         /\ b > Behind(e, p)' /\ b > Behind(e, 1 - p)'
  <1>1. ArrivedInOrder(e) /\ Waiting(e)
    BY DEF AdderSets
  <1>2. ArrivedInOrder(e)'
    BY <1>1, ArrivesFacts
  <1>3. /\ Waiting(e)'
        /\ b \in 1 .. Len(incoming[Adder(e)])
        /\ Len(incoming[Adder(e)])' = Len(incoming[Adder(e)])
        /\ \E k \in Nat : PairOf(e, k, incoming[Adder(e)][b])'
        /\ b > Behind(e, 0)' /\ b > Behind(e, 1)'
    BY <1>1, FillGap DEF Fills
  <1>4. incoming'[Adder(e)][b] \in Pairs
    <2>1. incoming'[Adder(e)] \in Seq(Pairs)
      BY <1>3 DEF Waiting
    <2>2. QED
      BY <1>3, <2>1
  <1>5. b > Behind(e, p)' /\ b > Behind(e, 1 - p)'
    <2>1. 1 - 0 = 1 /\ 1 - 1 = 0
      OBVIOUS
    <2>2. CASE p = 0
      BY <1>3, <2>1, <2>2
    <2>3. CASE p = 1
      BY <1>3, <2>1, <2>3
    <2>4. QED
      BY <2>2, <2>3
  <1>6. QED
    BY <1>2, <1>3, <1>4, <1>5

(* Numbers of a component whose gap is filled. *)
LEMMA FillCounts ==
  ASSUME NEW e, AdderSets(e, 0), NEW p \in {0, 1}, Arrives(e, p),
         NEW b \in Nat \ {0}, b = Behind(e, p)
  PROVE  LET all == Len(acted[Adder(e)]) + Len(incoming[Adder(e)]) IN
         /\ all = Came(e, 1 - p)' /\ Came(e, p)' <= all
         /\ Behind(e, p)' = b - 1 /\ Behind(e, 1 - p) < 0
         /\ Len(acted[Adder(e)]) \in Nat /\ Len(incoming[Adder(e)]) \in Nat
  <1>1. ArrivedInOrder(e) /\ PairedBy(e, 0, p)
    BY PairedForm DEF AdderSets
  <1>2. PICK c \in Nat, d \in Nat : c = Came(e, p) /\ d = Came(e, 1 - p)
    BY <1>1, CameType
  <1>3. b = d - c /\ Behind(e, 1 - p) = c - d
    BY <1>1, <1>2, CameType
  <1>4. Came(e, p)' = c + 1 /\ Came(e, 1 - p)' = d /\ Behind(e, p)' = b - 1
    BY <1>1, <1>2, ArrivesFacts
  <1>5. PICK l \in Nat, m \in Nat : l = Len(acted[Adder(e)]) /\ m = Len(incoming[Adder(e)])
    <2>1. acted[Adder(e)] \in Seq(Pairs) /\ incoming[Adder(e)] \in Seq(Pairs)
      BY DEF AdderSets, Paired, Waiting
    <2>2. QED
      BY <2>1
  <1>6. (l + m - 0 = c /\ d <= l + m - 0) \/ (l + m - 0 = d /\ c <= l + m - 0)
    BY <1>1, <1>2, <1>5 DEF PairedBy
  <1>7. l + m = d /\ c + 1 <= d /\ c - d < 0
    BY <1>3, <1>6
  <1>8. QED
    BY <1>3, <1>4, <1>5, <1>7

LEMMA AdderFillsActing ==
  ASSUME NEW e \in Elts, Typed, AdderAt(e, 0), AdderIdle(e, 0), NEW p \in {0, 1}, Arrives(e, p),
         NEW b \in Nat \ {0}, b = Behind(e, p), Fills(e, p, b),
         Adder(e) \in active, active' = active, persistent' = persistent,
         activations' = activations, NEW set, set = incoming'[Adder(e)][b],
         acted'[Adder(e)] = Append(acted[Adder(e)], set)
  PROVE  AdderAt(e, b)' /\ AdderIdle(e, b)'
  <1> DEFINE a == Adder(e)
  <1>1. AdderSets(e, 0) /\ ActsOnce(a, FALSE)
    BY DEF AdderAt
  <1>2. /\ ArrivedInOrder(e)' /\ Waiting(e)'
        /\ b \in 1 .. Len(incoming[a]) /\ set \in Pairs
        /\ Len(incoming'[a]) = Len(incoming[a])
        /\ \E k \in Nat : PairOf(e, k, set)'
        /\ b > Behind(e, p)' /\ b > Behind(e, 1 - p)'
    <2>1. /\ ArrivedInOrder(e)' /\ Waiting(e)'
          /\ b \in 1 .. Len(incoming[a]) /\ incoming'[a][b] \in Pairs
          /\ Len(incoming'[a]) = Len(incoming[a])
          /\ \E k \in Nat : PairOf(e, k, incoming[a][b])'
          /\ b > Behind(e, p)' /\ b > Behind(e, 1 - p)'
      BY <1>1, FillFacts
    <2>2. \E k \in Nat : PairOf(e, k, set)'
      BY <2>1 DEF PairOf
    <2>3. QED
      BY <2>1, <2>2
  <1>3. acted[a] \in Seq(Pairs)
    BY <1>1 DEF AdderSets, Paired
  <1>4. PICK l \in Nat, m \in Nat : l = Len(acted[a]) /\ m = Len(incoming[a])
    BY <1>1, FillCounts
  <1>5. /\ l + m = Came(e, 1 - p)' /\ Came(e, p)' <= l + m
        /\ Behind(e, p)' = b - 1 /\ Behind(e, 1 - p) < 0
    BY <1>1, <1>4, FillCounts
  <1>6. PICK q \in Seq(Pairs) : q = acted'[a]
    BY <1>2, <1>3, AppendFacts
  <1>7. Len(q) = l + 1 /\ q[l + 1] = set /\ \A j \in 1 .. l : q[j] = acted[a][j]
    BY <1>2, <1>3, <1>4, <1>6, AppendFacts
  <1>8. \A j \in 1 .. l + 1 : \E k \in Nat : PairOf(e, k, q[j])'
    <2> TAKE j \in 1 .. l + 1
    <2>1. CASE j = l + 1
      BY <1>2, <1>7, <2>1
    <2>2. CASE j # l + 1
      <3>1. j \in 1 .. l /\ q[j] = acted[a][j]
        BY <1>7, <2>2
      <3>2. PICK k \in Nat : PairOf(e, k, q[j])
        BY <1>1, <1>4, <3>1 DEF AdderSets, Paired
      <3>3. PairOf(e, k, q[j])'
        BY <1>1, <3>2, ArrivesFacts DEF AdderSets
      <3>4. QED
        BY <3>3
    <2>3. QED
      BY <2>1, <2>2
  <1>9. PairedBy(e, b, p)'
    <2>1. b \in 0 .. Len(incoming'[a]) /\ Len(incoming'[a]) = m /\ b # 0
      BY <1>2, <1>4
    <2>2. (l + 1) + m - 1 = l + m
      OBVIOUS
    <2>3. Len(acted'[a]) + Len(incoming'[a]) - (IF b = 0 THEN 0 ELSE 1) = l + m
      BY <1>6, <1>7, <2>1, <2>2
    <2>5. acted'[a] \in Seq(Pairs)
      BY <1>6
    <2>6. \A j \in 1 .. Len(acted'[a]) : \E k \in Nat : PairOf(e, k, acted[a][j])'
      BY <1>6, <1>7, <1>8 DEF PairOf
    <2>7. QED
      BY <1>2, <1>5, <2>1, <2>3, <2>5, <2>6 DEF PairedBy
  <1>10. ActsOnce(a, b # 0)'
    <2>1. a \in Coms
      BY ElementFacts
    <2>2. activations[a] \in Nat /\ Len(acted'[a]) = Len(acted[a]) + 1 /\ Len(acted[a]) \in Nat
      BY <1>4, <1>6, <1>7, <2>1 DEF Typed
    <2>3. a \notin persistent => Len(acted[a]) + 1 <= activations[a]
      BY <1>1 DEF ActsOnce
    <2>4. QED
      BY <2>2, <2>3 DEF ActsOnce
  <1>11. AdderIdle(e, b)'
    <2>1. \A j \in 1 .. m : j <= b
      <3> TAKE j \in 1 .. m
      <3>1. j <= Behind(e, 0) \/ j <= Behind(e, 1) \/ j = 0
        BY <1>4 DEF AdderIdle
      <3>2. j # 0
        OBVIOUS
      <3>3. j <= b \/ j <= Behind(e, 1 - p)
        BY <3>1, <3>2, PortsForm
      <3>4. Behind(e, 1 - p) \in Int
        BY <1>1, CameType DEF AdderSets
      <3>5. QED
        BY <1>5, <3>3, <3>4
    <2>2. \A j \in 1 .. m : j <= Behind(e, p)' \/ j = b
      BY <1>5, <2>1
    <2>3. \A j \in 1 .. m : j <= Behind(e, 0)' \/ j <= Behind(e, 1)' \/ j = b
      BY <2>2, PortsForm
    <2>4. QED
      BY <1>2, <1>4, <2>3 DEF AdderIdle
  <1>12. QED
    BY <1>2, <1>9, <1>10, <1>11, PairedForm DEF AdderAt, AdderSets

LEMMA AdderFillsOnly ==
  ASSUME NEW e \in Elts, Typed, AdderAt(e, 0), NEW p \in {0, 1}, Arrives(e, p),
         NEW b \in Nat \ {0}, b = Behind(e, p), Fills(e, p, b),
         Adder(e) \notin active, active' = active, persistent' = persistent,
         activations' = activations, acted' = acted
  PROVE  AdderAt(e, 0)' /\ AdderIdle(e, 0)'
  <1> DEFINE a == Adder(e)
  <1>1. AdderSets(e, 0) /\ ActsOnce(a, FALSE)
    BY DEF AdderAt
  <1>2. /\ ArrivedInOrder(e)' /\ Waiting(e)'
        /\ Len(incoming'[a]) = Len(incoming[a])
    BY <1>1, FillFacts
  <1>3. acted[a] \in Seq(Pairs)
    BY <1>1 DEF AdderSets, Paired
  <1>4. PICK l \in Nat, m \in Nat : l = Len(acted[a]) /\ m = Len(incoming[a])
    BY <1>1, FillCounts
  <1>5. l + m = Came(e, 1 - p)' /\ Came(e, p)' <= l + m
    BY <1>1, <1>4, FillCounts
  <1>6. \A j \in 1 .. l : \E k \in Nat : PairOf(e, k, acted[a][j])'
    <2> TAKE j \in 1 .. l
    <2>1. PICK k \in Nat : PairOf(e, k, acted[a][j])
      BY <1>1, <1>4 DEF AdderSets, Paired
    <2>2. PairOf(e, k, acted[a][j])'
      <3>1. PICK s : s = acted[a][j]
        OBVIOUS
      <3>2. PairOf(e, k, s)'
        BY <1>1, <2>1, <3>1, ArrivesFacts DEF AdderSets
      <3>3. QED
        BY <3>1, <3>2 DEF PairOf
    <2>3. QED
      BY <2>2
  <1>7. PairedBy(e, 0, p)'
    <2>1. Len(acted'[a]) + Len(incoming'[a]) - (IF 0 = 0 THEN 0 ELSE 1) = l + m
      BY <1>2, <1>4
    <2>2. 0 \in 0 .. Len(incoming'[a])
      BY <1>2, <1>4
    <2>3. \A j \in 1 .. Len(acted'[a]) : \E k \in Nat : PairOf(e, k, acted[a][j])'
      BY <1>4, <1>6
    <2>4. QED
      BY <1>3, <1>5, <2>1, <2>2, <2>3 DEF PairedBy
  <1>8. ActsOnce(a, 0 # 0)'
    BY <1>1 DEF ActsOnce
  <1>9. AdderIdle(e, 0)'
    BY DEF AdderIdle
  <1>10. QED
    BY <1>2, <1>7, <1>8, <1>9, PairedForm DEF AdderAt, AdderSets

(* The value starts a set. *)
Starts(e, p) ==
  incoming'[Adder(e)] =
    [<<[r \in {0, 1} |-> {}]>> \o incoming[Adder(e)] EXCEPT
       ![1] = [[r \in {0, 1} |-> {}] EXCEPT ![p] = {Came(e, p) + 1}]]

LEMMA AdderStarts ==
  ASSUME NEW e \in Elts, Typed, AdderAt(e, 0), AdderIdle(e, 0), NEW p \in {0, 1}, Arrives(e, p),
         Behind(e, p) <= 0, Starts(e, p),
         active' = active, persistent' = persistent,
         activations' = activations, acted' = acted
  PROVE  AdderAt(e, 0)' /\ AdderIdle(e, 0)'
  <1> DEFINE a == Adder(e)
  <1>1. AdderSets(e, 0) /\ ActsOnce(a, FALSE) /\ ArrivedInOrder(e) /\ Waiting(e)
    BY DEF AdderAt, AdderSets
  <1>2. ArrivedInOrder(e)' /\ Waiting(e)' /\ Len(incoming'[a]) = Len(incoming[a]) + 1
    BY <1>1, ArrivesFacts, NewSet DEF Starts
  <1>3. acted[a] \in Seq(Pairs) /\ incoming[a] \in Seq(Pairs)
    BY <1>1 DEF AdderSets, Paired, Waiting
  <1>4. PICK l \in Nat, m \in Nat : l = Len(acted[a]) /\ m = Len(incoming[a])
    BY <1>3
  <1>5. PICK c \in Nat, d \in Nat : c = Came(e, p) /\ d = Came(e, 1 - p)
    BY <1>1, CameType
  <1>6. Behind(e, p) = d - c /\ Behind(e, 1 - p) = c - d
    BY <1>1, <1>5, CameType
  <1>7. Came(e, p)' = c + 1 /\ Came(e, 1 - p)' = d /\ Behind(e, 1 - p)' = c - d + 1
    BY <1>1, <1>5, <1>6, ArrivesFacts
  <1>8. l + m = c /\ d <= c
    <2>1. (l + m - 0 = c /\ d <= l + m - 0) \/ (l + m - 0 = d /\ c <= l + m - 0)
      BY <1>1, <1>4, <1>5, PairedForm DEF AdderSets, PairedBy
    <2>2. QED
      BY <1>5, <1>6, <2>1
  <1>9. \A j \in 1 .. l : \E k \in Nat : PairOf(e, k, acted[a][j])'
    <2> TAKE j \in 1 .. l
    <2>1. PICK k \in Nat : PairOf(e, k, acted[a][j])
      BY <1>1, <1>4 DEF AdderSets, Paired
    <2>2. PairOf(e, k, acted[a][j])'
      <3>1. PICK s : s = acted[a][j]
        OBVIOUS
      <3>2. PairOf(e, k, s)'
        BY <1>1, <2>1, <3>1, ArrivesFacts
      <3>3. QED
        BY <3>1, <3>2 DEF PairOf
    <2>3. QED
      BY <2>2
  <1>10. PairedBy(e, 0, p)'
    <2>1. Len(acted'[a]) + Len(incoming'[a]) - (IF 0 = 0 THEN 0 ELSE 1) = c + 1
      <3>1. l + (m + 1) - 0 = c + 1
        <4>1. \A x, y \in Nat : x + (y + 1) - 0 = (x + y) + 1
          OBVIOUS
        <4>2. l \in Nat /\ m \in Nat /\ l + m = c
          BY <1>4, <1>8
        <4>3. QED
          BY <4>1, <4>2
      <3>2. QED
        BY <1>2, <1>4, <3>1
    <2>2. 0 \in 0 .. Len(incoming'[a]) /\ d <= c + 1
      BY <1>2, <1>4, <1>5, <1>8
    <2>3. \A j \in 1 .. Len(acted'[a]) : \E k \in Nat : PairOf(e, k, acted[a][j])'
      BY <1>4, <1>9
    <2>4. QED
      BY <1>3, <1>7, <2>1, <2>2, <2>3 DEF PairedBy
  <1>11. ActsOnce(a, 0 # 0)'
    BY <1>1 DEF ActsOnce
  <1>12. AdderIdle(e, 0)'
    <2>1. SUFFICES ASSUME a \in active, NEW j \in 1 .. m + 1
                   PROVE  j <= c - d + 1
      <3>1. ASSUME a \in active, NEW j \in 1 .. m + 1, j <= c - d + 1
            PROVE  j <= Behind(e, 0)' \/ j <= Behind(e, 1)'
        BY <1>7, <3>1, PortsForm
      <3>2. QED
        BY <1>2, <1>4, <3>1 DEF AdderIdle
    <2>2. CASE j = 1
      BY <1>5, <1>8, <2>2
    <2>3. CASE j # 1
      <3>1. j - 1 \in 1 .. m
        BY <1>4, <2>3
      <3>2. j - 1 <= Behind(e, 0) \/ j - 1 <= Behind(e, 1)
        BY <1>4, <2>1, <3>1 DEF AdderIdle
      <3>3. j - 1 <= d - c \/ j - 1 <= c - d
        BY <1>6, <3>2, PortsForm
      <3>4. QED
        BY <1>5, <1>8, <3>1, <3>3
    <2>4. QED
      BY <2>2, <2>3
  <1>13. QED
    BY <1>1, <1>2, <1>10, <1>11, <1>12, PairedForm DEF AdderAt, AdderSets

(* In both cases the adder holds one value more. *)
LEMMA AdderReports ==
  ASSUME NEW e \in Elts, Typed, Calls, AdderSets(e, 0), NEW p \in {0, 1}, Arrives(e, p),
         NEW b \in Nat, b = IF Behind(e, p) > 0 THEN Behind(e, p) ELSE 0,
         IF b # 0 THEN Fills(e, p, b) ELSE Starts(e, p),
         DOMAIN incoming' = Coms, Only(Adder(e)), qd' = qd + 1
  PROVE  Reported(Adder(e))
  <1> DEFINE a == Adder(e)
  <1>1. a \in Coms /\ Ports(a) = {0, 1}
    BY ElementFacts
  <1>2. IsFiniteSet({0, 1})
    BY <1>1, HeldByPlaces
  <1>3. ArrivedInOrder(e) /\ Waiting(e) /\ Came(e, p) \in Nat /\ Behind(e, p) \in Int
    BY CameType DEF AdderSets
  <1>4. PICK In \in Seq(Pairs) : In = incoming[a]
    BY <1>3 DEF Waiting
  <1>5. PICK Out : Out = incoming'[a]
    OBVIOUS
  <1>6. PICK new : new = [r \in {0, 1} |-> {}]
    OBVIOUS
  <1>7. PICK v : v = {Came(e, p) + 1} /\ v # {} /\ v \in SUBSET Nat
    <2>1. {Came(e, p) + 1} # {} /\ {Came(e, p) + 1} \in SUBSET Nat
      BY <1>3
    <2>2. QED
      BY <2>1
  <1>8. Cardinality(Places(Out, {0, 1})) = Cardinality(Places(In, {0, 1})) + 1
    <2>1. CASE b # 0
      <3>1. b = Behind(e, p) /\ b \in Nat \ {0}
        BY <1>3, <2>1
      <3>2. b \in 1 .. Len(In)
        BY <1>4, <2>1, <3>1, FillFacts
      <3>3. In[b][p] = {}
        BY <1>3, <1>4, <3>1, <3>2, EmptyAt
      <3>4. PICK set : set = [In[b] EXCEPT ![p] = v]
        OBVIOUS
      <3>5. In[b] \in Pairs
        BY <1>4, <3>2
      <3>6. set \in Pairs /\ set[p] = v /\ \A o \in {0, 1} : o # p => set[o] = In[b][o]
        BY <1>7, <3>4, <3>5 DEF Pairs
      <3>7. Out = [In EXCEPT ![b] = set]
        BY <1>4, <1>5, <1>7, <2>1, <3>4 DEF Fills
      <3>8. /\ Out \in Seq(Pairs) /\ Len(Out) = Len(In) /\ Out[b] = set
            /\ \A j \in 1 .. Len(In) : j # b => Out[j] = In[j]
        BY <1>4, <3>2, <3>6, <3>7
      <3>9. \A j \in 1 .. Len(In), o \in {0, 1} : <<j, o>> # <<b, p>> => Out[j][o] = In[j][o]
        <4> TAKE j \in 1 .. Len(In), o \in {0, 1}
        <4> HAVE <<j, o>> # <<b, p>>
        <4>1. j # b \/ o # p
          OBVIOUS
        <4>2. QED
          BY <3>6, <3>8, <4>1
      <3>10. Out[b][p] # {}
        BY <1>7, <3>6, <3>8
      <3>11. In \in Seq(Pairs) /\ Out \in Seq(Pairs) /\ Len(Out) = Len(In)
        BY <1>4, <3>8
      <3>12. QED
        BY <1>2, <3>2, <3>3, <3>9, <3>10, <3>11, PlacesFilled, SMTT(30)
    <2>2. CASE b = 0
      <3>1. PICK set : set = [new EXCEPT ![p] = v]
        OBVIOUS
      <3>2. new \in Pairs
        BY <1>6 DEF Pairs
      <3>3. set \in Pairs /\ set[p] = v /\ \A o \in {0, 1} : o # p => set[o] = {}
        BY <1>6, <1>7, <3>1 DEF Pairs
      <3>4. PICK m : m = <<new>> \o In
        OBVIOUS
      <3>5. /\ m \in Seq(Pairs) /\ Len(m) = Len(In) + 1
            /\ \A j \in 2 .. Len(In) + 1 : m[j] = In[j - 1]
        BY <1>4, <3>2, <3>4, Prepend
      <3>6. Out = [m EXCEPT ![1] = set]
        BY <1>4, <1>5, <1>6, <1>7, <2>2, <3>1, <3>4 DEF Starts
      <3>7. Len(In) \in Nat
        BY <1>4
      <3>8. /\ Out \in Seq(Pairs) /\ Len(Out) = Len(In) + 1 /\ Out[1] = set
            /\ \A j \in 2 .. Len(In) + 1 : Out[j] = In[j - 1]
        BY <3>3, <3>5, <3>6, <3>7
      <3>9. Inserted(In, Out, 1)
        <4>1. \A j \in 1 .. Len(In) : In[j] = Out[j + 1] /\ ~(j < 1)
          <5> TAKE j \in 1 .. Len(In)
          <5>1. j + 1 \in 2 .. Len(In) + 1 /\ (j + 1) - 1 = j
            OBVIOUS
          <5>2. QED
            BY <3>8, <5>1
        <4>2. 1 \in 1 .. Len(Out)
          BY <3>7, <3>8
        <4>3. QED
          BY <3>8, <4>1, <4>2 DEF Inserted
      <3>10. Filled(Out, 1, {0, 1}) = {p}
        BY <1>7, <3>3, <3>8 DEF Filled
      <3>11. Cardinality({p}) = 1
        BY FS_Singleton
      <3>12. In \in Seq(Pairs) /\ Out \in Seq(Pairs)
        BY <1>4, <3>8
      <3>13. Cardinality(Places(Out, {0, 1}))
               = Cardinality(Places(In, {0, 1})) + Cardinality(Filled(Out, 1, {0, 1}))
        BY <1>2, <3>9, <3>12, PlacesInserted
      <3>14. QED
        BY <3>10, <3>11, <3>13
    <2>3. QED
      BY <2>1, <2>2
  <1>9. HeldBy(a) = Places(In, {0, 1}) /\ HeldBy(a)' = Places(Out, {0, 1})
    BY <1>1, <1>4, <1>5, HeldByPlaces
  <1>10. Cardinality(HeldBy(a)) \in Nat
    BY <1>1, HeldIsFinite DEF FiniteHeld
  <1>11. Cardinality(HeldBy(a)') - Cardinality(HeldBy(a)) = 1
    BY <1>8, <1>9, <1>10
  <1>12. qd' - qd = 1
    BY DEF Typed
  <1>13. QED
    BY <1>11, <1>12 DEF Reported, Only

(* The state after a step of a call on e. *)
Settled(e) == (stack = << >> /\ Resting(e)) \/ Relaying(e)

(* What nobody but the adder changes, while its results stay. *)
LEMMA ResultsStay ==
  ASSUME NEW e \in Elts, Only(Adder(e)), acted' = acted, outbox' = outbox,
         connected' = connected, Flushed(e), Relayed(e, << >>),
         ConsumerAt(e, 0, FALSE), ConsumerIdle(e)
  PROVE  Flushed(e)' /\ Relayed(e, << >>)' /\ ConsumerAt(e, 0, FALSE)' /\ ConsumerIdle(e)'
  <1>1. SameConsumer(e) /\ persistent' = persistent
    BY OnlyFacts DEF Only
  <1>2. ConsumerAt(e, 0, FALSE)' /\ ConsumerIdle(e)'
    BY <1>1, ConsumerStays
  <1>3. Flushed(e)'
    BY <1>1 DEF Flushed
  <1>4. Relayed(e, << >>)'
    BY <1>1 DEF SameConsumer, Relayed, Given, Results
  <1>5. QED
    BY <1>2, <1>3, <1>4

LEMMA AdderAccepts ==
  ASSUME NEW e \in Elts, Typed, Calls, NEW p \in {0, 1},
         stack = <<AcceptBy(Adder(e), p, {Came(e, p) + 1})>>, Resting(e),
         Accept, Typed', Only(Adder(e))
  PROVE  /\ Settled(e)' /\ Reported(Adder(e))
         /\ Came(e, p)' = Came(e, p) + 1 /\ Came(e, 1 - p)' = Came(e, 1 - p)
  <1> DEFINE a == Adder(e)
             v == {Came(e, p) + 1}
             In == incoming[a]
  <1>1. PICK f : /\ f = Head(stack) /\ f.com = a /\ f.port = p /\ f.val = v
                 /\ Tail(stack) = << >>
    BY StackFacts, FrameFacts
  <1>2. a \in Coms /\ NIn[a] = 2 /\ Ports(a) = {0, 1}
    BY ElementFacts
  <1>3. /\ AdderAt(e, 0) /\ AdderIdle(e, 0) /\ AdderSets(e, 0) /\ Flushed(e)
        /\ ConsumerAt(e, 0, FALSE) /\ ConsumerIdle(e) /\ Relayed(e, << >>)
        /\ ArrivedInOrder(e) /\ Waiting(e)
    BY DEF Resting, AdderAt, AdderSets
  <1>4. /\ arrived' = [arrived EXCEPT ![a][p] = Append(@, v)]
        /\ UNCHANGED <<persistent, active, connected, activations>>
    BY <1>1 DEF Accept
  <1>5. Arrives(e, p)
    BY <1>2, <1>4 DEF Typed, Arrives
  <1>6. Came(e, p)' = Came(e, p) + 1 /\ Came(e, 1 - p)' = Came(e, 1 - p)
    BY <1>3, <1>5, ArrivesFacts
  <1>7. AcceptInto(f)
    BY <1>1, <1>2 DEF Accept
  <1>8. PICK b \in Nat : b = IF Behind(e, p) > 0 THEN Behind(e, p) ELSE 0
    <2>1. Behind(e, p) \in Int
      BY <1>3, CameType
    <2>2. QED
      BY <2>1
  <1>9. FindGap(a, p) = b
    BY <1>3, <1>8, GapIs
  <1>10. qd' = qd + 1 /\ DOMAIN incoming' = Coms
    BY <1>7 DEF AcceptInto, Typed
  <1>11. CASE b = 0
    <2>1. /\ incoming' =
               [incoming EXCEPT ![a] =
                 [<<[r \in {0, 1} |-> NoValue]>> \o incoming[a] EXCEPT
                    ![1] = [(<<[r \in {0, 1} |-> NoValue]>> \o incoming[a])[1] EXCEPT ![p] = v]]]
          /\ stack' = << >> /\ UNCHANGED <<outbox, acted>>
      BY <1>1, <1>2, <1>7, <1>9, <1>11 DEF AcceptInto
    <2>2. (<<[r \in {0, 1} |-> NoValue]>> \o incoming[a])[1] = [r \in {0, 1} |-> NoValue]
      <3>1. PICK new \in Pairs : new = [r \in {0, 1} |-> NoValue]
        <4>1. [r \in {0, 1} |-> NoValue] \in Pairs
          BY DEF Pairs, NoValue
        <4>2. QED
          BY <4>1
      <3>2. PICK q \in Seq(Pairs) : q = incoming[a]
        BY <1>3 DEF Waiting
      <3>3. (<<new>> \o q)[1] = new
        BY <3>1, <3>2, Prepend
      <3>4. QED
        BY <3>1, <3>2, <3>3
    <2>3. incoming'[a] =
            [<<[r \in {0, 1} |-> NoValue]>> \o incoming[a] EXCEPT
               ![1] = [[r \in {0, 1} |-> NoValue] EXCEPT ![p] = v]]
      BY <1>2, <2>1, <2>2 DEF Typed
    <2>4. Starts(e, p)
      BY <2>3 DEF Starts, NoValue
    <2>5. Behind(e, p) <= 0
      <3>1. Behind(e, p) \in Int
        BY <1>3, CameType
      <3>2. QED
        BY <1>8, <1>11, <3>1
    <2>6. AdderAt(e, 0)' /\ AdderIdle(e, 0)'
      BY <1>3, <1>4, <1>5, <2>1, <2>4, <2>5, AdderStarts
    <2>7. Flushed(e)' /\ Relayed(e, << >>)' /\ ConsumerAt(e, 0, FALSE)' /\ ConsumerIdle(e)'
      BY <1>3, <1>4, <2>1, ResultsStay
    <2>8. Reported(a)
      BY <1>3, <1>5, <1>8, <1>10, <1>11, <2>4, AdderReports
    <2>9. QED
      BY <1>6, <2>1, <2>6, <2>7, <2>8 DEF Settled, Resting
  <1>12. CASE b # 0
    <2>1. b = Behind(e, p) /\ b \in Nat \ {0}
      BY <1>8, <1>12
    <2>2. PICK set : set = [In[b] EXCEPT ![p] = v]
      OBVIOUS
    <2>3. /\ incoming' = [incoming EXCEPT ![a] = [In EXCEPT ![b] = set]]
          /\ IF IsReady(set) /\ a \in active
             THEN StageAction(a, set, b, << >>)
             ELSE stack' = << >> /\ UNCHANGED <<outbox, acted>>
      BY <1>1, <1>2, <1>7, <1>9, <1>12, <2>2 DEF AcceptInto
    <2>4. incoming'[a] = [In EXCEPT ![b] = set]
      BY <1>2, <2>3 DEF Typed
    <2>5. Fills(e, p, b)
      BY <2>2, <2>4 DEF Fills
    <2>6. /\ b \in 1 .. Len(In) /\ incoming'[a][b] \in Pairs
          /\ \E k \in Nat : PairOf(e, k, incoming[a][b])'
      BY <1>3, <1>5, <2>1, <2>5, FillFacts
    <2>7. incoming'[a][b] = set
      <3>1. In \in Seq(Pairs)
        BY <1>3 DEF Waiting
      <3> HIDE DEF In
      <3>2. QED
        BY <2>4, <2>6, <3>1
    <2>8. PICK k \in Nat : PairOf(e, k, set)'
      BY <2>6, <2>7 DEF PairOf
    <2>9. set \in Pairs /\ Action(set) \in Values /\ IsReady(set)
      <3>1. set[0] = {k} /\ set[1] = {k}
        BY <2>8 DEF PairOf
      <3>2. set \in Pairs
        BY <2>6, <2>7
      <3>3. Action(set) = {k}
        BY <3>1, <3>2, ActionOfPair
      <3>4. QED
        BY <3>1, <3>2, <3>3, ActionOfPair DEF Values
    <2>10. Reported(a)
      BY <1>3, <1>5, <1>8, <1>10, <1>12, <2>5, AdderReports
    <2>11. CASE a \in active
      <3>1. StageAction(a, set, b, << >>)
        BY <2>3, <2>9, <2>11
      <3>2. SameConsumer(e)
        BY OnlyFacts
      <3>3. acted[a] \in Seq(Pairs)
        BY <1>3 DEF AdderSets, Paired
      <3>4. Below(<< >>)
        BY DEF Below
      <3>5. /\ acted'[a] = Append(acted[a], set) /\ Flushed(e)'
            /\ ConsumerCall(e, <<Staged(a, b)>> \o << >>)'
        BY <1>3, <1>4, <2>9, <3>1, <3>2, <3>3, <3>4, AdderStages
      <3>6. <<Staged(a, b)>> \o << >> = <<Staged(a, b)>>
        BY StackFacts
      <3>7. ConsumerCall(e, <<Staged(a, b)>>)'
        BY <3>5, <3>6
      <3>8. AdderAt(e, b)' /\ AdderIdle(e, b)'
        BY <1>3, <1>4, <1>5, <2>1, <2>5, <2>7, <2>11, <3>5, AdderFillsActing
      <3>9. Acting(e)'
        BY <2>1, <3>5, <3>7, <3>8 DEF Acting
      <3>10. QED
        BY <1>6, <2>10, <3>9 DEF Settled, Relaying
    <2>12. CASE a \notin active
      <3>1. stack' = << >> /\ UNCHANGED <<outbox, acted>>
        BY <2>3, <2>12
      <3>2. AdderAt(e, 0)' /\ AdderIdle(e, 0)'
        BY <1>3, <1>4, <1>5, <2>1, <2>5, <2>12, <3>1, AdderFillsOnly
      <3>3. Flushed(e)' /\ Relayed(e, << >>)' /\ ConsumerAt(e, 0, FALSE)' /\ ConsumerIdle(e)'
        BY <1>3, <1>4, <3>1, ResultsStay
      <3>4. QED
        BY <1>6, <2>10, <3>1, <3>2, <3>3 DEF Settled, Resting
    <2>13. QED
      BY <2>11, <2>12
  <1>13. QED
    BY <1>11, <1>12

-----------------------------------------------------------------------------
(* A set that was acted on is removed. *)

(* r is q without its n-th member. *)
Shortened(S, r, q, n) ==
  /\ r \in Seq(S) /\ Len(r) = Len(q) - 1
  /\ \A j \in 1 .. Len(r) : j < n => r[j] = q[j]
  /\ \A j \in 1 .. Len(r) : ~(j < n) => r[j] = q[j + 1]

LEMMA RemovedFacts ==
  ASSUME NEW S, NEW q \in Seq(S), NEW n \in 1 .. Len(q), NEW r, r = RemoveAt(q, n)
  PROVE  r \in Seq(S) /\ Inserted(r, q, n) /\ Shortened(S, r, q, n)
  <1>1. PICK l \in Nat : l = Len(q)
    OBVIOUS
  <1>2. /\ r \in Seq(S) /\ Len(r) = l - 1
        /\ \A j \in 1 .. l - 1 : r[j] = IF j < n THEN q[j] ELSE q[j + 1]
    BY <1>1, Removed
  <1>3. \A j \in 1 .. Len(r) : r[j] = q[IF j < n THEN j ELSE j + 1]
    BY <1>2
  <1>4. l = (l - 1) + 1
    BY <1>1
  <1>5. QED
    BY <1>1, <1>2, <1>3, <1>4 DEF Inserted, Shortened

LEMMA SetsReported ==
  ASSUME NEW S, NEW c \in Coms, Typed, Calls, DOMAIN incoming' = Coms, Only(c),
         incoming[c] \in Seq(S), NEW n \in 1 .. Len(incoming[c]),
         incoming'[c] = RemoveAt(incoming[c], n),
         \A p \in Ports(c) : incoming[c][n][p] # {}, qd' = qd - NIn[c]
  PROVE  Reported(c)
  <1>1. PICK In \in Seq(S) : In = incoming[c]
    OBVIOUS
  <1>2. PICK Out : Out = RemoveAt(In, n)
    OBVIOUS
  <1>3. Out \in Seq(S) /\ Inserted(Out, In, n)
    BY <1>1, <1>2, RemovedFacts
  <1>4. IsFiniteSet(Ports(c)) /\ Cardinality(Ports(c)) = NIn[c] /\ NIn[c] \in Nat
    <2>1. NIn[c] \in Nat
      BY ComponentAssumption
    <2>2. Ports(c) = 0 .. NIn[c] - 1
      BY DEF Ports
    <2>3. IsFiniteSet(0 .. NIn[c] - 1) /\ Cardinality(0 .. NIn[c] - 1) = NIn[c]
      <3>1. PICK x \in Nat : x = NIn[c]
        BY <2>1
      <3>2. PICK y \in Int : y = x - 1
        BY <3>1
      <3>3. /\ IsFiniteSet(0 .. y)
            /\ Cardinality(0 .. y) = IF 0 > y THEN 0 ELSE y - 0 + 1
        BY <3>2, FS_Interval
      <3>4. (IF 0 > y THEN 0 ELSE y - 0 + 1) = x /\ 0 .. NIn[c] - 1 = 0 .. y
        BY <3>1, <3>2
      <3>5. QED
        BY <3>1, <3>3, <3>4
    <2>4. QED
      BY <2>1, <2>2, <2>3
  <1>5. Filled(In, n, Ports(c)) = Ports(c)
    BY <1>1 DEF Filled
  <1>6. Cardinality(Places(In, Ports(c)))
          = Cardinality(Places(Out, Ports(c))) + Cardinality(Filled(In, n, Ports(c)))
    BY <1>1, <1>3, <1>4, PlacesInserted
  <1>7. Cardinality(HeldBy(c)) = Cardinality(HeldBy(c)') + NIn[c]
    <2>1. HeldBy(c) = Places(In, Ports(c)) /\ HeldBy(c)' = Places(Out, Ports(c))
      BY <1>1, <1>2, HeldByPlaces
    <2>2. QED
      BY <1>4, <1>5, <1>6, <2>1
  <1>8. Cardinality(HeldBy(c)') \in Nat
    <2>1. HeldBy(c)' = Places(Out, Ports(c))
      BY <1>1, <1>2, HeldByPlaces
    <2>2. IsFiniteSet(Places(Out, Ports(c)))
      BY <1>3, <1>4, PlacesFinite
    <2>3. QED
      BY <2>1, <2>2, FS_CardinalityType
  <1>9. qd' - qd = 0 - NIn[c] /\ Cardinality(HeldBy(c)') - Cardinality(HeldBy(c)) = 0 - NIn[c]
    BY <1>4, <1>7, <1>8 DEF Typed
  <1>10. QED
    BY <1>9 DEF Reported, Only

LEMMA AdderFinishes ==
  ASSUME NEW e \in Elts, Typed, Calls, NEW n \in Nat \ {0}, NEW rest,
         Head(stack) = Staged(Adder(e), n), Tail(stack) = rest,
         AdderAt(e, n), FinishStage, Typed', Only(Adder(e))
  PROVE  /\ AdderAt(e, 0)' /\ Reported(Adder(e)) /\ stack' = rest
         /\ AdderIdle(e, n) => AdderIdle(e, 0)'
         /\ acted' = acted /\ outbox' = outbox /\ connected' = connected
         /\ arrived' = arrived
  <1> DEFINE a == Adder(e)
  <1>1. PICK f : f = Head(stack) /\ f.com = a /\ f.at = n
    BY FrameFacts
  <1>2. a \in Coms /\ NIn[a] = 2 /\ Ports(a) = {0, 1}
    BY ElementFacts
  <1>3. /\ active' = IF a \in persistent THEN active ELSE active \ {a}
        /\ incoming' = [incoming EXCEPT ![a] = RemoveAt(@, n)]
        /\ qd' = qd - NIn[a]
        /\ stack' = rest
        /\ UNCHANGED <<persistent, outbox, connected, arrived, acted, activations>>
    BY <1>1 DEF FinishStage, Processed
  <1>4. ArrivedInOrder(e) /\ Waiting(e) /\ Paired(e, n) /\ ActsOnce(a, TRUE)
    BY DEF AdderAt, AdderSets
  <1>5. PICK In \in Seq(Pairs) : In = incoming[a]
    BY <1>4 DEF Waiting
  <1>6. PICK Out : Out = RemoveAt(In, n) /\ Out = incoming'[a]
    BY <1>2, <1>3, <1>5 DEF Typed
  <1>7. n \in 1 .. Len(In)
    <2>1. n \in 0 .. Len(In)
      BY <1>4, <1>5 DEF Paired
    <2>2. QED
      BY <2>1
  <1>8. /\ Out \in Seq(Pairs) /\ Len(Out) = Len(In) - 1
        /\ \A j \in 1 .. Len(Out) : j < n => Out[j] = In[j]
        /\ \A j \in 1 .. Len(Out) : ~(j < n) => Out[j] = In[j + 1]
    <2>1. In \in Seq(Pairs) /\ Out = RemoveAt(In, n)
      BY <1>5, <1>6
    <2>2. Shortened(Pairs, Out, In, n)
      BY <1>7, <2>1, RemovedFacts
    <2>3. QED
      BY <2>2 DEF Shortened
  <1>9. \A p : Came(e, p)' = Came(e, p) /\ Behind(e, p)' = Behind(e, p)
    BY <1>3 DEF Came, Behind
  <1>10. \A k, set : PairOf(e, k, set)' <=> PairOf(e, k, set)
    BY <1>9 DEF PairOf
  <1>11. ArrivedInOrder(e)'
    BY <1>3, <1>4, <1>9 DEF ArrivedInOrder
  <1>12. \A p \in {0, 1} : n > Behind(e, p) /\ Behind(e, p) \in Int
    BY <1>4, CameType DEF Paired
  <1>13. PICK l \in Nat : l = Len(In) /\ Len(Out) = l - 1
    BY <1>5, <1>8
  <1>14. \A j \in 1 .. l - 1 : j \in 1 .. l /\ j + 1 \in 1 .. l
    BY <1>13
  <1>15. Waiting(e)'
    <2>1. \A p \in {0, 1} : Behind(e, p)' <= Len(Out)
      BY <1>7, <1>9, <1>12, <1>13
    <2>2. \A p \in {0, 1} : \A j \in 1 .. Len(Out) :
            j <= Behind(e, p)' => Out[j][p] = {} /\ Out[j][1 - p] = {Came(e, 1 - p)' - j + 1}
      <3> TAKE p \in {0, 1}
      <3> TAKE j \in 1 .. Len(Out)
      <3> HAVE j <= Behind(e, p)'
      <3>1. j <= Behind(e, p) /\ j < n
        BY <1>9, <1>12, <1>13
      <3>2. Out[j] = In[j] /\ j \in 1 .. l
        BY <1>8, <1>13, <1>14, <3>1
      <3>3. In[j][p] = {} /\ In[j][1 - p] = {Came(e, 1 - p) - j + 1}
        BY <1>4, <1>5, <1>13, <3>1, <3>2 DEF Waiting
      <3>4. Came(e, 1 - p)' = Came(e, 1 - p)
        BY <1>9
      <3>5. QED
        BY <3>2, <3>3, <3>4
    <2>3. \A j \in 1 .. Len(Out) : j > Behind(e, 0)' /\ j > Behind(e, 1)' =>
            \E k \in Nat : PairOf(e, k, Out[j])'
      <3> TAKE j \in 1 .. Len(Out)
      <3> HAVE j > Behind(e, 0)' /\ j > Behind(e, 1)'
      <3>1. j > Behind(e, 0) /\ j > Behind(e, 1)
        BY <1>9
      <3>2. PICK i \in 1 .. l : Out[j] = In[i] /\ i > Behind(e, 0) /\ i > Behind(e, 1)
        <4>1. CASE j < n
          BY <1>8, <1>13, <1>14, <3>1, <4>1
        <4>2. CASE ~(j < n)
          <5>1. j + 1 > Behind(e, 0) /\ j + 1 > Behind(e, 1)
            BY <1>12, <3>1
          <5>2. QED
            BY <1>8, <1>13, <1>14, <4>2, <5>1
        <4>3. QED
          BY <4>1, <4>2
      <3>3. PICK k \in Nat : PairOf(e, k, In[i])
        BY <1>4, <1>5, <1>13, <3>2 DEF Waiting
      <3>4. PairOf(e, k, Out[j])
        BY <3>2, <3>3
      <3>5. QED
        BY <1>10, <3>4
    <2>4. QED
      BY <1>6, <1>8, <2>1, <2>2, <2>3 DEF Waiting
  <1>16. Paired(e, 0)'
    <2>1. PICK m \in Nat : m = Len(acted[a])
      <3>1. acted[a] \in Seq(Pairs)
        BY <1>4 DEF Paired
      <3>2. QED
        BY <3>1
    <2>2. \/ m + l - 1 = Came(e, 0) /\ Came(e, 1) <= m + l - 1
          \/ m + l - 1 = Came(e, 1) /\ Came(e, 0) <= m + l - 1
      BY <1>4, <1>5, <1>13, <2>1 DEF Paired
    <2>3. m + (l - 1) - 0 = m + l - 1
      BY <1>13, <2>1
    <2>4. Len(acted'[a]) + Len(incoming'[a]) - (IF 0 = 0 THEN 0 ELSE 1) = m + l - 1
      BY <1>3, <1>6, <1>13, <2>1, <2>3
    <2>5. 0 \in 0 .. Len(incoming'[a])
      BY <1>6, <1>7, <1>13
    <2>6. \A j \in 1 .. Len(acted'[a]) : \E k \in Nat : PairOf(e, k, acted[a][j])'
      <3>1. \A j \in 1 .. Len(acted[a]) : \E k \in Nat : PairOf(e, k, acted[a][j])
        BY <1>4 DEF Paired
      <3>2. QED
        BY <1>3, <1>9, <3>1 DEF PairOf
    <2>7. QED
      BY <1>3, <1>4, <1>9, <2>2, <2>4, <2>5, <2>6 DEF Paired
  <1>17. ActsOnce(a, 0 # 0)'
    BY <1>3, <1>4 DEF ActsOnce
  <1>18. AdderAt(e, 0)'
    BY <1>11, <1>15, <1>16, <1>17 DEF AdderAt, AdderSets
  <1>19. ASSUME AdderIdle(e, n) PROVE AdderIdle(e, 0)'
    <2>1. SUFFICES ASSUME a \in active, NEW j \in 1 .. l - 1
                   PROVE  j <= Behind(e, 0) \/ j <= Behind(e, 1)
      BY <1>3, <1>6, <1>9, <1>13 DEF AdderIdle
    <2>2. \A i \in 1 .. l : i <= Behind(e, 0) \/ i <= Behind(e, 1) \/ i = n
      BY <1>5, <1>13, <1>19, <2>1 DEF AdderIdle
    <2>3. CASE j < n
      BY <1>14, <2>2, <2>3
    <2>4. CASE ~(j < n)
      <3>1. j + 1 <= Behind(e, 0) \/ j + 1 <= Behind(e, 1)
        BY <1>7, <1>14, <2>2, <2>4
      <3>2. QED
        BY <1>12, <3>1
    <2>5. QED
      BY <2>3, <2>4
  <1>20. Reported(a)
    <2>1. PICK k \in Nat : PairOf(e, k, In[n])
      BY <1>4, <1>5, <1>7, <1>12 DEF Waiting
    <2>2. \A p \in {0, 1} : In[n][p] # {}
      BY <2>1 DEF PairOf
    <2>3. DOMAIN incoming' = Coms
      BY DEF Typed
    <2>4. QED
      BY <1>2, <1>3, <1>5, <1>6, <1>7, <2>2, <2>3, SetsReported
  <1>21. QED
    BY <1>3, <1>18, <1>19, <1>20

-----------------------------------------------------------------------------
(* A step of the calls on an element, whatever is going on there. *)

(* The component c of e took the step. *)
Stepped(e, c) ==
  /\ Settled(e)' /\ Reported(c) /\ Typed' /\ Only(c) /\ connected' = connected
  /\ c \in persistent => active' = active
  /\ \A p \in {0, 1} : Came(e, p)' = Came(e, p)

LEMMA OnTop ==
  ASSUME NEW f, NEW rest, Above(rest)
  PROVE  <<f>> \o rest # rest
  <1>1. CASE \E g : rest = <<g>>
    <2>1. PICK g : rest = <<g>>
      BY <1>1
    <2>2. <<f>> \o <<g>> = <<f, g>> /\ <<f, g>> # <<g>>
      BY Push
    <2>3. QED
      BY <2>1, <2>2
  <1>2. CASE \E g, h : rest = <<g, h>>
    <2>1. PICK g, h : rest = <<g, h>>
      BY <1>2
    <2>2. <<f>> \o <<g, h>> = <<f, g, h>> /\ <<f, g, h>> # <<g, h>>
      BY Push
    <2>3. QED
      BY <2>1, <2>2
  <1>3. QED
    BY <1>1, <1>2 DEF Above

(* The consumer has returned. *)
LEMMA ConsumerReturned ==
  ASSUME NEW e, NEW rest, Above(rest), stack = rest, ConsumerCall(e, rest)
  PROVE  ConsumerIdle(e) /\ ConsumerAt(e, 0, FALSE) /\ Relayed(e, << >>)
  <1>1. \A f : stack # <<f>> \o rest
    BY OnTop
  <1>2. QED
    BY <1>1 DEF ConsumerCall

LEMMA ConsumerSteps ==
  ASSUME NEW e \in Elts, Typed, Calls, NEW rest, Above(rest), ConsumerCall(e, rest),
         stack # rest, Call, UNCHANGED exVars, NEW n, AdderAt(e, n)
  PROVE  /\ ConsumerCall(e, rest)' /\ Reported(Consumer(e))
         /\ Typed' /\ Only(Consumer(e)) /\ connected' = connected
         /\ (Consumer(e) \in persistent => active' = active)
         /\ AdderAt(e, n)' /\ (AdderIdle(e, n)' <=> AdderIdle(e, n)) /\ (Flushed(e)' <=> Flushed(e))
         /\ \A p \in {0, 1} : Came(e, p)' = Came(e, p)
  <1>1. /\ ConsumerCall(e, rest)' /\ Reported(Consumer(e))
        /\ Typed' /\ Only(Consumer(e)) /\ connected' = connected
        /\ (Consumer(e) \in persistent => active' = active)
    BY ConsumerCallStep
  <1>2. SameAdder(e) /\ SameOutbox(e)
    BY <1>1, OnlyFacts
  <1>3. /\ AdderAt(e, n)' /\ (AdderIdle(e, n)' <=> AdderIdle(e, n))
        /\ \A p \in {0, 1} : Came(e, p)' = Came(e, p)
    BY <1>2, AdderStays
  <1>4. Flushed(e)' <=> Flushed(e)
    BY <1>2, OutboxStays
  <1>5. QED
    BY <1>1, <1>3, <1>4

LEMMA ActingStep ==
  ASSUME NEW e \in Elts, Typed, Calls, Acting(e), Call, UNCHANGED exVars
  PROVE  \E c \in {Adder(e), Consumer(e)} : Stepped(e, c)
  <1> DEFINE a == Adder(e)
             short(n) == <<Staged(a, n)>>
             long(n) == <<Staged(a, n), Activating(a)>>
  <1>1. PICK n \in Nat \ {0} :
          /\ AdderAt(e, n) /\ Flushed(e)
          /\ \/ ConsumerCall(e, short(n)) /\ AdderIdle(e, n)
             \/ ConsumerCall(e, long(n))
    BY DEF Acting
  <1>2. Above(short(n)) /\ Above(long(n))
    BY DEF Above
  <1>3. PICK rest : /\ rest \in {short(n), long(n)} /\ ConsumerCall(e, rest) /\ Above(rest)
                    /\ rest = short(n) => AdderIdle(e, n)
    <2>1. short(n) # long(n)
      OBVIOUS
    <2>2. QED
      BY <1>1, <1>2, <2>1
  <1>4. CASE stack = rest
    <2>1. /\ Head(stack) = Staged(a, n) /\ Head(stack).op = "staged" /\ Head(stack).com = a
          /\ (rest = short(n) => Tail(stack) = << >>)
          /\ (rest = long(n) => Tail(stack) = <<Activating(a)>>)
      <3>1. /\ Head(short(n)) = Staged(a, n) /\ Tail(short(n)) = << >>
            /\ Head(long(n)) = Staged(a, n) /\ Tail(long(n)) = <<Activating(a)>>
        BY StackFacts
      <3>2. Staged(a, n).op = "staged" /\ Staged(a, n).com = a
        BY FrameFacts
      <3> HIDE DEF short, long, a
      <3>3. QED
        BY <1>3, <1>4, <3>1, <3>2
    <2>2. FinishStage
      BY <2>1 DEF Call, Accept, ActivateLoop, TryFlush
    <2>3. a \in Coms
      BY ElementFacts
    <2>4. /\ Typed' /\ Only(a) /\ connected' = connected
          /\ (a \in persistent => active' = active)
      BY <2>1, <2>3, CallOnly
    <2>5. ConsumerIdle(e) /\ ConsumerAt(e, 0, FALSE) /\ Relayed(e, << >>)
      BY <1>3, <1>4, ConsumerReturned
    <2>6. /\ AdderAt(e, 0)' /\ Reported(a) /\ stack' = Tail(stack)
          /\ AdderIdle(e, n) => AdderIdle(e, 0)'
          /\ acted' = acted /\ outbox' = outbox /\ arrived' = arrived
      BY <1>1, <2>1, <2>2, <2>4, AdderFinishes
    <2>7. Flushed(e)' /\ Relayed(e, << >>)' /\ ConsumerAt(e, 0, FALSE)' /\ ConsumerIdle(e)'
      BY <1>1, <2>4, <2>5, <2>6, ResultsStay
    <2>8. CASE rest = short(n)
      <3>1. stack' = << >> /\ AdderIdle(e, 0)'
        BY <1>3, <2>1, <2>6, <2>8
      <3>2. Settled(e)'
        BY <2>6, <2>7, <3>1 DEF Settled, Resting
      <3>3. \A p \in {0, 1} : Came(e, p)' = Came(e, p)
        BY <2>6 DEF Came
      <3>4. QED
        BY <2>4, <2>6, <3>2, <3>3 DEF Stepped
    <2>9. CASE rest = long(n)
      <3>1. stack' = <<Activating(a)>>
        BY <2>1, <2>6, <2>9
      <3>2. Settled(e)'
        BY <2>6, <2>7, <3>1 DEF Settled, Relaying, AdderLoop
      <3>3. \A p \in {0, 1} : Came(e, p)' = Came(e, p)
        BY <2>6 DEF Came
      <3>4. QED
        BY <2>4, <2>6, <3>2, <3>3 DEF Stepped
    <2>10. QED
      BY <1>3, <2>8, <2>9
  <1>5. CASE stack # rest
    <2>1. /\ ConsumerCall(e, rest)' /\ Reported(Consumer(e))
          /\ Typed' /\ Only(Consumer(e)) /\ connected' = connected
          /\ (Consumer(e) \in persistent => active' = active)
          /\ AdderAt(e, n)' /\ (AdderIdle(e, n)' <=> AdderIdle(e, n)) /\ (Flushed(e)' <=> Flushed(e))
          /\ \A p \in {0, 1} : Came(e, p)' = Came(e, p)
      BY <1>1, <1>3, <1>5, ConsumerSteps
    <2>2. Acting(e)'
      BY <1>1, <1>3, <2>1 DEF Acting
    <2>3. Settled(e)'
      BY <2>2 DEF Settled, Relaying
    <2>4. QED
      BY <2>1, <2>3 DEF Stepped
  <1>6. QED
    BY <1>4, <1>5

(* The results of an adder are computed from something. *)
LEMMA ResultsAreValues ==
  ASSUME NEW e \in Elts, NEW n, AdderSets(e, n), Relayed(e, << >>),
         arrived[Consumer(e)] \in [{0} -> Seq(SUBSET Nat)], outbox[Adder(e)] # << >>
  PROVE  Head(outbox[Adder(e)]) \in Values
  <1>1. PICK S : S = SUBSET Nat
    OBVIOUS
  <1>2. PICK x, b : /\ x \in Seq(S) /\ b \in Seq(S) /\ b # << >>
                    /\ x = arrived[Consumer(e)][0] /\ b = outbox[Adder(e)]
    BY <1>1 DEF Relayed
  <1>3. x \in Seq(S) /\ b \in Seq(S) /\ b # << >>
    BY <1>2
  <1>4. Head(b) \in S
    BY <1>3
  <1>5. PICK q : Rests(q, x, b) /\ q = Given(e, << >>)
    BY <1>2 DEF Rests, Given
  <1>6. q \in Seq(S) /\ Carries(q, x, Head(b), Tail(b))
    <2>1. PICK r : Carries(r, x, Head(b), b)
      BY DEF Carries
    <2>2. QED
      BY <1>3, <1>4, <1>5, <2>1, OnTheWay
  <1>7. Head(b) \in ToSet(q)
    <2>1. Tail(b) \in Seq(S)
      BY <1>3
    <2>2. PICK u : Rests(u, x, Tail(b))
      BY DEF Rests
    <2>3. OneMore(q, u, Head(b))
      BY <1>3, <1>4, <1>6, <2>1, <2>2, OnTheWay
    <2>4. QED
      BY <2>3 DEF OneMore
  <1>8. PICK r \in Seq(S) : /\ r = Results(Adder(e)) /\ Len(r) = Len(acted[Adder(e)])
                            /\ \A j \in 1 .. Len(r) : r[j] = Action(acted[Adder(e)][j])
    <2>1. acted[Adder(e)] \in Seq(Pairs)
      BY DEF AdderSets, Paired
    <2>2. QED
      BY <1>1, <2>1, ResultsType
  <1>9. Head(b) \in ToSet(r)
    BY <1>5, <1>7, <1>8 DEF Relayed
  <1>10. PICK j \in 1 .. Len(r) : Head(b) = r[j]
    BY <1>8, <1>9, Elements
  <1>11. PICK k \in Nat : PairOf(e, k, acted[Adder(e)][j])
    BY <1>8, <1>10 DEF AdderSets, Paired
  <1>12. acted[Adder(e)][j] \in Pairs
    <2>1. acted[Adder(e)] \in Seq(Pairs)
      BY DEF AdderSets, Paired
    <2>2. QED
      BY <1>8, <1>10, <2>1
  <1>13. Action(acted[Adder(e)][j]) \in Values
    BY <1>11, <1>12, ActionOnPairOf
  <1>14. QED
    BY <1>2, <1>8, <1>10, <1>13

LEMMA FlushingStep ==
  ASSUME NEW e \in Elts, Typed, Calls, FlushingOutbox(e), Call, UNCHANGED exVars
  PROVE  \E c \in {Adder(e), Consumer(e)} : Stepped(e, c)
  <1> DEFINE a == Adder(e)
             c == Consumer(e)
             rest == <<Flushing(a)>>
  <1>1. AdderAt(e, 0) /\ AdderIdle(e, 0) /\ ConsumerCall(e, rest) /\ Above(rest)
    BY DEF FlushingOutbox, Above
  <1>2. CASE stack = rest
    <2>1. Head(stack).op = "flush" /\ Head(stack).com = a /\ Tail(stack) = << >>
      BY <1>2, StackFacts, FrameFacts
    <2>2. TryFlush
      BY <2>1 DEF Call, Accept, ActivateLoop, FinishStage
    <2>3. a \in Coms /\ Wire[a][1] = c /\ Wire[a][2] = 0
      BY ElementFacts
    <2>4. /\ Typed' /\ Only(a) /\ connected' = connected
          /\ (a \in persistent => active' = active)
      BY <2>1, <2>3, CallOnly
    <2>5. ConsumerIdle(e) /\ ConsumerAt(e, 0, FALSE) /\ Relayed(e, << >>)
      BY <1>1, <1>2, ConsumerReturned
    <2>6. UNCHANGED <<persistent, active, incoming, connected, qd, arrived, acted, activations>>
      BY <2>2 DEF TryFlush
    <2>7. Reported(a)
      BY <2>3, <2>6, NothingReported
    <2>8. AdderAt(e, 0)' /\ AdderIdle(e, 0)' /\ \A p \in {0, 1} : Came(e, p)' = Came(e, p)
      <3>1. SameAdder(e)
        BY <2>6 DEF SameAdder
      <3>2. QED
        BY <1>1, <3>1, AdderStays
    <2>9. ConsumerAt(e, 0, FALSE)' /\ ConsumerIdle(e)'
      <3>1. SameConsumer(e)
        BY <2>6 DEF SameConsumer
      <3>2. QED
        BY <2>5, <3>1, ConsumerStays
    <2>10. arrived[c] \in [{0} -> Seq(SUBSET Nat)]
      BY <2>5 DEF ConsumerAt, ConsumerSets
    <2>11. CASE outbox[a] # << >>
      <3>1. /\ stack' = <<AcceptBy(c, 0, Head(outbox[a]))>> \o stack
            /\ outbox' = [outbox EXCEPT ![a] = Tail(@)]
        BY <2>1, <2>2, <2>3, <2>11 DEF TryFlush
      <3>2. Head(outbox[a]) \in Values
        BY <1>1, <2>5, <2>10, <2>11, ResultsAreValues DEF AdderAt
      <3>3. PICK val \in Values : val = Head(outbox[a])
        BY <3>2
      <3>4. outbox'[a] = Tail(outbox[a])
        BY <2>3, <3>1 DEF Typed
      <3>5. Given(e, <<val>>)' = Given(e, << >>) /\ outbox'[a] \in Seq(SUBSET Nat)
        <4>1. PICK S : S = SUBSET Nat
          OBVIOUS
        <4>2. PICK x, b : /\ x \in Seq(S) /\ b \in Seq(S) /\ b # << >>
                          /\ x = arrived[c][0] /\ b = outbox[a]
          BY <2>5, <2>10, <2>11, <4>1 DEF Relayed
        <4>3. x \in Seq(S) /\ b \in Seq(S) /\ b # << >>
          BY <4>2
        <4>4. Head(b) \in S /\ Tail(b) \in Seq(S)
          BY <4>3
        <4>5. PICK q, r : Rests(q, x, b) /\ q = Given(e, << >>) /\ Carries(r, x, Head(b), b)
          BY <4>2 DEF Rests, Given, Carries
        <4>6. Carries(q, x, Head(b), Tail(b))
          BY <4>3, <4>4, <4>5, OnTheWay
        <4>7. Given(e, <<val>>)' = arrived'[c][0] \o <<val>> \o outbox'[a]
          BY DEF Given
        <4>8. Given(e, <<val>>)' = q
          BY <2>6, <3>3, <3>4, <4>2, <4>6, <4>7 DEF Carries
        <4>9. QED
          BY <3>4, <4>1, <4>2, <4>4, <4>5, <4>8
      <3>6. Relayed(e, <<val>>)'
        <4>1. Results(a)' = Results(a)
          BY <2>6 DEF Results
        <4>2. QED
          BY <2>5, <2>6, <3>5, <4>1 DEF Relayed
      <3>7. ConsumerCall(e, rest)'
        BY <1>2, <2>9, <3>1, <3>3, <3>6 DEF ConsumerCall
      <3>8. Settled(e)'
        BY <2>8, <3>7 DEF Settled, Relaying, FlushingOutbox
      <3>9. QED
        BY <2>4, <2>7, <2>8, <3>8 DEF Stepped
    <2>12. CASE outbox[a] = << >>
      <3>1. stack' = << >> /\ UNCHANGED outbox
        BY <2>1, <2>2, <2>12 DEF TryFlush
      <3>2. Flushed(e)'
        BY <2>12, <3>1 DEF Flushed
      <3>3. Relayed(e, << >>)'
        BY <2>5, <2>6, <3>1 DEF Relayed, Given, Results
      <3>4. Settled(e)'
        BY <2>8, <2>9, <3>1, <3>2, <3>3 DEF Settled, Resting
      <3>5. QED
        BY <2>4, <2>7, <2>8, <3>4 DEF Stepped
    <2>13. QED
      BY <2>11, <2>12
  <1>3. CASE stack # rest
    <2>1. /\ ConsumerCall(e, rest)' /\ Reported(c)
          /\ Typed' /\ Only(c) /\ connected' = connected
          /\ (c \in persistent => active' = active)
          /\ AdderAt(e, 0)' /\ (AdderIdle(e, 0)' <=> AdderIdle(e, 0))
          /\ \A p \in {0, 1} : Came(e, p)' = Came(e, p)
      BY <1>1, <1>3, ConsumerSteps
    <2>2. Settled(e)'
      BY <1>1, <2>1 DEF Settled, Relaying, FlushingOutbox
    <2>3. QED
      BY <2>1, <2>2 DEF Stepped
  <1>4. QED
    BY <1>2, <1>3

-----------------------------------------------------------------------------
(* activate looks for a set that is ready. *)

LEMMA ReadyIs ==
  ASSUME NEW S, NEW c, incoming[c] \in Seq(S)
  PROVE  \/ FindReady(c) = 0 /\ \A j \in 1 .. Len(incoming[c]) : ~IsReady(incoming[c][j])
         \/ FindReady(c) \in 1 .. Len(incoming[c]) /\ IsReady(incoming[c][FindReady(c)])
  <1> DEFINE q == incoming[c]
             I == {j \in 1 .. Len(q) : IsReady(q[j])}
  <1>1. FindReady(c) = IF I # {} THEN Min(I) ELSE 0
    BY DEF FindReady, SelectInSeq
  <1>2. PICK l \in Nat : l = Len(q) /\ I \in SUBSET (1 .. l)
    OBVIOUS
  <1>3. CASE I # {}
    <2>1. Min(I) \in I
      <3> HIDE DEF I
      <3>1. QED
        BY <1>2, <1>3, MinIn
    <2>2. QED
      BY <1>1, <1>3, <2>1
  <1>4. CASE I = {}
    BY <1>1, <1>4
  <1>5. QED
    BY <1>3, <1>4

(* The adder begins to act on a pair that it holds. *)
LEMMA AdderActs ==
  ASSUME NEW e \in Elts, AdderAt(e, 0), activations[Adder(e)] \in Nat,
         NEW n \in 1 .. Len(incoming[Adder(e)]), n > Behind(e, 0), n > Behind(e, 1),
         Adder(e) \in active,
         acted'[Adder(e)] = Append(acted[Adder(e)], incoming[Adder(e)][n]),
         UNCHANGED <<persistent, active, incoming, arrived, activations>>
  PROVE  AdderAt(e, n)'
  <1> DEFINE a == Adder(e)
  <1>1. ArrivedInOrder(e) /\ Waiting(e) /\ Paired(e, 0) /\ ActsOnce(a, FALSE)
    BY DEF AdderAt, AdderSets
  <1>2. PICK In \in Seq(Pairs) : In = incoming[a]
    BY <1>1 DEF Waiting
  <1>3. PICK set \in Pairs : set = In[n]
    BY <1>2
  <1>4. PICK k \in Nat : PairOf(e, k, set)
    BY <1>1, <1>2, <1>3 DEF Waiting
  <1>5. PICK q \in Seq(Pairs) : q = acted[a]
    BY <1>1 DEF Paired
  <1>6. PICK r \in Seq(Pairs) : r = Append(q, set)
    BY <1>5, AppendFacts
  <1>7. /\ Len(r) = Len(q) + 1 /\ r[Len(q) + 1] = set
        /\ \A j \in 1 .. Len(q) : r[j] = q[j]
    BY <1>5, <1>6, AppendFacts
  <1>8. acted'[a] = r
    BY <1>2, <1>3, <1>5, <1>6
  <1>9. \A p : Came(e, p)' = Came(e, p) /\ Behind(e, p)' = Behind(e, p)
    BY DEF Came, Behind
  <1>10. \A i, s : PairOf(e, i, s)' <=> PairOf(e, i, s)
    BY <1>9 DEF PairOf
  <1>11. ArrivedInOrder(e)' /\ Waiting(e)'
    <2>1. ArrivedInOrder(e)'
      BY <1>1, <1>9 DEF ArrivedInOrder
    <2>2. incoming'[a] = In
      BY <1>2
    <2>3. \A p \in {0, 1} : Behind(e, p)' <= Len(In)
      BY <1>1, <1>2, <1>9 DEF Waiting
    <2>4. \A p \in {0, 1} : \A j \in 1 .. Len(In) :
            j <= Behind(e, p)' => In[j][p] = {} /\ In[j][1 - p] = {Came(e, 1 - p)' - j + 1}
      BY <1>1, <1>2, <1>9, SMTT(30) DEF Waiting
    <2>5. \A j \in 1 .. Len(In) : j > Behind(e, 0)' /\ j > Behind(e, 1)' =>
            \E i \in Nat : PairOf(e, i, In[j])'
      BY <1>1, <1>2, <1>9, <1>10 DEF Waiting
    <2>6. Waiting(e)'
      BY <2>2, <2>3, <2>4, <2>5 DEF Waiting
    <2>7. QED
      BY <2>1, <2>6
  <1>12. PICK m \in Nat, l \in Nat : m = Len(q) /\ l = Len(In)
    BY <1>2, <1>5
  <1>13. \A j \in 1 .. Len(r) : \E i \in Nat : PairOf(e, i, r[j])'
    <2> TAKE j \in 1 .. Len(r)
    <2>1. CASE j = m + 1
      BY <1>4, <1>7, <1>10, <1>12, <2>1
    <2>2. CASE j # m + 1
      <3>1. j \in 1 .. m
        BY <1>7, <1>12, <2>2
      <3>2. \E i \in Nat : PairOf(e, i, q[j])
        BY <1>1, <1>5, <1>12, <3>1 DEF Paired
      <3>3. QED
        BY <1>7, <1>10, <1>12, <3>1, <3>2
    <2>3. QED
      BY <2>1, <2>2
  <1>14. Paired(e, n)'
    <2>1. \/ m + l = Came(e, 0) /\ Came(e, 1) <= m + l
          \/ m + l = Came(e, 1) /\ Came(e, 0) <= m + l
      <3>1. m + l - 0 = m + l
        BY <1>12
      <3>2. QED
        BY <1>1, <1>2, <1>5, <1>12, <3>1 DEF Paired
    <2>2. Len(acted'[a]) + Len(incoming'[a]) - (IF n = 0 THEN 0 ELSE 1) = m + l
      <3>1. (m + 1) + l - 1 = m + l /\ n # 0
        BY <1>12
      <3>2. QED
        BY <1>2, <1>7, <1>8, <1>12, <3>1
    <2>3. n \in 0 .. Len(incoming'[a])
      BY <1>2, <1>12
    <2>4. acted'[a] \in Seq(Pairs) /\ \A j \in 1 .. Len(acted'[a]) : \E i \in Nat : PairOf(e, i, acted[a][j])'
      BY <1>8, <1>13 DEF PairOf
    <2>5. QED
      BY <1>9, <2>1, <2>2, <2>3, <2>4 DEF Paired
  <1>15. ActsOnce(a, n # 0)'
    <2>1. n # 0
      OBVIOUS
    <2>2. Len(acted'[a]) = m + 1 /\ Len(acted[a]) = m
      BY <1>5, <1>7, <1>8, <1>12
    <2>3. a \notin persistent => m + 1 <= activations[a]
      BY <1>1, <2>2 DEF ActsOnce
    <2>4. a \notin persistent => m + 1 + 0 <= activations[a]
      BY <1>12, <2>3
    <2>5. QED
      BY <2>1, <2>2, <2>4 DEF ActsOnce
  <1>16. QED
    BY <1>11, <1>14, <1>15 DEF AdderAt, AdderSets

LEMMA AdderLoopStep ==
  ASSUME NEW e \in Elts, Typed, Calls, AdderLoop(e), Call, UNCHANGED exVars
  PROVE  Stepped(e, Adder(e))
  <1> DEFINE a == Adder(e)
             In == incoming[a]
  <1>1. /\ stack = <<Activating(a)>> /\ AdderAt(e, 0) /\ Flushed(e)
        /\ ConsumerAt(e, 0, FALSE) /\ ConsumerIdle(e) /\ Relayed(e, << >>)
    BY DEF AdderLoop
  <1>2. PICK f : f = Head(stack) /\ f.op = "activate" /\ f.com = a /\ Tail(stack) = << >>
    BY <1>1, StackFacts, FrameFacts
  <1>3. ActivateLoop
    BY <1>2 DEF Call, Accept, TryFlush, FinishStage
  <1>4. a \in Coms
    BY ElementFacts
  <1>5. /\ Typed' /\ Only(a) /\ connected' = connected
        /\ (a \in persistent => active' = active)
    BY <1>2, <1>4, CallOnly
  <1>6. UNCHANGED <<persistent, active, incoming, connected, qd, arrived, activations>>
    BY <1>3 DEF ActivateLoop
  <1>7. Reported(a)
    BY <1>4, <1>6, NothingReported
  <1>8. \A p \in {0, 1} : Came(e, p)' = Came(e, p)
    BY <1>6 DEF Came
  <1>9. ArrivedInOrder(e) /\ Waiting(e) /\ Paired(e, 0) /\ In \in Seq(Pairs)
    BY <1>1 DEF AdderAt, AdderSets, Waiting
  <1>10. \A j \in 1 .. Len(In) : IsReady(In[j]) <=> ~(j <= Behind(e, 0)) /\ ~(j <= Behind(e, 1))
    <2> TAKE j \in 1 .. Len(In)
    <2>1. In[j] \in Pairs
      BY <1>9
    <2>2. IsReady(In[j]) <=> In[j][0] # {} /\ In[j][1] # {}
      BY <2>1, ActionOfPair
    <2>3. (In[j][0] = {} <=> j <= Behind(e, 0)) /\ (In[j][1] = {} <=> j <= Behind(e, 1))
      BY <1>9, EmptyAt
    <2>4. QED
      BY <2>2, <2>3
  <1>11. SameConsumer(e)
    BY <1>5, OnlyFacts
  <1>12. CASE a \in active /\ FindReady(a) # 0
    <2>1. PICK n \in 1 .. Len(In) : n = FindReady(a) /\ IsReady(In[n])
      BY <1>9, <1>12, ReadyIs
    <2>2. PICK set \in Pairs : set = In[n]
      BY <1>9, <2>1
    <2>3. n > Behind(e, 0) /\ n > Behind(e, 1)
      <3>1. Behind(e, 0) \in Int /\ Behind(e, 1) \in Int
        BY <1>9, CameType
      <3>2. QED
        BY <1>10, <2>1, <3>1
    <2>4. PICK k \in Nat : PairOf(e, k, set)
      BY <1>9, <2>1, <2>2, <2>3 DEF Waiting
    <2>5. Action(set) \in Values
      BY <2>4, ActionOnPairOf
    <2>6. StageAction(a, set, n, <<Activating(a)>>)
      <3>1. StageAction(a, incoming[a][FindReady(a)], FindReady(a), <<Activating(a)>> \o << >>)
        BY <1>2, <1>3, <1>12 DEF ActivateLoop, Again
      <3>2. <<Activating(a)>> \o << >> = <<Activating(a)>>
        BY StackFacts
      <3>3. QED
        BY <2>1, <2>2, <3>1, <3>2
    <2>7. Below(<<Activating(a)>>)
      BY DEF Below
    <2>8. acted[a] \in Seq(Pairs)
      BY <1>9 DEF Paired
    <2>9. /\ acted'[a] = Append(acted[a], set)
          /\ ConsumerCall(e, <<Staged(a, n)>> \o <<Activating(a)>>)' /\ Flushed(e)'
      BY <1>1, <1>6, <1>11, <2>5, <2>6, <2>7, <2>8, AdderStages
    <2>10. ConsumerCall(e, <<Staged(a, n), Activating(a)>>)'
      <3>1. <<Staged(a, n)>> \o <<Activating(a)>> = <<Staged(a, n), Activating(a)>>
        BY Push
      <3>2. QED
        BY <2>9, <3>1
    <2>11. activations[a] \in Nat
      BY <1>4 DEF Typed
    <2>12. AdderAt(e, n)'
      BY <1>1, <1>6, <1>12, <2>2, <2>3, <2>9, <2>11, AdderActs
    <2>13. n \in Nat \ {0}
      OBVIOUS
    <2>14. Settled(e)'
      BY <2>9, <2>10, <2>12, <2>13 DEF Settled, Relaying, Acting
    <2>15. QED
      BY <1>5, <1>7, <1>8, <2>14 DEF Stepped
  <1>13. CASE ~(a \in active /\ FindReady(a) # 0)
    <2>1. stack' = << >> /\ UNCHANGED <<outbox, acted>>
      BY <1>2, <1>3, <1>13 DEF ActivateLoop
    <2>2. AdderIdle(e, 0)
      <3>1. a \in active => \A j \in 1 .. Len(In) : ~IsReady(In[j])
        BY <1>9, <1>13, ReadyIs
      <3>2. QED
        BY <1>10, <3>1 DEF AdderIdle
    <2>3. AdderAt(e, 0)' /\ AdderIdle(e, 0)'
      <3>1. SameAdder(e)
        BY <1>6, <2>1 DEF SameAdder
      <3>2. QED
        BY <1>1, <2>2, <3>1, AdderStays
    <2>4. Flushed(e)' /\ Relayed(e, << >>)' /\ ConsumerAt(e, 0, FALSE)' /\ ConsumerIdle(e)'
      BY <1>1, <1>5, <2>1, ResultsStay
    <2>5. Settled(e)'
      BY <2>1, <2>3, <2>4 DEF Settled, Resting
    <2>6. QED
      BY <1>5, <1>7, <1>8, <2>5 DEF Stepped
  <1>14. QED
    BY <1>12, <1>13

LEMMA ConsumerLoopStep ==
  ASSUME NEW e \in Elts, Typed, Calls, ConsumerLoop(e), Call, UNCHANGED exVars
  PROVE  Stepped(e, Consumer(e))
  <1> DEFINE c == Consumer(e)
             In == incoming[c]
             once == <<Activating(c)>>
             acting(m) == <<Staged(c, m), Activating(c)>>
  <1>1. AdderAt(e, 0) /\ AdderIdle(e, 0) /\ Flushed(e) /\ Relayed(e, << >>)
    BY DEF ConsumerLoop
  <1>2. /\ c \in Coms /\ c \notin connected /\ NIn[c] = 1 /\ Ports(c) = {0} /\ Wire[c] = << >>
        /\ activations[c] \in Nat
    BY ElementFacts DEF Typed
  <1>3. ASSUME Only(c), connected' = connected,
               outbox' = outbox, arrived' = arrived
        PROVE  /\ AdderAt(e, 0)' /\ AdderIdle(e, 0)' /\ Flushed(e)' /\ Relayed(e, << >>)'
               /\ \A p \in {0, 1} : Came(e, p)' = Came(e, p)
    <2>1. SameAdder(e) /\ SameOutbox(e)
      BY <1>3, OnlyFacts
    <2>2. Results(Adder(e))' = Results(Adder(e))
      BY <2>1 DEF SameAdder, Results
    <2>3. Given(e, << >>)' = Given(e, << >>)
      BY <1>3 DEF Given
    <2>4. Relayed(e, << >>)'
      BY <1>1, <1>3, <2>1, <2>2, <2>3 DEF Relayed, SameAdder
    <2>5. QED
      BY <1>1, <2>1, <2>4, AdderStays, OutboxStays
  <1>4. CASE stack = once /\ ConsumerAt(e, 0, FALSE)
    <2>1. PICK f : f = Head(stack) /\ f.op = "activate" /\ f.com = c /\ Tail(stack) = << >>
      BY <1>4, StackFacts, FrameFacts
    <2>2. ActivateLoop
      BY <2>1 DEF Call, Accept, TryFlush, FinishStage
    <2>3. /\ Typed' /\ Only(c) /\ connected' = connected
          /\ (c \in persistent => active' = active)
      BY <1>2, <2>1, CallOnly
    <2>4. UNCHANGED <<persistent, active, incoming, connected, qd, arrived, activations>>
      BY <2>2 DEF ActivateLoop
    <2>5. Reported(c)
      BY <1>2, <2>4, NothingReported
    <2>6. /\ In \in Seq(Singles) /\ acted[c] \in Seq(Singles)
          /\ arrived[c] \in [{0} -> Seq(SUBSET Nat)]
          /\ \A j \in 1 .. Len(In) : In[j][0] # {}
          /\ Len(arrived[c][0]) = Len(acted[c]) + Len(In)
      BY <1>4, ConsumerCounts DEF ConsumerAt
    <2>7. ActsOnce(c, FALSE)
      BY <1>4 DEF ConsumerAt
    <2>8. CASE c \in active /\ FindReady(c) # 0
      <3>1. PICK n \in 1 .. Len(In) : n = FindReady(c)
        BY <2>6, <2>8, ReadyIs
      <3>2. PICK set \in Singles : set = In[n]
        BY <2>6, <3>1
      <3>3. StageAction(c, set, n, once)
        <4>1. StageAction(c, incoming[c][FindReady(c)], FindReady(c), once \o << >>)
          BY <2>1, <2>2, <2>8 DEF ActivateLoop, Again
        <4>2. once \o << >> = once
          BY StackFacts
        <4>3. QED
          BY <3>1, <3>2, <4>1, <4>2
      <3>4. /\ acted' = [acted EXCEPT ![c] = Append(@, set)]
            /\ stack' = <<Staged(c, n)>> \o once /\ outbox' = outbox
        BY <1>2, <3>3 DEF StageAction
      <3>5. stack' = acting(n)
        BY <3>4, Push
      <3>6. PICK q \in Seq(Singles) : q = acted[c]
        BY <2>6
      <3>7. acted'[c] = Append(q, set) /\ Append(q, set) \in Seq(Singles)
            /\ Len(Append(q, set)) = Len(q) + 1
        BY <1>2, <3>4, <3>6, AppendFacts DEF Typed
      <3>8. PICK x \in Nat, l \in Nat : x = Len(q) /\ l = Len(In) /\ n # 0
        <4>1. Len(q) \in Nat
          BY <3>6
        <4>2. Len(In) \in Nat
          <5>1. In \in Seq(Singles)
            BY <2>6
          <5> HIDE DEF In
          <5>2. QED
            BY <5>1
        <4>3. n # 0
          BY <4>2
        <4>4. QED
          BY <4>1, <4>2, <4>3
      <3>9. ConsumerSets(e, n)'
        <4>1. Len(arrived'[c][0]) = Len(acted'[c]) + Len(incoming'[c]) - (IF n = 0 THEN 0 ELSE 1)
          <5>1. x + l = (x + 1) + l - 1 /\ n # 0
            <6>1. x + l = (x + 1) + l - 1
              OBVIOUS
            <6>2. QED
              BY <3>8, <6>1
          <5>2. QED
            BY <2>4, <2>6, <3>6, <3>7, <3>8, <5>1
        <4>2. n \in 0 .. Len(incoming'[c])
          BY <2>4, <3>8
        <4>3. QED
          BY <2>4, <2>6, <3>7, <4>1, <4>2 DEF ConsumerSets
      <3>10. ActsOnce(c, TRUE)'
        <4>1. c \notin persistent => x + 1 <= activations[c]
          BY <2>7, <2>8, <3>6, <3>8 DEF ActsOnce
        <4>2. c \notin persistent => x + 1 + 0 <= activations[c]
          BY <3>8, <4>1
        <4>3. QED
          BY <2>4, <2>8, <3>7, <3>8, <4>2 DEF ActsOnce
      <3>11. ConsumerLoop(e)'
        <4>1. n \in Nat \ {0}
          OBVIOUS
        <4>2. ConsumerAt(e, n, TRUE)'
          BY <3>9, <3>10 DEF ConsumerAt
        <4>3. AdderAt(e, 0)' /\ AdderIdle(e, 0)' /\ Flushed(e)' /\ Relayed(e, << >>)'
          BY <1>3, <2>3, <2>4, <3>4
        <4>4. QED
          BY <3>5, <4>1, <4>2, <4>3 DEF ConsumerLoop
      <3>12. \A p \in {0, 1} : Came(e, p)' = Came(e, p)
        BY <1>3, <2>3, <2>4, <3>4
      <3>13. QED
        BY <2>3, <2>5, <3>11, <3>12 DEF Stepped, Settled, Relaying
    <2>9. CASE ~(c \in active /\ FindReady(c) # 0)
      <3>1. stack' = << >> /\ UNCHANGED <<outbox, acted>>
        BY <2>1, <2>2, <2>9 DEF ActivateLoop
      <3>2. ConsumerIdle(e)
        <4>1. SUFFICES ASSUME c \in active PROVE In = << >>
          BY DEF ConsumerIdle
        <4>2. \A j \in 1 .. Len(In) : ~IsReady(In[j])
          <5>1. In \in Seq(Singles)
            BY <2>6
          <5>2. \/ FindReady(c) = 0 /\ \A j \in 1 .. Len(In) : ~IsReady(In[j])
                \/ FindReady(c) \in 1 .. Len(In) /\ IsReady(In[FindReady(c)])
            BY <5>1, ReadyIs
          <5>3. FindReady(c) = 0
            BY <2>9, <4>1
          <5>4. 0 \notin 1 .. Len(In)
            BY <5>1
          <5>5. QED
            BY <5>2, <5>3, <5>4
        <4>3. \A j \in 1 .. Len(In) : IsReady(In[j])
          <5> TAKE j \in 1 .. Len(In)
          <5>1. In[j] \in Singles /\ In[j][0] # {}
            BY <2>6
          <5>2. QED
            BY <5>1 DEF IsReady, Singles, NoValue
        <4>4. 1 \notin 1 .. Len(In)
          BY <4>2, <4>3
        <4>5. PICK q \in Seq(Singles) : q = In
          BY <2>6
        <4>6. QED
          BY <4>4, <4>5
      <3>3. ConsumerAt(e, 0, FALSE)' /\ ConsumerIdle(e)'
        <4>1. SameConsumer(e)
          BY <2>4, <3>1 DEF SameConsumer
        <4>2. QED
          BY <1>4, <3>2, <4>1, ConsumerStays
      <3>4. /\ AdderAt(e, 0)' /\ AdderIdle(e, 0)' /\ Flushed(e)' /\ Relayed(e, << >>)'
            /\ \A p \in {0, 1} : Came(e, p)' = Came(e, p)
        BY <1>3, <2>3, <2>4, <3>1
      <3>5. QED
        BY <2>3, <2>5, <3>1, <3>3, <3>4 DEF Stepped, Settled, Resting
    <2>10. QED
      BY <2>8, <2>9
  <1>5. CASE \E m \in Nat \ {0} : stack = acting(m) /\ ConsumerAt(e, m, TRUE)
    <2>1. PICK m \in Nat \ {0} : stack = acting(m) /\ ConsumerAt(e, m, TRUE)
      BY <1>5
    <2>2. PICK f : /\ f = Head(stack) /\ f.op = "staged" /\ f.com = c /\ f.at = m
                   /\ Tail(stack) = once
      BY <2>1, StackFacts, FrameFacts
    <2>3. FinishStage
      BY <2>2 DEF Call, Accept, ActivateLoop, TryFlush
    <2>4. /\ Typed' /\ Only(c) /\ connected' = connected
          /\ (c \in persistent => active' = active)
      BY <1>2, <2>2, CallOnly
    <2>5. /\ active' = IF c \in persistent THEN active ELSE active \ {c}
          /\ incoming' = [incoming EXCEPT ![c] = RemoveAt(@, m)]
          /\ qd' = qd - NIn[c] /\ stack' = once
          /\ UNCHANGED <<persistent, outbox, connected, arrived, acted, activations>>
      BY <2>2, <2>3 DEF FinishStage, Processed
    <2>6. /\ In \in Seq(Singles) /\ acted[c] \in Seq(Singles)
          /\ arrived[c] \in [{0} -> Seq(SUBSET Nat)]
          /\ \A j \in 1 .. Len(In) : In[j][0] # {}
          /\ m \in 0 .. Len(In)
          /\ Len(arrived[c][0]) = Len(acted[c]) + Len(In) - 1
      BY <2>1 DEF ConsumerAt, ConsumerSets
    <2>7. PICK q \in Seq(Singles), l \in Nat, x \in Nat : q = In /\ l = Len(In) /\ x = Len(acted[c])
      BY <2>6
    <2>8. m \in 1 .. Len(q)
      BY <2>6, <2>7
    <2>9. PICK r : r = RemoveAt(q, m)
      OBVIOUS
    <2>10. /\ r \in Seq(Singles) /\ Len(r) = Len(q) - 1
           /\ \A j \in 1 .. Len(r) : j < m => r[j] = q[j]
           /\ \A j \in 1 .. Len(r) : ~(j < m) => r[j] = q[j + 1]
      <3>1. q \in Seq(Singles) /\ m \in 1 .. Len(q) /\ r = RemoveAt(q, m)
        BY <2>7, <2>8, <2>9
      <3>2. Shortened(Singles, r, q, m)
        BY <3>1, RemovedFacts
      <3>3. QED
        BY <3>2 DEF Shortened
    <2>11. incoming'[c] = r
      BY <1>2, <2>5, <2>7, <2>9 DEF Typed
    <2>12. \A j \in 1 .. Len(r) : r[j][0] # {}
      <3> TAKE j \in 1 .. Len(r)
      <3>1. j \in 1 .. l /\ j + 1 \in 1 .. l
        BY <2>7, <2>10
      <3>2. QED
        BY <2>6, <2>7, <2>10, <3>1
    <2>13. ConsumerSets(e, 0)'
      <3>1. Len(arrived'[c][0]) = Len(acted'[c]) + Len(r)
        <4>1. x + l - 1 = x + (l - 1)
          BY <2>7
        <4>2. QED
          BY <2>5, <2>6, <2>7, <2>10, <4>1
      <3>2. QED
        BY <2>5, <2>6, <2>10, <2>11, <2>12, <3>1, ConsumerCounted
    <2>14. ActsOnce(c, FALSE)'
      <3>1. ActsOnce(c, TRUE)
        BY <2>1 DEF ConsumerAt
      <3>2. QED
        BY <2>5, <3>1 DEF ActsOnce
    <2>15. Reported(c)
      <3>1. \A p \in Ports(c) : incoming[c][m][p] # {}
        BY <1>2, <2>6, <2>7, <2>8
      <3>2. DOMAIN incoming' = Coms /\ incoming'[c] = RemoveAt(incoming[c], m)
        BY <2>4, <2>7, <2>9, <2>11 DEF Typed
      <3>3. m \in 1 .. Len(incoming[c])
        BY <2>7, <2>8
      <3>4. QED
        BY <1>2, <2>4, <2>5, <2>6, <3>1, <3>2, <3>3, SetsReported
    <2>16. /\ AdderAt(e, 0)' /\ AdderIdle(e, 0)' /\ Flushed(e)' /\ Relayed(e, << >>)'
           /\ \A p \in {0, 1} : Came(e, p)' = Came(e, p)
      BY <1>3, <2>4, <2>5
    <2>17. ConsumerLoop(e)'
      BY <2>5, <2>13, <2>14, <2>16 DEF ConsumerLoop, ConsumerAt
    <2>18. QED
      BY <2>4, <2>15, <2>16, <2>17 DEF Stepped, Settled, Relaying
  <1>6. QED
    BY <1>4, <1>5 DEF ConsumerLoop

-----------------------------------------------------------------------------
(* Whom the elements send to. *)

(* The only multiple of n strictly between -n and n is 0. *)
LEMMA SmallMultiple ==
  ASSUME NEW n \in Nat \ {0}, NEW k \in Int, k * n < n, -n < k * n
  PROVE  k = 0
  BY SMT

LEMMA DivMod ==
  ASSUME NEW n \in Nat \ {0}, NEW t \in Nat
  PROVE  t \div n \in Nat /\ t % n \in 0 .. n - 1 /\ t = n * (t \div n) + (t % n)
  BY SMT

(* Once around at most. *)
LEMMA Around ==
  ASSUME NEW n \in Nat \ {0}, NEW t \in Nat, t < 2 * n
  PROVE  t % n = IF t < n THEN t ELSE t - n
  <1>1. PICK q \in Nat, r \in 0 .. n - 1 : t = n * q + r /\ r = t % n
    BY DivMod
  <1>2. CASE t < n
    <2>1. q * n < n /\ -n < q * n
      BY <1>1, <1>2
    <2>2. q = 0
      BY <2>1, SmallMultiple
    <2>3. QED
      BY <1>1, <1>2, <2>2
  <1>3. CASE t >= n
    <2>1. (q - 1) * n = q * n - n
      BY <1>1
    <2>2. (q - 1) * n < n /\ -n < (q - 1) * n /\ q - 1 \in Int
      BY <1>1, <1>3, <2>1
    <2>3. q - 1 = 0
      BY <2>2, SmallMultiple
    <2>4. q = 1
      BY <2>3
    <2>5. QED
      BY <1>1, <1>3, <2>4
  <1>4. QED
    BY <1>2, <1>3

LEMMA Destinations ==
  ASSUME NEW mine \in Elts
  PROVE  /\ Even(mine) \in Elts /\ Even(mine) % 2 = 0
         /\ Odd(mine) \in Elts /\ Odd(mine) % 2 = 1
         /\ Even(mine) # Odd(mine)
  <1>1. PICK n \in Nat \ {0}, h \in Nat : n = NumElts /\ n = 2 * h
    BY ElementFacts
  <1>2. PICK k \in Nat, b \in {0, 1} : mine = 2 * k + b /\ b = mine % 2 /\ mine < n /\ mine \in Nat
    BY <1>1 DEF Elts
  <1>3. Elts = 0 .. n - 1
    BY <1>1 DEF Elts
  <1>4. PICK x \in Nat : x = mine + (2 - b) /\ x = 2 * (k + 1) /\ x < 2 * n
    BY <1>1, <1>2
  <1>5. PICK y \in Nat : y = mine + b + 1 /\ y = 2 * (k + b) + 1 /\ y < 2 * n
    BY <1>1, <1>2
  <1>6. Even(mine) = (IF x < n THEN x ELSE x - n)
    <2>1. x % n = (IF x < n THEN x ELSE x - n)
      BY <1>4, Around
    <2>2. Even(mine) = x % n
      BY <1>1, <1>2, <1>4 DEF Even
    <2>3. QED
      BY <2>1, <2>2
  <1>7. Odd(mine) = (IF y < n THEN y ELSE y - n)
    <2>1. y % n = (IF y < n THEN y ELSE y - n)
      BY <1>5, Around
    <2>2. Odd(mine) = y % n
      BY <1>1, <1>2, <1>5 DEF Odd
    <2>3. QED
      BY <2>1, <2>2
  <1>8. Even(mine) \in Elts /\ Even(mine) % 2 = 0
    BY <1>1, <1>2, <1>3, <1>4, <1>6
  <1>9. Odd(mine) \in Elts /\ Odd(mine) % 2 = 1
    BY <1>1, <1>2, <1>3, <1>5, <1>7
  <1>10. QED
    BY <1>8, <1>9

(* Everybody is sent to by two elements. *)
LEMMA SendersOf ==
  ASSUME NEW e \in Elts
  PROVE  IsFiniteSet(Senders(e)) /\ Cardinality(Senders(e)) = 2
  <1>1. PICK n \in Nat \ {0}, h \in Nat : n = NumElts /\ n = 2 * h /\ h > 0
    BY ElementFacts
  <1>2. Elts = 0 .. n - 1
    BY <1>1 DEF Elts
  <1>3. PICK s1 \in Elts : s1 = IF e = 0 THEN n - 1 ELSE e - 1
    BY <1>1, <1>2
  <1>4. PICK s2 \in Elts : s2 = IF e = 0 THEN n - 2 ELSE IF e = 1 THEN n - 1 ELSE e - 2
    BY <1>1, <1>2
  <1>5. s1 # s2
    BY <1>1, <1>2, <1>3, <1>4
  <1>6. \A s \in Elts : Even(s) = e \/ Odd(s) = e <=> s = s1 \/ s = s2
    <2> TAKE s \in Elts
    <2>1. PICK k \in Nat, b \in {0, 1} : s = 2 * k + b /\ b = s % 2 /\ s < n /\ s \in Nat
      BY <1>2, SMTT(30)
    <2>2. PICK x \in Nat : x = s + (2 - b) /\ x = 2 * (k + 1) /\ x < 2 * n
      BY <1>1, <2>1
    <2>3. PICK y \in Nat : y = s + b + 1 /\ y = 2 * (k + b) + 1 /\ y < 2 * n
      BY <1>1, <2>1
    <2>4. Even(s) = (IF x < n THEN x ELSE x - n)
      <3>1. x % n = (IF x < n THEN x ELSE x - n)
        BY <2>2, Around
      <3>2. Even(s) = x % n
        BY <1>1, <2>1, <2>2 DEF Even
      <3>3. QED
        BY <3>1, <3>2
    <2>5. Odd(s) = (IF y < n THEN y ELSE y - n)
      <3>1. y % n = (IF y < n THEN y ELSE y - n)
        BY <2>3, Around
      <3>2. Odd(s) = y % n
        BY <1>1, <2>1, <2>3 DEF Odd
      <3>3. QED
        BY <3>1, <3>2
    <2>6. e \in 0 .. n - 1 /\ s \in 0 .. n - 1
      BY <1>2
    <2>7. PICK j \in Nat, c \in {0, 1} : e = 2 * j + c
      <3>1. e \div 2 \in Nat /\ e % 2 \in {0, 1} /\ e = 2 * (e \div 2) + (e % 2)
        BY <2>6
      <3>2. QED
        BY <3>1
    <2>8. CASE b = 0
      <3>1. x = s + 2 /\ y = s + 1
        BY <2>1, <2>2, <2>3, <2>8
      <3>2. CASE e = 0
        BY <1>1, <1>3, <1>4, <2>1, <2>4, <2>5, <2>6, <2>8, <3>1, <3>2
      <3>3. CASE e = 1
        BY <1>1, <1>3, <1>4, <2>1, <2>4, <2>5, <2>6, <2>8, <3>1, <3>3
      <3>4. CASE e > 1
        BY <1>1, <1>3, <1>4, <2>1, <2>4, <2>5, <2>6, <2>7, <2>8, <3>1, <3>4
      <3>5. QED
        BY <2>6, <3>2, <3>3, <3>4
    <2>9. CASE b = 1
      <3>1. x = s + 1 /\ y = s + 2
        BY <2>1, <2>2, <2>3, <2>9
      <3>2. CASE e = 0
        BY <1>1, <1>3, <1>4, <2>1, <2>4, <2>5, <2>6, <2>9, <3>1, <3>2
      <3>3. CASE e = 1
        BY <1>1, <1>3, <1>4, <2>1, <2>4, <2>5, <2>6, <2>9, <3>1, <3>3
      <3>4. CASE e > 1
        BY <1>1, <1>3, <1>4, <2>1, <2>4, <2>5, <2>6, <2>7, <2>9, <3>1, <3>4
      <3>5. QED
        BY <2>6, <3>2, <3>3, <3>4
    <2>10. QED
      BY <2>8, <2>9
  <1>7. Senders(e) = {s1} \cup {s2}
    BY <1>6 DEF Senders
  <1>8. /\ IsFiniteSet({s1}) /\ Cardinality({s1}) = 1 /\ IsFiniteSet({s2}) /\ Cardinality({s2}) = 1
        /\ {s1} \cap {s2} = {}
    BY <1>5, FS_Singleton
  <1>9. /\ IsFiniteSet({s1} \cup {s2})
        /\ Cardinality({s1} \cup {s2}) = Cardinality({s1}) + Cardinality({s2}) - Cardinality({s1} \cap {s2})
    BY <1>8, FS_Union
  <1>10. Cardinality({s1} \cap {s2}) = 0
    BY <1>8, FS_EmptySet
  <1>11. QED
    BY <1>7, <1>8, <1>9, <1>10

(* The iterations with one remainder. *)
Turns(r) == {it \in 0 .. NumIters - 1 : it % 4 = r}

LEMMA TurnsCount ==
  ASSUME NEW r \in 0 .. 3
  PROVE  Cardinality(Turns(r)) = NumIters \div 4
  <1>1. PICK q \in Nat : q = NumIters \div 4 /\ NumIters = 4 * q
    BY ElementFacts
  <1> DEFINE D == 1 .. q
             f == [i \in D |-> 4 * (i - 1) + r]
  <1>2. f \in Bijection(D, Turns(r))
    <2>1. \A i \in D : f[i] \in Turns(r)
      BY <1>1 DEF Turns
    <2>2. \A i, j \in D : f[i] = f[j] => i = j
      OBVIOUS
    <2>3. \A it \in Turns(r) : \E i \in D : f[i] = it
      <3> TAKE it \in Turns(r)
      <3>1. it \in 0 .. 4 * q - 1 /\ it % 4 = r
        BY <1>1 DEF Turns
      <3>2. PICK k \in Nat : k = it \div 4 /\ it = 4 * k + r
        BY <3>1
      <3>3. k + 1 \in D /\ f[k + 1] = it
        BY <3>1, <3>2
      <3>4. QED
        BY <3>3
    <2>4. f \in [D -> Turns(r)]
      BY <2>1
    <2>5. QED
      BY <2>2, <2>3, <2>4 DEF Bijection, Injection, Surjection, IsInjective
  <1>3. ExistsBijection(D, Turns(r))
    BY <1>2 DEF ExistsBijection
  <1>4. IsFiniteSet(D) /\ Cardinality(D) = q
    <2>1. 1 \in Int /\ q \in Int /\ (IF 1 > q THEN 0 ELSE q - 1 + 1) = q
      OBVIOUS
    <2>2. QED
      BY <2>1, FS_Interval
  <1> HIDE DEF D, f
  <1>5. Cardinality(Turns(r)) = q
    BY <1>3, <1>4, FS_Bijection
  <1>6. QED
    BY <1>1, <1>5

(* Which messages of an element go to a port of d, and in which type. *)
Turn(mine, d, p) == 2 * p + (IF d = Odd(mine) THEN 1 ELSE 0)

LEMMA MessageFacts ==
  ASSUME NEW mine \in Elts, NEW it \in Nat
  PROVE  /\ MessageOf(mine, it) \in Messages
         /\ LET m == MessageOf(mine, it)
            IN  /\ m[1] \in {Even(mine), Odd(mine)} /\ m[2] \in {0, 1}
                /\ m[3] = PortType(m[1], m[2])
                /\ it % 4 = Turn(mine, m[1], m[2])
         /\ \A d \in {Even(mine), Odd(mine)}, p \in {0, 1} :
              it % 4 = Turn(mine, d, p) => MessageOf(mine, it) = <<d, p, PortType(d, p)>>
  <1>1. PICK a \in Elts, b \in Elts :
          a = Even(mine) /\ b = Odd(mine) /\ a % 2 = 0 /\ b % 2 = 1 /\ a # b
    BY Destinations
  <1>2. PICK r \in 0 .. 3 : r = it % 4
    OBVIOUS
  <1>3. it % 2 = r % 2
    BY <1>2
  <1>4. /\ PortType(a, 0) = "int" /\ PortType(a, 1) = "double"
        /\ PortType(b, 0) = "double" /\ PortType(b, 1) = "int"
    BY <1>1 DEF PortType
  <1>5. /\ r = 0 => MessageOf(mine, it) = <<a, 0, "int">>
        /\ r = 1 => MessageOf(mine, it) = <<b, 0, "double">>
        /\ r = 2 => MessageOf(mine, it) = <<a, 1, "double">>
        /\ r = 3 => MessageOf(mine, it) = <<b, 1, "int">>
    BY <1>1, <1>2, <1>3 DEF MessageOf
  <1>6. /\ Turn(mine, a, 0) = 0 /\ Turn(mine, b, 0) = 1
        /\ Turn(mine, a, 1) = 2 /\ Turn(mine, b, 1) = 3
    BY <1>1 DEF Turn
  <1>7. r = 0 \/ r = 1 \/ r = 2 \/ r = 3
    OBVIOUS
  <1>8. QED
    <2>1. CASE r = 0
      BY <1>1, <1>2, <1>4, <1>5, <1>6, <2>1 DEF Messages, Types
    <2>2. CASE r = 1
      BY <1>1, <1>2, <1>4, <1>5, <1>6, <2>2 DEF Messages, Types
    <2>3. CASE r = 2
      BY <1>1, <1>2, <1>4, <1>5, <1>6, <2>3 DEF Messages, Types
    <2>4. CASE r = 3
      BY <1>1, <1>2, <1>4, <1>5, <1>6, <2>4 DEF Messages, Types
    <2>5. QED
      BY <1>7, <2>1, <2>2, <2>3, <2>4

(* What an element sends to a port: as much as everybody else, or nothing. *)
LEMMA SentTo ==
  ASSUME NEW mine \in Elts, NEW d \in Elts, NEW p \in {0, 1}
  PROVE  Cardinality({it \in 0 .. NumIters - 1 : MessageOf(mine, it) = <<d, p, PortType(d, p)>>})
           = IF mine \in Senders(d) THEN NumIters \div 4 ELSE 0
  <1> DEFINE M == {it \in 0 .. NumIters - 1 : MessageOf(mine, it) = <<d, p, PortType(d, p)>>}
  <1>1. mine \in Senders(d) <=> d \in {Even(mine), Odd(mine)}
    BY DEF Senders
  <1>2. \A it \in 0 .. NumIters - 1 : it \in Nat
    BY ElementFacts
  <1>3. CASE d \in {Even(mine), Odd(mine)}
    <2>1. \A it \in 0 .. NumIters - 1 :
            MessageOf(mine, it) = <<d, p, PortType(d, p)>> <=> it % 4 = Turn(mine, d, p)
      <3> TAKE it \in 0 .. NumIters - 1
      <3>1. /\ it % 4 = Turn(mine, d, p) => MessageOf(mine, it) = <<d, p, PortType(d, p)>>
            /\ it % 4 = Turn(mine, MessageOf(mine, it)[1], MessageOf(mine, it)[2])
        BY <1>2, <1>3, MessageFacts
      <3>2. QED
        BY <3>1
    <2>2. M = Turns(Turn(mine, d, p))
      BY <2>1 DEF Turns
    <2>3. Turn(mine, d, p) \in 0 .. 3
      BY DEF Turn
    <2>4. QED
      BY <1>1, <1>3, <2>2, <2>3, TurnsCount
  <1>4. CASE d \notin {Even(mine), Odd(mine)}
    <2>1. \A it \in 0 .. NumIters - 1 : MessageOf(mine, it) # <<d, p, PortType(d, p)>>
      <3> TAKE it \in 0 .. NumIters - 1
      <3>1. MessageOf(mine, it)[1] \in {Even(mine), Odd(mine)}
        BY <1>2, MessageFacts
      <3>2. QED
        BY <1>4, <3>1
    <2>2. M = {}
      BY <2>1
    <2>3. QED
      BY <1>1, <1>4, <2>2, FS_EmptySet
  <1>5. QED
    BY <1>3, <1>4

-----------------------------------------------------------------------------
(* The steps of the calls keep the invariant. *)

(* Only an adder's accept is counted as on its way. *)
NoneAccepted == \A d \in Elts, q \in {0, 1} : Accepted(d, q) = 0

SettledOnTop == \A e \in Elts : Settled(e) => NoneAccepted

LEMMA SettledTop == SettledOnTop
  <1>1. SUFFICES ASSUME NEW e \in Elts, Settled(e) PROVE NoneAccepted
    BY DEF SettledOnTop
  <1> DEFINE a == Adder(e)
             c == Consumer(e)
             Quiet == \/ stack = << >> \/ Head(stack).op # "accept"
                      \/ Head(stack).com = c
  <1>2. SUFFICES Quiet
    BY ElementFacts DEF NoneAccepted, Accepted
  <1>3. \A n, f : /\ Head(<<Staged(a, n)>>).op # "accept"
                  /\ Head(<<Staged(a, n), f>>).op # "accept"
                  /\ Head(<<Staged(c, n), f>>).op # "accept"
    BY StackFacts, FrameFacts
  <1>4. /\ Head(<<Flushing(a)>>).op # "accept"
        /\ Head(<<Activating(a)>>).op # "accept" /\ Head(<<Activating(c)>>).op # "accept"
    BY StackFacts, FrameFacts
  <1>5. ASSUME NEW rest, Above(rest), Head(rest).op # "accept", ConsumerCall(e, rest)
        PROVE  Quiet
    <2>1. CASE stack = rest
      BY <1>5, <2>1
    <2>2. CASE \E val : stack = <<AcceptBy(c, 0, val)>> \o rest
      BY <1>5, <2>2, CallAbove, FrameFacts
    <2>3. CASE stack = <<Staged(c, 0)>> \o rest
      BY <1>5, <2>3, CallAbove, FrameFacts
    <2>4. QED
      BY <1>5, <2>1, <2>2, <2>3 DEF ConsumerCall
  <1>6. CASE stack = << >>
    BY <1>6
  <1>7. CASE Acting(e)
    <2>1. PICK n : \/ ConsumerCall(e, <<Staged(a, n)>>)
                   \/ ConsumerCall(e, <<Staged(a, n), Activating(a)>>)
      BY <1>7 DEF Acting
    <2>2. Above(<<Staged(a, n)>>) /\ Above(<<Staged(a, n), Activating(a)>>)
      BY DEF Above
    <2> HIDE DEF Quiet
    <2>3. QED
      BY <1>3, <1>5, <2>1, <2>2
  <1>8. CASE FlushingOutbox(e)
    <2>1. Above(<<Flushing(a)>>) /\ ConsumerCall(e, <<Flushing(a)>>)
      BY <1>8 DEF Above, FlushingOutbox
    <2> HIDE DEF Quiet
    <2>2. QED
      BY <1>4, <1>5, <2>1
  <1>9. CASE AdderLoop(e)
    BY <1>4, <1>9 DEF AdderLoop
  <1>10. CASE ConsumerLoop(e)
    BY <1>3, <1>4, <1>10 DEF ConsumerLoop
  <1>11. QED
    BY <1>1, <1>6, <1>7, <1>8, <1>9, <1>10 DEF Settled, Relaying

LEMMA AcceptingTop ==
  ASSUME NEW e \in Elts, NEW p \in {0, 1}, NEW v, stack = <<AcceptBy(Adder(e), p, v)>>
  PROVE  \A d \in Elts, q \in {0, 1} : Accepted(d, q) = IF d = e /\ q = p THEN 1 ELSE 0
  <1>1. /\ stack # << >> /\ Head(stack).op = "accept"
        /\ Head(stack).com = Adder(e) /\ Head(stack).port = p
    BY StackFacts, FrameFacts
  <1>2. \A d \in Elts : Adder(e) = Adder(d) <=> d = e
    BY ElementFacts
  <1>3. QED
    BY <1>1, <1>2 DEF Accepted

(* The values that come to the adder of e are accounted for. *)
Account(e) ==
  \A p \in {0, 1} : Came(e, p)' + Accepted(e, p)' = Came(e, p) + Accepted(e, p)

Moved(e, c) ==
  /\ Settled(e)' /\ Reported(c) /\ Typed' /\ Only(c) /\ connected' = connected
  /\ c \in persistent => active' = active
  /\ Account(e)

LEMMA CameNat ==
  ASSUME Calls
  PROVE  \A e \in Elts, p \in {0, 1} : Came(e, p) \in Nat
  <1>1. TAKE e \in Elts, p \in {0, 1}
  <1>2. ArrivedInOrder(e)
    BY SetsOfElements DEF AdderSets
  <1>3. QED
    BY <1>2, CameType

LEMMA BusyStep ==
  ASSUME NEW e \in Elts, Typed, Calls, Busy(e), Call, UNCHANGED exVars
  PROVE  \E c \in {Adder(e), Consumer(e)} : Moved(e, c)
  <1>1. SettledOnTop /\ SettledOnTop'
    BY SettledTop, PTL
  <1>2. CASE Relaying(e)
    <2>1. PICK c \in {Adder(e), Consumer(e)} : Stepped(e, c)
      BY <1>2, ActingStep, FlushingStep, AdderLoopStep, ConsumerLoopStep DEF Relaying
    <2>2. Settled(e) /\ Settled(e)'
      BY <1>2, <2>1 DEF Settled, Stepped
    <2>3. \A p \in {0, 1} : Accepted(e, p) = 0 /\ Accepted(e, p)' = 0
      BY <1>1, <2>2 DEF SettledOnTop, NoneAccepted
    <2>4. Account(e)
      BY <2>1, <2>3 DEF Account, Stepped
    <2>5. QED
      BY <2>1, <2>4 DEF Stepped, Moved
  <1>3. CASE Accepting(e)
    <2>1. PICK p \in {0, 1} : stack = <<AcceptBy(Adder(e), p, {Came(e, p) + 1})>> /\ Resting(e)
      BY <1>3 DEF Accepting
    <2>2. Head(stack).op = "accept" /\ Head(stack).com = Adder(e)
      BY <2>1, StackFacts, FrameFacts
    <2>3. Accept
      BY <2>2 DEF Call, FinishStage, ActivateLoop, TryFlush
    <2>4. /\ Typed' /\ Only(Adder(e)) /\ connected' = connected
          /\ (Adder(e) \in persistent => active' = active)
      BY <2>2, ElementFacts, CallOnly
    <2>5. /\ Settled(e)' /\ Reported(Adder(e))
          /\ Came(e, p)' = Came(e, p) + 1 /\ Came(e, 1 - p)' = Came(e, 1 - p)
      BY <2>1, <2>3, <2>4, AdderAccepts
    <2>6. \A q \in {0, 1} : Accepted(e, q) = (IF q = p THEN 1 ELSE 0) /\ Accepted(e, q)' = 0
      <3>1. \A q \in {0, 1} : Accepted(e, q) = (IF q = p THEN 1 ELSE 0)
        BY <2>1, AcceptingTop
      <3>2. \A q \in {0, 1} : Accepted(e, q)' = 0
        BY <1>1, <2>5 DEF SettledOnTop, NoneAccepted
      <3>3. QED
        BY <3>1, <3>2
    <2>7. Account(e)
      <3>1. \A q \in {0, 1} : Came(e, q) \in Nat /\ (q = p \/ q = 1 - p) /\ p # 1 - p
        BY CameNat
      <3>2. \A x \in Nat : (x + 1) + 0 = x + 1
        OBVIOUS
      <3>3. QED
        BY <2>5, <2>6, <3>1, <3>2 DEF Account
    <2>8. QED
      BY <2>4, <2>5, <2>7 DEF Moved
  <1>4. QED
    BY <1>2, <1>3 DEF Busy

(* The balance of a port when the messages under way have not changed. *)
LEMMA ExchangeStays ==
  ASSUME Exchanged, UNCHANGED exVars, \A e \in Elts : Account(e)
  PROVE  Exchanged'
  BY DEF Exchanged, exVars, Account

LEMMA CallStep ==
  ASSUME Inv, Call, UNCHANGED exVars
  PROVE  Inv'
  <1>1. Typed /\ Calls /\ Counted /\ Online /\ Exchanged
    BY DEF Inv
  <1>2. stack # << >>
    BY DEF Call, Accept, FinishStage, ActivateLoop, TryFlush
  <1>3. PICK e \in Elts : /\ Busy(e) /\ (exchanging => e \in constructed)
                          /\ \A d \in Elts \ {e} : Resting(d)
    BY <1>1, <1>2 DEF Calls
  <1>4. PICK c \in {Adder(e), Consumer(e)} : Moved(e, c)
    BY <1>1, <1>3, BusyStep
  <1>5. c \in Coms /\ OnlyElement(e)
    BY <1>4, ElementFacts, OnlyFacts DEF Moved
  <1>6. \A d \in Elts \ {e} : Resting(d)'
    BY <1>3, <1>5, OthersRest
  <1>7. exchanging' = exchanging /\ constructed' = constructed /\ net' = net
    BY DEF exVars
  <1>8. Calls'
    <2>1. CASE stack' = << >> /\ Resting(e)'
      BY <1>6, <2>1 DEF Calls
    <2>2. CASE Relaying(e)'
      <3>1. Busy(e)'
        BY <2>2 DEF Busy
      <3>2. QED
        BY <1>3, <1>6, <1>7, <3>1 DEF Calls
    <2>3. QED
      BY <1>4, <2>1, <2>2 DEF Moved, Settled
  <1>9. Counted'
    BY <1>1, <1>4, <1>5, <1>8, CountedStep DEF Moved, Typed
  <1>10. Online'
    <2>1. SUFFICES ASSUME exchanging PROVE Online'
      BY <1>7 DEF Online
    <2>2. persistent = Coms /\ e \in constructed
      BY <1>1, <1>3, <2>1 DEF Online
    <2>3. active' = active /\ connected' = connected /\ persistent' = persistent
      BY <1>4, <1>5, <2>2 DEF Moved, Only
    <2>4. \A d \in Elts \ constructed : arrived'[Adder(d)] = arrived[Adder(d)]
      BY <1>5, <2>2 DEF OnlyElement, SameAdder
    <2>5. QED
      BY <1>1, <1>7, <2>1, <2>3, <2>4 DEF Online
  <1>11. Exchanged'
    <2>1. SettledOnTop /\ SettledOnTop'
      BY SettledTop, PTL
    <2>2. ASSUME NEW d \in Elts, d # e, NEW q \in {0, 1}
          PROVE  Accepted(d, q) = 0 /\ Accepted(d, q)' = 0
      <3>1. Accepted(d, q)' = 0
        BY <1>4, <2>1 DEF SettledOnTop, NoneAccepted, Moved
      <3>2. CASE Accepting(e)
        <4>1. PICK p \in {0, 1} : stack = <<AcceptBy(Adder(e), p, {Came(e, p) + 1})>>
          BY <3>2 DEF Accepting
        <4>2. Accepted(d, q) = 0
          BY <2>2, <4>1, AcceptingTop
        <4>3. QED
          BY <3>1, <4>2
      <3>3. CASE Relaying(e)
        <4>1. Settled(e)
          BY <3>3 DEF Settled
        <4>2. QED
          BY <2>1, <3>1, <4>1 DEF SettledOnTop, NoneAccepted
      <3>4. QED
        BY <1>3, <3>2, <3>3 DEF Busy
    <2>3. \A d \in Elts : Account(d)
      <3> TAKE d \in Elts
      <3>1. CASE d = e
        BY <1>4, <3>1 DEF Moved
      <3>2. CASE d # e
        <4>1. \A q : Came(d, q)' = Came(d, q)
          BY <1>5, <3>2 DEF OnlyElement, SameAdder, Came
        <4>2. QED
          BY <2>2, <3>2, <4>1 DEF Account
      <3>3. QED
        BY <3>1, <3>2
    <2>4. QED
      BY <1>1, <2>3, ExchangeStays
  <1>12. QED
    BY <1>4, <1>8, <1>9, <1>10, <1>11 DEF Inv, Moved

-----------------------------------------------------------------------------
(* The calls from outside. *)

(* All that the elements have stays. *)
SameElements == UNCHANGED <<persistent, active, incoming, outbox, connected, arrived, acted,
                            activations>>

LEMMA ElementsStay ==
  ASSUME SameElements
  PROVE  /\ \A e \in Elts : SameAdder(e) /\ SameConsumer(e) /\ SameOutbox(e)
         /\ \A e \in Elts : Resting(e) => Resting(e)'
         /\ \A e \in Elts : \A p : Came(e, p)' = Came(e, p)
         /\ Held' = Held
  <1> USE DEF SameElements
  <1>1. \A e \in Elts : SameAdder(e) /\ SameConsumer(e) /\ SameOutbox(e)
    BY DEF SameAdder, SameConsumer, SameOutbox
  <1>2. \A e \in Elts : Resting(e) => Resting(e)'
    BY <1>1, AdderStays, ConsumerStays, OutboxStays DEF Resting
  <1>3. \A e \in Elts : \A p : Came(e, p)' = Came(e, p)
    BY DEF Came
  <1>4. Held' = Held
    BY DEF Held, HeldBy
  <1>5. QED
    BY <1>1, <1>2, <1>3, <1>4

LEMMA AtRestTop ==
  (stack = << >> => NoneAccepted) /\ (stack' = << >> => NoneAccepted')
  BY DEF NoneAccepted, Accepted

LEMMA BusyStack ==
  ASSUME NEW e, Busy(e)
  PROVE  stack # << >>
  <1>1. \A rest : Above(rest) => rest # << >> /\ \A f : <<f>> \o rest # << >>
    BY CallAbove DEF Above
  <1>2. \A rest : Above(rest) /\ ConsumerCall(e, rest) => stack # << >>
    BY <1>1 DEF ConsumerCall
  <1>3. CASE Acting(e)
    <2>1. \A n : Above(<<Staged(Adder(e), n)>>) /\ Above(<<Staged(Adder(e), n), Activating(Adder(e))>>)
      BY DEF Above
    <2>2. QED
      BY <1>2, <1>3, <2>1 DEF Acting
  <1>4. CASE FlushingOutbox(e)
    <2>1. Above(<<Flushing(Adder(e))>>)
      BY DEF Above
    <2>2. QED
      BY <1>2, <1>4, <2>1 DEF FlushingOutbox
  <1>5. CASE AdderLoop(e)
    BY <1>5, StackFacts DEF AdderLoop
  <1>6. CASE ConsumerLoop(e)
    BY <1>6, StackFacts DEF ConsumerLoop
  <1>7. CASE Accepting(e)
    BY <1>7, StackFacts DEF Accepting
  <1>8. QED
    BY <1>3, <1>4, <1>5, <1>6, <1>7 DEF Busy, Relaying

LEMMA AllRest ==
  ASSUME Calls, stack = << >>
  PROVE  \A d \in Elts : Resting(d)
  BY BusyStack DEF Calls

(* A value for an adder. *)
LEMMA DeliverFacts ==
  ASSUME Typed, Calls, NEW c \in Coms, NEW p \in Ports(c), Deliver(c, p)
  PROVE  \E e \in Elts :
           /\ c = Adder(e) /\ p \in {0, 1} /\ Accepting(e)' /\ SameElements /\ qd' = qd
           /\ \A d \in Elts : Resting(d) /\ Resting(d)'
  <1>1. PICK e \in Elts : c = Adder(e) \/ c = Consumer(e)
    BY ElementFacts
  <1>2. c = Adder(e)
    <2>1. SUFFICES ASSUME c = Consumer(e) PROVE FALSE
      BY <1>1
    <2>2. p = 0 /\ Adder(e) \in Coms /\ Wire[Adder(e)] = <<c, p>>
      BY <2>1, ElementFacts
    <2>3. QED
      BY <2>2 DEF Deliver
  <1>3. p \in {0, 1}
    BY <1>2, ElementFacts
  <1>4. SameElements /\ qd' = qd /\ stack' = <<AcceptBy(Adder(e), p, {Came(e, p) + 1})>>
    BY <1>2 DEF Deliver, SameElements, Came
  <1>5. \A d \in Elts : Resting(d) /\ Resting(d)'
    <2>1. stack = << >>
      BY DEF Deliver
    <2>3. \A d \in Elts : Resting(d)
      BY <2>1, AllRest
    <2>4. QED
      BY <1>4, <2>3, ElementsStay
  <1>6. Accepting(e)'
    <2>1. Came(e, p)' = Came(e, p)
      BY <1>4, ElementsStay
    <2>2. QED
      BY <1>3, <1>4, <1>5, <2>1 DEF Accepting
  <1>7. QED
    BY <1>2, <1>3, <1>4, <1>5, <1>6

(* Nothing was given by an adder, or all of it has reached the consumer. *)
LEMMA NothingGiven ==
  ASSUME NEW e, outbox[Adder(e)] \in Seq(SUBSET Nat),
         arrived[Consumer(e)] \in [{0} -> Seq(SUBSET Nat)]
  PROVE  /\ Len(Given(e, << >>)) = Len(arrived[Consumer(e)][0]) + Len(outbox[Adder(e)])
         /\ Len(Given(e, << >>)) = 0 =>
              outbox[Adder(e)] = << >> /\ arrived[Consumer(e)][0] = << >>
  <1>1. PICK S : S = SUBSET Nat
    OBVIOUS
  <1>2. PICK x \in Seq(S), b \in Seq(S) : x = arrived[Consumer(e)][0] /\ b = outbox[Adder(e)]
    BY <1>1
  <1>3. << >> \in Seq(S)
    OBVIOUS
  <1>4. PICK y \in Seq(S) : y = x \o << >> /\ Len(y) = Len(x)
    BY <1>2, <1>3, Joined
  <1>5. Len(y \o b) = Len(y) + Len(b)
    BY <1>2, <1>4, Joined
  <1>6. Given(e, << >>) = y \o b
    BY <1>2, <1>4 DEF Given
  <1>7. Len(Given(e, << >>)) = Len(x) + Len(b)
    BY <1>4, <1>5, <1>6
  <1>8. Len(x) + Len(b) = 0 => x = << >> /\ b = << >>
    <2>1. Len(x) \in Nat /\ Len(b) \in Nat
      BY <1>2
    <2>2. \A z \in Seq(S) : Len(z) = 0 => z = << >>
      OBVIOUS
    <2>3. Len(x) + Len(b) = 0 => Len(x) = 0 /\ Len(b) = 0
      <3>1. PICK i \in Nat, j \in Nat : i = Len(x) /\ j = Len(b)
        BY <2>1
      <3>2. i + j = 0 => i = 0 /\ j = 0
        OBVIOUS
      <3>3. QED
        BY <3>1, <3>2
    <2>4. QED
      BY <1>2, <2>2, <2>3
  <1>9. QED
    BY <1>2, <1>7, <1>8

LEMMA AcceptMessageStep ==
  ASSUME Inv, NEW m \in Messages, AcceptMessage(m)
  PROVE  Inv'
  <1>1. Typed /\ Calls /\ Counted /\ Online /\ Exchanged
    BY DEF Inv
  <1>2. PICK e \in Elts, p \in {0, 1}, t \in Types : m = <<e, p, t>>
    BY DEF Messages
  <1>3. /\ e \in constructed /\ net[m] > 0 /\ net' = [net EXCEPT ![m] = @ - 1]
        /\ Deliver(Adder(e), p) /\ exchanging' = exchanging /\ constructed' = constructed
    BY <1>2 DEF AcceptMessage
  <1>4. exchanging /\ t = PortType(e, p)
    BY <1>1, <1>2, <1>3 DEF Exchanged
  <1>5. Adder(e) \in Coms /\ p \in Ports(Adder(e))
    BY ElementFacts
  <1>6. /\ Accepting(e)' /\ SameElements /\ qd' = qd
        /\ \A d \in Elts : Resting(d) /\ Resting(d)'
    BY <1>1, <1>3, <1>5, DeliverFacts, ElementFacts
  <1>7. net \in [Messages -> Nat] /\ net' \in [Messages -> Nat]
        /\ net'[m] = net[m] - 1 /\ \A k \in Messages \ {m} : net'[k] = net[k]
    BY <1>1, <1>3 DEF Typed
  <1>8. Typed'
    BY <1>1, <1>3, <1>6, <1>7 DEF Typed, SameElements
  <1>9. Calls'
    BY <1>3, <1>6 DEF Calls, Busy
  <1>10. Counted'
    BY <1>1, <1>6, ElementsStay DEF Counted
  <1>11. Online'
    BY <1>1, <1>3, <1>6 DEF Online, SameElements
  <1>12. Exchanged'
    <2>1. \A k \in Messages : net'[k] > 0 => exchanging' /\ k[3] = PortType(k[1], k[2])
      <3>1. \A k \in Messages : net'[k] > 0 => net[k] > 0
        BY <1>7
      <3>2. QED
        BY <1>1, <1>3, <3>1 DEF Exchanged
    <2>2. ASSUME NEW d \in Elts, NEW q \in {0, 1}
          PROVE  net'[<<d, q, PortType(d, q)>>] + (Came(d, q)' + Accepted(d, q)')
                   = net[<<d, q, PortType(d, q)>>] + (Came(d, q) + Accepted(d, q))
      <3>1. Came(d, q)' = Came(d, q) /\ Came(d, q) \in Nat
        BY <1>1, <1>6, ElementsStay, CameNat
      <3>2. Accepted(d, q) = 0
        <4>1. stack = << >>
          BY <1>3 DEF Deliver
        <4>2. QED
          BY <4>1, AtRestTop DEF NoneAccepted
      <3>3. Accepted(d, q)' = IF d = e /\ q = p THEN 1 ELSE 0
        <4>1. PICK v : stack' = <<AcceptBy(Adder(e), p, v)>>
          BY <1>3 DEF Deliver
        <4>2. /\ stack' # << >> /\ Head(stack').op = "accept"
              /\ Head(stack').com = Adder(e) /\ Head(stack').port = p
          BY <4>1, StackFacts, FrameFacts
        <4>3. Adder(e) = Adder(d) <=> d = e
          BY ElementFacts
        <4>4. QED
          BY <4>2, <4>3 DEF Accepted
      <3>4. PICK k \in Messages : k = <<d, q, PortType(d, q)>>
        BY DEF Messages, Types, PortType
      <3>5. CASE d = e /\ q = p
        <4>1. k = m
          BY <1>2, <1>4, <3>4, <3>5
        <4>2. \A x, y \in Nat : x > 0 => (x - 1) + (y + 1) = x + (y + 0)
          OBVIOUS
        <4>3. net[k] \in Nat /\ net[k] > 0 /\ net'[k] = net[k] - 1
          BY <1>3, <1>7, <4>1
        <4>4. QED
          BY <3>1, <3>2, <3>3, <3>4, <3>5, <4>2, <4>3
      <3>6. CASE ~(d = e /\ q = p)
        <4>1. k # m
          BY <1>2, <3>4, <3>6
        <4>2. net'[k] = net[k]
          BY <1>7, <4>1
        <4>3. QED
          BY <3>1, <3>2, <3>3, <3>4, <3>6, <4>2
      <3>7. QED
        BY <3>5, <3>6
    <2>3. QED
      BY <1>1, <1>3, <2>1, <2>2 DEF Exchanged
  <1>13. QED
    BY <1>8, <1>9, <1>10, <1>11, <1>12 DEF Inv

(* Without exchanging nothing is promised of the exchange. *)
LEMMA Undriven ==
  ASSUME Inv, ~exchanging, UNCHANGED exVars
  PROVE  Online' /\ Exchanged'
  BY DEF Inv, Online, Exchanged, exVars

LEMMA DriveStep ==
  ASSUME Inv, NEW c \in {Adder(0), Consumer(0)}, Drive(c)
  PROVE  Inv'
  <1>1. Typed /\ Calls /\ Counted /\ Online /\ Exchanged
    BY DEF Inv
  <1>2. ~exchanging /\ UNCHANGED exVars
    BY DEF Drive
  <1>3. PICK e \in Elts : e = 0 /\ c \in {Adder(e), Consumer(e)} /\ c \in Coms
    BY ElementFacts
  <1>4. stack = << >>
    BY DEF Drive, Deliver, Activate, OutputTo
  <1>5. \A d \in Elts : Resting(d)
    BY <1>1, <1>4, AllRest
  <1>6. Online' /\ Exchanged'
    BY <1>2, Undriven
  <1>7. exchanging' = exchanging /\ constructed' = constructed /\ net' = net
    BY <1>2 DEF exVars
  <1>8. SUFFICES Typed' /\ Calls' /\ Counted'
    BY <1>6 DEF Inv
  <1>9. CASE \E p \in Ports(c) : Deliver(c, p)
    <2>1. PICK d \in Elts : /\ Accepting(d)' /\ SameElements /\ qd' = qd
                            /\ \A x \in Elts : Resting(x) /\ Resting(x)'
      BY <1>1, <1>3, <1>9, DeliverFacts
    <2>2. Typed'
      BY <1>1, <1>7, <2>1 DEF Typed, SameElements
    <2>3. Calls'
      BY <1>2, <1>7, <2>1 DEF Calls, Busy
    <2>4. Counted'
      BY <1>1, <2>1, ElementsStay DEF Counted
    <2>5. QED
      BY <2>2, <2>3, <2>4
  <1>10. ASSUME Only(c), Typed', UNCHANGED <<incoming, qd>>, Settled(e)'
         PROVE  Calls' /\ Counted'
    <2>1. \A d \in Elts \ {e} : Resting(d)'
      BY <1>3, <1>5, <1>10, OnlyFacts, OthersRest
    <2>2. Calls'
      <3>1. CASE stack' = << >> /\ Resting(e)'
        BY <2>1, <3>1 DEF Calls
      <3>2. CASE Relaying(e)'
        <4>1. Busy(e)'
          BY <3>2 DEF Busy
        <4>2. QED
          BY <1>2, <1>7, <2>1, <4>1 DEF Calls
      <3>3. QED
        BY <1>10, <3>1, <3>2 DEF Settled
    <2>3. Held' = Held
      BY <1>10 DEF Held, HeldBy
    <2>4. QED
      BY <1>1, <1>10, <2>2, <2>3 DEF Counted
  <1>11. Resting(e)
    BY <1>5
  <1>12. /\ AdderAt(e, 0) /\ AdderIdle(e, 0) /\ Flushed(e) /\ ConsumerAt(e, 0, FALSE)
         /\ ConsumerIdle(e) /\ Relayed(e, << >>)
         /\ AdderSets(e, 0) /\ ActsOnce(Adder(e), FALSE)
         /\ ConsumerSets(e, 0) /\ ActsOnce(Consumer(e), FALSE)
    BY <1>11 DEF Resting, AdderAt, ConsumerAt
  <1>13. CASE Activate(c)
    <2>1. /\ c \notin active /\ active' = active \cup {c}
          /\ activations' = [activations EXCEPT ![c] = @ + 1]
          /\ stack' = <<Activating(c)>>
          /\ UNCHANGED <<persistent, incoming, outbox, connected, qd, arrived, acted>>
      BY <1>13 DEF Activate
    <2>2. Typed' /\ Only(c)
      BY <1>1, <1>3, <1>7, <2>1 DEF Typed, Only
    <2>3. ActsOnce(c, FALSE)'
      <3>1. PICK x \in Nat, y \in Nat : x = Len(acted[c]) /\ y = activations[c]
        <4>1. acted[c] \in Seq(Pairs) \/ acted[c] \in Seq(Singles)
          BY <1>3, <1>12 DEF AdderSets, Paired, ConsumerSets
        <4>2. Len(acted[c]) \in Nat
          BY <4>1
        <4>3. activations[c] \in Nat
          BY <1>1, <1>3 DEF Typed
        <4>4. QED
          BY <4>2, <4>3
      <3>2. c \notin persistent => x + 0 <= y
        BY <1>3, <1>12, <2>1, <3>1 DEF ActsOnce
      <3>3. activations'[c] = y + 1
        BY <1>1, <1>3, <2>1, <3>1 DEF Typed
      <3>4. c \notin persistent => x + 1 <= y + 1
        BY <3>1, <3>2
      <3>5. QED
        BY <2>1, <3>1, <3>3, <3>4 DEF ActsOnce
    <2>4. Relayed(e, << >>)' /\ Flushed(e)'
      BY <1>12, <2>1 DEF Relayed, Given, Results, Flushed
    <2>5. CASE c = Adder(e)
      <3>1. AdderSets(e, 0)'
        BY <1>12, <2>1 DEF AdderSets, ArrivedInOrder, Waiting, Paired, Came, Behind, PairOf
      <3>2. ConsumerAt(e, 0, FALSE)' /\ ConsumerIdle(e)'
        <4>1. SameConsumer(e)
          BY <2>2, <2>5, OnlyFacts
        <4>2. QED
          BY <1>12, <4>1, ConsumerStays
      <3>3. AdderLoop(e)'
        BY <2>1, <2>3, <2>4, <2>5, <3>1, <3>2 DEF AdderLoop, AdderAt
      <3>4. QED
        BY <1>10, <2>1, <2>2, <3>3 DEF Settled, Relaying
    <2>6. CASE c = Consumer(e)
      <3>1. ConsumerSets(e, 0)'
        BY <1>12, <2>1 DEF ConsumerSets
      <3>2. AdderAt(e, 0)' /\ AdderIdle(e, 0)'
        <4>1. SameAdder(e)
          BY <2>2, <2>6, OnlyFacts
        <4>2. QED
          BY <1>12, <4>1, AdderStays
      <3>3. ConsumerLoop(e)'
        BY <2>1, <2>3, <2>4, <2>6, <3>1, <3>2 DEF ConsumerLoop, ConsumerAt
      <3>4. QED
        BY <1>10, <2>1, <2>2, <3>3 DEF Settled, Relaying
    <2>7. QED
      BY <1>3, <2>5, <2>6
  <1>14. CASE OutputTo(c)
    <2>1. c = Adder(e)
      BY <1>3, <1>14, ElementFacts DEF OutputTo
    <2>2. /\ connected' = connected \cup {c}
          /\ stack' = IF c \in active THEN <<Flushing(c)>> ELSE << >>
          /\ UNCHANGED <<persistent, active, incoming, outbox, qd, arrived, acted, activations>>
      BY <1>14 DEF OutputTo
    <2>3. Typed' /\ Only(c)
      BY <1>1, <1>3, <1>7, <2>1, <2>2 DEF Typed, Only
    <2>4. SameAdder(e) /\ SameConsumer(e)
      BY <2>2 DEF SameAdder, SameConsumer
    <2>5. /\ AdderAt(e, 0)' /\ AdderIdle(e, 0)' /\ ConsumerAt(e, 0, FALSE)' /\ ConsumerIdle(e)'
      BY <1>12, <2>4, AdderStays, ConsumerStays
    <2>6. Relayed(e, << >>)'
      BY <1>12, <2>2 DEF Relayed, Given, Results
    <2>7. CASE c \in active
      <3>1. stack' = <<Flushing(c)>>
        BY <2>2, <2>7
      <3>2. ConsumerCall(e, <<Flushing(c)>>)'
        BY <2>5, <2>6, <3>1 DEF ConsumerCall
      <3>3. Relaying(e)'
        BY <2>1, <2>5, <3>2 DEF Relaying, FlushingOutbox
      <3>4. QED
        BY <1>10, <2>2, <2>3, <3>3 DEF Settled
    <2>8. CASE c \notin active
      <3>1. stack' = << >>
        BY <2>2, <2>8
      <3>2. c \in persistent => outbox[c] = << >>
        <4>1. SUFFICES ASSUME acted[c] = << >> PROVE outbox[c] = << >>
          BY <1>12, <2>1, <2>8 DEF ActsOnce
        <4>2. Len(Given(e, << >>)) = 0
          BY <1>12, <2>1, <4>1 DEF Relayed
        <4>3. outbox[c] \in Seq(SUBSET Nat) /\ arrived[Consumer(e)] \in [{0} -> Seq(SUBSET Nat)]
          BY <1>12, <2>1 DEF Relayed, ConsumerSets
        <4>4. QED
          BY <2>1, <4>2, <4>3, NothingGiven
      <3>3. Flushed(e)'
        BY <2>1, <2>2, <3>2 DEF Flushed
      <3>4. Settled(e)'
        BY <2>5, <2>6, <3>1, <3>3 DEF Settled, Resting
      <3>5. QED
        BY <1>10, <2>2, <2>3, <3>4
    <2>9. QED
      BY <2>7, <2>8
  <1>15. QED
    BY <1>9, <1>13, <1>14 DEF Drive

-----------------------------------------------------------------------------
(* The constructor of an element finds it empty. *)

Empty(e) ==
  /\ incoming[Adder(e)] = << >> /\ acted[Adder(e)] = << >> /\ outbox[Adder(e)] = << >>
  /\ incoming[Consumer(e)] = << >> /\ acted[Consumer(e)] = << >>
  /\ arrived[Consumer(e)][0] = << >>

LEMMA BothZero == \A i, j \in Nat : (i + j = 0 \/ i + j - 0 = 0) => i = 0 /\ j = 0
  OBVIOUS

LEMMA LengthZero ==
  ASSUME NEW S, NEW q \in Seq(S), Len(q) = 0
  PROVE  q = << >>
  OBVIOUS

LEMMA NothingCame ==
  ASSUME NEW e, Resting(e), \A p \in {0, 1} : arrived[Adder(e)][p] = << >>
  PROVE  Empty(e)
  <1>1. /\ AdderSets(e, 0) /\ ConsumerSets(e, 0) /\ Relayed(e, << >>)
    BY DEF Resting, AdderAt, ConsumerAt
  <1>2. /\ incoming[Adder(e)] \in Seq(Pairs) /\ acted[Adder(e)] \in Seq(Pairs)
        /\ outbox[Adder(e)] \in Seq(SUBSET Nat)
        /\ incoming[Consumer(e)] \in Seq(Singles) /\ acted[Consumer(e)] \in Seq(Singles)
        /\ arrived[Consumer(e)] \in [{0} -> Seq(SUBSET Nat)]
    BY <1>1 DEF AdderSets, Waiting, Paired, Relayed, ConsumerSets
  <1>3. Came(e, 0) = 0 /\ Came(e, 1) = 0
    BY DEF Came
  <1>4. Len(acted[Adder(e)]) \in Nat /\ Len(incoming[Adder(e)]) \in Nat
    BY <1>2
  <1>5. \/ Len(acted[Adder(e)]) + Len(incoming[Adder(e)]) - 0 = Came(e, 0)
        \/ Len(acted[Adder(e)]) + Len(incoming[Adder(e)]) - 0 = Came(e, 1)
    BY <1>1 DEF AdderSets, Paired
  <1>6. acted[Adder(e)] = << >> /\ incoming[Adder(e)] = << >>
    <2>1. Len(acted[Adder(e)]) = 0 /\ Len(incoming[Adder(e)]) = 0
      BY <1>3, <1>4, <1>5, BothZero
    <2>2. QED
      BY <1>2, <2>1, LengthZero
  <1>7. outbox[Adder(e)] = << >> /\ arrived[Consumer(e)][0] = << >>
    <2>1. Len(Given(e, << >>)) = 0
      BY <1>1, <1>6 DEF Relayed
    <2>2. QED
      BY <1>2, <2>1, NothingGiven
  <1>8. acted[Consumer(e)] = << >> /\ incoming[Consumer(e)] = << >>
    <2>1. Len(acted[Consumer(e)]) + Len(incoming[Consumer(e)]) = 0
      BY <1>1, <1>7, ConsumerCounts
    <2>2. Len(acted[Consumer(e)]) \in Nat /\ Len(incoming[Consumer(e)]) \in Nat
      BY <1>2
    <2>3. Len(acted[Consumer(e)]) = 0 /\ Len(incoming[Consumer(e)]) = 0
      BY <2>1, <2>2, BothZero
    <2>4. QED
      BY <1>2, <2>3, LengthZero
  <1>9. QED
    BY <1>6, <1>7, <1>8 DEF Empty

(* An element has more senders when one of them is constructed. *)
LEMMA OneMoreSender ==
  ASSUME NEW d \in Elts, NEW e \in Elts \ constructed
  PROVE  /\ Cardinality(constructed \cap Senders(d)) \in Nat
         /\ Cardinality((constructed \cup {e}) \cap Senders(d))
              = Cardinality(constructed \cap Senders(d)) + (IF e \in Senders(d) THEN 1 ELSE 0)
  <1> DEFINE S == constructed \cap Senders(d)
  <1>1. IsFiniteSet(S)
    BY SendersOf, FS_Subset
  <1>2. Cardinality(S) \in Nat
    BY <1>1, FS_CardinalityType
  <1>3. CASE e \in Senders(d)
    <2>1. (constructed \cup {e}) \cap Senders(d) = S \cup {e} /\ e \notin S
      BY <1>3
    <2> HIDE DEF S
    <2>2. Cardinality(S \cup {e}) = Cardinality(S) + 1
      BY <1>1, <2>1, FS_AddElement
    <2>3. QED
      BY <1>2, <1>3, <2>1, <2>2 DEF S
  <1>4. CASE e \notin Senders(d)
    <2>1. (constructed \cup {e}) \cap Senders(d) = S
      BY <1>4
    <2>2. QED
      BY <1>2, <1>4, <2>1
  <1>5. QED
    BY <1>3, <1>4

LEMMA ConstructExchange ==
  ASSUME Typed, Calls, Exchanged, NEW e \in Elts, Construct(e)
  PROVE  Exchanged'
  <1>1. /\ exchanging /\ e \notin constructed /\ exchanging' = exchanging
        /\ constructed' = constructed \cup {e} /\ stack' = stack /\ arrived' = arrived
        /\ stack = << >>
    BY DEF Construct
  <1>2. \A m \in Messages :
          net'[m] = net[m] + Cardinality({it \in 0 .. NumIters - 1 : MessageOf(e, it) = m})
    BY DEF Construct
  <1>3. \A m \in Messages : net'[m] > 0 => m[3] = PortType(m[1], m[2])
    <2> SUFFICES ASSUME NEW m \in Messages, net'[m] > 0, m[3] # PortType(m[1], m[2]) PROVE FALSE
      OBVIOUS
    <2>1. {it \in 0 .. NumIters - 1 : MessageOf(e, it) = m} = {}
      <3>1. \A it \in 0 .. NumIters - 1 : it \in Nat
        BY ElementFacts
      <3>2. \A it \in Nat : MessageOf(e, it) # m
        BY MessageFacts
      <3>3. QED
        BY <3>1, <3>2
    <2>2. net'[m] = net[m] + 0
      BY <1>2, <2>1, FS_EmptySet
    <2>3. ~(net[m] > 0) /\ net[m] \in Nat
      BY DEF Exchanged, Typed
    <2>4. QED
      BY <2>2, <2>3
  <1>4. ASSUME NEW d \in Elts, NEW p \in {0, 1}
        PROVE  net'[<<d, p, PortType(d, p)>>] + (Came(d, p)' + Accepted(d, p)')
                 = (NumIters \div 4) * Cardinality(constructed' \cap Senders(d))
    <2>1. PICK m \in Messages : m = <<d, p, PortType(d, p)>>
      <3>1. PortType(d, p) \in Types
        BY DEF Types, PortType
      <3>2. <<d, p, PortType(d, p)>> \in Messages
        BY <3>1 DEF Messages
      <3>3. QED
        BY <3>2
    <2>2. PICK a \in Nat : a = Came(d, p) + Accepted(d, p)
      <3>1. Came(d, p) \in Nat
        BY CameNat
      <3>2. QED
        BY <3>1 DEF Accepted
    <2>3. Came(d, p)' + Accepted(d, p)' = a
      BY <1>1, <2>2 DEF Came, Accepted
    <2>4. PICK q \in Nat : q = NumIters \div 4
      BY ElementFacts
    <2>5. PICK k \in Nat, j \in {0, 1} :
            /\ k = Cardinality(constructed \cap Senders(d))
            /\ j = IF e \in Senders(d) THEN 1 ELSE 0
            /\ Cardinality(constructed' \cap Senders(d)) = k + j
      BY <1>1, OneMoreSender
    <2>6. net[m] \in Nat /\ net[m] + a = q * k
      BY <1>1, <2>1, <2>2, <2>4, <2>5 DEF Exchanged, Typed
    <2>7. net'[m] = net[m] + q * j
      <3>1. Cardinality({it \in 0 .. NumIters - 1 : MessageOf(e, it) = m})
              = IF e \in Senders(d) THEN q ELSE 0
        BY <2>1, <2>4, SentTo, ZenonT(40)
      <3>2. q * 0 = 0 /\ q * 1 = q
        BY <2>4
      <3>3. QED
        BY <1>2, <2>5, <3>1, <3>2
    <2>8. net'[m] + a = q * (k + j)
      <3>1. PICK x \in Nat : x = net[m] /\ x + a = q * k
        BY <2>6
      <3>2. (x + q * j) + a = q * (k + j)
        <4>1. CASE j = 0
          <5>1. q * 0 = 0 /\ k + 0 = k /\ x + 0 = x
            OBVIOUS
          <5>2. QED
            BY <3>1, <4>1, <5>1
        <4>2. CASE j = 1
          <5>1. q * (k + 1) = q * k + q /\ q * 1 = q /\ (x + q) + a = (x + a) + q
            OBVIOUS
          <5>2. QED
            BY <3>1, <4>2, <5>1
        <4>3. QED
          BY <4>1, <4>2
      <3>3. QED
        BY <2>7, <3>1, <3>2
    <2>9. QED
      BY <2>1, <2>3, <2>4, <2>5, <2>8
  <1>5. QED
    BY <1>1, <1>3, <1>4 DEF Exchanged

LEMMA ConstructStep ==
  ASSUME Inv, NEW e \in Elts, Construct(e)
  PROVE  Inv'
  <1> DEFINE a == Adder(e)
             c == Consumer(e)
  <1>1. Typed /\ Calls /\ Counted /\ Online /\ Exchanged
    BY DEF Inv
  <1>2. /\ exchanging /\ stack = << >> /\ e \notin constructed
        /\ constructed' = constructed \cup {e}
        /\ active' = active \cup {a, c} /\ connected' = connected \cup {a}
        /\ UNCHANGED <<exchanging, persistent, incoming, outbox, stack, qd, arrived, acted,
                       activations>>
    BY DEF Construct
  <1>3. a \in Coms /\ c \in Coms /\ \A d \in Elts \ {e} : Adder(d) \notin {a, c} /\ Consumer(d) \notin {a, c}
    BY ElementFacts
  <1>4. net' \in [Messages -> Nat]
    <2> DEFINE N == 0 .. NumIters - 1
               Sent(m) == Cardinality({it \in N : MessageOf(e, it) = m})
    <2>1. \A m \in Messages : Sent(m) \in Nat
      <3> TAKE m \in Messages
      <3>1. IsFiniteSet(N)
        <4>1. NumIters - 1 \in Int
          BY ElementFacts
        <4>2. QED
          BY <4>1, FS_Interval
      <3> HIDE DEF N
      <3>2. IsFiniteSet({it \in N : MessageOf(e, it) = m})
        BY <3>1, FS_Subset
      <3>3. QED
        BY <3>2, FS_CardinalityType
    <2>2. net' = [m \in Messages |-> net[m] + Sent(m)]
      BY DEF Construct
    <2> HIDE DEF Sent
    <2>3. \A m \in Messages : net[m] \in Nat
      BY <1>1 DEF Typed
    <2>4. QED
      BY <2>1, <2>2, <2>3
  <1>5. Typed'
    BY <1>1, <1>2, <1>3, <1>4 DEF Typed
  <1>6. \A d \in Elts : Resting(d)
    BY <1>1, <1>2, AllRest
  <1>7. persistent = Coms /\ \A p \in {0, 1} : arrived[a][p] = << >>
    BY <1>1, <1>2 DEF Online
  <1>8. Empty(e)
    BY <1>6, <1>7, NothingCame
  <1>9. \A d \in Elts \ {e} : Resting(d)'
    <2>1. \A d \in Elts \ {e} : SameAdder(d) /\ SameConsumer(d) /\ SameOutbox(d)
      BY <1>2, <1>3 DEF SameAdder, SameConsumer, SameOutbox
    <2>2. QED
      BY <1>6, <2>1, OthersRest DEF OnlyElement
  <1>10. Resting(e)'
    <2>1. AdderSets(e, 0) /\ ConsumerSets(e, 0) /\ Relayed(e, << >>)
      BY <1>6 DEF Resting, AdderAt, ConsumerAt
    <2>2. AdderSets(e, 0)'
      BY <1>2, <2>1 DEF AdderSets, ArrivedInOrder, Waiting, Paired, Came, Behind, PairOf
    <2>3. ConsumerSets(e, 0)'
      BY <1>2, <2>1 DEF ConsumerSets
    <2>4. Relayed(e, << >>)'
      BY <1>2, <2>1 DEF Relayed, Given, Results
    <2>5. ActsOnce(a, FALSE)' /\ ActsOnce(c, FALSE)'
      BY <1>2, <1>3, <1>7 DEF ActsOnce
    <2>6. AdderIdle(e, 0)' /\ ConsumerIdle(e)' /\ Flushed(e)'
      BY <1>2, <1>8 DEF Empty, AdderIdle, ConsumerIdle, Flushed
    <2>7. QED
      BY <2>2, <2>3, <2>4, <2>5, <2>6 DEF Resting, AdderAt, ConsumerAt
  <1>11. Calls'
    BY <1>2, <1>9, <1>10 DEF Calls
  <1>12. Counted'
    BY <1>1, <1>2 DEF Counted, Held, HeldBy
  <1>13. Online'
    BY <1>1, <1>2, <1>3, <1>7 DEF Online
  <1>14. Exchanged'
    BY <1>1, ConstructExchange
  <1>15. QED
    BY <1>5, <1>11, <1>12, <1>13, <1>14 DEF Inv

-----------------------------------------------------------------------------
LEMMA InitInv == Init => Inv
  <1> SUFFICES ASSUME Init PROVE Inv
    OBVIOUS
  <1>1. /\ active = {} /\ connected = {} /\ stack = << >> /\ qd = 0
        /\ incoming = [d \in Coms |-> << >>] /\ outbox = [d \in Coms |-> << >>]
        /\ arrived = [d \in Coms |-> [p \in Ports(d) |-> << >>]]
        /\ acted = [d \in Coms |-> << >>]
        /\ activations = [d \in Coms |-> 0]
        /\ exchanging \in BOOLEAN /\ constructed = {} /\ net = [m \in Messages |-> 0]
        /\ persistent \subseteq Coms /\ (exchanging => persistent = Coms)
    <2>1. {Adder(0), Consumer(0)} \subseteq Coms
      BY ElementFacts
    <2>2. QED
      BY <2>1 DEF Init, ComInit
  <1>2. Typed
    BY <1>1 DEF Typed
  <1>3. ASSUME NEW e \in Elts
        PROVE  /\ Resting(e) /\ Came(e, 0) = 0 /\ Came(e, 1) = 0
               /\ arrived[Adder(e)][0] = << >> /\ arrived[Adder(e)][1] = << >>
    <2> DEFINE a == Adder(e)
               c == Consumer(e)
    <2>1. /\ a \in Coms /\ c \in Coms /\ Ports(a) = {0, 1} /\ Ports(c) = {0}
      BY ElementFacts
    <2>2. /\ incoming[a] = << >> /\ incoming[c] = << >> /\ outbox[a] = << >>
          /\ acted[a] = << >> /\ acted[c] = << >> /\ activations[a] = 0 /\ activations[c] = 0
          /\ arrived[a] = [p \in {0, 1} |-> << >>] /\ arrived[c] = [p \in {0} |-> << >>]
      BY <1>1, <2>1
    <2>3. Came(e, 0) = 0 /\ Came(e, 1) = 0 /\ Behind(e, 0) = 0 /\ Behind(e, 1) = 0
      <3>1. Came(e, 0) = 0 /\ Came(e, 1) = 0
        BY <2>2 DEF Came
      <3>2. QED
        BY <3>1 DEF Behind
    <2>4. \A S : << >> \in Seq(S)
      OBVIOUS
    <2>5. ArrivedInOrder(e)
      <3>1. \A p \in {0, 1} : Came(e, p) = 0
        BY <2>3
      <3>2. arrived[a] \in [{0, 1} -> Seq(SUBSET Nat)]
        BY <2>2, <2>4
      <3>3. QED
        BY <3>1, <3>2 DEF ArrivedInOrder
    <2>6. Waiting(e) /\ Paired(e, 0)
      <3>1. Waiting(e)
        BY <2>2, <2>3, <2>4 DEF Waiting
      <3>2. Paired(e, 0)
        BY <2>2, <2>3, <2>4 DEF Paired
      <3>3. QED
        BY <3>1, <3>2
    <2>7. ConsumerSets(e, 0)
      BY <2>2, <2>4 DEF ConsumerSets
    <2>8. ActsOnce(a, FALSE) /\ ActsOnce(c, FALSE)
      BY <1>1, <2>2 DEF ActsOnce
    <2>9. Relayed(e, << >>)
      <3>1. Results(a) = << >>
        BY <2>2 DEF Results
      <3>2. Given(e, << >>) = << >>
        BY <2>2 DEF Given
      <3>3. QED
        BY <2>2, <2>4, <3>1, <3>2 DEF Relayed
    <2>10. AdderIdle(e, 0) /\ ConsumerIdle(e) /\ Flushed(e)
      BY <2>2 DEF AdderIdle, ConsumerIdle, Flushed
    <2>11. Resting(e)
      BY <2>5, <2>6, <2>7, <2>8, <2>9, <2>10 DEF Resting, AdderAt, AdderSets, ConsumerAt
    <2>12. QED
      BY <2>2, <2>3, <2>11
  <1>4. Calls
    BY <1>1, <1>3 DEF Calls
  <1>5. Counted
    <2>1. Held = {}
      <3>1. \A d \in Coms : HeldBy(d) = {}
        BY <1>1 DEF HeldBy
      <3>2. QED
        BY <3>1 DEF Held
    <2>2. QED
      BY <1>1, <2>1, FS_EmptySet DEF Counted
  <1>6. Online
    BY <1>1, <1>3 DEF Online
  <1>7. Exchanged
    <2>1. \A e \in Elts, p \in {0, 1} :
            /\ net[<<e, p, PortType(e, p)>>] = 0 /\ Came(e, p) = 0 /\ Accepted(e, p) = 0
            /\ Cardinality(constructed \cap Senders(e)) = 0
      <3> TAKE e \in Elts, p \in {0, 1}
      <3>1. <<e, p, PortType(e, p)>> \in Messages
        BY DEF Messages, Types, PortType
      <3>2. constructed \cap Senders(e) = {}
        BY <1>1
      <3>3. QED
        BY <1>1, <1>3, <3>1, <3>2, FS_EmptySet DEF Accepted
    <2>2. NumIters \div 4 \in Nat
      BY ElementFacts
    <2>3. \A q \in Nat : 0 + (0 + 0) = q * 0
      OBVIOUS
    <2>4. \A m \in Messages : ~(net[m] > 0)
      BY <1>1
    <2>5. QED
      BY <2>1, <2>2, <2>3, <2>4 DEF Exchanged
  <1>8. QED
    BY <1>2, <1>4, <1>5, <1>6, <1>7 DEF Inv

LEMMA StutterInv == Inv /\ UNCHANGED vars => Inv'
  <1> SUFFICES ASSUME Inv, UNCHANGED vars PROVE Inv'
    OBVIOUS
  <1>1. Typed /\ Calls /\ Counted /\ Online /\ Exchanged
    BY DEF Inv
  <1>2. /\ UNCHANGED <<persistent, active, incoming, outbox, connected, stack, qd,
                       arrived, acted, activations>>
        /\ UNCHANGED <<exchanging, constructed, net>>
    BY DEF vars, comVars, exVars
  <1>3. Typed' /\ Counted' /\ Online'
    BY <1>1, <1>2 DEF Typed, Counted, Held, HeldBy, Online
  <1>4. Calls'
    <2>1. \A e \in Elts : SameAdder(e) /\ SameConsumer(e) /\ SameOutbox(e)
      BY <1>2 DEF SameAdder, SameConsumer, SameOutbox
    <2>2. ASSUME NEW e \in Elts
          PROVE  (Resting(e) => Resting(e)') /\ (Busy(e) => Busy(e)')
      <3>1. \A n : (AdderAt(e, n) => AdderAt(e, n)') /\ (AdderIdle(e, n) => AdderIdle(e, n)')
        BY <2>1, AdderStays
      <3>2. \A m, b : ConsumerAt(e, m, b) => ConsumerAt(e, m, b)'
        BY <2>1, ConsumerStays
      <3>3. (ConsumerIdle(e) => ConsumerIdle(e)') /\ (Flushed(e) => Flushed(e)')
        BY <2>1, ConsumerStays, OutboxStays
      <3>4. \A p : Came(e, p)' = Came(e, p)
        BY <2>1, AdderStays
      <3>5. \A v : Relayed(e, v) => Relayed(e, v)'
        BY <2>1, OutboxStays
      <3>6. Resting(e) => Resting(e)'
        BY <3>1, <3>2, <3>3, <3>5 DEF Resting
      <3>7. \A rest : ConsumerCall(e, rest) => ConsumerCall(e, rest)'
        BY <1>2, <3>2, <3>3, <3>5 DEF ConsumerCall
      <3>8. Accepting(e) => Accepting(e)'
        BY <1>2, <3>4, <3>6 DEF Accepting
      <3>9. Acting(e) => Acting(e)'
        BY <3>1, <3>3, <3>7 DEF Acting
      <3>10. FlushingOutbox(e) => FlushingOutbox(e)'
        BY <3>1, <3>7 DEF FlushingOutbox
      <3>11. AdderLoop(e) => AdderLoop(e)'
        BY <1>2, <3>1, <3>2, <3>3, <3>5 DEF AdderLoop
      <3>12. ConsumerLoop(e) => ConsumerLoop(e)'
        BY <1>2, <3>1, <3>2, <3>3, <3>5 DEF ConsumerLoop
      <3>13. QED
        BY <3>6, <3>8, <3>9, <3>10, <3>11, <3>12 DEF Busy, Relaying
    <2>3. QED
      BY <1>1, <1>2, <2>2 DEF Calls
  <1>5. Exchanged'
    BY <1>1, <1>2 DEF Exchanged, Came, Accepted
  <1>6. QED
    BY <1>3, <1>4, <1>5 DEF Inv

(* The invariant, for every number of elements, iterations and arrivals. *)
THEOREM Invariant == Spec => []Inv
  <1>1. Inv /\ [Next]_vars => Inv'
    <2> SUFFICES ASSUME Inv, [Next]_vars PROVE Inv'
      OBVIOUS
    <2>1. CASE Call /\ UNCHANGED exVars
      BY <2>1, CallStep
    <2>2. CASE \E e \in Elts : Construct(e)
      BY <2>2, ConstructStep
    <2>3. CASE \E m \in Messages : AcceptMessage(m)
      BY <2>3, AcceptMessageStep
    <2>4. CASE \E c \in {Adder(0), Consumer(0)} : Drive(c)
      BY <2>4, DriveStep
    <2>5. CASE UNCHANGED vars
      BY <2>5, StutterInv
    <2>6. QED
      BY <2>1, <2>2, <2>3, <2>4, <2>5 DEF Next
  <1>2. QED
    BY InitInv, <1>1, PTL DEF Spec

-----------------------------------------------------------------------------
(* What the invariant says of the properties. *)

(* Between calls everything rests. *)
LEMMA AtRestAll ==
  ASSUME Inv, AtRest
  PROVE  \A e \in Elts :
           /\ Resting(e)
           /\ AdderSets(e, 0) /\ ActsOnce(Adder(e), FALSE) /\ AdderIdle(e, 0) /\ Flushed(e)
           /\ ConsumerSets(e, 0) /\ ActsOnce(Consumer(e), FALSE) /\ ConsumerIdle(e)
           /\ Relayed(e, << >>)
  BY AllRest DEF Inv, AtRest, Resting, AdderAt, ConsumerAt

(***************************************************************************)
(* The ports of a component stay in step: a set of an adder is made of the *)
(* k-th values that came to its two ports.                                 *)
(***************************************************************************)
THEOREM PortsInStep == Spec => []InStep
  <1>1. Inv => InStep
    <2> SUFFICES ASSUME Inv, NEW d \in Coms,
                        NEW set \in ToSet(incoming[d]) \cup ToSet(acted[d]),
                        NEW p \in Ports(d), NEW q \in Ports(d),
                        set[p] # {}, set[q] # {}, p # q
                 PROVE  Position(d, p, set[p]) = Position(d, q, set[q])
      BY DEF InStep, NoValue
    <2>1. PICK e \in Elts : d = Adder(e)
      BY ElementFacts
    <2>2. PICK n : AdderSets(e, n)
      BY SetsOfElements DEF Inv
    <2>3. p \in {0, 1} /\ q \in {0, 1}
      BY <2>1, ElementFacts
    <2>4. incoming[d] \in Seq(Pairs) /\ acted[d] \in Seq(Pairs)
      BY <2>1, <2>2 DEF AdderSets, Waiting, Paired
    <2>5. \E k \in Nat : PairOf(e, k, set)
      <3>1. CASE set \in ToSet(incoming[d])
        <4>1. PICK j \in 1 .. Len(incoming[d]) : set = incoming[d][j]
          BY <2>4, <3>1, Elements
        <4>2. set[0] # {} /\ set[1] # {}
          BY <2>3
        <4>3. ~(j <= Behind(e, 0)) /\ ~(j <= Behind(e, 1))
          BY <2>1, <2>2, <4>1, <4>2, EmptyAt DEF AdderSets
        <4>4. Behind(e, 0) \in Int /\ Behind(e, 1) \in Int
          BY <2>2, CameType DEF AdderSets
        <4>5. j > Behind(e, 0) /\ j > Behind(e, 1)
          BY <4>3, <4>4
        <4>6. QED
          BY <2>1, <2>2, <4>1, <4>5 DEF AdderSets, Waiting
      <3>2. CASE set \in ToSet(acted[d])
        <4>1. PICK j \in 1 .. Len(acted[d]) : set = acted[d][j]
          BY <2>4, <3>2, Elements
        <4>2. QED
          BY <2>1, <2>2, <4>1 DEF AdderSets, Paired
      <3>3. QED
        BY <3>1, <3>2
    <2>6. PICK k \in Nat : PairOf(e, k, set)
      BY <2>5
    <2>7. \A r \in {0, 1} : Position(d, r, {k}) = k
      <3> TAKE r \in {0, 1}
      <3>1. PICK l \in Nat, v \in Seq(SUBSET Nat) :
              /\ v = arrived[d][r] /\ DOMAIN v = 1 .. l /\ l = Came(e, r) /\ k \in 1 .. l
              /\ \A i \in 1 .. l : v[i] = {i}
        <4>1. arrived[d][r] \in Seq(SUBSET Nat)
          BY <2>1, <2>2 DEF AdderSets, ArrivedInOrder
        <4>2. /\ Len(arrived[d][r]) \in Nat
              /\ DOMAIN arrived[d][r] = 1 .. Len(arrived[d][r])
          BY <4>1
        <4>3. \A i \in 1 .. Came(e, r) : arrived[d][r][i] = {i}
          BY <2>1, <2>2 DEF AdderSets, ArrivedInOrder
        <4>4. k \in 1 .. Came(e, r) /\ Came(e, r) = Len(arrived[d][r])
          BY <2>1, <2>6 DEF PairOf, Came
        <4>5. QED
          BY <4>1, <4>2, <4>3, <4>4
      <3>2. Position(d, r, {k}) = CHOOSE i \in 1 .. l : v[i] = {k}
        BY <3>1 DEF Position
      <3>3. \A i \in 1 .. l : v[i] = {k} <=> i = k
        <4>1. \A i \in 1 .. l : {i} = {k} <=> i = k
          OBVIOUS
        <4>2. QED
          BY <3>1, <4>1
      <3>4. QED
        BY <3>1, <3>2, <3>3
    <2>8. set[p] = {k} /\ set[q] = {k}
      BY <2>3, <2>6 DEF PairOf
    <2>9. QED
      BY <2>3, <2>7, <2>8
  <1>2. QED
    BY Invariant, <1>1, PTL

(* The sets that hold a value of port p are the last ones. *)
LEMMA FullSets ==
  ASSUME NEW e, AdderSets(e, 0), NEW p \in {0, 1}
  PROVE  Came(e, p) = Len(acted[Adder(e)])
           + Cardinality({k \in DOMAIN incoming[Adder(e)] : incoming[Adder(e)][k][p] # {}})
  <1> DEFINE In == incoming[Adder(e)]
  <1>1. ArrivedInOrder(e) /\ Waiting(e) /\ Paired(e, 0)
    BY DEF AdderSets
  <1>2. In \in Seq(Pairs) /\ acted[Adder(e)] \in Seq(Pairs)
    BY <1>1 DEF Waiting, Paired
  <1>3. PICK m \in Nat : m = Len(acted[Adder(e)])
    BY <1>2
  <1>4. PICK l \in Nat : l = Len(In) /\ DOMAIN In = 1 .. l
    <2> HIDE DEF In
    <2>1. QED
      BY <1>2
  <1>5. PICK x \in Nat, y \in Nat : /\ x = Came(e, p) /\ y = Came(e, 1 - p)
                                    /\ Behind(e, p) = y - x /\ y - x <= l
    BY <1>1, <1>4, CameType DEF Waiting
  <1>6. \/ m + l = x /\ y <= m + l
        \/ m + l = y /\ x <= m + l
    <2>1. \/ m + l - 0 = Came(e, 0) /\ Came(e, 1) <= m + l - 0
          \/ m + l - 0 = Came(e, 1) /\ Came(e, 0) <= m + l - 0
      BY <1>1, <1>3, <1>4 DEF Paired
    <2>2. m + l - 0 = m + l
      OBVIOUS
    <2>3. CASE p = 0
      BY <1>5, <2>1, <2>2, <2>3
    <2>4. CASE p = 1
      BY <1>5, <2>1, <2>2, <2>4
    <2>5. QED
      BY <2>3, <2>4
  <1>7. \A k \in 1 .. l : In[k][p] # {} <=> ~(k <= y - x)
    BY <1>1, <1>4, <1>5, EmptyAt
  <1>8. PICK b \in Nat : b = (IF y - x > 0 THEN y - x ELSE 0) /\ x = m + (l - b) /\ b <= l
    BY <1>5, <1>6
  <1>9. {k \in DOMAIN In : In[k][p] # {}} = b + 1 .. l
    <2>1. \A k \in 1 .. l : ~(k <= y - x) <=> k \in b + 1 .. l
      BY <1>8
    <2>2. \A k \in b + 1 .. l : k \in 1 .. l
      OBVIOUS
    <2> HIDE DEF In
    <2>3. QED
      BY <1>4, <1>7, <2>1, <2>2
  <1>10. Cardinality(b + 1 .. l) = l - b
    <2>1. PICK z \in Int : z = b + 1
      OBVIOUS
    <2>2. Cardinality(z .. l) = IF z > l THEN 0 ELSE l - z + 1
      BY FS_Interval
    <2>3. (IF z > l THEN 0 ELSE l - z + 1) = l - b
      BY <1>8, <2>1
    <2>4. QED
      BY <2>1, <2>2, <2>3
  <1>11. QED
    BY <1>3, <1>5, <1>8, <1>9, <1>10

(***************************************************************************)
(* Nothing is lost or duplicated: between calls every value is in a set    *)
(* held or acted on, every result at the peer or in the outbox, and the    *)
(* results of a persistent component in order.                             *)
(***************************************************************************)
THEOREM ValuesKept == Spec => []NothingLost
  <1>1. Inv => NothingLost
    <2> SUFFICES ASSUME Inv, AtRest, NEW d \in Coms
                 PROVE  /\ \A p \in Ports(d) :
                             Len(arrived[d][p]) = Len(acted[d])
                               + Cardinality({k \in DOMAIN incoming[d] : incoming[d][k][p] # NoValue})
                        /\ Wire[d] # << >> =>
                             LET out == arrived[Wire[d][1]][Wire[d][2]] \o outbox[d]
                             IN  /\ Len(out) = Len(acted[d])
                                 /\ ToSet(out) = ToSet(Results(d))
                                 /\ d \in persistent => out = Results(d)
      BY DEF NothingLost
    <2>1. PICK e \in Elts : d = Adder(e) \/ d = Consumer(e)
      BY ElementFacts
    <2>2. AdderSets(e, 0) /\ ConsumerSets(e, 0) /\ Relayed(e, << >>)
      BY AtRestAll
    <2>3. CASE d = Adder(e)
      <3>1. \A p \in Ports(d) : Len(arrived[d][p]) = Len(acted[d])
              + Cardinality({k \in DOMAIN incoming[d] : incoming[d][k][p] # NoValue})
        <4>1. Ports(d) = {0, 1}
          BY <2>3, ElementFacts
        <4>2. TAKE p \in Ports(d)
        <4>3. p \in {0, 1} /\ AdderSets(e, 0)
          BY <2>2, <4>1
        <4>4. Came(e, p) = Len(acted[Adder(e)])
                + Cardinality({k \in DOMAIN incoming[Adder(e)] : incoming[Adder(e)][k][p] # {}})
          BY <4>3, FullSets
        <4>5. QED
          BY <2>3, <4>4 DEF Came, NoValue
      <3>2. Wire[d][1] = Consumer(e) /\ Wire[d][2] = 0
        BY <2>3, ElementFacts
      <3>3. arrived[Consumer(e)][0] \o outbox[d] = Given(e, << >>)
        <4>1. arrived[Consumer(e)][0] \in Seq(SUBSET Nat)
          BY <2>2 DEF ConsumerSets
        <4>2. PICK S : arrived[Consumer(e)][0] \in Seq(S)
          BY <4>1
        <4>3. arrived[Consumer(e)][0] \o << >> = arrived[Consumer(e)][0]
          BY <4>2
        <4>4. QED
          BY <2>3, <4>3 DEF Given
      <3>4. /\ Len(Given(e, << >>)) = Len(acted[d])
            /\ ToSet(Given(e, << >>)) = ToSet(Results(d))
            /\ d \in persistent => Given(e, << >>) = Results(d)
        BY <2>2, <2>3 DEF Relayed
      <3>5. QED
        BY <3>1, <3>2, <3>3, <3>4
    <2>4. CASE d = Consumer(e)
      <3>1. Ports(d) = {0} /\ Wire[d] = << >>
        BY <2>4, ElementFacts
      <3>2. /\ incoming[d] \in Seq(Singles)
            /\ \A j \in 1 .. Len(incoming[d]) : incoming[d][j][0] # {}
            /\ Len(arrived[d][0]) = Len(acted[d]) + Len(incoming[d])
        BY <2>2, <2>4, ConsumerCounts
      <3>3. PICK l \in Nat : l = Len(incoming[d]) /\ DOMAIN incoming[d] = 1 .. l
        BY <3>2
      <3>4. {k \in DOMAIN incoming[d] : incoming[d][k][0] # NoValue} = 1 .. l
        BY <3>2, <3>3 DEF NoValue
      <3>5. Cardinality(1 .. l) = l
        <4>1. 1 \in Int /\ l \in Int /\ (IF 1 > l THEN 0 ELSE l - 1 + 1) = l
          OBVIOUS
        <4>2. QED
          BY <4>1, FS_Interval
      <3>6. QED
        BY <3>1, <3>2, <3>3, <3>4, <3>5
    <2>5. QED
      BY <2>1, <2>3, <2>4
  <1>2. QED
    BY Invariant, <1>1, PTL

(***************************************************************************)
(* Between calls an active component holds no set that is ready, an outbox *)
(* that can be flushed is empty, and a component that is not persistent    *)
(* has acted at most once for each activation.                             *)
(***************************************************************************)
THEOREM WorkDone == Spec => []NoIdleWork
  <1>1. Inv => NoIdleWork
    <2> SUFFICES ASSUME Inv, AtRest, NEW d \in Coms
                 PROVE  /\ d \in active => \A set \in ToSet(incoming[d]) : ~IsReady(set)
                        /\ d \in persistent /\ d \in connected => outbox[d] = << >>
                        /\ d \notin persistent => Len(acted[d]) <= activations[d]
      BY DEF NoIdleWork
    <2>1. PICK e \in Elts : d = Adder(e) \/ d = Consumer(e)
      BY ElementFacts
    <2>2. /\ AdderSets(e, 0) /\ ActsOnce(Adder(e), FALSE) /\ AdderIdle(e, 0) /\ Flushed(e)
          /\ ConsumerSets(e, 0) /\ ActsOnce(Consumer(e), FALSE) /\ ConsumerIdle(e)
      BY AtRestAll
    <2>3. d \notin persistent => Len(acted[d]) <= activations[d]
      <3>1. acted[d] \in Seq(Pairs) \/ acted[d] \in Seq(Singles)
        BY <2>1, <2>2 DEF AdderSets, Paired, ConsumerSets
      <3>2. PICK x \in Nat, y \in Nat : x = Len(acted[d]) /\ y = activations[d]
        <4>1. Len(acted[d]) \in Nat
          BY <3>1
        <4>2. activations[d] \in Nat
          BY DEF Inv, Typed
        <4>3. QED
          BY <4>1, <4>2
      <3>3. d \notin persistent => x + 1 <= y \/ x + 0 <= y
        BY <2>1, <2>2, <3>2 DEF ActsOnce
      <3>4. x + 1 <= y \/ x + 0 <= y => x <= y
        OBVIOUS
      <3>5. QED
        BY <3>2, <3>3, <3>4
    <2>4. CASE d = Adder(e)
      <3>1. incoming[d] \in Seq(Pairs)
        BY <2>2, <2>4 DEF AdderSets, Waiting
      <3>2. ASSUME d \in active, NEW set \in ToSet(incoming[d]), IsReady(set)
            PROVE  FALSE
        <4>1. PICK j \in 1 .. Len(incoming[d]) : set = incoming[d][j]
          BY <3>1, Elements
        <4>2. set \in Pairs
          BY <3>1, <4>1
        <4>3. set[0] # {} /\ set[1] # {}
          BY <3>2, <4>2, ActionOfPair
        <4>4. ~(j <= Behind(e, 0)) /\ ~(j <= Behind(e, 1))
          BY <2>2, <2>4, <4>1, <4>3, EmptyAt DEF AdderSets
        <4>5. j # 0
          BY <3>1
        <4>6. QED
          BY <2>2, <2>4, <3>2, <4>4, <4>5 DEF AdderIdle
      <3>3. d \in persistent /\ d \in connected => outbox[d] = << >>
        BY <2>2, <2>4 DEF Flushed
      <3>4. QED
        BY <2>3, <3>2, <3>3
    <2>5. CASE d = Consumer(e)
      <3>1. d \in active => ToSet(incoming[d]) = {}
        <4>1. ToSet(<< >>) = {}
          BY DEF ToSet
        <4>2. QED
          BY <2>2, <2>5, <4>1 DEF ConsumerIdle
      <3>2. d \notin connected
        BY <2>5, ElementFacts DEF Inv, Typed
      <3>3. QED
        BY <2>3, <3>1, <3>2
    <2>6. QED
      BY <2>1, <2>4, <2>5
  <1>2. QED
    BY Invariant, <1>1, PTL

(* Quiescence detection has been told of exactly the values that are held. *)
THEOREM QuiescenceCounts == Spec => []QdAccurate
  <1>1. Inv => QdAccurate
    BY DEF Inv, Counted, Held, QdAccurate
  <1>2. QED
    BY Invariant, <1>1, PTL

(***************************************************************************)
(* The exchange: every message is of the type its port takes, and when all *)
(* of them have come nothing is held, and every consumer has received the  *)
(* sums of all that was sent to its element.                               *)
(***************************************************************************)
THEOREM ExchangeCompletes == Spec => []ExchangeComplete
  <1>1. Inv => ExchangeComplete
    <2> SUFFICES ASSUME Inv, exchanging
                 PROVE  /\ \A m \in Messages : net[m] > 0 => m[3] = PortType(m[1], m[2])
                        /\ (AtRest /\ constructed = Elts /\ \A m \in Messages : net[m] = 0) =>
                             /\ qd = 0
                             /\ \A e \in Elts : Len(acted[Consumer(e)]) = NumIters \div 2
      BY DEF ExchangeComplete
    <2>1. Typed /\ Calls /\ Counted /\ Online /\ Exchanged
      BY DEF Inv
    <2>2. \A m \in Messages : net[m] > 0 => m[3] = PortType(m[1], m[2])
      BY <2>1 DEF Exchanged
    <2>3. SUFFICES ASSUME AtRest, constructed = Elts, \A m \in Messages : net[m] = 0
                   PROVE  /\ qd = 0
                          /\ \A e \in Elts : Len(acted[Consumer(e)]) = NumIters \div 2
      BY <2>2
    <2>4. PICK h \in Nat : h = NumIters \div 4 /\ NumIters \div 2 = 2 * h
      BY ElementFacts
    <2>5. ASSUME NEW e \in Elts
          PROVE  /\ incoming[Adder(e)] = << >> /\ incoming[Consumer(e)] = << >>
                 /\ Len(acted[Consumer(e)]) = 2 * h
      <3>1. /\ AdderSets(e, 0) /\ AdderIdle(e, 0) /\ Flushed(e)
            /\ ConsumerSets(e, 0) /\ ConsumerIdle(e) /\ Relayed(e, << >>)
        BY <2>3, AtRestAll
      <3>2. Adder(e) \in active /\ Consumer(e) \in active /\ Adder(e) \in connected
            /\ Adder(e) \in persistent
        BY <2>1, <2>3, ElementFacts DEF Online
      <3>3. \A p \in {0, 1} : Came(e, p) = 2 * h
        <4> TAKE p \in {0, 1}
        <4>1. <<e, p, PortType(e, p)>> \in Messages
          <5>1. PortType(e, p) \in Types
            BY DEF Types, PortType
          <5>2. QED
            BY <5>1 DEF Messages
        <4>2. net[<<e, p, PortType(e, p)>>] = 0
          BY <2>3, <4>1
        <4>3. Accepted(e, p) = 0
          BY <2>3, AtRestTop DEF AtRest, NoneAccepted
        <4>4. constructed \cap Senders(e) = Senders(e)
          BY <2>3 DEF Senders
        <4>5. Cardinality(Senders(e)) = 2
          BY SendersOf
        <4>6. 0 + (Came(e, p) + 0) = h * 2
          BY <2>1, <2>4, <4>2, <4>3, <4>4, <4>5 DEF Exchanged
        <4>7. Came(e, p) \in Nat
          BY <2>1, CameNat
        <4>8. \A x \in Nat : 0 + (x + 0) = h * 2 => x = 2 * h
          OBVIOUS
        <4>9. QED
          BY <4>6, <4>7, <4>8
      <3>4. Behind(e, 0) = 0 /\ Behind(e, 1) = 0
        BY <3>3 DEF Behind
      <3>5. incoming[Adder(e)] \in Seq(Pairs) /\ acted[Adder(e)] \in Seq(Pairs)
        BY <3>1 DEF AdderSets, Waiting, Paired
      <3>6. incoming[Adder(e)] = << >>
        <4>1. \A j \in 1 .. Len(incoming[Adder(e)]) : j <= 0
          BY <3>1, <3>2, <3>4 DEF AdderIdle
        <4>2. PICK l \in Nat : l = Len(incoming[Adder(e)])
          BY <3>5
        <4>3. l = 0
          BY <4>1, <4>2
        <4>4. QED
          BY <3>5, <4>2, <4>3, LengthZero
      <3>7. Len(acted[Adder(e)]) = 2 * h
        <4>1. PICK l \in Nat : l = Len(acted[Adder(e)])
          BY <3>5
        <4>2. l + 0 - 0 = Came(e, 0) \/ l + 0 - 0 = Came(e, 1)
          BY <3>1, <3>6, <4>1 DEF AdderSets, Paired
        <4>3. l + 0 - 0 = l
          OBVIOUS
        <4>4. QED
          BY <3>3, <4>1, <4>2, <4>3
      <3>8. outbox[Adder(e)] = << >>
        BY <3>1, <3>2 DEF Flushed
      <3>9. arrived[Consumer(e)] \in [{0} -> Seq(SUBSET Nat)] /\ outbox[Adder(e)] \in Seq(SUBSET Nat)
        BY <3>1 DEF ConsumerSets, Relayed
      <3>10. Len(arrived[Consumer(e)][0]) + 0 = 2 * h
        BY <3>1, <3>7, <3>8, <3>9, NothingGiven DEF Relayed
      <3>11. incoming[Consumer(e)] = << >>
        BY <3>1, <3>2 DEF ConsumerIdle
      <3>12. Len(arrived[Consumer(e)][0]) = Len(acted[Consumer(e)]) + 0
        <4>1. Len(arrived[Consumer(e)][0])
                = Len(acted[Consumer(e)]) + Len(incoming[Consumer(e)])
          BY <3>1, ConsumerCounts
        <4>2. Len(<< >>) = 0
          OBVIOUS
        <4>3. QED
          BY <3>11, <4>1, <4>2
      <3>13. PICK x \in Nat, y \in Nat :
               x = Len(arrived[Consumer(e)][0]) /\ y = Len(acted[Consumer(e)])
        <4>1. Len(arrived[Consumer(e)][0]) \in Nat
          <5>1. arrived[Consumer(e)][0] \in Seq(SUBSET Nat)
            BY <3>9
          <5>2. QED
            BY <5>1
        <4>2. Len(acted[Consumer(e)]) \in Nat
          <5>1. acted[Consumer(e)] \in Seq(Singles)
            BY <3>1 DEF ConsumerSets
          <5>2. QED
            BY <5>1
        <4>3. QED
          BY <4>1, <4>2
      <3>14. y = 2 * h
        BY <3>10, <3>12, <3>13
      <3>15. QED
        BY <3>6, <3>11, <3>13, <3>14
    <2>6. qd = 0
      <3>1. \A d \in Coms : HeldBy(d) = {}
        <4>1. TAKE d \in Coms
        <4>2. PICK e \in Elts : d = Adder(e) \/ d = Consumer(e)
          BY ElementFacts
        <4>3. incoming[d] = << >>
          BY <2>5, <4>2
        <4>4. QED
          BY <4>3 DEF HeldBy
      <3>2. Held = {}
        BY <3>1 DEF Held
      <3>3. QED
        BY <2>1, <3>2, FS_EmptySet DEF Counted
    <2>7. QED
      BY <2>4, <2>5, <2>6
  <1>2. QED
    BY Invariant, <1>1, PTL
=============================================================================
