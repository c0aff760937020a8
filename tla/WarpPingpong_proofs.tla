------------------------- MODULE WarpPingpong_proofs -------------------------
(***************************************************************************)
(* WarpPingpong, for any number of ranks and iterations: the tasks take    *)
(* turns, each goes on listening on its rank until it is over, and a rank  *)
(* that finalizes leaves nothing but the last message.                     *)
(***************************************************************************)
EXTENDS WarpPingpong, Integers, FiniteSetTheorems, SequenceTheorems, TLAPS

(* The entries of a sequence of receives or probes, and those for one tag. *)
Entries(q) == {q[k] : k \in 1 .. Len(q)}
OnePerTag(q) == \A j, k \in 1 .. Len(q) : q[j].tag = q[k].tag => j = k
NoneTwice(q) == \A j, k \in 1 .. Len(q) : q[j] = q[k] => j = k

(* What a rank listens for, is for a task of that rank that is not over. *)
Posts ==
  \A r \in Ranks :
    /\ OnePerTag(receives[r]) /\ NoneTwice(probes[r])
    /\ \A e \in Entries(receives[r]) :
         /\ e.tag \in Tasks /\ r = RankOf(e.tag) /\ ~over[e.tag]
         /\ e.tag \notin Entries(probes[r])
    /\ \A t \in Entries(probes[r]) : t \in Tasks /\ r = RankOf(t) /\ ~over[t]

Listens(r, t) == \E e \in Entries(receives[r]) : e.tag = t

Heard ==
  \A t \in Tasks : ~over[t] => Listens(RankOf(t), t) \/ t \in Entries(probes[RankOf(t)])

(* The message m is under way, in the network or in the receive for it. *)
OnTurn(m) ==
  /\ m.id = serial /\ m.tag = m.obj /\ m.to = RankOf(m.obj)
  /\ m.obj = IF Total(0) = Total(1) THEN 1 ELSE 0
  /\ net \in {{}, {m}}
  /\ \A r \in Ranks : \A e \in Entries(receives[r]) :
       e.got = IF net = {} /\ e.tag = m.obj THEN {m} ELSE {}
  /\ net = {} => Listens(m.to, m.obj)

(* Every receipt is counted by one of the tasks, and they alternate. *)
Counted ==
  /\ \A t \in Tasks : over[t] => it[t] = 0 /\ ~warmup[t]
  /\ serial = 1 + Total(0) + Total(1) /\ Total(1) \in {Total(0), Total(0) + 1}

(* A rank stops when its tasks are over: task 0 is the last. *)
Stopped ==
  \A r \in AllRanks :
    /\ pc[r] \in {"finalize", "done"} => ~running[r]
    /\ ~running[r] => \A t \in Tasks : RankOf(t) = r => over[t]

Safe == TypeOK /\ Posts /\ Heard /\ Counted /\ Stopped /\ \E m \in Messages : OnTurn(m)

-----------------------------------------------------------------------------
LEMMA Constants ==
  /\ NIters \in Nat \ {0} /\ MaxSerial = 4 * NIters + 1 /\ MaxSerial \in Nat
  /\ Ranks \subseteq Nat /\ 0 \in Ranks
  /\ \A n \in Sizes : n \in Nat \ {0} /\ 0 .. n - 1 \subseteq Ranks
  <1> DEFINE top == CHOOSE n \in Sizes : \A k \in Sizes : k <= n
  <1>1. top \in Sizes /\ \A k \in Sizes : k <= top
    BY WarpAssumption
  <1> HIDE DEF top
  <1>2. Ranks = 0 .. top - 1
    BY DEF Ranks, top
  <1>3. top \in Nat \ {0} /\ Sizes \subseteq Nat \ {0}
    BY <1>1, WarpAssumption
  <1>4. \A n \in Sizes : 0 .. n - 1 \subseteq Ranks
    BY <1>1, <1>2, <1>3
  <1>5. QED
    BY <1>2, <1>3, <1>4, PingpongAssumption

LEMMA RankFacts ==
  ASSUME nRanks \in Sizes
  PROVE  /\ AllRanks \subseteq Ranks
         /\ RankOf(0) = 0 /\ RankOf(1) = IF nRanks = 1 THEN 0 ELSE 1
         /\ \A t \in Tasks : RankOf(t) \in AllRanks
  <1>1. nRanks \in Nat \ {0} /\ AllRanks \subseteq Ranks
    BY Constants DEF AllRanks
  <1>2. 0 % nRanks = 0
    BY <1>1
  <1>3. 1 % nRanks = IF nRanks = 1 THEN 0 ELSE 1
    BY <1>1
  <1>4. QED
    BY <1>1, <1>2, <1>3 DEF RankOf, Tasks, AllRanks

(* A task has received the message at most 2 * NIters times. *)
LEMMA TotalFacts ==
  ASSUME TypeOK, Counted
  PROVE  \A t \in Tasks : /\ Total(t) \in 0 .. 2 * NIters
                          /\ Total(t) = 2 * NIters <=> over[t]
  BY Constants DEF TypeOK, Counted, Total

LEMMA TotalFactsNext ==
  ASSUME TypeOK', Counted'
  PROVE  \A t \in Tasks : /\ Total(t)' \in 0 .. 2 * NIters
                          /\ Total(t)' = 2 * NIters <=> over'[t]
  BY Constants DEF TypeOK, Counted, Total

-----------------------------------------------------------------------------
(* Two sequences, one after the other. *)
LEMMA Joined ==
  ASSUME NEW S, NEW a \in Seq(S), NEW b \in Seq(S)
  PROVE  /\ a \o b \in Seq(S) /\ Len(a \o b) = Len(a) + Len(b)
         /\ \A j \in 1 .. Len(a) : (a \o b)[j] = a[j]
         /\ \A j \in 1 .. Len(b) : (a \o b)[Len(a) + j] = b[j]
  <1>1. /\ a \o b \in Seq(S) /\ Len(a \o b) = Len(a) + Len(b)
        /\ \A j \in 1 .. Len(a) + Len(b) : (a \o b)[j] = IF j <= Len(a) THEN a[j] ELSE b[j - Len(a)]
    BY ConcatProperties
  <1>2. PICK m \in Nat, n \in Nat : m = Len(a) /\ n = Len(b)
    OBVIOUS
  <1>3. ASSUME NEW j \in 1 .. m PROVE (a \o b)[j] = a[j]
    BY <1>1, <1>2
  <1>4. ASSUME NEW j \in 1 .. n PROVE (a \o b)[m + j] = b[j]
    <2>1. m + j \in 1 .. m + n /\ ~(m + j <= m) /\ (m + j) - m = j
      OBVIOUS
    <2>2. QED
      BY <1>1, <1>2, <2>1
  <1>5. QED
    BY <1>1, <1>2, <1>3, <1>4

LEMMA InsertFacts ==
  ASSUME NEW S, NEW q \in Seq(S), NEW k \in 1 .. Len(q) + 1, NEW e \in S
  PROVE  /\ InsertAt(q, k, e) \in Seq(S) /\ Len(InsertAt(q, k, e)) = Len(q) + 1
         /\ \A j \in 1 .. Len(q) + 1 : InsertAt(q, k, e)[j] =
              IF j < k THEN q[j] ELSE IF j = k THEN e ELSE q[j - 1]
  <1> DEFINE a == SubSeq(q, 1, k - 1)
             b == SubSeq(q, k, Len(q))
             c == a \o <<e>>
  <1>1. a \in Seq(S) /\ Len(a) = k - 1 /\ \A j \in 1 .. k - 1 : a[j] = q[j]
    BY SubSeqProperties
  <1>2. b \in Seq(S) /\ Len(b) = Len(q) - k + 1 /\ \A j \in 1 .. Len(q) - k + 1 : b[j] = q[k + j - 1]
    BY SubSeqProperties
  <1>3. InsertAt(q, k, e) = c \o b
    BY DEF InsertAt
  <1> HIDE DEF a, b
  <1>3a. PICK l \in Nat : l = Len(q)
    OBVIOUS
  <1>4. <<e>> \in Seq(S) /\ Len(<<e>>) = 1 /\ <<e>>[1] = e
    OBVIOUS
  <1>5. /\ c \in Seq(S) /\ Len(c) = k
        /\ \A j \in 1 .. k - 1 : c[j] = a[j]
        /\ c[k] = e
    <2>1. /\ c \in Seq(S) /\ Len(c) = Len(a) + Len(<<e>>)
          /\ \A j \in 1 .. Len(a) : c[j] = a[j]
          /\ \A j \in 1 .. Len(<<e>>) : c[Len(a) + j] = <<e>>[j]
      BY SMTT(30), <1>1, <1>4, Joined
    <2>2. k - 1 + 1 = k /\ 1 \in 1 .. Len(<<e>>)
      BY <1>3a
    <2>3. QED
      BY <1>1, <1>4, <2>1, <2>2
  <1> HIDE DEF c
  <1>6. PICK n \in Nat : n = Len(q) - k + 1
    BY <1>3a
  <1>7. /\ c \o b \in Seq(S) /\ Len(c \o b) = k + n
        /\ \A j \in 1 .. k : (c \o b)[j] = c[j]
        /\ \A j \in 1 .. n : (c \o b)[k + j] = b[j]
    <2>1. /\ c \o b \in Seq(S) /\ Len(c \o b) = Len(c) + Len(b)
          /\ \A j \in 1 .. Len(c) : (c \o b)[j] = c[j]
          /\ \A j \in 1 .. Len(b) : (c \o b)[Len(c) + j] = b[j]
      BY <1>2, <1>5, Joined
    <2>2. QED
      BY <1>2, <1>5, <1>6, <2>1
  <1>8. ASSUME NEW j \in 1 .. Len(q) + 1
        PROVE  (c \o b)[j] = IF j < k THEN q[j] ELSE IF j = k THEN e ELSE q[j - 1]
    <2>1. CASE j <= k
      <3>1. (c \o b)[j] = c[j]
        BY SMTT(30), <1>7, <2>1
      <3>2. CASE j = k
        BY <1>5, <3>1, <3>2
      <3>3. CASE j # k
        <4>1. j \in 1 .. k - 1 /\ j < k
          BY <1>3a, <2>1, <3>3
        <4>2. QED
          BY <1>1, <1>5, <3>1, <4>1
      <3>4. QED
        BY <3>2, <3>3
    <2>2. CASE j > k
      <3>1. PICK i \in 1 .. n : j = k + i
        <4>1. j - k \in 1 .. n
          BY <1>6, <2>2
        <4>2. QED
          BY <4>1
      <3>2. k + i - 1 = j - 1 /\ (c \o b)[j] = b[i]
        BY <1>7, <3>1
      <3>3. b[i] = q[j - 1]
        BY <1>2, <1>6, <3>1, <3>2
      <3>4. QED
        BY <2>2, <3>2, <3>3
    <2>3. j <= k \/ j > k
      BY <1>3a
    <2>4. QED
      BY <2>1, <2>2, <2>3, Zenon
  <1>9. QED
    BY <1>3, <1>6, <1>7, <1>8

LEMMA RemoveFacts ==
  ASSUME NEW S, NEW q \in Seq(S), NEW k \in 1 .. Len(q)
  PROVE  /\ RemoveAt(q, k) \in Seq(S) /\ Len(RemoveAt(q, k)) = Len(q) - 1
         /\ \A j \in 1 .. Len(q) - 1 : RemoveAt(q, k)[j] = IF j < k THEN q[j] ELSE q[j + 1]
  <1> DEFINE a == SubSeq(q, 1, k - 1)
             b == SubSeq(q, k + 1, Len(q))
  <1>1. a \in Seq(S) /\ Len(a) = k - 1 /\ \A j \in 1 .. k - 1 : a[j] = q[j]
    BY SubSeqProperties
  <1>2. b \in Seq(S) /\ Len(b) = Len(q) - k /\ \A j \in 1 .. Len(q) - k : b[j] = q[k + j]
    BY SubSeqProperties
  <1>3. RemoveAt(q, k) = a \o b
    BY DEF RemoveAt
  <1> HIDE DEF a, b
  <1>3a. PICK l \in Nat : l = Len(q)
    OBVIOUS
  <1>4. PICK m \in Nat, n \in Nat : m = k - 1 /\ n = Len(q) - k
    <2>1. k - 1 \in Nat /\ Len(q) - k \in Nat
      BY <1>3a
    <2>2. QED
      BY <2>1
  <1>5. /\ a \o b \in Seq(S) /\ Len(a \o b) = m + n
        /\ \A j \in 1 .. m : (a \o b)[j] = a[j]
        /\ \A j \in 1 .. n : (a \o b)[m + j] = b[j]
    <2>1. /\ a \o b \in Seq(S) /\ Len(a \o b) = Len(a) + Len(b)
          /\ \A j \in 1 .. Len(a) : (a \o b)[j] = a[j]
          /\ \A j \in 1 .. Len(b) : (a \o b)[Len(a) + j] = b[j]
      <3>1. a \in Seq(S) /\ b \in Seq(S)
        BY <1>1, <1>2
      <3>2. QED
        BY <3>1, Joined
    <2>2. QED
      BY <1>1, <1>2, <1>4, <2>1
  <1>6. ASSUME NEW j \in 1 .. Len(q) - 1
        PROVE  (a \o b)[j] = IF j < k THEN q[j] ELSE q[j + 1]
    <2>1. CASE j < k
      BY <1>1, <1>4, <1>5, <2>1
    <2>2. CASE ~(j < k)
      <3>1. PICK i \in 1 .. n : j = m + i
        <4>1. j - m \in 1 .. n
          BY <1>4, <2>2
        <4>2. QED
          BY <1>4, <4>1
      <3>2. k + i = j + 1 /\ (a \o b)[j] = b[i]
        BY <1>4, <1>5, <3>1
      <3>3. b[i] = q[j + 1]
        BY <1>2, <1>4, <3>1, <3>2
      <3>4. QED
        BY <2>2, <3>2, <3>3
    <2>3. QED
      BY <2>1, <2>2
  <1>7. QED
    BY <1>3, <1>4, <1>5, <1>6

LEMMA InsertEntries ==
  ASSUME NEW S, NEW q \in Seq(S), NEW k \in 1 .. Len(q) + 1, NEW e \in S
  PROVE  /\ Entries(InsertAt(q, k, e)) = Entries(q) \cup {e}
         /\ OnePerTag(q) /\ (\A x \in Entries(q) : x.tag # e.tag) =>
              OnePerTag(InsertAt(q, k, e))
  <1> DEFINE v == InsertAt(q, k, e)
  <1>1. /\ Len(v) = Len(q) + 1
        /\ \A j \in 1 .. Len(q) + 1 :
             v[j] = IF j < k THEN q[j] ELSE IF j = k THEN e ELSE q[j - 1]
    BY InsertFacts
  <1> HIDE DEF v
  <1>2. PICK l \in Nat : l = Len(q)
    OBVIOUS
  <1>3. \A j \in 1 .. l + 1 : \/ j < k /\ j \in 1 .. l /\ v[j] = q[j]
                              \/ j = k /\ v[j] = e
                              \/ j > k /\ j - 1 \in 1 .. l /\ v[j] = q[j - 1]
    BY <1>1, <1>2
  <1>4. \A j \in 1 .. l : \E i \in 1 .. l + 1 : v[i] = q[j]
    <2> TAKE j \in 1 .. l
    <2>1. CASE j < k
      BY <1>1, <1>2, <2>1
    <2>2. CASE ~(j < k)
      <3>1. j + 1 \in 1 .. l + 1 /\ j + 1 > k /\ (j + 1) - 1 = j
        BY <1>2, <2>2
      <3>2. v[j + 1] = q[j]
        BY <1>1, <1>2, <3>1
      <3>3. QED
        BY <3>1, <3>2
    <2>3. QED
      BY <2>1, <2>2
  <1>5. k \in 1 .. l + 1 /\ v[k] = e
    BY <1>1, <1>2
  <1>6. Entries(v) = Entries(q) \cup {e}
    <2>1. \A x \in Entries(v) : x \in Entries(q) \cup {e}
      BY <1>1, <1>2, <1>3 DEF Entries
    <2>2. \A x \in Entries(q) : x \in Entries(v)
      BY <1>1, <1>2, <1>4 DEF Entries
    <2>3. e \in Entries(v)
      BY <1>1, <1>2, <1>5 DEF Entries
    <2>4. QED
      BY <2>1, <2>2, <2>3
  <1>7. ASSUME OnePerTag(q), \A x \in Entries(q) : x.tag # e.tag PROVE OnePerTag(v)
    <2>1. \A j \in 1 .. l : q[j].tag # e.tag
      BY <1>2, <1>7 DEF Entries
    <2>2. \A i, j \in 1 .. l : q[i].tag = q[j].tag => i = j
      BY <1>2, <1>7 DEF OnePerTag
    <2>3. ASSUME NEW i \in 1 .. l + 1, NEW j \in 1 .. l + 1, v[i].tag = v[j].tag PROVE i = j
      BY <1>2, <1>3, <2>1, <2>2, <2>3
    <2>4. QED
      BY <1>1, <1>2, <2>3 DEF OnePerTag
  <1>8. QED
    BY <1>6, <1>7 DEF v

LEMMA RemoveEntries ==
  ASSUME NEW S, NEW q \in Seq(S), NEW k \in 1 .. Len(q), OnePerTag(q)
  PROVE  /\ Entries(RemoveAt(q, k)) = Entries(q) \ {q[k]}
         /\ \A x \in Entries(RemoveAt(q, k)) : x.tag # q[k].tag
         /\ OnePerTag(RemoveAt(q, k))
  <1> DEFINE v == RemoveAt(q, k)
  <1>1. /\ Len(v) = Len(q) - 1
        /\ \A j \in 1 .. Len(q) - 1 : v[j] = IF j < k THEN q[j] ELSE q[j + 1]
    BY RemoveFacts
  <1> HIDE DEF v
  <1>2. PICK l \in Nat : l = Len(q) - 1 /\ Len(q) = l + 1 /\ k \in 1 .. l + 1
    <2>1. Len(q) \in Nat
      OBVIOUS
    <2>2. Len(q) - 1 \in Nat /\ Len(q) = (Len(q) - 1) + 1
      BY <2>1
    <2>3. QED
      BY <2>2
  <1>3. \A j \in 1 .. l : \/ j < k /\ v[j] = q[j]
                          \/ j >= k /\ v[j] = q[j + 1]
    BY <1>1, <1>2
  <1>4. \A i, j \in 1 .. l + 1 : q[i].tag = q[j].tag => i = j
    BY <1>2 DEF OnePerTag
  <1>5. \A x \in Entries(v) : x \in Entries(q) /\ x.tag # q[k].tag
    <2> SUFFICES ASSUME NEW j \in 1 .. l PROVE v[j] \in Entries(q) /\ v[j].tag # q[k].tag
      BY <1>1, <1>2 DEF Entries
    <2>1. CASE j < k
      <3>1. v[j] = q[j] /\ j \in 1 .. l + 1
        BY <1>3, <2>1
      <3>2. QED
        BY <1>2, <1>4, <2>1, <3>1 DEF Entries
    <2>2. CASE j >= k
      <3>1. v[j] = q[j + 1] /\ j + 1 \in 1 .. l + 1 /\ j + 1 # k
        BY <1>2, <1>3, <2>2
      <3>2. QED
        BY <1>2, <1>4, <3>1 DEF Entries
    <2>3. QED
      BY <1>2, <2>1, <2>2
  <1>6. \A x \in Entries(q) : x = q[k] \/ x \in Entries(v)
    <2> SUFFICES ASSUME NEW j \in 1 .. l + 1, j # k PROVE q[j] \in Entries(v)
      BY <1>2 DEF Entries
    <2>1. CASE j < k
      <3>1. j \in 1 .. l /\ v[j] = q[j]
        BY <1>1, <1>2, <2>1
      <3>2. QED
        BY <1>1, <1>2, <3>1 DEF Entries
    <2>2. CASE j > k
      <3>1. j - 1 \in 1 .. l /\ ~(j - 1 < k) /\ (j - 1) + 1 = j
        BY <1>2, <2>2
      <3>2. v[j - 1] = q[j]
        BY <1>1, <1>2, <3>1
      <3>3. QED
        BY <1>1, <1>2, <3>1, <3>2 DEF Entries
    <2>3. QED
      BY <1>2, <2>1, <2>2
  <1>7. ASSUME NEW i \in 1 .. l, NEW j \in 1 .. l, v[i].tag = v[j].tag PROVE i = j
    BY <1>2, <1>3, <1>4, <1>7
  <1>8. QED
    BY <1>1, <1>2, <1>5, <1>6, <1>7 DEF v, OnePerTag

(* Probes are asked for at the back and answered at the front. *)
LEMMA ProbeEntries ==
  ASSUME NEW q \in Seq(Nat), NoneTwice(q)
  PROVE  /\ \A t \in Nat : /\ Entries(Append(q, t)) = Entries(q) \cup {t}
                           /\ t \notin Entries(q) => NoneTwice(Append(q, t))
         /\ q # << >> => /\ Head(q) \in Entries(q) /\ NoneTwice(Tail(q))
                         /\ Entries(Tail(q)) = Entries(q) \ {Head(q)}
  <1>1. PICK l \in Nat : l = Len(q)
    OBVIOUS
  <1>2. ASSUME NEW t \in Nat
        PROVE  /\ Entries(Append(q, t)) = Entries(q) \cup {t}
               /\ t \notin Entries(q) => NoneTwice(Append(q, t))
    <2> DEFINE v == Append(q, t)
    <2>1. Len(v) = l + 1 /\ v[l + 1] = t /\ \A j \in 1 .. l : v[j] = q[j]
      BY <1>1
    <2> HIDE DEF v
    <2>2. \A j \in 1 .. l + 1 : j = l + 1 \/ j \in 1 .. l
      OBVIOUS
    <2>3. Entries(v) = Entries(q) \cup {t}
      BY <1>1, <2>1, <2>2 DEF Entries
    <2>4. t \notin Entries(q) => NoneTwice(v)
      BY <1>1, <2>1, <2>2 DEF Entries, NoneTwice
    <2>5. QED
      BY <2>3, <2>4 DEF v
  <1>3. ASSUME q # << >>
        PROVE  /\ Head(q) \in Entries(q) /\ NoneTwice(Tail(q))
               /\ Entries(Tail(q)) = Entries(q) \ {Head(q)}
    <2> DEFINE v == Tail(q)
    <2>1. PICK n \in Nat : n = l - 1 /\ l = n + 1
      BY <1>1, <1>3
    <2>2. Head(q) = q[1] /\ Len(v) = n /\ \A j \in 1 .. n : v[j] = q[j + 1] /\ j + 1 \in 1 .. l
      BY <1>1, <1>3, <2>1
    <2> HIDE DEF v
    <2>3. \A j \in 1 .. l : j = 1 \/ (j - 1 \in 1 .. n /\ v[j - 1] = q[j])
      <3> TAKE j \in 1 .. l
      <3>1. j # 1 => j - 1 \in 1 .. n /\ (j - 1) + 1 = j
        BY <2>1
      <3>2. QED
        BY <2>2, <3>1
    <2>4. 1 \in 1 .. l
      BY <2>1
    <2>5. \A i, j \in 1 .. l : q[i] = q[j] => i = j
      BY <1>1 DEF NoneTwice
    <2>6. Head(q) \in Entries(q)
      BY <1>1, <2>2, <2>4 DEF Entries
    <2>7. NoneTwice(v)
      <3> SUFFICES ASSUME NEW i \in 1 .. n, NEW j \in 1 .. n, v[i] = v[j] PROVE i = j
        BY <2>2 DEF NoneTwice
      <3>1. /\ v[i] = q[i + 1] /\ i + 1 \in 1 .. l
            /\ v[j] = q[j + 1] /\ j + 1 \in 1 .. l
        BY <2>2
      <3>2. i + 1 = j + 1
        BY <2>5, <3>1
      <3>3. QED
        BY <3>2
    <2>8. \A x \in Entries(v) : x \in Entries(q) /\ x # Head(q)
      <3>1. ASSUME NEW j \in 1 .. n PROVE v[j] \in Entries(q) /\ v[j] # q[1]
        <4>1. v[j] = q[j + 1] /\ j + 1 \in 1 .. l /\ j + 1 # 1
          BY <2>2
        <4>2. QED
          BY <1>1, <2>4, <2>5, <4>1 DEF Entries
      <3>2. \A x \in Entries(v) : \E j \in 1 .. n : x = v[j]
        BY <2>2 DEF Entries
      <3>3. QED
        BY <2>2, <3>1, <3>2
    <2>9. \A x \in Entries(q) : x = q[1] \/ x \in Entries(v)
      BY <1>1, <2>2, <2>3 DEF Entries
    <2>10. QED
      BY <2>2, <2>6, <2>7, <2>8, <2>9 DEF v
  <1>4. QED
    BY <1>2, <1>3

(* A receive is matched with a message. *)
LEMMA MatchEntries ==
  ASSUME NEW q \in Seq(Receives), NEW k \in 1 .. Len(q), NEW g \in SUBSET Messages, OnePerTag(q)
  PROVE  LET x == [tag |-> q[k].tag, got |-> g]
             v == [q EXCEPT ![k].got = g]
         IN  /\ v \in Seq(Receives) /\ OnePerTag(v)
             /\ Entries(v) = (Entries(q) \ {q[k]}) \cup {x}
             /\ \A y \in Entries(q) : y.tag = q[k].tag => y = q[k]
  <1> DEFINE x == [tag |-> q[k].tag, got |-> g]
             v == [q EXCEPT ![k] = x]
  <1>1. PICK l \in Nat : l = Len(q)
    OBVIOUS
  <1>2. q[k] \in Receives /\ x \in Receives /\ [q[k] EXCEPT !.got = g] = x
    <2>1. PICK y \in Receives : y = q[k]
      OBVIOUS
    <2>2. y.tag \in Nat /\ [y EXCEPT !.got = g] = [tag |-> y.tag, got |-> g]
      BY DEF Receives
    <2>3. QED
      BY <2>1, <2>2 DEF Receives
  <1>3. [q EXCEPT ![k].got = g] = v
    BY <1>2
  <1>4. x.tag = q[k].tag
    OBVIOUS
  <1> HIDE DEF x
  <1>5. v \in Seq(Receives) /\ Len(v) = l /\ v[k] = x /\ \A j \in 1 .. l : j # k => v[j] = q[j]
    BY <1>1, <1>2
  <1> HIDE DEF v
  <1>6. \A i, j \in 1 .. l : q[i].tag = q[j].tag => i = j
    BY <1>1 DEF OnePerTag
  <1>7. OnePerTag(v)
    BY <1>1, <1>4, <1>5, <1>6 DEF OnePerTag
  <1>8. Entries(v) = (Entries(q) \ {q[k]}) \cup {x}
    <2>1. \A j \in 1 .. l : j # k => q[j] # q[k]
      BY <1>1, <1>6
    <2>2. k \in 1 .. l
      BY <1>1
    <2>3. \A y \in Entries(v) : y = x \/ (y \in Entries(q) /\ y # q[k])
      BY <1>1, <1>5, <2>1 DEF Entries
    <2>4. x \in Entries(v)
      BY <1>5, <2>2 DEF Entries
    <2>5. \A y \in Entries(q) : y = q[k] \/ y \in Entries(v)
      BY <1>1, <1>5 DEF Entries
    <2>6. QED
      BY <2>3, <2>4, <2>5
  <1>9. \A y \in Entries(q) : y.tag = q[k].tag => y = q[k]
    BY <1>1, <1>6 DEF Entries
  <1>10. QED
    BY <1>3, <1>5, <1>7, <1>8, <1>9 DEF x

-----------------------------------------------------------------------------
(* The steps that leave messages, receives, probes and tasks alone. *)
LEMMA IdleSafe ==
  ASSUME Safe, TypeOK', UNCHANGED <<nRanks, net, serial, receives, probes, taskVars>>,
         \A r \in AllRanks : pc'[r] \in {"finalize", "done"} =>
           pc[r] \in {"finalize", "done"} \/ ~running[r]
  PROVE  Safe'
  <1>1. Posts' /\ Heard'
    BY DEF Safe, Posts, Heard, Listens, RankOf, taskVars
  <1>2. Counted'
    BY DEF Safe, Counted, Total, taskVars
  <1>2a. PICK m \in Messages : OnTurn(m)
    BY DEF Safe
  <1>2b. OnTurn(m)'
    BY <1>2a DEF OnTurn, Listens, RankOf, Total, taskVars
  <1>3. Stopped'
    BY DEF Safe, Stopped, RankOf, AllRanks, taskVars
  <1>4. Messages' = Messages
    BY DEF Messages
  <1>5. QED
    BY <1>1, <1>2, <1>2a, <1>2b, <1>3, <1>4 DEF Safe

LEMMA TestSendsSafe ==
  ASSUME Safe, NEW r \in AllRanks, TestSends(r), UNCHANGED taskVars
  PROVE  Safe'
  <1>1. r \in Ranks
    BY RankFacts DEF Safe, TypeOK, WarpTypeOK
  <1>2. PICK f \in SUBSET sends[r] : sends' = [sends EXCEPT ![r] = sends[r] \ f]
    BY DEF TestSends
  <1>3. sends[r] \ f \in SUBSET (1 .. MaxSerial)
    BY <1>1 DEF Safe, TypeOK, WarpTypeOK
  <1>4. TypeOK'
    BY <1>1, <1>2, <1>3 DEF TestSends, Safe, TypeOK, WarpTypeOK, taskVars
  <1>5. \A s \in AllRanks : pc'[s] \in {"finalize", "done"} => pc[s] \in {"finalize", "done"}
    BY <1>1, RankFacts DEF TestSends, Safe, TypeOK, WarpTypeOK
  <1>6. QED
    BY <1>4, <1>5, IdleSafe DEF TestSends

LEMMA QuietSafe ==
  ASSUME Safe, NEW r \in AllRanks, UNCHANGED taskVars,
         TestPending(r) \/ EndReceives(r) \/ EndPass(r, running[r]) \/ Finalize(r)
  PROVE  Safe'
  <1>1. r \in Ranks /\ AllRanks \subseteq Ranks
    BY RankFacts DEF Safe, TypeOK, WarpTypeOK
  <1>2. /\ UNCHANGED <<nRanks, sized, net, serial, sends, receives, probes>>
        /\ pc' \in [Ranks -> {"sends", "receives", "probes", "finalize", "done"}]
        /\ \A s \in AllRanks : pc'[s] \in {"finalize", "done"} =>
             pc[s] \in {"finalize", "done"} \/ ~running[s]
    BY <1>1 DEF TestPending, EndReceives, EndPass, Finalize, Safe, TypeOK, WarpTypeOK
  <1>3. at' \in [Ranks -> Nat]
    <2>1. at' = at \/ at' = [at EXCEPT ![r] = at[r] + 1]
      BY DEF TestPending, EndReceives, EndPass, Finalize
    <2>2. at \in [Ranks -> Nat] /\ at[r] + 1 \in Nat
      BY <1>1 DEF Safe, TypeOK, WarpTypeOK
    <2>3. QED
      BY <1>1, <2>1, <2>2
  <1>4. TypeOK'
    BY <1>2, <1>3 DEF Safe, TypeOK, WarpTypeOK, taskVars
  <1>5. QED
    BY <1>2, <1>4, IdleSafe

LEMMA MatchSafe ==
  ASSUME Safe, NEW m \in net, Match(m), UNCHANGED taskVars
  PROVE  Safe'
  <1>1. /\ TypeOK /\ Posts /\ Heard /\ Counted /\ Stopped
        /\ nRanks \in Sizes /\ receives \in [Ranks -> Seq(Receives)] /\ m \in Messages
    BY DEF Safe, TypeOK, WarpTypeOK
  <1>2. OnTurn(m) /\ net = {m}
    BY DEF Safe, OnTurn
  <1>3. m.to \in Ranks /\ m.to = RankOf(m.obj) /\ m.tag = m.obj
    BY <1>1, <1>2 DEF OnTurn, Messages
  <1> DEFINE q == receives[m.to]
  <1>4. PICK k \in 1 .. Len(q) :
          q[k] = Posted(m.tag) /\ receives' = [receives EXCEPT ![m.to][k].got = {m}]
    <2>1. q \in Seq(Receives) /\ DOMAIN q = 1 .. Len(q)
      BY <1>1, <1>3
    <2>2. QED
      BY <2>1 DEF Match
  <1>5. q \in Seq(Receives) /\ OnePerTag(q) /\ q[k].tag = m.tag /\ q[k].got = {}
    BY <1>1, <1>3, <1>4 DEF Posts, Posted
  <1> DEFINE x == [tag |-> q[k].tag, got |-> {m}]
             v == [q EXCEPT ![k].got = {m}]
  <1>6. {m} \in SUBSET Messages
    BY <1>1
  <1>7. /\ v \in Seq(Receives) /\ OnePerTag(v)
        /\ Entries(v) = (Entries(q) \ {q[k]}) \cup {x}
        /\ \A y \in Entries(q) : y.tag = q[k].tag => y = q[k]
    BY <1>5, <1>6, MatchEntries
  <1>8. q[k] \in Entries(q)
    BY DEF Entries
  <1>9. receives' = [receives EXCEPT ![m.to] = v]
    BY <1>4
  <1>10. x.tag = m.tag /\ x.got = {m}
    BY <1>5
  <1> HIDE DEF v, x
  <1>11. /\ receives' \in [Ranks -> Seq(Receives)] /\ receives'[m.to] = v
         /\ \A r \in Ranks : r # m.to => receives'[r] = receives[r]
    BY <1>1, <1>3, <1>7, <1>9
  <1> HIDE DEF q
  <1>12. UNCHANGED <<nRanks, sized, pc, serial, sends, at, probes>> /\ net' = {}
    BY <1>2 DEF Match
  <1>13. TypeOK'
    BY <1>1, <1>11, <1>12 DEF TypeOK, WarpTypeOK, taskVars
  <1>14. \A r \in Ranks : \A t : (\E e \in Entries(receives'[r]) : e.tag = t)
                                   <=> \E e \in Entries(receives[r]) : e.tag = t
    <2> SUFFICES ASSUME NEW t
                 PROVE  (\E e \in Entries(v) : e.tag = t) <=> \E e \in Entries(q) : e.tag = t
      BY <1>11 DEF q
    <2>1. QED
      BY <1>5, <1>7, <1>8, <1>10
  <1>15. Posts'
    <2> SUFFICES ASSUME NEW r \in Ranks
                 PROVE  /\ OnePerTag(receives'[r])
                        /\ \A e \in Entries(receives'[r]) :
                             e.tag \in Tasks /\ r = RankOf(e.tag) /\ ~over[e.tag]
                             /\ e.tag \notin Entries(probes[r])
      BY <1>1, <1>12 DEF Posts, RankOf, taskVars
    <2>1. OnePerTag(receives'[r])
      BY <1>1, <1>7, <1>11 DEF Posts
    <2>2. \A e \in Entries(receives'[r]) : \E f \in Entries(receives[r]) : f.tag = e.tag
      BY <1>14
    <2>3. QED
      BY <1>1, <2>1, <2>2 DEF Posts
  <1>16. Heard'
    <2>1. \A t \in Tasks : RankOf(t) \in Ranks /\ RankOf(t)' = RankOf(t)
      BY <1>1, <1>12, RankFacts DEF RankOf
    <2>2. \A t \in Tasks : Listens(RankOf(t), t)' <=> Listens(RankOf(t), t)
      BY <1>14, <2>1 DEF Listens
    <2>3. QED
      BY <1>1, <1>12, <2>1, <2>2 DEF Heard, taskVars
  <1>17. OnTurn(m)'
    <2>1. \A r \in Ranks : \A e \in Entries(receives'[r]) : e.got = IF e.tag = m.obj THEN {m} ELSE {}
      <3> SUFFICES ASSUME NEW r \in Ranks, NEW e \in Entries(receives'[r])
                   PROVE  e.got = IF e.tag = m.obj THEN {m} ELSE {}
        OBVIOUS
      <3>1. CASE r = m.to /\ e = x
        BY <1>3, <1>10, <3>1
      <3>2. CASE ~(r = m.to /\ e = x)
        <4>1. e \in Entries(receives[r])
          BY <1>7, <1>11, <3>2 DEF q
        <4>2. e.got = {}
          BY <1>2, <4>1 DEF OnTurn
        <4>3. e.tag # m.obj
          <5>1. CASE r = m.to
            BY <1>3, <1>5, <1>7, <1>11, <3>2, <4>1, <5>1 DEF q
          <5>2. CASE r # m.to
            BY <1>1, <1>3, <4>1, <5>2 DEF Posts
          <5>3. QED
            BY <5>1, <5>2
        <4>4. QED
          BY <4>2, <4>3
      <3>3. QED
        BY <3>1, <3>2
    <2>2. Listens(m.to, m.obj)'
      BY <1>3, <1>7, <1>10, <1>11 DEF Listens
    <2>3. QED
      BY <1>2, <1>12, <2>1, <2>2 DEF OnTurn, Total, RankOf, taskVars
  <1>18. Counted' /\ Stopped'
    BY <1>1, <1>12 DEF Counted, Stopped, Total, RankOf, AllRanks, taskVars
  <1>19. QED
    BY <1>1, <1>13, <1>15, <1>16, <1>17, <1>18 DEF Safe, Messages

(* Rank r listens for task t again, on an empty entry of its receives. *)
LEMMA InsertTyped ==
  ASSUME NEW r \in Ranks, NEW t \in Tasks, NEW p \in [Ranks -> Seq(Receives)], Insert(r, t, p),
         at \in [Ranks -> Nat], OnePerTag(p[r]), \A x \in Entries(p[r]) : x.tag # t
  PROVE  /\ receives' \in [Ranks -> Seq(Receives)] /\ at' \in [Ranks -> Nat]
         /\ \A s \in Ranks : s # r => receives'[s] = p[s]
         /\ OnePerTag(receives'[r]) /\ Entries(receives'[r]) = Entries(p[r]) \cup {Posted(t)}
  <1>1. PICK k \in 1 .. Len(p[r]) + 1 :
          /\ receives' = [p EXCEPT ![r] = InsertAt(p[r], k, Posted(t))]
          /\ at' = at \/ at' = [at EXCEPT ![r] = at[r] + 1]
    BY DEF Insert
  <1>2. p[r] \in Seq(Receives) /\ Posted(t) \in Receives /\ Posted(t).tag = t /\ at[r] + 1 \in Nat
    <2>1. Posted(t) \in Receives /\ Posted(t).tag = t
      BY DEF Receives, Posted, Tasks
    <2>2. p[r] \in Seq(Receives) /\ at[r] \in Nat
      OBVIOUS
    <2>3. QED
      BY <2>1, <2>2
  <1> DEFINE v == InsertAt(p[r], k, Posted(t))
  <1>3. v \in Seq(Receives)
    BY <1>2, InsertFacts
  <1>4. OnePerTag(v) /\ Entries(v) = Entries(p[r]) \cup {Posted(t)}
    BY <1>2, InsertEntries
  <1> HIDE DEF v
  <1>5. receives' = [p EXCEPT ![r] = v]
    BY <1>1 DEF v
  <1>6. QED
    BY <1>1, <1>2, <1>3, <1>4, <1>5

(* Before task t of r listens again r listens with p and b, for the others. *)
Others(r, t, p, b) ==
  /\ p \in [Ranks -> Seq(Receives)] /\ b \in [Ranks -> Seq(Nat)]
  /\ \A s \in Ranks : s # r => p[s] = receives[s] /\ b[s] = probes[s]
  /\ OnePerTag(p[r]) /\ NoneTwice(b[r])
  /\ Entries(p[r]) = {x \in Entries(receives[r]) : x.tag # t}
  /\ Entries(b[r]) = Entries(probes[r]) \ {t}

(* The new entry apart they listen with the entries of before. *)
Kept(r, t) ==
  /\ \A s \in Ranks : \A e \in Entries(receives'[s]) :
       \/ e \in Entries(receives[s]) /\ (s = r => e.tag # t)
       \/ s = r /\ e = Posted(t)
  /\ \A s \in Ranks, u \in Tasks : u # t /\ Listens(s, u) => Listens(s, u)'

(* What a rank listens for after it did so again for a task of its own. *)
LEMMA ListenAgain ==
  ASSUME Safe, NEW r \in Ranks, NEW t \in Tasks, RankOf(t) = r, ~over'[t], UNCHANGED nRanks,
         NEW p, NEW b, Others(r, t, p, b),
         \/ Insert(r, t, p) /\ probes' = b
         \/ /\ receives' = p /\ UNCHANGED at
            /\ probes' = [b EXCEPT ![r] = Append(b[r], t)],
         \A u \in Tasks : u # t => over'[u] = over[u]
  PROVE  /\ receives' \in [Ranks -> Seq(Receives)] /\ at' \in [Ranks -> Nat]
         /\ probes' \in [Ranks -> Seq(Nat)]
         /\ Posts' /\ Heard' /\ Kept(r, t)
  <1> USE DEF Others, Kept
  <1>1. /\ TypeOK /\ Posts /\ Heard /\ nRanks \in Sizes /\ at \in [Ranks -> Nat]
        /\ \A u \in Tasks : RankOf(u) \in Ranks /\ RankOf(u)' = RankOf(u)
    BY RankFacts DEF Safe, TypeOK, WarpTypeOK, RankOf
  <1>2. \A x \in Entries(p[r]) : x.tag # t
    OBVIOUS
  <1>3. Posted(t).tag = t /\ t \in Nat
    BY DEF Posted, Tasks
  <1>4. CASE Insert(r, t, p) /\ probes' = b
    <2>1. /\ receives' \in [Ranks -> Seq(Receives)] /\ at' \in [Ranks -> Nat]
          /\ \A s \in Ranks : s # r => receives'[s] = p[s]
          /\ OnePerTag(receives'[r]) /\ Entries(receives'[r]) = Entries(p[r]) \cup {Posted(t)}
      BY <1>1, <1>2, <1>4, InsertTyped
    <2>2. /\ \A s \in Ranks : \A e \in Entries(receives'[s]) :
              \/ e \in Entries(receives[s]) /\ (s = r => e.tag # t)
              \/ s = r /\ e = Posted(t)
         /\ \A s \in Ranks, u \in Tasks : u # t /\ Listens(s, u) => Listens(s, u)'
      BY <2>1 DEF Listens
    <2>3. Posts'
      <3> SUFFICES ASSUME NEW s \in Ranks
                   PROVE  /\ OnePerTag(receives'[s]) /\ NoneTwice(probes'[s])
                          /\ \A e \in Entries(receives'[s]) :
                               /\ e.tag \in Tasks /\ s = RankOf(e.tag) /\ ~over'[e.tag]
                               /\ e.tag \notin Entries(probes'[s])
                          /\ \A u \in Entries(probes'[s]) : u \in Tasks /\ s = RankOf(u) /\ ~over'[u]
        BY DEF Posts, RankOf
      <3>1. OnePerTag(receives'[s]) /\ NoneTwice(probes'[s])
        BY <1>1, <1>4, <2>1 DEF Posts
      <3>2. \A u \in Entries(probes'[s]) : u \in Entries(probes[s]) /\ (s = r => u # t)
        BY <1>4
      <3>3. \A u \in Entries(probes'[s]) : u \in Tasks /\ s = RankOf(u) /\ ~over'[u]
        BY <1>1, <3>2 DEF Posts
      <3>4. ASSUME NEW e \in Entries(receives'[s])
            PROVE  /\ e.tag \in Tasks /\ s = RankOf(e.tag) /\ ~over'[e.tag]
                   /\ e.tag \notin Entries(probes'[s])
        <4>1. CASE s = r /\ e = Posted(t)
          BY <1>3, <3>2, <4>1
        <4>2. CASE e \in Entries(receives[s]) /\ (s = r => e.tag # t)
          BY <1>1, <3>2, <4>2 DEF Posts
        <4>3. QED
          BY <2>2, <4>1, <4>2
      <3>5. QED
        BY <3>1, <3>3, <3>4
    <2>4. Heard'
      <3> SUFFICES ASSUME NEW u \in Tasks, ~over'[u]
                   PROVE  Listens(RankOf(u), u)' \/ u \in Entries(probes'[RankOf(u)])
        BY <1>1 DEF Heard
      <3>1. CASE u = t
        BY <1>1, <1>3, <2>1, <3>1 DEF Listens
      <3>2. CASE u # t
        <4>1. Listens(RankOf(u), u) \/ u \in Entries(probes[RankOf(u)])
          BY <1>1, <3>2 DEF Heard
        <4>2. Listens(RankOf(u), u) => Listens(RankOf(u), u)'
          <5>1. PICK d \in Ranks : d = RankOf(u) /\ d = RankOf(u)'
            BY <1>1
          <5>2. Listens(d, u) => Listens(d, u)'
            BY <2>2, <3>2
          <5>3. QED
            BY <5>1, <5>2 DEF Listens
        <4>3. u \in Entries(probes[RankOf(u)]) => u \in Entries(probes'[RankOf(u)])
          BY <1>1, <1>4, <3>2
        <4>4. QED
          BY <4>1, <4>2, <4>3
      <3>3. QED
        BY <3>1, <3>2
    <2>5. QED
      BY <1>4, <2>1, <2>2, <2>3, <2>4
  <1>5. CASE receives' = p /\ UNCHANGED at /\ probes' = [b EXCEPT ![r] = Append(b[r], t)]
    <2>1. b[r] \in Seq(Nat) /\ Append(b[r], t) \in Seq(Nat)
      BY <1>3
    <2>2. /\ Entries(Append(b[r], t)) = Entries(probes[r]) \cup {t}
          /\ NoneTwice(Append(b[r], t))
      BY <1>3, <2>1, ProbeEntries
    <2>3. /\ probes' \in [Ranks -> Seq(Nat)] /\ probes'[r] = Append(b[r], t)
          /\ \A s \in Ranks : s # r => probes'[s] = probes[s]
      BY <1>5, <2>1
    <2>4. /\ \A s \in Ranks : \A e \in Entries(receives'[s]) :
                e \in Entries(receives[s]) /\ (s = r => e.tag # t)
          /\ \A s \in Ranks, u \in Tasks : u # t /\ Listens(s, u) => Listens(s, u)'
      BY <1>5 DEF Listens
    <2>5. Posts'
      <3> SUFFICES ASSUME NEW s \in Ranks
                   PROVE  /\ OnePerTag(receives'[s]) /\ NoneTwice(probes'[s])
                          /\ \A e \in Entries(receives'[s]) :
                               /\ e.tag \in Tasks /\ s = RankOf(e.tag) /\ ~over'[e.tag]
                               /\ e.tag \notin Entries(probes'[s])
                          /\ \A u \in Entries(probes'[s]) : u \in Tasks /\ s = RankOf(u) /\ ~over'[u]
        BY DEF Posts, RankOf
      <3>1. OnePerTag(receives'[s]) /\ NoneTwice(probes'[s])
        BY <1>1, <1>5, <2>2, <2>3 DEF Posts
      <3>2. \A u \in Entries(probes'[s]) : u \in Entries(probes[s]) \/ (s = r /\ u = t)
        BY <2>2, <2>3
      <3>3. \A u \in Entries(probes'[s]) : u \in Tasks /\ s = RankOf(u) /\ ~over'[u]
        BY <1>1, <3>2 DEF Posts
      <3>4. ASSUME NEW e \in Entries(receives'[s])
            PROVE  /\ e.tag \in Tasks /\ s = RankOf(e.tag) /\ ~over'[e.tag]
                   /\ e.tag \notin Entries(probes'[s])
        <4>1. e \in Entries(receives[s]) /\ (s = r => e.tag # t)
          BY <2>4
        <4>2. /\ e.tag \in Tasks /\ s = RankOf(e.tag) /\ ~over[e.tag]
              /\ e.tag \notin Entries(probes[s])
          BY <1>1, <4>1 DEF Posts
        <4>3. e.tag # t
          BY <1>1, <4>1, <4>2
        <4>4. QED
          BY <1>1, <3>2, <4>1, <4>2, <4>3
      <3>5. QED
        BY <3>1, <3>3, <3>4
    <2>6. Heard'
      <3> SUFFICES ASSUME NEW u \in Tasks, ~over'[u]
                   PROVE  Listens(RankOf(u), u)' \/ u \in Entries(probes'[RankOf(u)])
        BY <1>1 DEF Heard
      <3>1. CASE u = t
        BY <2>2, <2>3, <3>1
      <3>2. CASE u # t
        <4>1. Listens(RankOf(u), u) \/ u \in Entries(probes[RankOf(u)])
          BY <1>1, <3>2 DEF Heard
        <4>2. Listens(RankOf(u), u) => Listens(RankOf(u), u)'
          <5>1. PICK d \in Ranks : d = RankOf(u) /\ d = RankOf(u)'
            BY <1>1
          <5>2. Listens(d, u) => Listens(d, u)'
            BY <2>4, <3>2
          <5>3. QED
            BY <5>1, <5>2 DEF Listens
        <4>3. u \in Entries(probes[RankOf(u)]) => u \in Entries(probes'[RankOf(u)])
          BY <1>1, <2>2, <2>3
        <4>4. QED
          BY <4>1, <4>2, <4>3
      <3>3. QED
        BY <3>1, <3>2
    <2>7. QED
      BY <1>1, <1>5, <2>3, <2>4, <2>5, <2>6
  <1>6. QED
    BY <1>4, <1>5

LEMMA ProbeSafe ==
  ASSUME Safe, NEW r \in AllRanks, Probe(r), UNCHANGED taskVars
  PROVE  Safe'
  <1>1. /\ TypeOK /\ Posts /\ Counted /\ Stopped /\ nRanks \in Sizes /\ r \in Ranks
        /\ receives \in [Ranks -> Seq(Receives)] /\ probes \in [Ranks -> Seq(Nat)]
    BY RankFacts DEF Safe, TypeOK, WarpTypeOK
  <1> DEFINE t == Head(probes[r])
             b == [probes EXCEPT ![r] = Tail(probes[r])]
  <1>2. probes[r] # << >> /\ net # {} /\ Insert(r, t, receives) /\ probes' = b
        /\ UNCHANGED <<nRanks, sized, pc, net, serial, sends>>
    BY DEF Probe, Ready
  <1>3. probes[r] \in Seq(Nat) /\ NoneTwice(probes[r])
    BY <1>1 DEF Posts
  <1>4. /\ t \in Entries(probes[r]) /\ NoneTwice(Tail(probes[r]))
        /\ Entries(Tail(probes[r])) = Entries(probes[r]) \ {t}
    BY <1>2, <1>3, ProbeEntries
  <1>5. b \in [Ranks -> Seq(Nat)] /\ b[r] = Tail(probes[r])
        /\ \A s \in Ranks : s # r => b[s] = probes[s]
    BY <1>1, <1>2, <1>3
  <1>6. t \in Tasks /\ RankOf(t) = r /\ ~over[t] /\ over' = over
    BY <1>1, <1>4 DEF Posts, taskVars
  <1>7. OnePerTag(receives[r]) /\ \A e \in Entries(receives[r]) : e.tag # t
    BY <1>1, <1>4 DEF Posts
  <1> HIDE DEF t, b
  <1>8. Others(r, t, receives, b)
    BY <1>1, <1>4, <1>5, <1>7 DEF Others, Posts
  <1>9. /\ receives' \in [Ranks -> Seq(Receives)] /\ at' \in [Ranks -> Nat]
        /\ probes' \in [Ranks -> Seq(Nat)]
        /\ Posts' /\ Heard' /\ Kept(r, t)
    BY <1>1, <1>2, <1>6, <1>8, ListenAgain
  <1>10. TypeOK'
    BY <1>1, <1>2, <1>9 DEF TypeOK, WarpTypeOK, taskVars
  <1>11. PICK m \in Messages : OnTurn(m)
    BY DEF Safe
  <1>12. OnTurn(m)'
    <2>1. \A s \in Ranks : \A e \in Entries(receives'[s]) : e.got = {}
      BY <1>2, <1>9, <1>11 DEF OnTurn, Posted, Kept
    <2>2. QED
      BY <1>2, <1>11, <2>1 DEF OnTurn, Total, RankOf, taskVars
  <1>13. Counted' /\ Stopped'
    BY <1>1, <1>2 DEF Counted, Stopped, Total, RankOf, AllRanks, taskVars
  <1>14. QED
    BY <1>9, <1>10, <1>12, <1>13 DEF Safe, Messages

(* A receipt is counted, and the task may be over. *)
LEMMA ReceiptCounted ==
  ASSUME TypeOK, Counted, NEW t \in Tasks, ~over[t],
         t = IF Total(0) = Total(1) THEN 1 ELSE 0,
         it' = [it EXCEPT ![t] = IF it[t] + 1 >= NIters THEN 0 ELSE @ + 1],
         warmup' = [warmup EXCEPT ![t] = @ /\ ~(it[t] + 1 >= NIters)],
         over' = [over EXCEPT ![t] = it[t] + 1 >= NIters /\ ~warmup[t]],
         serial' = serial + 1
  PROVE  /\ it' \in [Tasks -> 0 .. NIters - 1] /\ warmup' \in [Tasks -> BOOLEAN]
         /\ over' \in [Tasks -> BOOLEAN] /\ serial' \in 1 .. MaxSerial
         /\ Counted' /\ \A u \in Tasks : u # t => over'[u] = over[u]
         /\ Peer(t) = IF Total(0)' = Total(1)' THEN 1 ELSE 0
  <1> DEFINE full == it[t] + 1 >= NIters
  <1>1. it[t] \in 0 .. NIters - 1 /\ NIters \in Nat \ {0} /\ t \in {0, 1} /\ full \in BOOLEAN
        /\ it \in [Tasks -> 0 .. NIters - 1] /\ warmup \in [Tasks -> BOOLEAN]
        /\ over \in [Tasks -> BOOLEAN] /\ warmup[t] \in BOOLEAN
    BY Constants DEF TypeOK, Tasks
  <1>2. /\ it' \in [Tasks -> 0 .. NIters - 1]
        /\ it'[t] = IF full THEN 0 ELSE it[t] + 1
        /\ \A u \in Tasks : u # t => it'[u] = it[u]
    <2>1. (IF full THEN 0 ELSE it[t] + 1) \in 0 .. NIters - 1
      BY <1>1
    <2>2. QED
      BY <1>1, <2>1
  <1>3. /\ warmup' \in [Tasks -> BOOLEAN] /\ (warmup'[t] <=> warmup[t] /\ ~full)
        /\ \A u \in Tasks : u # t => warmup'[u] = warmup[u]
    BY <1>1, Zenon
  <1>4. /\ over' \in [Tasks -> BOOLEAN] /\ (over'[t] <=> full /\ ~warmup[t])
        /\ \A u \in Tasks : u # t => over'[u] = over[u]
    BY <1>1, Zenon
  <1> HIDE DEF full
  <1>5. full <=> it[t] + 1 >= NIters
    BY DEF full
  <1>6. Total(t)' = Total(t) + 1 /\ \A u \in Tasks : u # t => Total(u)' = Total(u)
    <2>1. Total(t)' = Total(t) + 1
      BY <1>1, <1>2, <1>3, <1>4, <1>5 DEF Total
    <2>2. \A u \in Tasks : u # t => Total(u)' = Total(u)
      BY <1>2, <1>3, <1>4 DEF Total
    <2>3. QED
      BY <2>1, <2>2
  <1>7. \A u \in Tasks : over'[u] => it'[u] = 0 /\ ~warmup'[u]
    BY <1>2, <1>3, <1>4 DEF Counted
  <1>8. PICK a \in Nat, b \in Nat : a = Total(0) /\ b = Total(1)
    BY TotalFacts DEF Tasks
  <1>9. /\ (t = 0 => a < 2 * NIters) /\ (t = 1 => b < 2 * NIters)
        /\ a <= 2 * NIters /\ b <= 2 * NIters
    BY <1>1, <1>8, TotalFacts DEF Tasks
  <1>10. /\ Total(0)' = IF t = 0 THEN a + 1 ELSE a
         /\ Total(1)' = IF t = 1 THEN b + 1 ELSE b
    BY <1>1, <1>6, <1>8 DEF Tasks
  <1>11. serial = 1 + a + b /\ b \in {a, a + 1} /\ t = IF a = b THEN 1 ELSE 0
    BY <1>8 DEF Counted
  <1>12. serial' = 1 + Total(0)' + Total(1)' /\ Total(1)' \in {Total(0)', Total(0)' + 1}
         /\ serial' \in 1 .. MaxSerial
    BY <1>1, <1>9, <1>10, <1>11, Constants
  <1>13. Peer(t) = IF Total(0)' = Total(1)' THEN 1 ELSE 0
    <2>1. Peer(t) = IF t = 0 THEN 1 ELSE 0
      BY <1>1 DEF Peer
    <2>2. QED
      BY <1>10, <1>11, <2>1
  <1>14. QED
    BY <1>2, <1>3, <1>4, <1>7, <1>12, <1>13 DEF Counted

(* The entry method runs: m was in the one receive for its task. *)
LEMMA ReceiveTakes ==
  ASSUME Safe, NEW r \in AllRanks, NEW m, Receive(r, m)
  PROVE  /\ m \in Messages /\ OnTurn(m) /\ net = {} /\ r \in Ranks
         /\ m.obj \in Tasks /\ RankOf(m.obj) = r /\ ~over[m.obj]
         /\ Erased(r) \in [Ranks -> Seq(Receives)]
         /\ Others(r, m.obj, Erased(r), probes)
  <1> DEFINE q == receives[r]
             k == at[r]
             v == RemoveAt(q, k)
  <1>1. /\ Posts /\ r \in Ranks /\ nRanks \in Sizes
        /\ receives \in [Ranks -> Seq(Receives)] /\ probes \in [Ranks -> Seq(Nat)]
    BY RankFacts DEF Safe, TypeOK, WarpTypeOK
  <1>2. q \in Seq(Receives) /\ OnePerTag(q)
    BY <1>1 DEF Posts
  <1>3. k \in 1 .. Len(q) /\ q[k].got = {m}
    BY <1>2 DEF Receive, TestComplete
  <1>4. q[k] \in Entries(q)
    BY <1>3 DEF Entries
  <1>5. PICK n \in Messages : OnTurn(n)
    BY DEF Safe
  <1>6. q[k].got = IF net = {} /\ q[k].tag = n.obj THEN {n} ELSE {}
    BY <1>1, <1>4, <1>5 DEF OnTurn
  <1>7. n = m /\ net = {} /\ q[k].tag = m.obj
    BY <1>3, <1>6
  <1>8. m.obj \in Tasks /\ RankOf(m.obj) = r /\ ~over[m.obj] /\ m.obj \notin Entries(probes[r])
    BY <1>1, <1>4, <1>7 DEF Posts
  <1>9. /\ Entries(v) = Entries(q) \ {q[k]} /\ OnePerTag(v)
        /\ \A x \in Entries(v) : x.tag # q[k].tag
    BY <1>2, <1>3, RemoveEntries
  <1>10. v \in Seq(Receives)
    BY <1>2, <1>3, RemoveFacts
  <1>11. Erased(r) = [receives EXCEPT ![r] = v]
    BY DEF Erased
  <1> HIDE DEF v, k
  <1>12. /\ Erased(r) \in [Ranks -> Seq(Receives)] /\ Erased(r)[r] = v
         /\ \A s \in Ranks : s # r => Erased(r)[s] = receives[s]
    BY <1>1, <1>10, <1>11
  <1>13. Entries(v) = {x \in Entries(q) : x.tag # m.obj}
    BY <1>7, <1>9
  <1>14. NoneTwice(probes[r])
    BY <1>1 DEF Posts
  <1>15. Others(r, m.obj, Erased(r), probes)
    BY <1>1, <1>8, <1>9, <1>12, <1>13, <1>14 DEF Others
  <1>16. QED
    BY <1>1, <1>5, <1>7, <1>8, <1>12, <1>15

(* Task t of r is over and stops listening. *)
LEMMA ListenNoMore ==
  ASSUME Safe, NEW r \in Ranks, NEW t \in Tasks, RankOf(t) = r, over'[t], UNCHANGED nRanks,
         NEW p, Others(r, t, p, probes), receives' = p, UNCHANGED <<at, probes>>,
         \A u \in Tasks : u # t => over'[u] = over[u]
  PROVE  Posts' /\ Heard' /\ Kept(r, t)
  <1>1. /\ Posts /\ Heard /\ nRanks \in Sizes
        /\ \A u \in Tasks : RankOf(u) \in Ranks /\ RankOf(u)' = RankOf(u)
    BY RankFacts DEF Safe, TypeOK, WarpTypeOK, RankOf
  <1>2. /\ \A s \in Ranks : \A e \in Entries(receives'[s]) :
             e \in Entries(receives[s]) /\ (s = r => e.tag # t)
        /\ \A s \in Ranks, u \in Tasks : u # t /\ Listens(s, u) => Listens(s, u)'
    BY DEF Others, Listens
  <1>3. Posts'
    <2> SUFFICES ASSUME NEW s \in Ranks
                 PROVE  /\ OnePerTag(receives'[s]) /\ NoneTwice(probes[s])
                        /\ \A e \in Entries(receives'[s]) :
                             /\ e.tag \in Tasks /\ s = RankOf(e.tag) /\ ~over'[e.tag]
                             /\ e.tag \notin Entries(probes[s])
                        /\ \A u \in Entries(probes[s]) : u \in Tasks /\ s = RankOf(u) /\ ~over'[u]
      BY DEF Posts, RankOf
    <2>1. OnePerTag(receives'[s]) /\ NoneTwice(probes[s])
      BY <1>1 DEF Posts, Others
    <2>2. t \notin Entries(probes[s])
      BY <1>1 DEF Posts, Others
    <2>3. \A u \in Entries(probes[s]) : u \in Tasks /\ s = RankOf(u) /\ ~over'[u]
      BY <1>1, <2>2 DEF Posts
    <2>4. \A e \in Entries(receives[s]) : e.tag = t => s = r
      BY <1>1 DEF Posts
    <2>5. QED
      BY <1>1, <1>2, <2>1, <2>3, <2>4 DEF Posts
  <1>4. Heard'
    <2> SUFFICES ASSUME NEW u \in Tasks, u # t, ~over[u]
                 PROVE  Listens(RankOf(u), u)' \/ u \in Entries(probes[RankOf(u)])
      BY <1>1 DEF Heard
    <2>1. PICK d \in Ranks : d = RankOf(u) /\ d = RankOf(u)'
      BY <1>1
    <2>2. Listens(d, u) \/ u \in Entries(probes[d])
      BY <1>1, <2>1 DEF Heard
    <2>3. Listens(d, u) => Listens(d, u)'
      BY <1>2
    <2>4. QED
      BY <2>1, <2>2, <2>3 DEF Listens
  <1>5. QED
    BY <1>2, <1>3, <1>4 DEF Kept

LEMMA ReceiveSafe ==
  ASSUME Safe, NEW r \in AllRanks, NEW m, Receive(r, m)
  PROVE  Safe'
  <1> DEFINE t == m.obj
  <1>1. /\ m \in Messages /\ OnTurn(m) /\ net = {} /\ r \in Ranks
        /\ t \in Tasks /\ RankOf(t) = r /\ ~over[t]
        /\ Erased(r) \in [Ranks -> Seq(Receives)]
        /\ Others(r, t, Erased(r), probes)
    BY ReceiveTakes
  <1>2. /\ TypeOK /\ Posts /\ Counted /\ Stopped /\ nRanks \in Sizes
        /\ probes \in [Ranks -> Seq(Nat)] /\ at \in [Ranks -> Nat]
        /\ running \in [Ranks -> BOOLEAN] /\ sends \in [Ranks -> SUBSET (1 .. MaxSerial)]
    BY DEF Safe, TypeOK, WarpTypeOK
  <1> DEFINE full == it[t] + 1 >= NIters
             ends == full /\ ~warmup[t]
             n == [id |-> serial + 1, to |-> RankOf(Peer(t)), obj |-> Peer(t), tag |-> Peer(t)]
  <1>3. /\ it' = [it EXCEPT ![t] = IF full THEN 0 ELSE @ + 1]
        /\ warmup' = [warmup EXCEPT ![t] = @ /\ ~full]
        /\ over' = [over EXCEPT ![t] = ends]
        /\ running' = [running EXCEPT ![r] = @ /\ ~(ends /\ t = r)]
        /\ serial' = serial + 1 /\ net' = {n}
        /\ sends' = [sends EXCEPT ![r] = @ \cup {serial'}]
        /\ UNCHANGED <<nRanks, sized, pc>>
    BY <1>1 DEF Receive, Send, Done, Ends, Stops, TestComplete
  <1>4. IF ends THEN receives' = Erased(r) /\ UNCHANGED <<at, probes>>
        ELSE Request(r, t, Erased(r))
    BY DEF Receive, Done, Ends
  <1>5. t = IF Total(0) = Total(1) THEN 1 ELSE 0
    BY <1>1 DEF OnTurn
  <1>6. /\ it' \in [Tasks -> 0 .. NIters - 1] /\ warmup' \in [Tasks -> BOOLEAN]
        /\ over' \in [Tasks -> BOOLEAN] /\ serial' \in 1 .. MaxSerial
        /\ Counted' /\ \A u \in Tasks : u # t => over'[u] = over[u]
        /\ Peer(t) = IF Total(0)' = Total(1)' THEN 1 ELSE 0
    BY <1>1, <1>2, <1>3, <1>5, ReceiptCounted
  <1>7. over'[t] <=> ends
    BY <1>1, <1>2, <1>3 DEF TypeOK
  <1> HIDE DEF ends
  <1>8. /\ receives' \in [Ranks -> Seq(Receives)] /\ at' \in [Ranks -> Nat]
        /\ probes' \in [Ranks -> Seq(Nat)]
        /\ Posts' /\ Heard' /\ Kept(r, t)
    <2> HIDE DEF t
    <2>1. CASE ends
      <3>1. Posts' /\ Heard' /\ Kept(r, t)
        <4>1. over'[t] /\ UNCHANGED nRanks /\ receives' = Erased(r) /\ UNCHANGED <<at, probes>>
          BY <1>3, <1>4, <1>7, <2>1
        <4>2. QED
          BY <1>1, <1>6, <4>1, ListenNoMore
      <3>2. QED
        BY <1>1, <1>2, <1>4, <2>1, <3>1
    <2>2. CASE ~ends
      <3>1. ~over'[t] /\ UNCHANGED nRanks
        BY <1>3, <1>7, <2>2
      <3>2. \/ Insert(r, t, Erased(r)) /\ probes' = probes
            \/ /\ receives' = Erased(r) /\ UNCHANGED at
               /\ probes' = [probes EXCEPT ![r] = Append(probes[r], t)]
        BY <1>4, <2>2 DEF Request
      <3>3. QED
        BY <1>1, <1>6, <3>1, <3>2, ListenAgain
    <2>3. QED
      BY <2>1, <2>2
  <1>9. n \in Messages
    <2>1. Peer(t) \in Tasks /\ RankOf(Peer(t)) \in Ranks
      BY <1>2, <1>6, RankFacts DEF Tasks
    <2>2. QED
      BY <1>3, <1>6, <2>1 DEF Messages, Tasks
  <1>10. TypeOK'
    <2>1. sends' \in [Ranks -> SUBSET (1 .. MaxSerial)] /\ running' \in [Ranks -> BOOLEAN]
      <3>1. sends[r] \cup {serial'} \in SUBSET (1 .. MaxSerial)
        BY <1>1, <1>2, <1>6
      <3>2. sends' \in [Ranks -> SUBSET (1 .. MaxSerial)]
        BY <1>2, <1>3, <3>1
      <3>3. running' \in [Ranks -> BOOLEAN]
        BY <1>2, <1>3, Zenon
      <3>4. QED
        BY <3>2, <3>3
    <2>2. net' \subseteq Messages /\ serial' \in 0 .. MaxSerial
      BY <1>3, <1>6, <1>9
    <2>3. QED
      BY <1>2, <1>3, <1>6, <1>8, <2>1, <2>2 DEF TypeOK, WarpTypeOK, Messages
  <1>10a. PICK y \in Messages : y = n
    BY <1>9
  <1>11. OnTurn(y)'
    <2>1. \A s \in Ranks : \A e \in Entries(receives'[s]) : e.got = {}
      <3> SUFFICES ASSUME NEW s \in Ranks, NEW e \in Entries(receives'[s]) PROVE e.got = {}
        OBVIOUS
      <3>1. CASE e = Posted(t)
        BY <3>1 DEF Posted
      <3>2. CASE e \in Entries(receives[s]) /\ (s = r => e.tag # t)
        <4>1. e.tag # t
          BY <1>1, <1>2, <3>2 DEF Posts
        <4>2. QED
          BY <1>1, <3>2, <4>1 DEF OnTurn
      <3>3. QED
        BY <1>8, <3>1, <3>2 DEF Kept
    <2>2. /\ y.id = serial' /\ y.tag = y.obj /\ y.obj = Peer(t) /\ y.to = RankOf(y.obj)'
      BY <1>3, <1>10a DEF RankOf, Peer
    <2>3. net' = {y}
      BY <1>3, <1>10a
    <2>4. y.obj = IF Total(0)' = Total(1)' THEN 1 ELSE 0
      BY <1>6, <2>2
    <2> HIDE DEF n, full, t
    <2>5. QED
      BY <2>1, <2>2, <2>3, <2>4 DEF OnTurn
  <1>12. Stopped'
    <2> SUFFICES ASSUME NEW s \in AllRanks
                 PROVE  /\ pc[s] \in {"finalize", "done"} => ~running'[s]
                        /\ ~running'[s] => \A u \in Tasks : RankOf(u) = s => over'[u]
      BY <1>3 DEF Stopped, AllRanks, RankOf
    <2>1. s \in Ranks
      BY <1>2, RankFacts
    <2>2. running'[s] <=> running[s] /\ ~(s = r /\ ends /\ t = r)
      BY <1>2, <1>3, <2>1 DEF ends
    <2>3. pc[s] \in {"finalize", "done"} => ~running'[s]
      BY <1>2, <2>2 DEF Stopped
    <2>4. CASE ~running[s]
      <3>1. \A u \in Tasks : RankOf(u) = s => over[u]
        BY <1>2, <2>4 DEF Stopped
      <3>2. QED
        BY <1>1, <1>6, <2>3, <3>1
    <2>5. CASE s = r /\ ends /\ t = r
      <3>1. ASSUME NEW u \in Tasks, RankOf(u) = r, u # t PROVE over[u]
        <4>1. t = 0 /\ u = 1
          BY <1>1, <1>2, <2>5, <3>1, RankFacts DEF Tasks
        <4>2. over'[0]
          BY <1>7, <2>5, <4>1
        <4>3. Total(0)' = 2 * NIters /\ Total(1)' <= 2 * NIters
          BY <1>6, <1>10, <4>2, TotalFactsNext DEF Tasks
        <4>4. Total(1)' = 2 * NIters
          BY <1>6, <4>3, Constants, TotalFactsNext, <1>10 DEF Counted, Tasks
        <4>5. over'[1]
          BY <1>6, <1>10, <4>4, TotalFactsNext DEF Tasks
        <4>6. QED
          BY <1>6, <4>1, <4>5 DEF Tasks
      <3>2. QED
        BY <1>6, <1>7, <2>3, <2>5, <3>1
    <2>6. QED
      BY <2>2, <2>3, <2>4, <2>5
  <1>13. QED
    <2> HIDE DEF n, full, t
    <2>1. \E z \in Messages : OnTurn(z)'
      BY <1>11
    <2>2. QED
      BY <1>6, <1>8, <1>10, <1>12, <2>1 DEF Safe, Messages, Ranks

-----------------------------------------------------------------------------
LEMMA ReverseEntries ==
  ASSUME NEW S, NEW q \in Seq(S)
  PROVE  /\ Reverse(q) \in Seq(S) /\ Entries(Reverse(q)) = Entries(q)
         /\ OnePerTag(q) => OnePerTag(Reverse(q))
  <1> DEFINE v == Reverse(q)
  <1>1. PICK l \in Nat : l = Len(q)
    OBVIOUS
  <1>2. \A j \in 1 .. l : l - j + 1 \in 1 .. l /\ l - (l - j + 1) + 1 = j
    OBVIOUS
  <1>3. /\ v \in Seq(S) /\ Len(v) = l
        /\ \A j \in 1 .. l : v[j] = q[l - j + 1]
    BY <1>1, <1>2 DEF Reverse
  <1> HIDE DEF v
  <1>4. \A j \in 1 .. l : q[j] = v[l - j + 1]
    BY <1>2, <1>3
  <1>5. Entries(v) = Entries(q)
    BY <1>1, <1>2, <1>3, <1>4 DEF Entries
  <1>6. ASSUME OnePerTag(q), NEW j \in 1 .. l, NEW k \in 1 .. l, v[j].tag = v[k].tag
        PROVE  j = k
    <2>1. q[l - j + 1].tag = q[l - k + 1].tag
      BY <1>3, <1>6
    <2>2. PICK x \in 1 .. l, y \in 1 .. l : x = l - j + 1 /\ y = l - k + 1
      BY <1>2
    <2>3. x = y
      BY <1>1, <1>6, <2>1, <2>2 DEF OnePerTag
    <2>4. QED
      BY <2>2, <2>3
  <1>7. QED
    BY <1>3, <1>5, <1>6 DEF OnePerTag, v

(* The tasks of rank r, in the order they are constructed in. *)
On(r) == IF r = 0 THEN (IF nRanks = 1 THEN <<0, 1>> ELSE <<0>>)
         ELSE IF r = 1 /\ nRanks > 1 THEN <<1>> ELSE << >>
OnPosted(r) == [k \in DOMAIN On(r) |-> Posted(On(r)[k])]

LEMMA OnEntries ==
  ASSUME nRanks \in Sizes, NEW r \in Ranks
  PROVE  /\ On(r) \in Seq(Nat) /\ NoneTwice(On(r))
         /\ Entries(On(r)) = {t \in Tasks : RankOf(t) = r}
         /\ OnPosted(r) \in Seq(Receives) /\ OnePerTag(OnPosted(r))
         /\ Entries(OnPosted(r)) = {Posted(t) : t \in {u \in Tasks : RankOf(u) = r}}
  <1>1. nRanks \in Nat \ {0} /\ r \in Nat /\ RankOf(0) = 0 /\ RankOf(1) = IF nRanks = 1 THEN 0 ELSE 1
    BY Constants, RankFacts
  <1>2. On(r) \in Seq(Nat)
    BY DEF On
  <1>3. PICK l \in Nat : l = Len(On(r))
    BY <1>2
  <1>4. NoneTwice(On(r)) /\ Entries(On(r)) = {t \in Tasks : RankOf(t) = r}
    <2>1. CASE r = 0 /\ nRanks = 1
      <3>1. On(r) = <<0, 1>>
        BY <2>1 DEF On
      <3>2. Entries(<<0, 1>>) = {0, 1} /\ NoneTwice(<<0, 1>>)
        BY DEF Entries, NoneTwice
      <3>3. QED
        BY <1>1, <2>1, <3>1, <3>2 DEF Tasks
    <2>2. CASE r = 0 /\ nRanks # 1
      <3>1. On(r) = <<0>>
        BY <2>2 DEF On
      <3>2. Entries(<<0>>) = {0} /\ NoneTwice(<<0>>)
        BY DEF Entries, NoneTwice
      <3>3. QED
        BY <1>1, <2>2, <3>1, <3>2 DEF Tasks
    <2>3. CASE r = 1 /\ nRanks # 1
      <3>1. On(r) = <<1>>
        BY <1>1, <2>3 DEF On
      <3>2. Entries(<<1>>) = {1} /\ NoneTwice(<<1>>)
        BY DEF Entries, NoneTwice
      <3>3. QED
        BY <1>1, <2>3, <3>1, <3>2 DEF Tasks
    <2>4. CASE r \notin {0, 1} \/ (r = 1 /\ nRanks = 1)
      <3>1. On(r) = << >>
        BY <2>4 DEF On
      <3>2. Entries(<< >>) = {} /\ NoneTwice(<< >>)
        BY DEF Entries, NoneTwice
      <3>3. QED
        BY <1>1, <2>4, <3>1, <3>2 DEF Tasks
    <2>5. (r = 0 /\ nRanks = 1) \/ (r = 0 /\ nRanks # 1) \/ (r = 1 /\ nRanks # 1)
            \/ (r \notin {0, 1} \/ (r = 1 /\ nRanks = 1))
      OBVIOUS
    <2>6. QED
      BY <2>1, <2>2, <2>3, <2>4, <2>5
  <1>5. \A k \in 1 .. l : On(r)[k] \in Nat /\ Posted(On(r)[k]) \in Receives
    BY <1>2, <1>3 DEF Posted, Receives
  <1>6. /\ OnPosted(r) \in Seq(Receives) /\ Len(OnPosted(r)) = l
        /\ \A k \in 1 .. l : OnPosted(r)[k] = Posted(On(r)[k])
    BY <1>2, <1>3, <1>5 DEF OnPosted
  <1>7. \A t : Posted(t).tag = t
    BY DEF Posted
  <1>8. OnePerTag(OnPosted(r))
    BY <1>3, <1>4, <1>6, <1>7 DEF OnePerTag, NoneTwice
  <1>9. Entries(OnPosted(r)) = {Posted(t) : t \in Entries(On(r))}
    BY <1>3, <1>6 DEF Entries
  <1>10. QED
    BY <1>2, <1>4, <1>6, <1>8, <1>9

LEMMA InitSafe ==
  ASSUME Init
  PROVE  Safe
  <1>1. nRanks \in Sizes /\ sized \in BOOLEAN
    BY DEF Init
  <1>2. /\ nRanks \in Nat \ {0} /\ 0 \in Ranks /\ MaxSerial \in Nat \ {0} /\ Ranks \subseteq Nat
        /\ \A t \in Tasks : RankOf(t) \in Ranks
        /\ AllRanks \subseteq Ranks
    BY <1>1, Constants, RankFacts
  <1> DEFINE m == [id |-> 1, to |-> RankOf(1), obj |-> 1, tag |-> 1]
  <1>3. \/ receives = [r \in Ranks |-> IF sized THEN OnPosted(r) ELSE << >>]
        \/ receives = [r \in Ranks |-> IF sized THEN Reverse(OnPosted(r)) ELSE << >>]
    BY Zenon DEF Init, On, OnPosted
  <1>4. probes = [r \in Ranks |-> IF sized THEN << >> ELSE On(r)]
    BY Zenon DEF Init, On
  <1>5. /\ running = [r \in Ranks |-> r < 2]
        /\ pc = [r \in Ranks |-> IF r < 2 THEN "sends" ELSE "finalize"]
        /\ serial = 1 /\ net = {m}
        /\ sends = [r \in Ranks |-> IF r = 0 THEN {1} ELSE {}]
        /\ at = [r \in Ranks |-> 1]
        /\ it = [t \in Tasks |-> 0]
        /\ warmup = [t \in Tasks |-> TRUE] /\ over = [t \in Tasks |-> FALSE]
    BY DEF Init, RankOf
  <1>6. m \in Messages
    BY <1>2 DEF Messages, Tasks
  <1> HIDE DEF m
  <1>7. ASSUME NEW r \in Ranks
        PROVE  LET mine == IF sized THEN {u \in Tasks : RankOf(u) = r} ELSE {}
               IN  /\ receives[r] \in Seq(Receives) /\ OnePerTag(receives[r])
                   /\ Entries(receives[r]) = {Posted(t) : t \in mine}
    <2>1. CASE sized
      <3>1. receives[r] = OnPosted(r) \/ receives[r] = Reverse(OnPosted(r))
        BY <1>3, <2>1
      <3>2. QED
        BY <1>1, <2>1, <3>1, OnEntries, ReverseEntries
    <2>2. CASE ~sized
      <3>1. receives[r] = << >>
        BY <1>3, <2>2
      <3>2. QED
        BY <2>2, <3>1 DEF OnePerTag, Entries
    <2>3. QED
      BY <2>1, <2>2
  <1>8. ASSUME NEW r \in Ranks
        PROVE  /\ probes[r] \in Seq(Nat) /\ NoneTwice(probes[r])
               /\ Entries(probes[r]) = IF sized THEN {} ELSE {u \in Tasks : RankOf(u) = r}
    <2>1. CASE sized
      <3>1. probes[r] = << >>
        BY <1>4, <2>1
      <3>2. QED
        BY <2>1, <3>1 DEF NoneTwice, Entries
    <2>2. CASE ~sized
      BY <1>1, <1>4, <2>2, OnEntries
    <2>3. QED
      BY <2>1, <2>2
  <1>9. \A t : Posted(t).tag = t /\ Posted(t).got = {}
    BY DEF Posted
  <1>10. TypeOK
    <2>1. receives \in [Ranks -> Seq(Receives)] /\ probes \in [Ranks -> Seq(Nat)]
      BY <1>3, <1>4, <1>7, <1>8
    <2>2. /\ pc \in [Ranks -> {"sends", "receives", "probes", "finalize", "done"}]
          /\ sends \in [Ranks -> SUBSET (1 .. MaxSerial)] /\ at \in [Ranks -> Nat]
          /\ net \subseteq Messages /\ serial \in 0 .. MaxSerial
      BY <1>2, <1>5, <1>6
    <2>3. /\ running \in [Ranks -> BOOLEAN] /\ it \in [Tasks -> 0 .. NIters - 1]
          /\ warmup \in [Tasks -> BOOLEAN] /\ over \in [Tasks -> BOOLEAN]
      BY <1>5, Constants
    <2>4. QED
      BY <1>1, <2>1, <2>2, <2>3 DEF TypeOK, WarpTypeOK
  <1>11. Posts
    <2> SUFFICES ASSUME NEW r \in Ranks
                 PROVE  /\ OnePerTag(receives[r]) /\ NoneTwice(probes[r])
                        /\ \A e \in Entries(receives[r]) :
                             /\ e.tag \in Tasks /\ r = RankOf(e.tag) /\ ~over[e.tag]
                             /\ e.tag \notin Entries(probes[r])
                        /\ \A t \in Entries(probes[r]) : t \in Tasks /\ r = RankOf(t) /\ ~over[t]
      BY DEF Posts
    <2>1. \A t \in Tasks : ~over[t]
      BY <1>5
    <2>2. OnePerTag(receives[r]) /\ NoneTwice(probes[r])
      BY <1>7, <1>8
    <2>3. ASSUME NEW e \in Entries(receives[r])
          PROVE  sized /\ e.tag \in {u \in Tasks : RankOf(u) = r}
      <3>1. CASE sized
        <4>1. PICK u \in {v \in Tasks : RankOf(v) = r} : e = Posted(u)
          BY <1>7, <2>3, <3>1
        <4>2. e.tag = u
          BY <1>9, <4>1
        <4>3. QED
          BY <3>1, <4>1, <4>2
      <3>2. CASE ~sized
        BY <1>7, <2>3, <3>2
      <3>3. QED
        BY <3>1, <3>2
    <2>4. \A t \in Entries(probes[r]) : ~sized /\ t \in Tasks /\ RankOf(t) = r
      BY <1>8
    <2>5. QED
      BY <2>1, <2>2, <2>3, <2>4
  <1>12. Heard
    <2> SUFFICES ASSUME NEW t \in Tasks
                 PROVE  Listens(RankOf(t), t) \/ t \in Entries(probes[RankOf(t)])
      BY DEF Heard
    <2>1. RankOf(t) \in Ranks
      BY <1>2
    <2>2. CASE sized
      <3>1. Posted(t) \in Entries(receives[RankOf(t)])
        BY <1>7, <2>1, <2>2
      <3>2. QED
        BY <1>9, <3>1 DEF Listens
    <2>3. CASE ~sized
      BY <1>8, <2>1, <2>3
    <2>4. QED
      BY <2>2, <2>3
  <1>13. Total(0) = 0 /\ Total(1) = 0
    BY <1>5 DEF Total, Tasks
  <1>14. Counted
    BY <1>5, <1>13 DEF Counted
  <1>15. Stopped
    <2> SUFFICES ASSUME NEW r \in AllRanks
                 PROVE  /\ pc[r] \in {"finalize", "done"} => ~running[r]
                        /\ ~running[r] => \A t \in Tasks : RankOf(t) = r => over[t]
      BY DEF Stopped
    <2>1. \A t \in Tasks : RankOf(t) < 2
      BY <1>1, RankFacts DEF Tasks
    <2>2. QED
      BY <1>2, <1>5, <2>1
  <1>16. OnTurn(m)
    <2>1. \A r \in Ranks : \A e \in Entries(receives[r]) : e.got = {}
      BY <1>7, <1>9
    <2>2. m.id = serial /\ m.tag = m.obj /\ m.obj = 1 /\ m.to = RankOf(m.obj)
      BY <1>5 DEF m
    <2>3. QED
      BY <1>5, <1>13, <2>1, <2>2 DEF OnTurn
  <1>17. QED
    BY <1>6, <1>10, <1>11, <1>12, <1>14, <1>15, <1>16 DEF Safe

LEMMA SafeNext ==
  ASSUME Safe, [Next]_vars
  PROVE  Safe'
  <1>1. CASE Deliver
    BY <1>1, MatchSafe DEF Deliver
  <1>2. ASSUME NEW r \in AllRanks, RankStep(r)
        PROVE  Safe'
    <2>1. CASE TestSends(r) /\ UNCHANGED taskVars
      BY <2>1, TestSendsSafe
    <2>2. CASE /\ TestPending(r) \/ EndReceives(r) \/ EndPass(r, running[r]) \/ Finalize(r)
               /\ UNCHANGED taskVars
      BY <2>2, QuietSafe
    <2>3. CASE Probe(r) /\ UNCHANGED taskVars
      BY <2>3, ProbeSafe
    <2>4. CASE \E k \in DOMAIN receives[r] : \E m \in receives[r][k].got : Receive(r, m)
      BY <2>4, ReceiveSafe
    <2>5. QED
      BY <1>2, <2>1, <2>2, <2>3, <2>4 DEF RankStep
  <1>3. CASE UNCHANGED vars
    <2>1. TypeOK'
      BY <1>3 DEF Safe, TypeOK, WarpTypeOK, vars, warpVars, taskVars
    <2>2. QED
      BY <1>3, <2>1, IdleSafe DEF vars, warpVars, taskVars
  <1>4. QED
    BY <1>1, <1>2, <1>3 DEF Next, Exited

(* Whatever Spec does, Safe holds: the inductive invariant. *)
THEOREM AlwaysSafe == Spec => []Safe
  <1>1. Init => Safe
    BY InitSafe
  <1>2. Safe /\ [Next]_vars => Safe'
    BY SafeNext
  <1>3. QED
    BY <1>1, <1>2, PTL DEF Spec

-----------------------------------------------------------------------------
LEMMA SafeTakesTurns ==
  ASSUME Safe
  PROVE  TakeTurns
  <1>1. PICK m \in Messages : OnTurn(m)
    BY DEF Safe
  <1>2. /\ nRanks \in Sizes /\ receives \in [Ranks -> Seq(Receives)] /\ Counted
        /\ \A t \in Tasks : RankOf(t) \in Ranks
    BY RankFacts DEF Safe, TypeOK, WarpTypeOK, AllRanks
  <1>3. m.to \in Ranks
    BY <1>1 DEF Messages
  <1>5. UNION {UNION {receives[r][k].got : k \in DOMAIN receives[r]} : r \in Ranks} =
          UNION {UNION {e.got : e \in Entries(receives[r])} : r \in Ranks}
    BY <1>2 DEF Entries
  <1>6. InPlay = {m}
    <2>1. CASE net = {}
      <3>1. Listens(m.to, m.obj)
        BY <1>1, <2>1 DEF OnTurn
      <3>2. PICK e \in Entries(receives[m.to]) : e.got = {m}
        BY <1>1, <1>3, <2>1, <3>1 DEF OnTurn, Listens
      <3>3. \A r \in Ranks : \A f \in Entries(receives[r]) : f.got \subseteq {m}
        BY <1>1, <2>1 DEF OnTurn
      <3>4. QED
        BY <1>3, <1>5, <2>1, <3>2, <3>3 DEF InPlay
    <2>2. CASE net # {}
      <3>1. net = {m} /\ \A r \in Ranks : \A f \in Entries(receives[r]) : f.got = {}
        BY <1>1, <2>2 DEF OnTurn
      <3>2. QED
        BY <1>5, <3>1 DEF InPlay
    <2>3. QED
      BY <2>1, <2>2
  <1>7. QED
    BY <1>1, <1>2, <1>6 DEF TakeTurns, OnTurn, Counted

LEMMA SafeListens ==
  ASSUME Safe
  PROVE  Listening
  <1>1. PICK m \in Messages : OnTurn(m)
    BY DEF Safe
  <1>2. /\ Posts /\ Heard /\ nRanks \in Sizes /\ AllRanks \subseteq Ranks
        /\ receives \in [Ranks -> Seq(Receives)] /\ probes \in [Ranks -> Seq(Nat)]
    BY RankFacts DEF Safe, TypeOK, WarpTypeOK
  <1>3. Cardinality({}) = 0 /\ \A x : Cardinality({x}) = 1
    BY FS_EmptySet, FS_Singleton
  <1>4. ASSUME NEW t \in Tasks, NEW r \in AllRanks
        PROVE  Cardinality({k \in DOMAIN receives[r] : receives[r][k].tag = t})
                 + Cardinality({k \in DOMAIN probes[r] : probes[r][k] = t}) =
                 IF r = RankOf(t) /\ ~over[t] THEN 1 ELSE 0
    <2>1. r \in Ranks
      BY <1>2
    <2>2. DOMAIN receives[r] = 1 .. Len(receives[r]) /\ DOMAIN probes[r] = 1 .. Len(probes[r])
      BY <1>2, <2>1
    <2> DEFINE posted == {k \in DOMAIN receives[r] : receives[r][k].tag = t}
               probed == {k \in DOMAIN probes[r] : probes[r][k] = t}
    <2>3. Listens(r, t) => \E k \in posted : posted = {k}
      <3> HAVE Listens(r, t)
      <3>1. PICK k \in 1 .. Len(receives[r]) : receives[r][k].tag = t
        BY DEF Listens, Entries
      <3>2. \A j \in 1 .. Len(receives[r]) : receives[r][j].tag = t => j = k
        BY <1>2, <2>1, <3>1 DEF Posts, OnePerTag
      <3>3. k \in posted /\ posted = {k}
        BY <2>2, <3>1, <3>2
      <3>4. QED
        BY <3>3
    <2>4. ~Listens(r, t) => posted = {}
      BY <2>2 DEF Listens, Entries
    <2>5. t \in Entries(probes[r]) => \E k \in probed : probed = {k}
      <3> HAVE t \in Entries(probes[r])
      <3>1. PICK k \in 1 .. Len(probes[r]) : probes[r][k] = t
        BY DEF Entries
      <3>2. \A j \in 1 .. Len(probes[r]) : probes[r][j] = t => j = k
        BY <1>2, <2>1, <3>1 DEF Posts, NoneTwice
      <3>3. k \in probed /\ probed = {k}
        BY <2>2, <3>1, <3>2
      <3>4. QED
        BY <3>3
    <2>6. t \notin Entries(probes[r]) => probed = {}
      BY <2>2 DEF Entries
    <2>7. Listens(r, t) => r = RankOf(t) /\ ~over[t] /\ t \notin Entries(probes[r])
      BY <1>2, <2>1 DEF Listens, Posts
    <2>8. t \in Entries(probes[r]) => r = RankOf(t) /\ ~over[t]
      BY <1>2, <2>1 DEF Posts
    <2> HIDE DEF posted, probed
    <2>9. CASE Listens(r, t)
      <3>1. Cardinality(posted) = 1 /\ Cardinality(probed) = 0
        BY <1>3, <2>3, <2>6, <2>7, <2>9
      <3>2. QED
        BY <2>7, <2>9, <3>1 DEF posted, probed
    <2>10. CASE ~Listens(r, t) /\ t \in Entries(probes[r])
      <3>1. Cardinality(posted) = 0 /\ Cardinality(probed) = 1
        BY <1>3, <2>4, <2>5, <2>10
      <3>2. QED
        BY <2>8, <2>10, <3>1 DEF posted, probed
    <2>11. CASE ~Listens(r, t) /\ t \notin Entries(probes[r])
      <3>1. Cardinality(posted) = 0 /\ Cardinality(probed) = 0
        BY <1>3, <2>4, <2>6, <2>11
      <3>2. ~(r = RankOf(t) /\ ~over[t])
        BY <1>2, <2>11 DEF Heard
      <3>3. QED
        BY <3>1, <3>2 DEF posted, probed
    <2>12. QED
      BY <2>9, <2>10, <2>11
  <1>5. ASSUME NEW r \in AllRanks, NEW k \in DOMAIN receives[r], NEW x \in receives[r][k].got
        PROVE  x.obj = receives[r][k].tag
    <2>1. r \in Ranks /\ receives[r][k] \in Entries(receives[r])
      BY <1>2 DEF Entries
    <2>2. QED
      BY <1>1, <1>5, <2>1 DEF OnTurn
  <1>6. QED
    BY <1>4, <1>5 DEF Listening

LEMMA SafeLeavesNothing ==
  ASSUME Safe
  PROVE  LeavesNothing
  <1> SUFFICES ASSUME NEW r \in AllRanks, pc[r] \in {"finalize", "done"}
               PROVE  /\ receives[r] = << >> /\ probes[r] = << >>
                      /\ \A m \in net : m.to = r => m.id = MaxSerial
    BY DEF LeavesNothing
  <1>1. PICK m \in Messages : OnTurn(m)
    BY DEF Safe
  <1>2. /\ TypeOK /\ Posts /\ Counted /\ r \in Ranks
        /\ receives[r] \in Seq(Receives) /\ probes[r] \in Seq(Nat)
    BY RankFacts DEF Safe, TypeOK, WarpTypeOK
  <1>3. \A t \in Tasks : RankOf(t) = r => over[t]
    BY DEF Safe, Stopped
  <1>4. Entries(receives[r]) = {} /\ Entries(probes[r]) = {}
    BY <1>2, <1>3 DEF Posts
  <1>5. receives[r] = << >> /\ probes[r] = << >>
    <2>1. \A q : Entries(q) = {} => \A k \in 1 .. Len(q) : FALSE
      BY DEF Entries
    <2>2. Len(receives[r]) = 0 /\ Len(probes[r]) = 0
      BY SMTT(30), <1>2, <1>4, <2>1
    <2>3. QED
      BY <1>2, <2>2
  <1>6. ASSUME NEW x \in net, x.to = r
        PROVE  x.id = MaxSerial
    <2>1. x = m /\ m.id = serial /\ m.to = RankOf(m.obj)
          /\ m.obj = IF Total(0) = Total(1) THEN 1 ELSE 0
      BY <1>1, <1>6 DEF OnTurn
    <2>2. m.obj \in Tasks /\ over[m.obj]
      BY <1>3, <1>6, <2>1 DEF Tasks
    <2>3. /\ Total(0) \in 0 .. 2 * NIters /\ Total(1) \in 0 .. 2 * NIters
          /\ Total(m.obj) = 2 * NIters
      BY <1>2, <2>2, TotalFacts DEF Tasks
    <2>4. serial = 1 + Total(0) + Total(1) /\ Total(1) \in {Total(0), Total(0) + 1}
      BY <1>2 DEF Counted
    <2>5. Total(0) = 2 * NIters /\ Total(1) = 2 * NIters
      BY <2>1, <2>3, <2>4, Constants
    <2>6. QED
      BY <2>1, <2>4, <2>5, Constants
  <1>7. QED
    BY <1>5, <1>6

(* The two tasks never go out of turn, whatever the number of ranks. *)
THEOREM TasksTakeTurns == Spec => []TakeTurns
  BY AlwaysSafe, SafeTakesTurns, PTL

(* A task that goes on has its one receive or probe, and only its message. *)
THEOREM TasksListen == Spec => []Listening
  BY AlwaysSafe, SafeListens, PTL

(* MPI_Finalize is called with nothing left but the last message. *)
THEOREM FinalizeLeavesNothing == Spec => []LeavesNothing
  BY AlwaysSafe, SafeLeavesNothing, PTL
==============================================================================
