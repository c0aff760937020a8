---------------------------- MODULE IpcLfq_proofs ----------------------------
(***************************************************************************)
(* IInv is an inductive invariant of IpcLfq when std::size_t wraps at a    *)
(* multiple of N (N a power of two), and with it the properties the runs   *)
(* check hold for any number of producers, values and nodes.               *)
(***************************************************************************)
EXTENDS IpcLfq, FiniteSetTheorems, TLAPS

-----------------------------------------------------------------------------
(* Facts about remainders, for the slots of the ring buffer. *)

(* The only multiple of n strictly between -n and n is 0. *)
LEMMA SmallMultiple ==
  ASSUME NEW n \in Nat \ {0}, NEW k \in Int, k * n < n, -n < k * n
  PROVE  k = 0
BY SMT

(* Division with remainder. *)
LEMMA DivMod ==
  ASSUME NEW n \in Nat \ {0}, NEW t \in Nat
  PROVE  /\ t \div n \in Nat
         /\ t % n \in 0 .. n - 1
         /\ t = n * (t \div n) + (t % n)
BY SMT

(* The remainder is the only number below n that the division leaves. *)
LEMMA ModUnique ==
  ASSUME NEW n \in Nat \ {0}, NEW q \in Nat, NEW r \in 0 .. n - 1
  PROVE  (n * q + r) % n = r
<1> DEFINE t == n * q + r
           b == t \div n
           m == t % n
<1>1. t \in Nat
  BY SMT
<1>2. t = n * b + m /\ b \in Nat /\ m \in 0 .. n - 1
  BY <1>1, DivMod
<1>3. t = n * q + r
  OBVIOUS
<1> HIDE DEF t, b, m
<1>4. (q - b) * n = m - r
  BY <1>2, <1>3, SMT
<1>5. q - b = 0
  BY <1>2, <1>4, SmallMultiple, SMT
<1>6. m = r
  BY <1>2, <1>4, <1>5, SMT
<1> QED
  BY <1>6 DEF m, t

(* Two numbers less than n apart with one remainder are the same. *)
LEMMA WindowUnique ==
  ASSUME NEW n \in Nat \ {0}, NEW s \in Nat, NEW t \in Nat,
         s - t < n, t - s < n, s % n = t % n
  PROVE  s = t
<1> DEFINE a == s \div n
           b == t \div n
           r == s % n
<1>1. s = n * a + r /\ a \in Nat /\ r \in 0 .. n - 1
  BY DivMod
<1>2. t = n * b + r /\ b \in Nat
  BY DivMod
<1> HIDE DEF a, b, r
<1>3. t - s = (b - a) * n
  BY <1>1, <1>2, SMT
<1>4. (b - a) * n < n /\ -n < (b - a) * n /\ b - a \in Int
  BY <1>1, <1>2, <1>3, SMT
<1>5. b - a = 0
  BY <1>4, SmallMultiple
<1> QED
  BY <1>1, <1>2, <1>3, <1>5, SMT

(* A counter modulo a multiple of n has the remainder of what it counts. *)
LEMMA NestedMod ==
  ASSUME NEW n \in Nat \ {0}, NEW h \in Nat \ {0}, h % n = 0, NEW t \in Nat
  PROVE  (t % h) % n = t % n
<1> DEFINE k == h \div n
           q == t \div h
           r == t % h
           j == r \div n
           s == r % n
<1>1. h = n * k /\ k \in Nat
  BY DivMod, SMT
<1>2. t = h * q + r /\ q \in Nat /\ r \in Nat
  BY DivMod, SMT
<1>3. r = n * j + s /\ j \in Nat /\ s \in 0 .. n - 1
  BY <1>2, DivMod
<1> HIDE DEF k, q, r, j, s
<1>4. t = n * (k * q + j) + s /\ k * q + j \in Nat
  BY <1>1, <1>2, <1>3, SMT
<1>5. t % n = s
  BY <1>3, <1>4, ModUnique
<1> QED
  BY <1>5 DEF s, r

(* Counting on from a remainder: for n itself, and for a wrapped counter. *)
LEMMA ModSucc ==
  ASSUME NEW n \in Nat \ {0}, NEW t \in Nat
  PROVE  /\ (t + 1) % n = IF (t % n) + 1 >= n THEN 0 ELSE (t % n) + 1
         /\ ((t % n) + 1) % n = (t + 1) % n
<1> DEFINE q == t \div n
           r == t % n
<1>1. t = n * q + r /\ q \in Nat /\ r \in 0 .. n - 1
  BY DivMod
<1> HIDE DEF q, r
<1>2. CASE r + 1 < n
  <2>1. r + 1 \in 0 .. n - 1 /\ t + 1 = n * q + (r + 1)
    BY <1>1, <1>2, SMT
  <2>2. (t + 1) % n = r + 1
    BY <2>1, <1>1, ModUnique
  <2>3. (r + 1) % n = r + 1
    BY <2>1, SMT
  <2> QED
    BY <1>1, <1>2, <2>2, <2>3, SMT DEF r
<1>3. CASE r + 1 = n
  <2>1. t + 1 = n * (q + 1) + 0 /\ q + 1 \in Nat /\ 0 \in 0 .. n - 1
    BY <1>1, <1>3, SMT
  <2>2. (t + 1) % n = 0
    BY <2>1, ModUnique
  <2>3. (r + 1) % n = 0
    BY <1>3, SMT
  <2> QED
    BY <1>1, <1>3, <2>2, <2>3, SMT DEF r
<1> QED
  BY <1>1, <1>2, <1>3, SMT

(* A remainder may be taken before an addition. *)
LEMMA ModAdd ==
  ASSUME NEW n \in Nat \ {0}, NEW t \in Nat, NEW i \in Nat
  PROVE  ((t % n) + i) % n = (t + i) % n
<1> DEFINE q == t \div n
           r == t % n
           a == (r + i) \div n
           b == (r + i) % n
<1>1. t = n * q + r /\ q \in Nat /\ r \in Nat
  BY DivMod, SMT
<1>2. r + i \in Nat
  BY <1>1, SMT
<1>3. r + i = n * a + b /\ a \in Nat /\ b \in 0 .. n - 1
  BY <1>2, DivMod
<1> HIDE DEF q, r, a, b
<1>4. t + i = n * (q + a) + b /\ q + a \in Nat
  BY <1>1, <1>3, SMT
<1>5. (t + i) % n = b
  BY <1>3, <1>4, ModUnique
<1> QED
  BY <1>5 DEF b, r

-----------------------------------------------------------------------------
(* head % N walks around the nodes also when head wraps to zero. *)
WrapAgrees == SizeMod % N = 0

-----------------------------------------------------------------------------
(* Two places in the window that share a node are the same place. *)
LEMMA OnePlacePerNode ==
  ASSUME TypeOK, CountAccurate,
         NEW t \in Window, NEW u \in Window, t % N = u % N
  PROVE  t = u
<1>1. Len(log) \in Nat /\ Len(out) \in Nat /\ Cardinality(Reserved) \in Nat
  BY FS_Subset, FS_CardinalityType, QueueAssumption DEF TypeOK, Reserved
<1>2. t \in Nat /\ u \in Nat /\ t - u < N /\ u - t < N /\ N \in Nat \ {0}
  BY <1>1, QueueAssumption, SMT DEF Window, CountAccurate
<1> QED
  BY <1>2, WindowUnique

(* The counters of producers are natural numbers. *)
LEMMA CountsFinite ==
  /\ IsFiniteSet(Reserved) /\ Cardinality(Reserved) \in Nat
  /\ IsFiniteSet(Undoing) /\ Cardinality(Undoing) \in Nat
BY FS_Subset, FS_CardinalityType, QueueAssumption DEF Reserved, Undoing

LEMMA CountsFinitePrimed ==
  /\ IsFiniteSet(Reserved') /\ Cardinality(Reserved)' \in Nat
  /\ IsFiniteSet(Undoing') /\ Cardinality(Undoing)' \in Nat
BY FS_Subset, FS_CardinalityType, QueueAssumption DEF Reserved, Undoing

-----------------------------------------------------------------------------
LEMMA InitIInv == Init => IInv
<1> SUFFICES ASSUME Init PROVE IInv
  OBVIOUS
<1> USE QueueAssumption
<1>0. Arbitrary \in Values
  BY DEF Arbitrary
<1>1. TypeOK
  <2>1. 0 \in Slots
    BY SMT DEF Slots
  <2>2. << >> \in Seq(Values)
    OBVIOUS
  <2> QED
    BY <1>0, <2>1, <2>2 DEF Init, TypeOK
<1>2. Reserved = {} /\ Undoing = {} /\ Cardinality({}) = 0
  BY FS_EmptySet DEF Init, Reserved, Undoing
<1>3. CountAccurate
  BY <1>2, SMT DEF Init, CountAccurate
<1>4. 0 % N = 0 /\ 0 % SizeMod = 0
  BY SMT
<1>5. Fifo /\ ConsumerInv /\ CleanWrite
  BY SMT DEF Init, Fifo, ConsumerInv, CleanWrite, Taken
<1>6. PlaceInv
  BY <1>4, SMT DEF Init, PlaceInv, HasPlace
<1>7. NodeInv
  BY SMT DEF Init, NodeInv, Window
<1>8. MutualExclusion
  BY SMT DEF Init, MutualExclusion, Holders
<1> QED
  BY <1>1, <1>3, <1>5, <1>6, <1>7, <1>8 DEF IInv

LEMMA StutterIInv == IInv /\ UNCHANGED vars => IInv'
<1> SUFFICES ASSUME IInv, UNCHANGED vars PROVE IInv'
  OBVIOUS
<1> USE DEF vars, shared, producer, consumer
<1>1. TypeOK' /\ CountAccurate' /\ Fifo'
  BY DEF IInv, TypeOK, CountAccurate, Fifo, Reserved, Undoing
<1>2. PlaceInv' /\ ConsumerInv' /\ CleanWrite'
  BY DEF IInv, PlaceInv, ConsumerInv, CleanWrite, HasPlace, Taken, Window
<1>3. NodeInv'
  BY DEF IInv, NodeInv, Unwritten, Taken, Window
<1>4. MutualExclusion'
  BY DEF IInv, MutualExclusion, Holders
<1> QED
  BY <1>1, <1>2, <1>3, <1>4 DEF IInv

-----------------------------------------------------------------------------
(* count.fetch_add: one more producer on its way in, or to be turned away. *)
LEMMA EnqueueReserveIInv ==
  ASSUME IInv, NEW p \in Producers, NEW v \in Values, EnqueueReserve(p, v)
  PROVE  IInv'
<1> USE QueueAssumption
<1>1. TypeOK'
  BY SMT DEF IInv, TypeOK, EnqueueReserve, Full, consumer
<1>2. CountAccurate'
  <2>1. CASE count >= N
    <3>1. Reserved' = Reserved /\ Undoing' = Undoing \cup {p} /\ p \notin Undoing
      BY <2>1, SMT DEF IInv, TypeOK, EnqueueReserve, Full, Reserved, Undoing
    <3>2. Cardinality(Undoing') = Cardinality(Undoing) + 1
      BY <3>1, CountsFinite, FS_AddElement
    <3> QED
      BY <3>1, <3>2, CountsFinite, SMTT(30)
      DEF IInv, TypeOK, CountAccurate, EnqueueReserve, consumer
  <2>2. CASE ~(count >= N)
    <3>1. Undoing' = Undoing /\ Reserved' = Reserved \cup {p} /\ p \notin Reserved
      BY <2>2, SMT DEF IInv, TypeOK, EnqueueReserve, Full, Reserved, Undoing
    <3>2. Cardinality(Reserved') = Cardinality(Reserved) + 1
      BY <3>1, CountsFinite, FS_AddElement
    <3>3. Len(log) \in Nat /\ Len(out) \in Nat /\ N \in Nat /\ count < N
      BY <2>2, SMT DEF IInv, TypeOK
    <3>4. UNCHANGED <<log, out>> /\ count' = count + 1
      BY DEF EnqueueReserve, consumer
    <3>5. Cardinality(Undoing') = Cardinality(Undoing)
      BY <3>1
    <3>6. (Len(log) - Len(out)) + Cardinality(Reserved) < N
      BY <3>3, CountsFinite, SMT DEF IInv, CountAccurate
    <3>7. (Len(log) - Len(out)) + Cardinality(Reserved') <= N
      BY <3>2, <3>3, <3>6, CountsFinite, SMT
    <3> QED
      BY <3>2, <3>3, <3>4, <3>5, <3>7, CountsFinite, SMT DEF IInv, CountAccurate
  <2> QED
    BY <2>1, <2>2
<1>3. Fifo' /\ ConsumerInv'
  BY SMT DEF IInv, Fifo, ConsumerInv, Taken, EnqueueReserve, consumer
<1>4. \A q \in Producers : /\ HasPlace(q)' => HasPlace(q) /\ q # p
                           /\ HasPlace(q) => HasPlace(q)' /\ q # p
  BY SMT DEF IInv, TypeOK, HasPlace, EnqueueReserve, Full
<1>5. PlaceInv'
  BY <1>4, SMTT(30) DEF IInv, TypeOK, PlaceInv, Window, Taken, EnqueueReserve, consumer
<1>6. NodeInv'
  <2>1. \A t : Unwritten(t)' <=> Unwritten(t)
    BY SMT DEF IInv, TypeOK, Unwritten, EnqueueReserve, Full
  <2> QED
    BY <2>1, SMT DEF IInv, NodeInv, Window, Taken, EnqueueReserve, consumer
<1>7. MutualExclusion'
  <2>1. \A s : Holders(s)' = Holders(s)
    BY SMT DEF IInv, TypeOK, Holders, EnqueueReserve, Full
  <2> QED
    BY <2>1, SMT DEF IInv, MutualExclusion, EnqueueReserve, consumer
<1>8. CleanWrite'
  BY SMT DEF IInv, TypeOK, CleanWrite, EnqueueReserve, Full
<1> QED
  BY <1>1, <1>2, <1>3, <1>5, <1>6, <1>7, <1>8 DEF IInv

(* count.fetch_sub of a producer turned away. *)
LEMMA EnqueueFailIInv ==
  ASSUME IInv, NEW p \in Producers, EnqueueFail(p)
  PROVE  IInv'
<1> USE QueueAssumption
<1>1. Undoing' = Undoing \ {p} /\ p \in Undoing /\ Reserved' = Reserved
  BY SMT DEF IInv, TypeOK, EnqueueFail, Reserved, Undoing
<1>2. Cardinality(Undoing') = Cardinality(Undoing) - 1
  BY <1>1, CountsFinite, FS_RemoveElement
<1>3. Cardinality(Undoing') \in Nat
  BY CountsFinitePrimed
<1>4. count' \in Nat /\ CountAccurate'
  BY <1>1, <1>2, <1>3, CountsFinite, SMTT(30)
  DEF IInv, TypeOK, CountAccurate, EnqueueFail, consumer
<1>5. TypeOK'
  BY <1>4, SMT DEF IInv, TypeOK, EnqueueFail, consumer
<1>6. Fifo' /\ ConsumerInv'
  BY SMT DEF IInv, Fifo, ConsumerInv, Taken, EnqueueFail, consumer
<1>7. \A q \in Producers : HasPlace(q)' <=> HasPlace(q)
  BY SMT DEF IInv, TypeOK, HasPlace, EnqueueFail
<1>8. PlaceInv'
  BY <1>7, SMT DEF IInv, TypeOK, PlaceInv, Window, Taken, EnqueueFail, consumer
<1>9. NodeInv'
  <2>1. \A t : Unwritten(t)' <=> Unwritten(t)
    BY SMT DEF IInv, TypeOK, Unwritten, EnqueueFail
  <2> QED
    BY <2>1, SMT DEF IInv, NodeInv, Window, Taken, EnqueueFail, consumer
<1>10. MutualExclusion'
  <2>1. \A s : Holders(s)' = Holders(s)
    BY SMT DEF IInv, TypeOK, Holders, EnqueueFail
  <2> QED
    BY <2>1, SMT DEF IInv, MutualExclusion, EnqueueFail, consumer
<1>11. CleanWrite'
  BY SMT DEF IInv, TypeOK, CleanWrite, EnqueueFail
<1> QED
  BY <1>4, <1>5, <1>6, <1>8, <1>9, <1>10, <1>11 DEF IInv

(***************************************************************************)
(* head.fetch_add: the window grows by one place, whose node is empty      *)
(* because the window was narrower than N.                                 *)
(***************************************************************************)
LEMMA EnqueueClaimIInv ==
  ASSUME IInv, WrapAgrees, NEW p \in Producers, EnqueueClaim(p)
  PROVE  IInv'
<1> USE QueueAssumption
<1>0. Len(log) \in Nat
  BY SMT DEF IInv, TypeOK
<1> PICK t \in Nat : t = Len(log)
  BY <1>0
<1>1. /\ t = Len(log) /\ Len(out) \in Nat /\ Len(out) <= t
      /\ arg[p] \in Values /\ pc[p] = "claim" /\ log \in Seq(Values)
      /\ N \in Nat \ {0} /\ SizeMod \in Nat \ {0} /\ out \in Seq(Values)
  BY SMT DEF IInv, TypeOK, EnqueueClaim, Fifo
<1>2. /\ log' = Append(log, arg[p]) /\ Len(log') = t + 1 /\ log'[t + 1] = arg[p]
      /\ \A k \in 1 .. t : log'[k] = log[k]
      /\ log' \in Seq(Values)
  BY <1>1, SMT DEF EnqueueClaim
<1>3. slot[p]' = t % N /\ t % N \in Slots
  <2>1. slot[p]' = head % N /\ head = t % SizeMod
    BY SMT DEF IInv, TypeOK, PlaceInv, EnqueueClaim, SlotOf
  <2>2. (t % SizeMod) % N = t % N
    BY <1>1, NestedMod DEF WrapAgrees
  <2>3. t % N \in Slots
    BY <1>1, DivMod DEF Slots
  <2> QED
    BY <2>1, <2>2, <2>3
<1>4. head' = Len(log') % SizeMod
  <2>1. head' = ((t % SizeMod) + 1) % SizeMod
    BY DEF IInv, PlaceInv, EnqueueClaim
  <2>2. ((t % SizeMod) + 1) % SizeMod = (t + 1) % SizeMod
    BY <1>1, ModSucc
  <2> QED
    BY <1>2, <2>1, <2>2
<1>5. head' \in Nat
  BY <1>1, <1>2, <1>4, SMT
<1>6. TypeOK'
  BY <1>1, <1>2, <1>3, <1>5, SMT DEF IInv, TypeOK, EnqueueClaim, consumer
<1>7. CountAccurate'
  <2>1. Reserved' = Reserved \ {p} /\ p \in Reserved /\ Undoing' = Undoing
    BY SMT DEF IInv, TypeOK, EnqueueClaim, Reserved, Undoing
  <2>2. Cardinality(Reserved') = Cardinality(Reserved) - 1
    BY <2>1, CountsFinite, FS_RemoveElement
  <2>3. UNCHANGED <<count, out>>
    BY DEF EnqueueClaim, consumer
  <2>4. Cardinality(Undoing') = Cardinality(Undoing)
    BY <2>1
  <2> QED
    BY <1>1, <1>2, <2>2, <2>3, <2>4, CountsFinite, SMTT(30) DEF IInv, CountAccurate
<1>8. Fifo' /\ ConsumerInv'
  BY <1>1, <1>2, SMT
  DEF IInv, Fifo, ConsumerInv, Taken, EnqueueClaim, consumer
<1>9. /\ Window' = Window \cup {t} /\ t \notin Window
      /\ UNCHANGED <<tail, has_value, value, lock, cpc, ret, result, out, arg>>
      /\ Taken' = Taken /\ (Taken => t # Len(out))
  BY <1>1, <1>2, SMT DEF IInv, Window, EnqueueClaim, consumer, Taken, ConsumerInv
<1>10. \A q \in Producers :
         /\ q # p => /\ HasPlace(q)' <=> HasPlace(q)
                     /\ UNCHANGED <<ticket[q], slot[q], arg[q], pc[q]>>
         /\ ~HasPlace(p) /\ HasPlace(p)' /\ ticket'[p] = t
  BY <1>1, SMT DEF IInv, TypeOK, HasPlace, EnqueueClaim
<1>11. PlaceInv'
  <2>1. \A q \in Producers : HasPlace(q)' =>
          /\ ticket'[q] \in Window'
          /\ slot'[q] = ticket'[q] % N
          /\ arg'[q] = log'[ticket'[q] + 1]
          /\ Taken' => ticket'[q] # Len(out')
    <3> SUFFICES ASSUME NEW q \in Producers, HasPlace(q)'
                 PROVE  /\ ticket'[q] \in Window'
                        /\ slot'[q] = ticket'[q] % N
                        /\ arg'[q] = log'[ticket'[q] + 1]
                        /\ Taken' => ticket'[q] # Len(out')
      OBVIOUS
    <3>1. CASE q = p
      BY <3>1, <1>1, <1>2, <1>3, <1>9, <1>10
    <3>2. CASE q # p
      <4>1. HasPlace(q) /\ UNCHANGED <<ticket[q], slot[q], arg[q]>>
        BY <3>2, <1>10
      <4>2. /\ ticket[q] \in Window /\ slot[q] = ticket[q] % N
            /\ arg[q] = log[ticket[q] + 1] /\ (Taken => ticket[q] # Len(out))
        BY <4>1 DEF IInv, PlaceInv
      <4>3. ticket[q] + 1 \in 1 .. t
        BY <4>2, <1>1, SMT DEF Window
      <4> QED
        BY <4>1, <4>2, <4>3, <1>2, <1>9
    <3> QED
      BY <3>1, <3>2
  <2>2. \A q, r \in Producers :
          HasPlace(q)' /\ HasPlace(r)' /\ ticket'[q] = ticket'[r] => q = r
    BY <1>9, <1>10 DEF IInv, PlaceInv
  <2> QED
    BY <1>4, <1>9, <2>1, <2>2 DEF IInv, PlaceInv
<1>12. NodeInv'
  <2>1. \A u \in Window : Unwritten(u)' <=> Unwritten(u)
    BY <1>1, <1>9, <1>10, SMT DEF Unwritten
  <2>2. Unwritten(t)'
    <3>1. pc'[p] = "spin"
      BY DEF EnqueueClaim, IInv, TypeOK
    <3> QED
      BY <1>10, <3>1 DEF Unwritten
  <2>3. \A u \in Window : u % N # t % N
    <3> SUFFICES ASSUME NEW u \in Window, u % N = t % N PROVE FALSE
      OBVIOUS
    <3>1. t \in Window' /\ u \in Window' /\ N' = N
      BY <1>9
    <3>2. u = t
      <4>1. u \in Nat /\ u < t /\ t - u < N
        <5>1. (Len(log') - Len(out')) + Cardinality(Reserved') <= N
          BY <1>7 DEF CountAccurate
        <5>2. Len(out') = Len(out) /\ Cardinality(Reserved') \in Nat
          BY <1>9, CountsFinitePrimed
        <5> QED
          BY <1>1, <1>2, <5>1, <5>2, SMT DEF Window
      <4> QED
        BY <4>1, <1>1, WindowUnique, SMT
    <3> QED
      BY <3>2, <1>9
  <2>4. ~has_value[t % N]
    BY <1>3, <2>3 DEF IInv, NodeInv
  <2>5. \A u \in Window : u + 1 \in 1 .. t
    BY <1>1, SMT DEF Window
  <2>6. \A u \in Window' :
          IF Unwritten(u)' \/ (Taken' /\ u = Len(out'))
          THEN ~has_value'[u % N]
          ELSE has_value'[u % N] /\ value'[u % N] = log'[u + 1]
    <3> SUFFICES ASSUME NEW u \in Window'
                 PROVE  IF Unwritten(u)' \/ (Taken' /\ u = Len(out'))
                        THEN ~has_value'[u % N]
                        ELSE has_value'[u % N] /\ value'[u % N] = log'[u + 1]
      OBVIOUS
    <3>1. CASE u = t
      BY <3>1, <1>9, <2>2, <2>4
    <3>2. CASE u \in Window
      <4>1. log'[u + 1] = log[u + 1]
        BY <3>2, <1>2, <2>5
      <4> QED
        BY <3>2, <4>1, <1>9, <2>1 DEF IInv, NodeInv
    <3> QED
      BY <3>1, <3>2, <1>9
  <2>7. \A s \in Slots : has_value'[s] => \E u \in Window' : u % N = s
    BY <1>9 DEF IInv, NodeInv
  <2> QED
    BY <2>6, <2>7 DEF NodeInv
<1>13. MutualExclusion'
  <2>1. \A s : Holders(s)' = Holders(s)
    BY <1>1, SMT DEF IInv, TypeOK, Holders, EnqueueClaim
  <2> QED
    BY <1>9, <2>1 DEF IInv, MutualExclusion
<1>14. CleanWrite'
  BY SMT DEF IInv, TypeOK, CleanWrite, EnqueueClaim
<1> QED
  BY <1>6, <1>7, <1>8, <1>11, <1>12, <1>13, <1>14 DEF IInv

(* The spin lock is won: nobody held it, so p is its only holder. *)
LEMMA EnqueueAcquireIInv ==
  ASSUME IInv, NEW p \in Producers, EnqueueAcquire(p)
  PROVE  IInv'
<1> USE QueueAssumption
<1>1. TypeOK'
  BY SMT DEF IInv, TypeOK, EnqueueAcquire, Acquire, consumer
<1>2. CountAccurate'
  <2>1. Reserved' = Reserved /\ Undoing' = Undoing
    BY SMT DEF IInv, TypeOK, EnqueueAcquire, Reserved, Undoing
  <2> QED
    BY <2>1 DEF IInv, CountAccurate, EnqueueAcquire, consumer
<1>3. Fifo' /\ ConsumerInv'
  BY SMT DEF IInv, Fifo, ConsumerInv, Taken, EnqueueAcquire, consumer
<1>4. \A q \in Producers : HasPlace(q)' <=> HasPlace(q)
  BY SMT DEF IInv, TypeOK, HasPlace, EnqueueAcquire
<1>5. PlaceInv'
  BY <1>4, SMT DEF IInv, TypeOK, PlaceInv, Window, Taken, EnqueueAcquire, consumer
<1>6. NodeInv'
  <2>1. \A t : Unwritten(t)' <=> Unwritten(t)
    BY SMT DEF IInv, TypeOK, Unwritten, EnqueueAcquire
  <2> QED
    BY <2>1, SMT DEF IInv, NodeInv, Window, Taken, EnqueueAcquire, consumer
<1>7. MutualExclusion'
  <2>1. Holders(slot[p]) = {}
    BY SMT DEF IInv, TypeOK, MutualExclusion, EnqueueAcquire, Acquire
  <2>2. \A s : Holders(s)' = IF s = slot[p] THEN {p} ELSE Holders(s)
    BY <2>1, SMT DEF IInv, TypeOK, Holders, EnqueueAcquire
  <2>3. UNCHANGED <<cpc, tail>> /\ ~lock[slot[p]]
        /\ lock' = [lock EXCEPT ![slot[p]] = TRUE]
    BY DEF EnqueueAcquire, Acquire, consumer
  <2>4. ~(cpc \in {"read", "release"} /\ tail = slot[p]) /\ slot[p] \in Slots
    BY <2>3 DEF IInv, TypeOK, MutualExclusion
  <2>5. lock'[slot[p]] /\ \A s \in Slots \ {slot[p]} : lock'[s] = lock[s]
    BY <2>3, <2>4 DEF IInv, TypeOK
  <2> QED
    BY <2>2, <2>3, <2>4, <2>5 DEF IInv, MutualExclusion
<1>8. CleanWrite'
  BY SMT DEF IInv, TypeOK, CleanWrite, EnqueueAcquire
<1> QED
  BY <1>1, <1>2, <1>3, <1>5, <1>6, <1>7, <1>8 DEF IInv

(* The node of p's place was empty, and is written under p's lock. *)
LEMMA EnqueueWriteIInv ==
  ASSUME IInv, NEW p \in Producers, EnqueueWrite(p)
  PROVE  IInv'
<1> USE QueueAssumption
<1>1. TypeOK'
  BY SMT DEF IInv, TypeOK, EnqueueWrite, consumer
<1>2. CountAccurate'
  <2>1. Reserved' = Reserved /\ Undoing' = Undoing
    BY SMT DEF IInv, TypeOK, EnqueueWrite, Reserved, Undoing
  <2> QED
    BY <2>1 DEF IInv, CountAccurate, EnqueueWrite, consumer
<1>3. Fifo' /\ ConsumerInv'
  BY SMT DEF IInv, Fifo, ConsumerInv, Taken, EnqueueWrite, consumer
<1>4. \A q \in Producers : HasPlace(q)' <=> HasPlace(q)
  BY SMT DEF IInv, TypeOK, HasPlace, EnqueueWrite
<1>5. PlaceInv'
  BY <1>4, SMT DEF IInv, TypeOK, PlaceInv, Window, Taken, EnqueueWrite, consumer
<1>6. PICK t \in Nat : t = ticket[p]
  BY SMT DEF IInv, TypeOK
<1>7. /\ t \in Window /\ slot[p] = t % N /\ arg[p] = log[t + 1]
      /\ ~(Taken /\ t = Len(out)) /\ slot[p] \in Slots
  BY <1>6, SMT DEF IInv, TypeOK, PlaceInv, HasPlace, EnqueueWrite
<1>8. Unwritten(t) /\ ~has_value[t % N]
  BY <1>6, <1>7, SMT DEF IInv, NodeInv, Unwritten, EnqueueWrite
<1>9. /\ has_value'[t % N] /\ value'[t % N] = log[t + 1]
      /\ \A s \in Slots \ {t % N} : /\ has_value'[s] = has_value[s]
                                  /\ value'[s] = value[s]
  <2>1. /\ has_value' = [has_value EXCEPT ![slot[p]] = TRUE]
        /\ value' = [value EXCEPT ![slot[p]] = log[t + 1]]
    BY <1>7 DEF EnqueueWrite
  <2>2. has_value \in [Slots -> BOOLEAN] /\ value \in [Slots -> Values]
    BY DEF IInv, TypeOK
  <2>3. PICK s \in Slots : s = slot[p] /\ s = t % N
    BY <1>7
  <2> QED
    BY <2>1, <2>2, <2>3
<1>10. /\ ~Unwritten(t)' /\ Window' = Window /\ Taken' = Taken
       /\ UNCHANGED <<log, out, tail, cpc, lock>>
       /\ \A u \in Window \ {t} : Unwritten(u)' <=> Unwritten(u)
  <2>1. UNCHANGED <<log, out, tail, cpc, lock, ret, ticket>>
    BY DEF EnqueueWrite, consumer
  <2>2. pc'[p] = "release" /\ \A q \in Producers \ {p} : pc'[q] = pc[q]
    BY DEF EnqueueWrite, IInv, TypeOK
  <2>3. \A q \in Producers \ {p} : HasPlace(q) => ticket[q] # t
    BY <1>6, SMT DEF IInv, PlaceInv, HasPlace, EnqueueWrite
  <2>4. ~Unwritten(t)'
    BY <2>1, <2>2, <2>3 DEF Unwritten, HasPlace
  <2>5. \A u \in Window \ {t} : Unwritten(u)' <=> Unwritten(u)
    BY <1>6, <2>1, <2>2 DEF Unwritten
  <2> QED
    BY <2>1, <2>4, <2>5 DEF Window, Taken
<1>11. NodeInv'
  <2>1. ASSUME NEW u \in Window
        PROVE  IF Unwritten(u)' \/ (Taken' /\ u = Len(out'))
               THEN ~has_value'[u % N]
               ELSE has_value'[u % N] /\ value'[u % N] = log'[u + 1]
    <3>1. CASE u = t
      BY <3>1, <1>7, <1>9, <1>10
    <3>2. CASE u # t
      <4>1. u % N # t % N
        BY <3>2, <1>7, OnePlacePerNode DEF IInv
      <4>2. u % N \in Slots
        BY SMT DEF Slots, Window, IInv, TypeOK
      <4> QED
        BY <3>2, <4>1, <4>2, <1>9, <1>10 DEF IInv, NodeInv
    <3> QED
      BY <3>1, <3>2
  <2>2. ASSUME NEW s \in Slots, has_value'[s]
        PROVE  \E u \in Window : u % N = s
    BY <2>2, <1>7, <1>9 DEF IInv, NodeInv
  <2> QED
    BY <2>1, <2>2, <1>10 DEF NodeInv
<1>12. MutualExclusion'
  <2>1. \A s : Holders(s)' = Holders(s)
    BY SMT DEF IInv, TypeOK, Holders, EnqueueWrite
  <2> QED
    BY <2>1, <1>10 DEF IInv, MutualExclusion
<1>13. CleanWrite'
  <2>1. ~has_value[slot[p]]
    BY <1>7, <1>8
  <2> QED
    BY <2>1, SMT DEF IInv, TypeOK, CleanWrite, EnqueueWrite
<1> QED
  BY <1>1, <1>2, <1>3, <1>5, <1>11, <1>12, <1>13 DEF IInv

(* The lock is given back, and with it p's place. *)
LEMMA EnqueueReleaseIInv ==
  ASSUME IInv, NEW p \in Producers, EnqueueRelease(p)
  PROVE  IInv'
<1> USE QueueAssumption
<1>1. TypeOK'
  BY SMT DEF IInv, TypeOK, EnqueueRelease, Release, consumer
<1>2. CountAccurate'
  <2>1. Reserved' = Reserved /\ Undoing' = Undoing
    BY SMT DEF IInv, TypeOK, EnqueueRelease, Reserved, Undoing
  <2> QED
    BY <2>1 DEF IInv, CountAccurate, EnqueueRelease, consumer
<1>3. Fifo' /\ ConsumerInv'
  BY SMT DEF IInv, Fifo, ConsumerInv, Taken, EnqueueRelease, consumer
<1>4. \A q \in Producers : HasPlace(q)' => HasPlace(q)
  BY SMT DEF IInv, TypeOK, HasPlace, EnqueueRelease
<1>5. PlaceInv'
  BY <1>4, SMT DEF IInv, TypeOK, PlaceInv, Window, Taken, EnqueueRelease, consumer
<1>6. NodeInv'
  <2>1. \A t : Unwritten(t)' <=> Unwritten(t)
    BY SMT DEF IInv, TypeOK, Unwritten, EnqueueRelease
  <2> QED
    BY <2>1, SMT DEF IInv, NodeInv, Window, Taken, EnqueueRelease, consumer
<1>7. MutualExclusion'
  <2>1. p \in Holders(slot[p]) /\ slot[p] \in Slots
    BY SMT DEF IInv, TypeOK, Holders, EnqueueRelease
  <2>2. Holders(slot[p]) = {p} /\ ~(cpc \in {"read", "release"} /\ tail = slot[p])
    BY <2>1 DEF IInv, MutualExclusion
  <2>3. \A s : Holders(s)' = IF s = slot[p] THEN {} ELSE Holders(s)
    BY <2>2, SMT DEF IInv, TypeOK, Holders, EnqueueRelease
  <2>4. UNCHANGED <<cpc, tail>> /\ ~lock'[slot[p]]
        /\ \A s \in Slots \ {slot[p]} : lock'[s] = lock[s]
    BY <2>1 DEF IInv, TypeOK, EnqueueRelease, Release, consumer
  <2> QED
    BY <2>2, <2>3, <2>4 DEF IInv, MutualExclusion
<1>8. CleanWrite'
  BY SMT DEF IInv, TypeOK, CleanWrite, EnqueueRelease
<1> QED
  BY <1>1, <1>2, <1>3, <1>5, <1>6, <1>7, <1>8 DEF IInv

-----------------------------------------------------------------------------
(* The consumer's steps leave every producer where it is. *)
LEMMA ProducersUnchanged ==
  ASSUME UNCHANGED producer
  PROVE  /\ Reserved' = Reserved /\ Undoing' = Undoing
         /\ \A s : Holders(s)' = Holders(s)
         /\ \A t : Unwritten(t)' <=> Unwritten(t)
         /\ \A p \in Producers : HasPlace(p)' <=> HasPlace(p)
BY DEF producer, Reserved, Undoing, Holders, Unwritten, HasPlace

LEMMA DequeueCallIInv ==
  ASSUME IInv, DequeueCall
  PROVE  IInv'
<1>1. UNCHANGED <<shared, producer, ret, result, out>> /\ Taken' = Taken
      /\ cpc = "idle" /\ cpc' = "spin"
  BY DEF DequeueCall, Taken
<1>2. TypeOK' /\ CountAccurate' /\ Fifo'
  BY <1>1, ProducersUnchanged
  DEF IInv, TypeOK, CountAccurate, Fifo, shared, producer
<1>3. PlaceInv' /\ ConsumerInv' /\ CleanWrite'
  BY <1>1, ProducersUnchanged
  DEF IInv, PlaceInv, ConsumerInv, CleanWrite, Window, shared, producer
<1>4. NodeInv'
  BY <1>1, ProducersUnchanged DEF IInv, NodeInv, Window, shared, producer
<1>5. MutualExclusion'
  BY <1>1, ProducersUnchanged DEF IInv, MutualExclusion, shared
<1> QED
  BY <1>2, <1>3, <1>4, <1>5 DEF IInv

LEMMA DequeueAcquireIInv ==
  ASSUME IInv, DequeueAcquire
  PROVE  IInv'
<1>1. /\ UNCHANGED <<head, count, tail, has_value, value, producer, ret, result, out>>
      /\ Taken' = Taken /\ cpc = "spin" /\ cpc' = "read"
      /\ ~lock[tail] /\ lock' = [lock EXCEPT ![tail] = TRUE]
  BY DEF DequeueAcquire, Acquire, Taken
<1>2. TypeOK' /\ CountAccurate' /\ Fifo'
  BY <1>1, ProducersUnchanged DEF IInv, TypeOK, CountAccurate, Fifo, producer
<1>3. PlaceInv' /\ ConsumerInv' /\ CleanWrite'
  BY <1>1, ProducersUnchanged
  DEF IInv, PlaceInv, ConsumerInv, CleanWrite, Window, producer
<1>4. NodeInv'
  BY <1>1, ProducersUnchanged DEF IInv, NodeInv, Window, producer
<1>5. MutualExclusion'
  <2>1. tail \in Slots /\ Holders(tail) = {}
    BY <1>1 DEF IInv, TypeOK, MutualExclusion
  <2>2. lock'[tail] /\ \A s \in Slots \ {tail} : lock'[s] = lock[s]
    BY <1>1, <2>1 DEF IInv, TypeOK
  <2> QED
    BY <1>1, <2>1, <2>2, ProducersUnchanged DEF IInv, MutualExclusion
<1> QED
  BY <1>2, <1>3, <1>4, <1>5 DEF IInv

(***************************************************************************)
(* Under the tail node's lock: if the node has a value, it is the one of   *)
(* the first place in the window, written and released.                    *)
(***************************************************************************)
LEMMA DequeueReadIInv ==
  ASSUME IInv, DequeueRead
  PROVE  IInv'
<1> USE QueueAssumption
<1>1. /\ UNCHANGED <<head, count, tail, lock, value, producer, out>>
      /\ cpc = "read" /\ cpc' = "release" /\ ~Taken
      /\ ret' = has_value[tail] /\ (Taken' <=> has_value[tail])
      /\ has_value' = [has_value EXCEPT ![tail] = FALSE]
      /\ result' = IF has_value[tail] THEN value[tail] ELSE result
  BY DEF DequeueRead, Taken
<1>2. /\ tail \in Slots /\ value \in [Slots -> Values]
      /\ has_value \in [Slots -> BOOLEAN]
      /\ Len(out) \in Nat /\ Len(log) \in Nat
  BY SMT DEF IInv, TypeOK
<1>3. PICK f \in Nat : f = Len(out) /\ tail = f % N
  BY <1>2 DEF IInv, PlaceInv
<1>4. TypeOK' /\ CountAccurate' /\ Fifo'
  <2>1. ret' \in BOOLEAN /\ result' \in Values /\ has_value' \in [Slots -> BOOLEAN]
    BY <1>1, <1>2 DEF IInv, TypeOK
  <2> QED
    BY <1>1, <2>1, ProducersUnchanged
    DEF IInv, TypeOK, CountAccurate, Fifo, producer
<1>5. ASSUME has_value[tail]
      PROVE  /\ f \in Window /\ ~Unwritten(f)
             /\ result' = log[f + 1]
             /\ \A p \in Producers : HasPlace(p) => ticket[p] # f
  <2>1. PICK t \in Window : t % N = f % N
    BY <1>2, <1>3, <1>5 DEF IInv, NodeInv
  <2>2. f \in Window
    BY <1>2, <1>3, <2>1, SMT DEF Window
  <2>3. ~Unwritten(f) /\ value[tail] = log[f + 1]
    BY <1>1, <1>3, <1>5, <2>2 DEF IInv, NodeInv
  <2>4. ASSUME NEW p \in Producers, HasPlace(p), ticket[p] = f
        PROVE  FALSE
    <3>1. pc[p] = "release"
      BY <2>3, <2>4 DEF HasPlace, Unwritten
    <3>2. slot[p] = tail
      BY <1>3, <2>4 DEF IInv, PlaceInv
    <3>3. p \in Holders(tail)
      BY <3>1, <3>2 DEF Holders
    <3> QED
      BY <1>1, <1>2, <3>3 DEF IInv, MutualExclusion
  <2> QED
    BY <1>1, <1>5, <2>2, <2>3, <2>4
<1>6. PlaceInv'
  <2>1. UNCHANGED <<head, tail, log, out, ticket, slot, arg>> /\ Window' = Window
    BY <1>1 DEF producer, Window
  <2>2. \A p \in Producers : HasPlace(p) => (Taken' => ticket[p] # Len(out))
    BY <1>1, <1>3, <1>5
  <2> QED
    BY <1>1, <2>1, <2>2, ProducersUnchanged DEF IInv, PlaceInv
<1>7. ConsumerInv'
  BY <1>1, <1>2, <1>3, <1>5, SMT DEF ConsumerInv, Window, producer
<1>8. CleanWrite'
  BY <1>1 DEF IInv, CleanWrite, producer
<1>9. NodeInv'
  <2>1. Window' = Window /\ UNCHANGED <<log, out>>
    BY <1>1 DEF Window, producer
  <2>2. ASSUME NEW u \in Window
        PROVE  IF Unwritten(u)' \/ (Taken' /\ u = Len(out'))
               THEN ~has_value'[u % N]
               ELSE has_value'[u % N] /\ value'[u % N] = log'[u + 1]
    <3>1. u % N \in Slots /\ Unwritten(u)' = Unwritten(u)
      <4>1. u % N \in Slots
        BY <1>2, SMT DEF Slots, Window
      <4>2. Unwritten(u)' = Unwritten(u)
        BY <1>1 DEF Unwritten, producer
      <4> QED
        BY <4>1, <4>2
    <3>2. CASE u = f
      <4>1. ~has_value'[u % N]
        BY <1>1, <1>2, <1>3, <3>2
      <4>2. CASE has_value[tail]
        BY <4>1, <4>2, <3>2, <1>1, <1>3, <2>1
      <4>3. CASE ~has_value[tail]
        <5>1. Unwritten(u)
          BY <4>3, <3>2, <1>1, <1>3 DEF IInv, NodeInv
        <5> QED
          BY <5>1, <4>1, <3>1
      <4> QED
        BY <4>2, <4>3
    <3>3. CASE u # f
      <4>1. f \in Window
        BY <1>2, <1>3, SMT DEF Window
      <4>2. u % N # tail
        BY <4>1, <3>3, <1>3, OnePlacePerNode DEF IInv
      <4>3. has_value'[u % N] = has_value[u % N]
        BY <4>2, <3>1, <1>1, <1>2
      <4> QED
        BY <3>1, <3>3, <4>3, <1>1, <1>3, <2>1 DEF IInv, NodeInv
    <3> QED
      BY <3>2, <3>3
  <2>3. ASSUME NEW s \in Slots, has_value'[s]
        PROVE  \E u \in Window : u % N = s
    <3>1. has_value[s]
      BY <2>3, <1>1, <1>2
    <3> QED
      BY <3>1 DEF IInv, NodeInv
  <2> QED
    BY <2>1, <2>2, <2>3 DEF NodeInv
<1>10. MutualExclusion'
  BY <1>1, ProducersUnchanged DEF IInv, MutualExclusion
<1> QED
  BY <1>4, <1>6, <1>7, <1>8, <1>9, <1>10 DEF IInv

LEMMA DequeueReleaseIInv ==
  ASSUME IInv, DequeueRelease
  PROVE  IInv'
<1>1. /\ UNCHANGED <<head, count, tail, has_value, value, producer, ret, result, out>>
      /\ cpc = "release" /\ cpc' = IF ret THEN "advance" ELSE "idle"
      /\ lock' = [lock EXCEPT ![tail] = FALSE]
  BY DEF DequeueRelease, Release
<1>2. Taken' = Taken
  BY <1>1 DEF Taken
<1>3. TypeOK' /\ CountAccurate' /\ Fifo'
  BY <1>1, ProducersUnchanged DEF IInv, TypeOK, CountAccurate, Fifo, producer
<1>4. PlaceInv' /\ ConsumerInv' /\ CleanWrite'
  BY <1>1, <1>2, ProducersUnchanged
  DEF IInv, PlaceInv, ConsumerInv, CleanWrite, Window, producer
<1>5. NodeInv'
  BY <1>1, <1>2, ProducersUnchanged DEF IInv, NodeInv, Window, producer
<1>6. MutualExclusion'
  <2>1. tail \in Slots /\ Holders(tail) = {}
    BY <1>1 DEF IInv, TypeOK, MutualExclusion
  <2>2. ~lock'[tail] /\ \A s \in Slots \ {tail} : lock'[s] = lock[s]
    BY <1>1, <2>1 DEF IInv, TypeOK
  <2> QED
    BY <1>1, <2>1, <2>2, ProducersUnchanged DEF IInv, MutualExclusion
<1> QED
  BY <1>3, <1>4, <1>5, <1>6 DEF IInv

(* The first place leaves the window, and its value reaches the caller. *)
LEMMA DequeueAdvanceIInv ==
  ASSUME IInv, DequeueAdvance
  PROVE  IInv'
<1> USE QueueAssumption
<1>1. /\ UNCHANGED <<head, lock, has_value, value, producer, ret, result>>
      /\ cpc = "advance" /\ cpc' = "idle" /\ count > 0 /\ count' = count - 1
      /\ tail' = IF tail + 1 >= N THEN 0 ELSE tail + 1
      /\ out' = Append(out, result)
  BY DEF DequeueAdvance, NextTail
<1>2. Taken /\ ~Taken'
  BY <1>1 DEF IInv, ConsumerInv, Taken
<1>3. PICK f \in Nat : f = Len(out)
  BY SMT DEF IInv, TypeOK
<1>4. /\ Len(out') = f + 1 /\ out'[f + 1] = log[f + 1]
      /\ \A k \in 1 .. f : out'[k] = log[k]
      /\ out' \in Seq(Values) /\ f < Len(log) /\ Len(log) \in Nat
      /\ UNCHANGED log
  BY <1>1, <1>2, <1>3, SMT DEF IInv, TypeOK, ConsumerInv, Fifo, producer
<1>5. tail' = (f + 1) % N /\ tail' \in Slots
  <2>1. tail = f % N /\ N \in Nat \ {0}
    BY <1>3 DEF IInv, PlaceInv
  <2>2. tail' = (f + 1) % N
    BY <1>1, <2>1, ModSucc
  <2>3. (f + 1) % N \in Slots
    BY <2>1, DivMod DEF Slots
  <2> QED
    BY <2>2, <2>3
<1>6. TypeOK'
  BY <1>1, <1>4, <1>5, SMT DEF IInv, TypeOK, producer
<1>7. CountAccurate'
  <2>1. Reserved' = Reserved /\ Undoing' = Undoing
    BY <1>1, ProducersUnchanged
  <2> QED
    <3>1. Cardinality(Reserved') = Cardinality(Reserved)
          /\ Cardinality(Undoing') = Cardinality(Undoing)
      BY <2>1
    <3>2. Len(out) = f /\ Len(log') = Len(log)
      BY <1>3, <1>4
    <3>3. /\ count = (Len(log) - f) + Cardinality(Reserved) + Cardinality(Undoing)
          /\ (Len(log) - f) + Cardinality(Reserved) <= N
      BY <3>2 DEF IInv, CountAccurate
    <3>4. /\ count' = (Len(log') - Len(out')) + Cardinality(Reserved') + Cardinality(Undoing')
          /\ (Len(log') - Len(out')) + Cardinality(Reserved') <= N
          /\ Len(out') <= Len(log')
      BY <1>1, <1>4, <3>1, <3>2, <3>3, CountsFinite, SMTT(30)
    <3> QED
      BY <3>4 DEF CountAccurate
<1>8. Fifo'
  BY <1>4, SMT DEF Fifo
<1>9. Window' = Window \ {f} /\ f \in Window
  BY <1>3, <1>4, SMT DEF Window
<1>10. PlaceInv'
  <2>1. \A p \in Producers : HasPlace(p) => ticket[p] # f
    BY <1>2, <1>3 DEF IInv, PlaceInv
  <2> QED
    BY <1>1, <1>2, <1>4, <1>5, <1>9, <2>1, ProducersUnchanged
    DEF IInv, PlaceInv, producer
<1>11. ConsumerInv' /\ CleanWrite'
  BY <1>1, <1>2 DEF IInv, ConsumerInv, CleanWrite, producer
<1>12. NodeInv'
  <2>1. ~has_value[f % N]
    BY <1>2, <1>3, <1>9 DEF IInv, NodeInv
  <2>2. ASSUME NEW u \in Window'
        PROVE  IF Unwritten(u)' \/ (Taken' /\ u = Len(out'))
               THEN ~has_value'[u % N]
               ELSE has_value'[u % N] /\ value'[u % N] = log'[u + 1]
    <3>1. Unwritten(u)' = Unwritten(u)
      BY <1>1 DEF Unwritten, producer
    <3> QED
      BY <3>1, <1>1, <1>2, <1>3, <1>4, <1>9 DEF IInv, NodeInv
  <2>3. \A s \in Slots : has_value'[s] => \E u \in Window' : u % N = s
    BY <1>1, <1>9, <2>1 DEF IInv, NodeInv
  <2> QED
    BY <2>2, <2>3 DEF NodeInv
<1>13. MutualExclusion'
  BY <1>1, ProducersUnchanged DEF IInv, MutualExclusion
<1> QED
  BY <1>6, <1>7, <1>8, <1>10, <1>11, <1>12, <1>13 DEF IInv

-----------------------------------------------------------------------------
LEMMA NextIInv ==
  ASSUME WrapAgrees, IInv, [Next]_vars
  PROVE  IInv'
<1>1. ASSUME NEW p \in Producers, NEW v \in Values, EnqueueReserve(p, v)
      PROVE  IInv'
  BY <1>1, EnqueueReserveIInv
<1>2. ASSUME NEW p \in Producers, Enqueue(p)
      PROVE  IInv'
  BY <1>2, EnqueueFailIInv, EnqueueClaimIInv, EnqueueAcquireIInv,
     EnqueueWriteIInv, EnqueueReleaseIInv DEF Enqueue
<1>3. CASE DequeueCall
  BY <1>3, DequeueCallIInv
<1>4. CASE Dequeue
  BY <1>4, DequeueAcquireIInv, DequeueReadIInv, DequeueReleaseIInv,
     DequeueAdvanceIInv DEF Dequeue
<1>5. CASE UNCHANGED vars
  BY <1>5, StutterIInv
<1> QED
  BY <1>1, <1>2, <1>3, <1>4, <1>5 DEF Next

(* The inductive invariant holds in every state. *)
THEOREM Invariance == ASSUME WrapAgrees PROVE Spec => []IInv
<1>1. Init => IInv
  BY InitIInv
<1>2. IInv /\ [Next]_vars => IInv'
  BY NextIInv
<1> QED
  BY <1>1, <1>2, PTL DEF Spec

(* Every variable keeps its type; in particular count never underflows. *)
THEOREM TypeCorrect == ASSUME WrapAgrees PROVE Spec => []TypeOK
<1>1. IInv => TypeOK
  BY DEF IInv
<1> QED
  BY <1>1, Invariance, PTL

(* A node is accessed by one process at a time, under its lock. *)
THEOREM Exclusion == ASSUME WrapAgrees PROVE Spec => []MutualExclusion
<1>1. IInv => MutualExclusion
  BY DEF IInv
<1> QED
  BY <1>1, Invariance, PTL

(* The assertions in enqueue and dequeue never fail. *)
THEOREM AssertionsNeverFail == ASSUME WrapAgrees PROVE Spec => []AssertionsHold
<1>1. ASSUME IInv PROVE AssertionsHold
  <2>1. ASSUME NEW p \in Producers, pc[p] = "release"
        PROVE  ~set_value[p] /\ lock[slot[p]]
    <3>1. p \in Holders(slot[p]) /\ slot[p] \in Slots
      BY <1>1, <2>1 DEF IInv, TypeOK, Holders
    <3> QED
      BY <1>1, <2>1, <3>1 DEF IInv, MutualExclusion, CleanWrite
  <2>2. cpc = "release" => lock[tail]
    BY <1>1 DEF IInv, TypeOK, MutualExclusion
  <2>3. cpc = "advance" => count > 0
    <3> SUFFICES ASSUME cpc = "advance" PROVE count > 0
      OBVIOUS
    <3>1. Len(out) < Len(log) /\ Len(out) \in Nat /\ Len(log) \in Nat
      BY <1>1, SMT DEF IInv, TypeOK, ConsumerInv, Taken
    <3> QED
      BY <1>1, <3>1, CountsFinite, SMT DEF IInv, CountAccurate
  <2> QED
    BY <2>1, <2>2, <2>3 DEF AssertionsHold
<1> QED
  BY <1>1, Invariance, PTL

(* count is exact and at most N places are promised or held. *)
THEOREM CountIsAccurate == ASSUME WrapAgrees PROVE Spec => []CountAccurate
<1>1. IInv => CountAccurate
  BY DEF IInv
<1> QED
  BY <1>1, Invariance, PTL

(* dequeue returns the values in the order their places were taken. *)
THEOREM FirstInFirstOut == ASSUME WrapAgrees PROVE Spec => []Fifo
<1>1. IInv => Fifo
  BY DEF IInv
<1> QED
  BY <1>1, Invariance, PTL

(* In a quiet state the nodes from tail on hold what is in the queue. *)
THEOREM QuietNodes == ASSUME WrapAgrees PROVE Spec => []NodesHoldQueue
<1>1. ASSUME IInv PROVE NodesHoldQueue
  <2> SUFFICES ASSUME cpc = "idle", \A p \in Producers : pc[p] = "idle",
                      NEW i \in Slots
               PROVE  LET s == (tail + i) % N
                      IN  IF i < Len(log) - Len(out)
                          THEN has_value[s] /\ value[s] = log[Len(out) + i + 1]
                          ELSE ~has_value[s]
    BY DEF NodesHoldQueue
  <2>1. PICK f \in Nat : f = Len(out)
    BY <1>1, SMT DEF IInv, TypeOK
  <2>2. /\ N \in Nat \ {0} /\ i \in Nat /\ i < N
        /\ f \in Nat /\ Len(log) \in Nat
    BY <1>1, <2>1, QueueAssumption, SMT DEF IInv, TypeOK, Slots
  <2>3. (tail + i) % N = (f + i) % N
    BY <1>1, <2>1, <2>2, ModAdd DEF IInv, PlaceInv
  <2>4. CASE i < Len(log) - Len(out)
    <3>1. f + i \in Window /\ ~Unwritten(f + i) /\ ~Taken
      BY <2>1, <2>2, <2>4, SMT DEF Window, Unwritten, Taken
    <3> QED
      BY <1>1, <2>1, <2>3, <2>4, <3>1 DEF IInv, NodeInv
  <2>5. CASE ~(i < Len(log) - Len(out))
    <3>1. (f + i) % N \in Slots
      BY <2>2, DivMod, SMT DEF Slots
    <3>2. ASSUME NEW u \in Window, u % N = (f + i) % N
          PROVE  FALSE
      <4>1. (Len(log) - f) + Cardinality(Reserved) <= N
        BY <1>1, <2>1 DEF IInv, CountAccurate
      <4>2. /\ u \in Nat /\ f + i \in Nat /\ u # f + i
            /\ u - (f + i) < N /\ (f + i) - u < N
        BY <2>1, <2>2, <2>5, <4>1, CountsFinite, SMT DEF Window
      <4> QED
        BY <2>2, <3>2, <4>2, WindowUnique
    <3> QED
      BY <1>1, <2>3, <2>5, <3>1, <3>2 DEF IInv, NodeInv
  <2> QED
    BY <2>4, <2>5
<1> QED
  BY <1>1, Invariance, PTL

-----------------------------------------------------------------------------
LEMMA StepRefines ==
  ASSUME IInv, [Next]_vars
  PROVE  [Abstract!Next]_(Abstract!vars)
<1> USE DEF Abstract!vars
<1>1. ASSUME NEW p \in Producers, EnqueueClaim(p)
      PROVE  Abstract!Next
  <2>1. p \in Reserved /\ arg[p] \in Values
    BY <1>1 DEF IInv, TypeOK, EnqueueClaim, Reserved
  <2>2. Cardinality(Reserved) # 0
    BY <2>1, CountsFinite, FS_EmptySet
  <2>3. Len(log) \in Nat /\ Len(out) \in Nat /\ N \in Nat
    BY QueueAssumption, SMT DEF IInv, TypeOK
  <2>4. Len(log) - Len(out) < N
    BY <2>2, <2>3, CountsFinite, SMT DEF IInv, CountAccurate
  <2>5. log' = Append(log, arg[p]) /\ UNCHANGED out
    BY <1>1 DEF EnqueueClaim, consumer
  <2>6. Abstract!Enqueue(arg[p])
    BY <2>4, <2>5 DEF Abstract!Enqueue
  <2> QED
    BY <2>1, <2>6 DEF Abstract!Next
<1>2. ASSUME DequeueAdvance
      PROVE  Abstract!Next
  <2>1. Len(out) < Len(log) /\ result = log[Len(out) + 1]
    BY <1>2 DEF IInv, ConsumerInv, Taken, DequeueAdvance
  <2> QED
    BY <1>2, <2>1
    DEF DequeueAdvance, producer, Abstract!Next, Abstract!Dequeue
<1>3. ASSUME NEW p \in Producers, NEW v \in Values, EnqueueReserve(p, v)
      PROVE  UNCHANGED <<log, out>>
  BY <1>3 DEF EnqueueReserve, consumer
<1>4. ASSUME NEW p \in Producers,
             EnqueueFail(p) \/ EnqueueAcquire(p) \/ EnqueueWrite(p) \/ EnqueueRelease(p)
      PROVE  UNCHANGED <<log, out>>
  BY <1>4 DEF EnqueueFail, EnqueueAcquire, EnqueueWrite, EnqueueRelease, consumer
<1>5. ASSUME DequeueCall \/ DequeueAcquire \/ DequeueRead \/ DequeueRelease
      PROVE  UNCHANGED <<log, out>>
  BY <1>5 DEF DequeueCall, DequeueAcquire, DequeueRead, DequeueRelease, producer
<1>6. ASSUME UNCHANGED vars
      PROVE  UNCHANGED <<log, out>>
  BY <1>6 DEF vars, producer, consumer
<1> QED
  BY <1>1, <1>2, <1>3, <1>4, <1>5, <1>6 DEF Next, Enqueue, Dequeue

(* The queue implements the abstract bounded FIFO queue. *)
THEOREM Refinement == ASSUME WrapAgrees PROVE Spec => ImplementsQueue
<1>1. Init => Abstract!Init
  BY DEF Init, Abstract!Init
<1>2. IInv /\ [Next]_vars => [Abstract!Next]_(Abstract!vars)
  BY StepRefines
<1> QED
  BY <1>1, <1>2, Invariance, PTL DEF Spec, ImplementsQueue, Abstract!Spec
=============================================================================
