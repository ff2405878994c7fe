-------------------------- MODULE RateLimiterProofs --------------------------
(***************************************************************************)
(* Proofs about RateLimiter, for any number of addresses, any limit, any   *)
(* window, any capacity and a clock that may stop anywhere.                *)
(*                                                                         *)
(* What holds of the table and of the promises holds for any number of     *)
(* threads; what is said of the windows needs that the table is only ever  *)
(* asked by one, because a thread may come with a reading older than those *)
(* already counted.                                                        *)
(***************************************************************************)
EXTENDS RateLimiter, WellFoundedInduction, SequenceTheorems, TLAPS

BucketSet == [address : Addresses, expiry : Nat, count : 1..Limit]

\* The buckets of a table, wherever they are in it.
Held(s) == {s[i] : i \in 1..Len(s)}

\* The buckets of a table are buckets.
LEMMA HeldIs == ASSUME NEW s \in Seq(BucketSet) PROVE Held(s) \subseteq BucketSet
  <1> SUFFICES ASSUME NEW i \in 1..Len(s) PROVE s[i] \in BucketSet
    BY DEF Held
  <1> QED OBVIOUS

-----------------------------------------------------------------------------
(* Eviction, look-up and storing                                             *)

\* The order of the naturals, for a least counterexample.
LEMMA LessIsWellFounded == IsWellFoundedOn({ss \in Nat \X Nat : ss[1] < ss[2]}, Nat)
  BY NatLessThanWellFounded DEF OpToRel

\* A set of naturals that is not empty has a least element.
LEMMA Least == ASSUME NEW T \in SUBSET Nat, T # {} PROVE \E x \in T : \A y \in T : x <= y
  <1> DEFINE R == {ss \in Nat \X Nat : ss[1] < ss[2]}
  <1>1. IsWellFoundedOn(R, Nat)
    BY LessIsWellFounded
  <1>2. \E x \in T : \A y \in T : ~ (<<y, x>> \in R)
    <2> HIDE DEF R
    <2> QED BY <1>1, WFMin
  <1>3. PICK x \in T : \A y \in T : ~ (<<y, x>> \in R)
    BY <1>2
  <1>4. ASSUME NEW y \in T PROVE x <= y
    <2>1. <<y, x>> \in Nat \X Nat
      OBVIOUS
    <2>2. ~ (y < x)
      BY <1>3, <2>1
    <2> QED BY <2>2
  <1> QED BY <1>4

\* Eviction leaves a table without its first buckets; those had all expired, and
\* the first one left has not.
LEMMA EvictIs ==
  ASSUME NEW s \in Seq(BucketSet), NEW n \in Nat
  PROVE  \E k \in 0..Len(s) :
           /\ Evict(s, n) \in Seq(BucketSet)
           /\ Len(Evict(s, n)) = Len(s) - k
           /\ \A i \in 1..(Len(s) - k) : Evict(s, n)[i] = s[i + k]
           /\ \A i \in 1..k : s[i].expiry <= n
           /\ k < Len(s) => s[k + 1].expiry > n
  <1> DEFINE fresh == {i \in 1..Len(s) : s[i].expiry > n}
  <1>0. ASSUME NEW i \in 1..Len(s) PROVE s[i] \in BucketSet /\ s[i].expiry \in Nat
    <2>1. s[i] \in BucketSet
      OBVIOUS
    <2> QED BY <2>1 DEF BucketSet
  <1>1. CASE fresh = {}
    <2>1. Evict(s, n) = <<>>
      BY <1>1 DEF Evict
    <2>2. \A i \in 1..Len(s) : s[i].expiry <= n
      BY <1>1, <1>0
    <2> QED BY <2>1, <2>2
  <1>2. CASE fresh # {}
    <2>1. \E x \in fresh : \A y \in fresh : x <= y
      <3>1. fresh \in SUBSET Nat
        OBVIOUS
      <3> HIDE DEF fresh
      <3> QED BY <1>2, <3>1, Least
    <2> DEFINE first == CHOOSE i \in fresh : \A j \in fresh : i <= j
    <2>2. first \in fresh /\ \A j \in fresh : first <= j
      <3> HIDE DEF fresh
      <3> QED BY <2>1
    <2>3. Evict(s, n) = SubSeq(s, first, Len(s))
      BY <1>2 DEF Evict
    <2> HIDE DEF first
    <2>4. first \in 1..Len(s) /\ s[first].expiry > n
      BY <2>2
    <2>5. /\ SubSeq(s, first, Len(s)) \in Seq(BucketSet)
          /\ Len(SubSeq(s, first, Len(s))) = Len(s) - (first - 1)
          /\ \A i \in 1..(Len(s) - (first - 1)) : SubSeq(s, first, Len(s))[i] = s[i + (first - 1)]
      BY <2>4
    <2>6. \A i \in 1..(first - 1) : s[i].expiry <= n
      BY <2>2, <2>4, <1>0
    <2>7. PICK k \in 0..Len(s) : k = first - 1
      BY <2>4
    <2>8. k < Len(s) => s[k + 1].expiry > n
      <3>1. k + 1 = first
        BY <2>7, <2>4
      <3> QED BY <3>1, <2>4
    <2> QED BY <2>3, <2>5, <2>6, <2>7, <2>8
  <1> QED BY <1>1, <1>2

\* No address has two buckets in a table.
Single(s) == \A i, j \in 1..Len(s) : s[i].address = s[j].address => i = j

\* The same, in terms of what eviction keeps and drops.
LEMMA EvictKeeps ==
  ASSUME NEW s \in Seq(BucketSet), NEW n \in Nat
  PROVE  /\ Evict(s, n) \in Seq(BucketSet)
         /\ Len(Evict(s, n)) <= Len(s)
         /\ Held(Evict(s, n)) \subseteq Held(s)
         /\ \A x \in Held(s) \ Held(Evict(s, n)) : x.expiry <= n
         /\ Single(s) => Single(Evict(s, n))
  <1>1. PICK k \in 0..Len(s) :
           /\ Evict(s, n) \in Seq(BucketSet)
           /\ Len(Evict(s, n)) = Len(s) - k
           /\ \A i \in 1..(Len(s) - k) : Evict(s, n)[i] = s[i + k]
           /\ \A i \in 1..k : s[i].expiry <= n
           /\ k < Len(s) => s[k + 1].expiry > n
    BY EvictIs
  <1> DEFINE r == Evict(s, n)
  <1> HIDE DEF r
  <1>2. Len(s) \in Nat /\ Len(r) = Len(s) - k /\ \A i \in 1..Len(r) : r[i] = s[i + k] /\ i + k \in 1..Len(s)
    BY <1>1 DEF r
  <1>3. Held(r) \subseteq Held(s)
    BY <1>2 DEF Held
  <1>4. ASSUME NEW x \in Held(s), x \notin Held(r) PROVE x.expiry <= n
    <2>1. PICK i \in 1..Len(s) : x = s[i]
      BY <1>4 DEF Held
    <2>2. CASE i <= k
      BY <2>1, <2>2, <1>1
    <2>3. CASE i > k
      <3>1. i - k \in 1..Len(r) /\ r[i - k] = s[i]
        BY <2>1, <2>3, <1>2
      <3> QED BY <3>1, <2>1, <1>4 DEF Held
    <2> QED BY <2>2, <2>3
  <1>5. Single(s) => Single(r)
    <2> SUFFICES ASSUME Single(s), NEW i \in 1..Len(r), NEW j \in 1..Len(r), r[i].address = r[j].address
                 PROVE  i = j
      BY DEF Single
    <2>1. s[i + k].address = s[j + k].address
      BY <1>2
    <2>2. i + k = j + k
      BY <1>2, <2>1 DEF Single
    <2> QED BY <2>2
  <1> QED BY <1>1, <1>2, <1>3, <1>4, <1>5 DEF r

\* A check starts from the address's own bucket, if that has not expired, or
\* from a new window, if no bucket of the address counts.
LEMMA CurrentIs ==
  ASSUME NEW s \in Seq(BucketSet), NEW a \in Addresses, NEW n \in Nat
  PROVE  /\ Current(s, a, n) \in [expiry : Nat, count : 0..Limit]
         /\ Current(s, a, n).expiry > n
         /\ \/ /\ Current(s, a, n) = Opened(n)
               /\ \A x \in Held(s) : x.address = a => x.expiry <= n
            \/ \E x \in Held(s) : /\ x.address = a /\ x.expiry > n
                                  /\ Current(s, a, n).expiry = x.expiry
                                  /\ Current(s, a, n).count = x.count
  <1> DEFINE kept == {i \in Places(s, a) : s[i].expiry > n}
  <1>0. ASSUME NEW i \in 1..Len(s) PROVE s[i] \in BucketSet /\ s[i].expiry \in Nat /\ s[i].count \in 1..Limit
    <2>1. s[i] \in BucketSet
      OBVIOUS
    <2> QED BY <2>1 DEF BucketSet
  <1>1. CASE kept = {}
    <2>1. Current(s, a, n) = Opened(n)
      BY <1>1 DEF Current
    <2>2. \A x \in Held(s) : x.address = a => x.expiry <= n
      BY <1>1, <1>0 DEF Held, Places
    <2> QED BY <2>1, <2>2, BoundsAssumption DEF Opened
  <1>2. CASE kept # {}
    <2> DEFINE i == CHOOSE i \in kept : TRUE
    <2>1. i \in kept
      <3> HIDE DEF kept
      <3> QED BY <1>2
    <2>2. Current(s, a, n) = [expiry |-> s[i].expiry, count |-> s[i].count]
      BY <1>2 DEF Current
    <2> HIDE DEF i
    <2>3. i \in 1..Len(s) /\ s[i].address = a /\ s[i].expiry > n /\ s[i] \in Held(s)
      BY <2>1 DEF Places, Held
    <2> QED BY <2>2, <2>3, <1>0, BoundsAssumption
  <1> QED BY <1>1, <1>2

\* Storing a bucket replaces the one its address has, or adds one.
LEMMA StoreIs ==
  ASSUME NEW s \in Seq(BucketSet), NEW a \in Addresses, NEW x \in BucketSet, x.address = a, Single(s)
  PROVE  /\ Store(s, a, x) \in Seq(BucketSet)
         /\ Held(Store(s, a, x)) = {x} \cup {y \in Held(s) : y.address # a}
         /\ Single(Store(s, a, x))
         /\ Len(Store(s, a, x)) = IF Places(s, a) = {} THEN Len(s) + 1 ELSE Len(s)
         /\ \A i \in 1..Len(Store(s, a, x)) :
              Store(s, a, x)[i] = IF i \in Places(s, a) \cup {Len(s) + 1} THEN x ELSE s[i]
  <1> DEFINE r == Store(s, a, x)
  <1>0. \A i \in 1..Len(s) : s[i] \in BucketSet
    OBVIOUS
  <1>1. CASE Places(s, a) = {}
    <2>1. r = Append(s, x)
      BY <1>1 DEF Store
    <2>2. r \in Seq(BucketSet) /\ Len(r) = Len(s) + 1 /\ \A i \in 1..Len(r) : r[i] = IF i = Len(s) + 1 THEN x ELSE s[i]
      BY <2>1
    <2>3. \A i \in 1..Len(s) : s[i].address # a
      BY <1>1 DEF Places
    <2> HIDE DEF r
    <2>4. Held(r) = {x} \cup {y \in Held(s) : y.address # a}
      BY <2>2, <2>3 DEF Held
    <2>5. Single(r)
      BY <2>2, <2>3 DEF Single
    <2> QED BY <1>1, <2>2, <2>4, <2>5 DEF r
  <1>2. CASE Places(s, a) # {}
    <2>1. r = [i \in 1..Len(s) |-> IF i \in Places(s, a) THEN x ELSE s[i]]
      BY <1>2 DEF Store
    <2>2. r \in Seq(BucketSet) /\ Len(r) = Len(s)
      BY <2>1, <1>0, IsASeq
    <2>3. \A i \in 1..Len(r) : r[i] = IF i \in Places(s, a) THEN x ELSE s[i]
      BY <2>1, <2>2
    <2> HIDE DEF r
    <2>4. Held(r) = {x} \cup {y \in Held(s) : y.address # a}
      BY <1>2, <2>2, <2>3 DEF Held, Places
    <2>5. Single(r)
      BY <2>2, <2>3 DEF Single, Places
    <2> QED BY <1>2, <2>2, <2>3, <2>4, <2>5 DEF r
  <1> QED BY <1>1, <1>2

\* Who is told to wait is told to wait past the end of the window.
LEMMA RetryIsPast ==
  ASSUME NEW e \in Nat, NEW n \in Nat, e > n
  PROVE  Retry(e, n) \in Nat /\ n + Retry(e, n) > e
  <1> DEFINE q == (e - n) \div Second
  <1>1. q \in Nat /\ (e - n) = Second * q + ((e - n) % Second) /\ (e - n) % Second \in 0..(Second - 1)
    BY BoundsAssumption
  <1> HIDE DEF q
  <1>2. Second * (q + 1) = Second * q + Second /\ Second * q \in Nat
    BY <1>1, BoundsAssumption
  <1>3. Retry(e, n) = Second * (q + 1)
    BY DEF Retry, q
  <1> QED BY <1>1, <1>2, <1>3, BoundsAssumption

-----------------------------------------------------------------------------
(* What holds however many threads ask                                       *)

\* A thread between two checks has no reading, and one in a check no verdict.
Fresh ==
  \A t \in Threads : /\ pc[t] = "ready" => now[t] = 0
                     /\ pc[t] = "checking" => verdict[t] = "none"

\* The bucket of an address that was told to wait ends before it may come back.
PromisesKept ==
  \A x \in Held(buckets) : promised[x.address] # 0 => x.expiry < promised[x.address]

TableInv == TypeOK /\ Bounded /\ Fresh /\ PromisesKept

\* The newest reading comes first, the oldest of a full log is dropped.
LEMMA NotedIs ==
  ASSUME NEW log \in Seq(Nat), NEW n \in Nat
  PROVE  /\ Noted(log, n) \in Seq(Nat)
         /\ Len(Noted(log, n)) = IF Len(log) < 2 * Limit THEN Len(log) + 1 ELSE 2 * Limit
         /\ \A i \in 1..Len(Noted(log, n)) : Noted(log, n)[i] = IF i = 1 THEN n ELSE log[i - 1]
  <1> DEFINE m == IF Len(log) < 2 * Limit THEN Len(log) + 1 ELSE 2 * Limit
  <1>1. m \in Nat /\ m <= Len(log) + 1
    BY BoundsAssumption
  <1>2. Noted(log, n) = [i \in 1..m |-> IF i = 1 THEN n ELSE log[i - 1]]
    BY DEF Noted
  <1> HIDE DEF m
  <1>3. \A i \in 1..m : (IF i = 1 THEN n ELSE log[i - 1]) \in Nat
    BY <1>1
  <1>4. Noted(log, n) \in Seq(Nat) /\ Len(Noted(log, n)) = m
    BY <1>1, <1>2, <1>3, IsASeq
  <1>5. \A i \in 1..m : Noted(log, n)[i] = IF i = 1 THEN n ELSE log[i - 1]
    BY <1>2
  <1> QED BY <1>4, <1>5 DEF m

\* A check keeps the table and the promises.
LEMMA CheckKeepsTable ==
  ASSUME TableInv, NEW t \in Threads, Check(t)
  PROVE  TableInv'
  <1> DEFINE n == now[t]
             a == who[t]
             s == Evict(buckets, n)
             b == Current(s, a, n)
             z == Counted(b, a, n)
  <1>1. /\ buckets \in Seq(BucketSet) /\ n \in Nat /\ a \in Addresses
        /\ now \in [Threads -> Nat] /\ pc \in [Threads -> {"ready", "checking"}]
        /\ verdict \in [Threads -> {"none", "limited", "full", "admitted"}]
        /\ admitted \in [Addresses -> Seq(Nat)] /\ promised \in [Addresses -> Nat]
        /\ admitted[a] \in Seq(Nat) /\ promised[a] \in Nat
        /\ clock \in Nat /\ who \in [Threads -> Addresses]
    BY DEF TableInv, TypeOK, BucketSet
  <1>2. /\ pc[t] = "checking"
        /\ pc' = [pc EXCEPT ![t] = "ready"] /\ now' = [now EXCEPT ![t] = 0]
        /\ clock' = clock /\ who' = who
        /\ Refuse(t, s, a, b) \/ TurnAway(t, s, a, b) \/ Admit(t, s, a, b)
    BY DEF Check
  <1>3. Len(buckets) <= Capacity /\ Single(buckets)
    BY DEF TableInv, Bounded, Single
  <1>4. /\ s \in Seq(BucketSet) /\ Len(s) <= Len(buckets) /\ Held(s) \subseteq Held(buckets)
        /\ Single(s)
    BY <1>1, <1>3, EvictKeeps
  <1> HIDE DEF s
  <1>5. /\ b \in [expiry : Nat, count : 0..Limit] /\ b.expiry > n
        /\ \/ b = Opened(n)
           \/ \E x \in Held(s) : x.address = a /\ x.expiry > n /\ b.expiry = x.expiry /\ b.count = x.count
    <2> HIDE DEF n, a
    <2>1. /\ Current(s, a, n) \in [expiry : Nat, count : 0..Limit]
          /\ Current(s, a, n).expiry > n
          /\ \/ /\ Current(s, a, n) = Opened(n)
                /\ \A x \in Held(s) : x.address = a => x.expiry <= n
             \/ \E x \in Held(s) : /\ x.address = a /\ x.expiry > n
                                   /\ Current(s, a, n).expiry = x.expiry
                                   /\ Current(s, a, n).count = x.count
      <3>1. n \in Nat /\ a \in Addresses /\ s \in Seq(BucketSet)
        BY <1>1, <1>4
      <3> QED BY <3>1, CurrentIs
    <2> QED BY <2>1
  <1> HIDE DEF b
  <1>6. ~Exhausted(b) => z \in BucketSet /\ z.address = a
    BY <1>1, <1>5, BoundsAssumption DEF Exhausted, Counted, BucketSet
  <1> HIDE DEF z
  <1>7. ~Exhausted(b) => /\ Store(s, a, z) \in Seq(BucketSet) /\ Single(Store(s, a, z))
                         /\ Held(Store(s, a, z)) = {z} \cup {y \in Held(s) : y.address # a}
                         /\ Len(Store(s, a, z)) = IF Places(s, a) = {} THEN Len(s) + 1 ELSE Len(s)
    BY <1>4, <1>6, <1>1, StoreIs
  <1>8. n + Retry(b.expiry, n) \in Nat /\ n + Retry(b.expiry, n) > b.expiry
    <2>1. b.expiry \in Nat
      BY <1>5
    <2>2. Retry(b.expiry, n) \in Nat /\ n + Retry(b.expiry, n) > b.expiry
      <3> HIDE DEF n
      <3> QED BY <2>1, <1>1, <1>5, RetryIsPast
    <2> QED BY <2>2, <1>1
  <1>9. /\ pc' \in [Threads -> {"ready", "checking"}] /\ now' \in [Threads -> Nat]
        /\ pc'[t] = "ready" /\ now'[t] = 0
        /\ \A u \in Threads \ {t} : pc'[u] = pc[u] /\ now'[u] = now[u]
    BY <1>1, <1>2
  <1>10. /\ buckets' \in Seq(BucketSet) /\ Len(buckets') <= Capacity /\ Single(buckets')
         /\ verdict' \in [Threads -> {"none", "limited", "full", "admitted"}]
         /\ \A u \in Threads \ {t} : verdict'[u] = verdict[u]
         /\ admitted' \in [Addresses -> Seq(Nat)] /\ promised' \in [Addresses -> Nat]
         /\ PromisesKept'
    <2>1. CASE Refuse(t, s, a, b)
      <3>1. /\ buckets' = s /\ admitted' = admitted
            /\ promised' = [promised EXCEPT ![a] = n + Retry(b.expiry, n)]
            /\ verdict' = [verdict EXCEPT ![t] = "limited"]
        BY <2>1 DEF Refuse
      <3>2. b.count # 0
        BY <2>1, <1>5, BoundsAssumption DEF Refuse, Exhausted
      <3>3. PICK x \in Held(s) : x.address = a /\ b.expiry = x.expiry
        BY <1>5, <3>2 DEF Opened
      <3>4. PromisesKept'
        <4> SUFFICES ASSUME NEW y \in Held(buckets'), promised'[y.address] # 0
                     PROVE  y.expiry < promised'[y.address]
          BY DEF PromisesKept
        <4>1. y \in Held(s) /\ y \in Held(buckets) /\ y \in BucketSet
          BY <3>1, <1>4, HeldIs
        <4>2. CASE y.address = a
          <5>1. y = x
            BY <4>1, <4>2, <3>3, <1>4 DEF Held, Single
          <5> QED BY <5>1, <3>3, <3>1, <4>2, <1>1, <1>8
        <4>3. CASE y.address # a
          BY <4>1, <4>3, <3>1, <1>1 DEF TableInv, PromisesKept, BucketSet
        <4> QED BY <4>2, <4>3
      <3> QED BY <3>1, <3>4, <1>1, <1>3, <1>4, <1>8, BoundsAssumption
    <2>2. CASE TurnAway(t, s, a, b)
      <3>1. /\ buckets' = s /\ admitted' = admitted /\ promised' = promised
            /\ verdict' = [verdict EXCEPT ![t] = "full"]
        BY <2>2 DEF TurnAway, history
      <3>2. PromisesKept'
        BY <3>1, <1>4 DEF TableInv, PromisesKept
      <3> QED BY <3>1, <3>2, <1>1, <1>3, <1>4, BoundsAssumption
    <2>3. CASE Admit(t, s, a, b)
      <3>1. /\ ~Exhausted(b) /\ ~Full(s, a) /\ buckets' = Store(s, a, z)
            /\ admitted' = [admitted EXCEPT ![a] = Noted(@, n)]
            /\ promised' = [promised EXCEPT ![a] = 0]
            /\ verdict' = [verdict EXCEPT ![t] = "admitted"]
        BY <2>3 DEF Admit, z
      <3>2. Len(buckets') <= Capacity
        BY <3>1, <1>7, <1>4, <1>3, BoundsAssumption DEF Full
      <3>3. PromisesKept'
        <4> SUFFICES ASSUME NEW y \in Held(buckets'), promised'[y.address] # 0
                     PROVE  y.expiry < promised'[y.address]
          BY DEF PromisesKept
        <4>0. z.address = a /\ promised'[a] = 0
          BY <3>1, <1>6, <1>1
        <4>1. y \in Held(s) /\ y \in Held(buckets) /\ y.address # a
          BY <3>1, <1>7, <4>0, <1>4
        <4>2. y.address \in Addresses
          BY <4>1, <1>1, HeldIs DEF BucketSet
        <4>3. promised'[y.address] = promised[y.address]
          BY <4>1, <4>2, <3>1, <1>1
        <4> QED BY <4>1, <4>3 DEF TableInv, PromisesKept
      <3>4. Noted(admitted[a], n) \in Seq(Nat)
        BY <1>1, NotedIs
      <3>5. admitted' \in [Addresses -> Seq(Nat)]
        BY <3>1, <3>4, <1>1
      <3> QED BY <3>1, <3>2, <3>3, <3>5, <1>1, <1>7
    <2> QED BY <1>2, <2>1, <2>2, <2>3
  <1>11. TypeOK'
    BY <1>1, <1>2, <1>9, <1>10 DEF TypeOK, BucketSet
  <1>12. Bounded' /\ Fresh'
    BY <1>1, <1>9, <1>10 DEF TableInv, Fresh, Bounded, Single
  <1> QED BY <1>10, <1>11, <1>12 DEF TableInv

\* The clock and a reading of it leave the table alone.
LEMMA TickKeepsTable == ASSUME TableInv, Tick PROVE TableInv'
  BY DEF Tick, TableInv, TypeOK, Bounded, Fresh, PromisesKept, local, history

\* Reading the clock is outside the lock: the table stays.
LEMMA ReadKeepsTable == ASSUME TableInv, NEW t \in Threads, ReadClock(t) PROVE TableInv'
  <1>1. PICK a \in Addresses : who' = [who EXCEPT ![t] = a]
    BY DEF ReadClock
  <1>2. /\ now' = [now EXCEPT ![t] = clock] /\ pc' = [pc EXCEPT ![t] = "checking"]
        /\ verdict' = [verdict EXCEPT ![t] = "none"]
        /\ buckets' = buckets /\ clock' = clock /\ admitted' = admitted /\ promised' = promised
    BY DEF ReadClock, history
  <1>3. TypeOK'
    BY <1>1, <1>2 DEF TableInv, TypeOK
  <1>4. Bounded' /\ PromisesKept'
    BY <1>2 DEF TableInv, Bounded, PromisesKept
  <1>5. Fresh'
    BY <1>2 DEF TableInv, Fresh, TypeOK
  <1> QED BY <1>3, <1>4, <1>5 DEF TableInv

LEMMA InitTable == Init => TableInv
  BY BoundsAssumption DEF Init, TableInv, TypeOK, Bounded, Fresh, PromisesKept, Held

LEMMA NextTable == TableInv /\ [Next]_vars => TableInv'
  <1> SUFFICES ASSUME TableInv, [Next]_vars PROVE TableInv'
    OBVIOUS
  <1>1. CASE Tick
    BY <1>1, TickKeepsTable
  <1>2. ASSUME NEW t \in Threads, ReadClock(t) PROVE TableInv'
    BY <1>2, ReadKeepsTable
  <1>3. ASSUME NEW t \in Threads, Check(t) PROVE TableInv'
    BY <1>3, CheckKeepsTable
  <1>4. CASE UNCHANGED vars
    BY <1>4 DEF vars, local, history, TableInv, TypeOK, Bounded, Fresh, PromisesKept
  <1> QED BY <1>1, <1>2, <1>3, <1>4 DEF Next

\* The table keeps its bound, its buckets their shape and their addresses, and
\* what was promised to an address stays ahead of its bucket.
THEOREM LimiterInvariant == Spec => []TableInv
  <1> QED BY InitTable, NextTable, PTL DEF Spec

\* The type invariant of the limiter.
THEOREM LimiterTypes == Spec => []TypeOK
  <1>1. TableInv => TypeOK
    BY DEF TableInv
  <1> QED BY <1>1, LimiterInvariant, PTL

\* The table never outgrows its capacity and an address never has two buckets,
\* however many threads read the clock in whatever order.
THEOREM TableStaysBounded == Spec => []Bounded
  <1>1. TableInv => Bounded
    BY DEF TableInv
  <1> QED BY <1>1, LimiterInvariant, PTL

\* Who comes back when told, and not before, is never told to wait again.
THEOREM RetryIsHonest == Spec => RetryHonest
  <1>1. ASSUME TableInv, [Next]_vars, NEW t \in Threads,
               promised[who[t]] # 0, now[t] >= promised[who[t]]
        PROVE  verdict'[t] # "limited"
    <2>0. /\ now[t] \in Nat /\ who[t] \in Addresses /\ promised[who[t]] \in Nat /\ pc[t] \in {"ready", "checking"}
          /\ verdict \in [Threads -> {"none", "limited", "full", "admitted"}] /\ buckets \in Seq(BucketSet)
      BY <1>1 DEF TableInv, TypeOK, BucketSet
    <2>1. now[t] # 0
      BY <2>0, <1>1
    <2>2. pc[t] = "checking" /\ verdict[t] = "none"
      BY <2>0, <2>1, <1>1 DEF TableInv, Fresh
    <2>3. CASE verdict' = verdict
      BY <2>2, <2>3
    <2>4. ASSUME NEW u \in Threads, ReadClock(u) PROVE verdict'[t] # "limited"
      BY <2>4, <2>0, <2>2 DEF ReadClock
    <2>5. ASSUME NEW u \in Threads, Check(u) PROVE verdict'[t] # "limited"
      <3> DEFINE s == Evict(buckets, now[u])
                 b == Current(s, who[u], now[u])
      <3>1. Refuse(u, s, who[u], b) \/ TurnAway(u, s, who[u], b) \/ Admit(u, s, who[u], b)
        BY <2>5 DEF Check
      <3>2. CASE u # t
        BY <3>1, <3>2, <2>0, <2>2 DEF Refuse, TurnAway, Admit
      <3>3. CASE u = t
        <4>1. s \in Seq(BucketSet) /\ Held(s) \subseteq Held(buckets)
          BY <2>0, <3>3, EvictKeeps
        <4> HIDE DEF s
        <4>2. \/ b = Opened(now[t])
              \/ \E x \in Held(s) : x.address = who[t] /\ x.expiry > now[t]
          <5> DEFINE n == now[t]
                     a == who[t]
          <5> HIDE DEF n, a
          <5>1. \/ /\ Current(s, a, n) = Opened(n)
                   /\ \A x \in Held(s) : x.address = a => x.expiry <= n
                \/ \E x \in Held(s) : /\ x.address = a /\ x.expiry > n
                                      /\ Current(s, a, n).expiry = x.expiry
                                      /\ Current(s, a, n).count = x.count
            <6>1. n \in Nat /\ a \in Addresses
              BY <2>0 DEF n, a
            <6> QED BY <4>1, <6>1, CurrentIs
          <5> QED BY <5>1, <3>3 DEF n, a
        <4> HIDE DEF b
        <4>3. ~ \E x \in Held(s) : x.address = who[t] /\ x.expiry > now[t]
          <5> SUFFICES ASSUME NEW x \in Held(s), x.address = who[t], x.expiry > now[t]
                       PROVE  FALSE
            OBVIOUS
          <5>1. x.expiry < promised[who[t]] /\ x.expiry \in Nat
            BY <4>1, <1>1, <2>0, HeldIs DEF TableInv, PromisesKept, BucketSet
          <5> QED BY <5>1, <2>0, <1>1
        <4>4. ~Exhausted(b)
          BY <4>2, <4>3, BoundsAssumption DEF Opened, Exhausted
        <4> QED BY <3>1, <3>3, <4>4, <2>0 DEF Refuse, TurnAway, Admit
      <3> QED BY <3>2, <3>3
    <2> QED BY <1>1, <2>3, <2>4, <2>5 DEF Next, Tick, vars, local
  <1>2. TableInv /\ [Next]_vars =>
          [\A t \in Threads :
             LET a == who[t]
             IN  promised[a] # 0 /\ now[t] >= promised[a] => verdict'[t] # "limited"]_vars
    BY <1>1
  <1> QED BY <1>2, LimiterInvariant, PTL DEF Spec, RetryHonest

-----------------------------------------------------------------------------
(* What holds when one thread asks: the guard of the public API runs in the  *)
(* event loop                                                                *)

OneThread == \A t, u \in Threads : t = u

\* The earliest reading a thread may still count with.
Reading(t) == IF pc[t] = "checking" THEN now[t] ELSE clock

\* The buckets stand in the order they expire in ...
Ordered(s) == \A i, j \in 1..Len(s) : i <= j => s[i].expiry <= s[j].expiry
InOrder == Ordered(buckets)

\* ... and none was opened later than the reading that comes next.
NotAhead ==
  \A t \in Threads : /\ now[t] <= clock
                     /\ \A x \in Held(buckets) : x.expiry <= Reading(t) + Window

\* How admissions follow one another: the last c of them are those of the window
\* that ends at e, and what is Limit places older than its opening is a window
\* older than it, too.
Rhythm(log, e, c) ==
  /\ c <= Len(log) /\ log[c] + Window = e
  /\ \A i, j \in 1..Len(log) : i <= j => log[j] <= log[i]
  /\ \A i \in 1..Len(log) : i >= c + Limit => log[i] + Window <= log[c]

\* An address that was admitted has been admitted in that rhythm; its bucket is
\* that of its last window, and missing only if that window is over.
Paced(a) ==
  \/ admitted[a] = <<>> /\ \A x \in Held(buckets) : x.address # a
  \/ \E e \in Nat, c \in 1..Limit :
       /\ Rhythm(admitted[a], e, c)
       /\ \A x \in Held(buckets) : x.address = a => x.expiry = e /\ x.count = c
       /\ \A t \in Threads : /\ admitted[a][1] <= Reading(t)
                             /\ (\A x \in Held(buckets) : x.address # a) => e <= Reading(t)

WindowInv == TableInv /\ InOrder /\ NotAhead /\ \A a \in Addresses : Paced(a)

\* The log with one more reading: the newest first, the others one place older.
LEMMA NotedShape ==
  ASSUME NEW log \in Seq(Nat), NEW n \in Nat
  PROVE  /\ Len(Noted(log, n)) \in Nat /\ Len(Noted(log, n)) >= 1 /\ Len(Noted(log, n)) <= Len(log) + 1
         /\ Len(Noted(log, n)) = Len(log) + 1 \/ Len(Noted(log, n)) = 2 * Limit
         /\ Noted(log, n)[1] = n
         /\ \A i \in 1..Len(Noted(log, n)) : i # 1 => i - 1 \in 1..Len(log) /\ Noted(log, n)[i] = log[i - 1]
  <1> DEFINE r == Noted(log, n)
  <1>1. /\ r \in Seq(Nat)
        /\ Len(r) = IF Len(log) < 2 * Limit THEN Len(log) + 1 ELSE 2 * Limit
        /\ \A i \in 1..Len(r) : r[i] = IF i = 1 THEN n ELSE log[i - 1]
    BY NotedIs
  <1> HIDE DEF r
  <1>0. Len(log) \in Nat /\ Limit \in Nat /\ Limit >= 1 /\ Len(r) \in Nat
    BY <1>1, BoundsAssumption
  <1>2. Len(r) >= 1 /\ Len(r) <= Len(log) + 1
    BY <1>0, <1>1
  <1>3. Len(r) = Len(log) + 1 \/ Len(r) = 2 * Limit
    BY <1>1
  <1>4. r[1] = n
    <2>1. 1 \in 1..Len(r)
      BY <1>0, <1>2
    <2> QED BY <2>1, <1>1
  <1>5. ASSUME NEW i \in 1..Len(r), i # 1 PROVE i - 1 \in 1..Len(log) /\ r[i] = log[i - 1]
    <2>1. i - 1 \in 1..Len(log)
      BY <1>0, <1>2, <1>5
    <2> QED BY <2>1, <1>1, <1>5
  <1> QED BY <1>0, <1>2, <1>3, <1>4, <1>5 DEF r

\* One more admission in the running window ...
LEMMA RhythmGoesOn ==
  ASSUME NEW log \in Seq(Nat), NEW e \in Nat, NEW c \in 1..Limit, NEW n \in Nat,
         Rhythm(log, e, c), c < Limit, log[1] <= n
  PROVE  Rhythm(Noted(log, n), e, c + 1)
  <1> DEFINE r == Noted(log, n)
  <1>0. Len(log) \in Nat /\ Limit \in Nat /\ Limit >= 1 /\ Window \in Nat /\ Window >= 1
    BY BoundsAssumption
  <1>1. /\ Len(r) \in Nat /\ Len(r) >= 1 /\ Len(r) <= Len(log) + 1
        /\ Len(r) = Len(log) + 1 \/ Len(r) = 2 * Limit
        /\ r[1] = n
        /\ \A i \in 1..Len(r) : i # 1 => i - 1 \in 1..Len(log) /\ r[i] = log[i - 1]
    BY NotedShape
  <1> HIDE DEF r
  <1>2. \A i \in 1..Len(log) : log[i] \in Nat /\ log[i] <= n
    BY DEF Rhythm
  <1>3. c + 1 <= Len(r) /\ r[c + 1] = log[c] /\ Len(r) \in Nat /\ Len(r) <= Len(log) + 1
    BY <1>0, <1>1, SMTT(30) DEF Rhythm
  <1>4. ASSUME NEW i \in 1..Len(r), NEW j \in 1..Len(r), i <= j PROVE r[j] <= r[i]
    <2>1. CASE i = 1
      <3>1. r[j] \in Nat /\ r[j] <= n
        <4>1. CASE j = 1
          BY <4>1, <1>1
        <4>2. CASE j # 1
          <5>1. j - 1 \in 1..Len(log) /\ r[j] = log[j - 1]
            BY <4>2, <1>1
          <5> QED BY <5>1, <1>2
        <4> QED BY <4>1, <4>2
      <3> QED BY <3>1, <2>1, <1>1
    <2>2. CASE i # 1
      <3>1. j # 1 /\ i - 1 <= j - 1
        BY <2>2, <1>4
      <3>2. /\ i - 1 \in 1..Len(log) /\ j - 1 \in 1..Len(log)
            /\ r[i] = log[i - 1] /\ r[j] = log[j - 1]
        BY <2>2, <3>1, <1>1
      <3> QED BY <3>1, <3>2 DEF Rhythm
    <2> QED BY <2>1, <2>2
  <1>5. ASSUME NEW i \in 1..Len(r), i >= c + 1 + Limit PROVE r[i] + Window <= r[c + 1]
    <2>1. i - 1 \in 1..Len(log) /\ i - 1 >= c + Limit /\ r[i] = log[i - 1]
      <3>1. i # 1 /\ i - 1 >= c + Limit
        BY <1>5, <1>0
      <3> QED BY <3>1, <1>1
    <2> QED BY <2>1, <1>3 DEF Rhythm
  <1> QED BY <1>3, <1>4, <1>5, BoundsAssumption DEF Rhythm, r

\* ... or the first of a new window, when the last one is over.
LEMMA RhythmBegins ==
  ASSUME NEW log \in Seq(Nat), NEW n \in Nat,
         \/ log = <<>>
         \/ \E e \in Nat, c \in 1..Limit : Rhythm(log, e, c) /\ e <= n /\ log[1] <= n
  PROVE  Rhythm(Noted(log, n), n + Window, 1)
  <1> DEFINE r == Noted(log, n)
  <1>0. Len(log) \in Nat /\ Limit \in Nat /\ Limit >= 1 /\ Window \in Nat /\ Window >= 1
    BY BoundsAssumption
  <1>1. /\ Len(r) \in Nat /\ Len(r) >= 1 /\ Len(r) <= Len(log) + 1
        /\ Len(r) = Len(log) + 1 \/ Len(r) = 2 * Limit
        /\ r[1] = n
        /\ \A i \in 1..Len(r) : i # 1 => i - 1 \in 1..Len(log) /\ r[i] = log[i - 1]
    BY NotedShape
  <1> HIDE DEF r
  <1>3. CASE log = <<>>
    BY <1>1, <1>3, BoundsAssumption DEF Rhythm, r
  <1>4. CASE \E e \in Nat, c \in 1..Limit : Rhythm(log, e, c) /\ e <= n /\ log[1] <= n
    <2>1. PICK e \in Nat, c \in 1..Limit : Rhythm(log, e, c) /\ e <= n /\ log[1] <= n
      BY <1>4
    <2>2. \A i \in 1..Len(log) : log[i] \in Nat /\ log[i] <= n
      BY <2>1, SMTT(30) DEF Rhythm
    <2>3. ASSUME NEW i \in 1..Len(r), NEW j \in 1..Len(r), i <= j PROVE r[j] <= r[i]
      <3>1. CASE i = 1
        <4>1. r[j] \in Nat /\ r[j] <= n
          <5>1. CASE j = 1
            BY <5>1, <1>1
          <5>2. CASE j # 1
            <6>1. j - 1 \in 1..Len(log) /\ r[j] = log[j - 1]
              BY <5>2, <1>1
            <6> QED BY <6>1, <2>2
          <5> QED BY <5>1, <5>2
        <4> QED BY <4>1, <3>1, <1>1
      <3>2. CASE i # 1
        <4>1. j # 1 /\ i - 1 <= j - 1
          BY <3>2, <2>3
        <4>2. /\ i - 1 \in 1..Len(log) /\ j - 1 \in 1..Len(log)
              /\ r[i] = log[i - 1] /\ r[j] = log[j - 1]
          BY <3>2, <4>1, <1>1
        <4> QED BY <4>1, <4>2, <2>1 DEF Rhythm
      <3> QED BY <3>1, <3>2
    <2>4. ASSUME NEW i \in 1..Len(r), i >= 1 + Limit PROVE r[i] + Window <= r[1]
      <3>1. i - 1 \in 1..Len(log) /\ i - 1 >= c /\ r[i] = log[i - 1]
        <4>1. i # 1 /\ i - 1 >= c
          BY <2>4, <1>0
        <4> QED BY <4>1, <1>1
      <3>2. c \in 1..Len(log) /\ log[c] + Window = e
        BY <2>1 DEF Rhythm
      <3>3. log[i - 1] <= log[c]
        BY <3>1, <3>2, <2>1 DEF Rhythm
      <3>4. log[i - 1] + Window <= n
        <4>1. log[i - 1] \in Nat /\ log[c] \in Nat
          BY <3>1, <3>2, <2>2
        <4>2. e \in Nat /\ e <= n
          BY <2>1
        <4> DEFINE old == log[i - 1]
                   opening == log[c]
        <4>3. old \in Nat /\ opening \in Nat /\ opening + Window = e /\ old <= opening
          BY <4>1, <3>2, <3>3
        <4> HIDE DEF old, opening
        <4>4. old + Window <= n
          BY <4>2, <4>3, <1>0
        <4> QED BY <4>4 DEF old
      <3> QED BY <3>1, <3>4, <1>1
    <2> QED BY <1>1, <2>3, <2>4, BoundsAssumption DEF Rhythm, r
  <1> QED BY <1>3, <1>4

\* The rhythm is what bounds a burst.
LEMMA RhythmBounds ==
  ASSUME NEW log \in Seq(Nat), NEW e \in Nat, NEW c \in 1..Limit, Rhythm(log, e, c), Len(log) = 2 * Limit
  PROVE  log[1] - log[2 * Limit] >= Window
  <1>1. c \in 1..Len(log) /\ 1 \in 1..Len(log) /\ 2 * Limit \in 1..Len(log) /\ 2 * Limit >= c + Limit
    BY BoundsAssumption
  <1>2. log[2 * Limit] + Window <= log[c] /\ log[c] <= log[1]
    BY <1>1 DEF Rhythm
  <1>3. log[1] \in Nat /\ log[c] \in Nat /\ log[2 * Limit] \in Nat
    BY <1>1
  <1> QED BY <1>2, <1>3, BoundsAssumption

\* Eviction from an ordered table misses no expired bucket.
LEMMA EvictOrdered ==
  ASSUME NEW s \in Seq(BucketSet), NEW n \in Nat, Ordered(s)
  PROVE  /\ Ordered(Evict(s, n))
         /\ \A i \in 1..Len(Evict(s, n)) : Evict(s, n)[i].expiry > n
  <1>1. PICK k \in 0..Len(s) :
           /\ Evict(s, n) \in Seq(BucketSet)
           /\ Len(Evict(s, n)) = Len(s) - k
           /\ \A i \in 1..(Len(s) - k) : Evict(s, n)[i] = s[i + k]
           /\ \A i \in 1..k : s[i].expiry <= n
           /\ k < Len(s) => s[k + 1].expiry > n
    BY EvictIs
  <1> DEFINE r == Evict(s, n)
  <1> HIDE DEF r
  <1>2. Len(s) \in Nat /\ Len(r) = Len(s) - k /\ \A i \in 1..Len(r) : r[i] = s[i + k] /\ i + k \in 1..Len(s)
    BY <1>1 DEF r
  <1>3. ASSUME NEW i \in 1..Len(s) PROVE s[i].expiry \in Nat
    <2>1. s[i] \in BucketSet
      OBVIOUS
    <2> QED BY <2>1 DEF BucketSet
  <1>4. ASSUME NEW i \in 1..Len(r), NEW j \in 1..Len(r), i <= j PROVE r[i].expiry <= r[j].expiry
    <2>1. i + k <= j + k
      BY <1>4
    <2> QED BY <2>1, <1>2 DEF Ordered
  <1>5. ASSUME NEW i \in 1..Len(r) PROVE r[i].expiry > n
    <2>1. k + 1 \in 1..Len(s) /\ k + 1 <= i + k /\ k < Len(s)
      BY <1>2
    <2>2. s[k + 1].expiry <= r[i].expiry
      BY <2>1, <1>2 DEF Ordered
    <2>3. s[k + 1].expiry > n /\ s[k + 1].expiry \in Nat /\ r[i].expiry \in Nat
      BY <2>1, <1>1, <1>2, <1>3
    <2> QED BY <2>2, <2>3
  <1> QED BY <1>4, <1>5 DEF Ordered, r

\* A check by the only thread keeps the order of the table and the rhythm of
\* every address.
LEMMA CheckKeepsWindows ==
  ASSUME OneThread, WindowInv, NEW t \in Threads, Check(t)
  PROVE  InOrder' /\ NotAhead' /\ \A a \in Addresses : Paced(a)'
  <1> DEFINE n == now[t]
             a == who[t]
             s == Evict(buckets, n)
             b == Current(s, a, n)
             z == Counted(b, a, n)
  <1>1. /\ buckets \in Seq(BucketSet) /\ n \in Nat /\ a \in Addresses /\ clock \in Nat
        /\ now \in [Threads -> Nat] /\ pc \in [Threads -> {"ready", "checking"}]
        /\ admitted \in [Addresses -> Seq(Nat)] /\ admitted[a] \in Seq(Nat)
    BY DEF WindowInv, TableInv, TypeOK, BucketSet
  <1>2. /\ pc[t] = "checking" /\ pc' = [pc EXCEPT ![t] = "ready"] /\ now' = [now EXCEPT ![t] = 0] /\ clock' = clock
        /\ Refuse(t, s, a, b) \/ TurnAway(t, s, a, b) \/ Admit(t, s, a, b)
    BY DEF Check
  <1>3. Single(buckets) /\ Ordered(buckets)
    BY DEF WindowInv, TableInv, Bounded, Single, InOrder
  <1>4. /\ s \in Seq(BucketSet) /\ Held(s) \subseteq Held(buckets) /\ Single(s)
        /\ \A x \in Held(buckets) \ Held(s) : x.expiry <= n
    BY <1>1, <1>3, EvictKeeps
  <1>5. Ordered(s) /\ \A i \in 1..Len(s) : s[i].expiry > n
    BY <1>1, <1>3, EvictOrdered
  <1>6. n <= clock /\ \A u \in Threads : u = t
    BY DEF WindowInv, NotAhead, OneThread
  <1>7. /\ Reading(t) = n /\ \A u \in Threads : Reading(u) = n
        /\ Reading(t)' = clock /\ \A u \in Threads : Reading(u)' = clock
        /\ now'[t] = 0
    BY <1>1, <1>2, <1>6 DEF Reading
  <1>8. \A x \in Held(buckets) : x \in BucketSet /\ x.expiry \in Nat /\ x.expiry <= n + Window
    BY <1>1, <1>7, HeldIs DEF WindowInv, NotAhead, BucketSet
  <1> HIDE DEF s
  <1>9. /\ b \in [expiry : Nat, count : 0..Limit] /\ b.expiry > n
        /\ \/ b = Opened(n) /\ \A x \in Held(s) : x.address = a => x.expiry <= n
           \/ \E x \in Held(s) : x.address = a /\ x.expiry > n /\ b.expiry = x.expiry /\ b.count = x.count
    <2> DEFINE m == n
               c == a
    <2> HIDE DEF m, c
    <2>1. m \in Nat /\ c \in Addresses
      BY <1>1 DEF m, c
    <2>2. /\ Current(s, c, m) \in [expiry : Nat, count : 0..Limit]
          /\ Current(s, c, m).expiry > m
          /\ \/ /\ Current(s, c, m) = Opened(m)
                /\ \A x \in Held(s) : x.address = c => x.expiry <= m
             \/ \E x \in Held(s) : /\ x.address = c /\ x.expiry > m
                                   /\ Current(s, c, m).expiry = x.expiry
                                   /\ Current(s, c, m).count = x.count
      BY <2>1, <1>4, CurrentIs
    <2> QED BY <2>2 DEF m, c
  <1> HIDE DEF b, n, a
  <1>10. n <= clock /\ n \in Nat /\ a \in Addresses /\ clock \in Nat /\ Window \in Nat
    BY <1>1, <1>6, BoundsAssumption
  \* An address the check is not about, or one it does not admit.
  <1>11. ASSUME NEW d \in Addresses, admitted'[d] = admitted[d],
                \A x \in Held(buckets') : x.address = d => x \in Held(s),
                \A x \in Held(s) : x.address = d => x \in Held(buckets')
         PROVE  Paced(d)'
    <2>1. CASE admitted[d] = <<>> /\ \A x \in Held(buckets) : x.address # d
      BY <2>1, <1>11, <1>4 DEF Paced
    <2>2. CASE \E e \in Nat, c \in 1..Limit :
                 /\ Rhythm(admitted[d], e, c)
                 /\ \A x \in Held(buckets) : x.address = d => x.expiry = e /\ x.count = c
                 /\ \A u \in Threads : /\ admitted[d][1] <= Reading(u)
                                       /\ (\A x \in Held(buckets) : x.address # d) => e <= Reading(u)
      <3>1. PICK e \in Nat, c \in 1..Limit :
                 /\ Rhythm(admitted[d], e, c)
                 /\ \A x \in Held(buckets) : x.address = d => x.expiry = e /\ x.count = c
                 /\ \A u \in Threads : /\ admitted[d][1] <= Reading(u)
                                       /\ (\A x \in Held(buckets) : x.address # d) => e <= Reading(u)
        BY <2>2
      <3>2. \A x \in Held(buckets') : x.address = d => x.expiry = e /\ x.count = c
        BY <3>1, <1>11, <1>4
      <3>3. admitted[d][1] <= clock
        <4>1. admitted[d] \in Seq(Nat) /\ Len(admitted[d]) >= 1
          BY <3>1, <1>1, BoundsAssumption DEF Rhythm
        <4>2. admitted[d][1] \in Nat /\ admitted[d][1] <= n
          BY <4>1, <3>1, <1>7
        <4> QED BY <4>2, <1>10
      <3>4. ASSUME \A x \in Held(buckets') : x.address # d PROVE e <= clock
        <4>1. CASE \A x \in Held(buckets) : x.address # d
          BY <4>1, <3>1, <1>7, <1>10
        <4>2. CASE \E x \in Held(buckets) : x.address = d
          <5>1. PICK x \in Held(buckets) : x.address = d
            BY <4>2
          <5>2. x.expiry <= n /\ x.expiry = e
            BY <5>1, <3>4, <1>11, <1>4, <3>1
          <5> QED BY <5>2, <1>10
        <4> QED BY <4>1, <4>2
      <3> QED BY <3>1, <3>2, <3>3, <3>4, <1>7, <1>11 DEF Paced
    <2> QED BY <2>1, <2>2 DEF WindowInv, Paced
  <1>12. ASSUME buckets' = s, admitted' = admitted PROVE InOrder' /\ NotAhead' /\ \A d \in Addresses : Paced(d)'
    <2>1. InOrder'
      BY <1>12, <1>5 DEF InOrder
    <2>2. NotAhead'
      <3>1. ASSUME NEW x \in Held(s) PROVE x.expiry <= clock + Window
        BY <1>4, <1>8, <1>10
      <3> QED BY <3>1, <1>12, <1>2, <1>6, <1>7, <1>10 DEF NotAhead
    <2>3. ASSUME NEW d \in Addresses PROVE Paced(d)'
      BY <1>11, <1>12
    <2> QED BY <2>1, <2>2, <2>3
  <1>13. CASE Refuse(t, s, a, b)
    BY <1>13, <1>12 DEF Refuse
  <1>14. CASE TurnAway(t, s, a, b)
    BY <1>14, <1>12 DEF TurnAway, history
  <1>15. CASE Admit(t, s, a, b)
    <2>1. /\ ~Exhausted(b) /\ ~Full(s, a) /\ buckets' = Store(s, a, z)
          /\ admitted' = [admitted EXCEPT ![a] = Noted(@, n)]
      BY <1>15 DEF Admit, n
    <2>2. z \in BucketSet /\ z.address = a /\ z.expiry = b.expiry /\ z.count = b.count + 1 /\ b.count < Limit
      BY <2>1, <1>9, <1>10, BoundsAssumption DEF Exhausted, Counted, BucketSet
    <2> HIDE DEF z
    <2>3. /\ Store(s, a, z) \in Seq(BucketSet)
          /\ Held(Store(s, a, z)) = {z} \cup {y \in Held(s) : y.address # a}
          /\ Len(Store(s, a, z)) = IF Places(s, a) = {} THEN Len(s) + 1 ELSE Len(s)
          /\ \A i \in 1..Len(Store(s, a, z)) :
               Store(s, a, z)[i] = IF i \in Places(s, a) \cup {Len(s) + 1} THEN z ELSE s[i]
      BY <1>4, <2>2, <1>10, StoreIs
    <2>4. z.expiry \in Nat /\ z.expiry <= n + Window
      BY <2>2, <1>9, <1>8, <1>4, <1>10 DEF Opened
    <2>5. NotAhead'
      <3>1. ASSUME NEW x \in Held(buckets') PROVE x.expiry <= clock + Window
        <4>1. x = z \/ x \in Held(s)
          BY <2>1, <2>3
        <4>2. x.expiry \in Nat /\ x.expiry <= n + Window
          BY <4>1, <2>4, <1>4, <1>8
        <4> QED BY <4>2, <1>10
      <3> QED BY <3>1, <1>2, <1>6, <1>7, <1>10 DEF NotAhead
    <2>6. InOrder'
      <3> DEFINE r == Store(s, a, z)
      <3>1. CASE Places(s, a) = {}
        <4>1. \A x \in Held(s) : x.address # a
          BY <3>1 DEF Places, Held
        <4>2. z.expiry = n + Window
          BY <4>1, <1>9, <2>2 DEF Opened
        <4>3. Len(r) = Len(s) + 1 /\ Len(s) \in Nat /\ \A i \in 1..Len(r) : r[i] = IF i = Len(s) + 1 THEN z ELSE s[i]
          BY <2>3, <3>1, <1>4
        <4> HIDE DEF r
        <4>4. \A i \in 1..Len(s) : s[i].expiry <= z.expiry
          BY <4>2, <1>4, <1>8 DEF Held
        <4>5. Ordered(r)
          BY <4>3, <4>4, <1>5, <2>4 DEF Ordered
        <4> QED BY <4>5, <2>1 DEF InOrder, r
      <3>2. CASE Places(s, a) # {}
        <4>1. PICK p \in 1..Len(s) : s[p].address = a
          BY <3>2 DEF Places
        <4>2. \A i \in 1..Len(s) : i \in Places(s, a) <=> i = p
          BY <4>1, <1>4 DEF Places, Single
        <4>3. z.expiry = s[p].expiry
          <5>1. s[p] \in Held(s) /\ s[p].expiry > n /\ s[p].expiry \in Nat
            BY <1>4, <1>5, <1>8 DEF Held
          <5>2. PICK x \in Held(s) : x.address = a /\ b.expiry = x.expiry
            BY <5>1, <4>1, <1>9, <1>10
          <5>3. x = s[p]
            BY <5>2, <4>1, <1>4 DEF Held, Single
          <5> QED BY <5>2, <5>3, <2>2
        <4>4. Len(r) = Len(s) /\ Len(s) \in Nat
          BY <2>3, <3>2, <1>4
        <4>5. \A i \in 1..Len(r) : r[i].expiry = s[i].expiry
          BY <2>3, <4>2, <4>3, <4>4
        <4> HIDE DEF r
        <4>6. Ordered(r)
          BY <4>4, <4>5, <1>5 DEF Ordered
        <4> QED BY <4>6, <2>1 DEF InOrder, r
      <3> QED BY <3>1, <3>2
    <2>7. ASSUME NEW d \in Addresses PROVE Paced(d)'
      <3>1. CASE d # a
        <4>1. admitted'[d] = admitted[d]
          BY <3>1, <2>1, <1>1
        <4>2. /\ \A x \in Held(buckets') : x.address = d => x \in Held(s)
              /\ \A x \in Held(s) : x.address = d => x \in Held(buckets')
          BY <3>1, <2>1, <2>2, <2>3
        <4> QED BY <4>1, <4>2, <1>11
      <3>2. CASE d = a
        <4> DEFINE log == admitted[a]
                   e == z.expiry
                   c == z.count
        <4>1. admitted'[a] = Noted(log, n) /\ log \in Seq(Nat)
          BY <2>1, <1>1, <1>10
        <4>2. e \in Nat /\ c \in 1..Limit
          BY <2>2, <2>4 DEF BucketSet
        <4>3. \A x \in Held(buckets') : x.address = a => x.expiry = e /\ x.count = c
          BY <2>1, <2>3
        <4>4. z \in Held(buckets') /\ z.address = a
          BY <2>1, <2>3, <2>2
        <4>5. Noted(log, n)[1] = n
          BY <4>1, <1>10, NotedShape
        <4> HIDE DEF log, e, c
        <4>6. Rhythm(Noted(log, n), e, c)
          <5>0. /\ \/ log = <<>> /\ \A x \in Held(buckets) : x.address # a
                   \/ \E e0 \in Nat, c0 \in 1..Limit :
                        /\ Rhythm(log, e0, c0)
                        /\ \A x \in Held(buckets) : x.address = a => x.expiry = e0 /\ x.count = c0
                        /\ log[1] <= n
                        /\ (\A x \in Held(buckets) : x.address # a) => e0 <= n
            BY <1>7, <1>10 DEF WindowInv, Paced, log
          <5>1. CASE \E x \in Held(s) : x.address = a /\ b.expiry = x.expiry /\ b.count = x.count
            <6>1. PICK x \in Held(s) : x.address = a /\ b.expiry = x.expiry /\ b.count = x.count
              BY <5>1
            <6>2. x \in Held(buckets)
              BY <6>1, <1>4
            <6>3. PICK e0 \in Nat, c0 \in 1..Limit :
                        /\ Rhythm(log, e0, c0)
                        /\ \A y \in Held(buckets) : y.address = a => y.expiry = e0 /\ y.count = c0
                        /\ log[1] <= n
              BY <5>0, <6>1, <6>2
            <6>4. e = e0 /\ c = c0 + 1 /\ c0 < Limit
              BY <6>1, <6>2, <6>3, <2>2 DEF e, c
            <6>5. Rhythm(Noted(log, n), e0, c0 + 1)
              BY <6>3, <6>4, <4>1, <1>10, RhythmGoesOn
            <6> QED BY <6>4, <6>5
          <5>2. CASE b = Opened(n) /\ \A x \in Held(s) : x.address = a => x.expiry <= n
            <6>1. e = n + Window /\ c = 1
              BY <5>2, <2>2 DEF Opened, e, c
            <6>2. \A x \in Held(buckets) : x.address = a => x.expiry <= n
              BY <5>2, <1>4
            <6>3. \/ log = <<>>
                  \/ \E e0 \in Nat, c0 \in 1..Limit : Rhythm(log, e0, c0) /\ e0 <= n /\ log[1] <= n
              BY <5>0, <6>2
            <6>4. Rhythm(Noted(log, n), n + Window, 1)
              BY <6>3, <4>1, <1>10, RhythmBegins
            <6> QED BY <6>1, <6>4
          <5> QED BY <5>1, <5>2, <1>9
        <4>7. \A u \in Threads : admitted'[a][1] <= Reading(u)'
          BY <4>1, <4>5, <1>7, <1>10
        <4> QED BY <3>2, <4>1, <4>2, <4>3, <4>4, <4>6, <4>7 DEF Paced
      <3> QED BY <3>1, <3>2
    <2> QED BY <2>5, <2>6, <2>7
  <1> QED BY <1>2, <1>13, <1>14, <1>15

\* Time passes: what may still be counted with only gets later.
LEMMA TickKeepsWindows ==
  ASSUME WindowInv, Tick PROVE InOrder' /\ NotAhead' /\ \A a \in Addresses : Paced(a)'
  <1>1. /\ buckets' = buckets /\ now' = now /\ pc' = pc /\ admitted' = admitted /\ clock' = clock + 1
        /\ clock \in Nat /\ now \in [Threads -> Nat]
        /\ buckets \in Seq(BucketSet) /\ admitted \in [Addresses -> Seq(Nat)]
    BY DEF Tick, local, history, WindowInv, TableInv, TypeOK, BucketSet
  <1>2. ASSUME NEW t \in Threads PROVE Reading(t) \in Nat /\ Reading(t)' \in Nat /\ Reading(t) <= Reading(t)'
    BY <1>1 DEF Reading
  <1>3. NotAhead'
    <2>1. ASSUME NEW t \in Threads, NEW x \in Held(buckets) PROVE x.expiry <= Reading(t)' + Window
      <3>1. x.expiry <= Reading(t) + Window /\ x.expiry \in Nat
        BY <1>1, HeldIs DEF WindowInv, NotAhead, BucketSet
      <3> QED BY <3>1, <1>2, BoundsAssumption
    <2> QED BY <2>1, <1>1 DEF WindowInv, NotAhead
  <1>4. InOrder'
    BY <1>1 DEF WindowInv, InOrder
  <1>5. ASSUME NEW a \in Addresses PROVE Paced(a)'
    <2>1. CASE admitted[a] = <<>> /\ \A x \in Held(buckets) : x.address # a
      BY <2>1, <1>1 DEF Paced
    <2>2. CASE \E e \in Nat, c \in 1..Limit :
                 /\ Rhythm(admitted[a], e, c)
                 /\ \A x \in Held(buckets) : x.address = a => x.expiry = e /\ x.count = c
                 /\ \A t \in Threads : /\ admitted[a][1] <= Reading(t)
                                       /\ (\A x \in Held(buckets) : x.address # a) => e <= Reading(t)
      <3>1. PICK e \in Nat, c \in 1..Limit :
                 /\ Rhythm(admitted[a], e, c)
                 /\ \A x \in Held(buckets) : x.address = a => x.expiry = e /\ x.count = c
                 /\ \A t \in Threads : /\ admitted[a][1] <= Reading(t)
                                       /\ (\A x \in Held(buckets) : x.address # a) => e <= Reading(t)
        BY <2>2
      <3>2. admitted[a][1] \in Nat
        BY <3>1, <1>1, BoundsAssumption DEF Rhythm
      <3>3. ASSUME NEW t \in Threads
            PROVE  /\ admitted[a][1] <= Reading(t)'
                   /\ (\A x \in Held(buckets) : x.address # a) => e <= Reading(t)'
        BY <3>1, <3>2, <1>2
      <3> QED BY <3>1, <3>3, <1>1 DEF Paced
    <2> QED BY <2>1, <2>2 DEF WindowInv, Paced
  <1> QED BY <1>3, <1>4, <1>5

\* The only thread reads the clock as it stands.
LEMMA ReadKeepsWindows ==
  ASSUME OneThread, WindowInv, NEW t \in Threads, ReadClock(t)
  PROVE  InOrder' /\ NotAhead' /\ \A a \in Addresses : Paced(a)'
  <1>1. /\ buckets' = buckets /\ clock' = clock /\ admitted' = admitted
        /\ now' = [now EXCEPT ![t] = clock] /\ pc' = [pc EXCEPT ![t] = "checking"] /\ pc[t] = "ready"
        /\ clock \in Nat /\ now \in [Threads -> Nat] /\ pc \in [Threads -> {"ready", "checking"}]
    BY DEF ReadClock, history, WindowInv, TableInv, TypeOK
  <1>2. \A u \in Threads : u = t
    BY DEF OneThread
  <1>3. \A u \in Threads : Reading(u) = clock /\ Reading(u)' = clock /\ now'[u] = clock
    BY <1>1, <1>2 DEF Reading
  <1>4. InOrder'
    BY <1>1 DEF WindowInv, InOrder
  <1>5. NotAhead'
    BY <1>1, <1>3 DEF WindowInv, NotAhead
  <1>6. ASSUME NEW a \in Addresses PROVE Paced(a)'
    BY <1>1, <1>3 DEF WindowInv, Paced
  <1> QED BY <1>4, <1>5, <1>6

LEMMA InitWindows == Init => WindowInv
  <1> SUFFICES ASSUME Init PROVE WindowInv
    OBVIOUS
  <1>1. buckets = <<>> /\ Held(buckets) = {} /\ clock = 0 /\ \A t \in Threads : now[t] = 0
    BY DEF Init, Held
  <1>2. InOrder /\ NotAhead
    BY <1>1 DEF InOrder, Ordered, NotAhead
  <1>3. \A a \in Addresses : Paced(a)
    BY <1>1 DEF Init, Paced
  <1> QED BY <1>2, <1>3, InitTable DEF WindowInv

LEMMA NextWindows == OneThread /\ WindowInv /\ [Next]_vars => WindowInv'
  <1> SUFFICES ASSUME OneThread, WindowInv, [Next]_vars PROVE WindowInv'
    OBVIOUS
  <1>1. TableInv'
    BY NextTable DEF WindowInv
  <1>2. CASE Tick
    BY <1>1, <1>2, TickKeepsWindows DEF WindowInv
  <1>3. ASSUME NEW t \in Threads, ReadClock(t) PROVE WindowInv'
    BY <1>1, <1>3, ReadKeepsWindows DEF WindowInv
  <1>4. ASSUME NEW t \in Threads, Check(t) PROVE WindowInv'
    BY <1>1, <1>4, CheckKeepsWindows DEF WindowInv
  <1>5. CASE UNCHANGED vars
    <2>1. /\ buckets' = buckets /\ clock' = clock /\ now' = now /\ pc' = pc /\ admitted' = admitted
      BY <1>5 DEF vars, local, history
    <2>2. InOrder' /\ NotAhead' /\ \A a \in Addresses : Paced(a)'
      BY <2>1 DEF WindowInv, InOrder, NotAhead, Paced, Reading
    <2> QED BY <1>1, <2>2 DEF WindowInv
  <1> QED BY <1>2, <1>3, <1>4, <1>5 DEF Next

\* With one thread the table stays in the order of its expiries and every
\* address is admitted in the rhythm of its windows.
THEOREM WindowsInvariant == OneThread => (Spec => []WindowInv)
  <1> SUFFICES ASSUME OneThread PROVE Spec => []WindowInv
    OBVIOUS
  <1>1. Init => WindowInv
    BY InitWindows
  <1>2. WindowInv /\ [Next]_vars => WindowInv'
    BY NextWindows
  <1> QED BY <1>1, <1>2, PTL DEF Spec

\* One address is never admitted twice the limit of times in less than a window.
THEOREM BurstsAreBounded == OneThread => (Spec => []BurstBounded)
  <1>1. WindowInv => BurstBounded
    <2> SUFFICES ASSUME WindowInv, NEW a \in Addresses, Len(admitted[a]) = 2 * Limit
                 PROVE  admitted[a][1] - admitted[a][2 * Limit] >= Window
      BY DEF BurstBounded
    <2>1. admitted[a] \in Seq(Nat)
      BY DEF WindowInv, TableInv, TypeOK
    <2>2. admitted[a] # <<>>
      BY BoundsAssumption
    <2>3. PICK e \in Nat, c \in 1..Limit : Rhythm(admitted[a], e, c)
      BY <2>2 DEF WindowInv, Paced
    <2> QED BY <2>1, <2>3, RhythmBounds
  <1> QED BY <1>1, WindowsInvariant, PTL

\* An address is turned away only while the whole table counts: one thread's
\* eviction from the front finds every expired bucket.
THEOREM TurnedAwayForAReason == OneThread => (Spec => TurnedAwayOnlyWhenFull)
  <1> SUFFICES ASSUME OneThread PROVE Spec => TurnedAwayOnlyWhenFull
    OBVIOUS
  <1>1. ASSUME WindowInv, [Next]_vars, NEW t \in Threads, verdict[t] # "full", verdict'[t] = "full"
        PROVE  /\ Len(buckets') = Capacity
               /\ \A i \in 1..Len(buckets') : buckets'[i].expiry > now[t]
    <2>0. /\ verdict \in [Threads -> {"none", "limited", "full", "admitted"}]
          /\ buckets \in Seq(BucketSet) /\ now[t] \in Nat /\ Ordered(buckets) /\ Len(buckets) <= Capacity
      BY <1>1 DEF WindowInv, TableInv, TypeOK, BucketSet, InOrder, Bounded
    <2>1. CASE verdict' = verdict
      BY <2>1, <1>1
    <2>2. ASSUME NEW u \in Threads, ReadClock(u) PROVE FALSE
      BY <2>2, <2>0, <1>1 DEF ReadClock
    <2>3. ASSUME NEW u \in Threads, Check(u)
          PROVE  /\ Len(buckets') = Capacity
                 /\ \A i \in 1..Len(buckets') : buckets'[i].expiry > now[t]
      <3> DEFINE s == Evict(buckets, now[u])
                 b == Current(s, who[u], now[u])
      <3>1. u = t
        BY DEF OneThread
      <3>2. Refuse(u, s, who[u], b) \/ TurnAway(u, s, who[u], b) \/ Admit(u, s, who[u], b)
        BY <2>3 DEF Check
      <3>3. /\ s \in Seq(BucketSet) /\ Len(s) <= Len(buckets)
            /\ \A i \in 1..Len(s) : s[i].expiry > now[t]
        BY <2>0, <3>1, EvictKeeps, EvictOrdered
      <3> HIDE DEF s, b
      <3>4. TurnAway(u, s, who[u], b)
        BY <3>1, <3>2, <2>0, <1>1 DEF Refuse, Admit
      <3>5. buckets' = s /\ Len(s) >= Capacity
        BY <3>4 DEF TurnAway, Full
      <3> QED BY <3>3, <3>5, <2>0, BoundsAssumption
    <2> QED BY <1>1, <2>1, <2>2, <2>3 DEF Next, Tick, vars, local
  <1>2. WindowInv /\ [Next]_vars =>
          [\A t \in Threads : verdict[t] # "full" /\ verdict'[t] = "full" =>
             /\ Len(buckets') = Capacity
             /\ \A i \in 1..Len(buckets') : buckets'[i].expiry > now[t]]_vars
    BY <1>1
  <1> QED BY <1>2, WindowsInvariant, PTL DEF Spec, TurnedAwayOnlyWhenFull
=============================================================================
