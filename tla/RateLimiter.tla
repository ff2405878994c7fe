----------------------------- MODULE RateLimiter -----------------------------
(***************************************************************************)
(* security.RateLimiter: fixed windows of attempts per address, in a table *)
(* of bounded size kept in the order its buckets were inserted.  A check   *)
(* reads the clock first and takes the lock afterwards.                    *)
(*                                                                         *)
(* The guard of the public API calls it from the event loop, one thread;   *)
(* the admin login has a limiter of its own, called by pool threads.       *)
(***************************************************************************)
EXTENDS Integers, Sequences

CONSTANTS Addresses,  \* hashed client addresses
          Threads,    \* who calls check
          Limit,      \* attempts a window admits
          Second,     \* ticks of the clock in a second
          Window,     \* length of a window in ticks
          Capacity,   \* 10000 in the code
          Horizon     \* the clock stops here (model bound)

ASSUME BoundsAssumption ==
  /\ Limit \in Nat \ {0} /\ Second \in Nat \ {0} /\ Window \in Nat \ {0}
  /\ Capacity \in Nat \ {0} /\ Horizon \in Nat

VARIABLES
  buckets,   \* the OrderedDict, oldest insertion first
  clock,     \* time.monotonic()
  now, who,  \* what each thread has read, and for which address
  pc,        \* "ready" or "checking"
  verdict,   \* what each thread's last check answered
  admitted,  \* history: the readings of an address's last admissions, newest first
  promised   \* history: when an address told to wait may come back

local == <<now, who, pc, verdict>>
history == <<admitted, promised>>
vars == <<buckets, clock, local, history>>

Init ==
  /\ buckets = <<>> /\ clock = 0
  /\ now = [t \in Threads |-> 0]
  /\ who \in [Threads -> Addresses]
  /\ pc = [t \in Threads |-> "ready"]
  /\ verdict = [t \in Threads |-> "none"]
  /\ admitted = [a \in Addresses |-> <<>>]
  /\ promised = [a \in Addresses |-> 0]

Tick ==
  /\ clock < Horizon
  /\ clock' = clock + 1
  /\ UNCHANGED <<buckets, local, history>>

\* now = time.monotonic(), outside the lock.
ReadClock(t) ==
  /\ pc[t] = "ready"
  /\ \E a \in Addresses : who' = [who EXCEPT ![t] = a]
  /\ now' = [now EXCEPT ![t] = clock]
  /\ pc' = [pc EXCEPT ![t] = "checking"]
  /\ verdict' = [verdict EXCEPT ![t] = "none"]
  /\ UNCHANGED <<buckets, clock, history>>

-----------------------------------------------------------------------------
(* Under the lock                                                            *)

\* popitem(last=False) while the first bucket has expired.
Evict(s, n) ==
  LET fresh == {i \in 1..Len(s) : s[i].expiry > n}
      first == CHOOSE i \in fresh : \A j \in fresh : i <= j
  IN  IF fresh = {} THEN <<>> ELSE SubSeq(s, first, Len(s))

\* Where address a has its bucket in table s, if it has one.
Places(s, a) == {i \in 1..Len(s) : s[i].address = a}

\* Mutant: a window one tick short.
OpenedShort(n) == [expiry |-> n + Window - 1, count |-> 0]

\* The bucket a check starts from: its own, or a new window.
Opened(n) == [expiry |-> n + Window, count |-> 0]
Current(s, a, n) ==
  LET kept == {i \in Places(s, a) : s[i].expiry > n}
  IN  IF kept = {} THEN Opened(n)
      ELSE LET i == CHOOSE i \in kept : TRUE
           IN  [expiry |-> s[i].expiry, count |-> s[i].count]

\* Mutant: the fraction of a second is not rounded up.
RetryShort(expiry, n) == Second * ((expiry - n) \div Second)

\* max(1, int(expiry - now) + 1) seconds.
Retry(expiry, n) == Second * (((expiry - n) \div Second) + 1)

\* Mutant: every attempt starts the window anew.
CountedSliding(b, a, n) == [address |-> a, expiry |-> n + Window, count |-> b.count + 1]

Counted(b, a, n) == [address |-> a, expiry |-> b.expiry, count |-> b.count + 1]

\* buckets[key] = ...: an address that is in the table keeps its place there.
Store(s, a, bucket) ==
  IF Places(s, a) = {} THEN Append(s, bucket)
  ELSE [i \in 1..Len(s) |-> IF i \in Places(s, a) THEN bucket ELSE s[i]]

Exhausted(b) == b.count >= Limit

\* Mutant: the table may grow by one.
FullLate(s, a) == Places(s, a) = {} /\ Len(s) > Capacity

Full(s, a) == Places(s, a) = {} /\ Len(s) >= Capacity

Refuse(t, s, a, b) ==
  /\ Exhausted(b)
  /\ buckets' = s
  /\ promised' = [promised EXCEPT ![a] = now[t] + Retry(b.expiry, now[t])]
  /\ verdict' = [verdict EXCEPT ![t] = "limited"]
  /\ UNCHANGED admitted

TurnAway(t, s, a, b) ==
  /\ ~Exhausted(b) /\ Full(s, a)
  /\ buckets' = s
  /\ verdict' = [verdict EXCEPT ![t] = "full"]
  /\ UNCHANGED history

\* The history of admissions goes back as far as a question may be about it.
Noted(log, n) ==
  [i \in 1..(IF Len(log) < 2 * Limit THEN Len(log) + 1 ELSE 2 * Limit) |->
     IF i = 1 THEN n ELSE log[i - 1]]

Admit(t, s, a, b) ==
  /\ ~Exhausted(b) /\ ~Full(s, a)
  /\ buckets' = Store(s, a, Counted(b, a, now[t]))
  /\ verdict' = [verdict EXCEPT ![t] = "admitted"]
  /\ admitted' = [admitted EXCEPT ![a] = Noted(@, now[t])]
  /\ promised' = [promised EXCEPT ![a] = 0]

Check(t) ==
  /\ pc[t] = "checking"
  /\ pc' = [pc EXCEPT ![t] = "ready"] /\ now' = [now EXCEPT ![t] = 0]
  /\ LET s == Evict(buckets, now[t])
         a == who[t]
         b == Current(s, a, now[t])
     IN  Refuse(t, s, a, b) \/ TurnAway(t, s, a, b) \/ Admit(t, s, a, b)
  /\ UNCHANGED <<clock, who>>

Next == Tick \/ \E t \in Threads : ReadClock(t) \/ Check(t)

Spec == Init /\ [][Next]_vars

-----------------------------------------------------------------------------
(* Properties                                                                *)

\* Every variable keeps its type; a bucket counts at least one attempt.
TypeOK ==
  /\ buckets \in Seq([address : Addresses, expiry : Nat, count : 1..Limit])
  /\ clock \in Nat
  /\ now \in [Threads -> Nat] /\ who \in [Threads -> Addresses]
  /\ pc \in [Threads -> {"ready", "checking"}]
  /\ verdict \in [Threads -> {"none", "limited", "full", "admitted"}]
  /\ admitted \in [Addresses -> Seq(Nat)] /\ promised \in [Addresses -> Nat]

\* "Bounded ... counters" (security.py:46): the table never outgrows its
\* capacity, and an address never has two buckets.
Bounded ==
  /\ Len(buckets) <= Capacity
  /\ \A i, j \in 1..Len(buckets) : buckets[i].address = buckets[j].address => i = j

\* What a limit per fixed window is worth to the one who is protected: twice the
\* limit is never admitted from one address in less than a window, by the clock as read.
BurstBounded ==
  \A a \in Addresses :
    Len(admitted[a]) = 2 * Limit => admitted[a][1] - admitted[a][2 * Limit] >= Window

\* Retry-After is honest: who comes back when told, and not before, is admitted
\* unless the table is full.
RetryHonest ==
  [][\A t \in Threads :
       LET a == who[t]
       IN  promised[a] # 0 /\ now[t] >= promised[a] => verdict'[t] # "limited"]_vars

\* An address is turned away for want of room only while every bucket of the
\* table still counts: eviction from the front misses no expired bucket.
TurnedAwayOnlyWhenFull ==
  [][\A t \in Threads : verdict[t] # "full" /\ verdict'[t] = "full" =>
       /\ Len(buckets') = Capacity
       /\ \A i \in 1..Len(buckets') : buckets'[i].expiry > now[t]]_vars
=============================================================================
