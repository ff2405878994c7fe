----------------------------- MODULE StoragePool -----------------------------
(***************************************************************************)
(* LeadStorage over the API's pool of database connections: a handler      *)
(* takes a connection before it asks for the storage lock, keeps it while  *)
(* it waits for the lock, through its transaction and, in a download,      *)
(* through the whole stream.  A cleanup is a process of its own and has a  *)
(* pool of its own.  That a handler gives up waiting for a connection      *)
(* after 30 seconds is LeadStorage.Fail in a waiting stage.                *)
(***************************************************************************)
EXTENDS LeadStorage

CONSTANT PoolSize   \* connections of the API (pool_size + max_overflow)
ASSUME PoolAssumption == PoolSize \in Nat \ {0}

VARIABLE connected  \* requests that hold a connection
poolVars == <<vars, connected>>

Waiting == {"arrived", "prepareWait", "purgeWait", "repairWait", "restoreWait", "openWait"}
InApi == Waiting \cup {"new", "discarding"} \cup Over

Checkout(r) ==
  /\ pc[r] \in Waiting /\ r \notin connected
  /\ Cardinality(connected) < PoolSize
  /\ connected' = connected \cup {r}
  /\ UNCHANGED vars

\* Mutant: a session is never closed.
KeptForGood == connected

\* A session gives its connection back when its transaction ends; the handler's
\* next transaction asks the pool again.
Kept == {r \in connected : pc'[r] = pc[r] \/ pc'[r] \notin InApi}

\* Whoever is granted the storage lock has a connection to hold it with.
Pooled ==
  /\ \A r \in Api : r \in (shared' \cup exclusive') \ (shared \cup exclusive) => r \in connected
  /\ connected' = Kept

PoolInit == Init /\ connected = {}
PoolNext == (Next /\ Pooled) \/ \E r \in Api : Checkout(r)

\* A handler that can go on goes on, a client reads its stream to the end, and
\* the pool serves those who wait for it.
PoolFairness ==
  /\ \A r \in Api : WF_poolVars(Checkout(r))
  /\ \A u \in Uploads : WF_poolVars(UploadStep(u) /\ Pooled)
  /\ \A r \in Removals : WF_poolVars(RemovalStep(r) /\ Pooled)
  /\ \A d \in Downloads : WF_poolVars(DownloadStep(d) /\ Pooled)
  /\ \A c \in Cleanups : WF_poolVars(CleanupStep(c) /\ Pooled)

PoolSpec == PoolInit /\ [][PoolNext]_poolVars /\ PoolFairness

-----------------------------------------------------------------------------
(* Properties                                                                *)

AwaitsConnection(r) ==
  pc[r] \in Waiting /\ r \notin connected /\ Cardinality(connected) >= PoolSize
AwaitsStorageLock(r) ==
  \/ pc[r] \in {"arrived", "openWait"} /\ r \in connected /\ exclusive # {}
  \/ pc[r] \in Waiting \ {"arrived", "openWait"} /\ r \in connected /\ shared \cup exclusive # {}
  \/ pc[r] = "tidyWait" /\ shared \cup exclusive # {}
AwaitsKeyLock(r) == r \in Uploads \ lost /\ \E v \in Uploads : Awaits(r, v)

\* Handlers queue for three things, connections, the storage lock and the locks
\* of keys and browsers, and keep what they have while they queue for the next.
\* They are never all queueing: somebody who is under way does not wait for
\* another handler, whatever the size of the pool.
Underway == {r \in Requests : pc[r] \notin {"new", "done", "dead"}}
NoGridlock ==
  Underway # {} => \E r \in Underway :
    ~AwaitsConnection(r) /\ ~AwaitsStorageLock(r) /\ ~AwaitsKeyLock(r)

-----------------------------------------------------------------------------
(* The inductive invariant behind NoGridlock                                 *)

\* Where a handler is inside a transaction, with the storage lock granted.
AtWork == Places \ (InApi \cup {"tidyWait"})
KeyLocked == {"locking", "promoting", "committing"}

\* Who waits holds no storage lock and no key lock ...
HoldersAtWork ==
  /\ \A r \in shared \cup exclusive : pc[r] \in AtWork
  /\ \A u \in Uploads : holds[u] # {} => pc[u] \in KeyLocked
\* ... and there are never more connections out than the pool has, all of them
\* with handlers that wait for a lock or hold it.
Pool ==
  /\ connected \subseteq Api /\ IsFiniteSet(connected) /\ Cardinality(connected) <= PoolSize
  /\ \A r \in connected : pc[r] \in Waiting \cup AtWork
  /\ \A r \in Api : /\ pc[r] \in AtWork => r \in connected
                    /\ pc[r] # "tidyWait"

PoolInv == HoldersAtWork /\ Pool
=============================================================================
