------------------------- MODULE LeadStorageProofs -------------------------
(***************************************************************************)
(* What LeadStorage guarantees for any set of requests, files, lock ids    *)
(* and faults.                                                             *)
(***************************************************************************)
EXTENDS LeadStorage, TLAPS

-----------------------------------------------------------------------------
(* Type correctness                                                          *)

\* The end of a transaction keeps the types of everything it clears.
LEMMA EndTransactionType ==
  ASSUME TypeOK, NEW D, EndTransaction(D)
  PROVE  /\ shared' \subseteq Requests /\ exclusive' \subseteq Requests /\ lost' \subseteq Requests
         /\ holds' \in [Uploads -> SUBSET Int]
         /\ todo' \in [Requests -> SUBSET Files]
         /\ restore' \in [Requests -> SUBSET Files]
         /\ unlink' \in [Requests -> SUBSET Files]
         /\ visit' \in [Cleanups -> SUBSET Uploads]
         /\ at' \in [Cleanups -> SUBSET Uploads]
  BY DEF TypeOK, EndTransaction

LEMMA RaiseType ==
  ASSUME TypeOK, NEW r \in Requests, Raise(r)
  PROVE  TypeOK'
  <1>1. /\ pc' \in [Requests -> Places] /\ reply' \in [Requests -> Answers]
    BY DEF TypeOK, Raise, Goto, Answer, Places, Answers
  <1>2. UNCHANGED <<leads, rows, dir, bytes, aged, target, area>> /\ EndTransaction({r})
    BY DEF Raise, db, disk
  <1> QED
    BY <1>1, <1>2, EndTransactionType DEF TypeOK

LEMMA InitType == ASSUME ConstantsAssumption, Init PROVE TypeOK
  BY DEF Init, TypeOK, ConstantsAssumption, Requests, Api, Admin, NoTarget, Places, Answers, Recovering

LEMMA UploadType ==
  ASSUME ConstantsAssumption, TypeOK, NEW u \in Uploads, UploadStep(u)
  PROVE  TypeOK'
  <1> u \in Requests
    BY DEF Requests, Api
  <1>1. CASE LockShared(u, "arrived", "staging")
    BY <1>1 DEF TypeOK, LockShared, Goto, Places, vars, db, disk, locks, pass, sweep
  <1>2. CASE Stage(u)
    BY <1>2 DEF TypeOK, Stage, Goto, Places, FilesOf, db, disk, locks, pass, sweep
  <1>3. CASE StageStops(u)
    <2>1. bytes' \in [Files -> {"absent", "dir", "trash"}]
      BY <1>3 DEF TypeOK, StageStops
    <2>2. dir' \in [Uploads -> {"absent", "staging", "objects"}]
      BY <1>3 DEF TypeOK, StageStops
    <2>3. pc' \in [Requests -> Places] /\ reply' \in [Requests -> Answers]
      BY <1>3 DEF TypeOK, StageStops, FileRefused, Goto, Answer, Places, Answers
    <2>4. UNCHANGED <<leads, rows, aged, target, area>> /\ EndTransaction({u})
      BY <1>3 DEF StageStops, db
    <2> QED
      BY <2>1, <2>2, <2>3, <2>4, EndTransactionType DEF TypeOK
  <1>4. CASE AcquireKeyLock(u)
    BY <1>4 DEF TypeOK, AcquireKeyLock, WantedLocks, ConstantsAssumption, Keys, Browsers, db, disk, locks, pass, sweep
  <1>5. CASE Refuse(u)
    BY <1>5, EndTransactionType DEF TypeOK, Refuse, Goto, Answer, Places, Answers, db, disk, locks, pass, sweep
  <1>6. CASE InsertLead(u)
    BY <1>6 DEF TypeOK, InsertLead, Goto, Places, db, disk, locks, pass, sweep
  <1>7. CASE Promote(u)
    BY <1>7, RaiseType DEF TypeOK, Promote, Goto, Places, db, disk, locks, pass, sweep
  <1>8. CASE CommitUpload(u)
    BY <1>8, EndTransactionType DEF TypeOK, CommitUpload, Goto, Answer, Places, Answers, FilesOf, db, disk, locks, pass, sweep
  <1>9. CASE Discard(u)
    BY <1>9 DEF TypeOK, Discard, RemoveTree, Goto, Places, FilesOf, db, disk, locks, pass, sweep
  <1> QED
    BY <1>1, <1>2, <1>3, <1>4, <1>5, <1>6, <1>7, <1>8, <1>9 DEF UploadStep

LEMMA LockExclusiveType ==
  ASSUME TypeOK, NEW r \in Requests, NEW waiting, NEW granted \in Places,
         LockExclusive(r, waiting, granted)
  PROVE  TypeOK'
  BY DEF TypeOK, LockExclusive, TrashKeys, Goto, db, disk, pass, sweep

LEMMA RecoverType ==
  ASSUME ConstantsAssumption, TypeOK, NEW r \in Requests, RecoverStep(r)
  PROVE  TypeOK'
  <1>1. CASE RecoverObject(r)
    <2>1. dir' \in [Uploads -> {"absent", "staging", "objects"}] /\ aged' \subseteq Uploads
      BY <1>1 DEF TypeOK, RecoverObject, ConstantsAssumption, disk
    <2>2. bytes' \in [Files -> {"absent", "dir", "trash"}]
      BY <1>1 DEF TypeOK, RecoverObject, disk
    <2> QED
      BY <1>1, <2>1, <2>2 DEF TypeOK, RecoverObject, db, locks, sweep
  <1>2. ASSUME NEW f \in Files, RecoverLook(r, f) PROVE TypeOK'
    BY <1>2, SMTT(30) DEF TypeOK, RecoverLook, db, disk, locks, sweep
  <1> QED
    BY <1>1, <1>2 DEF RecoverStep

LEMMA RemovalType ==
  ASSUME ConstantsAssumption, TypeOK, NEW r \in Removals, RemovalStep(r)
  PROVE  TypeOK'
  <1> r \in Requests /\ r \in Admin
    BY DEF Requests, Api, Admin
  <1> {"preparing", "purging", "repairing"} \subseteq Places
    BY DEF Places, Recovering
  <1>1. CASE LockExclusive(r, "prepareWait", "preparing") \/ LockExclusive(r, "purgeWait", "purging")
             \/ LockExclusive(r, "repairWait", "repairing")
    BY <1>1, LockExclusiveType
  <1>2. CASE RecoverStep(r)
    BY <1>2, RecoverType
  <1>3. CASE Prepared(r)
    BY <1>3 DEF TypeOK, Prepared, Goto, Places, db, disk, locks, pass, sweep
  <1>4. CASE SelectFiles(r)
    BY <1>4 DEF TypeOK, SelectFiles, Goto, Places, db, disk, locks, sweep
  <1>5. ASSUME NEW f \in Files, Quarantine(r, f) PROVE TypeOK'
    <2>1. CASE InPlace(f)
      <3>1. /\ UNCHANGED <<leads, rows, dir, shared, exclusive, holds, lost, pc, reply, target>>
            /\ UNCHANGED <<restore, unlink, area, visit, at>>
        BY <1>5, <2>1 DEF Quarantine, db, locks, sweep
      <3>2. bytes' = [bytes EXCEPT ![f] = "trash"] /\ aged' \subseteq aged
        BY <1>5, <2>1 DEF Quarantine
      <3>3. todo' = [todo EXCEPT ![r] = @ \ {f}]
        BY <1>5, <2>1 DEF Quarantine
      <3> QED
        BY <3>1, <3>2, <3>3 DEF TypeOK
    <2>2. CASE ~InPlace(f)
      BY <1>5, <2>2, RaiseType DEF Quarantine
    <2> QED
      BY <2>1, <2>2
  <1>6. CASE CommitRemoval(r)
    BY <1>6, EndTransactionType DEF TypeOK, CommitRemoval, Goto, Places, disk
  <1>7. CASE Purged(r)
    BY <1>7, EndTransactionType DEF TypeOK, Purged, Goto, Answer, Places, Answers, db, disk
  <1> QED
    BY <1>1, <1>2, <1>3, <1>4, <1>5, <1>6, <1>7 DEF RemovalStep

LEMMA DownloadType ==
  ASSUME ConstantsAssumption, TypeOK, NEW d \in Downloads, DownloadStep(d)
  PROVE  TypeOK'
  <1> d \in Requests
    BY DEF Requests, Api, Admin
  <1> "restoring" \in Places
    BY DEF Places, Recovering
  <1>1. CASE LockExclusive(d, "restoreWait", "restoring")
    BY <1>1, LockExclusiveType
  <1>2. CASE RecoverStep(d)
    BY <1>2, RecoverType
  <1>3. CASE Restored(d)
    BY <1>3, EndTransactionType DEF TypeOK, Restored, Goto, Places, db, disk
  <1>4. CASE LockShared(d, "openWait", "opening")
    BY <1>4 DEF TypeOK, LockShared, Goto, Places, db, disk, pass, sweep
  <1>5. CASE OpenFile(d)
    BY <1>5, EndTransactionType, RaiseType
    DEF TypeOK, OpenFile, Goto, Answer, Places, Answers, db, disk, locks, pass, sweep
  <1>6. CASE CloseStream(d)
    BY <1>6, EndTransactionType DEF TypeOK, CloseStream, Goto, Answer, Places, Answers, db, disk
  <1> QED
    BY <1>1, <1>2, <1>3, <1>4, <1>5, <1>6 DEF DownloadStep

LEMMA CleanupType ==
  ASSUME ConstantsAssumption, TypeOK, NEW c \in Cleanups, CleanupStep(c)
  PROVE  TypeOK'
  <1> c \in Requests
    BY DEF Requests
  <1> "tidying" \in Places
    BY DEF Places, Recovering
  <1>1. CASE LockExclusive(c, "tidyWait", "tidying")
    BY <1>1, LockExclusiveType
  <1>2. CASE RecoverStep(c)
    BY <1>2, RecoverType
  <1>3. CASE Tidied(c)
    BY <1>3 DEF TypeOK, Tidied, Entries, Goto, Places, db, disk, locks, pass
  <1>4. ASSUME NEW u \in Uploads, SweepLook(c, u) PROVE TypeOK'
    BY <1>4 DEF TypeOK, SweepLook, db, disk, locks, pass
  <1>5. CASE SweepCheck(c)

    <2>1. CASE Raise(c)
      BY <2>1, RaiseType
    <2>2. CASE ~Raise(c)
      BY <1>5, <2>2 DEF TypeOK, SweepCheck, Goto, Places, db, disk, locks, pass, sweep
    <2> QED
      BY <2>1, <2>2
  <1>6. CASE SweepDelete(c)
    <2>1. CASE Raise(c)
      BY <2>1, RaiseType
    <2>2. ASSUME ~Raise(c) PROVE TypeOK'
      <3>1. PICK u \in at[c] : RemoveTree(u)
        BY <1>6, <2>2 DEF SweepDelete
      <3>2. /\ dir' \in [Uploads -> {"absent", "staging", "objects"}]
            /\ bytes' \in [Files -> {"absent", "dir", "trash"}]
            /\ aged' \subseteq Uploads
        BY <3>1 DEF TypeOK, RemoveTree
      <3> QED
        BY <1>6, <2>2, <3>2 DEF TypeOK, SweepDelete, Goto, Places, db, locks, pass
    <2> QED
      BY <2>1, <2>2
  <1>7. CASE SweepNext(c)
    <2>1. CASE area[c] = "staging"
      BY <1>7, <2>1 DEF TypeOK, SweepNext, Entries, db, disk, locks, pass
    <2>2. CASE area[c] # "staging"
      BY <1>7, <2>2, EndTransactionType DEF TypeOK, SweepNext, Goto, Answer, Places, Answers, db, disk
    <2> QED
      BY <2>1, <2>2
  <1> QED
    BY <1>1, <1>2, <1>3, <1>4, <1>5, <1>6, <1>7 DEF CleanupStep

LEMMA EnvironmentType ==
  ASSUME ConstantsAssumption, TypeOK, Environment
  PROVE  TypeOK'
  <1>1. ASSUME NEW u \in Uploads, Age(u) PROVE TypeOK'
    BY <1>1 DEF TypeOK, Age, db, locks, pass, sweep
  <1>2. ASSUME NEW r \in Removals, AskRemoval(r) PROVE TypeOK'
    <2>1. PICK t \in [lead : SUBSET Uploads, files : SUBSET Files] : target' = [target EXCEPT ![r] = t]
      <3>1. ASSUME NEW u \in leads, target' = [target EXCEPT ![r] = [lead |-> {u}, files |-> FilesOf(u)]]
            PROVE  \E t \in [lead : SUBSET Uploads, files : SUBSET Files] : target' = [target EXCEPT ![r] = t]
        <4> [lead |-> {u}, files |-> FilesOf(u)] \in [lead : SUBSET Uploads, files : SUBSET Files]
          BY DEF TypeOK, FilesOf
        <4> QED
          BY <3>1
      <3>2. ASSUME NEW f \in rows, target' = [target EXCEPT ![r] = [lead |-> {}, files |-> {f}]]
            PROVE  \E t \in [lead : SUBSET Uploads, files : SUBSET Files] : target' = [target EXCEPT ![r] = t]
        <4> [lead |-> {}, files |-> {f}] \in [lead : SUBSET Uploads, files : SUBSET Files]
          BY DEF TypeOK
        <4> QED
          BY <3>2
      <3> QED
        BY <1>2, <3>1, <3>2 DEF AskRemoval
    <2> QED
      BY <1>2, <2>1 DEF TypeOK, AskRemoval, Admin, Goto, Places, db, disk, locks, pass, sweep
  <1>3. ASSUME NEW d \in Downloads, AskDownload(d) PROVE TypeOK'
    <2>1. PICK t \in [lead : SUBSET Uploads, files : SUBSET Files] : target' = [target EXCEPT ![d] = t]
      <3>1. PICK f \in rows : target' = [target EXCEPT ![d] = [lead |-> {}, files |-> {f}]]
        BY <1>3 DEF AskDownload
      <3>2. [lead |-> {}, files |-> {f}] \in [lead : SUBSET Uploads, files : SUBSET Files]
        BY DEF TypeOK
      <3> QED
        BY <3>1, <3>2
    <2> QED
      BY <1>3, <2>1 DEF TypeOK, AskDownload, Admin, Goto, Places, db, disk, locks, pass, sweep
  <1>4. ASSUME NEW r \in Requests, Fail(r) PROVE TypeOK'
    BY <1>4, RaiseType DEF Fail
  <1>5. ASSUME NEW r \in Requests, Drop(r) PROVE TypeOK'
    BY <1>5 DEF TypeOK, Drop, db, disk, pass, sweep
  <1>6. ASSUME NEW process, Crash(process) PROVE TypeOK'
    <2>1. PICK D : EndTransaction(D)
      BY <1>6 DEF Crash
    <2>2. pc' \in [Requests -> Places]
      BY <1>6 DEF TypeOK, Crash, Places
    <2> QED
      BY <1>6, <2>1, <2>2, EndTransactionType DEF TypeOK, Crash, db, disk
  <1> QED
    BY <1>1, <1>2, <1>3, <1>4, <1>5, <1>6 DEF Environment

LEMMA NextType == ASSUME ConstantsAssumption, TypeOK, [Next]_vars PROVE TypeOK'
  <1>1. CASE UNCHANGED vars
    BY <1>1 DEF TypeOK, vars, db, disk, locks, pass, sweep
  <1>2. CASE Next
    BY <1>1, <1>2, UploadType, RemovalType, DownloadType, CleanupType, EnvironmentType DEF Next, Rest
  <1> QED
    BY <1>1, <1>2

\* Every reachable state is well typed.
THEOREM TypeCorrect == Spec => []TypeOK
  <1>1. Init => TypeOK
    BY InitType, ConstantsAssumption
  <1>2. TypeOK /\ [Next]_vars => TypeOK'
    BY NextType, ConstantsAssumption
  <1> QED
    BY <1>1, <1>2, PTL DEF Spec

-----------------------------------------------------------------------------
(* The inductive invariant                                                   *)

Sweeping == {"tidying", "sweeping", "deleting"}

\* Most steps only move control along; these are the two ways they do it.
\* A steady step ends no transaction, takes no lock and touches no data ...
Steady ==
  /\ UNCHANGED <<leads, rows, dir, bytes, shared, exclusive, lost>>
  /\ \A u \in Uploads : pc'[u] = pc[u]
  /\ \A r \in Requests :
       todo'[r] \subseteq todo[r] /\ restore'[r] \subseteq restore[r] /\ unlink'[r] \subseteq unlink[r]
  /\ \A c \in Cleanups :
       /\ pc'[c] \in Sweeping => pc[c] \in Sweeping
       /\ pc'[c] = "deleting" => pc[c] = "deleting" /\ at'[c] = at[c] /\ area'[c] = area[c]

\* ... and an ending step ends the transactions of D and moves no one else.
Ending(D) ==
  /\ EndTransaction(D)
  /\ UNCHANGED area
  /\ \A r \in Uploads \cup Cleanups :
       IF r \in D THEN pc'[r] \notin Uncommitted \cup Sweeping ELSE pc'[r] = pc[r]

LEMMA SteadyKeeps ==
  ASSUME ConstantsAssumption, StorageInv, Steady, TypeOK', TargetWhole'
  PROVE  StorageInv'
  <1>1. AcceptedBytesKept' /\ RowsOwned' /\ UnlinksDead'
    BY DEF StorageInv, Steady, AcceptedBytesKept, RowsOwned, UnlinksDead, InPlace
  <1>2. TouchesOnlyOld'
    BY DEF StorageInv, TypeOK, Steady, TouchesOnlyOld, ConstantsAssumption
  <1>3. UploadFiles'
    BY DEF StorageInv, Steady, UploadFiles
  <1>4. LockHeld'
    BY DEF StorageInv, Steady, LockHeld, Sweeping
  <1>5. SweepsOrphans'
    BY DEF StorageInv, TypeOK, Steady, SweepsOrphans
  <1> QED
    BY <1>1, <1>2, <1>3, <1>4, <1>5 DEF StorageInv

\* What an ending step does to the parts about locks and pending work; the
\* steps that also change data use this, the others EndingKeeps.
LEMMA EndingControl ==
  ASSUME ConstantsAssumption, StorageInv, NEW D, Ending(D)
  PROVE  /\ LockHeld'
         /\ leads' = leads => SweepsOrphans'
         /\ \A r \in Requests :
              todo'[r] \subseteq todo[r] /\ restore'[r] \subseteq restore[r] /\ unlink'[r] \subseteq unlink[r]
         /\ \A u \in Uploads : pc'[u] \in Uncommitted =>
              pc'[u] = pc[u] /\ (u \in lost => u \in lost')
  <1>1. LockHeld'
    BY DEF StorageInv, Ending, EndTransaction, LockHeld, Sweeping
  <1>2. leads' = leads => SweepsOrphans'
    BY DEF StorageInv, TypeOK, Ending, EndTransaction, SweepsOrphans, Sweeping
  <1>3. \A r \in Requests :
          todo'[r] \subseteq todo[r] /\ restore'[r] \subseteq restore[r] /\ unlink'[r] \subseteq unlink[r]
    BY DEF Ending, EndTransaction
  <1>4. \A u \in Uploads : pc'[u] \in Uncommitted => pc'[u] = pc[u] /\ (u \in lost => u \in lost')
    BY DEF Ending, EndTransaction
  <1> QED
    BY <1>1, <1>2, <1>3, <1>4

LEMMA EndingKeeps ==
  ASSUME ConstantsAssumption, StorageInv, NEW D, Ending(D), TypeOK',
         UNCHANGED <<leads, rows, dir, bytes, target>>
  PROVE  StorageInv'
  <1>1. AcceptedBytesKept' /\ RowsOwned' /\ TargetWhole'
    BY DEF StorageInv, AcceptedBytesKept, RowsOwned, TargetWhole, InPlace
  <1>2. UnlinksDead'
    BY EndingControl DEF StorageInv, UnlinksDead
  <1>3. TouchesOnlyOld'
    BY EndingControl DEF StorageInv, TypeOK, TouchesOnlyOld, ConstantsAssumption
  <1>4. UploadFiles'
    BY EndingControl DEF StorageInv, UploadFiles, Uncommitted
  <1> QED
    BY <1>1, <1>2, <1>3, <1>4, EndingControl DEF StorageInv

LEMMA RaiseKeeps ==
  ASSUME ConstantsAssumption, StorageInv, NEW r \in Requests, Raise(r)
  PROVE  StorageInv'
  <1>1. TypeOK'
    BY RaiseType DEF StorageInv
  <1>2. Ending({r}) /\ UNCHANGED <<leads, rows, dir, bytes, target>>
    BY DEF StorageInv, TypeOK, Raise, Ending, Goto, Uncommitted, Sweeping, Requests, Api, db, disk
  <1> QED
    BY <1>1, <1>2, EndingKeeps

LEMMA InitInv == ASSUME ConstantsAssumption, Init PROVE StorageInv
  <1>1. TypeOK
    BY InitType
  <1>2. AcceptedBytesKept /\ RowsOwned /\ TargetWhole /\ UnlinksDead
    BY DEF Init, AcceptedBytesKept, RowsOwned, TargetWhole, UnlinksDead, NoTarget
  <1>3. TouchesOnlyOld
    BY DEF Init, TouchesOnlyOld
  <1>4. \A u \in Uploads : pc[u] = "arrived"
    BY DEF Init, Requests, Api
  <1>5. \A c \in Cleanups : pc[c] = "tidyWait"
    BY DEF Init, Requests, ConstantsAssumption, Api
  <1>6. UploadFiles /\ LockHeld /\ SweepsOrphans
    BY <1>4, <1>5 DEF Init, UploadFiles, LockHeld, SweepsOrphans, Uncommitted
  <1> QED
    BY <1>1, <1>2, <1>3, <1>6 DEF StorageInv

LEMMA UploadInv ==
  ASSUME ConstantsAssumption, StorageInv, NEW u \in Uploads, UploadStep(u)
  PROVE  StorageInv'
  <1> u \in Requests
    BY DEF Requests, Api
  <1>0. TypeOK /\ TypeOK'
    BY UploadType DEF StorageInv
  <1>1. CASE LockShared(u, "arrived", "staging")
    <2>1. AcceptedBytesKept' /\ RowsOwned' /\ TargetWhole' /\ UnlinksDead'
      BY <1>1 DEF StorageInv, LockShared, AcceptedBytesKept, RowsOwned, TargetWhole, UnlinksDead, InPlace, db, disk, pass
    <2>2. TouchesOnlyOld'
      BY <1>0, <1>1 DEF StorageInv, TypeOK, LockShared, Goto, TouchesOnlyOld, Uncommitted, disk, pass
    <2>3. UploadFiles'
      BY <1>0, <1>1 DEF StorageInv, TypeOK, LockShared, Goto, UploadFiles, Uncommitted, db, disk
    <2>4. LockHeld'
      BY <1>0, <1>1 DEF StorageInv, TypeOK, LockShared, Goto, LockHeld, Uncommitted, ConstantsAssumption, Requests, Api
    <2>5. SweepsOrphans'
      BY <1>0, <1>1 DEF StorageInv, TypeOK, LockShared, Goto, SweepsOrphans, Uncommitted, db, sweep
    <2> QED
      BY <1>0, <2>1, <2>2, <2>3, <2>4, <2>5 DEF StorageInv
  <1>2. CASE Stage(u)
    <2>1. AcceptedBytesKept' /\ RowsOwned' /\ TargetWhole' /\ UnlinksDead'
      BY <1>0, <1>2 DEF StorageInv, TypeOK, Stage, AcceptedBytesKept, RowsOwned, TargetWhole, UnlinksDead, UploadFiles, Uncommitted, InPlace, FilesOf, db, pass
    <2>2. TouchesOnlyOld'
      BY <1>0, <1>2 DEF StorageInv, TypeOK, Stage, Goto, TouchesOnlyOld, Uncommitted, FilesOf, pass
    <2>3. UploadFiles'
      BY <1>0, <1>2 DEF StorageInv, TypeOK, Stage, Goto, UploadFiles, Uncommitted, FilesOf, db, locks
    <2>4. LockHeld' /\ SweepsOrphans'
      BY <1>0, <1>2 DEF StorageInv, TypeOK, Stage, Goto, LockHeld, SweepsOrphans, Uncommitted, db, locks, sweep
    <2> QED
      BY <1>0, <2>1, <2>2, <2>3, <2>4 DEF StorageInv
  <1>3. CASE StageStops(u)
    <2>1. Ending({u}) /\ UNCHANGED <<leads, rows, target>>
      BY <1>0, <1>3 DEF TypeOK, StageStops, Ending, Goto, Uncommitted, Sweeping, Requests, db
    <2>2. \A f \in Files : f \notin FilesOf(u) => bytes'[f] = bytes[f]
      BY <1>0, <1>3 DEF TypeOK, StageStops
    <2>3. dir' = [dir EXCEPT ![u] = "staging"] /\ pc[u] = "staging" /\ pc'[u] = "discarding"
      BY <1>0, <1>3 DEF TypeOK, StageStops, Goto
    <2>4. AcceptedBytesKept' /\ RowsOwned' /\ TargetWhole'
      BY <1>0, <2>1, <2>2, <2>3 DEF StorageInv, TypeOK, AcceptedBytesKept, RowsOwned, TargetWhole, UploadFiles, Uncommitted, InPlace, FilesOf
    <2>5. TouchesOnlyOld' /\ UnlinksDead'
      BY <1>0, <2>1, <2>2, <2>3, EndingControl DEF StorageInv, TypeOK, TouchesOnlyOld, UnlinksDead, Uncommitted, ConstantsAssumption, FilesOf
    <2>6. UploadFiles'
      BY <1>0, <2>1, <2>2, <2>3, EndingControl DEF StorageInv, TypeOK, UploadFiles, Uncommitted, FilesOf
    <2> QED
      BY <1>0, <2>1, <2>4, <2>5, <2>6, EndingControl DEF StorageInv
  <1>4. CASE AcquireKeyLock(u)
    <2> Steady /\ TargetWhole'
      BY <1>4 DEF StorageInv, AcquireKeyLock, Steady, TargetWhole, db, disk, pass, sweep
    <2> QED
      BY <1>0, SteadyKeeps
  <1>5. CASE Refuse(u)
    <2> Ending({u}) /\ UNCHANGED <<leads, rows, dir, bytes, target>>
      BY <1>0, <1>5 DEF TypeOK, Refuse, Ending, Goto, Uncommitted, Sweeping, Requests, db, disk
    <2> QED
      BY <1>0, EndingKeeps
  <1>6. CASE InsertLead(u)
    <2>1. AcceptedBytesKept' /\ RowsOwned' /\ TargetWhole' /\ UnlinksDead'
      BY <1>6 DEF StorageInv, InsertLead, AcceptedBytesKept, RowsOwned, TargetWhole, UnlinksDead, InPlace, db, disk, pass
    <2>2. TouchesOnlyOld'
      BY <1>0, <1>6 DEF StorageInv, TypeOK, InsertLead, LocksHeld, Goto, TouchesOnlyOld, Uncommitted, disk, pass
    <2>3. UploadFiles'
      BY <1>0, <1>6 DEF StorageInv, TypeOK, InsertLead, LocksHeld, Goto, UploadFiles, Uncommitted, db, disk, locks
    <2>4. LockHeld' /\ SweepsOrphans'
      BY <1>0, <1>6 DEF StorageInv, TypeOK, InsertLead, LocksHeld, Goto, LockHeld, SweepsOrphans, Uncommitted, db, locks, sweep
    <2> QED
      BY <1>0, <2>1, <2>2, <2>3, <2>4 DEF StorageInv
  <1>7. CASE Promote(u)
    <2>1. CASE dir[u] = "staging"
      <3>0. /\ pc[u] = "promoting" /\ pc' = [pc EXCEPT ![u] = "committing"]
            /\ dir' = [dir EXCEPT ![u] = "objects"]
            /\ UNCHANGED <<leads, rows, bytes, shared, exclusive, lost, target>>
            /\ UNCHANGED <<todo, restore, unlink, area, visit, at>>
        BY <1>7, <2>1 DEF Promote, Goto, db, locks, pass, sweep
      <3>1. AcceptedBytesKept' /\ RowsOwned' /\ TargetWhole' /\ UnlinksDead'
        BY <1>0, <3>0 DEF StorageInv, TypeOK, AcceptedBytesKept, RowsOwned, TargetWhole, UnlinksDead, UploadFiles, Uncommitted, InPlace
      <3>2. TouchesOnlyOld'
        BY <1>0, <3>0 DEF StorageInv, TypeOK, TouchesOnlyOld, Uncommitted
      <3>3. UploadFiles'
        BY <1>0, <3>0, <2>1 DEF StorageInv, TypeOK, UploadFiles, Uncommitted
      <3>4. LockHeld' /\ SweepsOrphans'
        BY <1>0, <3>0 DEF StorageInv, TypeOK, LockHeld, SweepsOrphans, Uncommitted
      <3> QED
        BY <1>0, <3>1, <3>2, <3>3, <3>4 DEF StorageInv
    <2>2. CASE dir[u] # "staging"
      BY <1>7, <2>2, RaiseKeeps DEF Promote
    <2> QED
      BY <2>1, <2>2
  <1>8. CASE CommitUpload(u)
    <2>1. Ending({u}) /\ UNCHANGED <<dir, bytes, target>>
      BY <1>0, <1>8 DEF TypeOK, CommitUpload, Ending, Goto, Uncommitted, Sweeping, Requests, disk
    <2>2. /\ pc[u] = "committing" /\ u \notin lost /\ pc'[u] = "discarding"
          /\ leads' = leads \cup {u} /\ rows' = rows \cup FilesOf(u)
      BY <1>0, <1>8 DEF TypeOK, CommitUpload, Goto
    <2>3. \A f \in FilesOf(u) : InPlace(f)
      BY <2>2 DEF StorageInv, UploadFiles, InPlace, FilesOf
    <2>4. AcceptedBytesKept' /\ RowsOwned' /\ TargetWhole'
      BY <2>1, <2>2, <2>3 DEF StorageInv, AcceptedBytesKept, RowsOwned, TargetWhole, InPlace, FilesOf
    <2>5. TouchesOnlyOld'
      BY <1>0, <2>1, EndingControl DEF StorageInv, TypeOK, TouchesOnlyOld, ConstantsAssumption
    <2>6. UnlinksDead'
      BY <1>0, <2>1, <2>2, EndingControl DEF StorageInv, TypeOK, TouchesOnlyOld, UnlinksDead, FilesOf, Uncommitted
    <2>7. UploadFiles'
      BY <1>0, <2>1, <2>2, EndingControl DEF StorageInv, UploadFiles, Uncommitted
    <2>8. SweepsOrphans'
      BY <1>0, <2>1, <2>2 DEF StorageInv, TypeOK, Ending, EndTransaction, SweepsOrphans, Sweeping, Uncommitted
    <2> QED
      BY <1>0, <2>1, <2>4, <2>5, <2>6, <2>7, <2>8, EndingControl DEF StorageInv
  <1>9. CASE Discard(u)
    <2>1. /\ UNCHANGED <<leads, rows, target, shared, exclusive, lost, todo, restore, unlink, area, visit, at>>
          /\ pc[u] = "discarding" /\ pc' = [pc EXCEPT ![u] = "done"]
      BY <1>9 DEF Discard, Goto, db, locks, pass, sweep
    <2>2. \/ UNCHANGED <<dir, bytes>>
          \/ dir[u] = "staging" /\ RemoveTree(u)
      BY <1>9 DEF Discard, disk
    <2>3. AcceptedBytesKept'
      BY <1>0, <2>1, <2>2 DEF StorageInv, TypeOK, AcceptedBytesKept, InPlace, RemoveTree, FilesOf
    <2>4. RowsOwned' /\ TargetWhole' /\ UnlinksDead'
      BY <2>1 DEF StorageInv, RowsOwned, TargetWhole, UnlinksDead
    <2>5. TouchesOnlyOld'
      BY <1>0, <2>1, <2>2 DEF StorageInv, TypeOK, TouchesOnlyOld, RemoveTree, Uncommitted
    <2>6. UploadFiles'
      BY <1>0, <2>1, <2>2 DEF StorageInv, TypeOK, UploadFiles, RemoveTree, FilesOf, Uncommitted
    <2>7. LockHeld' /\ SweepsOrphans'
      BY <1>0, <2>1 DEF StorageInv, TypeOK, LockHeld, SweepsOrphans, Uncommitted
    <2> QED
      BY <1>0, <2>3, <2>4, <2>5, <2>6, <2>7 DEF StorageInv
  <1> QED
    BY <1>1, <1>2, <1>3, <1>4, <1>5, <1>6, <1>7, <1>8, <1>9 DEF UploadStep

LEMMA LockExclusiveInv ==
  ASSUME ConstantsAssumption, StorageInv, NEW r \in Requests \ Uploads, NEW waiting,
         NEW granted \in Recovering, LockExclusive(r, waiting, granted)
  PROVE  StorageInv'
  <1>0. /\ UNCHANGED <<leads, rows, dir, bytes, shared, lost, target, restore, unlink, area, visit, at>>
        /\ exclusive = {} /\ shared = {} /\ exclusive' = {r}
        /\ todo' = [todo EXCEPT ![r] = TrashKeys] /\ pc' = [pc EXCEPT ![r] = granted]
    BY DEF LockExclusive, Goto, db, disk, sweep
  <1>1. TypeOK /\ TypeOK'
    BY LockExclusiveType DEF StorageInv, Places
  <1>2. AcceptedBytesKept' /\ RowsOwned' /\ TargetWhole' /\ UnlinksDead'
    BY <1>0 DEF StorageInv, AcceptedBytesKept, RowsOwned, TargetWhole, UnlinksDead, InPlace
  <1>3. \A u \in Uploads : pc'[u] = pc[u]
    BY <1>0, <1>1 DEF TypeOK
  <1>4. TouchesOnlyOld'
    BY <1>0, <1>1, <1>3 DEF StorageInv, TypeOK, TouchesOnlyOld, TrashKeys, ConstantsAssumption
  <1>5. UploadFiles'
    BY <1>0, <1>3 DEF StorageInv, UploadFiles
  <1>6. LockHeld'
    BY <1>0, <1>1, <1>3 DEF StorageInv, TypeOK, LockHeld, Uncommitted
  <1>7. SweepsOrphans'
    BY <1>0, <1>1, <1>3 DEF StorageInv, TypeOK, SweepsOrphans, Recovering
  <1> QED
    BY <1>1, <1>2, <1>4, <1>5, <1>6, <1>7 DEF StorageInv

LEMMA RecoverInv ==
  ASSUME ConstantsAssumption, StorageInv, NEW r \in Requests, RecoverStep(r)
  PROVE  StorageInv'
  <1>0. TypeOK /\ TypeOK'
    BY RecoverType DEF StorageInv
  <1>1. CASE RecoverObject(r)
    <2>0. /\ UNCHANGED <<leads, rows, shared, exclusive, lost, pc, target, todo, area, visit, at>>
          /\ restore' = [restore EXCEPT ![r] = {}] /\ unlink' = [unlink EXCEPT ![r] = {}]
      BY <1>1 DEF RecoverObject, db, locks, sweep
    <2>1. RowsOwned' /\ TargetWhole' /\ LockHeld' /\ SweepsOrphans'
      BY <2>0 DEF StorageInv, RowsOwned, TargetWhole, LockHeld, SweepsOrphans
    <2>2. UnlinksDead'
      BY <1>0, <2>0 DEF StorageInv, TypeOK, UnlinksDead
    \* a file is moved back, unlinked, or found gone
    <2>3. PICK f \in Files :
            \/ /\ f \in restore[r] /\ bytes[f] = "trash"
               /\ dir' = [dir EXCEPT ![OwnerOf[f]] = "objects"]
               /\ bytes' = [bytes EXCEPT ![f] = "dir"]
            \/ /\ f \in unlink[r] /\ bytes[f] = "trash"
               /\ dir' = dir /\ bytes' = [bytes EXCEPT ![f] = "absent"]
            \/ dir' = dir /\ bytes' = bytes
      <3>1. CASE \E f \in restore[r] :
                   IF bytes[f] = "trash"
                     THEN /\ dir' = [dir EXCEPT ![OwnerOf[f]] = "objects"]
                          /\ bytes' = [bytes EXCEPT ![f] = "dir"]
                          /\ aged' = aged \ {OwnerOf[f]}
                     ELSE UNCHANGED disk
        BY <1>0, <3>1 DEF TypeOK, disk
      <3>2. CASE \E f \in unlink[r] :
                   /\ bytes' = [bytes EXCEPT ![f] = IF @ = "trash" THEN "absent" ELSE @]
                   /\ UNCHANGED <<dir, aged>>
        BY <1>0, <3>2 DEF TypeOK
      <3> QED
        BY <1>1, <3>1, <3>2 DEF RecoverObject
    <2>4. AcceptedBytesKept'
      BY <1>0, <2>0, <2>3 DEF StorageInv, TypeOK, AcceptedBytesKept, UnlinksDead, InPlace, ConstantsAssumption
    <2>5. TouchesOnlyOld'
      BY <1>0, <2>0, <2>3 DEF StorageInv, TypeOK, TouchesOnlyOld
    <2>6. UploadFiles'
      <3>1. CASE dir' = dir /\ bytes' = bytes
        BY <2>0, <3>1 DEF StorageInv, UploadFiles
      <3>2. CASE f \in restore[r] \cup unlink[r]
        <4>1. pc[OwnerOf[f]] \notin Uncommitted
          BY <3>2 DEF StorageInv, TouchesOnlyOld
        <4>2. \A u \in Uploads : pc[u] \in Uncommitted =>
                dir'[u] = dir[u] /\ \A g \in FilesOf(u) : bytes'[g] = bytes[g]
          BY <1>0, <2>3, <4>1 DEF TypeOK, FilesOf
        <4> QED
          BY <2>0, <4>2 DEF StorageInv, UploadFiles, Uncommitted
      <3> QED
        BY <2>3, <3>1, <3>2
    <2> QED
      BY <1>0, <2>1, <2>2, <2>4, <2>5, <2>6 DEF StorageInv
  <1>2. ASSUME NEW f \in Files, RecoverLook(r, f) PROVE StorageInv'
    <2>0. /\ UNCHANGED <<leads, rows, dir, bytes, shared, exclusive, lost, pc, target, area, visit, at>>
          /\ f \in todo[r] /\ todo' = [todo EXCEPT ![r] = @ \ {f}]
          /\ \/ restore' = [restore EXCEPT ![r] = {f}] /\ unlink' = unlink
             \/ f \notin rows /\ unlink' = [unlink EXCEPT ![r] = {f}] /\ restore' = restore
      BY <1>2 DEF RecoverLook, db, disk, locks, sweep
    <2>1. AcceptedBytesKept' /\ RowsOwned' /\ TargetWhole' /\ UploadFiles' /\ LockHeld' /\ SweepsOrphans'
      BY <2>0 DEF StorageInv, AcceptedBytesKept, RowsOwned, TargetWhole, UploadFiles, LockHeld, SweepsOrphans, InPlace
    <2>2. UnlinksDead'
      BY <1>0, <2>0 DEF StorageInv, TypeOK, UnlinksDead
    <2>3. TouchesOnlyOld'
      BY <1>0, <2>0 DEF StorageInv, TypeOK, TouchesOnlyOld
    <2> QED
      BY <1>0, <2>1, <2>2, <2>3 DEF StorageInv
  <1> QED
    BY <1>1, <1>2 DEF RecoverStep

LEMMA RemovalInv ==
  ASSUME ConstantsAssumption, StorageInv, NEW r \in Removals, RemovalStep(r)
  PROVE  StorageInv'
  <1> /\ r \in Requests \ Uploads /\ r \in Admin
      /\ \A x \in Uploads \cup Cleanups : x # r
    BY DEF Requests, Api, Admin, ConstantsAssumption
  <1>0. TypeOK /\ TypeOK'
    BY RemovalType DEF StorageInv
  <1>1. CASE LockExclusive(r, "prepareWait", "preparing") \/ LockExclusive(r, "purgeWait", "purging")
             \/ LockExclusive(r, "repairWait", "repairing")
    BY <1>1, LockExclusiveInv DEF Recovering
  <1>2. CASE RecoverStep(r)
    BY <1>2, RecoverInv
  <1>3. CASE Prepared(r)
    <2> Steady /\ TargetWhole'
      BY <1>0, <1>3 DEF StorageInv, TypeOK, Prepared, Goto, Steady, TargetWhole, db, disk, locks, pass, sweep
    <2> QED
      BY <1>0, SteadyKeeps
  <1>4. CASE SelectFiles(r)
    <2>0. /\ UNCHANGED <<leads, rows, dir, bytes, shared, exclusive, lost, target, restore, unlink, area, visit, at>>
          /\ todo' = [todo EXCEPT ![r] = rows \cap target[r].files]
          /\ \A x \in Uploads \cup Cleanups : pc'[x] = pc[x]
      BY <1>0, <1>4 DEF TypeOK, SelectFiles, Goto, Requests, Api, db, disk, locks, sweep
    <2>1. AcceptedBytesKept' /\ RowsOwned' /\ TargetWhole' /\ UnlinksDead'
      BY <2>0 DEF StorageInv, AcceptedBytesKept, RowsOwned, TargetWhole, UnlinksDead, InPlace
    <2>2. TouchesOnlyOld'
      BY <1>0, <2>0 DEF StorageInv, TypeOK, TouchesOnlyOld, RowsOwned, UploadFiles, ConstantsAssumption
    <2>3. UploadFiles' /\ LockHeld' /\ SweepsOrphans'
      BY <1>0, <2>0 DEF StorageInv, TypeOK, UploadFiles, LockHeld, SweepsOrphans
    <2> QED
      BY <1>0, <2>1, <2>2, <2>3 DEF StorageInv
  <1>5. ASSUME NEW f \in Files, Quarantine(r, f) PROVE StorageInv'
    <2>1. CASE InPlace(f)
      <3>0. /\ UNCHANGED <<leads, rows, dir, shared, exclusive, lost, pc, target, restore, unlink, area, visit, at>>
            /\ bytes' = [bytes EXCEPT ![f] = "trash"] /\ f \in todo[r]
            /\ todo' = [todo EXCEPT ![r] = @ \ {f}]
        BY <1>5, <2>1 DEF Quarantine, db, locks, sweep
      <3>1. AcceptedBytesKept' /\ RowsOwned' /\ TargetWhole' /\ UnlinksDead' /\ LockHeld' /\ SweepsOrphans'
        BY <1>0, <3>0 DEF StorageInv, TypeOK, AcceptedBytesKept, RowsOwned, TargetWhole, UnlinksDead, LockHeld, SweepsOrphans, InPlace
      <3>2. TouchesOnlyOld'
        BY <1>0, <3>0 DEF StorageInv, TypeOK, TouchesOnlyOld
      <3>3. UploadFiles'
        BY <1>0, <3>0 DEF StorageInv, TypeOK, TouchesOnlyOld, UploadFiles, Uncommitted, FilesOf
      <3> QED
        BY <1>0, <3>1, <3>2, <3>3 DEF StorageInv
    <2>2. CASE ~InPlace(f)
      BY <1>5, <2>2, RaiseKeeps DEF Quarantine
    <2> QED
      BY <2>1, <2>2
  <1>6. CASE CommitRemoval(r)
    <2>0. /\ UNCHANGED <<dir, bytes, target, area>>
          /\ leads' = leads \ target[r].lead /\ rows' = rows \ target[r].files
          /\ Ending({r})
      BY <1>0, <1>6 DEF TypeOK, CommitRemoval, Ending, Goto, Requests, Api, disk
    <2>1. AcceptedBytesKept' /\ RowsOwned' /\ TargetWhole'
      BY <1>0, <2>0 DEF StorageInv, TypeOK, AcceptedBytesKept, RowsOwned, TargetWhole, InPlace, FilesOf
    <2>2. UnlinksDead'
      BY <2>0, EndingControl DEF StorageInv, UnlinksDead
    <2>3. TouchesOnlyOld'
      BY <1>0, <2>0, EndingControl DEF StorageInv, TypeOK, TouchesOnlyOld, ConstantsAssumption
    <2>4. UploadFiles'
      BY <2>0, EndingControl DEF StorageInv, UploadFiles, Uncommitted
    <2>5. SweepsOrphans'
      BY <1>0, <2>0 DEF StorageInv, TypeOK, Ending, EndTransaction, SweepsOrphans, Sweeping
    <2> QED
      BY <1>0, <2>0, <2>1, <2>2, <2>3, <2>4, <2>5, EndingControl DEF StorageInv
  <1>7. CASE Purged(r)
    <2> Ending({r}) /\ UNCHANGED <<leads, rows, dir, bytes, target>>
      BY <1>0, <1>7 DEF TypeOK, Purged, Ending, Goto, Requests, Api, db, disk
    <2> QED
      BY <1>0, EndingKeeps
  <1> QED
    BY <1>1, <1>2, <1>3, <1>4, <1>5, <1>6, <1>7 DEF RemovalStep

LEMMA DownloadInv ==
  ASSUME ConstantsAssumption, StorageInv, NEW d \in Downloads, DownloadStep(d)
  PROVE  StorageInv'
  <1> /\ d \in Requests \ Uploads /\ d \in Admin
      /\ \A x \in Uploads \cup Cleanups : x # d
    BY DEF Requests, Api, Admin, ConstantsAssumption
  <1>0. TypeOK /\ TypeOK'
    BY DownloadType DEF StorageInv
  <1>1. CASE LockExclusive(d, "restoreWait", "restoring")
    BY <1>1, LockExclusiveInv DEF Recovering
  <1>2. CASE RecoverStep(d)
    BY <1>2, RecoverInv
  <1>3. CASE Restored(d)
    <2> Ending({d}) /\ UNCHANGED <<leads, rows, dir, bytes, target>>
      BY <1>0, <1>3 DEF TypeOK, Restored, Ending, Goto, Requests, Api, db, disk
    <2> QED
      BY <1>0, EndingKeeps
  <1>4. CASE LockShared(d, "openWait", "opening")
    <2>0. /\ UNCHANGED <<leads, rows, dir, bytes, exclusive, lost, target, todo, restore, unlink, area, visit, at>>
          /\ exclusive = {} /\ shared' = shared \cup {d}
          /\ \A x \in Uploads \cup Cleanups : pc'[x] = pc[x]
      BY <1>0, <1>4 DEF TypeOK, LockShared, Goto, Requests, Api, db, disk, pass, sweep
    <2>1. AcceptedBytesKept' /\ RowsOwned' /\ TargetWhole' /\ UnlinksDead'
      BY <2>0 DEF StorageInv, AcceptedBytesKept, RowsOwned, TargetWhole, UnlinksDead, InPlace
    <2>2. TouchesOnlyOld'
      BY <2>0 DEF StorageInv, TouchesOnlyOld, ConstantsAssumption
    <2>3. UploadFiles' /\ LockHeld'
      BY <2>0 DEF StorageInv, UploadFiles, LockHeld
    <2>4. SweepsOrphans'
      BY <1>0, <2>0 DEF StorageInv, TypeOK, SweepsOrphans
    <2> QED
      BY <1>0, <2>1, <2>2, <2>3, <2>4 DEF StorageInv
  <1>5. CASE OpenFile(d)
    <2>1. CASE Raise(d)
      BY <2>1, RaiseKeeps
    <2>2. CASE ~Raise(d) /\ EndTransaction({d})
      <3> Ending({d}) /\ UNCHANGED <<leads, rows, dir, bytes, target>>
        BY <1>0, <1>5, <2>2 DEF TypeOK, OpenFile, Ending, Goto, Requests, Api, db, disk, locks, pass, sweep
      <3> QED
        BY <1>0, EndingKeeps
    <2>3. CASE ~Raise(d) /\ ~EndTransaction({d})
      <3>1. UNCHANGED <<db, disk, locks, target, pass, area, sweep>> /\ pc' = [pc EXCEPT ![d] = "streaming"]
        BY <1>5, <2>3 DEF OpenFile, Goto
      <3> Steady /\ TargetWhole'
        BY <1>0, <3>1 DEF StorageInv, TypeOK, Steady, TargetWhole, db, disk, locks, pass, sweep
      <3> QED
        BY <1>0, SteadyKeeps
    <2> QED
      BY <2>1, <2>2, <2>3
  <1>6. CASE CloseStream(d)
    <2> Ending({d}) /\ UNCHANGED <<leads, rows, dir, bytes, target>>
      BY <1>0, <1>6 DEF TypeOK, CloseStream, Ending, Goto, Requests, Api, db, disk
    <2> QED
      BY <1>0, EndingKeeps
  <1> QED
    BY <1>1, <1>2, <1>3, <1>4, <1>5, <1>6 DEF DownloadStep

LEMMA CleanupInv ==
  ASSUME ConstantsAssumption, StorageInv, NEW c \in Cleanups, CleanupStep(c)
  PROVE  StorageInv'
  <1> /\ c \in Requests \ Uploads
      /\ \A u \in Uploads : u # c
    BY DEF Requests, Api, ConstantsAssumption
  <1>0. TypeOK /\ TypeOK'
    BY CleanupType DEF StorageInv
  <1>1. CASE LockExclusive(c, "tidyWait", "tidying")
    BY <1>1, LockExclusiveInv DEF Recovering
  <1>2. CASE RecoverStep(c)
    BY <1>2, RecoverInv
  <1>3. CASE Tidied(c)
    <2> Steady /\ TargetWhole'
      BY <1>0, <1>3 DEF StorageInv, TypeOK, Tidied, Recovered, Goto, Steady, Sweeping, TargetWhole, db, disk, locks, pass
    <2> QED
      BY <1>0, SteadyKeeps
  <1>4. ASSUME NEW u \in Uploads, SweepLook(c, u) PROVE StorageInv'
    <2> Steady /\ TargetWhole'
      BY <1>0, <1>4 DEF StorageInv, TypeOK, SweepLook, Steady, TargetWhole, db, disk, locks, pass
    <2> QED
      BY <1>0, SteadyKeeps
  <1>5. CASE SweepCheck(c)
    <2>1. CASE Raise(c)
      BY <2>1, RaiseKeeps
    <2>2. CASE ~Raise(c) /\ UNCHANGED pc
      <3> Steady /\ TargetWhole'
        BY <1>0, <1>5, <2>2 DEF StorageInv, TypeOK, SweepCheck, Goto, Steady, Sweeping, TargetWhole, db, disk, locks, pass
      <3> QED
        BY <1>0, SteadyKeeps
    \* judged for deletion: under the exclusive lock, so no upload that can
    \* still commit has its directory in objects/
    <2>3. CASE ~Raise(c) /\ ~UNCHANGED pc
      <3>0. PICK u \in at[c] :
              /\ dir[u] = area[c]
              /\ area[c] = "objects" => c \notin lost /\ u \notin leads
              /\ pc[c] = "sweeping" /\ pc' = [pc EXCEPT ![c] = "deleting"]
              /\ at' = [at EXCEPT ![c] = {u}]
              /\ UNCHANGED <<leads, rows, dir, bytes, shared, exclusive, lost, target, todo, restore, unlink, area>>
        BY <1>5, <2>3 DEF SweepCheck, Goto, db, disk, locks, pass
      <3>1. AcceptedBytesKept' /\ RowsOwned' /\ TargetWhole' /\ UnlinksDead'
        BY <3>0 DEF StorageInv, AcceptedBytesKept, RowsOwned, TargetWhole, UnlinksDead, InPlace
      <3>2. \A v \in Uploads : pc'[v] = pc[v]
        BY <1>0, <3>0 DEF TypeOK
      <3>3. TouchesOnlyOld' /\ UploadFiles'
        BY <3>0, <3>2 DEF StorageInv, TouchesOnlyOld, UploadFiles, ConstantsAssumption
      <3>4. LockHeld'
        BY <1>0, <3>0, <3>2 DEF StorageInv, TypeOK, LockHeld
      <3>5. u \in Uploads /\ (area[c] = "objects" /\ pc[u] \in Uncommitted => u \in lost)
        <4>1. u \in Uploads
          BY <1>0, <3>0 DEF TypeOK
        <4>2. ASSUME area[c] = "objects", pc[u] \in Uncommitted, u \notin lost PROVE FALSE
          <5>1. pc[u] = "committing"
            BY <3>0, <4>1, <4>2 DEF StorageInv, UploadFiles
          <5>2. u \in shared /\ c \in exclusive
            BY <3>0, <4>1, <4>2, <5>1 DEF StorageInv, LockHeld, Uncommitted
          <5> QED
            BY <5>2 DEF StorageInv, LockHeld
        <4> QED
          BY <4>1, <4>2
      <3>6. SweepsOrphans'
        BY <1>0, <3>0, <3>2, <3>5 DEF StorageInv, TypeOK, SweepsOrphans
      <3> QED
        BY <1>0, <3>1, <3>3, <3>4, <3>6 DEF StorageInv
    <2> QED
      BY <2>1, <2>2, <2>3
  <1>6. CASE SweepDelete(c)
    <2>1. CASE Raise(c)
      BY <2>1, RaiseKeeps
    <2>2. CASE ~Raise(c)
      <3>0. PICK u \in at[c] :
              /\ dir[u] = area[c] /\ RemoveTree(u)
              /\ pc[c] = "deleting" /\ pc' = [pc EXCEPT ![c] = "sweeping"]
              /\ at' = [at EXCEPT ![c] = {}]
              /\ UNCHANGED <<leads, rows, shared, exclusive, lost, target, todo, restore, unlink, area>>
        BY <1>6, <2>2 DEF SweepDelete, Goto, db, locks, pass
      <3>1. u \in Uploads /\ area[c] \in {"staging", "objects"}
        BY <1>0, <3>0 DEF TypeOK
      <3>2. /\ dir' = [dir EXCEPT ![u] = "absent"]
            /\ \A f \in Files : bytes'[f] = IF OwnerOf[f] = u /\ bytes[f] = "dir" THEN "absent" ELSE bytes[f]
        BY <3>0 DEF RemoveTree, FilesOf
      <3>3. dir[u] = "objects" => u \notin leads /\ (pc[u] \in Uncommitted => u \in lost)
        BY <3>0 DEF StorageInv, SweepsOrphans
      <3>4. AcceptedBytesKept'
        BY <1>0, <3>0, <3>1, <3>2, <3>3 DEF StorageInv, TypeOK, AcceptedBytesKept, RowsOwned, InPlace, ConstantsAssumption
      <3>5. RowsOwned' /\ TargetWhole' /\ UnlinksDead'
        BY <3>0 DEF StorageInv, RowsOwned, TargetWhole, UnlinksDead
      <3>6. \A v \in Uploads : pc'[v] = pc[v]
        BY <1>0, <3>0 DEF TypeOK
      <3>7. TouchesOnlyOld'
        BY <1>0, <3>0, <3>2, <3>6 DEF StorageInv, TypeOK, TouchesOnlyOld, ConstantsAssumption
      <3>8. UploadFiles'
        BY <1>0, <3>0, <3>1, <3>2, <3>3, <3>6 DEF StorageInv, TypeOK, UploadFiles, FilesOf, Uncommitted
      <3>9. LockHeld' /\ SweepsOrphans'
        BY <1>0, <3>0, <3>6 DEF StorageInv, TypeOK, LockHeld, SweepsOrphans
      <3> QED
        BY <1>0, <3>4, <3>5, <3>7, <3>8, <3>9 DEF StorageInv
    <2> QED
      BY <2>1, <2>2
  <1>7. CASE SweepNext(c)
    <2>1. CASE area[c] = "staging"
      <3> Steady /\ TargetWhole'
        BY <1>0, <1>7, <2>1 DEF StorageInv, TypeOK, SweepNext, Steady, TargetWhole, db, disk, locks, pass
      <3> QED
        BY <1>0, SteadyKeeps
    <2>2. CASE area[c] # "staging"
      <3>1. /\ EndTransaction({c}) /\ pc' = [pc EXCEPT ![c] = "done"]
            /\ UNCHANGED <<leads, rows, dir, bytes, target, area>>
        BY <1>7, <2>2 DEF SweepNext, Goto, db, disk
      <3>2. Ending({c})
        BY <1>0, <3>1 DEF TypeOK, Ending, Uncommitted, Sweeping, Requests, Api
      <3> QED
        BY <1>0, <3>1, <3>2, EndingKeeps
    <2> QED
      BY <2>1, <2>2
  <1> QED
    BY <1>1, <1>2, <1>3, <1>4, <1>5, <1>6, <1>7 DEF CleanupStep

LEMMA EnvironmentInv ==
  ASSUME ConstantsAssumption, StorageInv, Environment
  PROVE  StorageInv'
  <1>0. TypeOK /\ TypeOK'
    BY EnvironmentType DEF StorageInv
  <1>1. ASSUME NEW u \in Uploads, Age(u) PROVE StorageInv'
    <2> Steady /\ TargetWhole'
      BY <1>1 DEF StorageInv, Age, Steady, TargetWhole, db, locks, pass, sweep
    <2> QED
      BY <1>0, SteadyKeeps
  <1>2. ASSUME NEW r \in Removals, AskRemoval(r) PROVE StorageInv'
    <2>1. Steady
      BY <1>0, <1>2 DEF TypeOK, AskRemoval, Goto, Steady, Sweeping, Requests, Api, Admin, ConstantsAssumption, db, disk, locks, pass, sweep
    <2>2. TargetWhole'
      <3>1. PICK t : /\ target' = [target EXCEPT ![r] = t]
                     /\ \A u \in t.lead : FilesOf(u) \subseteq t.files
        <4>1. CASE \E u \in leads : target' = [target EXCEPT ![r] = [lead |-> {u}, files |-> FilesOf(u)]]
          <5>1. PICK u \in leads : target' = [target EXCEPT ![r] = [lead |-> {u}, files |-> FilesOf(u)]]
            BY <4>1
          <5>2. \A v \in [lead |-> {u}, files |-> FilesOf(u)].lead :
                  FilesOf(v) \subseteq [lead |-> {u}, files |-> FilesOf(u)].files
            OBVIOUS
          <5> QED
            BY <5>1, <5>2
        <4>2. CASE \E f \in rows : target' = [target EXCEPT ![r] = [lead |-> {}, files |-> {f}]]
          <5>1. PICK f \in rows : target' = [target EXCEPT ![r] = [lead |-> {}, files |-> {f}]]
            BY <4>2
          <5>2. \A v \in [lead |-> {}, files |-> {f}].lead :
                  FilesOf(v) \subseteq [lead |-> {}, files |-> {f}].files
            OBVIOUS
          <5> QED
            BY <5>1, <5>2
        <4> QED
          BY <1>2, <4>1, <4>2 DEF AskRemoval
      <3> QED
        BY <1>0, <3>1 DEF StorageInv, TypeOK, TargetWhole, Admin
    <2> QED
      BY <1>0, <2>1, <2>2, SteadyKeeps
  <1>3. ASSUME NEW d \in Downloads, AskDownload(d) PROVE StorageInv'
    <2>1. Steady
      BY <1>0, <1>3 DEF TypeOK, AskDownload, Goto, Steady, Sweeping, Requests, Api, Admin, ConstantsAssumption, db, disk, locks, pass, sweep
    <2>2. TargetWhole'
      BY <1>0, <1>3 DEF StorageInv, TypeOK, AskDownload, TargetWhole, Admin
    <2> QED
      BY <1>0, <2>1, <2>2, SteadyKeeps
  <1>4. ASSUME NEW r \in Requests, Fail(r) PROVE StorageInv'
    BY <1>4, RaiseKeeps DEF Fail
  <1>5. ASSUME NEW r \in Requests, Drop(r) PROVE StorageInv'
    <2>0. /\ UNCHANGED <<leads, rows, dir, bytes, pc, target, todo, restore, unlink, area, visit, at>>
          /\ shared' = shared \ {r} /\ exclusive' = exclusive \ {r} /\ lost' = lost \cup {r}
      BY <1>5 DEF Drop, db, disk, pass, sweep
    <2>1. AcceptedBytesKept' /\ RowsOwned' /\ TargetWhole' /\ UnlinksDead' /\ TouchesOnlyOld'
      BY <2>0 DEF StorageInv, AcceptedBytesKept, RowsOwned, TargetWhole, UnlinksDead, TouchesOnlyOld, InPlace
    <2>2. UploadFiles' /\ LockHeld' /\ SweepsOrphans'
      BY <2>0 DEF StorageInv, UploadFiles, LockHeld, SweepsOrphans
    <2> QED
      BY <1>0, <2>1, <2>2 DEF StorageInv
  <1>6. ASSUME NEW process \in SUBSET Requests, Crash(process) PROVE StorageInv'
    <2>1. PICK D : /\ EndTransaction(D)
                   /\ pc' = [r \in Requests |-> IF r \in D THEN "dead" ELSE pc[r]]
      BY <1>6 DEF Crash
    <2> Ending(D) /\ UNCHANGED <<leads, rows, dir, bytes, target>>
      BY <1>6, <2>1 DEF Crash, Ending, Uncommitted, Sweeping, Requests, Api, db, disk
    <2> QED
      BY <1>0, EndingKeeps
  <1> QED
    BY <1>1, <1>2, <1>3, <1>4, <1>5, <1>6 DEF Environment, Requests

LEMMA NextInv == ASSUME ConstantsAssumption, StorageInv, [Next]_vars PROVE StorageInv'
  <1>1. CASE UNCHANGED vars
    <2>1. TypeOK' /\ AcceptedBytesKept' /\ RowsOwned' /\ TargetWhole'
      BY <1>1, NextType DEF StorageInv, AcceptedBytesKept, RowsOwned, TargetWhole, InPlace, vars, db, disk
    <2>2. TouchesOnlyOld' /\ UnlinksDead' /\ UploadFiles' /\ LockHeld' /\ SweepsOrphans'
      BY <1>1 DEF StorageInv, TouchesOnlyOld, UnlinksDead, UploadFiles, LockHeld, SweepsOrphans, vars, db, disk, locks, pass, sweep
    <2> QED
      BY <2>1, <2>2 DEF StorageInv
  <1>2. CASE Next
    BY <1>1, <1>2, UploadInv, RemovalInv, DownloadInv, CleanupInv, EnvironmentInv DEF Next, Rest
  <1> QED
    BY <1>1, <1>2

\* The invariant is inductive.
THEOREM StorageInvariant == Spec => []StorageInv
  <1>1. Init => StorageInv
    BY InitInv, ConstantsAssumption
  <1>2. StorageInv /\ [Next]_vars => StorageInv'
    BY NextInv, ConstantsAssumption
  <1> QED
    BY <1>1, <1>2, PTL DEF Spec

\* No accepted attachment is ever lost, whatever faults strike and in whatever
\* numbers requests come: not even when PostgreSQL ends sessions, and so takes
\* the storage lock from handlers that go on working on the disk.
THEOREM AcceptedBytesAreKept == Spec => []AcceptedBytesKept
  <1>1. StorageInv => AcceptedBytesKept
    BY DEF StorageInv
  <1> QED
    BY <1>1, StorageInvariant, PTL

-----------------------------------------------------------------------------
(* While no session is lost                                                  *)
(*                                                                           *)
(* A request whose session the server has ended goes on without the lock it  *)
(* believes to hold, and then less is true.  As long as that does not happen *)
(* a request's place in its handler says which lock it holds, and what the   *)
(* lock protects; crashes, raising calls and ambiguous commits may strike.   *)

NothingDrops == "drop" \notin Faults

SharedPlaces == {"staging", "locking", "promoting", "committing", "opening", "streaming"}
ExclusivePlaces == Recovering \cup {"selecting", "quarantining", "sweeping", "deleting"}

\* Where each kind of request can be ...
PlaceOf(r) ==
  /\ r \in Uploads => pc[r] \in Uncommitted \cup {"discarding", "done", "dead"}
  /\ r \in Removals => pc[r] \in {"new", "prepareWait", "preparing", "selecting", "quarantining",
                                  "purgeWait", "purging", "repairWait", "repairing", "done", "dead"}
  /\ r \in Downloads => pc[r] \in {"new", "restoreWait", "restoring", "openWait", "opening",
                                   "streaming", "done", "dead"}
  /\ r \in Cleanups => pc[r] \in {"tidyWait", "tidying", "sweeping", "deleting", "done", "dead"}

\* ... the lock it holds there ...
LockClaim(r) ==
  /\ pc[r] \in SharedPlaces => r \in shared
  /\ pc[r] \in ExclusivePlaces => r \in exclusive

\* ... what a pass over trash/ has still to look at, and what it leaves ...
PassClaim(r) ==
  /\ restore[r] \cup unlink[r] # {} => pc[r] \in Recovering
  /\ \A f, g \in restore[r] \cup unlink[r] : f = g
  /\ restore[r] \subseteq rows
  /\ pc[r] \in Recovering => TrashKeys \subseteq todo[r] \cup restore[r] \cup unlink[r]
  /\ pc[r] \in {"selecting", "sweeping", "deleting"} => TrashKeys = {}

\* ... where an upload's directory is ...
UploadClaim(u) ==
  /\ pc[u] \in {"arrived", "staging"} => dir[u] = "absent"
  /\ pc[u] \in {"locking", "promoting"} => dir[u] = "staging"
  /\ pc[u] = "committing" => dir[u] = "objects"

\* ... what a removal has put in trash/ and what it has deleted for good ...
RemovalClaim(r) ==
  /\ pc[r] = "quarantining" => /\ todo[r] \subseteq rows \cap target[r].files
                               /\ TrashKeys = (rows \cap target[r].files) \ todo[r]
  /\ pc[r] \in {"purgeWait", "purging"} \/ reply[r] = "deleted" =>
       target[r].lead \cap leads = {} /\ target[r].files \cap rows = {}
  /\ reply[r] = "deleted" => pc[r] = "done" /\ \A f \in target[r].files : bytes[f] = "absent"

\* ... what a download streams ...
DownloadClaim(d) ==
  /\ \A f, g \in target[d].files : f = g
  /\ pc[d] = "streaming" => \A f \in target[d].files : f \in rows /\ InPlace(f)

\* ... and that an administrator only ever asks for what was committed.
TargetClaim(r) ==
  /\ \A u \in target[r].lead : pc[u] \notin Uncommitted
  /\ \A f \in target[r].files : pc[OwnerOf[f]] \notin Uncommitted

Claims(r) ==
  /\ PlaceOf(r) /\ LockClaim(r) /\ PassClaim(r)
  /\ r \in Uploads => UploadClaim(r)
  /\ r \in Removals => RemovalClaim(r)
  /\ r \in Downloads => DownloadClaim(r)
  /\ r \in Admin => TargetClaim(r)

\* An attachment of a lead, or one that was asked for, that has no row left is
\* not in its directory any more.
Known(f) == OwnerOf[f] \in leads \/ \E r \in Admin : f \in target[r].files
GoneIsGone == \A f \in Files : f \notin rows /\ Known(f) => bytes[f] # "dir"

OneHolder == (exclusive # {} => shared = {}) /\ \A r, q \in exclusive : r = q

SessionInv ==
  /\ StorageInv
  /\ lost = {} /\ OneHolder /\ GoneIsGone
  /\ \A r \in Requests : Claims(r)

-----------------------------------------------------------------------------
(* What a step of one request leaves to the others                           *)

\* A step of r moves no one else ...
Alone(r) ==
  /\ lost' = {}
  /\ \A q \in Requests \ {r} :
       /\ pc'[q] = pc[q] /\ reply'[q] = reply[q]
       /\ todo'[q] = todo[q] /\ restore'[q] = restore[q] /\ unlink'[q] = unlink[q]
       /\ q \in shared => q \in shared'
       /\ q \in exclusive => q \in exclusive'
       /\ q \in Admin => target'[q] = target[q]
  /\ pc'[r] \in Uncommitted => pc[r] \in Uncommitted

\* ... and does to the data nothing that another request relies on: what was
\* deleted stays deleted, and without the exclusive lock nothing leaves the rows
\* or its place, and nothing at all changes for who holds that lock.
Harmless(r) ==
  /\ \A u \in Uploads \ leads : pc[u] \notin Uncommitted => u \notin leads'
  /\ \A f \in Files \ rows : pc[OwnerOf[f]] \notin Uncommitted =>
       f \notin rows' /\ (bytes[f] = "absent" => bytes'[f] = "absent")
  /\ r \notin exclusive =>
       /\ exclusive # {} => TrashKeys' = TrashKeys /\ rows' = rows
       /\ \A f \in rows : InPlace(f) => f \in rows' /\ InPlace(f)'
  /\ \A u \in Uploads \ {r} : pc[u] \in Uncommitted => dir'[u] = dir[u]
  /\ GoneIsGone'

\* A step that touches neither rows nor files disturbs nobody.
LEMMA StillHarmless ==
  ASSUME SessionInv, NEW r, UNCHANGED <<leads, rows, dir, bytes, target>>
  PROVE  Harmless(r)
  <1>1. GoneIsGone'
    BY DEF SessionInv, GoneIsGone, Known
  <1> QED
    BY <1>1 DEF Harmless, TrashKeys, InPlace

\* Giving a lock up leaves the others as exclusive as they were.
LEMMA FewerHolders ==
  ASSUME SessionInv, shared' \subseteq shared, exclusive' \subseteq exclusive
  PROVE  OneHolder'
  BY DEF SessionInv, OneHolder

\* What the others claim stays true.
LEMMA OthersKeep ==
  ASSUME ConstantsAssumption, SessionInv, NEW r \in Requests, Alone(r), Harmless(r),
         NEW q \in Requests, q # r
  PROVE  Claims(q)'
  <1>1. Claims(q) /\ TypeOK /\ lost = {} /\ OneHolder
    BY DEF SessionInv, StorageInv
  <1>2. /\ pc'[q] = pc[q] /\ reply'[q] = reply[q]
        /\ todo'[q] = todo[q] /\ restore'[q] = restore[q] /\ unlink'[q] = unlink[q]
        /\ q \in shared => q \in shared'
        /\ q \in exclusive => q \in exclusive'
        /\ q \in Admin => target'[q] = target[q]
    BY DEF Alone
  <1>3. q \in exclusive => TrashKeys' = TrashKeys /\ rows' = rows
    BY <1>1 DEF Harmless, OneHolder
  <1>4. PlaceOf(q)' /\ LockClaim(q)'
    BY <1>1, <1>2 DEF Claims, PlaceOf, LockClaim
  <1>5. PassClaim(q)'
    <2>1. CASE q \in exclusive
      BY <1>1, <1>2, <1>3, <2>1 DEF Claims, PassClaim
    <2>2. CASE q \notin exclusive
      BY <1>1, <1>2, <2>2 DEF Claims, PassClaim, LockClaim, ExclusivePlaces
    <2> QED
      BY <2>1, <2>2
  <1>6. ASSUME q \in Uploads PROVE UploadClaim(q)'
    BY <1>1, <1>2, <1>6 DEF Claims, UploadClaim, Harmless, Uncommitted
  <1>7. \A u \in Uploads : pc[u] \notin Uncommitted => pc'[u] \notin Uncommitted
    BY DEF Alone, Requests, Api
  <1>8. ASSUME q \in Admin PROVE TargetClaim(q)'
    <2>1. target[q].lead \subseteq Uploads /\ target[q].files \subseteq Files
      BY <1>1, <1>8 DEF TypeOK
    <2> QED
      BY <1>1, <1>2, <1>7, <1>8, <2>1 DEF Claims, TargetClaim, ConstantsAssumption
  <1>9. ASSUME q \in Removals PROVE RemovalClaim(q)'
    <2>0. q \in Admin
      BY <1>9 DEF Admin
    <2>1. target[q].lead \subseteq Uploads /\ target[q].files \subseteq Files /\ target'[q] = target[q]
      BY <1>1, <1>2, <2>0 DEF TypeOK
    <2>2. TargetClaim(q) /\ RemovalClaim(q) /\ LockClaim(q)
      BY <1>1, <1>9, <2>0 DEF Claims
    <2>3. target[q].lead \cap leads = {} => target[q].lead \cap leads' = {}
      BY <2>1, <2>2 DEF Harmless, TargetClaim
    <2>4. target[q].files \cap rows = {} => target[q].files \cap rows' = {}
      BY <2>1, <2>2 DEF Harmless, TargetClaim
    <2>5. ASSUME target[q].files \cap rows = {}, \A f \in target[q].files : bytes[f] = "absent"
          PROVE  \A f \in target[q].files : bytes'[f] = "absent"
      BY <2>1, <2>2, <2>5 DEF Harmless, TargetClaim
    <2>6. pc[q] = "quarantining" => TrashKeys' = TrashKeys /\ rows' = rows
      BY <1>3, <2>2 DEF LockClaim, ExclusivePlaces
    <2> QED
      BY <1>2, <2>1, <2>2, <2>3, <2>4, <2>5, <2>6 DEF RemovalClaim
  <1>10. ASSUME q \in Downloads PROVE DownloadClaim(q)'
    <2>1. q \in Admin /\ target'[q] = target[q]
      BY <1>2, <1>10 DEF Admin
    <2>2. DownloadClaim(q) /\ LockClaim(q)
      BY <1>1, <1>10 DEF Claims
    <2>3. pc[q] = "streaming" => exclusive = {}
      BY <1>1, <2>2 DEF LockClaim, SharedPlaces, OneHolder
    <2> QED
      BY <1>2, <2>1, <2>2, <2>3 DEF DownloadClaim, Harmless
  <1> QED
    BY <1>4, <1>5, <1>6, <1>8, <1>9, <1>10 DEF Claims

\* One actor moves: its own claims are shown, those of the others stay.
LEMMA SessionKeeps ==
  ASSUME ConstantsAssumption, SessionInv, StorageInv', NEW r \in Requests,
         Alone(r), Harmless(r), OneHolder', Claims(r)'
  PROVE  SessionInv'
  <1>1. lost' = {} /\ GoneIsGone'
    BY DEF Alone, Harmless
  <1>2. ASSUME NEW q \in Requests PROVE Claims(q)'
    BY OthersKeep
  <1> QED
    BY <1>1, <1>2 DEF SessionInv

-----------------------------------------------------------------------------
(* Steps that move one request and touch no data                             *)

\* A transaction ends: the locks are released and the locals are gone.
LEMMA EndAlone ==
  ASSUME ConstantsAssumption, SessionInv, NEW r \in Requests, EndTransaction({r}),
         NEW p \in Places \ Uncommitted, pc' = [pc EXCEPT ![r] = p],
         \/ reply' = reply
         \/ \E a \in Answers : reply' = [reply EXCEPT ![r] = a],
         target' = target
  PROVE  /\ Alone(r) /\ OneHolder'
         /\ pc'[r] = p
         /\ todo'[r] = {} /\ restore'[r] = {} /\ unlink'[r] = {}
  <1>1. TypeOK /\ lost = {}
    BY DEF SessionInv, StorageInv
  <1>2. /\ lost' = {} /\ shared' = shared \ {r} /\ exclusive' = exclusive \ {r}
        /\ \A q \in Requests \ {r} : todo'[q] = todo[q] /\ restore'[q] = restore[q] /\ unlink'[q] = unlink[q]
        /\ todo'[r] = {} /\ restore'[r] = {} /\ unlink'[r] = {}
    BY <1>1 DEF EndTransaction
  <1>3. pc'[r] = p /\ \A q \in Requests \ {r} : pc'[q] = pc[q] /\ reply'[q] = reply[q]
    BY <1>1 DEF TypeOK
  <1>4. OneHolder'
    BY <1>2, FewerHolders
  <1> QED
    BY <1>2, <1>3, <1>4 DEF Alone

Pausing == {"discarding", "purgeWait", "repairWait", "openWait", "done", "dead"}

\* The end of a transaction that moved no file and no row.
LEMMA EndingSession ==
  ASSUME ConstantsAssumption, SessionInv, StorageInv', NEW r \in Requests, EndTransaction({r}),
         NEW p \in Pausing, pc' = [pc EXCEPT ![r] = p],
         \/ reply' = reply
         \/ \E a \in Answers : reply' = [reply EXCEPT ![r] = a],
         UNCHANGED <<leads, rows, dir, bytes, target>>,
         PlaceOf(r)', r \in Removals => RemovalClaim(r)'
  PROVE  SessionInv'
  <1>0. p \in Places \ Uncommitted
    BY DEF Pausing, Places, Uncommitted
  <1>1. /\ Alone(r) /\ OneHolder'
        /\ pc'[r] = p
        /\ todo'[r] = {} /\ restore'[r] = {} /\ unlink'[r] = {}
    BY <1>0, EndAlone
  <1>2. Harmless(r)
    BY StillHarmless
  <1>3. LockClaim(r)' /\ PassClaim(r)'
    BY <1>1 DEF LockClaim, PassClaim, Pausing, SharedPlaces, ExclusivePlaces, Recovering
  <1>4. r \in Uploads => UploadClaim(r)'
    BY <1>1 DEF UploadClaim, Pausing
  <1>5. r \in Downloads => DownloadClaim(r)'
    BY <1>1 DEF SessionInv, Claims, DownloadClaim, Pausing
  <1>6. r \in Admin => TargetClaim(r)'
    <2>1. \A u \in Uploads : pc'[u] \in Uncommitted => pc[u] \in Uncommitted
      BY <1>0, <1>1 DEF Alone, Requests, Api
    <2>2. ASSUME r \in Admin PROVE TargetClaim(r) /\ target[r].lead \subseteq Uploads /\ target[r].files \subseteq Files
      BY <2>2 DEF SessionInv, Claims, StorageInv, TypeOK
    <2> QED
      BY <2>1, <2>2 DEF TargetClaim, ConstantsAssumption
  <1>7. Claims(r)'
    BY <1>3, <1>4, <1>5, <1>6 DEF Claims
  <1> QED
    BY <1>1, <1>2, <1>7, SessionKeeps

\* A handler raises.
LEMMA RaiseSession ==
  ASSUME ConstantsAssumption, SessionInv, StorageInv', NEW r \in Requests, pc[r] \notin Over, Raise(r)
  PROVE  SessionInv'
  <1>1. /\ EndTransaction({r}) /\ UNCHANGED <<leads, rows, dir, bytes, target>>
    BY DEF Raise, db, disk
  <1>2. TypeOK /\ Claims(r)
    BY DEF SessionInv, StorageInv
  <1>3. CASE r \in Uploads
    <2>1. pc' = [pc EXCEPT ![r] = "discarding"] /\ reply' = [reply EXCEPT ![r] = "error"]
      BY <1>3 DEF Raise, Goto, Answer
    <2>2. PlaceOf(r)' /\ r \notin Removals
      BY <1>2, <1>3, <2>1 DEF PlaceOf, TypeOK, ConstantsAssumption, Admin, Api
    <2> QED
      BY <1>1, <2>1, <2>2, EndingSession DEF Pausing, Answers
  <1>4. CASE r \notin Uploads /\ pc[r] \in FirstTransaction
    <2>1. pc' = [pc EXCEPT ![r] = "repairWait"] /\ reply' = reply
      BY <1>4 DEF Raise, Goto
    <2>2. r \in Removals
      BY <1>2, <1>4 DEF Claims, PlaceOf, FirstTransaction, Requests, Api, Admin
    <2>3. PlaceOf(r)'
      BY <1>2, <1>4, <2>1, <2>2 DEF PlaceOf, TypeOK, ConstantsAssumption, Admin, Api
    <2>4. RemovalClaim(r)'
      BY <1>1, <1>2, <1>4, <2>1, <2>2 DEF Claims, RemovalClaim, TypeOK, FirstTransaction
    <2> QED
      BY <1>1, <2>1, <2>3, <2>4, EndingSession DEF Pausing
  <1>5. CASE r \notin Uploads /\ pc[r] \notin FirstTransaction
    <2>1. pc' = [pc EXCEPT ![r] = "done"] /\ reply' = [reply EXCEPT ![r] = "error"]
      BY <1>5 DEF Raise, Goto, Answer
    <2>2. PlaceOf(r)'
      BY <1>2, <1>5, <2>1 DEF PlaceOf, TypeOK
    <2>3. r \in Removals => RemovalClaim(r)'
      BY <1>1, <1>2, <2>1 DEF RemovalClaim, TypeOK
    <2> QED
      BY <1>1, <2>1, <2>2, <2>3, EndingSession DEF Pausing, Answers
  <1> QED
    BY <1>3, <1>4, <1>5

\* The storage lock is granted, shared ...
LEMMA LockSharedSession ==
  ASSUME ConstantsAssumption, SessionInv, StorageInv', NEW r \in Requests,
         \/ r \in Uploads /\ LockShared(r, "arrived", "staging")
         \/ r \in Downloads /\ LockShared(r, "openWait", "opening")
  PROVE  SessionInv'
  <1>1. TypeOK /\ Claims(r) /\ lost = {}
    BY DEF SessionInv, StorageInv
  <1>2. /\ exclusive = {} /\ exclusive' = {} /\ shared' = shared \cup {r}
        /\ UNCHANGED <<leads, rows, dir, bytes, target, reply, todo, restore, unlink>> /\ lost' = {}
    BY <1>1 DEF LockShared, db, disk, pass
  <1>3. \/ r \in Uploads /\ pc[r] = "arrived" /\ pc' = [pc EXCEPT ![r] = "staging"]
        \/ r \in Downloads /\ pc[r] = "openWait" /\ pc' = [pc EXCEPT ![r] = "opening"]
    BY DEF LockShared, Goto
  <1>4. /\ \A q \in Requests \ {r} : pc'[q] = pc[q]
        /\ \/ pc'[r] = "staging" /\ pc[r] = "arrived" /\ r \in Uploads
           \/ pc'[r] = "opening" /\ pc[r] = "openWait" /\ r \in Downloads
    BY <1>1, <1>3 DEF TypeOK
  <1>5. Alone(r) /\ OneHolder' /\ Harmless(r)
    BY <1>2, <1>4, StillHarmless DEF Alone, OneHolder, Uncommitted
  <1>6. PlaceOf(r)' /\ LockClaim(r)' /\ PassClaim(r)'
    BY <1>1, <1>2, <1>4 DEF Claims, PlaceOf, LockClaim, PassClaim, Uncommitted, ConstantsAssumption,
       SharedPlaces, ExclusivePlaces, Recovering, TrashKeys, Admin, Api
  <1>7. r \in Uploads => UploadClaim(r)'
    BY <1>1, <1>2, <1>4 DEF Claims, UploadClaim, ConstantsAssumption, Admin, Api
  <1>8. r \in Removals => RemovalClaim(r)'
    BY <1>1, <1>2, <1>4 DEF Claims, RemovalClaim, ConstantsAssumption, Admin, Api
  <1>9. r \in Downloads => DownloadClaim(r)'
    BY <1>1, <1>2, <1>4 DEF Claims, DownloadClaim, ConstantsAssumption, Admin, Api
  <1>10. r \in Admin => TargetClaim(r)'
    <2>1. \A u \in Uploads : pc'[u] \in Uncommitted => pc[u] \in Uncommitted
      BY <1>4 DEF Uncommitted, Requests, Api
    <2>2. ASSUME r \in Admin PROVE TargetClaim(r) /\ target[r].lead \subseteq Uploads /\ target[r].files \subseteq Files
      BY <1>1, <2>2 DEF Claims, TypeOK
    <2> QED
      BY <1>2, <2>1, <2>2 DEF TargetClaim, ConstantsAssumption
  <1>11. Claims(r)'
    BY <1>6, <1>7, <1>8, <1>9, <1>10 DEF Claims
  <1> QED
    BY <1>5, <1>11, SessionKeeps

\* ... or exclusive, with all of trash/ to look at.
LEMMA LockExclusiveSession ==
  ASSUME ConstantsAssumption, SessionInv, StorageInv', NEW r \in Requests,
         \/ r \in Removals /\ LockExclusive(r, "prepareWait", "preparing")
         \/ r \in Removals /\ LockExclusive(r, "purgeWait", "purging")
         \/ r \in Removals /\ LockExclusive(r, "repairWait", "repairing")
         \/ r \in Downloads /\ LockExclusive(r, "restoreWait", "restoring")
         \/ r \in Cleanups /\ LockExclusive(r, "tidyWait", "tidying")
  PROVE  SessionInv'
  <1>1. TypeOK /\ Claims(r) /\ lost = {}
    BY DEF SessionInv, StorageInv
  <1>2. /\ exclusive = {} /\ shared = {} /\ exclusive' = {r} /\ shared' = {}
        /\ todo' = [todo EXCEPT ![r] = TrashKeys]
        /\ UNCHANGED <<leads, rows, dir, bytes, target, reply, restore, unlink>> /\ lost' = {}
    BY <1>1 DEF LockExclusive, db, disk
  <1>3. \/ r \in Removals /\ pc[r] = "prepareWait" /\ pc' = [pc EXCEPT ![r] = "preparing"]
        \/ r \in Removals /\ pc[r] = "purgeWait" /\ pc' = [pc EXCEPT ![r] = "purging"]
        \/ r \in Removals /\ pc[r] = "repairWait" /\ pc' = [pc EXCEPT ![r] = "repairing"]
        \/ r \in Downloads /\ pc[r] = "restoreWait" /\ pc' = [pc EXCEPT ![r] = "restoring"]
        \/ r \in Cleanups /\ pc[r] = "tidyWait" /\ pc' = [pc EXCEPT ![r] = "tidying"]
    BY DEF LockExclusive, Goto
  <1>4. /\ \A q \in Requests \ {r} : pc'[q] = pc[q] /\ todo'[q] = todo[q]
        /\ todo'[r] = TrashKeys
        /\ \/ r \in Removals /\ pc[r] = "prepareWait" /\ pc'[r] = "preparing"
           \/ r \in Removals /\ pc[r] = "purgeWait" /\ pc'[r] = "purging"
           \/ r \in Removals /\ pc[r] = "repairWait" /\ pc'[r] = "repairing"
           \/ r \in Downloads /\ pc[r] = "restoreWait" /\ pc'[r] = "restoring"
           \/ r \in Cleanups /\ pc[r] = "tidyWait" /\ pc'[r] = "tidying"
    BY <1>1, <1>2, <1>3 DEF TypeOK
  <1>5. Alone(r) /\ OneHolder' /\ Harmless(r)
    BY <1>2, <1>4, StillHarmless DEF Alone, OneHolder, Uncommitted
  <1>6. PlaceOf(r)' /\ LockClaim(r)' /\ r \notin Uploads
    BY <1>1, <1>2, <1>4 DEF Claims, PlaceOf, LockClaim, ConstantsAssumption,
       SharedPlaces, ExclusivePlaces, Recovering, Admin, Api
  <1>7. PassClaim(r)'
    BY <1>1, <1>2, <1>4 DEF Claims, PassClaim, Recovering, TrashKeys
  <1>8. r \in Removals => RemovalClaim(r)'
    BY <1>1, <1>2, <1>4 DEF Claims, RemovalClaim, ConstantsAssumption, Admin, Api
  <1>9. r \in Downloads => DownloadClaim(r)'
    BY <1>1, <1>2, <1>4 DEF Claims, DownloadClaim, ConstantsAssumption, Admin, Api
  <1>10. r \in Admin => TargetClaim(r)'
    <2>1. \A u \in Uploads : pc'[u] = pc[u]
      BY <1>4, <1>6 DEF Requests, Api
    <2>2. ASSUME r \in Admin PROVE TargetClaim(r) /\ target[r].lead \subseteq Uploads /\ target[r].files \subseteq Files
      BY <1>1, <2>2 DEF Claims, TypeOK
    <2> QED
      BY <1>2, <2>1, <2>2 DEF TargetClaim, ConstantsAssumption
  <1>11. Claims(r)'
    BY <1>6, <1>7, <1>8, <1>9, <1>10 DEF Claims
  <1> QED
    BY <1>5, <1>11, SessionKeeps

\* A handler goes on inside its transaction.
LEMMA MoveAlone ==
  ASSUME ConstantsAssumption, SessionInv, NEW r \in Requests,
         NEW p \in Places, pc' = [pc EXCEPT ![r] = p], p \in Uncommitted => pc[r] \in Uncommitted,
         UNCHANGED <<shared, exclusive, lost, reply, target>>,
         \A q \in Requests \ {r} : todo'[q] = todo[q] /\ restore'[q] = restore[q] /\ unlink'[q] = unlink[q]
  PROVE  /\ Alone(r) /\ OneHolder' /\ pc'[r] = p
         /\ \A u \in Uploads : pc'[u] \in Uncommitted => pc[u] \in Uncommitted
  <1>1. TypeOK /\ lost = {} /\ OneHolder
    BY DEF SessionInv, StorageInv
  <1>2. pc'[r] = p /\ \A q \in Requests \ {r} : pc'[q] = pc[q]
    BY <1>1 DEF TypeOK
  <1>3. Alone(r) /\ OneHolder'
    BY <1>1, <1>2 DEF Alone, OneHolder
  <1> QED
    BY <1>2, <1>3 DEF Requests, Api

\* An administrator's target stays what it was.
LEMMA TargetKept ==
  ASSUME ConstantsAssumption, SessionInv, NEW r \in Admin, target'[r] = target[r],
         \A u \in Uploads : pc'[u] \in Uncommitted => pc[u] \in Uncommitted
  PROVE  TargetClaim(r)'
  <1>1. TargetClaim(r) /\ target[r].lead \subseteq Uploads /\ target[r].files \subseteq Files
    BY DEF SessionInv, Claims, StorageInv, TypeOK, Requests, Api
  <1> QED
    BY <1>1 DEF TargetClaim, ConstantsAssumption

-----------------------------------------------------------------------------
(* Steps of an upload                                                        *)

\* Outside its own directory an upload disturbs nothing; as long as it has not
\* committed, no one has asked for what is in there.
LEMMA UploadHarmless ==
  ASSUME ConstantsAssumption, SessionInv, NEW u \in Uploads, pc[u] \in Uncommitted \ {"arrived"},
         UNCHANGED <<leads, rows, target>>,
         \A v \in Uploads \ {u} : dir'[v] = dir[v],
         \A f \in Files : OwnerOf[f] # u => bytes'[f] = bytes[f]
  PROVE  Harmless(u)
  <1>1. TypeOK /\ RowsOwned /\ UploadFiles /\ OneHolder /\ GoneIsGone
    BY DEF SessionInv, StorageInv
  <1>2. u \in shared /\ exclusive = {}
    BY <1>1 DEF SessionInv, Claims, LockClaim, SharedPlaces, Uncommitted, OneHolder, Requests, Api
  <1>3. u \notin leads
    BY <1>1 DEF UploadFiles
  <1>4. ASSUME NEW f \in Files, OwnerOf[f] = u PROVE f \notin rows /\ ~Known(f)
    <2>1. f \notin rows
      BY <1>1, <1>3, <1>4 DEF RowsOwned
    <2>2. ASSUME NEW r \in Admin, f \in target[r].files PROVE FALSE
      BY <1>4, <2>2 DEF SessionInv, Claims, TargetClaim, Requests, Api
    <2> QED
      BY <1>3, <1>4, <2>1, <2>2 DEF Known
  <1>5. GoneIsGone'
    <2>1. \A f \in Files : Known(f)' = Known(f)
      BY DEF Known
    <2> QED
      BY <1>1, <1>4, <2>1 DEF GoneIsGone
  <1>6. \A f \in rows : InPlace(f) => InPlace(f)'
    BY <1>1, <1>4 DEF InPlace, TypeOK, ConstantsAssumption
  <1> QED
    BY <1>2, <1>5, <1>6 DEF Harmless

LEMMA UploadSession ==
  ASSUME ConstantsAssumption, NothingDrops, SessionInv, StorageInv', NEW u \in Uploads, UploadStep(u)
  PROVE  SessionInv'
  <1>0. /\ u \in Requests /\ u \notin Admin /\ u \notin Removals /\ u \notin Downloads /\ u \notin Cleanups
        /\ TypeOK /\ lost = {} /\ Claims(u) /\ PlaceOf(u) /\ PassClaim(u) /\ UploadClaim(u) /\ LockClaim(u)
        /\ UploadFiles /\ OneHolder
    BY DEF Requests, Api, Admin, ConstantsAssumption, SessionInv, StorageInv, Claims
  <1>1. CASE LockShared(u, "arrived", "staging")
    BY <1>0, <1>1, LockSharedSession
  <1>2. CASE Stage(u)
    <2>1. /\ pc[u] = "staging" /\ pc' = [pc EXCEPT ![u] = "locking"]
          /\ dir' = [dir EXCEPT ![u] = "staging"]
          /\ UNCHANGED <<leads, rows, shared, exclusive, lost, reply, target, todo, restore, unlink>>
          /\ \A f \in Files : OwnerOf[f] # u => bytes'[f] = bytes[f]
      BY <1>2 DEF Stage, Goto, FilesOf, db, locks, pass
    <2>2. Alone(u) /\ OneHolder' /\ pc'[u] = "locking"
      BY <1>0, <2>1, MoveAlone DEF Places, Uncommitted
    <2>3. Harmless(u)
      BY <1>0, <2>1, UploadHarmless DEF TypeOK, Uncommitted
    <2>4. Claims(u)'
      BY <1>0, <2>1, <2>2 DEF Claims, PlaceOf, LockClaim, PassClaim, UploadClaim, TypeOK,
         Uncommitted, SharedPlaces, ExclusivePlaces, Recovering
    <2> QED
      BY <1>0, <2>2, <2>3, <2>4, SessionKeeps
  <1>3. CASE StageStops(u)
    <2>1. /\ pc[u] = "staging" /\ pc' = [pc EXCEPT ![u] = "discarding"]
          /\ dir' = [dir EXCEPT ![u] = "staging"] /\ EndTransaction({u})
          /\ UNCHANGED <<leads, rows, target>>
          /\ \E a \in Answers : reply' = [reply EXCEPT ![u] = a]
      BY <1>3 DEF StageStops, FileRefused, Goto, Answer, Answers, db
    <2>2. \A f \in Files : OwnerOf[f] # u => bytes'[f] = bytes[f]
      BY <1>3 DEF StageStops, FilesOf
    <2>3. /\ Alone(u) /\ OneHolder' /\ pc'[u] = "discarding"
          /\ todo'[u] = {} /\ restore'[u] = {} /\ unlink'[u] = {}
      BY <1>0, <2>1, EndAlone DEF Places, Uncommitted
    <2>4. Harmless(u)
      BY <1>0, <2>1, <2>2, UploadHarmless DEF TypeOK, Uncommitted
    <2>5. Claims(u)'
      BY <1>0, <2>3 DEF Claims, PlaceOf, LockClaim, PassClaim, UploadClaim,
         Uncommitted, SharedPlaces, ExclusivePlaces, Recovering
    <2> QED
      BY <1>0, <2>3, <2>4, <2>5, SessionKeeps
  <1>4. CASE AcquireKeyLock(u)
    <2>1. UNCHANGED <<leads, rows, dir, bytes, shared, exclusive, lost, pc, reply, target, todo, restore, unlink>>
      BY <1>4 DEF AcquireKeyLock, db, disk, pass
    <2>2. Alone(u) /\ OneHolder' /\ Harmless(u)
      BY <1>0, <2>1, StillHarmless DEF Alone, OneHolder
    <2>3. Claims(u)'
      BY <1>0, <2>1 DEF Claims, PlaceOf, LockClaim, PassClaim, UploadClaim, TrashKeys
    <2> QED
      BY <1>0, <2>2, <2>3, SessionKeeps
  <1>5. CASE Refuse(u)
    <2>1. /\ EndTransaction({u}) /\ pc' = [pc EXCEPT ![u] = "discarding"]
          /\ UNCHANGED <<leads, rows, dir, bytes, target>>
          /\ \E a \in Answers : reply' = [reply EXCEPT ![u] = a]
      BY <1>5 DEF Refuse, Goto, Answer, Answers, db, disk
    <2>2. PlaceOf(u)'
      BY <1>0, <2>1 DEF PlaceOf, TypeOK
    <2> QED
      BY <1>0, <2>1, <2>2, EndingSession DEF Pausing
  <1>6. CASE InsertLead(u)
    <2>1. /\ pc[u] = "locking" /\ pc' = [pc EXCEPT ![u] = "promoting"]
          /\ UNCHANGED <<leads, rows, dir, bytes, shared, exclusive, lost, reply, target, todo, restore, unlink>>
      BY <1>6 DEF InsertLead, LocksHeld, Goto, db, disk, locks, pass
    <2>2. Alone(u) /\ OneHolder' /\ Harmless(u) /\ pc'[u] = "promoting"
      BY <1>0, <2>1, MoveAlone, StillHarmless DEF Places, Uncommitted
    <2>3. Claims(u)'
      BY <1>0, <2>1, <2>2 DEF Claims, PlaceOf, LockClaim, PassClaim, UploadClaim,
         Uncommitted, SharedPlaces, ExclusivePlaces, Recovering
    <2> QED
      BY <1>0, <2>2, <2>3, SessionKeeps
  <1>7. CASE Promote(u)
    <2>1. /\ pc[u] = "promoting" /\ dir[u] = "staging" /\ pc' = [pc EXCEPT ![u] = "committing"]
          /\ dir' = [dir EXCEPT ![u] = "objects"]
          /\ UNCHANGED <<leads, rows, bytes, shared, exclusive, lost, reply, target, todo, restore, unlink>>
      BY <1>0, <1>7 DEF Promote, UploadClaim, Goto, db, locks, pass
    <2>2. Alone(u) /\ OneHolder' /\ pc'[u] = "committing"
      BY <1>0, <2>1, MoveAlone DEF Places, Uncommitted
    <2>3. Harmless(u)
      BY <1>0, <2>1, UploadHarmless DEF TypeOK, Uncommitted
    <2>4. Claims(u)'
      BY <1>0, <2>1, <2>2 DEF Claims, PlaceOf, LockClaim, PassClaim, UploadClaim, TypeOK,
         Uncommitted, SharedPlaces, ExclusivePlaces, Recovering
    <2> QED
      BY <1>0, <2>2, <2>3, <2>4, SessionKeeps
  <1>8. CASE CommitUpload(u)
    <2>1. /\ pc[u] = "committing" /\ pc' = [pc EXCEPT ![u] = "discarding"]
          /\ leads' = leads \cup {u} /\ rows' = rows \cup FilesOf(u)
          /\ EndTransaction({u}) /\ UNCHANGED <<dir, bytes, aged, target>>
          /\ \E a \in Answers : reply' = [reply EXCEPT ![u] = a]
      BY <1>8 DEF CommitUpload, Goto, Answer, Answers, disk
    <2>2. /\ Alone(u) /\ OneHolder' /\ pc'[u] = "discarding"
          /\ todo'[u] = {} /\ restore'[u] = {} /\ unlink'[u] = {}
      BY <1>0, <2>1, EndAlone DEF Places, Uncommitted
    <2>3. exclusive = {}
      BY <1>0, <2>1 DEF LockClaim, SharedPlaces, OneHolder
    <2>4. GoneIsGone'
      <3>1. ASSUME NEW f \in Files, f \notin rows', Known(f)' PROVE bytes'[f] # "dir"
        <4>1. OwnerOf[f] # u /\ f \notin rows
          BY <2>1, <3>1 DEF FilesOf
        <4>2. Known(f)
          BY <2>1, <3>1, <4>1 DEF Known
        <4> QED
          BY <2>1, <3>1, <4>1, <4>2 DEF SessionInv, GoneIsGone
      <3> QED
        BY <3>1 DEF GoneIsGone
    <2>5. Harmless(u)
      BY <2>1, <2>3, <2>4 DEF Harmless, InPlace, FilesOf, Uncommitted
    <2>6. Claims(u)'
      BY <1>0, <2>2 DEF Claims, PlaceOf, LockClaim, PassClaim, UploadClaim,
         Uncommitted, SharedPlaces, ExclusivePlaces, Recovering
    <2> QED
      BY <1>0, <2>2, <2>5, <2>6, SessionKeeps
  <1>9. CASE Discard(u)
    <2>1. /\ pc[u] = "discarding" /\ pc' = [pc EXCEPT ![u] = "done"]
          /\ UNCHANGED <<leads, rows, shared, exclusive, lost, reply, target, todo, restore, unlink>>
      BY <1>9 DEF Discard, Goto, db, locks, pass
    <2>2. /\ \A v \in Uploads \ {u} : dir'[v] = dir[v]
          /\ dir[u] # "staging" => dir' = dir /\ bytes' = bytes
          /\ \A f \in Files : bytes'[f] = bytes[f] \/ (OwnerOf[f] = u /\ bytes[f] = "dir" /\ bytes'[f] = "absent")
      BY <1>0, <1>9 DEF Discard, RemoveTree, FilesOf, disk, TypeOK
    <2>3. Alone(u) /\ OneHolder' /\ pc'[u] = "done"
      BY <1>0, <2>1, MoveAlone DEF Places, Uncommitted
    <2>4. GoneIsGone'
      <3>1. \A f \in Files : Known(f)' = Known(f)
        BY <2>1 DEF Known
      <3> QED
        BY <2>1, <2>2, <3>1 DEF SessionInv, GoneIsGone
    <2>5. TrashKeys' = TrashKeys
      BY <2>2 DEF TrashKeys
    <2>6. \A f \in rows : InPlace(f) => InPlace(f)'
      BY <1>0, <2>2 DEF InPlace, TypeOK, ConstantsAssumption
    <2>7. Harmless(u)
      BY <2>1, <2>2, <2>4, <2>5, <2>6 DEF Harmless
    <2>8. Claims(u)'
      BY <1>0, <2>1, <2>3 DEF Claims, PlaceOf, LockClaim, PassClaim, UploadClaim,
         Uncommitted, SharedPlaces, ExclusivePlaces, Recovering
    <2> QED
      BY <1>0, <2>3, <2>7, <2>8, SessionKeeps
  <1> QED
    BY <1>1, <1>2, <1>3, <1>4, <1>5, <1>6, <1>7, <1>8, <1>9 DEF UploadStep

-----------------------------------------------------------------------------
(* The pass over trash/                                                      *)

LEMMA RecoverSession ==
  ASSUME ConstantsAssumption, SessionInv, StorageInv', NEW r \in Requests, r \notin Uploads, RecoverStep(r)
  PROVE  SessionInv'
  <1>0. /\ TypeOK /\ lost = {} /\ Claims(r) /\ PlaceOf(r) /\ PassClaim(r) /\ LockClaim(r)
        /\ RowsOwned /\ UploadFiles /\ OneHolder /\ GoneIsGone
    BY DEF SessionInv, StorageInv, Claims
  <1>1. /\ pc[r] \in Recovering /\ UNCHANGED <<leads, rows, shared, exclusive, lost, pc, reply, target>>
        /\ \A q \in Requests \ {r} : todo'[q] = todo[q] /\ restore'[q] = restore[q] /\ unlink'[q] = unlink[q]
    BY <1>0 DEF RecoverStep, RecoverObject, RecoverLook, db, locks, TypeOK
  <1>2. r \in exclusive
    BY <1>0, <1>1 DEF LockClaim, ExclusivePlaces
  <1>3. Alone(r) /\ OneHolder'
    BY <1>0, <1>1 DEF Alone, OneHolder
  <1>4. PlaceOf(r)' /\ LockClaim(r)'
    BY <1>0, <1>1 DEF PlaceOf, LockClaim
  <1>5. r \in Removals => RemovalClaim(r)'
    BY <1>0, <1>1 DEF Claims, RemovalClaim, Recovering
  <1>6. r \in Downloads => DownloadClaim(r)'
    BY <1>0, <1>1 DEF Claims, DownloadClaim, Recovering
  <1>7. r \in Admin => TargetClaim(r)'
    BY <1>1, TargetKept
  <1>8. CASE RecoverObject(r)
    <2>1. restore'[r] = {} /\ unlink'[r] = {} /\ todo'[r] = todo[r]
      BY <1>0, <1>8 DEF RecoverObject, TypeOK
    <2>2. PICK f \in restore[r] \cup unlink[r] :
            /\ \A g \in Files \ {f} : bytes'[g] = bytes[g]
            /\ bytes'[f] # "trash"
            /\ f \notin rows => bytes'[f] # "dir" \/ bytes'[f] = bytes[f]
            /\ bytes[f] = "absent" => bytes'[f] = "absent"
            /\ dir' = dir \/ (f \in restore[r] /\ dir' = [dir EXCEPT ![OwnerOf[f]] = "objects"])
      <3>1. CASE \E f \in restore[r] :
                    IF bytes[f] = "trash"
                      THEN /\ dir' = [dir EXCEPT ![OwnerOf[f]] = "objects"]
                           /\ bytes' = [bytes EXCEPT ![f] = "dir"]
                      ELSE dir' = dir /\ bytes' = bytes
        BY <1>0, <3>1 DEF TypeOK, PassClaim
      <3>2. CASE \E f \in unlink[r] :
                    bytes' = [bytes EXCEPT ![f] = IF @ = "trash" THEN "absent" ELSE @] /\ dir' = dir
        BY <1>0, <3>2 DEF TypeOK
      <3> QED
        BY <1>8, <3>1, <3>2 DEF RecoverObject, disk
    <2>3. f \in Files /\ \A g \in restore[r] \cup unlink[r] : g = f
      BY <1>0, <2>2 DEF PassClaim, TypeOK
    <2>4. TrashKeys' = TrashKeys \ {f}
      BY <2>2, <2>3 DEF TrashKeys
    <2>5. PassClaim(r)'
      BY <1>0, <1>1, <2>1, <2>3, <2>4 DEF PassClaim, Recovering
    <2>6. GoneIsGone'
      <3>1. \A g \in Files : Known(g)' = Known(g)
        BY <1>1 DEF Known
      <3> QED
        BY <1>0, <1>1, <2>2, <3>1 DEF GoneIsGone
    <2>7. \A v \in Uploads : pc[v] \in Uncommitted => dir'[v] = dir[v]
      <3>1. CASE dir' = dir
        BY <3>1
      <3>2. CASE f \in restore[r] /\ dir' = [dir EXCEPT ![OwnerOf[f]] = "objects"]
        <4>1. OwnerOf[f] \in leads
          BY <1>0, <3>2 DEF PassClaim, RowsOwned
        <4> QED
          BY <1>0, <3>2, <4>1 DEF UploadFiles, TypeOK
      <3> QED
        BY <2>2, <3>1, <3>2
    <2>8. Harmless(r)
      BY <1>1, <1>2, <2>2, <2>3, <2>6, <2>7 DEF Harmless
    <2>9. Claims(r)'
      BY <1>4, <1>5, <1>6, <1>7, <2>5 DEF Claims
    <2> QED
      BY <1>3, <2>8, <2>9, SessionKeeps
  <1>9. ASSUME NEW f \in Files, RecoverLook(r, f) PROVE SessionInv'
    <2>1. /\ todo'[r] = todo[r] \ {f} /\ UNCHANGED <<dir, bytes>> /\ restore[r] = {} /\ unlink[r] = {}
          /\ restore'[r] \cup unlink'[r] = {f} /\ restore'[r] \subseteq rows
      BY <1>0, <1>9 DEF RecoverLook, disk, TypeOK
    <2>2. PassClaim(r)'
      BY <1>0, <1>1, <2>1 DEF PassClaim, TrashKeys, Recovering
    <2>3. Harmless(r)
      BY <1>1, <2>1, StillHarmless
    <2>4. Claims(r)'
      BY <1>4, <1>5, <1>6, <1>7, <2>2 DEF Claims
    <2> QED
      BY <1>3, <2>3, <2>4, SessionKeeps
  <1> QED
    BY <1>8, <1>9 DEF RecoverStep

\* When a pass is over, trash/ is empty.
LEMMA RecoveredMeansEmpty ==
  ASSUME SessionInv, NEW r \in Requests, NEW during \in Recovering, Recovered(r, during)
  PROVE  TrashKeys = {} /\ restore[r] = {} /\ unlink[r] = {} /\ r \in exclusive
  BY DEF SessionInv, Claims, PassClaim, LockClaim, ExclusivePlaces, Recovered

-----------------------------------------------------------------------------
(* Steps of a removal                                                        *)

LEMMA RemovalSession ==
  ASSUME ConstantsAssumption, NothingDrops, SessionInv, StorageInv', NEW r \in Removals, RemovalStep(r)
  PROVE  SessionInv'
  <1>0. /\ r \in Requests /\ r \in Admin /\ r \notin Uploads /\ r \notin Downloads /\ r \notin Cleanups
        /\ TypeOK /\ lost = {} /\ Claims(r) /\ PlaceOf(r) /\ PassClaim(r) /\ LockClaim(r) /\ RemovalClaim(r)
        /\ OneHolder /\ GoneIsGone
    BY DEF Requests, Api, Admin, ConstantsAssumption, SessionInv, StorageInv, Claims
  <1>1. CASE \/ LockExclusive(r, "prepareWait", "preparing")
             \/ LockExclusive(r, "purgeWait", "purging")
             \/ LockExclusive(r, "repairWait", "repairing")
    BY <1>0, <1>1, LockExclusiveSession
  <1>2. CASE RecoverStep(r)
    BY <1>0, <1>2, RecoverSession
  <1>3. CASE Prepared(r)
    <2>1. /\ pc[r] = "preparing" /\ pc' = [pc EXCEPT ![r] = "selecting"]
          /\ UNCHANGED <<leads, rows, dir, bytes, shared, exclusive, lost, reply, target, todo, restore, unlink>>
      BY <1>3 DEF Prepared, Recovered, Goto, db, disk, locks, pass
    <2>2. TrashKeys = {} /\ restore[r] = {} /\ unlink[r] = {} /\ r \in exclusive
      BY <1>0, <1>3, RecoveredMeansEmpty DEF Prepared, Recovering
    <2>3. Alone(r) /\ OneHolder' /\ Harmless(r) /\ pc'[r] = "selecting" /\ TargetClaim(r)'
      BY <1>0, <2>1, MoveAlone, StillHarmless, TargetKept DEF Places, Uncommitted
    <2>4. Claims(r)'
      BY <1>0, <2>1, <2>2, <2>3 DEF Claims, PlaceOf, LockClaim, PassClaim, RemovalClaim, TrashKeys,
         SharedPlaces, ExclusivePlaces, Recovering
    <2> QED
      BY <1>0, <2>3, <2>4, SessionKeeps
  <1>4. CASE SelectFiles(r)
    <2>1. /\ pc[r] = "selecting" /\ pc' = [pc EXCEPT ![r] = "quarantining"]
          /\ todo' = [todo EXCEPT ![r] = rows \cap target[r].files]
          /\ UNCHANGED <<leads, rows, dir, bytes, shared, exclusive, lost, reply, target, restore, unlink>>
      BY <1>4 DEF SelectFiles, Goto, db, disk, locks
    <2>2. todo'[r] = rows \cap target[r].files /\ \A q \in Requests \ {r} : todo'[q] = todo[q]
      BY <1>0, <2>1 DEF TypeOK
    <2>3. Alone(r) /\ OneHolder' /\ Harmless(r) /\ pc'[r] = "quarantining" /\ TargetClaim(r)'
      BY <1>0, <2>1, <2>2, MoveAlone, StillHarmless, TargetKept DEF Places, Uncommitted
    <2>4. Claims(r)'
      BY <1>0, <2>1, <2>2, <2>3 DEF Claims, PlaceOf, LockClaim, PassClaim, RemovalClaim, TrashKeys,
         SharedPlaces, ExclusivePlaces, Recovering
    <2> QED
      BY <1>0, <2>3, <2>4, SessionKeeps
  <1>5. ASSUME NEW f \in Files, Quarantine(r, f) PROVE SessionInv'
    <2>0. pc[r] = "quarantining" /\ f \in todo[r] /\ f \in rows /\ f \in target[r].files /\ r \in exclusive
      BY <1>0, <1>5 DEF Quarantine, RemovalClaim, LockClaim, ExclusivePlaces
    <2>1. CASE ~InPlace(f)
      BY <1>0, <1>5, <2>0, <2>1, RaiseSession DEF Quarantine, Over
    <2>2. CASE InPlace(f)
      <3>1. /\ bytes' = [bytes EXCEPT ![f] = "trash"] /\ todo' = [todo EXCEPT ![r] = @ \ {f}]
            /\ UNCHANGED <<leads, rows, dir, shared, exclusive, lost, pc, reply, target, restore, unlink>>
        BY <1>5, <2>2 DEF Quarantine, db, locks
      <3>2. /\ todo'[r] = todo[r] \ {f} /\ \A q \in Requests \ {r} : todo'[q] = todo[q]
            /\ bytes'[f] = "trash" /\ \A g \in Files \ {f} : bytes'[g] = bytes[g]
        BY <1>0, <3>1 DEF TypeOK
      <3>3. TrashKeys' = TrashKeys \cup {f}
        BY <3>2 DEF TrashKeys
      <3>4. Alone(r) /\ OneHolder' /\ TargetClaim(r)'
        <4>1. Alone(r) /\ OneHolder'
          BY <1>0, <3>1, <3>2 DEF Alone, OneHolder
        <4> QED
          BY <1>0, <3>1, <4>1, TargetKept
      <3>5. GoneIsGone'
        <4>1. \A g \in Files : Known(g)' = Known(g)
          BY <3>1 DEF Known
        <4> QED
          BY <1>0, <2>0, <3>1, <3>2, <4>1 DEF GoneIsGone
      <3>6. Harmless(r)
        BY <2>0, <3>1, <3>2, <3>5 DEF Harmless
      <3>7. RemovalClaim(r)'
        BY <1>0, <2>0, <3>1, <3>2, <3>3 DEF RemovalClaim
      <3>8. Claims(r)'
        BY <1>0, <2>0, <3>1, <3>4, <3>7 DEF Claims, PlaceOf, LockClaim, PassClaim, Recovering
      <3> QED
        BY <1>0, <3>4, <3>6, <3>8, SessionKeeps
    <2> QED
      BY <2>1, <2>2
  <1>6. CASE CommitRemoval(r)
    <2>0. PICK p \in {"purgeWait", "repairWait"} : pc' = [pc EXCEPT ![r] = p]
      BY <1>6 DEF CommitRemoval, Goto
    <2>1. /\ pc[r] = "quarantining" /\ todo[r] = {} /\ EndTransaction({r})
          /\ rows' = rows \ target[r].files /\ leads' = leads \ target[r].lead
          /\ UNCHANGED <<dir, bytes, reply, target>>
      BY <1>6 DEF CommitRemoval, disk
    <2>2. /\ Alone(r) /\ OneHolder' /\ pc'[r] = p
          /\ todo'[r] = {} /\ restore'[r] = {} /\ unlink'[r] = {}
      BY <1>0, <2>0, <2>1, EndAlone DEF Places, Uncommitted
    <2>3. r \in exclusive /\ rows \cap target[r].files = TrashKeys /\ reply[r] # "deleted"
      BY <1>0, <2>1 DEF LockClaim, RemovalClaim, ExclusivePlaces
    <2>4. GoneIsGone'
      <3>1. ASSUME NEW f \in Files, f \notin rows', Known(f)' PROVE bytes'[f] # "dir"
        <4>1. CASE f \in rows
          BY <2>1, <2>3, <3>1, <4>1 DEF TrashKeys
        <4>2. CASE f \notin rows
          <5>1. Known(f)
            BY <2>1, <3>1 DEF Known
          <5> QED
            BY <1>0, <2>1, <4>2, <5>1 DEF GoneIsGone
        <4> QED
          BY <4>1, <4>2
      <3> QED
        BY <3>1 DEF GoneIsGone
    <2>5. Harmless(r)
      BY <2>1, <2>3, <2>4 DEF Harmless
    <2>6. TargetClaim(r)'
      <3>1. \A u \in Uploads : pc'[u] \in Uncommitted => pc[u] \in Uncommitted
        BY <2>2 DEF Alone, Requests, Api
      <3> QED
        BY <1>0, <2>1, <3>1, TargetKept
    <2>7. RemovalClaim(r)'
      BY <2>1, <2>2, <2>3 DEF RemovalClaim
    <2>8. Claims(r)'
      BY <1>0, <2>2, <2>6, <2>7 DEF Claims, PlaceOf, LockClaim, PassClaim, SharedPlaces, ExclusivePlaces, Recovering
    <2> QED
      BY <1>0, <2>2, <2>5, <2>8, SessionKeeps
  <1>7. CASE Purged(r)
    <2>1. /\ EndTransaction({r}) /\ pc' = [pc EXCEPT ![r] = "done"]
          /\ UNCHANGED <<leads, rows, dir, bytes, target>>
      BY <1>7 DEF Purged, Goto, db, disk
    <2>2. \/ Recovered(r, "purging") /\ reply' = [reply EXCEPT ![r] = "deleted"]
          \/ reply' = [reply EXCEPT ![r] = "error"]
      BY <1>7 DEF Purged, Answer
    <2>3. PlaceOf(r)'
      BY <1>0, <2>1 DEF PlaceOf, TypeOK
    <2>4. RemovalClaim(r)'
      <3>1. CASE reply' = [reply EXCEPT ![r] = "error"]
        BY <1>0, <2>1, <3>1 DEF RemovalClaim, TypeOK
      <3>2. CASE Recovered(r, "purging") /\ reply' = [reply EXCEPT ![r] = "deleted"]
        <4>1. TrashKeys = {} /\ pc[r] = "purging"
          BY <1>0, <3>2, RecoveredMeansEmpty DEF Recovered, Recovering
        <4>2. target[r].lead \cap leads = {} /\ target[r].files \cap rows = {}
          BY <1>0, <4>1 DEF RemovalClaim
        <4>3. ASSUME NEW f \in target[r].files PROVE bytes[f] = "absent"
          <5>1. f \in Files /\ f \notin rows /\ Known(f)
            BY <1>0, <4>2 DEF TypeOK, Known
          <5>2. bytes[f] # "dir" /\ bytes[f] # "trash"
            BY <1>0, <4>1, <5>1 DEF GoneIsGone, TrashKeys
          <5> QED
            BY <1>0, <5>1, <5>2 DEF TypeOK
        <4>4. pc'[r] = "done"
          BY <1>0, <2>1 DEF TypeOK
        <4> QED
          BY <2>1, <4>2, <4>3, <4>4 DEF RemovalClaim
      <3> QED
        BY <2>2, <3>1, <3>2
    <2> QED
      BY <1>0, <2>1, <2>2, <2>3, <2>4, EndingSession DEF Pausing, Answers
  <1> QED
    BY <1>1, <1>2, <1>3, <1>4, <1>5, <1>6, <1>7 DEF RemovalStep
-----------------------------------------------------------------------------
(* Steps of a download                                                       *)

LEMMA DownloadSession ==
  ASSUME ConstantsAssumption, NothingDrops, SessionInv, StorageInv', NEW d \in Downloads, DownloadStep(d)
  PROVE  SessionInv'
  <1>0. /\ d \in Requests /\ d \in Admin /\ d \notin Uploads /\ d \notin Removals /\ d \notin Cleanups
        /\ TypeOK /\ lost = {} /\ Claims(d) /\ PlaceOf(d) /\ PassClaim(d) /\ LockClaim(d) /\ DownloadClaim(d)
        /\ OneHolder /\ GoneIsGone
    BY DEF Requests, Api, Admin, ConstantsAssumption, SessionInv, StorageInv, Claims
  <1>1. CASE LockExclusive(d, "restoreWait", "restoring")
    BY <1>0, <1>1, LockExclusiveSession
  <1>2. CASE RecoverStep(d)
    BY <1>0, <1>2, RecoverSession
  <1>3. CASE Restored(d)
    <2>1. /\ EndTransaction({d}) /\ pc' = [pc EXCEPT ![d] = "openWait"] /\ reply' = reply
          /\ UNCHANGED <<leads, rows, dir, bytes, target>>
      BY <1>3 DEF Restored, Goto, db, disk
    <2>2. PlaceOf(d)'
      BY <1>0, <2>1 DEF PlaceOf, TypeOK
    <2> QED
      BY <1>0, <2>1, <2>2, EndingSession DEF Pausing
  <1>4. CASE LockShared(d, "openWait", "opening")
    BY <1>0, <1>4, LockSharedSession
  <1>5. CASE OpenFile(d)
    <2>0. pc[d] = "opening"
      BY <1>5 DEF OpenFile
    <2>1. CASE Raise(d)
      BY <1>0, <2>0, <2>1, RaiseSession DEF Over
    <2>2. CASE \E f \in target[d].files :
                 /\ f \in rows /\ InPlace(f) /\ pc' = [pc EXCEPT ![d] = "streaming"]
                 /\ UNCHANGED <<leads, rows, dir, bytes, shared, exclusive, lost, reply, target, todo, restore, unlink>>
      <3>1. Alone(d) /\ OneHolder' /\ Harmless(d) /\ pc'[d] = "streaming" /\ TargetClaim(d)'
        BY <1>0, <2>2, MoveAlone, StillHarmless, TargetKept DEF Places, Uncommitted
      <3>2. DownloadClaim(d)'
        BY <1>0, <2>2 DEF DownloadClaim, InPlace
      <3>3. Claims(d)'
        BY <1>0, <2>0, <2>2, <3>1, <3>2 DEF Claims, PlaceOf, LockClaim, PassClaim,
           SharedPlaces, ExclusivePlaces, Recovering
      <3> QED
        BY <1>0, <3>1, <3>3, SessionKeeps
    <2>3. CASE /\ EndTransaction({d}) /\ pc' = [pc EXCEPT ![d] = "done"]
               /\ reply' = [reply EXCEPT ![d] = "notfound"]
               /\ UNCHANGED <<leads, rows, dir, bytes, target>>
      <3>1. PlaceOf(d)'
        BY <1>0, <2>3 DEF PlaceOf, TypeOK
      <3> QED
        BY <1>0, <2>3, <3>1, EndingSession DEF Pausing, Answers
    <2> QED
      BY <1>5, <2>1, <2>2, <2>3 DEF OpenFile, Goto, Answer, db, disk, locks, pass
  <1>6. CASE CloseStream(d)
    <2>1. /\ EndTransaction({d}) /\ pc' = [pc EXCEPT ![d] = "done"] /\ reply' = [reply EXCEPT ![d] = "sent"]
          /\ UNCHANGED <<leads, rows, dir, bytes, target>>
      BY <1>6 DEF CloseStream, Goto, Answer, db, disk
    <2>2. PlaceOf(d)'
      BY <1>0, <2>1 DEF PlaceOf, TypeOK
    <2> QED
      BY <1>0, <2>1, <2>2, EndingSession DEF Pausing, Answers
  <1> QED
    BY <1>1, <1>2, <1>3, <1>4, <1>5, <1>6 DEF DownloadStep

-----------------------------------------------------------------------------
(* Steps of a cleanup                                                        *)

\* Who holds the exclusive lock meets the directory of no upload at work.
LEMMA SweptIsOver ==
  ASSUME SessionInv, NEW c \in exclusive, NEW u \in Uploads, dir[u] # "absent"
  PROVE  pc[u] \in {"discarding", "done", "dead"}
  BY DEF SessionInv, OneHolder, Claims, PlaceOf, LockClaim, UploadClaim, Requests, Api,
     Uncommitted, SharedPlaces

LEMMA CleanupSession ==
  ASSUME ConstantsAssumption, NothingDrops, SessionInv, StorageInv', NEW c \in Cleanups, CleanupStep(c)
  PROVE  SessionInv'
  <1>0. /\ c \in Requests /\ c \notin Admin /\ c \notin Uploads /\ c \notin Removals /\ c \notin Downloads
        /\ TypeOK /\ lost = {} /\ Claims(c) /\ PlaceOf(c) /\ PassClaim(c) /\ LockClaim(c)
        /\ OneHolder /\ GoneIsGone
    BY DEF Requests, Api, Admin, ConstantsAssumption, SessionInv, StorageInv, Claims
  <1>1. CASE LockExclusive(c, "tidyWait", "tidying")
    BY <1>0, <1>1, LockExclusiveSession
  <1>2. CASE RecoverStep(c)
    BY <1>0, <1>2, RecoverSession
  <1>3. CASE Tidied(c)
    <2>1. /\ pc[c] = "tidying" /\ pc' = [pc EXCEPT ![c] = "sweeping"]
          /\ UNCHANGED <<leads, rows, dir, bytes, shared, exclusive, lost, reply, target, todo, restore, unlink>>
      BY <1>3 DEF Tidied, Recovered, Goto, db, disk, locks, pass
    <2>2. TrashKeys = {} /\ restore[c] = {} /\ unlink[c] = {} /\ c \in exclusive
      BY <1>0, <1>3, RecoveredMeansEmpty DEF Tidied, Recovering
    <2>3. Alone(c) /\ OneHolder' /\ Harmless(c) /\ pc'[c] = "sweeping"
      BY <1>0, <2>1, MoveAlone, StillHarmless DEF Places, Uncommitted
    <2>4. Claims(c)'
      BY <1>0, <2>1, <2>2, <2>3 DEF Claims, PlaceOf, LockClaim, PassClaim, TrashKeys,
         SharedPlaces, ExclusivePlaces, Recovering
    <2> QED
      BY <1>0, <2>3, <2>4, SessionKeeps
  <1>4. CASE /\ pc[c] = "sweeping"
             /\ UNCHANGED <<leads, rows, dir, bytes, shared, exclusive, lost, reply, target, todo, restore, unlink>>
             /\ \E p \in {"sweeping", "deleting"} : pc' = [pc EXCEPT ![c] = p]
    <2>1. Alone(c) /\ OneHolder' /\ Harmless(c) /\ pc'[c] \in {"sweeping", "deleting"}
      BY <1>0, <1>4, MoveAlone, StillHarmless DEF Places, Uncommitted
    <2>2. Claims(c)'
      BY <1>0, <1>4, <2>1 DEF Claims, PlaceOf, LockClaim, PassClaim, TrashKeys,
         SharedPlaces, ExclusivePlaces, Recovering
    <2> QED
      BY <1>0, <1>4, <2>1, <2>2, SessionKeeps
  <1>5. pc[c] = "sweeping" /\ pc' = pc => pc' = [pc EXCEPT ![c] = "sweeping"]
    BY <1>0 DEF TypeOK
  <1>6. ASSUME NEW u \in Uploads, SweepLook(c, u) PROVE SessionInv'
    BY <1>4, <1>5, <1>6 DEF SweepLook, db, disk, locks, pass
  <1>7. CASE SweepCheck(c)
    <2>1. pc[c] = "sweeping"
      BY <1>7 DEF SweepCheck
    <2>2. CASE Raise(c)
      BY <1>0, <2>1, <2>2, RaiseSession DEF Over
    <2> QED
      BY <1>4, <1>5, <1>7, <2>1, <2>2 DEF SweepCheck, Goto, db, disk, locks, pass
  <1>8. CASE SweepDelete(c)
    <2>0. pc[c] = "deleting" /\ c \in exclusive /\ TrashKeys = {}
      BY <1>0, <1>8 DEF SweepDelete, LockClaim, PassClaim, ExclusivePlaces
    <2>1. CASE Raise(c)
      BY <1>0, <2>0, <2>1, RaiseSession DEF Over
    <2>2. CASE /\ \E u \in at[c] : dir[u] = area[c] /\ RemoveTree(u)
               /\ pc' = [pc EXCEPT ![c] = "sweeping"]
               /\ UNCHANGED <<leads, rows, shared, exclusive, lost, reply, target, todo, restore, unlink>>
      <3>1. PICK u \in at[c] : dir[u] = area[c] /\ RemoveTree(u)
        BY <2>2
      <3>2. u \in Uploads /\ pc[u] \in {"discarding", "done", "dead"}
        <4>1. u \in Uploads /\ dir[u] # "absent"
          BY <1>0, <3>1 DEF TypeOK
        <4> QED
          BY <2>0, <4>1, SweptIsOver
      <3>3. /\ \A v \in Uploads \ {u} : dir'[v] = dir[v]
            /\ \A f \in Files : bytes'[f] = bytes[f] \/ (bytes[f] = "dir" /\ bytes'[f] = "absent")
        BY <1>0, <3>1 DEF RemoveTree, FilesOf, TypeOK
      <3>4. TrashKeys' = {}
        BY <2>0, <3>3 DEF TrashKeys
      <3>5. GoneIsGone'
        <4>1. \A f \in Files : Known(f)' = Known(f)
          BY <2>2 DEF Known
        <4> QED
          BY <1>0, <2>2, <3>3, <4>1 DEF GoneIsGone
      <3>6. Harmless(c)
        BY <2>0, <2>2, <3>2, <3>3, <3>5 DEF Harmless, Uncommitted
      <3>7. Alone(c) /\ OneHolder' /\ pc'[c] = "sweeping"
        BY <1>0, <2>2, MoveAlone DEF Places, Uncommitted
      <3>8. Claims(c)'
        BY <1>0, <2>0, <2>2, <3>4, <3>7 DEF Claims, PlaceOf, LockClaim, PassClaim,
           SharedPlaces, ExclusivePlaces, Recovering
      <3> QED
        BY <1>0, <3>6, <3>7, <3>8, SessionKeeps
    <2> QED
      BY <1>8, <2>1, <2>2 DEF SweepDelete, Goto, db, locks, pass
  <1>9. CASE SweepNext(c)
    <2>1. pc[c] = "sweeping"
      BY <1>9 DEF SweepNext
    <2>2. CASE /\ EndTransaction({c}) /\ pc' = [pc EXCEPT ![c] = "done"]
               /\ reply' = [reply EXCEPT ![c] = "cleaned"]
               /\ UNCHANGED <<leads, rows, dir, bytes, target>>
      <3>1. PlaceOf(c)'
        BY <1>0, <2>2 DEF PlaceOf, TypeOK
      <3> QED
        BY <1>0, <2>2, <3>1, EndingSession DEF Pausing, Answers
    <2> QED
      BY <1>4, <1>5, <1>9, <2>1, <2>2 DEF SweepNext, Goto, Answer, db, disk, locks, pass
  <1> QED
    BY <1>1, <1>2, <1>3, <1>6, <1>7, <1>8, <1>9 DEF CleanupStep

-----------------------------------------------------------------------------
(* Time, faults and the system as a whole                                    *)

\* A process dies with the requests it serves: nobody else notices.
LEMMA CrashSession ==
  ASSUME ConstantsAssumption, SessionInv, StorageInv', NEW process, Crash(process)
  PROVE  SessionInv'
  <1>0. TypeOK /\ lost = {} /\ OneHolder /\ GoneIsGone /\ \A q \in Requests : Claims(q)
    BY DEF SessionInv, StorageInv
  <1> DEFINE D == {r \in process : pc[r] \notin {"arrived", "new", "done", "dead"}}
  <1>1. /\ EndTransaction(D) /\ pc' = [r \in Requests |-> IF r \in D THEN "dead" ELSE pc[r]]
        /\ UNCHANGED <<leads, rows, dir, bytes, reply, target>>
    BY DEF Crash, db, disk
  <1> HIDE DEF D
  <1>2. lost' = {} /\ OneHolder'
    BY <1>0, <1>1, FewerHolders DEF EndTransaction
  <1>3. GoneIsGone'
    BY <1>0, <1>1 DEF GoneIsGone, Known
  <1>4. \A u \in Uploads : pc'[u] \in Uncommitted => pc[u] \in Uncommitted
    BY <1>1 DEF Uncommitted, Requests, Api
  <1>5. ASSUME NEW q \in Requests PROVE Claims(q)'
    <2>1. Claims(q)
      BY <1>0
    <2>2. q \in Admin => TargetClaim(q)'
      BY <1>1, <1>4, TargetKept
    <2>3. CASE q \in D
      <3>1. pc'[q] = "dead" /\ todo'[q] = {} /\ restore'[q] = {} /\ unlink'[q] = {}
        BY <1>1, <2>3 DEF EndTransaction
      <3>2. pc[q] # "done"
        BY <2>3 DEF D
      <3>3. q \in Removals => RemovalClaim(q)'
        BY <1>1, <2>1, <3>1, <3>2 DEF Claims, RemovalClaim
      <3>4. q \in Downloads => DownloadClaim(q)'
        BY <1>1, <2>1, <3>1 DEF Claims, DownloadClaim
      <3> QED
        BY <2>1, <2>2, <3>1, <3>3, <3>4 DEF Claims, PlaceOf, LockClaim, PassClaim, UploadClaim,
           SharedPlaces, ExclusivePlaces, Recovering
    <2>4. CASE q \notin D
      <3>1. /\ pc'[q] = pc[q] /\ reply'[q] = reply[q] /\ target' = target
            /\ todo'[q] = todo[q] /\ restore'[q] = restore[q] /\ unlink'[q] = unlink[q]
            /\ q \in shared => q \in shared'
            /\ q \in exclusive => q \in exclusive'
        BY <1>0, <1>1, <2>4 DEF EndTransaction
      <3>2. TrashKeys' = TrashKeys
        BY <1>1 DEF TrashKeys
      <3>3. PlaceOf(q)' /\ LockClaim(q)' /\ PassClaim(q)'
        BY <1>1, <2>1, <3>1, <3>2 DEF Claims, PlaceOf, LockClaim, PassClaim
      <3>4. /\ q \in Uploads => UploadClaim(q)'
            /\ q \in Removals => RemovalClaim(q)'
            /\ q \in Downloads => DownloadClaim(q)'
        BY <1>1, <2>1, <3>1, <3>2 DEF Claims, UploadClaim, RemovalClaim, DownloadClaim, InPlace
      <3> QED
        BY <2>2, <3>3, <3>4 DEF Claims
    <2> QED
      BY <2>3, <2>4
  <1> QED
    BY <1>2, <1>3, <1>5 DEF SessionInv

\* An administrator asks for something committed.
LEMMA AskSession ==
  ASSUME ConstantsAssumption, SessionInv, StorageInv', NEW r \in Admin,
         \/ r \in Removals /\ AskRemoval(r)
         \/ r \in Downloads /\ AskDownload(r)
  PROVE  SessionInv'
  <1>0. /\ r \in Requests /\ r \notin Uploads /\ r \notin Cleanups
        /\ ~(r \in Removals /\ r \in Downloads)
        /\ TypeOK /\ lost = {} /\ Claims(r) /\ PlaceOf(r) /\ PassClaim(r) /\ LockClaim(r)
        /\ OneHolder /\ GoneIsGone /\ RowsOwned /\ UploadFiles /\ AcceptedBytesKept
    BY DEF Requests, Api, Admin, ConstantsAssumption, SessionInv, StorageInv, Claims
  <1>1. PICK p \in {"prepareWait", "restoreWait"} :
          /\ pc[r] = "new" /\ pc' = [pc EXCEPT ![r] = p]
          /\ p = "prepareWait" => r \in Removals
          /\ p = "restoreWait" => r \in Downloads
          /\ UNCHANGED <<leads, rows, dir, bytes, shared, exclusive, lost, reply, todo, restore, unlink>>
    BY DEF AskRemoval, AskDownload, Goto, db, disk, locks, pass
  <1>2. PICK t \in [lead : SUBSET Uploads, files : SUBSET Files] :
          /\ target' = [target EXCEPT ![r] = t]
          /\ t.lead \subseteq leads
          /\ \/ \E u \in leads : t.files = FilesOf(u)
             \/ \E f \in rows : t.files = {f}
          /\ r \in Downloads => \E f \in rows : t.files = {f}
    <2>1. \A u \in leads : [lead |-> {u}, files |-> FilesOf(u)] \in [lead : SUBSET Uploads, files : SUBSET Files]
      BY <1>0 DEF TypeOK, FilesOf
    <2>2. \A f \in rows : [lead |-> {}, files |-> {f}] \in [lead : SUBSET Uploads, files : SUBSET Files]
      BY <1>0 DEF TypeOK
    <2>3. CASE r \in Removals /\ \E u \in leads : target' = [target EXCEPT ![r] = [lead |-> {u}, files |-> FilesOf(u)]]
      <3>1. PICK u \in leads : target' = [target EXCEPT ![r] = [lead |-> {u}, files |-> FilesOf(u)]]
        BY <2>3
      <3> DEFINE t == [lead |-> {u}, files |-> FilesOf(u)]
      <3>2. t \in [lead : SUBSET Uploads, files : SUBSET Files]
        BY <2>1
      <3>3. t.lead \subseteq leads /\ t.files = FilesOf(u) /\ target' = [target EXCEPT ![r] = t]
        BY <3>1
      <3> HIDE DEF t
      <3> QED
        BY <1>0, <2>3, <3>2, <3>3
    <2>4. CASE \E f \in rows : target' = [target EXCEPT ![r] = [lead |-> {}, files |-> {f}]]
      BY <1>0, <2>2, <2>4
    <2> QED
      BY <1>0, <2>3, <2>4 DEF AskRemoval, AskDownload
  <1>3. /\ target'[r] = t /\ pc'[r] = p
        /\ \A q \in Requests \ {r} : pc'[q] = pc[q]
        /\ \A q \in Admin \ {r} : target'[q] = target[q]
    BY <1>0, <1>1, <1>2 DEF TypeOK
  <1>4. \A f \in t.files : f \in Files /\ OwnerOf[f] \in leads
    BY <1>0, <1>2 DEF RowsOwned, FilesOf, TypeOK
  <1>5. \A u \in leads : pc'[u] \notin Uncommitted
    <2>1. \A u \in leads : pc[u] \notin Uncommitted /\ u \in Uploads
      BY <1>0 DEF UploadFiles, TypeOK
    <2> QED
      BY <1>0, <1>1, <1>3, <2>1 DEF Uncommitted, Requests, Api
  <1>6. GoneIsGone'
    <2>1. ASSUME NEW f \in Files, Known(f)' PROVE Known(f)
      <3>1. CASE OwnerOf[f] \in leads
        BY <3>1 DEF Known
      <3>2. ASSUME NEW q \in Admin, f \in target'[q].files PROVE Known(f)
        <4>1. CASE q = r
          BY <1>3, <1>4, <3>2, <4>1 DEF Known
        <4>2. CASE q # r
          BY <1>3, <3>2, <4>2 DEF Known
        <4> QED
          BY <4>1, <4>2
      <3> QED
        BY <1>1, <2>1, <3>1, <3>2 DEF Known
    <2> QED
      BY <1>0, <1>1, <2>1 DEF GoneIsGone
  <1>7. Harmless(r)
    BY <1>1, <1>6 DEF Harmless, TrashKeys, InPlace
  <1>8. Alone(r) /\ OneHolder'
    BY <1>0, <1>1, <1>3 DEF Alone, OneHolder, Uncommitted
  <1>9. TargetClaim(r)'
    BY <1>2, <1>3, <1>4, <1>5 DEF TargetClaim
  <1>10. r \in Removals => RemovalClaim(r)'
    BY <1>0, <1>1, <1>3 DEF Claims, RemovalClaim
  <1>11. r \in Downloads => DownloadClaim(r)'
    BY <1>0, <1>1, <1>2, <1>3 DEF DownloadClaim
  <1>12. PlaceOf(r)' /\ LockClaim(r)' /\ PassClaim(r)'
    BY <1>0, <1>1, <1>3 DEF PlaceOf, LockClaim, PassClaim, SharedPlaces, ExclusivePlaces, Recovering
  <1>13. Claims(r)'
    BY <1>0, <1>9, <1>10, <1>11, <1>12 DEF Claims
  <1> QED
    BY <1>0, <1>7, <1>8, <1>13, SessionKeeps

LEMMA EnvironmentSession ==
  ASSUME ConstantsAssumption, NothingDrops, SessionInv, StorageInv', Environment
  PROVE  SessionInv'
  <1>1. ASSUME NEW u \in Uploads, Age(u) PROVE SessionInv'
    <2>1. UNCHANGED <<leads, rows, dir, bytes, shared, exclusive, lost, pc, reply, target, todo, restore, unlink>>
      BY <1>1 DEF Age, db, locks, pass
    <2>2. u \in Requests /\ Alone(u) /\ Harmless(u) /\ OneHolder'
      BY <2>1, StillHarmless DEF Requests, Api, Alone, SessionInv, OneHolder
    <2>3. Claims(u)'
      BY <2>1, <2>2 DEF SessionInv, Claims, PlaceOf, LockClaim, PassClaim, UploadClaim, RemovalClaim,
         DownloadClaim, TargetClaim, TrashKeys, InPlace
    <2> QED
      BY <2>2, <2>3, SessionKeeps
  <1>2. ASSUME NEW r \in Removals, AskRemoval(r) PROVE SessionInv'
    BY <1>2, AskSession DEF Admin
  <1>3. ASSUME NEW d \in Downloads, AskDownload(d) PROVE SessionInv'
    BY <1>3, AskSession DEF Admin
  <1>4. ASSUME NEW r \in Requests, Fail(r) PROVE SessionInv'
    BY <1>4, RaiseSession DEF Fail
  <1>5. ~\E r \in Requests : Drop(r)
    BY DEF NothingDrops, Drop
  <1>6. CASE Crash(Api) \/ \E c \in Cleanups : Crash({c})
    BY <1>6, CrashSession
  <1> QED
    BY <1>1, <1>2, <1>3, <1>4, <1>5, <1>6 DEF Environment

LEMMA InitSession == ASSUME ConstantsAssumption, Init PROVE SessionInv
  <1>1. StorageInv
    BY InitInv
  <1>2. \A r \in Requests : /\ r \in Uploads => pc[r] = "arrived"
                            /\ r \in Cleanups => pc[r] = "tidyWait"
                            /\ r \in Admin => pc[r] = "new"
                            /\ reply[r] = "none" /\ todo[r] = {} /\ restore[r] = {} /\ unlink[r] = {}
    BY DEF Init, ConstantsAssumption, Requests, Api
  <1>3. \A r \in Admin : target[r].lead = {} /\ target[r].files = {}
    BY DEF Init, NoTarget
  <1>4. ASSUME NEW r \in Requests PROVE Claims(r)
    <2>1. PlaceOf(r) /\ LockClaim(r) /\ PassClaim(r)
      BY <1>2, <1>3 DEF PlaceOf, LockClaim, PassClaim, Requests, Api, Admin, ConstantsAssumption,
         Uncommitted, SharedPlaces, ExclusivePlaces, Recovering
    <2>2. r \in Uploads => UploadClaim(r)
      BY <1>2 DEF Init, UploadClaim
    <2>3. r \in Admin => pc[r] = "new" /\ reply[r] = "none" /\ target[r].lead = {} /\ target[r].files = {}
      BY <1>2, <1>3
    <2> QED
      BY <2>1, <2>2, <2>3 DEF Claims, RemovalClaim, DownloadClaim, TargetClaim, Admin
  <1>5. lost = {} /\ OneHolder /\ GoneIsGone
    BY <1>3 DEF Init, OneHolder, GoneIsGone, Known
  <1> QED
    BY <1>1, <1>4, <1>5 DEF SessionInv

LEMMA NextSession ==
  ASSUME ConstantsAssumption, NothingDrops, SessionInv, [Next]_vars
  PROVE  SessionInv'
  <1>1. StorageInv'
    BY NextInv DEF SessionInv
  <1>2. CASE UNCHANGED vars
    BY <1>1, <1>2 DEF vars, db, disk, locks, pass, sweep, SessionInv, OneHolder, GoneIsGone, Known, Claims,
       PlaceOf, LockClaim, PassClaim, UploadClaim, RemovalClaim, DownloadClaim, TargetClaim, TrashKeys, InPlace
  <1> QED
    BY <1>1, <1>2, UploadSession, RemovalSession, DownloadSession, CleanupSession, EnvironmentSession DEF Next, Rest

\* As long as PostgreSQL ends no session, every request holds the lock its place
\* calls for, and finds the disk and the rows as that lock protects them, however
\* many requests there are and whatever crashes and errors strike.
THEOREM SessionInvariant == NothingDrops => (Spec => []SessionInv)
  <1> SUFFICES ASSUME NothingDrops PROVE Spec => []SessionInv
    OBVIOUS
  <1>1. Init => SessionInv
    BY InitSession, ConstantsAssumption
  <1>2. SessionInv /\ [Next]_vars => SessionInv'
    BY NextSession, ConstantsAssumption
  <1> QED
    BY <1>1, <1>2, PTL DEF Spec

\* What admin_service.remove answered "deleted" about has no row and no bytes,
\* and never has again: no upload, recovery or cleanup brings it back.
THEOREM DeletedIsPurged == NothingDrops => (Spec => []DeletedMeansPurged)
  <1> SUFFICES ASSUME NothingDrops PROVE Spec => []DeletedMeansPurged
    OBVIOUS
  <1>1. SessionInv => DeletedMeansPurged
    BY DEF SessionInv, Claims, RemovalClaim, DeletedMeansPurged, Requests, Api, Admin
  <1> QED
    BY <1>1, SessionInvariant, PTL

\* While admin_service.download streams a file, its row and its bytes stay.
THEOREM StreamsAreUndisturbed == NothingDrops => (Spec => []StreamedFileInPlace)
  <1> SUFFICES ASSUME NothingDrops PROVE Spec => []StreamedFileInPlace
    OBVIOUS
  <1>1. SessionInv => StreamedFileInPlace
    BY DEF SessionInv, Claims, DownloadClaim, StreamedFileInPlace, Requests, Api, Admin
  <1> QED
    BY <1>1, SessionInvariant, PTL

\* recover_locked leaves nothing older in trash/, to the end of its transaction.
THEOREM RecoveryCompletes == NothingDrops => (Spec => []RecoveryIsComplete)
  <1> SUFFICES ASSUME NothingDrops PROVE Spec => []RecoveryIsComplete
    OBVIOUS
  <1>1. ASSUME SessionInv PROVE RecoveryIsComplete
    <2>1. ASSUME NEW r \in exclusive, pc[r] \in {"selecting", "sweeping", "deleting"} PROVE TrashKeys = {}
      BY <1>1, <2>1 DEF SessionInv, StorageInv, TypeOK, Claims, PassClaim
    <2>2. ASSUME NEW r \in exclusive, pc[r] = "quarantining"
          PROVE  TrashKeys \subseteq rows \cap (target[r].files \ todo[r])
      <3>1. r \in Removals
        BY <1>1, <2>2 DEF SessionInv, StorageInv, TypeOK, Claims, PlaceOf, Requests, Api, Admin, Uncommitted
      <3> QED
        BY <1>1, <2>2, <3>1 DEF SessionInv, Claims, RemovalClaim, Requests, Api, Admin
    <2> QED
      BY <2>1, <2>2 DEF RecoveryIsComplete
  <1> QED
    BY <1>1, SessionInvariant, PTL

-----------------------------------------------------------------------------
(* Directories that disappear                                                *)

\* Only an upload that is over, and a cleanup, remove directories.
Spared == \A u \in Uploads : dir[u] # "absent" /\ dir'[u] = "absent" =>
            pc[u] \in {"discarding", "done", "dead"}

\* Which steps remove a directory, actor by actor.
LEMMA UploadSpares ==
  ASSUME ConstantsAssumption, SessionInv, NEW u \in Uploads, UploadStep(u)
  PROVE  Spared
  <1>0. dir \in [Uploads -> {"absent", "staging", "objects"}]
    BY DEF SessionInv, StorageInv, TypeOK
  <1>1. CASE LockShared(u, "arrived", "staging") \/ AcquireKeyLock(u) \/ Refuse(u) \/ InsertLead(u) \/ CommitUpload(u)
    BY <1>1 DEF Spared, LockShared, AcquireKeyLock, Refuse, InsertLead, CommitUpload, disk
  <1>2. CASE Stage(u) \/ StageStops(u)
    BY <1>0, <1>2 DEF Spared, Stage, StageStops
  <1>3. CASE Promote(u)
    BY <1>0, <1>3 DEF Spared, Promote, Raise, disk
  <1>4. CASE Discard(u)
    BY <1>0, <1>4 DEF Spared, Discard, RemoveTree, disk
  <1> QED
    BY <1>1, <1>2, <1>3, <1>4 DEF UploadStep

LEMMA RecoverSpares ==
  ASSUME SessionInv, NEW r, RecoverStep(r)
  PROVE  Spared
  BY DEF SessionInv, StorageInv, TypeOK, Spared, RecoverStep, RecoverObject, RecoverLook, disk

LEMMA AdminSpares ==
  ASSUME SessionInv,
         \/ \E r \in Removals : RemovalStep(r)
         \/ \E d \in Downloads : DownloadStep(d)
  PROVE  Spared
  <1>1. ASSUME NEW r \in Removals, RemovalStep(r) PROVE Spared
    BY <1>1, RecoverSpares DEF RemovalStep, Spared, LockExclusive, Prepared, SelectFiles, Quarantine, Raise,
       CommitRemoval, Purged, disk
  <1>2. ASSUME NEW d \in Downloads, DownloadStep(d) PROVE Spared
    BY <1>2, RecoverSpares DEF DownloadStep, Spared, LockExclusive, LockShared, Restored, OpenFile, Raise,
       CloseStream, disk
  <1> QED
    BY <1>1, <1>2

LEMMA CleanupSpares ==
  ASSUME ConstantsAssumption, SessionInv, NEW c \in Cleanups, CleanupStep(c)
  PROVE  Spared
  <1>1. CASE SweepDelete(c)
    <2>1. CASE Raise(c)
      BY <2>1 DEF Raise, Spared, disk
    <2>2. ASSUME NEW u \in at[c], dir[u] = area[c], RemoveTree(u) PROVE Spared
      <3>1. c \in exclusive
        BY <1>1 DEF SessionInv, Claims, LockClaim, ExclusivePlaces, SweepDelete, Requests
      <3>2. u \in Uploads /\ dir[u] # "absent" /\ dir \in [Uploads -> {"absent", "staging", "objects"}]
        BY <2>2 DEF SessionInv, StorageInv, TypeOK
      <3>3. pc[u] \in {"discarding", "done", "dead"}
        BY <3>1, <3>2, SweptIsOver
      <3> QED
        BY <2>2, <3>2, <3>3 DEF Spared, RemoveTree
    <2> QED
      BY <1>1, <2>1, <2>2 DEF SweepDelete
  <1>2. CASE LockExclusive(c, "tidyWait", "tidying") \/ Tidied(c) \/ (\E u \in Uploads : SweepLook(c, u))
             \/ SweepCheck(c) \/ SweepNext(c)
    BY <1>2 DEF Spared, LockExclusive, Tidied, SweepLook, SweepCheck, SweepNext, Raise, disk
  <1> QED
    BY <1>1, <1>2, RecoverSpares DEF CleanupStep

\* A cleanup, and everything else that runs beside uploads, leaves the directory
\* of an upload whose transaction is running alone.
THEOREM CleanupsSpareWrites == NothingDrops => (Spec => CleanupSparesActiveWrites)
  <1> SUFFICES ASSUME NothingDrops PROVE Spec => CleanupSparesActiveWrites
    OBVIOUS
  <1>1. SessionInv /\ [Next]_vars => [Spared]_vars
    <2> SUFFICES ASSUME SessionInv, Next PROVE Spared
      OBVIOUS
    <2>1. CASE Environment
      BY <2>1 DEF Spared, Environment, Age, AskRemoval, AskDownload, Fail, Raise, Drop, Crash, disk
    <2>2. CASE Rest
      BY <2>2 DEF Spared, Rest, vars, disk
    <2> QED
      BY <2>1, <2>2, ConstantsAssumption, UploadSpares, AdminSpares, CleanupSpares DEF Next
  <1> QED
    BY <1>1, SessionInvariant, PTL DEF Spec, CleanupSparesActiveWrites, Spared

-----------------------------------------------------------------------------
(* Without faults nothing is left behind                                     *)

NoFaults == Faults = {}

\* A staging directory belongs to an upload that will discard it ...
StagingClaim(u) == dir[u] = "staging" => pc[u] \in {"locking", "promoting", "discarding"}
\* ... bytes without a row to one that will commit or discard them ...
BytesClaim(f) ==
  f \notin rows /\ bytes[f] = "dir" =>
    \/ pc[OwnerOf[f]] \in {"locking", "promoting", "committing"}
    \/ pc[OwnerOf[f]] = "discarding" /\ dir[OwnerOf[f]] = "staging"
\* ... and what is in trash/ to a removal that will purge or repair.
Clearing == {"quarantining", "purgeWait", "purging", "repairWait", "repairing"}
TrashClaim == TrashKeys # {} => \E r \in Removals : pc[r] \in Clearing

LeftInv ==
  /\ SessionInv
  /\ \A u \in Uploads : StagingClaim(u)
  /\ \A f \in Files : BytesClaim(f)
  /\ TrashClaim

\* A step of an administrator or a cleanup that touches no data.
LEMMA QuietLeft ==
  ASSUME ConstantsAssumption, LeftInv, SessionInv', UNCHANGED <<rows, dir, bytes>>,
         \A u \in Uploads : pc'[u] = pc[u],
         TrashKeys # {} => \A r \in Removals : pc[r] \in Clearing => pc'[r] \in Clearing
  PROVE  LeftInv'
  <1>1. \A u \in Uploads : StagingClaim(u)'
    BY DEF LeftInv, StagingClaim
  <1>2. \A f \in Files : BytesClaim(f)'
    BY DEF LeftInv, BytesClaim, ConstantsAssumption
  <1>3. TrashClaim'
    BY DEF LeftInv, TrashClaim, TrashKeys
  <1> QED
    BY <1>1, <1>2, <1>3 DEF LeftInv

\* Without faults: what every step leaves behind, actor by actor.
LEMMA UploadLeft ==
  ASSUME ConstantsAssumption, NoFaults, LeftInv, SessionInv', NEW u \in Uploads, UploadStep(u)
  PROVE  LeftInv'
  <1>0. /\ u \in Requests /\ u \notin Removals /\ TypeOK /\ UploadClaim(u) /\ OwnerOf \in [Files -> Uploads]
        /\ StagingClaim(u) /\ TrashClaim
        /\ \A f \in Files : BytesClaim(f)
    BY DEF LeftInv, SessionInv, StorageInv, Claims, ConstantsAssumption, Requests, Api, Admin
  <1>1. \A q \in Requests \ {u} : pc'[q] = pc[q]
    BY <1>0 DEF UploadStep, LockShared, Stage, StageStops, AcquireKeyLock, Refuse, InsertLead, Promote,
       CommitUpload, Discard, Raise, Goto, TypeOK
  <1>2. /\ rows \subseteq rows'
        /\ \A v \in Uploads \ {u} : dir'[v] = dir[v]
        /\ \A f \in Files : bytes'[f] # "absent" => bytes'[f] = bytes[f] \/ (OwnerOf[f] = u /\ bytes'[f] = "dir")
    BY <1>0 DEF UploadStep, LockShared, Stage, StageStops, AcquireKeyLock, Refuse, InsertLead, Promote,
       CommitUpload, Discard, Raise, RemoveTree, FilesOf, TypeOK, db, disk
  <1>3. TrashClaim'
    <2>1. TrashKeys' \subseteq TrashKeys
      BY <1>2 DEF TrashKeys
    <2>2. \A r \in Removals : pc'[r] = pc[r]
      BY <1>0, <1>1 DEF Requests, Api, Admin
    <2> QED
      BY <1>0, <2>1, <2>2 DEF TrashClaim
  <1>4. ASSUME NEW v \in Uploads \ {u} PROVE StagingClaim(v)'
    BY <1>1, <1>2, <1>4 DEF LeftInv, StagingClaim, Requests, Api
  <1>5. ASSUME NEW f \in Files, OwnerOf[f] # u PROVE BytesClaim(f)'
    <2>1. OwnerOf[f] \in Uploads \ {u} /\ OwnerOf[f] \in Requests \ {u}
      BY <1>0, <1>5 DEF Requests, Api
    <2> QED
      BY <1>0, <1>1, <1>2, <1>5, <2>1 DEF BytesClaim
  \* What remains is the directory and the files of u itself.
  <1>6. /\ StagingClaim(u)'
        /\ \A f \in FilesOf(u) : BytesClaim(f)'
    <2>1. CASE LockShared(u, "arrived", "staging")
      <3>1. pc[u] = "arrived" /\ dir[u] = "absent" /\ UNCHANGED <<rows, dir, bytes>>
        BY <1>0, <2>1 DEF LockShared, UploadClaim, db, disk
      <3> QED
        BY <1>0, <3>1 DEF StagingClaim, BytesClaim, FilesOf
    <2>2. CASE Stage(u)
      <3>1. pc'[u] = "locking"
        BY <1>0, <2>2 DEF Stage, Goto, TypeOK
      <3> QED
        BY <3>1 DEF StagingClaim, BytesClaim, FilesOf
    <2>3. CASE StageStops(u)
      <3>1. pc'[u] = "discarding" /\ dir'[u] = "staging"
        BY <1>0, <2>3 DEF StageStops, Goto, TypeOK
      <3> QED
        BY <3>1 DEF StagingClaim, BytesClaim, FilesOf
    <2>4. CASE AcquireKeyLock(u) \/ InsertLead(u)
      <3>1. pc'[u] \in {"locking", "promoting"}
        BY <1>0, <2>4 DEF AcquireKeyLock, InsertLead, LocksHeld, Goto, TypeOK
      <3> QED
        BY <3>1 DEF StagingClaim, BytesClaim, FilesOf
    <2>5. CASE Refuse(u)
      <3>1. pc'[u] = "discarding" /\ pc[u] = "locking" /\ dir' = dir
        BY <1>0, <2>5 DEF Refuse, LocksHeld, Goto, TypeOK, disk
      <3> QED
        BY <1>0, <3>1 DEF StagingClaim, BytesClaim, FilesOf, UploadClaim
    <2>6. CASE Promote(u)
      <3>1. dir'[u] = "objects" /\ pc'[u] = "committing"
        BY <1>0, <2>6 DEF Promote, UploadClaim, Goto, TypeOK
      <3> QED
        BY <3>1 DEF StagingClaim, BytesClaim, FilesOf
    <2>7. CASE CommitUpload(u)
      <3>1. pc'[u] = "discarding" /\ FilesOf(u) \subseteq rows'
        BY <1>0, <2>7 DEF CommitUpload, Goto, TypeOK
      <3> QED
        BY <3>1 DEF StagingClaim, BytesClaim, FilesOf
    <2>8. CASE Discard(u)
      <3>1. pc[u] = "discarding" /\ rows' = rows
        BY <2>8 DEF Discard, db
      <3>2. CASE dir[u] = "staging" /\ RemoveTree(u)
        <4>1. dir'[u] = "absent" /\ \A f \in FilesOf(u) : bytes'[f] # "dir"
          BY <1>0, <3>2 DEF RemoveTree, FilesOf, TypeOK
        <4> QED
          BY <4>1 DEF StagingClaim, BytesClaim
      <3>3. CASE dir[u] # "staging" /\ UNCHANGED disk
        BY <1>0, <3>1, <3>3 DEF StagingClaim, BytesClaim, FilesOf, disk
      <3> QED
        BY <2>8, <3>2, <3>3 DEF Discard, NoFaults
    <2> QED
      BY <2>1, <2>2, <2>3, <2>4, <2>5, <2>6, <2>7, <2>8 DEF UploadStep
  <1> QED
    BY <1>3, <1>4, <1>5, <1>6 DEF LeftInv, FilesOf

LEMMA RecoverLeft ==
  ASSUME ConstantsAssumption, LeftInv, SessionInv', NEW r \in Requests, RecoverStep(r)
  PROVE  LeftInv'
  <1>0. /\ TypeOK /\ PassClaim(r) /\ RowsOwned /\ GoneIsGone /\ OwnerOf \in [Files -> Uploads]
        /\ \A f \in Files : BytesClaim(f)
    BY DEF LeftInv, SessionInv, StorageInv, Claims, ConstantsAssumption
  <1>1. UNCHANGED <<rows, pc>>
    BY DEF RecoverStep, RecoverObject, RecoverLook, db
  <1>2. CASE UNCHANGED <<dir, bytes>>
    BY <1>1, <1>2, QuietLeft
  <1>3. ASSUME NEW f \in restore[r], dir' = [dir EXCEPT ![OwnerOf[f]] = "objects"], bytes' = [bytes EXCEPT ![f] = "dir"]
        PROVE  LeftInv'
    <2>1. f \in rows /\ f \in Files /\ OwnerOf[f] \in leads
      BY <1>0 DEF PassClaim, RowsOwned, TypeOK
    <2>2. TrashKeys' \subseteq TrashKeys
      BY <1>0, <1>3 DEF TrashKeys, TypeOK
    <2>3. \A u \in Uploads : StagingClaim(u)'
      BY <1>0, <1>1, <1>3 DEF LeftInv, StagingClaim, TypeOK
    <2>4. ASSUME NEW g \in Files PROVE BytesClaim(g)'
      <3>1. CASE OwnerOf[g] = OwnerOf[f]
        <4>1. g \notin rows => bytes[g] # "dir" /\ g # f
          BY <1>0, <2>1, <3>1 DEF GoneIsGone, Known
        <4> QED
          BY <1>0, <1>1, <1>3, <4>1 DEF BytesClaim, TypeOK
      <3>2. CASE OwnerOf[g] # OwnerOf[f]
        BY <1>0, <1>1, <1>3, <3>2 DEF BytesClaim, TypeOK
      <3> QED
        BY <3>1, <3>2
    <2> QED
      BY <1>1, <2>2, <2>3, <2>4 DEF LeftInv, TrashClaim
  <1>4. ASSUME NEW f \in unlink[r], dir' = dir, bytes' = [bytes EXCEPT ![f] = IF @ = "trash" THEN "absent" ELSE @]
        PROVE  LeftInv'
    <2>1. \A g \in Files : bytes'[g] = bytes[g] \/ bytes'[g] = "absent"
      BY <1>0, <1>4 DEF TypeOK
    <2>2. TrashKeys' \subseteq TrashKeys
      BY <2>1 DEF TrashKeys
    <2>3. \A u \in Uploads : StagingClaim(u)'
      BY <1>1, <1>4 DEF LeftInv, StagingClaim
    <2>4. \A g \in Files : BytesClaim(g)'
      BY <1>0, <1>1, <1>4, <2>1 DEF BytesClaim
    <2> QED
      BY <1>1, <2>2, <2>3, <2>4 DEF LeftInv, TrashClaim
  <1> QED
    BY <1>2, <1>3, <1>4 DEF RecoverStep, RecoverObject, RecoverLook, disk

LEMMA AdminLeft ==
  ASSUME ConstantsAssumption, NoFaults, LeftInv, SessionInv',
         \/ \E r \in Removals : RemovalStep(r)
         \/ \E d \in Downloads : DownloadStep(d)
  PROVE  LeftInv'
  <1>0. /\ TypeOK /\ SessionInv /\ TrashClaim /\ OwnerOf \in [Files -> Uploads]
        /\ \A f \in Files : BytesClaim(f)
        /\ \A q \in Admin : q \in Requests /\ q \notin Uploads
        /\ Removals \subseteq Admin /\ Downloads \subseteq Admin /\ Removals \cap Downloads = {}
    BY DEF LeftInv, SessionInv, StorageInv, ConstantsAssumption, Requests, Api, Admin
  <1>1. ASSUME NEW r \in Removals, RemovalStep(r) PROVE LeftInv'
    <2>0. /\ r \in Requests /\ \A u \in Uploads : u \in Requests /\ u # r
          /\ \A q \in Removals : q \in Requests
      BY <1>0 DEF Requests, Api
    <2>1. CASE RecoverStep(r)
      BY <2>0, <2>1, RecoverLeft
    <2>2. CASE \/ LockExclusive(r, "prepareWait", "preparing") \/ LockExclusive(r, "purgeWait", "purging")
               \/ LockExclusive(r, "repairWait", "repairing") \/ Prepared(r) \/ SelectFiles(r)
      <3>1. /\ UNCHANGED <<rows, dir, bytes>> /\ \A q \in Requests \ {r} : pc'[q] = pc[q]
            /\ pc[r] \in Clearing => pc'[r] \in Clearing
        BY <1>0, <2>0, <2>2 DEF LockExclusive, Prepared, SelectFiles, Recovered, Goto, TypeOK, Clearing, db, disk
      <3> QED
        BY <2>0, <3>1, QuietLeft
    <2>3. ASSUME NEW f \in Files, Quarantine(r, f) PROVE LeftInv'
      <3>0. pc[r] = "quarantining"
        BY <2>3 DEF Quarantine
      <3>1. CASE Raise(r)
        <4>1. /\ UNCHANGED <<rows, dir, bytes>> /\ \A q \in Requests \ {r} : pc'[q] = pc[q]
              /\ pc'[r] = "repairWait"
          BY <1>0, <2>0, <3>0, <3>1 DEF Raise, FirstTransaction, Goto, TypeOK, db, disk
        <4> QED
          BY <2>0, <4>1, QuietLeft DEF Clearing
      <3>2. CASE UNCHANGED <<rows, dir, pc>> /\ bytes' = [bytes EXCEPT ![f] = "trash"]
        <4>1. \A u \in Uploads : StagingClaim(u)'
          BY <3>2 DEF LeftInv, StagingClaim
        <4>2. \A g \in Files : BytesClaim(g)'
          BY <1>0, <3>2 DEF BytesClaim, TypeOK
        <4>3. TrashClaim'
          BY <3>0, <3>2 DEF TrashClaim, Clearing
        <4> QED
          BY <4>1, <4>2, <4>3 DEF LeftInv
      <3> QED
        BY <2>3, <3>1, <3>2 DEF Quarantine, db
    <2>4. CASE CommitRemoval(r)
      <3>1. /\ UNCHANGED <<dir, bytes>> /\ rows' = rows \ target[r].files
            /\ pc[r] = "quarantining" /\ todo[r] = {}
            /\ pc'[r] \in {"purgeWait", "repairWait"} /\ \A q \in Requests \ {r} : pc'[q] = pc[q]
        BY <1>0, <2>0, <2>4 DEF CommitRemoval, Goto, TypeOK, disk
      <3>2. rows \cap target[r].files = TrashKeys
        BY <1>0, <2>0, <3>1 DEF SessionInv, Claims, RemovalClaim
      <3>3. \A u \in Uploads : StagingClaim(u)'
        BY <2>0, <3>1 DEF LeftInv, StagingClaim
      <3>4. \A g \in Files : BytesClaim(g)'
        BY <1>0, <2>0, <3>1, <3>2 DEF BytesClaim, TrashKeys
      <3>5. TrashClaim'
        BY <3>1 DEF TrashClaim, Clearing
      <3> QED
        BY <3>3, <3>4, <3>5 DEF LeftInv
    <2>5. CASE Purged(r)
      <3>1. UNCHANGED <<rows, dir, bytes>> /\ \A q \in Requests \ {r} : pc'[q] = pc[q]
        BY <1>0, <2>0, <2>5 DEF Purged, Goto, TypeOK, db, disk
      <3>2. TrashKeys = {}
        BY <1>0, <2>0, <2>5, RecoveredMeansEmpty DEF Purged, Recovering
      <3> QED
        BY <2>0, <3>1, <3>2, QuietLeft
    <2> QED
      BY <1>1, <2>1, <2>2, <2>3, <2>4, <2>5 DEF RemovalStep
  <1>2. ASSUME NEW d \in Downloads, DownloadStep(d) PROVE LeftInv'
    <2>0. /\ d \in Requests /\ \A u \in Uploads : u \in Requests /\ u # d
          /\ \A q \in Removals : q \in Requests /\ q # d
      BY <1>0 DEF Requests, Api
    <2>1. CASE RecoverStep(d)
      BY <2>0, <2>1, RecoverLeft
    <2>2. CASE \/ LockExclusive(d, "restoreWait", "restoring") \/ Restored(d) \/ LockShared(d, "openWait", "opening")
               \/ OpenFile(d) \/ CloseStream(d)
      <3>1. UNCHANGED <<rows, dir, bytes>> /\ \A q \in Requests \ {d} : pc'[q] = pc[q]
        BY <1>0, <2>0, <2>2 DEF LockExclusive, Restored, LockShared, OpenFile, CloseStream, Raise, Goto, TypeOK, db, disk
      <3> QED
        BY <2>0, <3>1, QuietLeft
    <2> QED
      BY <1>2, <2>1, <2>2 DEF DownloadStep
  <1> QED
    BY <1>1, <1>2

LEMMA CleanupLeft ==
  ASSUME ConstantsAssumption, LeftInv, SessionInv', NEW c \in Cleanups, CleanupStep(c)
  PROVE  LeftInv'
  <1>0. /\ TypeOK /\ OwnerOf \in [Files -> Uploads] /\ c \in Requests
        /\ \A f \in Files : BytesClaim(f)
        /\ \A q \in Api : q \in Requests /\ q # c
        /\ Uploads \subseteq Api /\ Removals \subseteq Api
    BY DEF LeftInv, SessionInv, StorageInv, ConstantsAssumption, Requests, Api, Admin
  <1>1. \A q \in Api : pc'[q] = pc[q]
    BY <1>0 DEF CleanupStep, LockExclusive, RecoverStep, RecoverObject, RecoverLook, Tidied, SweepLook,
       SweepCheck, SweepDelete, SweepNext, Raise, Goto, TypeOK
  <1>2. CASE UNCHANGED <<rows, dir, bytes>>
    BY <1>0, <1>1, <1>2, QuietLeft
  <1>3. CASE RecoverStep(c)
    BY <1>0, <1>3, RecoverLeft
  <1>4. ASSUME NEW u \in Uploads, RemoveTree(u), rows' = rows PROVE LeftInv'
    <2>1. /\ \A v \in Uploads \ {u} : dir'[v] = dir[v]
          /\ dir'[u] = "absent"
          /\ \A f \in Files : bytes'[f] = bytes[f] \/ bytes'[f] = "absent"
          /\ \A f \in FilesOf(u) : bytes'[f] # "dir"
      BY <1>0, <1>4 DEF RemoveTree, FilesOf, TypeOK
    <2>2. TrashKeys' \subseteq TrashKeys
      BY <2>1 DEF TrashKeys
    <2>3. \A v \in Uploads : StagingClaim(v)'
      BY <1>0, <1>1, <2>1 DEF LeftInv, StagingClaim
    <2>4. \A g \in Files : BytesClaim(g)'
      BY <1>0, <1>1, <1>4, <2>1 DEF BytesClaim, FilesOf
    <2>5. \A r \in Removals : pc'[r] = pc[r]
      BY <1>0, <1>1
    <2> QED
      BY <2>2, <2>3, <2>4, <2>5 DEF LeftInv, TrashClaim
  <1>5. CASE SweepDelete(c)
    <2>1. at[c] \subseteq Uploads
      BY <1>0 DEF TypeOK
    <2> QED
      BY <1>2, <1>4, <1>5, <2>1 DEF SweepDelete, Raise, db, disk
  <1> QED
    BY <1>2, <1>3, <1>5 DEF CleanupStep, LockExclusive, Tidied, SweepLook, SweepCheck, SweepNext, Raise, db, disk

LEMMA EnvironmentLeft ==
  ASSUME ConstantsAssumption, NoFaults, LeftInv, SessionInv', Environment
  PROVE  LeftInv'
  <1>0. /\ TypeOK /\ lost = {}
        /\ \A r \in Admin : r \in Requests /\ r \notin Uploads
        /\ Removals \subseteq Admin /\ Downloads \subseteq Admin
    BY DEF LeftInv, SessionInv, StorageInv, ConstantsAssumption, Requests, Api, Admin
  <1>1. ASSUME NEW u \in Uploads, Age(u) PROVE LeftInv'
    BY <1>1, QuietLeft DEF Age, db
  <1>2. ASSUME NEW r \in Admin, pc[r] = "new", NEW p, pc' = [pc EXCEPT ![r] = p], UNCHANGED <<rows, dir, bytes>>
        PROVE  LeftInv'
    <2>1. \A q \in Requests : q # r => pc'[q] = pc[q]
      BY <1>0, <1>2 DEF TypeOK
    <2>2. (\A u \in Uploads : pc'[u] = pc[u]) /\ \A q \in Removals : q # r => pc'[q] = pc[q]
      BY <1>0, <2>1 DEF Requests, Api
    <2> QED
      BY <1>2, <2>2, QuietLeft DEF Clearing
  <1>3. ~(\E r \in Requests : Fail(r) \/ Drop(r))
    BY <1>0 DEF NoFaults, Fail, Drop
  <1>4. ~(Crash(Api) \/ \E c \in Cleanups : Crash({c}))
    BY DEF NoFaults, Crash
  <1> QED
    BY <1>0, <1>1, <1>2, <1>3, <1>4 DEF Environment, AskRemoval, AskDownload, Goto, db, disk

\* Without faults every directory and every byte that no row accounts for has
\* someone on the way to discard it.
THEOREM LeftInvariant == NoFaults => (Spec => []LeftInv)
  <1> SUFFICES ASSUME NoFaults PROVE Spec => []LeftInv
    OBVIOUS
  <1>0. NothingDrops
    BY DEF NoFaults, NothingDrops
  <1>1. Init => LeftInv
    <2> SUFFICES ASSUME Init PROVE LeftInv
      OBVIOUS
    <2>1. SessionInv
      BY InitSession, ConstantsAssumption
    <2> QED
      BY <2>1 DEF Init, LeftInv, StagingClaim, BytesClaim, TrashClaim, TrashKeys
  <1>2. LeftInv /\ [Next]_vars => LeftInv'
    <2> SUFFICES ASSUME LeftInv, [Next]_vars PROVE LeftInv'
      OBVIOUS
    <2>1. SessionInv'
      BY <1>0, NextSession, ConstantsAssumption DEF LeftInv
    <2>2. CASE UNCHANGED vars
      BY <2>1, <2>2, QuietLeft, ConstantsAssumption DEF vars, db, disk
    <2>3. ASSUME NEW u \in Uploads, UploadStep(u) PROVE LeftInv'
      BY <2>1, <2>3, UploadLeft, ConstantsAssumption
    <2>4. CASE (\E r \in Removals : RemovalStep(r)) \/ (\E d \in Downloads : DownloadStep(d))
      BY <2>1, <2>4, AdminLeft, ConstantsAssumption
    <2>5. ASSUME NEW c \in Cleanups, CleanupStep(c) PROVE LeftInv'
      BY <2>1, <2>5, CleanupLeft, ConstantsAssumption
    <2>6. CASE Environment
      BY <2>1, <2>6, EnvironmentLeft, ConstantsAssumption
    <2> QED
      BY <2>2, <2>3, <2>4, <2>5, <2>6 DEF Next, Rest
  <1> QED
    BY <1>1, <1>2, PTL DEF Spec

\* Once every request is served, the disk holds the attachments of the committed
\* rows and nothing else.
THEOREM NothingIsLeftOver == Spec => []NoLeftovers
  <1>1. CASE NoFaults
    <2>1. LeftInv => NoLeftovers
      <3> SUFFICES ASSUME LeftInv, \A r \in Requests : pc[r] \in {"new", "done"}
                   PROVE  /\ \A f \in Files : IF f \in rows THEN InPlace(f) ELSE bytes[f] = "absent"
                          /\ \A u \in Uploads : dir[u] # "staging"
        BY DEF NoLeftovers
      <3>1. /\ \A u \in Uploads : pc[u] \in {"new", "done"}
            /\ \A r \in Removals : pc[r] \in {"new", "done"}
        BY DEF Requests, Api, Admin
      <3>2. TrashKeys = {}
        BY <3>1 DEF LeftInv, TrashClaim, Clearing
      <3>3. ASSUME NEW f \in Files PROVE IF f \in rows THEN InPlace(f) ELSE bytes[f] = "absent"
        <4>1. OwnerOf[f] \in Uploads /\ bytes[f] \in {"absent", "dir", "trash"} /\ bytes[f] # "trash"
          BY <3>2, ConstantsAssumption DEF LeftInv, SessionInv, StorageInv, TypeOK, ConstantsAssumption, TrashKeys
        <4>2. f \in rows => InPlace(f)
          BY <4>1 DEF LeftInv, SessionInv, StorageInv, AcceptedBytesKept
        <4>3. f \notin rows => bytes[f] # "dir"
          BY <3>1, <4>1 DEF LeftInv, BytesClaim
        <4> QED
          BY <4>1, <4>2, <4>3
      <3>4. \A u \in Uploads : dir[u] # "staging"
        BY <3>1 DEF LeftInv, StagingClaim
      <3> QED
        BY <3>3, <3>4
    <2> QED
      BY <1>1, <2>1, LeftInvariant, PTL
  <1>2. CASE ~NoFaults
    <2>1. NoLeftovers
      BY <1>2 DEF NoLeftovers, NoFaults
    <2> QED
      BY <2>1, PTL
  <1> QED
    BY <1>1, <1>2
=============================================================================
