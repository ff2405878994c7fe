-------------------------- MODULE LeadIntakeProofs --------------------------
(***************************************************************************)
(* The advisory key and browser locks make check-then-insert safe, and the *)
(* storage, seen through the answers it gives, is the register of          *)
(* LeadRegister: for any uploads, removals, downloads and cleanups, any    *)
(* coincidence of lock ids, and every fault, lost sessions included; over  *)
(* any pool of database connections too.                                   *)
(***************************************************************************)
EXTENDS LeadStorageProofs, StoragePool, FiniteSetTheorems

InsertPlaces == {"promoting", "committing"}

\* A step of another request: it may delete leads and does nothing else to uploads.
Foreign ==
  /\ leads' \subseteq leads
  /\ \A u \in Uploads :
       /\ pc'[u] = pc[u] /\ reply'[u] = reply[u] /\ holds'[u] = holds[u]
       /\ u \in lost' <=> u \in lost

\* A step that brings no upload nearer to its commit.
Quiet ==
  /\ leads' \subseteq leads
  /\ \A u \in Uploads :
       /\ holds'[u] = holds[u] \/ holds'[u] = {}
       /\ pc'[u] \in InsertPlaces /\ u \notin lost' =>
            pc[u] \in InsertPlaces /\ u \notin lost /\ holds'[u] = holds[u]
       /\ pc'[u] \in Uncommitted => pc[u] \in Uncommitted /\ reply'[u] = reply[u]
       /\ pc'[u] \in Uncommitted \cup {"discarding", "done", "dead"}

LEMMA ForeignQuiet == ASSUME IntakeInv, Foreign PROVE Quiet
  BY DEF IntakeInv, UploadPlaces, Foreign, Quiet

LEMMA QuietKeeps == ASSUME ConstantsAssumption, IntakeInv, Quiet, TypeOK' PROVE IntakeInv'
  <1>1. KeyLocksExclusive'
    BY DEF IntakeInv, Quiet, KeyLocksExclusive
  <1>2. Inserted' \subseteq Inserted
    BY DEF Quiet, Inserted, InsertPlaces
  <1>3. InsertedHoldLocks'
    BY <1>2 DEF IntakeInv, Quiet, InsertedHoldLocks, Inserted, InsertPlaces, WantedLocks
  <1>4. InsertedUnrivalled'
    BY <1>2 DEF IntakeInv, Quiet, InsertedUnrivalled, SameKey, SameBrowser
  <1>5. LeadsApart'
    BY DEF IntakeInv, Quiet, LeadsApart
  <1>6. UploadPlaces'
    BY DEF IntakeInv, Quiet, UploadPlaces
  <1>7. HoldsInOrder'
    BY DEF IntakeInv, Quiet, HoldsInOrder, WantedLocks
  <1> QED
    BY <1>1, <1>3, <1>4, <1>5, <1>6, <1>7 DEF IntakeInv

-----------------------------------------------------------------------------
(* Which steps are which                                                     *)

LEMMA EndingForeign ==
  ASSUME ConstantsAssumption, TypeOK, NEW r \in Requests \ Uploads, EndTransaction({r}),
         leads' \subseteq leads,
         \A u \in Uploads : pc'[u] = pc[u] /\ reply'[u] = reply[u]
  PROVE  Foreign
  BY DEF TypeOK, EndTransaction, Foreign

LEMMA RaiseForeign ==
  ASSUME ConstantsAssumption, TypeOK, NEW r \in Requests \ Uploads, Raise(r)
  PROVE  Foreign
  <1>1. EndTransaction({r}) /\ leads' \subseteq leads
    BY DEF Raise, db
  <1>2. \A u \in Uploads : pc'[u] = pc[u] /\ reply'[u] = reply[u]
    BY DEF TypeOK, Raise, Goto, Answer, Requests, Api
  <1> QED
    BY <1>1, <1>2, EndingForeign

LEMMA LockExclusiveForeign ==
  ASSUME TypeOK, NEW r \in Requests \ Uploads, NEW waiting, NEW granted,
         LockExclusive(r, waiting, granted)
  PROVE  Foreign
  BY DEF TypeOK, LockExclusive, Goto, Foreign, db

LEMMA RecoverForeign ==
  ASSUME NEW r \in Requests, RecoverStep(r)
  PROVE  Foreign
  BY DEF RecoverStep, RecoverObject, RecoverLook, Foreign, db, locks

LEMMA RemovalForeign ==
  ASSUME ConstantsAssumption, TypeOK, NEW r \in Removals, RemovalStep(r)
  PROVE  Foreign
  <1> r \in Requests \ Uploads
    BY DEF ConstantsAssumption, Requests, Api, Admin
  <1>1. CASE LockExclusive(r, "prepareWait", "preparing") \/ LockExclusive(r, "purgeWait", "purging")
             \/ LockExclusive(r, "repairWait", "repairing")
    BY <1>1, LockExclusiveForeign
  <1>2. CASE RecoverStep(r)
    BY <1>2, RecoverForeign
  <1>3. CASE Prepared(r) \/ SelectFiles(r)
    <2> UNCHANGED <<leads, holds, lost, reply>> /\ \E p \in Places : pc' = [pc EXCEPT ![r] = p]
      BY <1>3 DEF Prepared, SelectFiles, Goto, Places, db, locks
    <2> QED
      BY DEF TypeOK, Foreign
  <1>4. ASSUME NEW f \in Files, Quarantine(r, f) PROVE Foreign
    <2>1. CASE InPlace(f)
      BY <1>4, <2>1 DEF Quarantine, Foreign, db, locks
    <2>2. CASE ~InPlace(f)
      BY <1>4, <2>2, RaiseForeign DEF Quarantine
    <2> QED
      BY <2>1, <2>2
  <1>5. CASE CommitRemoval(r)
    <2> /\ EndTransaction({r}) /\ leads' \subseteq leads /\ UNCHANGED reply
        /\ \E p \in Places : pc' = [pc EXCEPT ![r] = p]
      BY <1>5 DEF CommitRemoval, Goto, Places
    <2> QED
      BY EndingForeign, SMTT(30) DEF TypeOK
  <1>6. CASE Purged(r)
    <2> /\ EndTransaction({r}) /\ UNCHANGED leads /\ pc' = [pc EXCEPT ![r] = "done"]
        /\ \E a \in Answers : reply' = [reply EXCEPT ![r] = a]
      BY <1>6 DEF Purged, Goto, Answer, Answers, db
    <2> QED
      BY EndingForeign, SMTT(30) DEF TypeOK
  <1> QED
    BY <1>1, <1>2, <1>3, <1>4, <1>5, <1>6 DEF RemovalStep

LEMMA DownloadForeign ==
  ASSUME ConstantsAssumption, TypeOK, NEW d \in Downloads, DownloadStep(d)
  PROVE  Foreign
  <1> d \in Requests \ Uploads
    BY DEF ConstantsAssumption, Requests, Api, Admin
  <1>1. CASE LockExclusive(d, "restoreWait", "restoring")
    BY <1>1, LockExclusiveForeign
  <1>2. CASE RecoverStep(d)
    BY <1>2, RecoverForeign
  <1>3. CASE Restored(d)
    BY <1>3, EndingForeign DEF TypeOK, Restored, Goto, db
  <1>4. CASE LockShared(d, "openWait", "opening")
    BY <1>4 DEF TypeOK, LockShared, Goto, Foreign, db
  <1>5. CASE OpenFile(d)
    <2>1. CASE Raise(d)
      BY <2>1, RaiseForeign
    <2>2. CASE EndTransaction({d}) /\ Goto(d, "done") /\ Answer(d, "notfound") /\ UNCHANGED db
      BY <2>2, EndingForeign DEF TypeOK, Goto, Answer, db
    <2>3. CASE Goto(d, "streaming") /\ UNCHANGED <<db, locks, reply>>
      BY <2>3 DEF TypeOK, Goto, Foreign, db, locks
    <2> QED
      BY <1>5, <2>1, <2>2, <2>3 DEF OpenFile
  <1>6. CASE CloseStream(d)
    BY <1>6, EndingForeign DEF TypeOK, CloseStream, Goto, Answer, db
  <1> QED
    BY <1>1, <1>2, <1>3, <1>4, <1>5, <1>6 DEF DownloadStep

LEMMA CleanupForeign ==
  ASSUME ConstantsAssumption, TypeOK, NEW c \in Cleanups, CleanupStep(c)
  PROVE  Foreign
  <1> c \in Requests \ Uploads
    BY DEF ConstantsAssumption, Requests, Api
  <1>1. CASE LockExclusive(c, "tidyWait", "tidying")
    BY <1>1, LockExclusiveForeign
  <1>2. CASE RecoverStep(c)
    BY <1>2, RecoverForeign
  <1>3. CASE Tidied(c)
    BY <1>3 DEF TypeOK, Tidied, Goto, Foreign, db, locks
  <1>4. ASSUME NEW u \in Uploads, SweepLook(c, u) PROVE Foreign
    BY <1>4 DEF SweepLook, Foreign, db, locks
  <1>5. CASE SweepCheck(c)
    <2>1. CASE Raise(c)
      BY <2>1, RaiseForeign
    <2>2. CASE ~Raise(c)
      <3>1. UNCHANGED <<leads, holds, lost, reply>>
        BY <1>5, <2>2 DEF SweepCheck, db, locks
      <3>2. pc' = pc \/ pc' = [pc EXCEPT ![c] = "deleting"]
        BY <1>5, <2>2 DEF SweepCheck, Goto
      <3>3. CASE pc' = pc
        BY <3>1, <3>3 DEF Foreign
      <3>4. CASE pc' = [pc EXCEPT ![c] = "deleting"]
        BY <3>1, <3>4 DEF TypeOK, Foreign
      <3> QED
        BY <3>2, <3>3, <3>4
    <2> QED
      BY <2>1, <2>2
  <1>6. CASE SweepDelete(c)
    <2>1. CASE Raise(c)
      BY <2>1, RaiseForeign
    <2>2. CASE ~Raise(c)
      <3> UNCHANGED <<leads, holds, lost, reply>> /\ pc' = [pc EXCEPT ![c] = "sweeping"]
        BY <1>6, <2>2 DEF SweepDelete, Goto, db, locks
      <3> QED
        BY DEF TypeOK, Foreign
    <2> QED
      BY <2>1, <2>2
  <1>7. CASE SweepNext(c)
    <2>1. CASE area[c] = "staging"
      BY <1>7, <2>1 DEF SweepNext, Foreign, db, locks
    <2>2. CASE area[c] # "staging"
      <3> /\ EndTransaction({c}) /\ UNCHANGED leads
          /\ pc' = [pc EXCEPT ![c] = "done"] /\ reply' = [reply EXCEPT ![c] = "cleaned"]
        BY <1>7, <2>2 DEF SweepNext, Goto, Answer, db
      <3> QED
        BY EndingForeign DEF TypeOK
    <2> QED
      BY <2>1, <2>2
  <1> QED
    BY <1>1, <1>2, <1>3, <1>4, <1>5, <1>6, <1>7 DEF CleanupStep

\* Of the environment's steps only a failure answers an upload.
LEMMA EnvironmentQuiet ==
  ASSUME ConstantsAssumption, IntakeInv, Environment
  PROVE  /\ Quiet
         /\ \/ leads' = leads /\ \A u \in Uploads : reply'[u] = reply[u]
            \/ \E u \in Uploads : pc[u] \in Uncommitted /\ Raise(u)
  <1> TypeOK
    BY DEF IntakeInv
  <1> DEFINE Same == leads' = leads /\ \A u \in Uploads : reply'[u] = reply[u]
  <1>1. ASSUME NEW u \in Uploads, Age(u) PROVE Foreign /\ Same
    BY <1>1 DEF Age, Foreign, db, locks
  <1>2. ASSUME NEW r \in Admin, AskRemoval(r) \/ AskDownload(r) PROVE Foreign /\ Same
    <2> r \notin Uploads
      BY DEF ConstantsAssumption
    <2> QED
      <3> UNCHANGED <<leads, holds, lost, reply>> /\ \E p \in Places : pc' = [pc EXCEPT ![r] = p]
        BY <1>2 DEF AskRemoval, AskDownload, Goto, Places, db, locks
      <3> QED
        BY DEF TypeOK, Foreign
  <1>3. ASSUME NEW r \in Requests \ Uploads, Fail(r) PROVE Foreign /\ Same
    <2>1. Raise(r)
      BY <1>3 DEF Fail
    <2>2. Foreign
      BY <2>1, RaiseForeign
    <2> QED
      BY <2>1, <2>2 DEF Raise, Foreign, db
  <1>4. ASSUME NEW u \in Uploads, Fail(u) PROVE Quiet /\ pc[u] \in Uncommitted /\ Raise(u)
    <2>1. pc[u] \in Uncommitted /\ Raise(u)
      BY <1>4 DEF IntakeInv, UploadPlaces, Fail, Over
    <2>2. Quiet
      BY <2>1 DEF IntakeInv, TypeOK, UploadPlaces, Raise, EndTransaction, Goto, Answer, Quiet,
                  InsertPlaces, Uncommitted, Requests, Api, db
    <2> QED
      BY <2>1, <2>2
  <1>5. ASSUME NEW r \in Requests, Drop(r) PROVE Quiet /\ Same
    BY <1>5 DEF IntakeInv, UploadPlaces, Drop, Quiet, db
  <1>6. ASSUME NEW process \in SUBSET Requests, Crash(process) PROVE Quiet /\ Same
    <2>1. PICK D : /\ EndTransaction(D)
                   /\ pc' = [r \in Requests |-> IF r \in D THEN "dead" ELSE pc[r]]
      BY <1>6 DEF Crash
    <2>2. UNCHANGED <<leads, reply>>
      BY <1>6 DEF Crash, db
    <2>3. Quiet
      BY <2>1, <2>2 DEF IntakeInv, UploadPlaces, EndTransaction, Quiet, InsertPlaces, Uncommitted, Requests, Api
    <2> QED
      BY <2>2, <2>3
  <1> QED
    BY <1>1, <1>2, <1>3, <1>4, <1>5, <1>6, ForeignQuiet DEF Environment, Requests, Admin

\* Every step of an upload but three is quiet.
LEMMA UploadQuiet ==
  ASSUME ConstantsAssumption, IntakeInv, NEW u \in Uploads, UploadStep(u),
         ~AcquireKeyLock(u), ~InsertLead(u), ~CommitUpload(u)
  PROVE  Quiet
  <1> TypeOK /\ u \in Requests
    BY DEF IntakeInv, Requests, Api
  <1> USE DEF IntakeInv, TypeOK, UploadPlaces, Quiet, InsertPlaces, Uncommitted, Requests, Api, Goto
  <1>1. CASE LockShared(u, "arrived", "staging")
    BY <1>1 DEF LockShared, db
  <1>2. CASE Stage(u)
    BY <1>2 DEF Stage, db, locks
  <1>3. CASE StageStops(u)
    BY <1>3 DEF StageStops, FileRefused, EndTransaction, Answer, db
  <1>4. CASE Refuse(u)
    BY <1>4 DEF Refuse, EndTransaction, Answer, db
  <1>5. CASE Promote(u)
    <2>1. CASE Raise(u)
      BY <2>1 DEF Raise, EndTransaction, Answer, db
    <2>2. CASE ~Raise(u)
      BY <1>5, <2>2 DEF Promote, db, locks
    <2> QED
      BY <2>1, <2>2
  <1>6. CASE Discard(u)
    BY <1>6 DEF Discard, db, locks
  <1> QED
    BY <1>1, <1>2, <1>3, <1>4, <1>5, <1>6 DEF UploadStep

-----------------------------------------------------------------------------
(* The invariant is inductive                                                *)

LEMMA InitIntake == ASSUME ConstantsAssumption, Init PROVE IntakeInv
  <1>1. TypeOK
    BY InitType
  <1>2. \A u \in Uploads : pc[u] = "arrived" /\ reply[u] = "none"
    BY DEF Init, Requests, Api
  <1> QED
    BY <1>1, <1>2 DEF Init, IntakeInv, KeyLocksExclusive, HoldsInOrder, InsertedHoldLocks, InsertedUnrivalled,
                      Inserted, LeadsApart, UploadPlaces, Uncommitted

\* What an upload locks are advisory lock ids.
LEMMA WantedLocksAreIds == ASSUME ConstantsAssumption, NEW u \in Uploads PROVE WantedLocks(u) \subseteq Int
  BY DEF WantedLocks, ConstantsAssumption, Keys, Browsers

LEMMA AcquireIntake ==
  ASSUME ConstantsAssumption, IntakeInv, NEW u \in Uploads, AcquireKeyLock(u), TypeOK'
  PROVE  IntakeInv'
  <1>1. PICK l \in WantedLocks(u) : /\ NextLock(u, l)
                                    /\ \A v \in Uploads \ {u} : l \notin holds[v]
                                    /\ holds' = [holds EXCEPT ![u] = @ \cup {l}]
    BY DEF AcquireKeyLock
  <1>2. UNCHANGED <<leads, lost, pc, reply>>
    BY DEF AcquireKeyLock, db
  <1>3. KeyLocksExclusive'
    BY <1>1 DEF IntakeInv, TypeOK, KeyLocksExclusive
  <1>4. InsertedHoldLocks'
    BY <1>1, <1>2 DEF IntakeInv, TypeOK, InsertedHoldLocks, Inserted, WantedLocks
  <1>5. InsertedUnrivalled' /\ LeadsApart' /\ UploadPlaces'
    BY <1>2 DEF IntakeInv, InsertedUnrivalled, Inserted, SameKey, SameBrowser, LeadsApart, UploadPlaces
  <1>6. HoldsInOrder'
    <2>1. ASSUME NEW v \in Uploads
          PROVE  /\ holds'[v] \subseteq WantedLocks(v)
                 /\ \A k \in holds'[v], m \in WantedLocks(v) \ holds'[v] : k < m
      <3>1. CASE v # u
        BY <1>1, <3>1 DEF IntakeInv, TypeOK, HoldsInOrder
      <3>2. CASE v = u
        <4>1. holds'[u] = holds[u] \cup {l} /\ l \notin holds[u]
          BY <1>1 DEF IntakeInv, TypeOK, NextLock
        <4>2. ASSUME NEW m \in WantedLocks(u) \ holds'[u] PROVE l < m
          <5>1. l <= m /\ l # m
            BY <1>1, <4>1, <4>2 DEF NextLock
          <5>2. l \in Int /\ m \in Int
            BY WantedLocksAreIds
          <5> QED
            BY <5>1, <5>2
        <4> QED
          BY <1>1, <3>2, <4>1, <4>2 DEF IntakeInv, HoldsInOrder
      <3> QED
        BY <3>1, <3>2
    <2> QED
      BY <2>1 DEF HoldsInOrder, WantedLocks
  <1> QED
    BY <1>3, <1>4, <1>5, <1>6 DEF IntakeInv

LEMMA InsertIntake ==
  ASSUME ConstantsAssumption, IntakeInv, NEW u \in Uploads, InsertLead(u), TypeOK'
  PROVE  IntakeInv'
  <1>1. UNCHANGED <<leads, lost, holds, reply>> /\ pc' = [pc EXCEPT ![u] = "promoting"]
    BY DEF InsertLead, Goto, db, locks
  <1>2. pc[u] = "locking" /\ WantedLocks(u) \subseteq holds[u] /\ SameKey(u) = {} /\ SameBrowser(u) = {}
    BY DEF InsertLead, LocksHeld
  <1>3. Inserted' \subseteq Inserted \cup {u}
    BY <1>1 DEF IntakeInv, TypeOK, Inserted, Requests, Api
  <1>4. KeyLocksExclusive' /\ HoldsInOrder' /\ LeadsApart'
    BY <1>1 DEF IntakeInv, KeyLocksExclusive, HoldsInOrder, WantedLocks, LeadsApart
  <1>5. InsertedHoldLocks'
    BY <1>1, <1>2, <1>3 DEF IntakeInv, InsertedHoldLocks, WantedLocks
  <1>6. InsertedUnrivalled'
    BY <1>1, <1>2, <1>3 DEF IntakeInv, InsertedUnrivalled, SameKey, SameBrowser
  <1>7. UploadPlaces'
    BY <1>1, <1>2 DEF IntakeInv, TypeOK, UploadPlaces, Uncommitted, Requests, Api
  <1> QED
    BY <1>4, <1>5, <1>6, <1>7 DEF IntakeInv

\* Two uploads that share a key or a browser want one lock in common.
LEMMA RivalsShareLock ==
  ASSUME NEW u \in Uploads, NEW v \in Uploads,
         \/ KeyOf[u] = KeyOf[v]
         \/ BrowserOf[u] # NoBrowser /\ BrowserOf[u] = BrowserOf[v]
  PROVE  WantedLocks(u) \cap WantedLocks(v) # {}
  BY DEF WantedLocks

LEMMA InsertedApart ==
  ASSUME IntakeInv, NEW u \in Inserted, NEW v \in Inserted, u # v
  PROVE  KeyOf[u] # KeyOf[v] /\ (BrowserOf[u] = NoBrowser \/ BrowserOf[u] # BrowserOf[v])
  <1> u \in Uploads /\ v \in Uploads
    BY DEF Inserted
  <1>1. WantedLocks(u) \cap WantedLocks(v) = {}
    BY DEF IntakeInv, InsertedHoldLocks, KeyLocksExclusive
  <1> QED
    BY <1>1, RivalsShareLock

LEMMA CommitIntake ==
  ASSUME ConstantsAssumption, IntakeInv, NEW u \in Uploads, CommitUpload(u), TypeOK'
  PROVE  IntakeInv'
  <1> u \in Requests
    BY DEF Requests, Api
  <1>1. u \in Inserted
    BY DEF CommitUpload, Inserted
  <1>2. leads' = leads \cup {u} /\ pc' = [pc EXCEPT ![u] = "discarding"]
    BY DEF CommitUpload, Goto
  <1>3. EndTransaction({u}) /\ \A v \in Uploads \ {u} : reply'[v] = reply[v]
    <2> EndTransaction({u}) /\ \E a \in Answers : reply' = [reply EXCEPT ![u] = a]
      BY DEF CommitUpload, Answer, Answers
    <2> QED
      BY DEF IntakeInv, TypeOK
  <1>4. Inserted' = Inserted \ {u}
    BY <1>2, <1>3 DEF IntakeInv, TypeOK, Inserted, EndTransaction, Requests, Api
  <1>5. \A v \in Inserted' : holds'[v] = holds[v] /\ WantedLocks(v)' = WantedLocks(v)
    BY <1>3, <1>4 DEF EndTransaction, WantedLocks, Inserted
  <1>6. KeyLocksExclusive'
    BY <1>3 DEF IntakeInv, KeyLocksExclusive, EndTransaction
  <1>7. InsertedHoldLocks' /\ HoldsInOrder'
    <2>1. HoldsInOrder'
      BY <1>3 DEF IntakeInv, HoldsInOrder, EndTransaction, WantedLocks
    <2> QED
      BY <2>1, <1>4, <1>5 DEF IntakeInv, InsertedHoldLocks
  <1>8. InsertedUnrivalled'
    <2>1. ASSUME NEW v \in Inserted' PROVE SameKey(v)' = {} /\ SameBrowser(v)' = {}
      <3>1. v \in Inserted /\ v # u
        BY <1>4, <2>1
      <3>2. KeyOf[u] # KeyOf[v] /\ (BrowserOf[v] = NoBrowser \/ BrowserOf[u] # BrowserOf[v])
        BY <1>1, <3>1, InsertedApart
      <3> QED
        BY <1>2, <3>1, <3>2 DEF IntakeInv, InsertedUnrivalled, SameKey, SameBrowser
    <2> QED
      BY <2>1 DEF InsertedUnrivalled
  <1>9. LeadsApart'
    <2>1. SameKey(u) = {} /\ SameBrowser(u) = {}
      BY <1>1 DEF IntakeInv, InsertedUnrivalled
    <2> QED
      BY <1>2, <2>1 DEF IntakeInv, LeadsApart, SameKey, SameBrowser
  <1>10. UploadPlaces'
    BY <1>2, <1>3 DEF IntakeInv, TypeOK, UploadPlaces, Uncommitted
  <1> QED
    BY <1>6, <1>7, <1>8, <1>9, <1>10 DEF IntakeInv

LEMMA NextIntake == ASSUME ConstantsAssumption, IntakeInv, [Next]_vars PROVE IntakeInv'
  <1>0. TypeOK /\ TypeOK'
    BY NextType DEF IntakeInv
  <1>1. CASE UNCHANGED vars
    <2> Foreign
      BY <1>1 DEF Foreign, vars, db, locks
    <2> QED
      BY <1>0, ForeignQuiet, QuietKeeps
  <1>2. ASSUME NEW u \in Uploads, UploadStep(u) PROVE IntakeInv'
    BY <1>0, <1>2, UploadQuiet, QuietKeeps, AcquireIntake, InsertIntake, CommitIntake
  <1>3. ASSUME Foreign PROVE IntakeInv'
    BY <1>0, <1>3, ForeignQuiet, QuietKeeps
  <1>4. CASE Environment
    BY <1>0, <1>4, EnvironmentQuiet, QuietKeeps
  <1> QED
    BY <1>0, <1>1, <1>2, <1>3, <1>4, RemovalForeign, DownloadForeign, CleanupForeign DEF Next, Rest

\* The invariant about locks, leads and answers is inductive.
THEOREM IntakeInvariant == Spec => []IntakeInv
  <1>1. Init => IntakeInv
    BY InitIntake, ConstantsAssumption
  <1>2. IntakeInv /\ [Next]_vars => IntakeInv'
    BY NextIntake, ConstantsAssumption
  <1> QED
    BY <1>1, <1>2, PTL DEF Spec

\* No two leads, committed or about to be, ever share an idempotency key or a
\* browser, though service.py checks first and inserts later.
THEOREM LeadsAreUnique == Spec => []OneLeadPerKeyAndBrowser
  <1>1. IntakeInv => OneLeadPerKeyAndBrowser
    <2> SUFFICES ASSUME IntakeInv, NEW u \in leads \cup Inserted, NEW v \in leads \cup Inserted, u # v
                 PROVE  KeyOf[u] # KeyOf[v] /\ (BrowserOf[u] = NoBrowser \/ BrowserOf[u] # BrowserOf[v])
      BY DEF OneLeadPerKeyAndBrowser
    <2>1. CASE u \in leads /\ v \in leads
      BY <2>1 DEF IntakeInv, LeadsApart
    <2>2. CASE u \in Inserted /\ v \in Inserted
      BY <2>2, InsertedApart
    <2>3. CASE u \in leads /\ v \in Inserted
      BY <2>3 DEF IntakeInv, InsertedUnrivalled, SameKey, SameBrowser
    <2>4. CASE u \in Inserted /\ v \in leads
      BY <2>4 DEF IntakeInv, InsertedUnrivalled, SameKey, SameBrowser
    <2> QED
      BY <2>1, <2>2, <2>3, <2>4
  <1> QED
    BY <1>1, IntakeInvariant, PTL

\* The lock an upload asks for next is one, and an id.
LEMMA OneNextLock ==
  ASSUME ConstantsAssumption, NEW u \in Uploads, NEW l, NEW m, NextLock(u, l), NextLock(u, m)
  PROVE  l = m /\ l \in Int
  <1>1. l \in Int /\ m \in Int
    BY WantedLocksAreIds DEF NextLock
  <1>2. l <= m /\ m <= l
    BY DEF NextLock
  <1> QED
    BY <1>1, <1>2

\* The uploads of S that ask for a greater lock than u does.
Above(S, u) == {w \in S : \E l, m : NextLock(u, l) /\ NextLock(w, m) /\ l < m}

\* Who is waited for, and waits itself, asks for a greater lock than who waits for it.
LEMMA AwaitedIsAbove ==
  ASSUME ConstantsAssumption, IntakeInv, NEW S \in SUBSET Uploads,
         NEW u \in S, NEW v \in S, Awaits(u, v), NEW n, NextLock(v, n)
  PROVE  Above(S, v) \subseteq Above(S, u) /\ v \in Above(S, u) /\ v \notin Above(S, v)
  <1>1. PICK l \in holds[v] : NextLock(u, l)
    BY DEF Awaits
  <1>2. l < n
    BY <1>1 DEF IntakeInv, HoldsInOrder, NextLock
  <1>3. l \in Int /\ n \in Int
    BY <1>1, OneNextLock
  <1>4. v \in Above(S, u)
    BY <1>1, <1>2 DEF Above
  <1>5. v \notin Above(S, v)
    <2> SUFFICES ASSUME NEW i, NEW j, NextLock(v, i), NextLock(v, j), i < j PROVE FALSE
      BY DEF Above
    <2>1. i = j /\ i \in Int
      BY OneNextLock
    <2> QED
      BY <2>1
  <1>6. ASSUME NEW w \in Above(S, v) PROVE w \in Above(S, u)
    <2>1. PICK i, j : NextLock(v, i) /\ NextLock(w, j) /\ i < j
      BY DEF Above
    <2>2. w \in S
      BY DEF Above
    <2>3. i = n /\ j \in Int
      BY <2>1, <2>2, OneNextLock
    <2>4. l < j
      BY <1>2, <1>3, <2>1, <2>3
    <2> QED
      BY <1>1, <2>1, <2>2, <2>4 DEF Above
  <1> QED
    BY <1>4, <1>5, <1>6

\* Sorted acquisition is what keeps uploads from waiting for each other: in a
\* circle of any length each would ask for a greater lock than the one before it.
LEMMA SortedNeverCycle == ASSUME ConstantsAssumption, IntakeInv PROVE NoLockCycle
  <1> SUFFICES ASSUME NEW S \in SUBSET Uploads, S # {}, IsFiniteSet(S),
                      \A u \in S : \E v \in S : Awaits(u, v)
               PROVE  FALSE
    BY DEF NoLockCycle
  <1> DEFINE T == {Above(S, u) : u \in S}
             R == StrictSubsetOrdering(S)
  <1>1. IsWellFoundedOn(R, SUBSET S)
    BY FS_StrictSubsetOrderingWellFounded, FS_FiniteSubsetsOfFinite
  <1>2. T \subseteq SUBSET S /\ T # {}
    <2>1. \A u \in S : Above(S, u) \subseteq S
      BY DEF Above
    <2> QED
      BY <2>1
  <1>3. \E x \in T : \A y \in T : ~ (<<y, x>> \in R)
    <2> HIDE DEF R, T
    <2> QED BY <1>1, <1>2, WFMin
  <1>4. PICK u \in S : \A v \in S : ~ (<<Above(S, v), Above(S, u)>> \in R)
    BY <1>3
  <1>5. PICK v \in S : Awaits(u, v)
    OBVIOUS
  <1>6. PICK w \in S : Awaits(v, w)
    OBVIOUS
  <1>7. \E n : NextLock(v, n)
    BY <1>6 DEF Awaits
  <1>8. Above(S, v) \subseteq Above(S, u) /\ v \in Above(S, u) /\ v \notin Above(S, v)
    BY <1>5, <1>7, AwaitedIsAbove
  <1>9. <<Above(S, v), Above(S, u)>> \in R
    <2>1. Above(S, v) \in SUBSET S /\ Above(S, u) \in SUBSET S
      BY DEF Above
    <2> QED
      BY <1>8, <2>1 DEF StrictSubsetOrdering
  <1> QED
    BY <1>4, <1>9

\* Uploads never wait for each other's key and browser locks in a circle, however
\* many there are and however the ids of their locks coincide.
THEOREM LocksNeverCycle == Spec => []NoLockCycle
  <1>1. IntakeInv => NoLockCycle
    BY SortedNeverCycle, ConstantsAssumption
  <1> QED
    BY <1>1, IntakeInvariant, PTL

-----------------------------------------------------------------------------
(* Refinement                                                                *)

\* The register's request and answer functions, as LeadStorage's own state.
Carried == [u \in Uploads |->
             [key |-> KeyOf[u], browser |-> BrowserOf[u], payload |-> PayloadOf[u]]]
Told == [u \in Uploads |-> reply[u]]

LEMMA InitRegister == ASSUME ConstantsAssumption, Init PROVE Register!Init
  BY DEF Init, Register!Init, Requests, Api

\* Deleting leads and answering no upload is the register's Delete, or a stutter.
LEMMA DeleteRegister ==
  ASSUME leads' \subseteq leads, \A u \in Uploads : reply'[u] = reply[u]
  PROVE  [Register!Next]_<<Carried, leads, Told>>
  <1>1. Told' = Told
    BY DEF Told
  <1>2. leads' = leads \ (leads \ leads') /\ leads \ leads' \in SUBSET leads
    OBVIOUS
  <1>3. Register!Delete(leads \ leads')
    BY <1>1, <1>2 DEF Register!Delete, Told
  <1> QED
    BY <1>2, <1>3 DEF Register!Next

LEMMA RaiseRegister ==
  ASSUME IntakeInv, NEW u \in Uploads, pc[u] \in Uncommitted, Raise(u)
  PROVE  Register!Break(u)
  <1>1. Told[u] = "none" /\ UNCHANGED leads
    BY DEF IntakeInv, UploadPlaces, Raise, Told, db
  <1>2. Told' = [Told EXCEPT ![u] = "error"]
    BY DEF IntakeInv, TypeOK, Raise, Answer, Told, Requests, Api
  <1> QED
    BY <1>1, <1>2 DEF Register!Break, Told

LEMMA UploadRegister ==
  ASSUME ConstantsAssumption, IntakeInv, NEW u \in Uploads, UploadStep(u)
  PROVE  [Register!Next]_<<Carried, leads, Told>>
  <1> u \in Requests
    BY DEF Requests, Api
  <1>0. ASSUME NEW a, Answer(u, a) PROVE Told' = [Told EXCEPT ![u] = a]
    BY <1>0 DEF IntakeInv, TypeOK, Answer, Told, Requests, Api
  <1>1. CASE UNCHANGED <<leads, reply>>
    BY <1>1, DeleteRegister
  <1>2. CASE StageStops(u)
    <2>1. Told[u] = "none" /\ UNCHANGED leads
      BY <1>2 DEF IntakeInv, UploadPlaces, StageStops, Uncommitted, Told, db
    <2>2. PICK a \in {"rejected", "error"} : Told' = [Told EXCEPT ![u] = a]
      BY <1>0, <1>2 DEF StageStops, FileRefused
    <2> QED
      BY <2>1, <2>2 DEF Register!Next, Register!Serve, Register!Reject, Register!Break, Told
  <1>3. CASE Refuse(u)
    <2>1. Told[u] = "none" /\ UNCHANGED leads
      BY <1>3 DEF IntakeInv, UploadPlaces, Refuse, LocksHeld, Uncommitted, Told, db
    <2>2. ASSUME NEW l \in SameKey(u), Answer(u, IF SamePayload(u, l) THEN "repeat" ELSE "conflict")
          PROVE  Register!Repeat(u) \/ Register!Conflict(u)
      <3>1. l \in leads /\ l \in Uploads /\ KeyOf[l] = KeyOf[u]
        BY <2>2 DEF IntakeInv, TypeOK, SameKey
      <3>2. CASE SamePayload(u, l)
        BY <1>0, <2>1, <2>2, <3>1, <3>2 DEF Register!Repeat, Register!SameKey, SamePayload, Told
      <3>3. CASE ~SamePayload(u, l)
        BY <1>0, <2>1, <2>2, <3>1, <3>3 DEF Register!Conflict, Register!SameKey, SamePayload, Told
      <3> QED
        BY <3>2, <3>3
    <2>3. ASSUME SameKey(u) = {}, SameBrowser(u) # {}, Answer(u, "already")
          PROVE  Register!Already(u)
      BY <1>0, <2>1, <2>3 DEF IntakeInv, TypeOK, SameKey, SameBrowser, Register!Already,
                              Register!SameKey, Register!SameBrowser, Told
    <2> QED
      BY <1>3, <2>2, <2>3 DEF Refuse, Register!Next, Register!Serve
  <1>4. CASE CommitUpload(u)
    <2>1. Told[u] = "none" /\ leads' = leads \cup {u} /\ SameKey(u) = {} /\ SameBrowser(u) = {}
      BY <1>4 DEF IntakeInv, UploadPlaces, InsertedUnrivalled, Inserted, CommitUpload, Uncommitted, Told
    <2>2. PICK a \in {"accepted", "error"} : Told' = [Told EXCEPT ![u] = a]
      BY <1>0, <1>4 DEF CommitUpload
    <2>3. Register!SameKey(u) = {} /\ Register!SameBrowser(u) = {}
      BY <2>1 DEF IntakeInv, TypeOK, SameKey, SameBrowser, Register!SameKey, Register!SameBrowser
    <2> QED
      BY <2>1, <2>2, <2>3 DEF Register!Next, Register!Serve, Register!Accept, Told
  <1>5. CASE Promote(u)
    <2>1. pc[u] \in Uncommitted
      BY <1>5 DEF Promote, Uncommitted
    <2>2. CASE Raise(u)
      BY <2>1, <2>2, RaiseRegister DEF Register!Next, Register!Serve
    <2>3. CASE ~Raise(u)
      BY <1>1, <1>5, <2>3 DEF Promote, db
    <2> QED
      BY <2>2, <2>3
  <1>6. CASE LockShared(u, "arrived", "staging") \/ Stage(u) \/ AcquireKeyLock(u) \/ InsertLead(u) \/ Discard(u)
    BY <1>1, <1>6 DEF LockShared, Stage, AcquireKeyLock, InsertLead, Discard, db
  <1> QED
    BY <1>2, <1>3, <1>4, <1>5, <1>6 DEF UploadStep

LEMMA NextRegister ==
  ASSUME ConstantsAssumption, IntakeInv, [Next]_vars
  PROVE  [Register!Next]_<<Carried, leads, Told>>
  <1>0. TypeOK
    BY DEF IntakeInv
  <1>1. CASE UNCHANGED vars
    BY <1>1, DeleteRegister DEF vars, db
  <1>2. ASSUME NEW u \in Uploads, UploadStep(u) PROVE [Register!Next]_<<Carried, leads, Told>>
    BY <1>2, UploadRegister
  <1>3. ASSUME Foreign PROVE [Register!Next]_<<Carried, leads, Told>>
    BY <1>3, DeleteRegister DEF Foreign
  <1>4. CASE Environment
    <2>1. CASE leads' = leads /\ \A u \in Uploads : reply'[u] = reply[u]
      BY <2>1, DeleteRegister
    <2>2. ASSUME NEW u \in Uploads, pc[u] \in Uncommitted, Raise(u)
          PROVE  [Register!Next]_<<Carried, leads, Told>>
      BY <2>2, RaiseRegister DEF Register!Next, Register!Serve
    <2> QED
      BY <1>4, <2>1, <2>2, EnvironmentQuiet
  <1> QED
    BY <1>0, <1>1, <1>2, <1>3, <1>4, RemovalForeign, DownloadForeign, CleanupForeign DEF Next, Rest

\* Whatever interleaves and whatever fails, the clients of POST /api/brief see
\* the register: each request takes effect at one instant, or not at all.
THEOREM StorageImplementsRegister == Spec => ImplementsRegister
  <1>1. Init => Register!Init
    BY InitRegister, ConstantsAssumption
  <1>2. IntakeInv /\ [Next]_vars => [Register!Next]_<<Carried, leads, Told>>
    BY NextRegister, ConstantsAssumption
  <1> QED
    BY <1>1, <1>2, IntakeInvariant, PTL DEF Spec, ImplementsRegister, Register!Spec, Carried, Told

-----------------------------------------------------------------------------
(* Over the pool of connections                                              *)

\* A handler that waits for a connection does nothing that the storage could not
\* see as a pause: the system over the pool is a system of LeadStorage.
THEOREM PoolIsStorage == PoolSpec => Spec
  <1>1. PoolInit => Init
    BY DEF PoolInit
  <1>2. [PoolNext]_poolVars => [Next]_vars
    BY DEF PoolNext, Checkout, poolVars
  <1> QED
    BY <1>1, <1>2, PTL DEF PoolSpec, Spec

\* What was proved of the storage holds of it over any pool: cleanups spare what
\* is being written, no lock is waited for in a circle, nothing is left over, and
\* each request takes effect at one instant or not at all.
THEOREM PoolKeepsPromises ==
  PoolSpec => /\ [](TypeOK /\ NoLockCycle /\ NoLeftovers /\ AcceptedBytesKept)
              /\ ImplementsRegister
              /\ NothingDrops => CleanupSparesActiveWrites
  BY PoolIsStorage, TypeCorrect, LocksNeverCycle, NothingIsLeftOver, AcceptedBytesAreKept,
     StorageImplementsRegister, CleanupsSpareWrites, PTL

-----------------------------------------------------------------------------
(* Nobody waits for what only a waiter could give                            *)

\* What a step may make of a handler: it takes the storage lock on the way from
\* waiting to work, gives it back on the way out, and has key locks only in between.
Orderly(r) ==
  /\ r \in shared' \cup exclusive' => pc'[r] \in AtWork
  /\ pc'[r] \in AtWork => pc[r] \in AtWork \/ r \in shared' \cup exclusive'
  /\ pc'[r] = "tidyWait" => pc[r] = "tidyWait"
  /\ r \in Uploads /\ holds'[r] # {} => pc'[r] \in KeyLocked

LEMMA AtWorkIs ==
  AtWork = {"staging", "locking", "promoting", "committing", "selecting", "quarantining",
            "opening", "streaming", "sweeping", "deleting"} \cup Recovering
  BY DEF AtWork, InApi, Waiting, Over, Places, Recovering

\* Who keeps its place and takes no lock.
LEMMA StillOrderly ==
  ASSUME HoldersAtWork, NEW r, pc'[r] = pc[r],
         r \in shared' => r \in shared, r \in exclusive' => r \in exclusive,
         r \in Uploads /\ holds'[r] # {} => holds[r] # {}
  PROVE  Orderly(r)
  BY DEF HoldersAtWork, Orderly

\* Who moves on inside its transaction.
LEMMA MoveOrderly ==
  ASSUME TypeOK, HoldersAtWork, NEW r \in Requests, NEW p \in AtWork, pc[r] \in AtWork,
         Goto(r, p), UNCHANGED <<shared, exclusive, holds>>,
         r \in Uploads => pc[r] \notin KeyLocked \/ p \in KeyLocked
  PROVE  \A q \in Requests : Orderly(q)
  <1> SUFFICES ASSUME NEW q \in Requests PROVE Orderly(q)
    OBVIOUS
  <1>1. CASE q # r
    <2>1. pc'[q] = pc[q]
      BY <1>1 DEF Goto, TypeOK
    <2> QED
      BY <2>1, StillOrderly
  <1>2. CASE q = r
    <2>1. pc'[q] = p /\ p # "tidyWait"
      BY <1>2 DEF Goto, TypeOK, AtWork
    <2> QED
      BY <1>2, <2>1 DEF HoldersAtWork, Orderly
  <1> QED
    BY <1>1, <1>2

\* Whose transaction ends is at work no more.
LEMMA EndOrderly ==
  ASSUME TypeOK, HoldersAtWork, NEW D, EndTransaction(D),
         \A q \in Requests \ D : pc'[q] = pc[q],
         \A q \in Requests \cap D : pc'[q] \notin AtWork \cup {"tidyWait"}
  PROVE  \A q \in Requests : Orderly(q)
  <1> SUFFICES ASSUME NEW q \in Requests PROVE Orderly(q)
    OBVIOUS
  <1>1. CASE q \notin D
    BY <1>1, StillOrderly DEF EndTransaction
  <1>2. CASE q \in D
    <2>1. q \notin shared' /\ q \notin exclusive' /\ (q \in Uploads => holds'[q] = {})
      BY <1>2 DEF EndTransaction
    <2> QED
      BY <1>2, <2>1 DEF Orderly
  <1> QED
    BY <1>1, <1>2

LEMMA EndToOrderly ==
  ASSUME TypeOK, HoldersAtWork, NEW r \in Requests, EndTransaction({r}),
         NEW p, p \notin AtWork \cup {"tidyWait"}, Goto(r, p)
  PROVE  \A q \in Requests : Orderly(q)
  <1>1. \A q \in Requests \ {r} : pc'[q] = pc[q]
    BY DEF Goto, TypeOK
  <1>2. \A q \in Requests \cap {r} : pc'[q] \notin AtWork \cup {"tidyWait"}
    BY DEF Goto, TypeOK
  <1> QED
    BY <1>1, <1>2, EndOrderly

LEMMA RaiseOrderly ==
  ASSUME TypeOK, HoldersAtWork, NEW r \in Requests, Raise(r)
  PROVE  \A q \in Requests : Orderly(q)
  <1>1. PICK p \in {"discarding", "repairWait", "done"} : Goto(r, p)
    BY DEF Raise
  <1>2. p \notin AtWork \cup {"tidyWait"} /\ EndTransaction({r})
    BY DEF Raise, AtWork, InApi, Waiting, Over
  <1> QED
    BY <1>1, <1>2, EndToOrderly

LEMMA GrantOrderly ==
  ASSUME TypeOK, HoldersAtWork, NEW r \in Requests, NEW w, NEW g \in AtWork, w \notin AtWork,
         LockShared(r, w, g) \/ LockExclusive(r, w, g)
  PROVE  \A q \in Requests : Orderly(q)
  <1> SUFFICES ASSUME NEW q \in Requests PROVE Orderly(q)
    OBVIOUS
  <1>0. /\ pc[r] = w /\ Goto(r, g) /\ r \in shared' \cup exclusive' /\ UNCHANGED holds
        /\ \A x \in Requests \ {r} : x \in shared' \cup exclusive' => x \in shared \cup exclusive
    BY DEF LockShared, LockExclusive
  <1>1. CASE q # r
    <2>1. pc'[q] = pc[q]
      BY <1>0, <1>1 DEF Goto, TypeOK
    <2> QED
      BY <1>0, <1>1, <2>1 DEF HoldersAtWork, Orderly
  <1>2. CASE q = r
    <2>1. pc'[q] = g /\ g # "tidyWait"
      BY <1>0, <1>2 DEF Goto, TypeOK, AtWork
    <2>2. q \in Uploads => holds[q] = {}
      BY <1>0, <1>2 DEF HoldersAtWork, KeyLocked, AtWork, InApi, Waiting, Over, Places
    <2> QED
      BY <1>0, <1>2, <2>1, <2>2 DEF Orderly
  <1> QED
    BY <1>1, <1>2

LEMMA PauseOrderly ==
  ASSUME HoldersAtWork, UNCHANGED <<pc, shared, exclusive, holds>>
  PROVE  \A q \in Requests : Orderly(q)
  BY StillOrderly

LEMMA UploadOrderly ==
  ASSUME TypeOK, HoldersAtWork, NEW u \in Uploads, UploadStep(u)
  PROVE  \A q \in Requests : Orderly(q)
  <1>0. u \in Requests
    BY DEF Requests, Api
  <1>1. CASE LockShared(u, "arrived", "staging")
    BY <1>0, <1>1, GrantOrderly DEF AtWork, InApi, Waiting, Over, Places
  <1>2. CASE Stage(u)
    BY <1>0, <1>2, AtWorkIs, MoveOrderly DEF Stage, locks, KeyLocked
  <1>3. CASE StageStops(u)
    <2>1. EndTransaction({u}) /\ Goto(u, "discarding")
      BY <1>3 DEF StageStops
    <2> QED
      BY <1>0, <2>1, EndToOrderly DEF AtWork, InApi, Over
  <1>4. CASE AcquireKeyLock(u)
    <2> SUFFICES ASSUME NEW q \in Requests PROVE Orderly(q)
      OBVIOUS
    <2>1. pc' = pc /\ pc[u] = "locking" /\ UNCHANGED <<shared, exclusive>>
      BY <1>4 DEF AcquireKeyLock
    <2>2. \A v \in Uploads \ {u} : holds'[v] = holds[v]
      BY <1>4 DEF AcquireKeyLock, TypeOK
    <2> QED
      BY <2>1, <2>2 DEF HoldersAtWork, Orderly, KeyLocked
  <1>5. CASE Refuse(u)
    <2>1. EndTransaction({u}) /\ Goto(u, "discarding")
      BY <1>5 DEF Refuse
    <2> QED
      BY <1>0, <2>1, EndToOrderly DEF AtWork, InApi, Over
  <1>6. CASE InsertLead(u)
    BY <1>0, <1>6, AtWorkIs, MoveOrderly DEF InsertLead, LocksHeld, locks, KeyLocked
  <1>7. CASE Promote(u)
    <2>1. CASE Raise(u)
      BY <1>0, <2>1, RaiseOrderly
    <2>2. CASE pc[u] = "promoting" /\ Goto(u, "committing") /\ UNCHANGED locks
      BY <1>0, <2>2, AtWorkIs, MoveOrderly DEF locks, KeyLocked
    <2> QED
      BY <1>7, <2>1, <2>2 DEF Promote
  <1>8. CASE CommitUpload(u)
    <2>1. EndTransaction({u}) /\ Goto(u, "discarding")
      BY <1>8 DEF CommitUpload
    <2> QED
      BY <1>0, <2>1, EndToOrderly DEF AtWork, InApi, Over
  <1>9. CASE Discard(u)
    <2> SUFFICES ASSUME NEW q \in Requests PROVE Orderly(q)
      OBVIOUS
    <2>1. pc[u] = "discarding" /\ Goto(u, "done") /\ UNCHANGED locks
      BY <1>9 DEF Discard
    <2>2. CASE q # u
      BY <2>1, <2>2, StillOrderly DEF Goto, TypeOK, locks
    <2>3. CASE q = u
      <3>1. pc'[q] = "done" /\ "done" \notin AtWork /\ "discarding" \notin AtWork
        BY <1>0, <2>1, <2>3 DEF Goto, TypeOK, AtWork, InApi, Over
      <3>2. u \notin shared \cup exclusive /\ holds[u] = {}
        BY <2>1, <3>1 DEF HoldersAtWork, KeyLocked
      <3> QED
        BY <2>1, <2>3, <3>1, <3>2 DEF Orderly, locks
    <2> QED
      BY <2>2, <2>3
  <1> QED
    BY <1>1, <1>2, <1>3, <1>4, <1>5, <1>6, <1>7, <1>8, <1>9 DEF UploadStep

LEMMA RecoverOrderly ==
  ASSUME HoldersAtWork, NEW r \in Requests, RecoverStep(r)
  PROVE  \A q \in Requests : Orderly(q)
  BY PauseOrderly DEF RecoverStep, RecoverObject, RecoverLook, locks

\* Administrators' requests and cleanups are no uploads: they have no key locks.
LEMMA RemovalOrderly ==
  ASSUME ConstantsAssumption, TypeOK, HoldersAtWork, NEW r \in Removals, RemovalStep(r)
  PROVE  \A q \in Requests : Orderly(q)
  <1>0. r \in Requests /\ r \notin Uploads
    BY DEF Requests, Api, Admin, ConstantsAssumption
  <1>1. ASSUME NEW w \in {"prepareWait", "purgeWait", "repairWait"},
               NEW g \in {"preparing", "purging", "repairing"}, LockExclusive(r, w, g)
        PROVE  \A q \in Requests : Orderly(q)
    <2>1. w \notin AtWork /\ g \in AtWork
      BY AtWorkIs DEF Recovering
    <2> QED
      BY <1>0, <1>1, <2>1, GrantOrderly
  <1>2. CASE Prepared(r)
    BY <1>0, <1>2, AtWorkIs, MoveOrderly DEF Prepared, Recovered, Recovering, locks
  <1>3. CASE SelectFiles(r)
    BY <1>0, <1>3, AtWorkIs, MoveOrderly DEF SelectFiles, locks
  <1>4. ASSUME NEW f \in Files, Quarantine(r, f) PROVE \A q \in Requests : Orderly(q)
    <2>1. CASE Raise(r)
      BY <1>0, <2>1, RaiseOrderly
    <2>2. CASE UNCHANGED <<locks, pc>>
      BY <2>2, PauseOrderly DEF locks
    <2> QED
      BY <1>4, <2>1, <2>2 DEF Quarantine
  <1>5. CASE CommitRemoval(r)
    <2>1. PICK p \in {"purgeWait", "repairWait"} : EndTransaction({r}) /\ Goto(r, p)
      BY <1>5 DEF CommitRemoval
    <2> QED
      BY <1>0, <2>1, EndToOrderly DEF AtWork, InApi, Waiting
  <1>6. CASE Purged(r)
    <2>1. EndTransaction({r}) /\ Goto(r, "done")
      BY <1>6 DEF Purged
    <2> QED
      BY <1>0, <2>1, EndToOrderly DEF AtWork, InApi, Over
  <1> QED
    BY <1>0, <1>1, <1>2, <1>3, <1>4, <1>5, <1>6, RecoverOrderly DEF RemovalStep

LEMMA DownloadOrderly ==
  ASSUME ConstantsAssumption, TypeOK, HoldersAtWork, NEW d \in Downloads, DownloadStep(d)
  PROVE  \A q \in Requests : Orderly(q)
  <1>0. d \in Requests /\ d \notin Uploads
    BY DEF Requests, Api, Admin, ConstantsAssumption
  <1>1. CASE LockExclusive(d, "restoreWait", "restoring")
    <2>1. "restoreWait" \notin AtWork /\ "restoring" \in AtWork
      BY AtWorkIs DEF Recovering
    <2> QED
      BY <1>0, <1>1, <2>1, GrantOrderly
  <1>2. CASE Restored(d)
    <2>1. EndTransaction({d}) /\ Goto(d, "openWait")
      BY <1>2 DEF Restored
    <2> QED
      BY <1>0, <2>1, EndToOrderly DEF AtWork, InApi, Waiting
  <1>3. CASE LockShared(d, "openWait", "opening")
    <2>1. "openWait" \notin AtWork /\ "opening" \in AtWork
      BY AtWorkIs DEF Recovering
    <2> QED
      BY <1>0, <1>3, <2>1, GrantOrderly
  <1>4. CASE OpenFile(d)
    <2>1. CASE Raise(d)
      BY <1>0, <2>1, RaiseOrderly
    <2>2. CASE pc[d] = "opening" /\ Goto(d, "streaming") /\ UNCHANGED locks
      BY <1>0, <2>2, AtWorkIs, MoveOrderly DEF locks
    <2>3. CASE EndTransaction({d}) /\ Goto(d, "done")
      BY <1>0, <2>3, EndToOrderly DEF AtWork, InApi, Over
    <2> QED
      BY <1>4, <2>1, <2>2, <2>3 DEF OpenFile
  <1>5. CASE CloseStream(d)
    <2>1. EndTransaction({d}) /\ Goto(d, "done")
      BY <1>5 DEF CloseStream
    <2> QED
      BY <1>0, <2>1, EndToOrderly DEF AtWork, InApi, Over
  <1> QED
    BY <1>0, <1>1, <1>2, <1>3, <1>4, <1>5, RecoverOrderly DEF DownloadStep

LEMMA CleanupOrderly ==
  ASSUME ConstantsAssumption, TypeOK, HoldersAtWork, NEW c \in Cleanups, CleanupStep(c)
  PROVE  \A q \in Requests : Orderly(q)
  <1>0. c \in Requests /\ c \notin Uploads
    BY DEF Requests, Api, ConstantsAssumption
  <1>1. CASE LockExclusive(c, "tidyWait", "tidying")
    <2>1. "tidyWait" \notin AtWork /\ "tidying" \in AtWork
      BY AtWorkIs DEF Recovering
    <2> QED
      BY <1>0, <1>1, <2>1, GrantOrderly
  <1>2. CASE Tidied(c)
    BY <1>0, <1>2, AtWorkIs, MoveOrderly DEF Tidied, Recovered, Recovering, locks
  <1>3. ASSUME NEW u \in Uploads, SweepLook(c, u) PROVE \A q \in Requests : Orderly(q)
    BY <1>3, PauseOrderly DEF SweepLook, locks
  <1>4. CASE SweepCheck(c)
    <2>1. CASE Raise(c)
      BY <1>0, <2>1, RaiseOrderly
    <2>2. CASE UNCHANGED <<locks, pc>>
      BY <2>2, PauseOrderly DEF locks
    <2>3. CASE pc[c] = "sweeping" /\ Goto(c, "deleting") /\ UNCHANGED locks
      BY <1>0, <2>3, AtWorkIs, MoveOrderly DEF locks
    <2> QED
      BY <1>4, <2>1, <2>2, <2>3 DEF SweepCheck
  <1>5. CASE SweepDelete(c)
    <2>1. CASE Raise(c)
      BY <1>0, <2>1, RaiseOrderly
    <2>2. CASE pc[c] = "deleting" /\ Goto(c, "sweeping") /\ UNCHANGED locks
      BY <1>0, <2>2, AtWorkIs, MoveOrderly DEF locks
    <2> QED
      BY <1>5, <2>1, <2>2 DEF SweepDelete
  <1>6. CASE SweepNext(c)
    <2>1. CASE UNCHANGED <<locks, pc>>
      BY <2>1, PauseOrderly DEF locks
    <2>2. CASE EndTransaction({c}) /\ Goto(c, "done")
      BY <1>0, <2>2, EndToOrderly DEF AtWork, InApi, Over
    <2> QED
      BY <1>6, <2>1, <2>2 DEF SweepNext
  <1> QED
    BY <1>0, <1>1, <1>2, <1>3, <1>4, <1>5, <1>6, RecoverOrderly DEF CleanupStep

LEMMA CrashOrderly ==
  ASSUME TypeOK, HoldersAtWork, NEW process, Crash(process)
  PROVE  \A q \in Requests : Orderly(q)
  <1> DEFINE dying == {r \in process : pc[r] \notin {"arrived", "new", "done", "dead"}}
  <1>1. EndTransaction(dying) /\ pc' = [r \in Requests |-> IF r \in dying THEN "dead" ELSE pc[r]]
    BY DEF Crash
  <1>2. "dead" \notin AtWork \cup {"tidyWait"}
    BY DEF AtWork, InApi, Over
  <1> HIDE DEF dying
  <1> QED
    BY <1>1, <1>2, EndOrderly

\* An administrator's request goes from one wait to the next.
LEMMA AskOrderly ==
  ASSUME TypeOK, HoldersAtWork, NEW r \in Requests \ Uploads, pc[r] = "new",
         NEW p \in {"prepareWait", "restoreWait"}, Goto(r, p), UNCHANGED <<shared, exclusive, holds>>
  PROVE  \A q \in Requests : Orderly(q)
  <1> SUFFICES ASSUME NEW q \in Requests PROVE Orderly(q)
    OBVIOUS
  <1>1. CASE q # r
    BY <1>1, StillOrderly DEF Goto, TypeOK
  <1>2. CASE q = r
    <2>1. pc'[q] = p /\ p \notin AtWork \cup {"tidyWait"} /\ "new" \notin AtWork
      BY <1>2 DEF Goto, TypeOK, AtWork, InApi, Waiting, Over
    <2> QED
      BY <1>2, <2>1 DEF HoldersAtWork, Orderly
  <1> QED
    BY <1>1, <1>2

LEMMA EnvironmentOrderly ==
  ASSUME ConstantsAssumption, TypeOK, HoldersAtWork, Environment
  PROVE  \A q \in Requests : Orderly(q)
  <1>1. ASSUME NEW u \in Uploads, Age(u) PROVE \A q \in Requests : Orderly(q)
    BY <1>1, PauseOrderly DEF Age, locks
  <1>2. ASSUME NEW r \in Removals, AskRemoval(r) PROVE \A q \in Requests : Orderly(q)
    <2>1. r \in Requests \ Uploads
      BY DEF Requests, Api, Admin, ConstantsAssumption
    <2> QED
      BY <1>2, <2>1, AskOrderly DEF AskRemoval, locks
  <1>3. ASSUME NEW d \in Downloads, AskDownload(d) PROVE \A q \in Requests : Orderly(q)
    <2>1. d \in Requests \ Uploads
      BY DEF Requests, Api, Admin, ConstantsAssumption
    <2> QED
      BY <1>3, <2>1, AskOrderly DEF AskDownload, locks
  <1>4. ASSUME NEW r \in Requests, Fail(r) PROVE \A q \in Requests : Orderly(q)
    BY <1>4, RaiseOrderly DEF Fail
  <1>5. ASSUME NEW r \in Requests, Drop(r) PROVE \A q \in Requests : Orderly(q)
    <2> SUFFICES ASSUME NEW q \in Requests PROVE Orderly(q)
      OBVIOUS
    <2>1. pc' = pc /\ shared' \subseteq shared /\ exclusive' \subseteq exclusive
      BY <1>5 DEF Drop
    <2>2. q \in Uploads /\ holds'[q] # {} => holds[q] # {}
      BY <1>5 DEF Drop
    <2> QED
      BY <2>1, <2>2, StillOrderly
  <1> QED
    BY <1>1, <1>2, <1>3, <1>4, <1>5, CrashOrderly DEF Environment

LEMMA NextOrderly ==
  ASSUME ConstantsAssumption, TypeOK, HoldersAtWork, [Next]_vars
  PROVE  \A q \in Requests : Orderly(q)
  <1>1. CASE UNCHANGED vars
    BY <1>1, PauseOrderly DEF vars, locks
  <1> QED
    BY <1>1, UploadOrderly, RemovalOrderly, DownloadOrderly, CleanupOrderly, EnvironmentOrderly
       DEF Next, Rest

-----------------------------------------------------------------------------

LEMMA InitPool == ASSUME ConstantsAssumption, PoolInit PROVE PoolInv
  <1>1. Init /\ connected = {}
    BY DEF PoolInit
  <1>2. HoldersAtWork
    BY <1>1 DEF Init, HoldersAtWork
  <1>3. IsFiniteSet(connected) /\ Cardinality(connected) = 0
    BY <1>1, FS_EmptySet
  <1>4. \A r \in Api : pc[r] \in {"arrived", "new"}
    BY <1>1 DEF Init, Requests, Api, Admin, ConstantsAssumption
  <1>5. "arrived" \notin AtWork /\ "new" \notin AtWork
    BY DEF AtWork, InApi, Waiting, Over
  <1> QED
    BY <1>1, <1>2, <1>3, <1>4, <1>5, PoolAssumption DEF PoolInv, Pool

\* Fewer connections are out, of a pool that was large enough.
LEMMA FewerConnected ==
  ASSUME Pool, NEW D \in SUBSET connected
  PROVE  IsFiniteSet(D) /\ Cardinality(D) <= PoolSize
  <1>1. IsFiniteSet(D) /\ Cardinality(D) \in Nat /\ Cardinality(connected) \in Nat
        /\ Cardinality(D) <= Cardinality(connected)
    BY FS_Subset, FS_CardinalityType DEF Pool
  <1> QED
    BY <1>1, PoolAssumption DEF Pool

LEMMA CheckoutPool ==
  ASSUME PoolInv, NEW r \in Api, Checkout(r)
  PROVE  PoolInv'
  <1>1. HoldersAtWork'
    BY DEF PoolInv, HoldersAtWork, Checkout, vars, locks, AtWork
  <1>2. connected' = connected \cup {r} /\ r \notin connected /\ IsFiniteSet(connected)
        /\ pc' = pc /\ Cardinality(connected) < PoolSize
    BY DEF PoolInv, Pool, Checkout, vars
  <1>3. IsFiniteSet(connected') /\ Cardinality(connected') = Cardinality(connected) + 1
    BY <1>2, FS_AddElement
  <1>4. Cardinality(connected') <= PoolSize
    BY <1>2, <1>3, FS_CardinalityType, PoolAssumption
  <1>5. pc[r] \in Waiting
    BY DEF Checkout
  <1> QED
    BY <1>1, <1>2, <1>3, <1>4, <1>5 DEF PoolInv, Pool

LEMMA StepPool ==
  ASSUME ConstantsAssumption, TypeOK, TypeOK', PoolInv, [Next]_vars, Pooled \/ UNCHANGED poolVars
  PROVE  PoolInv'
  <1>0. \A q \in Requests : Orderly(q)
    BY NextOrderly DEF PoolInv
  <1>1. HoldersAtWork'
    BY <1>0 DEF HoldersAtWork, Orderly, TypeOK, Requests, Api
  <1>2. connected' \subseteq connected
    BY DEF Pooled, Kept, poolVars
  <1>3. connected' \subseteq Api /\ IsFiniteSet(connected') /\ Cardinality(connected') <= PoolSize
    BY <1>2, FewerConnected DEF PoolInv, Pool
  <1>4. Api \subseteq Requests
    BY DEF Requests
  <1>5. \A r \in Api : pc'[r] # "tidyWait"
    BY <1>0, <1>4 DEF Orderly, PoolInv, Pool
  <1>6. ASSUME NEW r \in connected' PROVE pc'[r] \in Waiting \cup AtWork
    <2>1. r \in connected /\ r \in Requests /\ pc'[r] # "tidyWait" /\ pc'[r] \in Places
      BY <1>2, <1>3, <1>4, <1>5 DEF TypeOK
    <2>2. pc'[r] = pc[r] \/ pc'[r] \notin InApi
      BY DEF Pooled, Kept, poolVars, vars
    <2> QED
      BY <2>1, <2>2 DEF PoolInv, Pool, AtWork
  <1>7. ASSUME NEW r \in Api, pc'[r] \in AtWork PROVE r \in connected'
    <2>1. pc'[r] \notin InApi
      BY <1>7 DEF AtWork
    <2>2. CASE UNCHANGED poolVars
      BY <1>7, <2>2 DEF poolVars, vars, PoolInv, Pool
    <2>3. CASE Pooled
      <3>1. r \in connected
        <4>1. CASE pc[r] \in AtWork
          BY <4>1 DEF PoolInv, Pool
        <4>2. CASE pc[r] \notin AtWork
          <5>1. r \in shared' \cup exclusive'
            BY <1>0, <1>4, <1>7, <4>2 DEF Orderly
          <5>2. r \notin shared \cup exclusive
            BY <4>2 DEF PoolInv, HoldersAtWork
          <5> QED
            BY <2>3, <5>1, <5>2 DEF Pooled
        <4> QED
          BY <4>1, <4>2
      <3> QED
        BY <2>1, <2>3, <3>1 DEF Pooled, Kept
    <2> QED
      BY <2>2, <2>3
  <1> QED
    BY <1>1, <1>3, <1>5, <1>6, <1>7 DEF PoolInv, Pool, AtWork, Waiting, InApi, Over, Places, Recovering

\* Handlers hold locks and connections only where they are at work, and the pool
\* never gives out more than it has.
THEOREM PoolInvariant == PoolSpec => []PoolInv
  <1>1. PoolInit => PoolInv
    BY InitPool, ConstantsAssumption
  <1>2. TypeOK /\ TypeOK' /\ PoolInv /\ [PoolNext]_poolVars => PoolInv'
    <2> SUFFICES ASSUME TypeOK, TypeOK', PoolInv, [PoolNext]_poolVars PROVE PoolInv'
      OBVIOUS
    <2>1. ASSUME NEW r \in Api, Checkout(r) PROVE PoolInv'
      BY <2>1, CheckoutPool
    <2>2. CASE Next /\ Pooled
      BY <2>2, StepPool, ConstantsAssumption
    <2>3. CASE UNCHANGED poolVars
      <3>1. UNCHANGED vars
        BY <2>3 DEF poolVars
      <3> QED
        BY <2>3, <3>1, StepPool, ConstantsAssumption
    <2> QED
      BY <2>1, <2>2, <2>3 DEF PoolNext
  <1>3. PoolSpec => []TypeOK
    BY PoolIsStorage, TypeCorrect, PTL
  <1> QED
    BY <1>1, <1>2, <1>3, PTL DEF PoolSpec

\* While anybody is under way, somebody waits for nobody: who waits for a key
\* lock waits for an upload under way, in no circle; when no upload does, all
\* that wait have no storage lock, so it is free; and of those who have the
\* connections the others wait for, nobody waits.
LEMMA SomebodyGoesOn ==
  ASSUME ConstantsAssumption, TypeOK, NoLockCycle, PoolInv
  PROVE  NoGridlock
  <1> SUFFICES ASSUME Underway # {},
                      \A r \in Underway : AwaitsConnection(r) \/ AwaitsStorageLock(r) \/ AwaitsKeyLock(r)
               PROVE  FALSE
    BY DEF NoGridlock
  <1> DEFINE L == {u \in Uploads : AwaitsKeyLock(u)}
  <1>1. AtWork \cap (Waiting \cup {"tidyWait"}) = {} /\ KeyLocked \subseteq AtWork
    BY AtWorkIs DEF AtWork, InApi, KeyLocked
  <1>2. \A r \in Requests : pc[r] \in AtWork => r \in Underway
    BY DEF Underway, AtWork, InApi, Over
  <1>3. \A r \in Requests : pc[r] \in AtWork => r \in L
    <2>1. \A r \in Requests : AwaitsConnection(r) \/ AwaitsStorageLock(r) => pc[r] \in Waiting \cup {"tidyWait"}
      BY DEF AwaitsConnection, AwaitsStorageLock, Waiting
    <2>2. \A r \in Requests : AwaitsKeyLock(r) => r \in L
      BY DEF AwaitsKeyLock
    <2> QED
      BY <1>1, <1>2, <2>1, <2>2
  <1>4. L = {}
    <2>1. L \subseteq Uploads
      OBVIOUS
    <2>2. \A u \in L : \E v \in L : Awaits(u, v)
      <3> SUFFICES ASSUME NEW u \in L PROVE \E v \in L : Awaits(u, v)
        OBVIOUS
      <3>1. PICK v \in Uploads : Awaits(u, v)
        BY DEF AwaitsKeyLock
      <3>2. pc[v] \in AtWork /\ v \in Requests
        BY <1>1, <3>1 DEF Awaits, PoolInv, HoldersAtWork, Requests, Api
      <3> QED
        BY <1>3, <3>1, <3>2
    <2>3. L \subseteq connected
      <3> SUFFICES ASSUME NEW u \in L PROVE u \in connected
        OBVIOUS
      <3>1. u \in Api /\ pc[u] = "locking"
        BY DEF AwaitsKeyLock, Awaits, Api
      <3> QED
        BY <1>1, <3>1 DEF PoolInv, Pool, KeyLocked
    <2>4. IsFiniteSet(L)
      BY <2>3, FewerConnected DEF PoolInv
    <2> HIDE DEF L
    <2> QED
      BY <2>1, <2>2, <2>4 DEF NoLockCycle
  <1>5. shared \cup exclusive = {}
    BY <1>3, <1>4 DEF PoolInv, HoldersAtWork, TypeOK
  <1>6. \A r \in Underway : AwaitsConnection(r)
    BY <1>4, <1>5 DEF AwaitsStorageLock, AwaitsKeyLock
  <1>7. connected # {}
    <2>1. Cardinality(connected) >= PoolSize
      BY <1>6 DEF AwaitsConnection
    <2> QED
      BY <2>1, FS_EmptySet, PoolAssumption
  <1>8. PICK q : q \in connected
    BY <1>7
  <1>9. q \in Requests /\ pc[q] \in Waiting \cup AtWork
    BY <1>8 DEF PoolInv, Pool, Requests
  <1>10. q \in Underway
    BY <1>2, <1>9 DEF Underway, Waiting
  <1> QED
    BY <1>6, <1>8, <1>10 DEF AwaitsConnection

\* Handlers that queue for connections, for the storage lock and for the locks of
\* keys and browsers are never all queueing: for any pool, any number of requests
\* and every fault.
THEOREM NeverGridlocked == PoolSpec => []NoGridlock
  <1>1. TypeOK /\ NoLockCycle /\ PoolInv => NoGridlock
    BY SomebodyGoesOn, ConstantsAssumption
  <1> QED
    BY <1>1, PoolInvariant, PoolIsStorage, TypeCorrect, LocksNeverCycle, PTL
=============================================================================
