-------------------------- MODULE BriefSystemProofs --------------------------
(***************************************************************************)
(* The form in front of the storage is the form in front of the register:  *)
(* what was proved of BriefForm holds of the whole system, and with what   *)
(* was proved of the storage it says what a visitor who is thanked can     *)
(* rely on.                                                                *)
(***************************************************************************)
EXTENDS LeadIntakeProofs, BriefSystem

Proved == INSTANCE BriefFormProofs

-----------------------------------------------------------------------------
(* What a step of the storage takes away, and who asked for it               *)

\* Nothing is asked for by a removal that has not begun.
NobodyNew == \A r \in Requests : pc'[r] = "new" => pc[r] = "new"

Traceable ==
  /\ \A r \in Removals : /\ target[r].lead \subseteq target'[r].lead
                         /\ target[r].files \subseteq target'[r].files
  /\ \A u \in leads \ leads' : \E r \in Removals : u \in target[r].lead
  /\ \A f \in rows \ rows' : \E r \in Removals : f \in target[r].files
  /\ \A u \in leads' \ leads : FilesOf(u) \subseteq rows'
  /\ \A u, v \in leads \ leads' : u = v
  /\ RemovalsFit'

LEMMA MoveIsNotNew ==
  ASSUME TypeOK, NEW r \in Requests, NEW p, p # "new", Goto(r, p)
  PROVE  NobodyNew
  BY DEF TypeOK, Goto, NobodyNew

LEMMA RaiseIsNotNew == ASSUME TypeOK, NEW r \in Requests, Raise(r) PROVE NobodyNew
  BY MoveIsNotNew DEF Raise

\* A step that leaves the tables and the targets alone takes nothing away.
LEMMA StillTraceable ==
  ASSUME RemovalsFit, NobodyNew, Removals \subseteq Requests, UNCHANGED <<leads, rows, target>>
  PROVE  Traceable
  BY DEF RemovalsFit, NobodyNew, Traceable

\* Which steps those are.
Bystander == NobodyNew /\ UNCHANGED <<leads, rows, target>>

LEMMA RaiseBystands == ASSUME TypeOK, NEW r \in Requests, Raise(r) PROVE Bystander
  BY RaiseIsNotNew DEF Raise, Bystander, db

LEMMA PauseBystands == ASSUME UNCHANGED <<pc, leads, rows, target>> PROVE Bystander
  BY DEF Bystander, NobodyNew

LEMMA MoveBystands ==
  ASSUME TypeOK, NEW r \in Requests, NEW p, p # "new", Goto(r, p), UNCHANGED <<leads, rows, target>>
  PROVE  Bystander
  BY MoveIsNotNew DEF Bystander

LEMMA UploadBystands ==
  ASSUME TypeOK, NEW u \in Uploads, UploadStep(u), ~CommitUpload(u)
  PROVE  Bystander
  <1>0. u \in Requests
    BY DEF Requests, Api
  <1>1. CASE LockShared(u, "arrived", "staging")
    BY <1>0, <1>1, MoveBystands DEF LockShared, db
  <1>2. CASE Stage(u)
    BY <1>0, <1>2, MoveBystands DEF Stage, db
  <1>3. CASE StageStops(u)
    BY <1>0, <1>3, MoveBystands DEF StageStops, db
  <1>4. CASE AcquireKeyLock(u)
    BY <1>4, PauseBystands DEF AcquireKeyLock, db
  <1>5. CASE Refuse(u)
    BY <1>0, <1>5, MoveBystands DEF Refuse, db
  <1>6. CASE InsertLead(u)
    BY <1>0, <1>6, MoveBystands DEF InsertLead, db
  <1>7. CASE Promote(u)
    <2>1. CASE Raise(u)
      BY <1>0, <2>1, RaiseBystands
    <2>2. CASE Goto(u, "committing") /\ UNCHANGED <<db, target>>
      BY <1>0, <2>2, MoveBystands DEF db
    <2> QED
      BY <1>7, <2>1, <2>2 DEF Promote
  <1>8. CASE Discard(u)
    BY <1>0, <1>8, MoveBystands DEF Discard, db
  <1> QED
    BY <1>1, <1>2, <1>3, <1>4, <1>5, <1>6, <1>7, <1>8 DEF UploadStep

LEMMA RecoverBystands == ASSUME NEW r, RecoverStep(r) PROVE Bystander
  BY PauseBystands DEF RecoverStep, RecoverObject, RecoverLook, db

LEMMA RemovalBystands ==
  ASSUME TypeOK, NEW r \in Removals, RemovalStep(r), ~CommitRemoval(r)
  PROVE  Bystander
  <1>0. r \in Requests
    BY DEF Requests, Api, Admin
  <1>1. ASSUME NEW w, NEW g \in {"preparing", "purging", "repairing"}, LockExclusive(r, w, g)
        PROVE  Bystander
    BY <1>0, <1>1, MoveBystands DEF LockExclusive, db
  <1>2. CASE Prepared(r)
    BY <1>0, <1>2, MoveBystands DEF Prepared, db
  <1>3. CASE SelectFiles(r)
    BY <1>0, <1>3, MoveBystands DEF SelectFiles, db
  <1>4. ASSUME NEW f \in Files, Quarantine(r, f) PROVE Bystander
    <2>1. CASE Raise(r)
      BY <1>0, <2>1, RaiseBystands
    <2>2. CASE UNCHANGED <<db, pc, target>>
      BY <2>2, PauseBystands DEF db
    <2> QED
      BY <1>4, <2>1, <2>2 DEF Quarantine
  <1>5. CASE Purged(r)
    BY <1>0, <1>5, MoveBystands DEF Purged, db
  <1> QED
    BY <1>1, <1>2, <1>3, <1>4, <1>5, RecoverBystands DEF RemovalStep

LEMMA DownloadBystands ==
  ASSUME TypeOK, NEW d \in Downloads, DownloadStep(d)
  PROVE  Bystander
  <1>0. d \in Requests
    BY DEF Requests, Api, Admin
  <1>1. CASE LockExclusive(d, "restoreWait", "restoring") \/ LockShared(d, "openWait", "opening")
    BY <1>0, <1>1, MoveBystands DEF LockExclusive, LockShared, db
  <1>2. CASE Restored(d)
    BY <1>0, <1>2, MoveBystands DEF Restored, db
  <1>3. CASE OpenFile(d)
    <2>1. CASE Raise(d)
      BY <1>0, <2>1, RaiseBystands
    <2>2. CASE Goto(d, "streaming") /\ UNCHANGED <<db, target>>
      BY <1>0, <2>2, MoveBystands DEF db
    <2>3. CASE Goto(d, "done") /\ UNCHANGED <<db, target>>
      BY <1>0, <2>3, MoveBystands DEF db
    <2> QED
      BY <1>3, <2>1, <2>2, <2>3 DEF OpenFile
  <1>4. CASE CloseStream(d)
    BY <1>0, <1>4, MoveBystands DEF CloseStream, db
  <1> QED
    BY <1>1, <1>2, <1>3, <1>4, RecoverBystands DEF DownloadStep

LEMMA CleanupBystands ==
  ASSUME TypeOK, NEW c \in Cleanups, CleanupStep(c)
  PROVE  Bystander
  <1>0. c \in Requests
    BY DEF Requests
  <1>1. CASE LockExclusive(c, "tidyWait", "tidying")
    BY <1>0, <1>1, MoveBystands DEF LockExclusive, db
  <1>2. CASE Tidied(c)
    BY <1>0, <1>2, MoveBystands DEF Tidied, db
  <1>3. ASSUME NEW u, SweepLook(c, u) PROVE Bystander
    BY <1>3, PauseBystands DEF SweepLook, db
  <1>4. CASE Raise(c)
    BY <1>0, <1>4, RaiseBystands
  <1>5. CASE UNCHANGED <<db, pc, target>>
    BY <1>5, PauseBystands DEF db
  <1>6. ASSUME NEW p \in {"deleting", "sweeping", "done"}, Goto(c, p), UNCHANGED <<db, target>>
        PROVE  Bystander
    BY <1>0, <1>6, MoveBystands DEF db
  <1>7. CASE SweepCheck(c)
    BY <1>4, <1>5, <1>6, <1>7 DEF SweepCheck
  <1>8. CASE SweepDelete(c)
    BY <1>4, <1>6, <1>8 DEF SweepDelete
  <1>9. CASE SweepNext(c)
    BY <1>5, <1>6, <1>9 DEF SweepNext
  <1> QED
    BY <1>1, <1>2, <1>3, <1>7, <1>8, <1>9, RecoverBystands DEF CleanupStep

\* A removal asks for one thing, and for it alone.
LEMMA AskTraces ==
  ASSUME TypeOK, RemovalsFit, NEW r \in Removals, AskRemoval(r)
  PROVE  Traceable
  <1>0. r \in Requests /\ r \in Admin /\ Removals \subseteq Admin /\ Removals \subseteq Requests
    BY DEF Requests, Api, Admin
  <1>1. UNCHANGED <<leads, rows>> /\ target[r] = NoTarget
    BY DEF AskRemoval, db, RemovalsFit
  <1>2. \A s \in Removals \ {r} : target'[s] = target[s] /\ pc'[s] = pc[s]
    BY <1>0 DEF AskRemoval, TypeOK, Goto
  <1>3. pc'[r] = "prepareWait"
    BY <1>0 DEF AskRemoval, TypeOK, Goto
  <1>4. \A u, v \in target'[r].lead : u = v
    BY <1>0 DEF AskRemoval, TypeOK
  <1>5. RemovalsFit'
    BY <1>2, <1>3, <1>4 DEF RemovalsFit
  <1>6. \A s \in Removals : target[s].lead \subseteq target'[s].lead /\ target[s].files \subseteq target'[s].files
    BY <1>1, <1>2 DEF NoTarget
  <1> QED
    BY <1>1, <1>5, <1>6 DEF Traceable

LEMMA AskDownloadTraces ==
  ASSUME ConstantsAssumption, TypeOK, RemovalsFit, NEW d \in Downloads, AskDownload(d)
  PROVE  Traceable
  <1>0. Downloads \cap Removals = {} /\ Removals \subseteq Admin /\ Removals \subseteq Requests
    BY DEF ConstantsAssumption, Requests, Api, Admin
  <1>1. UNCHANGED <<leads, rows>>
    BY DEF AskDownload, db
  <1>2. \A s \in Removals : target'[s] = target[s] /\ pc'[s] = pc[s]
    BY <1>0 DEF AskDownload, TypeOK, Goto
  <1> QED
    BY <1>1, <1>2 DEF Traceable, RemovalsFit

LEMMA EnvironmentTraces ==
  ASSUME ConstantsAssumption, TypeOK, RemovalsFit, Environment
  PROVE  Traceable
  <1>0. Removals \subseteq Requests
    BY DEF Requests, Api, Admin
  <1>1. ASSUME NEW u \in Uploads, Age(u) PROVE Traceable
    BY <1>0, <1>1, PauseBystands, StillTraceable DEF Age, db, Bystander
  <1>2. ASSUME NEW r \in Requests, Fail(r) PROVE Traceable
    BY <1>0, <1>2, RaiseBystands, StillTraceable DEF Fail, Bystander
  <1>3. ASSUME NEW r \in Requests, Drop(r) PROVE Traceable
    BY <1>0, <1>3, PauseBystands, StillTraceable DEF Drop, db, Bystander
  <1>4. ASSUME NEW process, Crash(process) PROVE Traceable
    <2>1. NobodyNew /\ UNCHANGED <<leads, rows, target>>
      BY <1>4 DEF Crash, NobodyNew, db
    <2> QED
      BY <1>0, <2>1, StillTraceable
  <1> QED
    BY <1>1, <1>2, <1>3, <1>4, AskTraces, AskDownloadTraces DEF Environment

LEMMA CommitTraces ==
  ASSUME TypeOK, RemovalsFit, NEW u \in Uploads, CommitUpload(u)
  PROVE  Traceable
  <1>0. u \in Requests /\ Removals \subseteq Requests
    BY DEF Requests, Api, Admin
  <1>1. NobodyNew /\ UNCHANGED target
    BY <1>0, MoveIsNotNew DEF CommitUpload
  <1>2. RemovalsFit'
    BY <1>0, <1>1 DEF NobodyNew, RemovalsFit
  <1>3. leads' = leads \cup {u} /\ rows' = rows \cup FilesOf(u)
    BY DEF CommitUpload
  <1>4. leads \ leads' = {} /\ rows \ rows' = {}
    BY <1>3
  <1>5. \A v \in leads' \ leads : FilesOf(v) \subseteq rows'
    BY <1>3
  <1> QED
    BY <1>1, <1>2, <1>4, <1>5 DEF Traceable

LEMMA RemovalTraces ==
  ASSUME TypeOK, RemovalsFit, NEW r \in Removals, CommitRemoval(r)
  PROVE  Traceable
  <1>0. r \in Requests /\ Removals \subseteq Requests
    BY DEF Requests, Api, Admin
  <1>1. NobodyNew /\ UNCHANGED target
    BY <1>0, MoveIsNotNew DEF CommitRemoval
  <1>2. RemovalsFit'
    BY <1>0, <1>1 DEF NobodyNew, RemovalsFit
  <1>3. rows' = rows \ target[r].files /\ leads' = leads \ target[r].lead
    BY DEF CommitRemoval
  <1>4. \A u, v \in leads \ leads' : u = v
    BY <1>3 DEF RemovalsFit
  <1>5. leads' \ leads = {} /\ leads \ leads' \subseteq target[r].lead /\ rows \ rows' \subseteq target[r].files
    BY <1>3
  <1> QED
    BY <1>1, <1>2, <1>4, <1>5 DEF Traceable

\* Whatever is taken away has been asked for, by a removal that names it still.
LEMMA NextTraces ==
  ASSUME ConstantsAssumption, TypeOK, RemovalsFit, [Next]_vars
  PROVE  Traceable
  <1>0. Removals \subseteq Requests
    BY DEF Requests, Api, Admin
  <1>1. ASSUME Bystander PROVE Traceable
    BY <1>0, <1>1, StillTraceable DEF Bystander
  <1>2. CASE UNCHANGED vars
    BY <1>1, <1>2, PauseBystands DEF vars, db
  <1>3. ASSUME NEW u \in Uploads, UploadStep(u) PROVE Traceable
    BY <1>1, <1>3, UploadBystands, CommitTraces
  <1>4. ASSUME NEW r \in Removals, RemovalStep(r) PROVE Traceable
    BY <1>1, <1>4, RemovalBystands, RemovalTraces
  <1>5. ASSUME NEW d \in Downloads, DownloadStep(d) PROVE Traceable
    BY <1>1, <1>5, DownloadBystands
  <1>6. ASSUME NEW c \in Cleanups, CleanupStep(c) PROVE Traceable
    BY <1>1, <1>6, CleanupBystands
  <1> QED
    BY <1>2, <1>3, <1>4, <1>5, <1>6, EnvironmentTraces DEF Next, Rest

-----------------------------------------------------------------------------
(* The inductive invariant                                                   *)

\* Where a send is, seen from the form.
LEMMA WireIs ==
  ASSUME NEW p \in Uploads
  PROVE  /\ wire[p] = "unsent" <=> p \notin sent
         /\ wire[p] = "out" <=> p \in sent /\ told[p] = "none"
         /\ wire[p] = "announcing" <=> p \in sent /\ told[p] = "accepted" /\ p \notin notified
         /\ wire[p] \in {"unsent", "out", "announcing", "answered"}
  BY DEF wire

\* What the register's steps do: an answer is given once, with the lead it is about.
LEMMA ServesOnce ==
  ASSUME [Register!Next]_<<Carried, leads, Told>>
  PROVE  /\ \A u \in Uploads : reply'[u] # reply[u] => reply[u] = "none"
         /\ \A u \in leads' \ leads : u \in Uploads /\ reply'[u] # "none" /\ reply[u] = "none"
  <1>0. \A u \in Uploads : Told[u] = reply[u] /\ Told'[u] = reply'[u]
    BY DEF Told
  <1>1. CASE UNCHANGED <<Carried, leads, Told>>
    BY <1>0, <1>1
  <1>2. ASSUME NEW p \in Uploads, Register!Serve(p)
        PROVE  /\ Told[p] = "none"
               /\ leads' \ leads \subseteq {p}
               /\ \E a : a # "none" /\ Told' = [Told EXCEPT ![p] = a]
    BY <1>2 DEF Told, Register!Serve, Register!Accept, Register!Repeat, Register!Conflict,
                Register!Already, Register!Reject, Register!Break
  <1>3. ASSUME NEW D, Register!Delete(D) PROVE leads' \subseteq leads /\ Told' = Told
    BY <1>3 DEF Register!Delete, Told
  <1>4. ASSUME NEW p \in Uploads, Register!Serve(p)
        PROVE  /\ \A u \in Uploads : reply'[u] # reply[u] => reply[u] = "none"
               /\ \A u \in leads' \ leads : u \in Uploads /\ reply'[u] # "none" /\ reply[u] = "none"
    <2>1. PICK a : a # "none" /\ Told' = [Told EXCEPT ![p] = a]
      BY <1>2, <1>4
    <2>2. \A u \in Uploads : Told'[u] = IF u = p THEN a ELSE Told[u]
      BY <2>1 DEF Told
    <2> QED
      BY <1>0, <1>2, <1>4, <2>1, <2>2
  <1> QED
    BY <1>0, <1>1, <1>3, <1>4 DEF Register!Next

LEMMA StorageSystem ==
  ASSUME ConstantsAssumption, TypeOK, TypeOK', IntakeInv, SystemInv, StorageStep
  PROVE  SystemInv'
  <1>1. [Next]_vars
    BY DEF StorageStep
  <1>2. Traceable
    BY <1>1, NextTraces DEF SystemInv
  <1>3. [Register!Next]_<<Carried, leads, Told>>
    BY <1>1, NextRegister
  <1>4. /\ \A u \in Uploads : reply'[u] # reply[u] => reply[u] = "none"
        /\ \A u \in leads' \ leads : u \in Uploads /\ reply'[u] # "none" /\ reply[u] = "none"
    BY <1>3, ServesOnce
  <1>5. ever' = ever \cup leads' /\ UNCHANGED <<sent, refused, notified>>
    BY DEF StorageStep, flow
  <1>6. ServedWereSent'
    <2>1. refused' \subseteq sent' /\ sent' \subseteq Uploads /\ leads' \subseteq ever' /\ ever' \subseteq Uploads
      BY <1>5 DEF SystemInv, ServedWereSent, TypeOK
    <2>2. ASSUME NEW u \in Uploads, u \notin sent' \ refused' PROVE pc'[u] = "arrived" /\ reply'[u] = "none"
      BY <1>5, <2>2 DEF SystemInv, ServedWereSent, StorageStep
    <2>3. ASSUME NEW u \in ever' PROVE reply'[u] # "none"
      BY <1>4, <1>5, <2>1 DEF SystemInv, ServedWereSent
    <2>4. ASSUME NEW p \in notified' PROVE p \in Uploads /\ reply'[p] = "accepted"
      BY <1>4, <1>5, <2>4 DEF SystemInv, ServedWereSent
    <2> QED
      BY <2>1, <2>2, <2>3, <2>4 DEF ServedWereSent
  <1>7. ASSUME NEW u \in ever'
        PROVE  /\ u \in leads' \/ \E r \in Removals : u \in target'[r].lead
               /\ \A f \in FilesOf(u) : f \in rows' \/ \E r \in Removals : f \in target'[r].files
    <2>1. CASE u \in ever
      <3>1. /\ u \in leads \/ \E r \in Removals : u \in target[r].lead
            /\ \A f \in FilesOf(u) : f \in rows \/ \E r \in Removals : f \in target[r].files
        BY <2>1 DEF SystemInv, EverTraced
      <3> QED
        BY <1>2, <3>1 DEF Traceable
    <2>2. CASE u \notin ever
      <3>1. u \in leads' \ leads
        BY <1>5, <2>2 DEF SystemInv, ServedWereSent
      <3> QED
        BY <1>2, <3>1 DEF Traceable
    <2> QED
      BY <2>1, <2>2
  <1>8. EverTraced'
    BY <1>7 DEF EverTraced, FilesOf
  <1> QED
    BY <1>2, <1>6, <1>8 DEF SystemInv, Traceable

\* Steps of the page, the guard and the messenger leave the storage alone.
LEMMA StorageIsLeft ==
  ASSUME ServedWereSent', SystemInv, UNCHANGED <<vars, ever>>
  PROVE  SystemInv'
  BY DEF SystemInv, RemovalsFit, EverTraced, vars, db, FilesOf

LEMMA PageSystem == ASSUME SystemInv, PageStep PROVE SystemInv'
  <1>1. UNCHANGED ever
    BY DEF PageStep, Form!Open, Form!Close, Form!Edit, Form!ClearDraft, Form!Reload, Form!PostAnswered,
           Form!GiveUp, Form!ServeCheck, Form!CheckEnds, Form!CheckAnswered, Form!CheckFails, Form!Expire,
           Form!net, Form!register
  <1>2. UNCHANGED <<vars, flow>>
    BY DEF PageStep
  <1>3. ServedWereSent'
    BY <1>1, <1>2 DEF SystemInv, ServedWereSent, vars, db, flow
  <1> QED
    BY <1>1, <1>2, <1>3, StorageIsLeft

LEMMA SendSystem == ASSUME SystemInv, SendStep PROVE SystemInv'
  <1>1. UNCHANGED <<vars, refused, notified, ever>> /\ \E p \in Uploads : sent' = sent \cup {p}
    BY DEF SendStep, Form!Submit
  <1>2. ServedWereSent'
    BY <1>1 DEF SystemInv, ServedWereSent, vars, db
  <1> QED
    BY <1>1, <1>2, StorageIsLeft

LEMMA GuardSystem == ASSUME SystemInv, NEW p \in Uploads, GuardStep(p) PROVE SystemInv'
  <1>1. UNCHANGED <<vars, sent, notified, ever>> /\ refused' = refused \cup {p} /\ pc[p] = "arrived"
    BY DEF GuardStep, Form!GuardRefuses
  <1>2. p \in sent /\ reply[p] = "none"
    <2>1. wire[p] = "out"
      BY DEF GuardStep, Form!GuardRefuses
    <2> QED
      BY <2>1, WireIs DEF told, SystemInv, ServedWereSent
  <1>3. ServedWereSent'
    BY <1>1, <1>2 DEF SystemInv, ServedWereSent, vars, db
  <1> QED
    BY <1>1, <1>3, StorageIsLeft

LEMMA NotifySystem == ASSUME SystemInv, NEW p \in Uploads, NotifyStep(p) PROVE SystemInv'
  <1>1. UNCHANGED <<vars, sent, refused, ever>> /\ notified' = notified \cup {p}
    BY DEF NotifyStep, Form!Notify, Form!register
  <1>2. reply[p] = "accepted"
    <2>1. wire[p] = "announcing"
      BY DEF NotifyStep, Form!Notify
    <2> QED
      BY <2>1, WireIs DEF told
  <1>3. ServedWereSent'
    BY <1>1, <1>2 DEF SystemInv, ServedWereSent, vars, db
  <1> QED
    BY <1>1, <1>3, StorageIsLeft

\* The system is a system of LeadStorage.
LEMMA SystemIsStorage == SystemSpec => Spec
  <1>1. SystemInit => Init
    BY DEF SystemInit
  <1>2. [SystemNext]_systemVars => [Next]_vars
    BY DEF SystemNext, PageStep, SendStep, StorageStep, GuardStep, NotifyStep, systemVars
  <1> QED
    BY <1>1, <1>2, PTL DEF SystemSpec, Spec

\* Whatever was once committed is stored or was asked to be removed.
THEOREM SystemInvariant == SystemSpec => []SystemInv
  <1>1. ConstantsAssumption /\ SystemInit => SystemInv
    BY DEF SystemInit, Init, Form!Init, Form!Register!Init, SystemInv, ServedWereSent, RemovalsFit, EverTraced,
           NoTarget, Requests, Api, Admin, ConstantsAssumption
  <1>2. TypeOK /\ TypeOK' /\ IntakeInv /\ SystemInv /\ [SystemNext]_systemVars => SystemInv'
    <2> SUFFICES ASSUME TypeOK, TypeOK', IntakeInv, SystemInv, [SystemNext]_systemVars
                 PROVE  SystemInv'
      OBVIOUS
    <2>1. CASE UNCHANGED systemVars
      <3>1. UNCHANGED <<vars, ever, flow>>
        BY <2>1 DEF systemVars
      <3>2. ServedWereSent'
        BY <3>1 DEF SystemInv, ServedWereSent, vars, db, flow
      <3> QED
        BY <3>1, <3>2, StorageIsLeft
    <2> QED
      BY <2>1, ConstantsAssumption, PageSystem, SendSystem, GuardSystem, NotifySystem, StorageSystem DEF SystemNext
  <1> QED
    BY <1>1, <1>2, ConstantsAssumption, SystemIsStorage, TypeCorrect, IntakeInvariant, PTL DEF SystemSpec

-----------------------------------------------------------------------------
(* The system is the form in front of the register                           *)

\* The form's view of a send, with the storage's names and with its own.
LEMMA SameSends ==
  ASSUME SendsAreUploads, ServedWereSent, NEW p \in sent, NEW l \in sent
  PROVE  /\ brief[l].key = brief[p].key <=> KeyOf[l] = KeyOf[p]
         /\ brief[l].browser = brief[p].browser <=> BrowserOf[l] = BrowserOf[p]
         /\ brief[l].payload = brief[p].payload <=> PayloadOf[l] = PayloadOf[p]
         /\ brief[l] = brief[p] <=> Carried[l] = Carried[p]
         /\ brief[p].browser = 0 <=> BrowserOf[p] = NoBrowser
  <1>1. p \in Uploads /\ l \in Uploads
    BY DEF ServedWereSent
  <1>2. brief[p] = Carries[p] /\ brief[l] = Carries[l]
    BY <1>1 DEF brief
  <1>3. Carries[p] \in [key : Nat, browser : Nat, payload : Nat] /\ Carries[l] \in [key : Nat, browser : Nat, payload : Nat]
    BY <1>1 DEF SendsAreUploads
  <1>4. Carries[l] = Carries[p] <=> /\ Carries[l].key = Carries[p].key
                                    /\ Carries[l].browser = Carries[p].browser
                                    /\ Carries[l].payload = Carries[p].payload
    BY <1>3
  <1>5. Carried[l] = Carried[p] <=> KeyOf[l] = KeyOf[p] /\ BrowserOf[l] = BrowserOf[p] /\ PayloadOf[l] = PayloadOf[p]
    BY <1>1 DEF Carried
  <1> QED
    BY <1>1, <1>2, <1>4, <1>5 DEF SendsAreUploads

\* An answer of the register is one for the form.
LEMMA ServeRegister ==
  ASSUME SendsAreUploads, ServedWereSent, NEW p \in sent \ refused, Register!Serve(p),
         UNCHANGED <<sent, refused>>
  PROVE  Form!Register!Serve(p)
  <1>0. p \in Uploads /\ p \in sent /\ p \in Form!Posts
    BY DEF ServedWereSent, SendsAreUploads, Form!Posts
  <1>1. leads \subseteq sent
    BY DEF ServedWereSent
  <1>2. UNCHANGED brief
    BY DEF brief
  <1>3. told[p] = Told[p]
    BY <1>0 DEF told, Told
  <1>4. ASSUME NEW a, Told' = [Told EXCEPT ![p] = a] PROVE told' = [told EXCEPT ![p] = a]
    <2>1. \A u \in Uploads : Told'[u] = reply'[u] /\ Told[u] = reply[u]
      BY DEF Told
    <2>2. \A u \in Uploads : reply'[u] = IF u = p THEN a ELSE reply[u]
      BY <1>4, <2>1 DEF Told
    <2> QED
      BY <1>0, <2>2 DEF told
  <1>5. \A l \in leads : /\ brief[l].key = brief[p].key <=> KeyOf[l] = KeyOf[p]
                         /\ brief[l].browser = brief[p].browser <=> BrowserOf[l] = BrowserOf[p]
                         /\ brief[l] = brief[p] <=> Carried[l] = Carried[p]
    BY <1>1, SameSends
  <1>6. brief[p].browser = 0 <=> BrowserOf[p] = NoBrowser
    BY SameSends
  <1>7. Register!SameKey(p) = Form!Register!SameKey(p)
    BY <1>0, <1>1, <1>5 DEF Register!SameKey, Form!Register!SameKey, ServedWereSent
  <1>8. Register!SameBrowser(p) = Form!Register!SameBrowser(p)
    BY <1>0, <1>1, <1>5, <1>6 DEF Register!SameBrowser, Form!Register!SameBrowser, ServedWereSent, Form!None
  <1>9. CASE Register!Accept(p)
    BY <1>2, <1>3, <1>4, <1>7, <1>8, <1>9 DEF Register!Accept, Form!Register!Accept, Told, Form!Register!Serve
  <1>10. CASE Register!Repeat(p)
    BY <1>2, <1>3, <1>4, <1>5, <1>7, <1>10
       DEF Register!Repeat, Form!Register!Repeat, Told, Carried, Form!Register!Serve, Form!Register!SameKey
  <1>11. CASE Register!Conflict(p)
    BY <1>2, <1>3, <1>4, <1>5, <1>7, <1>11
       DEF Register!Conflict, Form!Register!Conflict, Told, Carried, Form!Register!Serve, Form!Register!SameKey
  <1>12. CASE Register!Already(p)
    BY <1>2, <1>3, <1>4, <1>7, <1>8, <1>12 DEF Register!Already, Form!Register!Already, Told, Form!Register!Serve
  <1>13. CASE Register!Reject(p)
    BY <1>2, <1>3, <1>4, <1>13 DEF Register!Reject, Form!Register!Reject, Told, Form!Register!Serve
  <1>14. CASE Register!Break(p)
    BY <1>2, <1>3, <1>4, <1>14 DEF Register!Break, Form!Register!Break, Told, Form!Register!Serve
  <1> QED
    BY <1>9, <1>10, <1>11, <1>12, <1>13, <1>14 DEF Register!Serve

\* A handler's answer is the service of a send ...
LEMMA ServeForm ==
  ASSUME SendsAreUploads, SystemInv, StorageStep, NEW p \in Uploads, Register!Serve(p)
  PROVE  Form!Next \/ UNCHANGED Form!vars
  <1>1. PICK a : a # "none" /\ Told' = [Told EXCEPT ![p] = a]
    BY DEF Told, Register!Serve, Register!Accept, Register!Repeat, Register!Conflict,
           Register!Already, Register!Reject, Register!Break
  <1>2. Told[p] = "none" /\ leads \subseteq leads'
    BY DEF Told, Register!Serve, Register!Accept, Register!Repeat, Register!Conflict,
           Register!Already, Register!Reject, Register!Break
  <1>3. \A u \in Uploads : Told[u] = reply[u] /\ Told'[u] = reply'[u]
    BY DEF Told
  <1>4. \A u \in Uploads : reply'[u] = IF u = p THEN a ELSE reply[u]
    BY <1>1, <1>3 DEF Told
  <1>5. reply[p] = "none"
    BY <1>2, <1>3
  <1>6. p \in sent \ refused
    BY <1>1, <1>4, <1>5 DEF StorageStep
  <1>7. UNCHANGED <<form, flow, deletions>> /\ ever' = ever \cup leads'
    BY <1>2 DEF StorageStep
  <1>8. UNCHANGED <<sent, refused, notified>>
    BY <1>7 DEF flow
  <1>9. Form!Register!Serve(p)
    BY <1>6, <1>8, ServeRegister DEF SystemInv, Carried, Told
  <1>10. told[p] = "none" /\ told'[p] = a /\ \A u \in Uploads \ {p} : told'[u] = told[u]
    BY <1>4, <1>5, <1>6, <1>8 DEF told
  <1>11. wire[p] = "out" /\ p \notin notified
    BY <1>5, <1>6, <1>10, WireIs DEF SystemInv, ServedWereSent
  <1>12. wire' = [wire EXCEPT ![p] = IF Form!Created(p) THEN "announcing" ELSE "answered"]
    BY <1>1, <1>6, <1>8, <1>10, <1>11 DEF wire, Form!Created
  <1>13. p \in Form!Posts
    BY DEF Form!Posts, SendsAreUploads
  <1>14. Form!ServePost(p)
    BY <1>7, <1>9, <1>11, <1>12 DEF Form!ServePost, form, Form!page, Form!jar
  <1> QED
    BY <1>13, <1>14 DEF Form!Next

\* ... a removal's commit deletes one lead, and any other step the form cannot see.
LEMMA DeleteForm ==
  ASSUME SendsAreUploads, SystemInv, StorageStep, Traceable, leads' \subseteq leads,
         \A u \in Uploads : reply'[u] = reply[u]
  PROVE  Form!Next \/ UNCHANGED Form!vars
  <1>1. UNCHANGED <<form, flow>> /\ ever' = ever \cup leads'
    BY DEF StorageStep
  <1>2. UNCHANGED <<sent, refused, notified>>
    BY <1>1 DEF flow
  <1>3. UNCHANGED <<brief, told>>
    BY <1>2 DEF brief, told
  <1>4. UNCHANGED wire
    BY <1>2, <1>3 DEF wire
  <1>5. UNCHANGED ever
    BY <1>1 DEF SystemInv, ServedWereSent
  <1>6. CASE leads' = leads
    <2>1. UNCHANGED deletions
      BY <1>6 DEF StorageStep
    <2> QED
      BY <1>1, <1>3, <1>4, <1>5, <1>6, <2>1 DEF Form!vars, Form!page, Form!jar, Form!net, Form!register, form
  <1>7. CASE leads' # leads
    <2>1. PICK l : l \in leads \ leads'
      BY <1>7
    <2>2. leads' = leads \ {l}
      BY <2>1 DEF Traceable
    <2>3. deletions < MaxDeletions /\ deletions' = deletions + 1
      BY <2>1 DEF StorageStep
    <2>4. l \in Form!Posts
      BY <2>1 DEF SystemInv, ServedWereSent, Form!Posts, SendsAreUploads
    <2>5. Form!Delete(l)
      BY <1>1, <1>3, <1>4, <1>5, <2>1, <2>2, <2>3
         DEF Form!Delete, Form!Register!Delete, Form!page, Form!jar, Form!net, form
    <2> QED
      BY <2>4, <2>5 DEF Form!Next
  <1> QED
    BY <1>6, <1>7

LEMMA StorageForm ==
  ASSUME SendsAreUploads, ConstantsAssumption, TypeOK, IntakeInv, SystemInv, StorageStep
  PROVE  Form!Next \/ UNCHANGED Form!vars
  <1>1. [Next]_vars
    BY DEF StorageStep
  <1>2. Traceable
    BY <1>1, NextTraces DEF SystemInv
  <1>3. [Register!Next]_<<Carried, leads, Told>>
    BY <1>1, NextRegister
  <1>4. ASSUME leads' \subseteq leads, Told' = Told PROVE Form!Next \/ UNCHANGED Form!vars
    <2>1. \A u \in Uploads : reply'[u] = reply[u]
      <3>1. \A u \in Uploads : Told[u] = reply[u] /\ Told'[u] = reply'[u]
        BY DEF Told
      <3> QED
        BY <1>4, <3>1
    <2> QED
      BY <1>2, <1>4, <2>1, DeleteForm
  <1>5. ASSUME NEW D, Register!Delete(D) PROVE leads' \subseteq leads /\ Told' = Told
    BY <1>5 DEF Register!Delete, Told
  <1> QED
    BY <1>3, <1>4, <1>5, ServeForm DEF Register!Next

LEMMA SystemStepsAreForms ==
  ASSUME SendsAreUploads, ConstantsAssumption, TypeOK, IntakeInv, SystemInv, [SystemNext]_systemVars
  PROVE  [Form!Next]_(Form!vars)
  <1>0. Uploads = Form!Posts
    BY DEF SendsAreUploads, Form!Posts
  <1>1. CASE UNCHANGED systemVars
    <2>1. UNCHANGED <<form, ever, deletions, leads, reply, sent, refused, notified>>
      BY <1>1 DEF systemVars, vars, db, flow
    <2>2. UNCHANGED <<brief, told>>
      BY <2>1 DEF brief, told
    <2>3. UNCHANGED wire
      BY <2>1, <2>2 DEF wire
    <2> QED
      BY <2>1, <2>2, <2>3 DEF Form!vars, Form!page, Form!jar, Form!net, Form!register, form
  <1>2. CASE PageStep
    BY <1>2 DEF PageStep, Form!Next, Form!Checks
  <1>3. CASE SendStep
    BY <1>3 DEF SendStep, Form!Next
  <1>4. CASE \E p \in Uploads : GuardStep(p) \/ NotifyStep(p)
    BY <1>0, <1>4 DEF GuardStep, NotifyStep, Form!Next
  <1>5. CASE StorageStep
    BY <1>5, StorageForm
  <1> QED
    BY <1>1, <1>2, <1>3, <1>4, <1>5 DEF SystemNext

\* What the visitor sees of the system is what BriefForm says, with the register
\* taken for the storage: no interleaving of handlers, no removal, cleanup or fault
\* behind the endpoint shows the page anything the register would not.
THEOREM SystemImplementsForm == SendsAreUploads => (SystemSpec => ImplementsForm)
  <1> SUFFICES ASSUME SendsAreUploads PROVE SystemSpec => ImplementsForm
    OBVIOUS
  <1>1. SystemInit => Form!Init
    BY DEF SystemInit
  <1>2. TypeOK /\ IntakeInv /\ SystemInv /\ [SystemNext]_systemVars => [Form!Next]_(Form!vars)
    BY SystemStepsAreForms, ConstantsAssumption
  <1> QED
    BY <1>1, <1>2, SystemInvariant, SystemIsStorage, TypeCorrect, IntakeInvariant, PTL
       DEF SystemSpec, ImplementsForm, Form!Spec

-----------------------------------------------------------------------------
(* What was proved of the form holds of the system                           *)

\* Form and Proved are one specification under two names.
LEMMA SameInit == Form!Init => Proved!Init
  BY DEF Form!Init, Proved!Init, Form!Register!Init, Proved!Register!Init, Form!NotAsked,
           Proved!NotAsked, Form!None, Proved!None, Form!NoBrief, Proved!NoBrief, Form!Posts,
           Proved!Posts, Form!Checks, Proved!Checks

LEMMA SameNext == [Form!Next]_(Form!vars) => [Proved!Next]_(Proved!vars)
  <1>1. ASSUME NEW t, Form!Open(t) PROVE Proved!Open(t)
    BY <1>1
       DEF Form!Open, Proved!Open, Form!Unused, Proved!Unused, Form!CheckAt, Proved!CheckAt,
           Form!Browser, Proved!Browser, Form!page, Proved!page, Form!jar, Proved!jar, Form!net,
           Proved!net, Form!register, Proved!register, Form!None, Proved!None, Form!Posts,
           Proved!Posts, Form!Checks, Proved!Checks
  <1>2. ASSUME NEW t, Form!Close(t) PROVE Proved!Close(t)
    BY <1>2
       DEF Form!Close, Proved!Close, Form!page, Proved!page, Form!jar, Proved!jar, Form!net,
           Proved!net, Form!register, Proved!register, Form!None, Proved!None, Form!Posts,
           Proved!Posts, Form!Checks, Proved!Checks
  <1>3. ASSUME NEW t, Form!Edit(t) PROVE Proved!Edit(t)
    BY <1>3
       DEF Form!Edit, Proved!Edit, Form!Editable, Proved!Editable, Form!Received, Proved!Received,
           Form!Sending, Proved!Sending, Form!NewVersion, Proved!NewVersion, Form!page, Proved!page,
           Form!jar, Proved!jar, Form!net, Proved!net, Form!register, Proved!register, Form!None,
           Proved!None, Form!Posts, Proved!Posts, Form!Checks, Proved!Checks
  <1>4. ASSUME NEW t, Form!ClearDraft(t) PROVE Proved!ClearDraft(t)
    BY <1>4
       DEF Form!ClearDraft, Proved!ClearDraft, Form!Editable, Proved!Editable, Form!Received,
           Proved!Received, Form!Sending, Proved!Sending, Form!page, Proved!page, Form!jar,
           Proved!jar, Form!net, Proved!net, Form!register, Proved!register, Form!None, Proved!None,
           Form!Posts, Proved!Posts, Form!Checks, Proved!Checks
  <1>5. ASSUME NEW t, Form!Submit(t) PROVE Proved!Submit(t)
    BY <1>5
       DEF Form!Submit, Proved!Submit, Form!Editable, Proved!Editable, Form!Received,
           Proved!Received, Form!Sending, Proved!Sending, Form!Unused, Proved!Unused,
           Form!AttemptKey, Proved!AttemptKey, Form!Browser, Proved!Browser, Form!page, Proved!page,
           Form!jar, Proved!jar, Form!net, Proved!net, Form!register, Proved!register, Form!None,
           Proved!None, Form!Posts, Proved!Posts, Form!Checks, Proved!Checks
  <1>6. ASSUME NEW t, Form!Reload(t) PROVE Proved!Reload(t)
    BY <1>6
       DEF Form!Reload, Proved!Reload, Form!NewVersion, Proved!NewVersion, Form!page, Proved!page,
           Form!jar, Proved!jar, Form!net, Proved!net, Form!register, Proved!register, Form!None,
           Proved!None, Form!Posts, Proved!Posts, Form!Checks, Proved!Checks
  <1>7. ASSUME NEW t, Form!PostAnswered(t) PROVE Proved!PostAnswered(t)
    BY <1>7
       DEF Form!PostAnswered, Proved!PostAnswered, Form!Sending, Proved!Sending, Form!Succeeded,
           Proved!Succeeded, Form!RenewCookie, Proved!RenewCookie, Form!CookieOfPost,
           Proved!CookieOfPost, Form!page, Proved!page, Form!jar, Proved!jar, Form!net, Proved!net,
           Form!register, Proved!register, Form!None, Proved!None, Form!Posts, Proved!Posts,
           Form!Checks, Proved!Checks
  <1>8. ASSUME NEW t, Form!GiveUp(t) PROVE Proved!GiveUp(t)
    BY <1>8
       DEF Form!GiveUp, Proved!GiveUp, Form!Sending, Proved!Sending, Form!Succeeded,
           Proved!Succeeded, Form!RenewCookie, Proved!RenewCookie, Form!CookieOfPost,
           Proved!CookieOfPost, Form!page, Proved!page, Form!jar, Proved!jar, Form!net, Proved!net,
           Form!register, Proved!register, Form!None, Proved!None, Form!Posts, Proved!Posts,
           Form!Checks, Proved!Checks
  <1>9. ASSUME NEW t, Form!ServeCheck(t) PROVE Proved!ServeCheck(t)
    BY <1>9
       DEF Form!ServeCheck, Proved!ServeCheck, Form!Submitted, Proved!Submitted, Form!page,
           Proved!page, Form!jar, Proved!jar, Form!net, Proved!net, Form!register, Proved!register,
           Form!None, Proved!None, Form!Posts, Proved!Posts, Form!Checks, Proved!Checks
  <1>10. ASSUME NEW t, Form!CheckEnds(t) PROVE Proved!CheckEnds(t)
    BY <1>10
       DEF Form!CheckEnds, Proved!CheckEnds, Form!CheckAnswered, Proved!CheckAnswered,
           Form!CheckFails, Proved!CheckFails, Form!Active, Proved!Active, Form!KeepCookie,
           Proved!KeepCookie, Form!Over, Proved!Over, Form!CookieOfCheck, Proved!CookieOfCheck,
           Form!page, Proved!page, Form!jar, Proved!jar, Form!net, Proved!net, Form!register,
           Proved!register, Form!None, Proved!None, Form!Posts, Proved!Posts, Form!Checks,
           Proved!Checks
  <1>11. ASSUME NEW t, Form!GuardRefuses(t) PROVE Proved!GuardRefuses(t)
    BY <1>11
       DEF Form!GuardRefuses, Proved!GuardRefuses, Form!Register!Reject, Proved!Register!Reject,
           Form!page, Proved!page, Form!jar, Proved!jar, Form!net, Proved!net, Form!register,
           Proved!register, Form!None, Proved!None, Form!Posts, Proved!Posts, Form!Checks,
           Proved!Checks
  <1>12. ASSUME NEW t, Form!ServePost(t) PROVE Proved!ServePost(t)
    BY <1>12
       DEF Form!ServePost, Proved!ServePost, Form!Created, Proved!Created, Form!Register!SameKey,
           Proved!Register!SameKey, Form!Register!SameBrowser, Proved!Register!SameBrowser,
           Form!Register!Accept, Proved!Register!Accept, Form!Register!Repeat,
           Proved!Register!Repeat, Form!Register!Conflict, Proved!Register!Conflict,
           Form!Register!Already, Proved!Register!Already, Form!Register!Reject,
           Proved!Register!Reject, Form!Register!Break, Proved!Register!Break, Form!Register!Serve,
           Proved!Register!Serve, Form!page, Proved!page, Form!jar, Proved!jar, Form!net,
           Proved!net, Form!register, Proved!register, Form!None, Proved!None, Form!Posts,
           Proved!Posts, Form!Checks, Proved!Checks
  <1>13. ASSUME NEW t, Form!Notify(t) PROVE Proved!Notify(t)
    BY <1>13
       DEF Form!Notify, Proved!Notify, Form!page, Proved!page, Form!jar, Proved!jar, Form!net,
           Proved!net, Form!register, Proved!register, Form!None, Proved!None, Form!Posts,
           Proved!Posts, Form!Checks, Proved!Checks
  <1>14. ASSUME NEW t, Form!Delete(t) PROVE Proved!Delete(t)
    BY <1>14
       DEF Form!Delete, Proved!Delete, Form!Register!Delete, Proved!Register!Delete, Form!page,
           Proved!page, Form!jar, Proved!jar, Form!net, Proved!net, Form!register, Proved!register,
           Form!None, Proved!None, Form!Posts, Proved!Posts, Form!Checks, Proved!Checks
  <1>15. ASSUME Form!Expire PROVE Proved!Expire
    BY <1>15
       DEF Form!Expire, Proved!Expire, Form!Cardinality, Proved!Cardinality, Form!page, Proved!page, Form!jar, Proved!jar, Form!net,
           Proved!net, Form!register, Proved!register, Form!None, Proved!None, Form!Posts,
           Proved!Posts, Form!Checks, Proved!Checks
  <1> QED
    BY <1>1, <1>2, <1>3, <1>4, <1>5, <1>6, <1>7, <1>8, <1>9, <1>10, <1>11, <1>12, <1>13, <1>14, <1>15
       DEF Form!vars, Proved!vars, Form!page, Proved!page, Form!jar, Proved!jar, Form!net,
           Proved!net, Form!register, Proved!register, Form!None, Proved!None, Form!Posts,
           Proved!Posts, Form!Checks, Proved!Checks, Form!Next, Proved!Next, Form!Rest, Proved!Rest

\* So the invariant of the form is an invariant of the system.
LEMMA FormHolds ==
  ASSUME SendsAreUploads, Form!BoundsAssumption
  PROVE  SystemSpec => []Proved!FormInv
  <1>1. Proved!BoundsAssumption
    BY DEF Form!BoundsAssumption, Proved!BoundsAssumption
  <1>2. Proved!Spec => []Proved!FormInv
    BY <1>1, Proved!FormInvariant
  <1>3. Form!Spec => Proved!Spec
    BY SameInit, SameNext, PTL DEF Form!Spec, Proved!Spec
  <1>4. SystemSpec => Form!Spec
    BY SystemImplementsForm DEF ImplementsForm
  <1> QED
    BY <1>2, <1>3, <1>4, PTL

LEMMA SentIs ==
  ASSUME NEW p \in Uploads, Proved!Sent(p)
  PROVE  p \in sent
  BY WireIs DEF Proved!Sent

\* A draft makes one lead in the table: the register keeps drafts apart for the
\* form, and the storage's rows are the register's.
THEOREM DraftsMakeOneRow ==
  SendsAreUploads /\ Form!BoundsAssumption => (SystemSpec => []OneRowPerDraft)
  <1> SUFFICES ASSUME SendsAreUploads, Form!BoundsAssumption PROVE SystemSpec => []OneRowPerDraft
    OBVIOUS
  <1>1. Proved!FormInv => Proved!OneLeadPerDraft
    BY Proved!DraftsApart
  <1>2. SystemInv /\ Proved!OneLeadPerDraft => OneRowPerDraft
    <2> SUFFICES ASSUME SystemInv, Proved!OneLeadPerDraft, NEW p \in leads, NEW q \in leads, p # q
                 PROVE  PayloadOf[p] # PayloadOf[q]
      BY DEF OneRowPerDraft
    <2>1. p \in sent /\ q \in sent
      BY DEF SystemInv, ServedWereSent
    <2> QED
      BY <2>1, SameSends DEF SystemInv, Proved!OneLeadPerDraft
  <1> QED
    BY <1>1, <1>2, FormHolds, SystemInvariant, PTL

\* Who is thanked has a lead and its bytes on the disk, as long as no
\* administrator asks for their removal, under every fault.
THEOREM ThankedIsStored ==
  SendsAreUploads /\ Form!BoundsAssumption => (SystemSpec => []ThankedMeansStored)
  <1> SUFFICES ASSUME SendsAreUploads, Form!BoundsAssumption PROVE SystemSpec => []ThankedMeansStored
    OBVIOUS
  <1>1. SystemInv /\ AcceptedBytesKept /\ Proved!FormInv => ThankedMeansStored
    <2> SUFFICES ASSUME SystemInv, AcceptedBytesKept, Proved!FormInv, NEW t \in Tabs, status[t] = "success"
                 PROVE  \E l \in Uploads :
                          /\ KeyOf[l] = KeyOf[current[t]] /\ PayloadOf[l] = PayloadOf[current[t]]
                          /\ l \in leads \/ \E r \in Removals : l \in target[r].lead
                          /\ \A f \in FilesOf(l) :
                               \/ f \in rows /\ (InPlace(f) \/ bytes[f] = "trash")
                               \/ \E r \in Removals : f \in target[r].files
      BY DEF ThankedMeansStored
    <2>1. PICK l \in ever : brief[l].key = brief[current[t]].key /\ brief[l].payload = brief[current[t]].payload
      BY DEF Proved!FormInv, Proved!ShownMeansSaved
    <2>2. current[t] \in Uploads /\ Proved!Sent(current[t])
      BY DEF Proved!FormInv, Proved!PagesAreTold, Proved!Posts, SendsAreUploads
    <2>3. current[t] \in sent
      BY <2>2, SentIs
    <2>4. l \in Uploads /\ l \in sent
      BY DEF SystemInv, ServedWereSent
    <2>5. KeyOf[l] = KeyOf[current[t]] /\ PayloadOf[l] = PayloadOf[current[t]]
      BY <2>1, <2>3, <2>4, SameSends DEF SystemInv
    <2>6. /\ l \in leads \/ \E r \in Removals : l \in target[r].lead
          /\ \A f \in FilesOf(l) : f \in rows \/ \E r \in Removals : f \in target[r].files
      BY DEF SystemInv, EverTraced
    <2>7. \A f \in rows : InPlace(f) \/ bytes[f] = "trash"
      BY DEF AcceptedBytesKept
    <2> QED
      BY <2>4, <2>5, <2>6, <2>7
  <1> QED
    BY <1>1, FormHolds, SystemInvariant, SystemIsStorage, AcceptedBytesAreKept, PTL
=============================================================================
