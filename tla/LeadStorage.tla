---------------------------- MODULE LeadStorage ----------------------------
(***************************************************************************)
(* Client requests ("leads") and their attachments: rows in PostgreSQL,    *)
(* bytes in three directories of a local disk, and the four programs that  *)
(* touch both:                                                             *)
(*   uploads    service.accept_brief            (POST /api/brief)          *)
(*   removals   admin_service.remove            (DELETE lead or file)      *)
(*   downloads  admin_service.download          (GET file, streamed)       *)
(*   cleanups   service.cleanup_orphans         (a process of its own)     *)
(* A committed lead_files row is the journal of the disk: a file found in  *)
(* trash/ goes back to objects/ when its row is live and is unlinked when  *)
(* it is not.  One advisory lock (uploads and streams shared, everything   *)
(* else exclusive) keeps the four apart while their transaction lasts.     *)
(***************************************************************************)
EXTENDS Integers, FiniteSets

CONSTANTS Uploads,    \* upload requests; also the name of each one's directory and lead
          Files,      \* attachments
          OwnerOf,    \* the upload an attachment belongs to
          KeyOf,      \* the Idempotency-Key an upload carries
          BrowserOf,  \* the browser cookie an upload carries, or NoBrowser
          NoBrowser,
          PayloadOf,  \* the form fields and attachment digests of an upload
          LockId,     \* lock_key: keys and browsers to 64-bit advisory lock ids
          Removals, Downloads, Cleanups,   \* the other requests
          Faults      \* the faults that may strike, a subset of FaultKinds

FaultKinds == {"crash",      \* the API process or a cleanup process is killed
               "io",         \* a database or disk call raises
               "ambiguous",  \* a commit takes effect, and yet raises
               "drop"}       \* PostgreSQL ends a session; its client has not noticed

Keys == {KeyOf[u] : u \in Uploads}
Browsers == {BrowserOf[u] : u \in Uploads} \ {NoBrowser}
Admin == Removals \cup Downloads
Api == Uploads \cup Admin
Requests == Api \cup Cleanups
FilesOf(u) == {f \in Files : OwnerOf[f] = u}

\* Requests of different kinds are different; two kinds of lock text may share an id.
ASSUME ConstantsAssumption ==
  /\ OwnerOf \in [Files -> Uploads]
  /\ Uploads \cap Admin = {} /\ Removals \cap Downloads = {} /\ Api \cap Cleanups = {}
  /\ LockId \in [Keys \cup Browsers -> Int]
  /\ Faults \subseteq FaultKinds

VARIABLES
  leads,      \* committed rows of table leads
  rows,       \* committed rows of table lead_files
  dir,        \* where an upload's directory is: nowhere, staging/ or objects/
  bytes,      \* where an attachment is: nowhere, in its upload's directory, trash/
  aged,       \* directories whose mtime is past cleanup's grace period
  shared,     \* requests whose transaction holds the storage lock shared
  exclusive,  \* the request whose transaction holds it exclusively
  holds,      \* key and browser locks an upload's transaction holds
  lost,       \* requests whose session the server has ended
  pc, reply,  \* where each request is, and what it answered
  target,     \* what a removal or download is about
  todo,       \* files left in the running pass over trash/ or over selected rows
  restore,    \* the file recovery found a live row for and is about to move back
  unlink,     \* the file recovery found no row for and is about to unlink
  area,       \* the directory a cleanup sweeps
  visit, at   \* entries it has still to visit, and the one it is judging

db == <<leads, rows>>
disk == <<dir, bytes, aged>>
locks == <<shared, exclusive, holds, lost>>
pass == <<todo, restore, unlink>>
sweep == <<visit, at>>
vars == <<db, disk, locks, pc, reply, target, pass, area, sweep>>

NoTarget == [lead |-> {}, files |-> {}]

Init ==
  /\ leads = {} /\ rows = {}
  /\ dir = [u \in Uploads |-> "absent"]
  /\ bytes = [f \in Files |-> "absent"]
  /\ aged = {}
  /\ shared = {} /\ exclusive = {} /\ lost = {}
  /\ holds = [u \in Uploads |-> {}]
  /\ pc = [r \in Requests |-> CASE r \in Uploads  -> "arrived"
                                [] r \in Cleanups -> "tidyWait"
                                [] r \in Admin    -> "new"]
  /\ reply = [r \in Requests |-> "none"]
  /\ target = [r \in Admin |-> NoTarget]
  /\ todo = [r \in Requests |-> {}]
  /\ restore = [r \in Requests |-> {}]
  /\ unlink = [r \in Requests |-> {}]
  /\ area = [c \in Cleanups |-> "staging"]
  /\ visit = [c \in Cleanups |-> {}]
  /\ at = [c \in Cleanups |-> {}]

-----------------------------------------------------------------------------
(* The disk and the advisory locks                                           *)

InPlace(f) == bytes[f] = "dir" /\ dir[OwnerOf[f]] = "objects"
TrashKeys == {f \in Files : bytes[f] = "trash"}

Goto(r, p) == pc' = [pc EXCEPT ![r] = p]
Answer(r, a) == reply' = [reply EXCEPT ![r] = a]

\* Mutant: orphan directories are moved to trash/ instead of being deleted.
RemoveTreeToTrash(u) ==
  /\ dir' = [dir EXCEPT ![u] = "trash"]
  /\ UNCHANGED <<bytes, aged>>

\* A directory and what is left in it disappear.
RemoveTree(u) ==
  /\ dir' = [dir EXCEPT ![u] = "absent"]
  /\ bytes' = [f \in Files |-> IF f \in FilesOf(u) /\ bytes[f] = "dir" THEN "absent" ELSE bytes[f]]
  /\ aged' = aged \ {u}

\* The transactions of the requests in D end: PostgreSQL releases their locks
\* and the locals of the handler go out of scope.
EndTransaction(D) ==
  /\ shared' = shared \ D
  /\ exclusive' = exclusive \ D
  /\ lost' = lost \ D
  /\ holds' = [u \in Uploads |-> IF u \in D THEN {} ELSE holds[u]]
  /\ todo' = [r \in Requests |-> IF r \in D THEN {} ELSE todo[r]]
  /\ restore' = [r \in Requests |-> IF r \in D THEN {} ELSE restore[r]]
  /\ unlink' = [r \in Requests |-> IF r \in D THEN {} ELSE unlink[r]]
  /\ visit' = [c \in Cleanups |-> IF c \in D THEN {} ELSE visit[c]]
  /\ at' = [c \in Cleanups |-> IF c \in D THEN {} ELSE at[c]]

LockShared(r, waiting, granted) ==
  /\ pc[r] = waiting
  /\ exclusive = {}
  /\ shared' = shared \cup {r}
  /\ Goto(r, granted)
  /\ UNCHANGED <<db, disk, exclusive, holds, lost, reply, target, pass, area, sweep>>

\* Mutant: the exclusive lock is granted beside shared ones.
LockExclusiveBesideShared(r, waiting, granted) ==
  /\ pc[r] = waiting
  /\ exclusive = {}
  /\ exclusive' = {r}
  /\ todo' = [todo EXCEPT ![r] = TrashKeys]
  /\ Goto(r, granted)
  /\ UNCHANGED <<db, disk, shared, holds, lost, reply, target, restore, unlink, area, sweep>>

\* Mutant: the transaction does not begin with recover_locked.
LockExclusiveUnrecovered(r, waiting, granted) ==
  /\ pc[r] = waiting
  /\ exclusive = {} /\ shared = {}
  /\ exclusive' = {r}
  /\ Goto(r, granted)
  /\ UNCHANGED <<db, disk, shared, holds, lost, reply, target, pass, area, sweep>>

\* Every exclusive transaction begins with recover_locked, whose listing of
\* trash/ is taken here, as the lock is granted.
LockExclusive(r, waiting, granted) ==
  /\ pc[r] = waiting
  /\ exclusive = {} /\ shared = {}
  /\ exclusive' = {r}
  /\ todo' = [todo EXCEPT ![r] = TrashKeys]
  /\ Goto(r, granted)
  /\ UNCHANGED <<db, disk, shared, holds, lost, reply, target, restore, unlink, area, sweep>>

\* Where an exception leads: an upload rolls back and discards, the first
\* transaction of a removal goes on to the repairing recover(), everything
\* else answers with an error.
FirstTransaction == {"prepareWait", "preparing", "selecting", "quarantining"}
Raise(r) ==
  /\ EndTransaction({r})
  /\ IF r \in Uploads THEN Goto(r, "discarding") /\ Answer(r, "error")
     ELSE IF pc[r] \in FirstTransaction THEN Goto(r, "repairWait") /\ UNCHANGED reply
     ELSE Goto(r, "done") /\ Answer(r, "error")
  /\ UNCHANGED <<db, disk, target, area>>

-----------------------------------------------------------------------------
(* recover_locked: the pass over trash/                                      *)

Recovering == {"preparing", "purging", "repairing", "restoring", "tidying"}

\* Mutant: recovery unlinks what it finds without looking for its row.
RecoverLookUnasked(r, f) ==
  /\ pc[r] \in Recovering
  /\ restore[r] \cup unlink[r] = {}
  /\ f \in todo[r]
  /\ todo' = [todo EXCEPT ![r] = @ \ {f}]
  /\ unlink' = [unlink EXCEPT ![r] = {f}]
  /\ UNCHANGED <<db, disk, locks, pc, reply, target, restore, area, sweep>>

\* The row is looked up ...
RecoverLook(r, f) ==
  /\ pc[r] \in Recovering
  /\ restore[r] \cup unlink[r] = {}
  /\ f \in todo[r]
  /\ r \notin lost
  /\ todo' = [todo EXCEPT ![r] = @ \ {f}]
  /\ IF f \in rows THEN restore' = [restore EXCEPT ![r] = {f}] /\ UNCHANGED unlink
                   ELSE unlink' = [unlink EXCEPT ![r] = {f}] /\ UNCHANGED restore
  /\ UNCHANGED <<db, disk, locks, pc, reply, target, area, sweep>>

\* ... and then recover_object moves the file back or unlinks it, if it is still there.
RecoverObject(r) ==
  /\ pc[r] \in Recovering
  /\ \/ \E f \in restore[r] :
          IF bytes[f] = "trash"
            THEN /\ dir' = [dir EXCEPT ![OwnerOf[f]] = "objects"]
                 /\ bytes' = [bytes EXCEPT ![f] = "dir"]
                 /\ aged' = aged \ {OwnerOf[f]}
            ELSE UNCHANGED disk
     \/ \E f \in unlink[r] :
          /\ bytes' = [bytes EXCEPT ![f] = IF @ = "trash" THEN "absent" ELSE @]
          /\ UNCHANGED <<dir, aged>>
  /\ restore' = [restore EXCEPT ![r] = {}]
  /\ unlink' = [unlink EXCEPT ![r] = {}]
  /\ UNCHANGED <<db, locks, pc, reply, target, todo, area, sweep>>

Recovered(r, during) ==
  /\ pc[r] = during
  /\ todo[r] = {} /\ restore[r] = {} /\ unlink[r] = {}
  /\ r \notin lost

-----------------------------------------------------------------------------
(* accept_brief                                                              *)

\* Every attachment is written to staging/ ...
Stage(u) ==
  /\ pc[u] = "staging"
  /\ dir' = [dir EXCEPT ![u] = "staging"]
  /\ bytes' = [f \in Files |-> IF f \in FilesOf(u) THEN "dir" ELSE bytes[f]]
  /\ Goto(u, "locking")
  /\ UNCHANGED <<db, aged, locks, reply, target, pass, area, sweep>>

\* BriefError: a name or a content that is not acceptable, or not what it claims.
FileRefused(u) == Answer(u, "rejected")

\* ... or one is refused, or cannot be written, after some of them were.
StageStops(u) ==
  /\ pc[u] = "staging"
  /\ \E written \in SUBSET FilesOf(u) :
       bytes' = [f \in Files |-> IF f \in written THEN "dir" ELSE bytes[f]]
  /\ dir' = [dir EXCEPT ![u] = "staging"]
  /\ EndTransaction({u})
  /\ Goto(u, "discarding")
  /\ \/ FileRefused(u)
     \/ "io" \in Faults /\ Answer(u, "error")
  /\ UNCHANGED <<db, aged, target, area>>

\* Mutant: the browser is not locked.
WantedLocksKeyOnly(u) == {LockId[KeyOf[u]]}

WantedLocks(u) == {LockId[KeyOf[u]]} \cup
  (IF BrowserOf[u] = NoBrowser THEN {} ELSE {LockId[BrowserOf[u]]})

\* Mutant: the key's lock first, the browser's second, whatever their ids.
NextLockUnsorted(u, l) ==
  LET missing == WantedLocks(u) \ holds[u]
  IN  l \in missing /\ (LockId[KeyOf[u]] \in missing => l = LockId[KeyOf[u]])

\* sorted(set(locks)): the smallest id not yet held comes next.
NextLock(u, l) ==
  LET missing == WantedLocks(u) \ holds[u]
  IN  l \in missing /\ \A m \in missing : l <= m

AcquireKeyLock(u) ==
  /\ pc[u] = "locking"
  /\ u \notin lost
  /\ \E l \in WantedLocks(u) :
       /\ NextLock(u, l)
       /\ \A v \in Uploads \ {u} : l \notin holds[v]
       /\ holds' = [holds EXCEPT ![u] = @ \cup {l}]
  /\ UNCHANGED <<db, disk, shared, exclusive, lost, pc, reply, target, pass, area, sweep>>

LocksHeld(u) == pc[u] = "locking" /\ u \notin lost /\ WantedLocks(u) \subseteq holds[u]
SameKey(u) == {l \in leads : KeyOf[l] = KeyOf[u]}
SameBrowser(u) == {l \in leads : BrowserOf[u] # NoBrowser /\ BrowserOf[l] = BrowserOf[u]}
\* payload_hash covers the fields, the attachments and the browser.
SamePayload(u, l) == PayloadOf[l] = PayloadOf[u] /\ BrowserOf[l] = BrowserOf[u]

\* Mutant: the browser is asked about before the key.
RefuseBrowserFirst(u) ==
  /\ LocksHeld(u)
  /\ \/ SameBrowser(u) # {} /\ Answer(u, "already")
     \/ SameBrowser(u) = {} /\ \E l \in SameKey(u) : Answer(u, IF SamePayload(u, l) THEN "repeat" ELSE "conflict")
  /\ EndTransaction({u})
  /\ Goto(u, "discarding")
  /\ UNCHANGED <<db, disk, target, area>>

\* A used key answers with the existing lead, or with a conflict; a browser
\* that has submitted is refused.  Each leaves the transaction without writing.
Refuse(u) ==
  /\ LocksHeld(u)
  /\ \/ \E l \in SameKey(u) : Answer(u, IF SamePayload(u, l) THEN "repeat" ELSE "conflict")
     \/ SameKey(u) = {} /\ SameBrowser(u) # {} /\ Answer(u, "already")
  /\ EndTransaction({u})
  /\ Goto(u, "discarding")
  /\ UNCHANGED <<db, disk, target, area>>

\* Otherwise the rows are inserted, visible to no one until the commit.
InsertLead(u) ==
  /\ LocksHeld(u)
  /\ SameKey(u) = {} /\ SameBrowser(u) = {}
  /\ Goto(u, "promoting")
  /\ UNCHANGED <<db, disk, locks, reply, target, pass, area, sweep>>

Promote(u) ==
  /\ pc[u] = "promoting"
  /\ IF dir[u] = "staging"
       THEN /\ dir' = [dir EXCEPT ![u] = "objects"]
            /\ Goto(u, "committing")
            /\ UNCHANGED <<db, bytes, aged, locks, reply, target, pass, area, sweep>>
       ELSE Raise(u)

CommitUpload(u) ==
  /\ pc[u] = "committing"
  /\ u \notin lost
  /\ leads' = leads \cup {u}
  /\ rows' = rows \cup FilesOf(u)
  /\ EndTransaction({u})
  /\ Goto(u, "discarding")
  /\ \/ Answer(u, "accepted")
     \/ "ambiguous" \in Faults /\ Answer(u, "error")
  /\ UNCHANGED <<disk, target, area>>

\* Mutant: nothing is discarded after a refusal.
DiscardAfterSuccess(u) ==
  /\ pc[u] = "discarding"
  /\ Goto(u, "done")
  /\ UNCHANGED <<db, disk, locks, reply, target, pass, area, sweep>>

\* The finally clause: after the transaction, so after the storage lock.
Discard(u) ==
  /\ pc[u] = "discarding"
  /\ \/ dir[u] = "staging" /\ RemoveTree(u)
     \/ dir[u] # "staging" /\ UNCHANGED disk
     \/ "io" \in Faults /\ UNCHANGED disk
  /\ Goto(u, "done")
  /\ UNCHANGED <<db, locks, reply, target, pass, area, sweep>>

-----------------------------------------------------------------------------
(* remove                                                                    *)

\* An administrator asks for something a listing showed: it was committed then.
AskRemoval(r) ==
  /\ pc[r] = "new"
  /\ \/ \E u \in leads : target' = [target EXCEPT ![r] = [lead |-> {u}, files |-> FilesOf(u)]]
     \/ \E f \in rows : target' = [target EXCEPT ![r] = [lead |-> {}, files |-> {f}]]
  /\ Goto(r, "prepareWait")
  /\ UNCHANGED <<db, disk, locks, reply, pass, area, sweep>>

Prepared(r) ==
  /\ Recovered(r, "preparing")
  /\ Goto(r, "selecting")
  /\ UNCHANGED <<db, disk, locks, reply, target, pass, area, sweep>>

SelectFiles(r) ==
  /\ pc[r] = "selecting"
  /\ r \notin lost
  /\ todo' = [todo EXCEPT ![r] = rows \cap target[r].files]
  /\ Goto(r, "quarantining")
  /\ UNCHANGED <<db, disk, locks, reply, target, restore, unlink, area, sweep>>

Quarantine(r, f) ==
  /\ pc[r] = "quarantining"
  /\ f \in todo[r]
  /\ IF InPlace(f)
       THEN /\ bytes' = [bytes EXCEPT ![f] = "trash"]
            /\ aged' = aged \ {OwnerOf[f]}
            /\ todo' = [todo EXCEPT ![r] = @ \ {f}]
            /\ UNCHANGED <<db, dir, locks, pc, reply, target, restore, unlink, area, sweep>>
       ELSE Raise(r)

\* Mutant: success is answered at the commit, before the purge.
CommitRemovalUnpurged(r) ==
  /\ pc[r] = "quarantining" /\ todo[r] = {} /\ r \notin lost
  /\ rows' = rows \ target[r].files
  /\ leads' = leads \ target[r].lead
  /\ EndTransaction({r})
  /\ Goto(r, "done") /\ Answer(r, "deleted")
  /\ UNCHANGED <<disk, target, area>>

CommitRemoval(r) ==
  /\ pc[r] = "quarantining"
  /\ todo[r] = {}
  /\ r \notin lost
  /\ rows' = rows \ target[r].files
  /\ leads' = leads \ target[r].lead
  /\ EndTransaction({r})
  /\ \/ Goto(r, "purgeWait")
     \/ "ambiguous" \in Faults /\ Goto(r, "repairWait")
  /\ UNCHANGED <<disk, reply, target, area>>

\* recover() again: before the success answer, or, its errors swallowed,
\* before the failure is raised to the client.
Purged(r) ==
  /\ \/ Recovered(r, "purging") /\ Answer(r, "deleted")
     \/ Recovered(r, "repairing") /\ Answer(r, "error")
  /\ EndTransaction({r})
  /\ Goto(r, "done")
  /\ UNCHANGED <<db, disk, target, area>>

-----------------------------------------------------------------------------
(* download                                                                  *)

AskDownload(d) ==
  /\ pc[d] = "new"
  /\ \E f \in rows : target' = [target EXCEPT ![d] = [lead |-> {}, files |-> {f}]]
  /\ Goto(d, "restoreWait")
  /\ UNCHANGED <<db, disk, locks, reply, pass, area, sweep>>

\* recover() commits and lets go of the lock; the shared one is asked for next.
Restored(d) ==
  /\ Recovered(d, "restoring")
  /\ EndTransaction({d})
  /\ Goto(d, "openWait")
  /\ UNCHANGED <<db, disk, reply, target, area>>

OpenFile(d) ==
  /\ pc[d] = "opening"
  /\ d \notin lost
  /\ \E f \in target[d].files :
       \/ /\ f \in rows /\ InPlace(f)
          /\ Goto(d, "streaming")
          /\ UNCHANGED <<db, disk, locks, reply, target, pass, area, sweep>>
       \/ /\ f \in rows /\ ~InPlace(f)
          /\ Raise(d)
       \/ /\ f \notin rows
          /\ EndTransaction({d}) /\ Goto(d, "done") /\ Answer(d, "notfound")
          /\ UNCHANGED <<db, disk, target, area>>

CloseStream(d) ==
  /\ pc[d] = "streaming"
  /\ EndTransaction({d}) /\ Goto(d, "done") /\ Answer(d, "sent")
  /\ UNCHANGED <<db, disk, target, area>>

-----------------------------------------------------------------------------
(* cleanup_orphans                                                           *)

Entries(where) == {u \in Uploads : dir[u] = where}

Tidied(c) ==
  /\ Recovered(c, "tidying")
  /\ visit' = [visit EXCEPT ![c] = Entries("staging")]
  /\ Goto(c, "sweeping")
  /\ UNCHANGED <<db, disk, locks, reply, target, pass, area, at>>

\* Mutant: the directory is listed again after each entry.
SweepLookRelisting(c, u) ==
  /\ pc[c] = "sweeping" /\ at[c] = {}
  /\ u \in visit[c]
  /\ visit' = [visit EXCEPT ![c] = Entries(area[c])]
  /\ at' = [at EXCEPT ![c] = IF dir[u] = area[c] THEN {u} ELSE {}]
  /\ UNCHANGED <<db, disk, locks, pc, reply, target, pass, area>>

\* is_dir(): an entry that is gone by now is passed over ...
SweepLook(c, u) ==
  /\ pc[c] = "sweeping" /\ at[c] = {}
  /\ u \in visit[c]
  /\ visit' = [visit EXCEPT ![c] = @ \ {u}]
  /\ at' = [at EXCEPT ![c] = IF dir[u] = area[c] THEN {u} ELSE {}]
  /\ UNCHANGED <<db, disk, locks, pc, reply, target, pass, area>>

\* Mutant: an old directory is removed without asking whether its lead was accepted.
SweepCheckAgeOnly(c) ==
  /\ pc[c] = "sweeping"
  /\ \E u \in at[c] :
       \/ dir[u] # area[c] /\ Raise(c)
       \/ /\ dir[u] = area[c] /\ u \notin aged
          /\ at' = [at EXCEPT ![c] = {}]
          /\ UNCHANGED <<db, disk, locks, pc, reply, target, pass, area, visit>>
       \/ /\ dir[u] = area[c] /\ u \in aged
          /\ Goto(c, "deleting")
          /\ UNCHANGED <<db, disk, locks, reply, target, pass, area, sweep>>

\* ... stat(): but one that goes between the two raises; a young entry and an
\* accepted lead's are kept ...
SweepCheck(c) ==
  /\ pc[c] = "sweeping"
  /\ \E u \in at[c] :
       \/ dir[u] # area[c] /\ Raise(c)
       \/ /\ dir[u] = area[c]
          /\ u \notin aged \/ (area[c] = "objects" /\ c \notin lost /\ u \in leads)
          /\ at' = [at EXCEPT ![c] = {}]
          /\ UNCHANGED <<db, disk, locks, pc, reply, target, pass, area, visit>>
       \/ /\ dir[u] = area[c]
          /\ u \in aged /\ (area[c] = "objects" => c \notin lost /\ u \notin leads)
          /\ at' = [at EXCEPT ![c] = {u}]
          /\ Goto(c, "deleting")
          /\ UNCHANGED <<db, disk, locks, reply, target, pass, area, visit>>

\* ... and the rest is removed.
SweepDelete(c) ==
  /\ pc[c] = "deleting"
  /\ \E u \in at[c] :
       IF dir[u] = area[c]
         THEN /\ RemoveTree(u)
              /\ at' = [at EXCEPT ![c] = {}]
              /\ Goto(c, "sweeping")
              /\ UNCHANGED <<db, locks, reply, target, pass, area, visit>>
         ELSE Raise(c)

SweepNext(c) ==
  /\ pc[c] = "sweeping" /\ visit[c] = {} /\ at[c] = {}
  /\ \/ /\ area[c] = "staging"
        /\ area' = [area EXCEPT ![c] = "objects"]
        /\ visit' = [visit EXCEPT ![c] = Entries("objects")]
        /\ UNCHANGED <<db, disk, locks, pc, reply, target, pass, at>>
     \/ /\ area[c] = "objects" /\ c \notin lost
        /\ EndTransaction({c}) /\ Goto(c, "done") /\ Answer(c, "cleaned")
        /\ UNCHANGED <<db, disk, target, area>>

-----------------------------------------------------------------------------
(* Time and faults                                                           *)

\* A directory nothing has changed in for the grace period.
Age(u) ==
  /\ Cleanups # {}
  /\ dir[u] # "absent" /\ u \notin aged
  /\ aged' = aged \cup {u}
  /\ UNCHANGED <<db, dir, bytes, locks, pc, reply, target, pass, area, sweep>>

Over == {"new", "discarding", "done", "dead"}
AsksDatabase == {"locking", "committing", "selecting", "quarantining", "opening",
                 "sweeping"} \cup Recovering

\* A call of the handler raises: any of them, or a database call after the
\* session is gone.  That a call took effect before it raised is this action
\* one step later, except for a commit, which has its own disjunct.
Fail(r) ==
  /\ pc[r] \notin Over
  /\ "io" \in Faults \/ (r \in lost /\ pc[r] \in AsksDatabase)
  /\ Raise(r)

Drop(r) ==
  /\ "drop" \in Faults
  /\ r \in shared \cup exclusive
  /\ shared' = shared \ {r} /\ exclusive' = exclusive \ {r}
  /\ holds' = [u \in Uploads |-> IF u = r THEN {} ELSE holds[u]]
  /\ lost' = lost \cup {r}
  /\ UNCHANGED <<db, disk, pc, reply, target, pass, area, sweep>>

\* A process is killed with the requests it serves; disk and database stay.
Crash(process) ==
  /\ "crash" \in Faults
  /\ LET dying == {r \in process : pc[r] \notin {"arrived", "new", "done", "dead"}}
     IN  /\ dying # {}
         /\ EndTransaction(dying)
         /\ pc' = [r \in Requests |-> IF r \in dying THEN "dead" ELSE pc[r]]
  /\ UNCHANGED <<db, disk, reply, target, area>>

-----------------------------------------------------------------------------

UploadStep(u) ==
  \/ LockShared(u, "arrived", "staging")
  \/ Stage(u) \/ StageStops(u) \/ AcquireKeyLock(u) \/ Refuse(u)
  \/ InsertLead(u) \/ Promote(u) \/ CommitUpload(u) \/ Discard(u)

RecoverStep(r) == RecoverObject(r) \/ \E f \in Files : RecoverLook(r, f)

RemovalStep(r) ==
  \/ LockExclusive(r, "prepareWait", "preparing")
  \/ LockExclusive(r, "purgeWait", "purging")
  \/ LockExclusive(r, "repairWait", "repairing")
  \/ RecoverStep(r) \/ Prepared(r) \/ SelectFiles(r)
  \/ \E f \in Files : Quarantine(r, f)
  \/ CommitRemoval(r) \/ Purged(r)

DownloadStep(d) ==
  \/ LockExclusive(d, "restoreWait", "restoring")
  \/ RecoverStep(d) \/ Restored(d)
  \/ LockShared(d, "openWait", "opening")
  \/ OpenFile(d) \/ CloseStream(d)

CleanupStep(c) ==
  \/ LockExclusive(c, "tidyWait", "tidying")
  \/ RecoverStep(c) \/ Tidied(c)
  \/ \E u \in Uploads : SweepLook(c, u)
  \/ SweepCheck(c) \/ SweepDelete(c) \/ SweepNext(c)

Environment ==
  \/ \E u \in Uploads : Age(u)
  \/ \E r \in Removals : AskRemoval(r)
  \/ \E d \in Downloads : AskDownload(d)
  \/ \E r \in Requests : Fail(r) \/ Drop(r)
  \/ Crash(Api) \/ \E c \in Cleanups : Crash({c})

\* Every request has been served: nothing is left to do.
Rest ==
  /\ \A r \in Requests : pc[r] \in {"new", "done", "dead"}
  /\ UNCHANGED vars

Next ==
  \/ \E u \in Uploads : UploadStep(u)
  \/ \E r \in Removals : RemovalStep(r)
  \/ \E d \in Downloads : DownloadStep(d)
  \/ \E c \in Cleanups : CleanupStep(c)
  \/ Environment
  \/ Rest

Spec == Init /\ [][Next]_vars

(***************************************************************************)
(* Weak fairness per request: a granted lock, a running handler and a      *)
(* client reading its stream go on.  Requests are one-shot, so a lock that *)
(* is waited for is in the end free for good and needs no strong fairness. *)
(***************************************************************************)
Fairness ==
  /\ \A u \in Uploads : WF_vars(UploadStep(u))
  /\ \A r \in Removals : WF_vars(RemovalStep(r))
  /\ \A d \in Downloads : WF_vars(DownloadStep(d))
  /\ \A c \in Cleanups : WF_vars(CleanupStep(c))
LiveSpec == Spec /\ Fairness

-----------------------------------------------------------------------------
(* Properties                                                                *)

Places == {"arrived", "staging", "locking", "promoting", "committing", "discarding",
           "new", "prepareWait", "selecting", "quarantining", "purgeWait", "repairWait",
           "restoreWait", "openWait", "opening", "streaming",
           "tidyWait", "sweeping", "deleting", "done", "dead"} \cup Recovering
Answers == {"none", "accepted", "repeat", "conflict", "already", "rejected", "deleted",
            "sent", "notfound", "cleaned", "error"}

\* Every variable keeps its type.
TypeOK ==
  /\ leads \subseteq Uploads /\ rows \subseteq Files
  /\ dir \in [Uploads -> {"absent", "staging", "objects"}]
  /\ bytes \in [Files -> {"absent", "dir", "trash"}]
  /\ aged \subseteq Uploads
  /\ shared \subseteq Requests /\ exclusive \subseteq Requests /\ lost \subseteq Requests
  /\ holds \in [Uploads -> SUBSET Int]
  /\ pc \in [Requests -> Places]
  /\ reply \in [Requests -> Answers]
  /\ target \in [Admin -> [lead : SUBSET Uploads, files : SUBSET Files]]
  /\ todo \in [Requests -> SUBSET Files]
  /\ restore \in [Requests -> SUBSET Files]
  /\ unlink \in [Requests -> SUBSET Files]
  /\ area \in [Cleanups -> {"staging", "objects"}]
  /\ visit \in [Cleanups -> SUBSET Uploads]
  /\ at \in [Cleanups -> SUBSET Uploads]

\* The bytes of a committed attachment are never lost: they are at its key in
\* objects/, or in trash/ where recovery finds them, through every failed or
\* half-done removal, cleanup and upload, and whatever session PostgreSQL ends.
AcceptedBytesKept == \A f \in rows : InPlace(f) \/ bytes[f] = "trash"

\* "No success response until bytes have actually been purged" (admin_service.py:111):
\* what a removal answered "deleted" about is in no table and in no directory, for good.
DeletedMeansPurged ==
  \A r \in Removals : reply[r] = "deleted" =>
    /\ target[r].lead \cap leads = {}
    /\ \A f \in target[r].files : f \notin rows /\ bytes[f] = "absent"

\* "Shared storage lock spans the complete stream" (admin_service.py:137): no
\* removal, recovery or cleanup moves a file, or deletes its row, under its reader.
StreamedFileInPlace ==
  \A d \in Downloads : pc[d] = "streaming" =>
    \A f \in target[d].files : f \in rows /\ InPlace(f)

\* After recover_locked, and until its transaction ends, trash/ holds nothing but
\* what the transaction itself put there: a removal never meets an older pending
\* file (FileExistsError in quarantine), a cleanup leaves none behind.
RecoveryIsComplete ==
  \A r \in exclusive :
    /\ pc[r] \in {"selecting", "sweeping", "deleting"} => TrashKeys = {}
    /\ pc[r] = "quarantining" => TrashKeys \subseteq rows \cap (target[r].files \ todo[r])

\* The advisory key and browser locks make check-then-insert safe: no two
\* leads, committed or inserted and not yet committed, share a key or a browser.
Inserted == {u \in Uploads : pc[u] \in {"promoting", "committing"} /\ u \notin lost}
OneLeadPerKeyAndBrowser ==
  \A u, v \in leads \cup Inserted : u # v =>
    /\ KeyOf[u] # KeyOf[v]
    /\ BrowserOf[u] = NoBrowser \/ BrowserOf[u] # BrowserOf[v]

\* Sorted acquisition: uploads never wait for each other's locks in a circle, two
\* or more, even when the 64-bit ids of their keys and browsers coincide crosswise.
Awaits(u, v) == pc[u] = "locking" /\ \E l \in holds[v] : NextLock(u, l)
NoLockCycle ==
  \A S \in SUBSET Uploads : S # {} /\ IsFiniteSet(S) =>
    \E u \in S : \A v \in S : ~Awaits(u, v)

\* "Cleanup takes the exclusive form of this lock" (service.py:27): a directory
\* never disappears under an upload whose transaction is running.
CleanupSparesActiveWrites ==
  [][\A u \in Uploads : dir[u] # "absent" /\ dir'[u] = "absent" =>
       pc[u] \in {"discarding", "done", "dead"}]_vars

\* Without faults nothing is left behind: once every request is served, the disk
\* holds the attachments of the committed rows and nothing else.
NoLeftovers ==
  (Faults = {} /\ \A r \in Requests : pc[r] \in {"new", "done"}) =>
    /\ \A f \in Files : IF f \in rows THEN InPlace(f) ELSE bytes[f] = "absent"
    /\ \A u \in Uploads : dir[u] # "staging"

\* Every request that has started is served or dies with its process: no lock
\* is kept by a handler that waits for it again.
Answered == \A r \in Requests : (pc[r] # "new") ~> (pc[r] \in {"done", "dead"})

\* However an upload is interleaved with other requests and faults, its client
\* sees the register: accepted or refused at one instant, or nothing at all.
Register == INSTANCE LeadRegister WITH
  Posts <- Uploads,
  brief <- [u \in Uploads |->
             [key |-> KeyOf[u], browser |-> BrowserOf[u], payload |-> PayloadOf[u]]],
  told <- [u \in Uploads |-> reply[u]]
ImplementsRegister == Register!Spec

\* "It cannot race active writes" (service.py:27), read as: with no fault at
\* work, a cleanup finishes.
CleanupNeverRaces ==
  Faults = {} => \A c \in Cleanups : reply[c] # "error"

-----------------------------------------------------------------------------
(* The inductive invariant behind AcceptedBytesKept, in named parts          *)

Uncommitted == {"arrived", "staging", "locking", "promoting", "committing"}

\* The foreign key: an attachment's row has its lead's row.
RowsOwned == \A f \in rows : OwnerOf[f] \in leads
\* A removal that takes a lead takes every attachment of it.
TargetWhole ==
  \A r \in Admin : \A u \in target[r].lead : FilesOf(u) \subseteq target[r].files
\* Removal and recovery only ever touch attachments whose upload is over, and
\* recovery unlinks only what has no row.
TouchesOnlyOld ==
  \A f \in Files : pc[OwnerOf[f]] \in Uncommitted =>
    /\ bytes[f] # "trash"
    /\ \A r \in Requests : f \notin todo[r] \cup restore[r] \cup unlink[r]
UnlinksDead == \A r \in Requests : unlink[r] \cap rows = {}
\* Until its commit an upload has no lead, and its files follow its directory.
UploadFiles ==
  \A u \in Uploads :
    /\ pc[u] \in Uncommitted => u \notin leads
    /\ pc[u] \in Uncommitted \ {"committing"} => dir[u] # "objects"
    /\ pc[u] \in {"locking", "promoting"} /\ dir[u] = "staging" =>
         \A f \in FilesOf(u) : bytes[f] = "dir"
    /\ pc[u] = "committing" /\ dir[u] = "objects" => \A f \in FilesOf(u) : bytes[f] = "dir"
    /\ pc[u] = "committing" /\ u \notin lost => dir[u] = "objects"
\* Who has not lost its session holds the storage lock it was granted.
LockHeld ==
  /\ exclusive # {} => shared = {}
  /\ \A u \in Uploads : pc[u] \in Uncommitted \ {"arrived"} /\ u \notin lost => u \in shared
  /\ \A c \in Cleanups : pc[c] \in {"tidying", "sweeping", "deleting"} /\ c \notin lost
                           => c \in exclusive
\* What a cleanup is about to delete from objects/ has no lead and gets none.
SweepsOrphans ==
  \A c \in Cleanups : pc[c] = "deleting" /\ area[c] = "objects" =>
    \A u \in at[c] : u \notin leads /\ (pc[u] \in Uncommitted => u \in lost)

StorageInv ==
  /\ TypeOK /\ AcceptedBytesKept
  /\ RowsOwned /\ TargetWhole /\ TouchesOnlyOld /\ UnlinksDead
  /\ UploadFiles /\ LockHeld /\ SweepsOrphans

-----------------------------------------------------------------------------
(* The inductive invariant behind OneLeadPerKeyAndBrowser and the register   *)

\* No two uploads hold one lock ...
KeyLocksExclusive == \A u, v \in Uploads : u # v => holds[u] \cap holds[v] = {}
\* ... each takes the locks it wants from the smallest id upwards ...
HoldsInOrder ==
  \A u \in Uploads :
    /\ holds[u] \subseteq WantedLocks(u)
    /\ \A l \in holds[u], m \in WantedLocks(u) \ holds[u] : l < m
\* ... and who has inserted holds all of its own.
InsertedHoldLocks == \A u \in Inserted : WantedLocks(u) \subseteq holds[u]
\* What the lookups under the locks found stays true until the commit.
InsertedUnrivalled == \A u \in Inserted : SameKey(u) = {} /\ SameBrowser(u) = {}
LeadsApart ==
  \A u, v \in leads : u # v =>
    /\ KeyOf[u] # KeyOf[v]
    /\ BrowserOf[u] = NoBrowser \/ BrowserOf[u] # BrowserOf[v]
\* An upload that has not committed has no lead and no answer.
UploadPlaces ==
  \A u \in Uploads :
    /\ pc[u] \in Uncommitted \cup {"discarding", "done", "dead"}
    /\ pc[u] \in Uncommitted => u \notin leads /\ reply[u] = "none"

IntakeInv ==
  /\ TypeOK
  /\ KeyLocksExclusive /\ HoldsInOrder /\ InsertedHoldLocks /\ InsertedUnrivalled
  /\ LeadsApart /\ UploadPlaces
=============================================================================
