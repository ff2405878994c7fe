----------------------------- MODULE BriefSystem -----------------------------
(***************************************************************************)
(* The public form in front of the storage: what a visitor is shown, and   *)
(* what becomes of the rows and bytes behind it.  BriefForm knows only the *)
(* register of leads; here its requests are served by the handlers of      *)
(* LeadStorage, step by step, beside removals, downloads and cleanups and  *)
(* under every fault.                                                      *)
(* Carries is what the form's sends will carry: a behaviour in which they  *)
(* carry something else is one for another value of this constant.         *)
(***************************************************************************)
EXTENDS LeadStorage

CONSTANTS
  Tabs, MaxPosts, MaxChecks, MaxDrafts, MaxExpiries, MaxDeletions,   \* as in BriefForm
  Carries     \* the key, browser and draft that each send carries

VARIABLES
  cookie, expired, draft, attempt, shown, preparing, already, status, check, current,
  asked, stale, ever, announced, versions, deletions,   \* as in BriefForm
  sent,       \* requests that have left the form
  refused,    \* requests the guard has refused, which no handler sees
  notified    \* requests after which the team has been told, or the try has failed

form == <<cookie, expired, draft, attempt, shown, preparing, already, status, check, current,
          asked, stale, announced, versions>>
flow == <<sent, refused, notified>>
systemVars == <<vars, form, ever, deletions, flow>>

\* What has left the form, and how far it is, as the form sees it.
brief == [p \in Uploads |-> IF p \in sent THEN Carries[p] ELSE [key |-> 0, browser |-> 0, payload |-> 0]]
told == [p \in Uploads |-> IF p \in refused THEN "rejected" ELSE reply[p]]
wire == [p \in Uploads |->
          CASE p \notin sent                                           -> "unsent"
            [] p \in sent /\ told[p] = "none"                          -> "out"
            [] p \in sent /\ told[p] = "accepted" /\ p \notin notified -> "announcing"
            [] OTHER                                                   -> "answered"]

Form == INSTANCE BriefForm

\* The uploads are the sends of the form; the storage may have other names for
\* what they carry, but the same for the same and different ones for different.
SendsAreUploads ==
  /\ Uploads = 1..MaxPosts
  /\ Carries \in [Uploads -> [key : Nat, browser : Nat, payload : Nat]]
  /\ \A u, v \in Uploads :
       /\ KeyOf[u] = KeyOf[v] <=> Carries[u].key = Carries[v].key
       /\ BrowserOf[u] = BrowserOf[v] <=> Carries[u].browser = Carries[v].browser
       /\ PayloadOf[u] = PayloadOf[v] <=> Carries[u].payload = Carries[v].payload
  /\ \A u \in Uploads : BrowserOf[u] = NoBrowser <=> Carries[u].browser = 0

-----------------------------------------------------------------------------

SystemInit == Init /\ sent = {} /\ refused = {} /\ notified = {} /\ Form!Init

\* An answer leaves when the handler is done with it, discarding included.
Leaves(p) == p \in refused \/ pc[p] = "done"

PageStep ==
  /\ UNCHANGED <<vars, flow>>
  /\ \/ \E t \in Tabs : \/ Form!Open(t) \/ Form!Close(t) \/ Form!Edit(t)
                        \/ Form!ClearDraft(t) \/ Form!Reload(t)
                        \/ Form!PostAnswered(t) /\ Leaves(current[t])
                        \/ Form!GiveUp(t) /\ (cookie' # cookie => Leaves(current[t]))
     \/ \E c \in 1..MaxChecks : Form!ServeCheck(c) \/ Form!CheckEnds(c)
     \/ Form!Expire

SendStep ==
  /\ UNCHANGED <<vars, refused, notified>>
  /\ \E p \in Uploads \ sent : sent' = sent \cup {p}
  /\ \E t \in Tabs : Form!Submit(t)

GuardStep(p) ==
  /\ pc[p] = "arrived"
  /\ UNCHANGED <<vars, sent, notified>>
  /\ refused' = refused \cup {p}
  /\ Form!GuardRefuses(p)

\* app.notify runs between the handler's end and the answer.
NotifyStep(p) ==
  /\ pc[p] = "done"
  /\ UNCHANGED <<vars, sent, refused>>
  /\ notified' = notified \cup {p}
  /\ Form!Notify(p)

\* A handler runs for a request that has come through the guard.
StorageStep ==
  /\ Next
  /\ \A u \in Uploads : pc'[u] # pc[u] \/ reply'[u] # reply[u] => u \in sent \ refused
  /\ ever' = ever \cup leads'
  /\ \/ leads \subseteq leads' /\ UNCHANGED deletions
     \/ ~(leads \subseteq leads') /\ deletions < MaxDeletions /\ deletions' = deletions + 1
  /\ UNCHANGED <<form, flow>>

SystemNext ==
  \/ PageStep \/ SendStep \/ StorageStep
  \/ \E p \in Uploads : GuardStep(p) \/ NotifyStep(p)

SystemSpec == SystemInit /\ [][SystemNext]_systemVars

-----------------------------------------------------------------------------
(* Properties                                                                *)

\* "Your message is with the lab" (page.tsx:856) is a promise about rows and bytes:
\* behind every success the page shows there is a lead with the key and content
\* that were sent, and the lead and each of its attachments are stored, unless an
\* administrator has asked for their removal - whatever was sent twice, whatever
\* failed, and whatever session or process ended meanwhile.
ThankedMeansStored ==
  \A t \in Tabs : status[t] = "success" =>
    \E l \in Uploads :
      /\ KeyOf[l] = KeyOf[current[t]] /\ PayloadOf[l] = PayloadOf[current[t]]
      /\ l \in leads \/ \E r \in Removals : l \in target[r].lead
      /\ \A f \in FilesOf(l) :
           \/ f \in rows /\ (InPlace(f) \/ bytes[f] = "trash")
           \/ \E r \in Removals : f \in target[r].files

\* A draft makes one lead in the table, however often it is sent and however the
\* handlers of its sends overlap.
OneRowPerDraft == \A p, q \in leads : p # q => PayloadOf[p] # PayloadOf[q]

\* The form and the storage it has never heard of together are the form in front
\* of the register: no interleaving of handlers, no removal and no fault behind the
\* endpoint (service.py, admin_service.py) shows the page what the register would not.
ImplementsForm == Form!Spec

\* A network retry with the Idempotency-Key is safe (docs/architecture/system.md:16):
\* since the page takes a new key for every change, no send is answered that its key
\* was used with different content.
RetryIsSafe == \A u \in Uploads : reply[u] # "conflict"

-----------------------------------------------------------------------------
(* The inductive invariant behind them                                       *)

\* A handler serves only what has left the form and passed the guard ...
ServedWereSent ==
  /\ refused \subseteq sent /\ sent \subseteq Uploads /\ leads \subseteq ever /\ ever \subseteq Uploads
  /\ \A u \in Uploads : u \notin sent \ refused => pc[u] = "arrived" /\ reply[u] = "none"
  /\ \A u \in ever : reply[u] # "none"
  /\ \A p \in notified : p \in Uploads /\ reply[p] = "accepted"
\* ... a removal is of one lead or of one file, named once ...
RemovalsFit ==
  \A r \in Removals : /\ pc[r] = "new" => target[r] = NoTarget
                      /\ \A u, v \in target[r].lead : u = v
\* ... and what was ever committed is there or was asked to be removed.
EverTraced ==
  \A u \in ever :
    /\ u \in leads \/ \E r \in Removals : u \in target[r].lead
    /\ \A f \in FilesOf(u) : f \in rows \/ \E r \in Removals : f \in target[r].files

SystemInv == ServedWereSent /\ RemovalsFit /\ EverTraced
=============================================================================
