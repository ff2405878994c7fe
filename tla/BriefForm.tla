------------------------------ MODULE BriefForm ------------------------------
(***************************************************************************)
(* The brief form of the public site: one browser with its tabs and its    *)
(* signed cookie, a network that loses and delays, and the two requests    *)
(* POST /api/brief and GET /api/brief/session in front of the register of  *)
(* leads (LeadRegister, which LeadStorage implements).                     *)
(* A fresh attempt key is named after the send that first carries it, a    *)
(* fresh cookie after the answer that sets it.                             *)
(***************************************************************************)
EXTENDS Integers, FiniteSets

CONSTANTS Tabs,          \* pages of one browser that show the site
          MaxPosts,      \* bound: sends
          MaxChecks,     \* bound: openings of the form, each with a session check
          MaxDrafts,     \* bound: versions of the draft, over all tabs
          MaxExpiries,   \* bound: cookies that become invalid
          MaxDeletions   \* bound: deletions by an administrator

ASSUME BoundsAssumption ==
  Tabs # {} /\ {MaxPosts, MaxChecks, MaxDrafts, MaxExpiries, MaxDeletions} \subseteq Nat

Posts == 1..MaxPosts
Checks == 1..MaxChecks
None == 0                       \* no draft, key, cookie, browser hash, send or check
CookieOfCheck(c) == c
CookieOfPost(p) == MaxChecks + p
Cookies == 1..(MaxChecks + MaxPosts)

VARIABLES
  cookie, expired,      \* the browser's cookie; the cookies the server no longer accepts
  draft, attempt,       \* a tab's draft version; the key of its running attempt
  shown, preparing,     \* the form is open; its session check is outstanding
  already, status,      \* what the form has been told
  check, current,       \* the tab's last session check and last send
  asked,                \* the session checks
  wire, stale,          \* where each send is; the sends that carry an invalid cookie
  brief, leads, told,   \* the register
  ever,                 \* the sends whose lead was committed at some time
  announced,            \* the sends whose message was passed on to the team
  versions, deletions   \* draft versions and deletions so far

page == <<draft, attempt, shown, preparing, already, status, check, current>>
jar == <<cookie, expired>>
net == <<asked, wire, stale>>
register == <<brief, leads, told, ever>>
vars == <<page, jar, net, register, announced, versions, deletions>>

Register == INSTANCE LeadRegister WITH NoBrowser <- None

NotAsked == [at |-> "unsent", tab |-> CHOOSE t \in Tabs : TRUE, browser |-> None, submitted |-> FALSE]
NoBrief == [key |-> None, browser |-> None, payload |-> None]

Init ==
  /\ cookie = None /\ expired = {}
  /\ draft = [t \in Tabs |-> None] /\ attempt = [t \in Tabs |-> None]
  /\ shown = [t \in Tabs |-> FALSE] /\ preparing = [t \in Tabs |-> TRUE]
  /\ already = [t \in Tabs |-> FALSE] /\ status = [t \in Tabs |-> "idle"]
  /\ check = [t \in Tabs |-> None] /\ current = [t \in Tabs |-> None]
  /\ asked = [c \in Checks |-> NotAsked]
  /\ wire = [p \in Posts |-> "unsent"] /\ stale = {}
  /\ brief = [p \in Posts |-> NoBrief] /\ Register!Init
  /\ ever = {} /\ announced = {} /\ versions = 0 /\ deletions = 0

\* cookie_hash: no browser for a missing cookie and for an invalid one.
Browser == IF cookie \in expired THEN None ELSE cookie
Submitted(b) == b # None /\ \E l \in leads : brief[l].browser = b

Unused(f, n) == f[n] = "unsent" /\ \A m \in 1..(n - 1) : f[m] # "unsent"
CheckAt == [c \in Checks |-> asked[c].at]

-----------------------------------------------------------------------------
(* What the visitor does                                                     *)

Sending(t) == status[t] = "sending"
Received(t) == status[t] = "success" \/ already[t]
\* The fields can be changed: the reply step is locked while the form sends,
\* and the form is gone once the message is with the lab.
Editable(t) == shown[t] /\ ~Received(t) /\ ~Sending(t)

\* Mutant: the check is not repeated when the form is opened again.
OpenUnasked(t) ==
  /\ ~shown[t]
  /\ \E c \in Checks :
       /\ Unused(CheckAt, c)
       /\ IF check[t] = None
            THEN /\ asked' = [asked EXCEPT ![c] = [at |-> "out", tab |-> t, browser |-> Browser, submitted |-> FALSE]]
                 /\ check' = [check EXCEPT ![t] = c]
            ELSE UNCHANGED <<asked, check>>
  /\ shown' = [shown EXCEPT ![t] = TRUE]
  /\ preparing' = [preparing EXCEPT ![t] = TRUE]
  /\ UNCHANGED <<draft, attempt, already, status, current, jar, wire, stale, register, announced, versions, deletions>>

\* Opening the form asks the server whether this browser has submitted.
Open(t) ==
  /\ ~shown[t]
  /\ \E c \in Checks :
       /\ Unused(CheckAt, c)
       /\ asked' = [asked EXCEPT ![c] = [at |-> "out", tab |-> t, browser |-> Browser, submitted |-> FALSE]]
       /\ check' = [check EXCEPT ![t] = c]
  /\ shown' = [shown EXCEPT ![t] = TRUE]
  /\ preparing' = [preparing EXCEPT ![t] = TRUE]
  /\ UNCHANGED <<draft, attempt, already, status, current, jar, wire, stale, register, announced, versions, deletions>>

\* The form can be closed at any time, also while it sends or prepares.
Close(t) ==
  /\ shown[t]
  /\ shown' = [shown EXCEPT ![t] = FALSE]
  /\ UNCHANGED <<draft, attempt, preparing, already, status, check, current, jar, net, register, announced, versions, deletions>>

NewVersion(t) ==
  /\ versions < MaxDrafts
  /\ versions' = versions + 1
  /\ draft' = [draft EXCEPT ![t] = versions']

\* Mutant: an edit keeps the key of the attempt.
EditKeepingAttempt(t) ==
  /\ Editable(t)
  /\ NewVersion(t)
  /\ UNCHANGED <<attempt, shown, preparing, already, status, check, current, jar, net, register, announced, deletions>>

\* A change of a field, of the files or of the contact method ends the attempt.
Edit(t) ==
  /\ Editable(t)
  /\ NewVersion(t)
  /\ attempt' = [attempt EXCEPT ![t] = None]
  /\ UNCHANGED <<shown, preparing, already, status, check, current, jar, net, register, announced, deletions>>

ClearDraft(t) ==
  /\ Editable(t) /\ draft[t] # None
  /\ draft' = [draft EXCEPT ![t] = None]
  /\ attempt' = [attempt EXCEPT ![t] = None]
  /\ status' = [status EXCEPT ![t] = "idle"]
  /\ UNCHANGED <<shown, preparing, already, check, current, jar, net, register, announced, versions, deletions>>

\* Mutant: every send takes a new key.
AttemptKeyAnew(t, p) == p

\* Mutant: the key of another attempt is taken.
AttemptKeyAhead(t, p) == IF attempt[t] = None THEN p + 1 ELSE attempt[t]

\* attemptRef.current ??= requestKey()
AttemptKey(t, p) == IF attempt[t] = None THEN p ELSE attempt[t]

Submit(t) ==
  /\ Editable(t) /\ ~preparing[t] /\ draft[t] # None
  /\ \E p \in Posts :
       /\ Unused(wire, p)
       /\ attempt' = [attempt EXCEPT ![t] = AttemptKey(t, p)]
       /\ brief' = [brief EXCEPT ![p] =
                      [key |-> AttemptKey(t, p), browser |-> Browser, payload |-> draft[t]]]
       /\ stale' = IF cookie # Browser THEN stale \cup {p} ELSE stale
       /\ wire' = [wire EXCEPT ![p] = "out"]
       /\ current' = [current EXCEPT ![t] = p]
  /\ status' = [status EXCEPT ![t] = "sending"]
  /\ UNCHANGED <<draft, shown, preparing, already, check, jar, asked, leads, told, ever, announced, versions, deletions>>

\* A reload keeps the draft of the session storage, but for the consent and the
\* files, and forgets the attempt; fetches of the old page are aborted.
Reload(t) ==
  /\ check[t] # None
  /\ IF draft[t] = None THEN UNCHANGED <<draft, versions>> ELSE NewVersion(t)
  /\ attempt' = [attempt EXCEPT ![t] = None]
  /\ shown' = [shown EXCEPT ![t] = FALSE]
  /\ already' = [already EXCEPT ![t] = FALSE]
  /\ status' = [status EXCEPT ![t] = "idle"]
  /\ check' = [check EXCEPT ![t] = None] /\ current' = [current EXCEPT ![t] = None]
  /\ asked' = [c \in Checks |->
                 IF asked[c].at # "unsent" /\ asked[c].tab = t THEN [asked[c] EXCEPT !.at = "over"] ELSE asked[c]]
  /\ UNCHANGED <<preparing, jar, wire, stale, register, announced, deletions>>

-----------------------------------------------------------------------------
(* What the server does                                                      *)

\* GET /api/brief/session.
ServeCheck(c) ==
  /\ asked[c].at = "out"
  /\ asked' = [asked EXCEPT ![c].at = "answered", ![c].submitted = Submitted(asked[c].browser)]
  /\ UNCHANGED <<page, jar, wire, stale, register, announced, versions, deletions>>

\* The guard refuses: another origin, too many attempts, or too large.
GuardRefuses(p) ==
  /\ wire[p] = "out"
  /\ Register!Reject(p)
  /\ wire' = [wire EXCEPT ![p] = "answered"]
  /\ UNCHANGED <<page, jar, asked, stale, ever, announced, versions, deletions>>

\* Mutant: a repeated answer is announced as well.
CreatedOrRepeated(p) == told'[p] \in {"accepted", "repeat"}

Created(p) == told'[p] = "accepted"

\* POST /api/brief: accepted or refused by the register.  Who created a lead
\* tells the team before the answer leaves.
ServePost(p) ==
  /\ wire[p] = "out"
  /\ Register!Serve(p)
  /\ wire' = [wire EXCEPT ![p] = IF Created(p) THEN "announcing" ELSE "answered"]
  /\ ever' = ever \cup leads'
  /\ UNCHANGED <<page, jar, asked, stale, announced, versions, deletions>>

\* One try, whose failure is logged and changes nothing for the visitor.
Notify(p) ==
  /\ wire[p] = "announcing"
  /\ wire' = [wire EXCEPT ![p] = "answered"]
  /\ announced' \in {announced, announced \cup {p}}
  /\ UNCHANGED <<page, jar, asked, stale, register, versions, deletions>>

Delete(l) ==
  /\ deletions < MaxDeletions
  /\ l \in leads
  /\ Register!Delete({l})
  /\ deletions' = deletions + 1
  /\ UNCHANGED <<page, jar, net, ever, announced, versions>>

\* The cookie's age limit passes, which the browser may notice first, or the
\* server's signing secret is changed.
Expire ==
  /\ cookie \notin expired \cup {None}
  /\ Cardinality(expired) < MaxExpiries
  /\ expired' = expired \cup {cookie}
  /\ cookie' \in {cookie, None}
  /\ UNCHANGED <<page, net, register, announced, versions, deletions>>

-----------------------------------------------------------------------------
(* What the page is told                                                     *)

\* Only the check of the current opening counts; the cookie of any is kept.
Active(c) == LET t == asked[c].tab IN shown[t] /\ check[t] = c
KeepCookie(c) == cookie' = IF asked[c].browser = None THEN CookieOfCheck(c) ELSE cookie
Over(c) == asked' = [asked EXCEPT ![c].at = "over"]

CheckAnswered(c) ==
  /\ asked[c].at = "answered"
  /\ KeepCookie(c) /\ Over(c)
  /\ LET t == asked[c].tab
     IN  IF Active(c)
           THEN /\ already' = [already EXCEPT ![t] = asked[c].submitted]
                /\ status' = [status EXCEPT ![t] =
                     IF ~asked[c].submitted /\ @ = "success" THEN "idle" ELSE @]
                /\ preparing' = [preparing EXCEPT ![t] = FALSE]
           ELSE UNCHANGED <<already, status, preparing>>
  /\ UNCHANGED <<draft, attempt, shown, check, current, expired, wire, stale, register, announced, versions, deletions>>

\* A check that fails, before or after its cookie arrived, blocks nothing.
CheckFails(c) ==
  /\ asked[c].at \in {"out", "answered"}
  /\ Over(c)
  /\ UNCHANGED cookie \/ (asked[c].at = "answered" /\ KeepCookie(c))
  /\ preparing' = [preparing EXCEPT ![asked[c].tab] = IF Active(c) THEN FALSE ELSE @]
  /\ UNCHANGED <<draft, attempt, shown, already, status, check, current, expired, wire, stale, register, announced, versions, deletions>>

Succeeded(p) == told[p] \in {"accepted", "repeat"}
RenewCookie(p) == cookie' = IF p \in stale THEN CookieOfPost(p) ELSE cookie

\* Mutant: any answer is taken for a success.
PostAnsweredUnread(t) ==
  /\ Sending(t) /\ wire[current[t]] = "answered"
  /\ RenewCookie(current[t])
  /\ draft' = [draft EXCEPT ![t] = None]
  /\ attempt' = [attempt EXCEPT ![t] = None]
  /\ status' = [status EXCEPT ![t] = "success"]
  /\ UNCHANGED <<shown, preparing, already, check, current, expired, net, register, announced, versions, deletions>>

\* A success empties the form; an error keeps the draft and the attempt.
PostAnswered(t) ==
  /\ Sending(t) /\ wire[current[t]] = "answered"
  /\ \/ /\ Succeeded(current[t])
        /\ RenewCookie(current[t])
        /\ draft' = [draft EXCEPT ![t] = None]
        /\ attempt' = [attempt EXCEPT ![t] = None]
        /\ status' = [status EXCEPT ![t] = "success"]
        /\ UNCHANGED already
     \/ /\ ~Succeeded(current[t])
        /\ already' = [already EXCEPT ![t] = @ \/ told[current[t]] = "already"]
        /\ status' = [status EXCEPT ![t] = "error"]
        /\ UNCHANGED <<draft, attempt, cookie>>
  /\ UNCHANGED <<shown, preparing, check, current, expired, net, register, announced, versions, deletions>>

\* The page gives a send up: its 90 s are over or the connection fails, before
\* the request, on the way back, or after the headers.  It may still be served.
GiveUp(t) ==
  /\ Sending(t)
  /\ status' = [status EXCEPT ![t] = "error"]
  /\ \/ UNCHANGED cookie
     \/ wire[current[t]] = "answered" /\ Succeeded(current[t]) /\ RenewCookie(current[t])
  /\ UNCHANGED <<draft, attempt, shown, preparing, already, check, current, expired, net, register, announced, versions, deletions>>

-----------------------------------------------------------------------------

CheckEnds(c) == CheckAnswered(c) \/ CheckFails(c)

\* The bounds are used up, or the visitor has left.
Rest == UNCHANGED vars

Next ==
  \/ \E t \in Tabs : \/ Open(t) \/ Close(t) \/ Edit(t) \/ ClearDraft(t) \/ Submit(t) \/ Reload(t)
                     \/ PostAnswered(t) \/ GiveUp(t)
  \/ \E c \in Checks : ServeCheck(c) \/ CheckEnds(c)
  \/ \E p \in Posts : GuardRefuses(p) \/ ServePost(p) \/ Notify(p) \/ Delete(p)
  \/ Expire
  \/ Rest

Spec == Init /\ [][Next]_vars

\* The page's 90 s timer runs out, and every fetch of a browser ends some time.
Fairness ==
  /\ \A t \in Tabs : WF_vars(GiveUp(t))
  /\ \A c \in Checks : WF_vars(CheckEnds(c))
LiveSpec == Spec /\ Fairness

-----------------------------------------------------------------------------
(* Properties                                                                *)

\* Every variable keeps its type.
TypeOK ==
  /\ cookie \in Cookies \cup {None} /\ expired \subseteq Cookies
  /\ draft \in [Tabs -> 0..MaxDrafts] /\ attempt \in [Tabs -> 0..MaxPosts]
  /\ shown \in [Tabs -> BOOLEAN] /\ preparing \in [Tabs -> BOOLEAN] /\ already \in [Tabs -> BOOLEAN]
  /\ status \in [Tabs -> {"idle", "sending", "success", "error"}]
  /\ check \in [Tabs -> 0..MaxChecks] /\ current \in [Tabs -> 0..MaxPosts]
  /\ asked \in [Checks -> [at : {"unsent", "out", "answered", "over"}, tab : Tabs,
                           browser : Cookies \cup {None}, submitted : BOOLEAN]]
  /\ wire \in [Posts -> {"unsent", "out", "announcing", "answered"}] /\ stale \subseteq Posts
  /\ brief \in [Posts -> [key : 0..MaxPosts, browser : Cookies \cup {None}, payload : 0..MaxDrafts]]
  /\ leads \subseteq ever /\ ever \subseteq Posts /\ announced \subseteq Posts
  /\ told \in [Posts -> {"none", "accepted", "repeat", "conflict", "already", "rejected", "error"}]
  /\ versions \in 0..MaxDrafts /\ deletions \in 0..MaxDeletions

\* "Your message is with the lab" (page.tsx:856) is never shown for a message that
\* was not saved: behind a success is a lead with the very draft that was sent,
\* behind "already submitted" one that came with a cookie of this browser.
ShownMeansSaved ==
  \A t \in Tabs :
    /\ status[t] = "success" =>
         \E l \in ever : brief[l].key = brief[current[t]].key /\ brief[l].payload = brief[current[t]].payload
    /\ already[t] => \E l \in ever : brief[l].browser # None

\* Sending one draft again - after an error, a timeout, a lost answer, with the
\* earlier send served before, between or after - never makes a second lead.
OneLeadPerDraft == \A p, q \in leads : p # q => brief[p].payload # brief[q].payload

\* The team is told of a message by the request that saved it and by no repeat
\* of it, however often it is sent: never of a message that was not saved, and
\* of a draft again only if its lead was deleted in between.
AnnouncedOnce ==
  /\ announced \subseteq ever
  /\ \A p, q \in announced : p # q /\ brief[p].payload = brief[q].payload => ~({p, q} \subseteq leads)

\* The page never reuses a key for another draft: it is told "already used with
\* different content" only if the browser's cookie changed between two sends.
ConflictOnlyByCookie ==
  \A p \in Posts : told[p] = "conflict" =>
    \E q \in Posts : /\ wire[q] # "unsent" /\ brief[q].key = brief[p].key
                     /\ brief[q].payload = brief[p].payload /\ brief[q].browser # brief[p].browser

\* The form never stays locked: an open form that sends or prepares becomes
\* usable again or is closed, whatever the server and the network do.
FormComesBack ==
  \A t \in Tabs : (shown[t] /\ (Sending(t) \/ preparing[t]))
                    ~> (~shown[t] \/ (~Sending(t) /\ ~preparing[t]))
=============================================================================
