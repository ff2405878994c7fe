-------------------------- MODULE BriefFormProofs --------------------------
(***************************************************************************)
(* Proofs about BriefForm, for any number of tabs, sends, session checks,  *)
(* drafts, expired cookies and deletions.  The argument: a key stands for  *)
(* one draft version and a version for one key, in every tab, through      *)
(* edits, reloads and answers in any order; the register keeps keys apart, *)
(* so it keeps drafts apart.                                               *)
(***************************************************************************)
EXTENDS BriefForm, TLAPS

Sent(p) == wire[p] # "unsent"

\* A send carries the key of the send that first carried it, with its draft.
KeysStandForDrafts == \A p \in Posts : Sent(p) =>
  LET k == brief[p].key
  IN  /\ k \in Posts /\ Sent(k) /\ brief[k].key = k
      /\ brief[p].payload = brief[k].payload
      /\ brief[p].payload \in 1..versions

\* ... and a draft is sent with one key only.
DraftsStandForKeys == \A p, q \in Posts :
  Sent(p) /\ Sent(q) /\ brief[p].payload = brief[q].payload => brief[p].key = brief[q].key

\* The draft a tab has is its own, and the one its running attempt has sent.
OwnDraft(t) ==
  /\ draft[t] <= versions
  /\ \A u \in Tabs : u # t /\ draft[t] # None => draft[u] # draft[t]
  /\ attempt[t] # None =>
       /\ Sent(attempt[t]) /\ brief[attempt[t]].key = attempt[t]
       /\ brief[attempt[t]].payload = draft[t] /\ draft[t] # None
  /\ attempt[t] = None /\ draft[t] # None => \A p \in Posts : Sent(p) => brief[p].payload # draft[t]

DraftsAreOwn == \A t \in Tabs : OwnDraft(t)

\* What the register holds and has answered.
RegisterHolds ==
  /\ \A p \in ever : Sent(p)
  /\ \A l, m \in leads : l # m => brief[l].key # brief[m].key
  /\ \A p \in Posts :
       /\ wire[p] \in {"unsent", "out"} => told[p] = "none"
       /\ wire[p] = "announcing" => told[p] = "accepted"
       /\ told[p] = "accepted" => p \in ever
       /\ told[p] = "repeat" => \E l \in ever : brief[l] = brief[p]
       /\ told[p] = "already" => \E l \in ever : brief[l].browser # None

\* What the page waits for has been sent, and what it was told is true.
PagesAreTold ==
  /\ \A t \in Tabs : status[t] \in {"sending", "success"} => current[t] \in Posts /\ Sent(current[t])
  /\ \A c \in Checks : asked[c].submitted => \E l \in ever : brief[l].browser # None

FormInv ==
  /\ TypeOK /\ KeysStandForDrafts /\ DraftsStandForKeys /\ DraftsAreOwn /\ RegisterHolds /\ PagesAreTold
  /\ ShownMeansSaved /\ ConflictOnlyByCookie /\ announced \subseteq ever

-----------------------------------------------------------------------------
(* Types                                                                     *)

Check == [at : {"unsent", "out", "answered", "over"}, tab : Tabs, browser : Cookies \cup {None}, submitted : BOOLEAN]
Brief == [key : 0..MaxPosts, browser : Cookies \cup {None}, payload : 0..MaxDrafts]
Answers == {"none", "accepted", "repeat", "conflict", "already", "rejected", "error"}

\* The types, with the records named.
TypeOKNamed ==
  /\ cookie \in Cookies \cup {None} /\ expired \subseteq Cookies
  /\ draft \in [Tabs -> 0..MaxDrafts] /\ attempt \in [Tabs -> 0..MaxPosts]
  /\ shown \in [Tabs -> BOOLEAN] /\ preparing \in [Tabs -> BOOLEAN] /\ already \in [Tabs -> BOOLEAN]
  /\ status \in [Tabs -> {"idle", "sending", "success", "error"}]
  /\ check \in [Tabs -> 0..MaxChecks] /\ current \in [Tabs -> 0..MaxPosts]
  /\ asked \in [Checks -> Check]
  /\ wire \in [Posts -> {"unsent", "out", "announcing", "answered"}] /\ stale \subseteq Posts
  /\ brief \in [Posts -> Brief]
  /\ leads \subseteq ever /\ ever \subseteq Posts /\ announced \subseteq Posts
  /\ told \in [Posts -> Answers]
  /\ versions \in 0..MaxDrafts /\ deletions \in 0..MaxDeletions

\* The type invariant, its record sets named.
LEMMA Named == TypeOK <=> TypeOKNamed
  BY DEF TypeOK, TypeOKNamed, Check, Brief, Answers

\* Session checks move on, and stay session checks.
LEMMA CheckMoves ==
  ASSUME asked \in [Checks -> Check], NEW c \in Checks,
         NEW at \in {"unsent", "out", "answered", "over"}, NEW submitted \in BOOLEAN
  PROVE  /\ [asked[c] EXCEPT !.at = at] \in Check
         /\ [asked EXCEPT ![c].at = at] \in [Checks -> Check]
         /\ [asked EXCEPT ![c].at = at, ![c].submitted = submitted] \in [Checks -> Check]
<1>1. asked[c] \in Check  OBVIOUS
<1>2. [asked[c] EXCEPT !.at = at] \in Check  BY <1>1 DEF Check
<1>3. [asked EXCEPT ![c].at = at] \in [Checks -> Check]  BY DEF Check
<1>4. [asked EXCEPT ![c].at = at, ![c].submitted = submitted] \in [Checks -> Check]  BY DEF Check
<1> QED BY <1>2, <1>3, <1>4

\* At first there is nothing.
LEMMA FormInit == Init => TypeOK
<1> SUFFICES ASSUME Init PROVE TypeOK  OBVIOUS
<1> USE BoundsAssumption DEF Init
<1>1. NotAsked \in Check
  <2>1. (CHOOSE t \in Tabs : TRUE) \in Tabs  OBVIOUS
  <2> QED BY <2>1 DEF NotAsked, Check
<1>2. NoBrief \in Brief  BY DEF NoBrief, Brief, None
<1>3. /\ draft \in [Tabs -> 0..MaxDrafts] /\ attempt \in [Tabs -> 0..MaxPosts]
      /\ check \in [Tabs -> 0..MaxChecks] /\ current \in [Tabs -> 0..MaxPosts]
      /\ versions \in 0..MaxDrafts /\ deletions \in 0..MaxDeletions
  BY DEF None
<1>4. leads = {} /\ told \in [Posts -> Answers]  BY DEF Register!Init, Answers
<1> QED BY <1>1, <1>2, <1>3, <1>4, Named DEF TypeOKNamed

\* Every step keeps the types.
LEMMA FormTypeStep == ASSUME TypeOK, [Next]_vars PROVE TypeOK'
<1> USE BoundsAssumption
<1>0. TypeOKNamed  BY Named
<1> SUFFICES TypeOKNamed'  BY Named DEF TypeOK, TypeOKNamed, Check, Brief, Answers
<1>a. \A c \in Checks : CookieOfCheck(c) \in Cookies
  BY DEF Checks, CookieOfCheck, Cookies
<1>b. \A p \in Posts : CookieOfPost(p) \in Cookies
  BY DEF Posts, CookieOfPost, Cookies
<1>c. Browser \in Cookies \cup {None}  BY <1>0 DEF TypeOKNamed, Browser
<1>1. ASSUME NEW t \in Tabs, Open(t) PROVE TypeOKNamed'
  <2>1. PICK c \in Checks : /\ asked' = [asked EXCEPT ![c] = [at |-> "out", tab |-> t, browser |-> Browser, submitted |-> FALSE]]
                            /\ check' = [check EXCEPT ![t] = c]
    BY <1>1 DEF Open
  <2>2. [at |-> "out", tab |-> t, browser |-> Browser, submitted |-> FALSE] \in Check  BY <1>c DEF Check
  <2>3. asked' \in [Checks -> Check] /\ check' \in [Tabs -> 0..MaxChecks]
    <3>1. asked \in [Checks -> Check] /\ check \in [Tabs -> 0..MaxChecks]  BY <1>0 DEF TypeOKNamed
    <3>2. asked' \in [Checks -> Check]  BY <2>1, <2>2, <3>1
    <3>3. c \in 0..MaxChecks  BY <2>1 DEF Checks
    <3>4. check' \in [Tabs -> 0..MaxChecks]  BY <2>1, <3>1, <3>3
    <3> QED BY <3>2, <3>4
  <2> QED BY <1>0, <1>1, <2>3 DEF Open, TypeOKNamed, jar, register
<1>2. ASSUME NEW t \in Tabs, Close(t) PROVE TypeOKNamed'
  BY <1>0, <1>2 DEF Close, TypeOKNamed, jar, net, register
<1>3. ASSUME NEW t \in Tabs, Edit(t) \/ ClearDraft(t) PROVE TypeOKNamed'
  BY <1>0, <1>3 DEF Edit, ClearDraft, NewVersion, TypeOKNamed, jar, net, register, None
<1>4. ASSUME NEW t \in Tabs, Submit(t) PROVE TypeOKNamed'
  <2>1. PICK p \in Posts :
       /\ attempt' = [attempt EXCEPT ![t] = AttemptKey(t, p)]
       /\ brief' = [brief EXCEPT ![p] =
                      [key |-> AttemptKey(t, p), browser |-> Browser, payload |-> draft[t]]]
       /\ stale' = IF cookie # Browser THEN stale \cup {p} ELSE stale
       /\ wire' = [wire EXCEPT ![p] = "out"]
       /\ current' = [current EXCEPT ![t] = p]
    BY <1>4 DEF Submit
  <2>2. AttemptKey(t, p) \in 0..MaxPosts  BY <1>0 DEF AttemptKey, TypeOKNamed, Posts
  <2>3. [key |-> AttemptKey(t, p), browser |-> Browser, payload |-> draft[t]] \in Brief
    BY <1>0, <1>c, <2>2 DEF Brief, TypeOKNamed
  <2>4. brief' \in [Posts -> Brief] /\ wire' \in [Posts -> {"unsent", "out", "announcing", "answered"}]
    BY <1>0, <2>1, <2>3 DEF TypeOKNamed
  <2>5. attempt' \in [Tabs -> 0..MaxPosts] /\ current' \in [Tabs -> 0..MaxPosts] /\ stale' \subseteq Posts
    BY <1>0, <2>1, <2>2, SMTT(30) DEF TypeOKNamed, Posts
  <2>6. status' \in [Tabs -> {"idle", "sending", "success", "error"}]  BY <1>0, <1>4 DEF Submit, TypeOKNamed
  <2> QED BY <1>0, <1>4, <2>4, <2>5, <2>6 DEF Submit, TypeOKNamed, jar
<1>5. ASSUME NEW t \in Tabs, Reload(t) PROVE TypeOKNamed'
  <2>1. asked' \in [Checks -> Check]
    <3>1. ASSUME NEW c \in Checks PROVE [asked[c] EXCEPT !.at = "over"] \in Check
      BY <1>0, CheckMoves DEF TypeOKNamed
    <3> QED BY <1>0, <1>5, <3>1 DEF Reload, TypeOKNamed
  <2>2. draft' \in [Tabs -> 0..MaxDrafts] /\ versions' \in 0..MaxDrafts
    BY <1>0, <1>5 DEF Reload, NewVersion, TypeOKNamed
  <2>3. /\ attempt' \in [Tabs -> 0..MaxPosts] /\ check' \in [Tabs -> 0..MaxChecks] /\ current' \in [Tabs -> 0..MaxPosts]
        /\ shown' \in [Tabs -> BOOLEAN] /\ already' \in [Tabs -> BOOLEAN]
        /\ status' \in [Tabs -> {"idle", "sending", "success", "error"}]
    BY <1>0, <1>5 DEF Reload, TypeOKNamed, None
  <2> QED BY <1>0, <1>5, <2>1, <2>2, <2>3 DEF Reload, TypeOKNamed, jar, register
<1>6. ASSUME NEW t \in Tabs, PostAnswered(t) \/ GiveUp(t) PROVE TypeOKNamed'
  <2>1. cookie' = cookie \/ RenewCookie(current[t])  BY <1>6 DEF PostAnswered, GiveUp
  <2>2. cookie' \in Cookies \cup {None}  BY <1>0, <1>b, <2>1 DEF RenewCookie, TypeOKNamed
  <2>3. /\ draft' \in [Tabs -> 0..MaxDrafts] /\ attempt' \in [Tabs -> 0..MaxPosts]
        /\ already' \in [Tabs -> BOOLEAN]
        /\ status' \in [Tabs -> {"idle", "sending", "success", "error"}]
    <3>1. CASE PostAnswered(t)
      <4>1. PICK v \in BOOLEAN : v = (already[t] \/ told[current[t]] = "already")  OBVIOUS
      <4>2. already' = already \/ already' = [already EXCEPT ![t] = v]  BY <3>1, <4>1 DEF PostAnswered
      <4>3. already' \in [Tabs -> BOOLEAN]  BY <1>0, <4>2 DEF TypeOKNamed
      <4>4. /\ draft' \in [Tabs -> 0..MaxDrafts] /\ attempt' \in [Tabs -> 0..MaxPosts]
            /\ status' \in [Tabs -> {"idle", "sending", "success", "error"}]
        BY <1>0, <3>1 DEF PostAnswered, TypeOKNamed, None
      <4> QED BY <4>3, <4>4
    <3>2. CASE GiveUp(t)
      BY <1>0, <3>2 DEF GiveUp, TypeOKNamed
    <3> QED BY <1>6, <3>1, <3>2
  <2> QED BY <1>0, <1>6, <2>2, <2>3 DEF PostAnswered, GiveUp, TypeOKNamed, net, register
<1>7. ASSUME NEW c \in Checks, ServeCheck(c) PROVE TypeOKNamed'
  <2>1. Submitted(asked[c].browser) \in BOOLEAN  BY DEF Submitted
  <2>2. asked' \in [Checks -> Check]
    <3>1. asked' = [asked EXCEPT ![c].at = "answered", ![c].submitted = Submitted(asked[c].browser)]
      BY <1>7 DEF ServeCheck
    <3>2. asked \in [Checks -> Check]  BY <1>0 DEF TypeOKNamed
    <3> QED BY <2>1, <3>1, <3>2, CheckMoves
  <2> QED BY <1>0, <1>7, <2>2 DEF ServeCheck, TypeOKNamed, page, jar, register
<1>8. ASSUME NEW c \in Checks, CheckAnswered(c) PROVE TypeOKNamed'
  <2>1. asked' \in [Checks -> Check] /\ asked[c].tab \in Tabs /\ asked[c].submitted \in BOOLEAN
    <3>1. asked' = [asked EXCEPT ![c].at = "over"]  BY <1>8 DEF CheckAnswered, Over
    <3>2. asked \in [Checks -> Check] /\ asked[c] \in Check  BY <1>0 DEF TypeOKNamed
    <3>3. asked' \in [Checks -> Check]  BY <3>1, <3>2, CheckMoves
    <3> QED BY <3>2, <3>3 DEF Check
  <2>2. cookie' \in Cookies \cup {None}  BY <1>0, <1>8, <1>a DEF CheckAnswered, KeepCookie, TypeOKNamed
  <2>3. /\ already' \in [Tabs -> BOOLEAN] /\ preparing' \in [Tabs -> BOOLEAN]
        /\ status' \in [Tabs -> {"idle", "sending", "success", "error"}]
    <3> DEFINE t == asked[c].tab
    <3>1. already' = already \/ already' = [already EXCEPT ![t] = asked[c].submitted]  BY <1>8 DEF CheckAnswered
    <3>2. already' \in [Tabs -> BOOLEAN]  BY <1>0, <2>1, <3>1 DEF TypeOKNamed
    <3>3. preparing' = preparing \/ preparing' = [preparing EXCEPT ![t] = FALSE]  BY <1>8 DEF CheckAnswered
    <3>4. preparing' \in [Tabs -> BOOLEAN]  BY <1>0, <2>1, <3>3 DEF TypeOKNamed
    <3>5. status' = status \/ status' = [status EXCEPT ![t] = "idle"] \/ status' = [status EXCEPT ![t] = status[t]]
      BY <1>8 DEF CheckAnswered
    <3>6. status' \in [Tabs -> {"idle", "sending", "success", "error"}]  BY <1>0, <2>1, <3>5 DEF TypeOKNamed
    <3> QED BY <3>2, <3>4, <3>6
  <2> QED BY <1>0, <1>8, <2>1, <2>2, <2>3 DEF CheckAnswered, TypeOKNamed, register
<1>9. ASSUME NEW c \in Checks, CheckFails(c) PROVE TypeOKNamed'
  <2>1. asked' \in [Checks -> Check] /\ asked[c].tab \in Tabs
    <3>1. asked' = [asked EXCEPT ![c].at = "over"]  BY <1>9 DEF CheckFails, Over
    <3>2. asked \in [Checks -> Check] /\ asked[c] \in Check  BY <1>0 DEF TypeOKNamed
    <3>3. asked' \in [Checks -> Check]  BY <3>1, <3>2, CheckMoves
    <3> QED BY <3>2, <3>3 DEF Check
  <2>2. cookie' \in Cookies \cup {None}  BY <1>0, <1>9, <1>a DEF CheckFails, KeepCookie, TypeOKNamed
  <2>3. preparing' \in [Tabs -> BOOLEAN]  BY <1>0, <1>9, <2>1 DEF CheckFails, TypeOKNamed
  <2> QED BY <1>0, <1>9, <2>1, <2>2, <2>3 DEF CheckFails, TypeOKNamed, register
<1>10. ASSUME NEW p \in Posts, GuardRefuses(p) PROVE TypeOKNamed'
  <2>1. told' \in [Posts -> Answers] /\ leads' = leads /\ brief' = brief
    BY <1>0, <1>10 DEF GuardRefuses, Register!Reject, TypeOKNamed, Answers
  <2>2. wire' \in [Posts -> {"unsent", "out", "announcing", "answered"}]  BY <1>0, <1>10 DEF GuardRefuses, TypeOKNamed
  <2> QED BY <1>0, <1>10, <2>1, <2>2 DEF GuardRefuses, TypeOKNamed, page, jar
<1>11. ASSUME NEW p \in Posts, ServePost(p) PROVE TypeOKNamed'
  <2>1. told' \in [Posts -> Answers] /\ leads' \subseteq leads \cup {p} /\ brief' = brief
    BY <1>0, <1>11 DEF ServePost, Register!Serve, Register!Accept, Register!Repeat, Register!Conflict, Register!Already,
         Register!Reject, Register!Break, TypeOKNamed, Answers
  <2>2. wire' \in [Posts -> {"unsent", "out", "announcing", "answered"}]  BY <1>0, <1>11 DEF ServePost, TypeOKNamed
  <2>3. leads' \subseteq ever' /\ ever' \subseteq Posts  BY <1>0, <1>11, <2>1 DEF ServePost, TypeOKNamed
  <2> QED BY <1>0, <1>11, <2>1, <2>2, <2>3 DEF ServePost, TypeOKNamed, page, jar
<1>12. ASSUME NEW p \in Posts, Notify(p) \/ Delete(p) PROVE TypeOKNamed'
  BY <1>0, <1>12 DEF Notify, Delete, Register!Delete, TypeOKNamed, page, jar, net, register
<1>13. ASSUME Expire PROVE TypeOKNamed'
  BY <1>0, <1>13 DEF Expire, TypeOKNamed, page, net, register
<1>14. ASSUME UNCHANGED vars PROVE TypeOKNamed'
  BY <1>0, <1>14 DEF vars, TypeOKNamed, page, jar, net, register
<1> QED BY <1>1, <1>2, <1>3, <1>4, <1>5, <1>6, <1>7, <1>8, <1>9, <1>10, <1>11, <1>12, <1>13, <1>14 DEF Next, CheckEnds, Rest

-----------------------------------------------------------------------------
(* What a step leaves alone                                                  *)

Serving(p) == GuardRefuses(p) \/ ServePost(p) \/ Notify(p) \/ Delete(p)

\* The register's actions, without what they say about the answer.
Answering(p) ==
  /\ told[p] = "none"
  /\ \E answer \in Answers \ {"none"} : told' = [told EXCEPT ![p] = answer]
  /\ brief' = brief

\* Every answer of the register, whichever it is.
LEMMA ServeAnswers == ASSUME NEW p \in Posts, Register!Serve(p) \/ Register!Reject(p) PROVE Answering(p)
  BY DEF Register!Serve, Register!Accept, Register!Repeat, Register!Conflict, Register!Already,
         Register!Reject, Register!Break, Answering, Answers

\* Only a submission adds a send; no other step changes what one carries.
LEMMA Quiet ==
  ASSUME TypeOK, [Next]_vars, ~ \E t \in Tabs : Submit(t)
  PROVE  brief' = brief /\ \A p \in Posts : Sent(p)' <=> Sent(p)
<1> USE DEF Sent
<1>t. wire \in [Posts -> {"unsent", "out", "announcing", "answered"}]  BY DEF TypeOK
<1>1. ASSUME NEW t \in Tabs, Open(t) \/ Close(t) \/ Edit(t) \/ ClearDraft(t) \/ Reload(t) \/ PostAnswered(t) \/ GiveUp(t)
      PROVE  brief' = brief /\ wire' = wire
  BY <1>1 DEF Open, Close, Edit, ClearDraft, Reload, PostAnswered, GiveUp, register, net
<1>2. ASSUME NEW c \in Checks, ServeCheck(c) \/ CheckEnds(c) PROVE brief' = brief /\ wire' = wire
  BY <1>2 DEF ServeCheck, CheckEnds, CheckAnswered, CheckFails, register
<1>3. ASSUME NEW p \in Posts, GuardRefuses(p) PROVE brief' = brief /\ wire[p] # "unsent" /\ wire' = [wire EXCEPT ![p] = "answered"]
  BY <1>3 DEF GuardRefuses, Register!Reject
<1>4. ASSUME NEW p \in Posts, ServePost(p)
      PROVE  brief' = brief /\ wire[p] # "unsent" /\ wire' \in {[wire EXCEPT ![p] = "announcing"], [wire EXCEPT ![p] = "answered"]}
  BY <1>4, ServeAnswers DEF ServePost, Answering
<1>5. ASSUME NEW p \in Posts, Notify(p) \/ Delete(p)
      PROVE  brief' = brief /\ (wire' = wire \/ (wire[p] # "unsent" /\ wire' = [wire EXCEPT ![p] = "answered"]))
  BY <1>5 DEF Notify, Delete, Register!Delete, register, net
<1>6. ASSUME Expire \/ UNCHANGED vars PROVE brief' = brief /\ wire' = wire
  BY <1>6 DEF Expire, vars, register, net
<1>7. \/ brief' = brief /\ wire' = wire
      \/ \E p \in Posts : /\ brief' = brief /\ wire[p] # "unsent"
                          /\ wire' \in {[wire EXCEPT ![p] = "announcing"], [wire EXCEPT ![p] = "answered"]}
  BY <1>1, <1>2, <1>3, <1>4, <1>5, <1>6 DEF Next, Rest
<1> QED BY <1>t, <1>7

\* What a submission does, as far as keys and drafts are concerned.
Submits(t, p) ==
  /\ draft[t] # None /\ ~Sent(p) /\ status[t] # "success"
  /\ attempt' = [attempt EXCEPT ![t] = AttemptKey(t, p)]
  /\ brief' = [brief EXCEPT ![p] = [key |-> AttemptKey(t, p), browser |-> Browser, payload |-> draft[t]]]
  /\ wire' = [wire EXCEPT ![p] = "out"]
  /\ current' = [current EXCEPT ![t] = p]
  /\ status' = [status EXCEPT ![t] = "sending"]
  /\ UNCHANGED <<draft, versions, leads, told, ever, already, asked, announced>>

\* A send takes a name nobody has used.
LEMMA SubmitIs == ASSUME NEW t \in Tabs, Submit(t) PROVE \E p \in Posts : Submits(t, p)
  BY DEF Submit, Submits, Unused, Sent, Editable, Received

\* The record of the new send.
LEMMA SubmitBrief ==
  ASSUME TypeOK, NEW t \in Tabs, NEW p \in Posts, Submits(t, p)
  PROVE  /\ Sent(p)' /\ \A q \in Posts : q # p => (Sent(q)' <=> Sent(q)) /\ brief'[q] = brief[q]
         /\ brief'[p].key = AttemptKey(t, p) /\ brief'[p].payload = draft[t] /\ brief'[p].browser = Browser
         /\ attempt'[t] = AttemptKey(t, p) /\ \A u \in Tabs : u # t => attempt'[u] = attempt[u]
         /\ current'[t] = p /\ \A u \in Tabs : u # t => current'[u] = current[u]
         /\ status'[t] = "sending" /\ \A u \in Tabs : u # t => status'[u] = status[u]
  BY DEF TypeOK, Submits, Sent

\* Every step keeps what was sent, as it was sent, and what was ever a lead.
LEMMA NothingIsTakenBack ==
  ASSUME TypeOK, [Next]_vars
  PROVE  /\ \A p \in Posts : Sent(p) => Sent(p)' /\ brief'[p] = brief[p]
         /\ ever \subseteq ever'
<1>1. \A p \in Posts : Sent(p) => Sent(p)' /\ brief'[p] = brief[p]
  <2>1. CASE \E t \in Tabs : Submit(t)
    <3>1. PICK t \in Tabs, p \in Posts : Submits(t, p)  BY <2>1, SubmitIs
    <3>2. ~Sent(p)  BY <3>1 DEF Submits
    <3> QED BY <3>1, <3>2, SubmitBrief
  <2>2. CASE ~ \E t \in Tabs : Submit(t)
    BY <2>2, Quiet
  <2> QED BY <2>1, <2>2
<1>2. ever \subseteq ever'
  BY DEF Next, Rest, vars, Open, Close, Edit, ClearDraft, Reload, PostAnswered, GiveUp, Submit, ServeCheck, CheckEnds, CheckAnswered,
         CheckFails, GuardRefuses, ServePost, Notify, Delete, Expire, register, net
<1> QED BY <1>1, <1>2

-----------------------------------------------------------------------------
(* Keys and drafts                                                           *)

\* What any other step makes of the drafts: one tab gets a new version or
\* none, and its attempt ends; or nothing.
LEMMA DraftMoves ==
  ASSUME TypeOK, [Next]_vars, ~ \E t \in Tabs : Submit(t)
  PROVE  \/ draft' = draft /\ attempt' = attempt /\ versions' = versions
         \/ \E t \in Tabs :
              /\ attempt' = [attempt EXCEPT ![t] = None]
              /\ \/ versions' = versions + 1 /\ draft' = [draft EXCEPT ![t] = versions + 1]
                 \/ versions' = versions /\ draft' = [draft EXCEPT ![t] = None]
<1>1. ASSUME NEW t \in Tabs, Open(t) \/ Close(t) \/ GiveUp(t)
      PROVE  draft' = draft /\ attempt' = attempt /\ versions' = versions
  BY <1>1 DEF Open, Close, GiveUp
<1>2. ASSUME NEW t \in Tabs, Edit(t) \/ ClearDraft(t)
      PROVE  /\ attempt' = [attempt EXCEPT ![t] = None]
             /\ \/ versions' = versions + 1 /\ draft' = [draft EXCEPT ![t] = versions + 1]
                \/ versions' = versions /\ draft' = [draft EXCEPT ![t] = None]
  BY <1>2 DEF Edit, ClearDraft, NewVersion
<1>3. ASSUME NEW t \in Tabs, Reload(t)
      PROVE  /\ attempt' = [attempt EXCEPT ![t] = None]
             /\ \/ versions' = versions + 1 /\ draft' = [draft EXCEPT ![t] = versions + 1]
                \/ versions' = versions /\ draft' = [draft EXCEPT ![t] = None]
  <2>1. draft[t] = None => draft = [draft EXCEPT ![t] = None]  BY DEF TypeOK
  <2> QED BY <1>3, <2>1 DEF Reload, NewVersion
<1>4. ASSUME NEW t \in Tabs, PostAnswered(t)
      PROVE  \/ draft' = draft /\ attempt' = attempt /\ versions' = versions
             \/ /\ attempt' = [attempt EXCEPT ![t] = None]
                /\ versions' = versions /\ draft' = [draft EXCEPT ![t] = None]
  BY <1>4 DEF PostAnswered
<1>5. ASSUME NEW c \in Checks, ServeCheck(c) \/ CheckEnds(c)
      PROVE  draft' = draft /\ attempt' = attempt /\ versions' = versions
  BY <1>5 DEF ServeCheck, CheckEnds, CheckAnswered, CheckFails, page
<1>6. ASSUME NEW p \in Posts, Serving(p) PROVE draft' = draft /\ attempt' = attempt /\ versions' = versions
  BY <1>6 DEF Serving, GuardRefuses, ServePost, Notify, Delete, page
<1>7. ASSUME Expire \/ UNCHANGED vars PROVE draft' = draft /\ attempt' = attempt /\ versions' = versions
  BY <1>7 DEF Expire, vars, page
<1> QED BY <1>1, <1>2, <1>3, <1>4, <1>5, <1>6, <1>7 DEF Next, Rest, Serving

\* A version counts on.
LEMMA VersionsGrow == TypeOK /\ TypeOK' /\ [Next]_vars => versions \in Nat /\ versions' \in Nat /\ versions <= versions'
<1> SUFFICES ASSUME TypeOK, TypeOK', [Next]_vars PROVE versions \in Nat /\ versions' \in Nat /\ versions <= versions'  OBVIOUS
<1>1. versions \in Nat /\ versions' \in Nat  BY BoundsAssumption DEF TypeOK
<1>2. versions' = versions \/ versions' = versions + 1
  <2>1. (\E t \in Tabs : Submit(t)) => versions' = versions  BY DEF Submit
  <2> QED BY <2>1, DraftMoves
<1> QED BY <1>1, <1>2

\* A submission keeps keys and drafts in step.
LEMMA KeysSubmit ==
  ASSUME TypeOK, KeysStandForDrafts, DraftsStandForKeys, DraftsAreOwn, NEW t \in Tabs, NEW p \in Posts, Submits(t, p)
  PROVE  KeysStandForDrafts' /\ DraftsStandForKeys' /\ DraftsAreOwn'
<1> DEFINE k == AttemptKey(t, p)
<1>1. /\ Sent(p)' /\ \A q \in Posts : q # p => (Sent(q)' <=> Sent(q)) /\ brief'[q] = brief[q]
      /\ brief'[p].key = k /\ brief'[p].payload = draft[t]
      /\ attempt'[t] = k /\ \A u \in Tabs : u # t => attempt'[u] = attempt[u]
  BY SubmitBrief
<1>2. ~Sent(p) /\ draft[t] # None /\ draft' = draft /\ versions' = versions  BY DEF Submits
<1>3. versions \in Nat /\ draft[t] \in Nat /\ p # None /\ draft[t] \in 1..versions
  BY <1>2, BoundsAssumption DEF TypeOK, Posts, None, DraftsAreOwn, OwnDraft
<1>4. CASE attempt[t] = None
  <2>1. k = p  BY <1>4 DEF AttemptKey
  <2>2. \A q \in Posts : Sent(q) => brief[q].payload # draft[t]  BY <1>2, <1>4 DEF DraftsAreOwn, OwnDraft
  <2>3. \A q \in Posts : Sent(q) => brief[q].key # p  BY <1>2 DEF KeysStandForDrafts
  <2>4. KeysStandForDrafts'
    BY <1>1, <1>2, <1>3, <2>1, <2>3 DEF KeysStandForDrafts
  <2>5. DraftsStandForKeys'
    BY <1>1, <1>2, <2>1, <2>2 DEF DraftsStandForKeys
  <2>6. DraftsAreOwn'
    <3> SUFFICES ASSUME NEW u \in Tabs PROVE OwnDraft(u)'  BY DEF DraftsAreOwn
    <3>0. OwnDraft(u)  BY DEF DraftsAreOwn
    <3>1. CASE u = t
      BY <1>1, <1>2, <1>3, <2>1, <3>0, <3>1 DEF OwnDraft, Sent
    <3>2. CASE u # t
      <4>1. attempt[u] # None => attempt[u] \in Posts /\ attempt[u] # p
        BY <1>2, <3>0 DEF OwnDraft, TypeOK, Posts, None
      <4> QED BY <1>1, <1>2, <2>1, <3>0, <3>2, <4>1 DEF OwnDraft, Sent
    <3> QED BY <3>1, <3>2
  <2> QED BY <2>4, <2>5, <2>6
<1>5. CASE attempt[t] # None
  <2>1. /\ k = attempt[t] /\ k \in Posts /\ Sent(k) /\ brief[k].key = k /\ brief[k].payload = draft[t] /\ k # p
    BY <1>2, <1>5 DEF AttemptKey, DraftsAreOwn, OwnDraft, TypeOK, Posts, None
  <2>2. \A q \in Posts : Sent(q) => brief[q].key # p  BY <1>2 DEF KeysStandForDrafts
  <2>4. KeysStandForDrafts'
    BY <1>1, <1>2, <1>3, <2>1, <2>2 DEF KeysStandForDrafts
  <2>5. DraftsStandForKeys'
    BY <1>1, <1>2, <2>1 DEF DraftsStandForKeys
  <2>6. DraftsAreOwn'
    <3> SUFFICES ASSUME NEW u \in Tabs PROVE OwnDraft(u)'  BY DEF DraftsAreOwn
    <3>0. OwnDraft(u)  BY DEF DraftsAreOwn
    <3>1. CASE u = t
      BY <1>1, <1>2, <1>3, <2>1, <1>5, <3>0, <3>1 DEF OwnDraft, Sent
    <3>2. CASE u # t
      <4>1. attempt[u] # None => attempt[u] \in Posts /\ attempt[u] # p
        BY <1>2, <3>0 DEF OwnDraft, TypeOK, Posts, None
      <4> QED BY <1>1, <1>2, <2>1, <3>0, <3>2, <4>1 DEF OwnDraft, Sent
    <3> QED BY <3>1, <3>2
  <2> QED BY <2>4, <2>5, <2>6
<1> QED BY <1>4, <1>5

\* So does every other step.
LEMMA KeysOther ==
  ASSUME TypeOK, TypeOK', KeysStandForDrafts, DraftsStandForKeys, DraftsAreOwn, [Next]_vars, ~ \E t \in Tabs : Submit(t)
  PROVE  KeysStandForDrafts' /\ DraftsStandForKeys' /\ DraftsAreOwn'
<1>1. brief' = brief /\ \A p \in Posts : Sent(p)' <=> Sent(p)  BY Quiet
<1>2. versions \in Nat /\ versions' \in Nat /\ versions <= versions'  BY VersionsGrow
<1>3. KeysStandForDrafts'  BY <1>1, <1>2 DEF KeysStandForDrafts
<1>4. DraftsStandForKeys'  BY <1>1 DEF DraftsStandForKeys
<1>5. DraftsAreOwn'
  <2> SUFFICES ASSUME NEW u \in Tabs PROVE OwnDraft(u)'  BY DEF DraftsAreOwn
  <2>0. \A w \in Tabs : OwnDraft(w) /\ draft[w] \in Nat /\ attempt[w] \in 0..MaxPosts
    BY BoundsAssumption DEF DraftsAreOwn, TypeOK
  <2>a. \A w \in Tabs : attempt[w] # None => attempt[w] \in Posts  BY <2>0 DEF Posts, None
  <2>1. CASE draft' = draft /\ attempt' = attempt /\ versions' = versions
    BY <1>1, <2>0, <2>a, <2>1 DEF OwnDraft, Sent
  <2>2. ASSUME NEW t \in Tabs, attempt' = [attempt EXCEPT ![t] = None],
               versions' = versions + 1, draft' = [draft EXCEPT ![t] = versions + 1]
        PROVE  OwnDraft(u)'
    <3>1. /\ draft'[t] = versions + 1 /\ attempt'[t] = None
          /\ \A w \in Tabs : w # t => draft'[w] = draft[w] /\ attempt'[w] = attempt[w]
      BY <2>2 DEF TypeOK
    <3>2. \A p \in Posts : Sent(p) => brief[p].payload # versions + 1  BY <1>2 DEF KeysStandForDrafts
    <3>3. \A w \in Tabs : draft[w] <= versions /\ draft[w] # versions + 1  BY <1>2, <2>0 DEF OwnDraft
    <3>4. CASE u = t
      BY <1>1, <1>2, <2>2, <3>1, <3>2, <3>3, <3>4 DEF OwnDraft, Sent
    <3>5. CASE u # t
      <4>1. OwnDraft(u) /\ draft[u] <= versions'  BY <1>2, <2>0, <2>2, <3>3
      <4> QED BY <1>1, <2>0, <2>a, <3>1, <3>3, <3>5, <4>1 DEF OwnDraft, Sent
    <3> QED BY <3>4, <3>5
  <2>3. ASSUME NEW t \in Tabs, attempt' = [attempt EXCEPT ![t] = None],
               versions' = versions, draft' = [draft EXCEPT ![t] = None]
        PROVE  OwnDraft(u)'
    <3>1. /\ draft'[t] = None /\ attempt'[t] = None
          /\ \A w \in Tabs : w # t => draft'[w] = draft[w] /\ attempt'[w] = attempt[w]
      BY <2>3 DEF TypeOK
    <3>4. CASE u = t
      BY <1>2, <2>3, <3>1, <3>4 DEF OwnDraft, None
    <3>5. CASE u # t
      BY <1>1, <2>0, <2>a, <2>3, <3>1, <3>5 DEF OwnDraft, Sent
    <3> QED BY <3>4, <3>5
  <2> QED BY <2>1, <2>2, <2>3, DraftMoves
<1> QED BY <1>3, <1>4, <1>5

-----------------------------------------------------------------------------
(* The register                                                              *)

\* What the register holds of one send.
AnswerHolds(p) ==
  /\ wire[p] \in {"unsent", "out"} => told[p] = "none"
  /\ wire[p] = "announcing" => told[p] = "accepted"
  /\ told[p] = "accepted" => p \in ever
  /\ told[p] = "repeat" => \E l \in ever : brief[l] = brief[p]
  /\ told[p] = "already" => \E l \in ever : brief[l].browser # None

\* What is true of a lead stays true: it was sent.
LEMMA LeadsStay ==
  ASSUME TypeOK, RegisterHolds, [Next]_vars
  PROVE  \A l \in ever : l \in Posts /\ Sent(l) /\ l \in ever' /\ Sent(l)' /\ brief'[l] = brief[l]
  BY NothingIsTakenBack DEF TypeOK, RegisterHolds

\* Serving, telling the team and deleting keep what the register holds.
LEMMA ServingHolds ==
  ASSUME TypeOK, RegisterHolds, [Next]_vars, NEW p \in Posts, Serving(p)
  PROVE  RegisterHolds'
<1>0. \A q \in Posts : AnswerHolds(q)  BY DEF RegisterHolds, AnswerHolds
<1>t. /\ wire \in [Posts -> {"unsent", "out", "announcing", "answered"}] /\ told \in [Posts -> Answers]
      /\ leads \subseteq ever /\ ever \subseteq Posts
  BY DEF TypeOK, Answers
<1>k. \A l \in ever : l \in ever' /\ Sent(l)' /\ brief'[l] = brief[l]  BY LeadsStay
<1>n. \A q \in Posts : Sent(q) => Sent(q)'  BY NothingIsTakenBack
<1> SUFFICES /\ \A q \in ever' : Sent(q)'
             /\ \A l, m \in leads' : l # m => brief'[l].key # brief'[m].key
             /\ \A q \in Posts : AnswerHolds(q)'
  BY DEF RegisterHolds, AnswerHolds
<1>1. CASE ServePost(p)
  <2>1. Answering(p) /\ wire[p] = "out"  BY <1>1, ServeAnswers DEF ServePost
  <2>2. /\ brief' = brief /\ ever' = ever \cup leads'
        /\ \A q \in Posts : q # p => told'[q] = told[q] /\ wire'[q] = wire[q]
    BY <1>1, <1>t, <2>1 DEF ServePost, Answering
  <2>3. wire'[p] = IF told'[p] = "accepted" THEN "announcing" ELSE "answered"
    BY <1>1, <1>t DEF ServePost, Created
  <2>4. Sent(p)  BY <2>1 DEF Sent
  <2>5. \/ Register!Accept(p)
        \/ leads' = leads /\ told'[p] # "accepted"
    BY <1>1, <1>t DEF ServePost, Register!Serve, Register!Repeat, Register!Conflict, Register!Already,
         Register!Reject, Register!Break
  <2>6. leads' \subseteq leads \cup {p}  BY <2>5 DEF Register!Accept
  <2>7. \A q \in ever' : Sent(q)'  BY <1>k, <1>n, <1>t, <2>2, <2>4, <2>6
  <2>8. \A l, m \in leads' : l # m => brief'[l].key # brief'[m].key
    <3>1. CASE Register!Accept(p)
      <4>1. \A l \in leads : brief[l].key # brief[p].key /\ leads' = leads \cup {p}
        BY <3>1 DEF Register!Accept, Register!SameKey
      <4> QED BY <2>2, <2>6, <4>1 DEF RegisterHolds
    <3>2. CASE leads' = leads
      BY <2>2, <3>2 DEF RegisterHolds
    <3> QED BY <2>5, <3>1, <3>2
  <2>9. AnswerHolds(p)'
    <3>1. told'[p] = "accepted" => p \in ever'  BY <2>2, <2>5 DEF Register!Accept
    <3>2. told'[p] = "repeat" => \E l \in leads : brief[l] = brief[p]
      BY <1>1, <1>t DEF ServePost, Register!Serve, Register!Accept, Register!Repeat, Register!Conflict, Register!Already,
         Register!Reject, Register!Break, Register!SameKey
    <3>3. told'[p] = "already" => \E l \in leads : brief[l].browser # None
      BY <1>1, <1>t DEF ServePost, Register!Serve, Register!Accept, Register!Repeat, Register!Conflict, Register!Already,
         Register!Reject, Register!Break, Register!SameBrowser
    <3> QED BY <1>t, <2>2, <2>3, <3>1, <3>2, <3>3 DEF AnswerHolds
  <2>10. ASSUME NEW q \in Posts, q # p PROVE AnswerHolds(q)'
    BY <1>0, <1>t, <2>2, <2>10 DEF AnswerHolds
  <2> QED BY <2>7, <2>8, <2>9, <2>10
<1>2. CASE GuardRefuses(p)
  <2>1. Answering(p) /\ wire[p] = "out"  BY <1>2, ServeAnswers DEF GuardRefuses
  <2>2. /\ brief' = brief /\ ever' = ever /\ leads' = leads /\ told'[p] = "rejected" /\ wire'[p] = "answered"
        /\ \A q \in Posts : q # p => told'[q] = told[q] /\ wire'[q] = wire[q]
    BY <1>2, <1>t DEF GuardRefuses, Register!Reject
  <2>3. AnswerHolds(p)'  BY <2>2 DEF AnswerHolds
  <2>4. ASSUME NEW q \in Posts, q # p PROVE AnswerHolds(q)'
    BY <1>0, <2>2, <2>4 DEF AnswerHolds
  <2> QED BY <1>k, <2>2, <2>3, <2>4 DEF RegisterHolds
<1>3. CASE Notify(p) \/ Delete(p)
  <2>1. /\ brief' = brief /\ ever' = ever /\ leads' \subseteq leads /\ told' = told
        /\ \A q \in Posts : wire'[q] = wire[q] \/ (wire[q] = "announcing" /\ wire'[q] = "answered")
    BY <1>3, <1>t DEF Notify, Delete, Register!Delete, register, net
  <2>2. ASSUME NEW q \in Posts PROVE AnswerHolds(q)'
    BY <1>0, <2>1, <2>2 DEF AnswerHolds
  <2> QED BY <1>k, <2>1, <2>2 DEF RegisterHolds
<1> QED BY <1>1, <1>2, <1>3 DEF Serving

\* So does every step.
LEMMA RegisterStep == ASSUME TypeOK, RegisterHolds, [Next]_vars PROVE RegisterHolds'
<1>0. \A q \in Posts : AnswerHolds(q)  BY DEF RegisterHolds, AnswerHolds
<1>1. CASE \E p \in Posts : Serving(p)
  BY <1>1, ServingHolds
<1>2. CASE \E t \in Tabs : Submit(t)
  <2>1. PICK t \in Tabs, p \in Posts : Submits(t, p)  BY <1>2, SubmitIs
  <2>2. /\ leads' = leads /\ told' = told /\ ever' = ever /\ ~Sent(p)
        /\ wire' = [wire EXCEPT ![p] = "out"]
    BY <2>1 DEF Submits
  <2>3. \A q \in Posts : q # p => wire'[q] = wire[q] /\ brief'[q] = brief[q]
    BY <2>1, SubmitBrief, <2>2 DEF TypeOK
  <2>4. \A l \in ever : l \in Posts /\ l # p /\ brief'[l] = brief[l] /\ Sent(l)'
    BY <2>2, LeadsStay
  <2>5. AnswerHolds(p)'
    <3>1. told'[p] = "none" /\ wire'[p] = "out"  BY <1>0, <2>2 DEF AnswerHolds, Sent, TypeOK
    <3> QED BY <3>1 DEF AnswerHolds
  <2>6. ASSUME NEW q \in Posts, q # p PROVE AnswerHolds(q)'
    <3>1. AnswerHolds(q) /\ wire'[q] = wire[q] /\ brief'[q] = brief[q]  BY <1>0, <2>3, <2>6
    <3> QED BY <2>2, <2>4, <3>1 DEF AnswerHolds
  <2>7. \A l, m \in leads' : l # m => brief'[l].key # brief'[m].key
    <3>1. leads \subseteq ever  BY DEF TypeOK
    <3> QED BY <2>2, <2>4, <3>1 DEF RegisterHolds
  <2>8. \A q \in Posts : AnswerHolds(q)'  BY <2>5, <2>6
  <2> QED BY <2>2, <2>4, <2>7, <2>8 DEF RegisterHolds, AnswerHolds
<1>3. CASE (~ \E p \in Posts : Serving(p)) /\ ~ \E t \in Tabs : Submit(t)
  <2>1. UNCHANGED <<brief, leads, told, ever, wire>>
    BY <1>3 DEF Next, Rest, Serving, vars, Open, Close, Edit, ClearDraft, Reload, PostAnswered, GiveUp, ServeCheck, CheckEnds,
       CheckAnswered, CheckFails, Expire, register, net
  <2> QED BY <2>1 DEF RegisterHolds, Sent
<1> QED BY <1>1, <1>2, <1>3

-----------------------------------------------------------------------------
(* The pages                                                                 *)

\* A lead with the very draft that send p carries was saved.
SavedAs(p) == \E l \in ever : brief[l].key = brief[p].key /\ brief[l].payload = brief[p].payload
SavedWithCookie == \E l \in ever : brief[l].browser # None

\* What was saved once stays saved, though the lead may be deleted.
LEMMA SavedStays ==
  ASSUME TypeOK, RegisterHolds, [Next]_vars
  PROVE  /\ \A p \in Posts : Sent(p) /\ SavedAs(p) => SavedAs(p)'
         /\ SavedWithCookie => SavedWithCookie'
  BY LeadsStay, NothingIsTakenBack DEF SavedAs, SavedWithCookie

\* What a tab has been told, in one place.
TabIsTold(t) ==
  /\ status[t] \in {"sending", "success"} => current[t] \in Posts /\ Sent(current[t])
  /\ status[t] = "success" => SavedAs(current[t])
  /\ already[t] => SavedWithCookie
Told == (\A t \in Tabs : TabIsTold(t)) /\ (\A c \in Checks : asked[c].submitted => SavedWithCookie)

\* The claim of the pages tab by tab.
LEMMA ToldIs == PagesAreTold /\ ShownMeansSaved <=> Told
  BY DEF PagesAreTold, ShownMeansSaved, Told, TabIsTold, SavedAs, SavedWithCookie

\* A tab whose state stays, or that is no longer waiting, has been told the truth.
LEMMA TabStays ==
  ASSUME TypeOK, TypeOK', RegisterHolds, [Next]_vars, NEW t \in Tabs, TabIsTold(t),
         \/ status'[t] = status[t] /\ current'[t] = current[t]
         \/ status'[t] \in {"idle", "error"},
         already'[t] => already[t] \/ SavedWithCookie
  PROVE  TabIsTold(t)'
<1>1. SavedWithCookie => SavedWithCookie'  BY SavedStays
<1>2. already'[t] => SavedWithCookie'  BY <1>1 DEF TabIsTold
<1>3. CASE status'[t] \in {"idle", "error"}
  BY <1>2, <1>3 DEF TabIsTold
<1>4. CASE status'[t] = status[t] /\ current'[t] = current[t] /\ status[t] \in {"sending", "success"}
  <2> DEFINE p == current[t]
  <2>1. p \in Posts /\ Sent(p) /\ Sent(p)' /\ brief'[p] = brief[p]  BY <1>4, NothingIsTakenBack DEF TabIsTold
  <2>2. status[t] = "success" => \E l \in ever' : brief'[l].key = brief'[p].key /\ brief'[l].payload = brief'[p].payload
    <3> SUFFICES ASSUME status[t] = "success" PROVE \E l \in ever' : brief'[l].key = brief'[p].key /\ brief'[l].payload = brief'[p].payload
      OBVIOUS
    <3>1. PICK l \in ever : brief[l].key = brief[p].key /\ brief[l].payload = brief[p].payload
      BY DEF TabIsTold, SavedAs
    <3>2. l \in ever' /\ brief'[l] = brief[l]  BY LeadsStay
    <3> QED BY <2>1, <3>1, <3>2
  <2>3. current'[t] \in Posts /\ wire'[current'[t]] # "unsent"  BY <1>4, <2>1 DEF Sent
  <2>4. status'[t] = "success" => \E l \in ever' : brief'[l].key = brief'[current'[t]].key /\ brief'[l].payload = brief'[current'[t]].payload
    BY <1>4, <2>2
  <2> QED BY <1>2, <2>3, <2>4 DEF TabIsTold, SavedAs, Sent
<1>5. status'[t] \in {"idle", "sending", "success", "error"}  BY DEF TypeOK
<1> QED BY <1>3, <1>4, <1>5

\* Opening, closing, editing, clearing, reloading and giving up tell no tab anything.
LEMMA TabsQuiet ==
  ASSUME TypeOK, TypeOK', RegisterHolds, Told, [Next]_vars, NEW t \in Tabs,
         Open(t) \/ Close(t) \/ Edit(t) \/ ClearDraft(t) \/ Reload(t) \/ GiveUp(t)
  PROVE  Told'
<1>1. \A u \in Tabs : /\ \/ status'[u] = status[u] /\ current'[u] = current[u]
                         \/ status'[u] \in {"idle", "error"}
                      /\ already'[u] => already[u]
  BY DEF Open, Close, Edit, ClearDraft, Reload, GiveUp, TypeOK
<1>2. \A u \in Tabs : TabIsTold(u)  BY DEF Told
<1>3. \A u \in Tabs : TabIsTold(u)'  BY <1>1, <1>2, TabStays
<1>4. SavedWithCookie => SavedWithCookie'  BY SavedStays
<1>5. ASSUME NEW c \in Checks, asked'[c].submitted PROVE SavedWithCookie'
  <2>1. CASE asked' = asked
    BY <1>4, <1>5, <2>1 DEF Told
  <2>2. CASE Open(t)
    <3>1. asked'[c].submitted => asked[c].submitted
      <4>1. PICK d \in Checks : asked' = [asked EXCEPT ![d] = [at |-> "out", tab |-> t, browser |-> Browser, submitted |-> FALSE]]
        BY <2>2 DEF Open
      <4> QED BY <4>1 DEF TypeOK
    <3> QED BY <1>4, <1>5, <3>1 DEF Told
  <2>3. CASE Reload(t)
    <3>1. asked'[c].submitted = asked[c].submitted
      <4>1. asked'[c] = IF asked[c].at # "unsent" /\ asked[c].tab = t THEN [asked[c] EXCEPT !.at = "over"] ELSE asked[c]
        BY <2>3 DEF Reload
      <4>2. asked[c] \in Check  BY Named DEF TypeOKNamed
      <4>3. [asked[c] EXCEPT !.at = "over"].submitted = asked[c].submitted  BY <4>2 DEF Check
      <4> QED BY <4>1, <4>3
    <3> QED BY <1>4, <1>5, <3>1 DEF Told
  <2> QED BY <2>1, <2>2, <2>3 DEF Close, Edit, ClearDraft, GiveUp, net
<1> QED BY <1>3, <1>5 DEF Told

\* Nor does a submission: what it waits for has been sent.
LEMMA TabsSubmit ==
  ASSUME TypeOK, TypeOK', RegisterHolds, Told, [Next]_vars, NEW t \in Tabs, Submit(t)
  PROVE  Told'
<1>1. PICK p \in Posts : Submits(t, p)  BY SubmitIs
<1>2. /\ Sent(p)' /\ current'[t] = p /\ status'[t] = "sending"
      /\ \A u \in Tabs : u # t => current'[u] = current[u] /\ status'[u] = status[u]
  BY <1>1, SubmitBrief
<1>3. already' = already /\ asked' = asked  BY <1>1 DEF Submits
<1>4. SavedWithCookie => SavedWithCookie'  BY SavedStays
<1>5. ASSUME NEW u \in Tabs PROVE TabIsTold(u)'
  <2>1. TabIsTold(u)  BY DEF Told
  <2>2. CASE u = t
    <3>1. current'[u] \in Posts /\ wire'[current'[u]] # "unsent"  BY <1>2, <2>2 DEF Sent
    <3>2. already'[u] => SavedWithCookie'  BY <1>3, <1>4, <2>1 DEF TabIsTold
    <3> QED BY <1>2, <2>2, <3>1, <3>2 DEF TabIsTold, Sent
  <2>3. CASE u # t
    BY <1>2, <1>3, <2>1, <2>3, TabStays
  <2> QED BY <2>2, <2>3
<1> QED BY <1>3, <1>4, <1>5 DEF Told

\* An answered send: a success is one the register accepted or repeated.
LEMMA TabsAnswered ==
  ASSUME TypeOK, TypeOK', RegisterHolds, Told, [Next]_vars, NEW t \in Tabs, PostAnswered(t)
  PROVE  Told'
<1> DEFINE p == current[t]
<1>1. TabIsTold(t) /\ status[t] = "sending"  BY DEF Told, PostAnswered, Sending
<1>2. p \in Posts /\ Sent(p)  BY <1>1 DEF TabIsTold
<1>3. /\ current' = current /\ UNCHANGED <<brief, wire, ever, asked>>
      /\ \A u \in Tabs : u # t => status'[u] = status[u] /\ (already'[u] => already[u])
  BY DEF PostAnswered, net, register, TypeOK
<1>4. SavedWithCookie => SavedWithCookie'  BY SavedStays
<1>5. TabIsTold(t)'
  <2>1. CASE Succeeded(p)
    <3>1. status'[t] = "success" /\ already' = already  BY <2>1 DEF PostAnswered, TypeOK
    <3>2. SavedAs(p)  BY <1>2, <2>1 DEF Succeeded, RegisterHolds, SavedAs
    <3>3. p \in Posts /\ Sent(p)' /\ SavedAs(p)'  BY <1>2, <1>3, <3>2 DEF Sent, SavedAs
    <3>4. current'[t] \in Posts /\ wire'[current'[t]] # "unsent"  BY <1>2, <1>3 DEF Sent
    <3>5. \E l \in ever' : brief'[l].key = brief'[current'[t]].key /\ brief'[l].payload = brief'[current'[t]].payload
      BY <1>3, <3>2 DEF SavedAs
    <3> QED BY <1>1, <1>4, <3>1, <3>4, <3>5 DEF TabIsTold, SavedAs, Sent
  <2>2. CASE ~Succeeded(p)
    <3>1. status'[t] = "error" /\ (already'[t] => already[t] \/ told[p] = "already")
      BY <2>2 DEF PostAnswered, TypeOK
    <3>2. told[p] = "already" => SavedWithCookie  BY <1>2 DEF RegisterHolds, SavedWithCookie
    <3> QED BY <1>1, <1>4, <3>1, <3>2 DEF TabIsTold
  <2> QED BY <2>1, <2>2
<1>6. ASSUME NEW u \in Tabs, u # t PROVE TabIsTold(u)'
  <2>1. TabIsTold(u) /\ status'[u] = status[u] /\ current'[u] = current[u] /\ (already'[u] => already[u])
    BY <1>3, <1>6 DEF Told
  <2> QED BY <2>1, TabStays
<1> QED BY <1>3, <1>4, <1>5, <1>6 DEF Told

\* A session check: it is answered from the register, and the tab believes it.
LEMMA TabsChecked ==
  ASSUME TypeOK, TypeOK', RegisterHolds, Told, [Next]_vars, NEW c \in Checks, ServeCheck(c) \/ CheckEnds(c)
  PROVE  Told'
<1>1. SavedWithCookie => SavedWithCookie'  BY SavedStays
<1>2. asked \in [Checks -> Check] /\ asked[c] \in Check  BY Named DEF TypeOKNamed
<1>3. CASE ServeCheck(c)
  <2>1. UNCHANGED <<status, current, already>>  BY <1>3 DEF ServeCheck, page
  <2>2. \A u \in Tabs : TabIsTold(u)'  BY <2>1, TabStays DEF Told
  <2>3. asked' = [asked EXCEPT ![c].at = "answered", ![c].submitted = Submitted(asked[c].browser)]  BY <1>3 DEF ServeCheck
  <2>4. asked'[c].submitted = Submitted(asked[c].browser) /\ \A d \in Checks : d # c => asked'[d] = asked[d]
    <3>1. Submitted(asked[c].browser) \in BOOLEAN  BY DEF Submitted
    <3> QED BY <1>2, <2>3, <3>1 DEF Check
  <2>5. Submitted(asked[c].browser) => SavedWithCookie
    BY DEF Submitted, SavedWithCookie, TypeOK
  <2>6. ASSUME NEW d \in Checks, asked'[d].submitted PROVE SavedWithCookie'
    <3>1. CASE d = c
      BY <1>1, <2>4, <2>5, <2>6, <3>1
    <3>2. CASE d # c
      BY <1>1, <2>4, <2>6, <3>2 DEF Told
    <3> QED BY <3>1, <3>2
  <2> QED BY <2>2, <2>6 DEF Told
<1>4. CASE CheckEnds(c)
  <2>1. asked' = [asked EXCEPT ![c].at = "over"]  BY <1>4 DEF CheckEnds, CheckAnswered, CheckFails, Over
  <2>2. \A d \in Checks : asked'[d].submitted = asked[d].submitted  BY <1>2, <2>1 DEF Check
  <2>3. asked[c].tab \in Tabs  BY <1>2 DEF Check
  <2>4. ASSUME NEW u \in Tabs
        PROVE  /\ status'[u] = status[u] \/ status'[u] = "idle"
               /\ current'[u] = current[u]
               /\ already'[u] => already[u] \/ asked[c].submitted
    <3>1. CASE CheckFails(c)
      BY <3>1 DEF CheckFails
    <3>2. CASE CheckAnswered(c) /\ ~Active(c)
      BY <3>2 DEF CheckAnswered
    <3>3. CASE CheckAnswered(c) /\ Active(c)
      <4> DEFINE t == asked[c].tab
      <4>1. /\ already' = [already EXCEPT ![t] = asked[c].submitted]
            /\ status' = [status EXCEPT ![t] = IF ~asked[c].submitted /\ @ = "success" THEN "idle" ELSE @]
            /\ current' = current
        BY <3>3 DEF CheckAnswered
      <4>2. u # t => already'[u] = already[u] /\ status'[u] = status[u]  BY <2>3, <4>1 DEF TypeOK
      <4>3. already'[t] = asked[c].submitted  BY <2>3, <4>1 DEF TypeOK
      <4>4. status'[t] \in {status[t], "idle"}  BY <2>3, <4>1 DEF TypeOK
      <4> QED BY <4>1, <4>2, <4>3, <4>4
    <3> QED BY <1>4, <3>1, <3>2, <3>3 DEF CheckEnds
  <2>5. ASSUME NEW u \in Tabs PROVE TabIsTold(u)'
    <3>1. already'[u] => already[u] \/ SavedWithCookie  BY <2>4 DEF Told
    <3>2. TabIsTold(u)  BY DEF Told
    <3> QED BY <2>4, <3>1, <3>2, TabStays
  <2>6. ASSUME NEW d \in Checks, asked'[d].submitted PROVE SavedWithCookie'
    <3>1. asked[d].submitted  BY <2>2, <2>6
    <3> QED BY <1>1, <3>1 DEF Told
  <2> QED BY <2>5, <2>6 DEF Told
<1> QED BY <1>3, <1>4

\* What the tabs have been told stays true.
LEMMA TabsStep == ASSUME TypeOK, TypeOK', RegisterHolds, Told, [Next]_vars PROVE Told'
<1>1. CASE UNCHANGED <<status, current, already, asked>>
  <2>1. \A u \in Tabs : TabIsTold(u)'  BY <1>1, TabStays DEF Told
  <2>2. SavedWithCookie => SavedWithCookie'  BY SavedStays
  <2> QED BY <1>1, <2>1, <2>2 DEF Told
<1>2. ASSUME NEW p \in Posts, Serving(p) PROVE UNCHANGED <<status, current, already, asked>>
  BY <1>2 DEF Serving, GuardRefuses, ServePost, Notify, Delete, page, net
<1>3. Expire \/ Rest \/ UNCHANGED vars => UNCHANGED <<status, current, already, asked>>
  BY DEF Expire, Rest, vars, page, net
<1> QED BY <1>1, <1>2, <1>3, TabsQuiet, TabsSubmit, TabsAnswered, TabsChecked DEF Next, Serving

-----------------------------------------------------------------------------
(* The theorems                                                              *)

\* A conflict, like every answer, is about what two sends carried, which stays.
LEMMA ConflictStep ==
  ASSUME TypeOK, TypeOK', KeysStandForDrafts, RegisterHolds, ConflictOnlyByCookie, [Next]_vars
  PROVE  ConflictOnlyByCookie'
<1> DEFINE Other(p) == \E q \in Posts : /\ Sent(q) /\ brief[q].key = brief[p].key
                                        /\ brief[q].payload = brief[p].payload /\ brief[q].browser # brief[p].browser
<1>0. \A p \in Posts : told[p] = "conflict" => Other(p)  BY DEF ConflictOnlyByCookie, Sent
<1>k. \A p \in Posts : Sent(p) => Sent(p)' /\ brief'[p] = brief[p]  BY NothingIsTakenBack
<1>s. \A p \in Posts : told[p] # "none" => Sent(p)  BY DEF RegisterHolds, Sent
<1>1. ASSUME NEW p \in Posts, told'[p] = "conflict", told[p] = "conflict"
      PROVE  \E q \in Posts : /\ wire'[q] # "unsent" /\ brief'[q].key = brief'[p].key
                              /\ brief'[q].payload = brief'[p].payload /\ brief'[q].browser # brief'[p].browser
  <2>1. PICK q \in Posts : /\ Sent(q) /\ brief[q].key = brief[p].key
                           /\ brief[q].payload = brief[p].payload /\ brief[q].browser # brief[p].browser
    BY <1>0, <1>1
  <2>2. Sent(q)' /\ brief'[q] = brief[q] /\ brief'[p] = brief[p]  BY <1>1, <1>k, <1>s, <2>1
  <2> QED BY <2>1, <2>2 DEF Sent
<1>2. ASSUME NEW p \in Posts, told'[p] = "conflict", told[p] # "conflict"
      PROVE  \E q \in Posts : /\ wire'[q] # "unsent" /\ brief'[q].key = brief'[p].key
                              /\ brief'[q].payload = brief'[p].payload /\ brief'[q].browser # brief'[p].browser
  <2>1. ServePost(p)
    <3>1. (\E r \in Posts : Serving(r)) \/ told' = told
      BY DEF Next, Rest, Serving, vars, Open, Close, Edit, ClearDraft, Reload, Submit, PostAnswered, GiveUp, ServeCheck, CheckEnds,
         CheckAnswered, CheckFails, Expire, register, net
    <3>2. PICK r \in Posts : Serving(r)  BY <1>2, <3>1
    <3>3. CASE GuardRefuses(r)
      BY <1>2, <3>3 DEF GuardRefuses, Register!Reject, TypeOK
    <3>4. CASE Notify(r) \/ Delete(r)
      BY <1>2, <3>4 DEF Notify, Delete, Register!Delete, register
    <3>5. CASE ServePost(r)
      <4>1. Answering(r)  BY <3>5, ServeAnswers DEF ServePost
      <4>2. r = p  BY <1>2, <4>1 DEF Answering, TypeOK
      <4> QED BY <3>5, <4>2
    <3> QED BY <3>2, <3>3, <3>4, <3>5 DEF Serving
  <2>2. /\ wire[p] = "out" /\ brief' = brief
        /\ \E l \in leads : brief[l].key = brief[p].key /\ brief[l] # brief[p]
    BY <1>2, <2>1 DEF ServePost, Register!Serve, Register!Accept, Register!Repeat, Register!Conflict, Register!Already,
       Register!Reject, Register!Break, Register!SameKey, TypeOK
  <2>3. PICK l \in leads : brief[l].key = brief[p].key /\ brief[l] # brief[p]  BY <2>2
  <2>4. l \in Posts /\ Sent(l) /\ Sent(p)  BY <2>2 DEF RegisterHolds, TypeOK, Sent
  <2>5. brief[l].payload = brief[p].payload
    <3>1. brief[l].payload = brief[brief[l].key].payload /\ brief[p].payload = brief[brief[p].key].payload
      BY <2>4 DEF KeysStandForDrafts
    <3> QED BY <2>3, <3>1
  <2>6. brief[l].browser # brief[p].browser
    <3>1. brief[l] \in Brief /\ brief[p] \in Brief  BY <2>4, Named DEF TypeOKNamed
    <3> QED BY <2>3, <2>5, <3>1 DEF Brief
  <2> QED BY <1>k, <2>2, <2>3, <2>4, <2>5, <2>6 DEF Sent
<1> QED BY <1>1, <1>2 DEF ConflictOnlyByCookie

\* Only a send whose lead was saved is announced.
LEMMA AnnouncedStep ==
  ASSUME TypeOK, RegisterHolds, announced \subseteq ever, [Next]_vars
  PROVE  announced' \subseteq ever'
<1>1. ever \subseteq ever'  BY NothingIsTakenBack
<1>2. ASSUME NEW p \in Posts, Notify(p) PROVE announced' \subseteq ever'
  <2>1. p \in ever  BY <1>2 DEF Notify, RegisterHolds
  <2> QED BY <1>1, <1>2, <2>1 DEF Notify
<1>3. (\E p \in Posts : Notify(p)) \/ announced' = announced
  BY DEF Next, Rest, vars, Open, Close, Edit, ClearDraft, Reload, Submit, PostAnswered, GiveUp, ServeCheck, CheckEnds,
     CheckAnswered, CheckFails, GuardRefuses, ServePost, Delete, Expire
<1> QED BY <1>1, <1>2, <1>3

\* The inductive invariant, whatever the visitor, the network and the
\* administrators do, in any number of tabs.
THEOREM FormInvariant == Spec => []FormInv
<1>1. Init => FormInv
  <2> SUFFICES ASSUME Init PROVE FormInv  OBVIOUS
  <2>1. TypeOK  BY FormInit
  <2>2. \A p \in Posts : ~Sent(p)  BY DEF Init, Sent
  <2>3. KeysStandForDrafts /\ DraftsStandForKeys  BY <2>2 DEF KeysStandForDrafts, DraftsStandForKeys
  <2>4. DraftsAreOwn  BY DEF Init, DraftsAreOwn, OwnDraft, None
  <2>5. leads = {} /\ ever = {} /\ told = [p \in Posts |-> "none"]  BY DEF Init, Register!Init
  <2>6. RegisterHolds  BY <2>5 DEF Init, RegisterHolds
  <2>7. \A c \in Checks : ~asked[c].submitted  BY DEF Init, NotAsked
  <2>8. PagesAreTold /\ ShownMeansSaved  BY <2>7 DEF Init, PagesAreTold, ShownMeansSaved
  <2>9. ConflictOnlyByCookie  BY <2>5 DEF ConflictOnlyByCookie
  <2>10. announced \subseteq ever  BY DEF Init
  <2> QED BY <2>1, <2>3, <2>4, <2>6, <2>8, <2>9, <2>10 DEF FormInv
<1>2. FormInv /\ [Next]_vars => FormInv'
  <2> SUFFICES ASSUME FormInv, [Next]_vars PROVE FormInv'  OBVIOUS
  <2>1. /\ TypeOK /\ KeysStandForDrafts /\ DraftsStandForKeys /\ DraftsAreOwn /\ RegisterHolds
        /\ Told /\ ConflictOnlyByCookie /\ announced \subseteq ever
    BY ToldIs DEF FormInv
  <2>2. TypeOK'  BY <2>1, FormTypeStep
  <2>3. KeysStandForDrafts' /\ DraftsStandForKeys' /\ DraftsAreOwn'
    <3>1. CASE \E t \in Tabs : Submit(t)
      BY <2>1, <3>1, SubmitIs, KeysSubmit
    <3>2. CASE ~ \E t \in Tabs : Submit(t)
      BY <2>1, <2>2, <3>2, KeysOther
    <3> QED BY <3>1, <3>2
  <2>4. RegisterHolds' /\ announced' \subseteq ever'  BY <2>1, RegisterStep, AnnouncedStep
  <2>5. Told'  BY <2>1, <2>2, TabsStep
  <2>6. PagesAreTold' /\ ShownMeansSaved'  BY <2>5 DEF PagesAreTold, ShownMeansSaved, Told, TabIsTold, SavedAs, SavedWithCookie
  <2>7. ConflictOnlyByCookie'  BY <2>1, <2>2, ConflictStep
  <2> QED BY <2>2, <2>3, <2>4, <2>6, <2>7 DEF FormInv
<1> QED BY <1>1, <1>2, PTL DEF Spec

\* Every variable keeps its type.
THEOREM FormTypes == Spec => []TypeOK
<1>1. FormInv => TypeOK  BY DEF FormInv
<1> QED BY <1>1, FormInvariant, PTL

\* "Your message is with the lab" is never shown for a message that was not saved.
THEOREM ShownIsSaved == Spec => []ShownMeansSaved
<1>1. FormInv => ShownMeansSaved  BY DEF FormInv
<1> QED BY <1>1, FormInvariant, PTL

\* Keys are told apart by the register and stand for drafts, so drafts are too.
LEMMA DraftsApart == FormInv => OneLeadPerDraft
<1> SUFFICES ASSUME FormInv, NEW p \in leads, NEW q \in leads, p # q, brief[p].payload = brief[q].payload PROVE FALSE
  BY DEF OneLeadPerDraft
<1>1. brief[p].key # brief[q].key  BY DEF FormInv, RegisterHolds
<1>2. p \in Posts /\ q \in Posts /\ Sent(p) /\ Sent(q)  BY DEF FormInv, RegisterHolds, TypeOK
<1> QED BY <1>1, <1>2 DEF FormInv, DraftsStandForKeys

\* Sending one draft again, in any order with the answers, never makes a second lead.
THEOREM DraftsMakeOneLead == Spec => []OneLeadPerDraft
  BY DraftsApart, FormInvariant, PTL

\* The team is told by who saved a lead, and of a draft again only after its
\* lead was deleted.
THEOREM AnnouncementsAreOfLeads == Spec => []AnnouncedOnce
<1>1. FormInv => AnnouncedOnce
  BY DraftsApart DEF FormInv, OneLeadPerDraft, AnnouncedOnce
<1> QED BY <1>1, FormInvariant, PTL

\* The page never reuses a key for another draft.
THEOREM KeysAreNotReused == Spec => []ConflictOnlyByCookie
<1>1. FormInv => ConflictOnlyByCookie  BY DEF FormInv
<1> QED BY <1>1, FormInvariant, PTL
=============================================================================
