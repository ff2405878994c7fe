---------------------------- MODULE AdminConsole ----------------------------
(***************************************************************************)
(* The administrative web application (apps/admin) in one browser tab, the *)
(* reading API behind it (admin_service.list_leads, detail) and the two    *)
(* kinds of changes it sends, while other administrators and visitors      *)
(* change the same leads.  A page is mounted afresh whenever the tab comes *)
(* to it; a request that is out then still reaches the server.  Any        *)
(* request may fail at any time, for a session that has ended included.    *)
(***************************************************************************)
EXTENDS Integers, Sequences, FiniteSets, SequencesExt

CONSTANTS Leads,        \* ids of leads
          Inbox,        \* the leads that are there at first
          CreatedAt,    \* when the transaction of each began (and its id, if two began at once)
          Lead,         \* the one whose page is modelled
          Filters,      \* what the search form may ask for, without the page number
          Home,         \* the filters of the plain address
          Matches,      \* the leads each selects, but for the attachments
          HasFiles,     \* the attachments each asks for
          Descending,   \* the filters that list the newest first
          PageSize,
          Files,        \* attachments
          OwnerOf,      \* the lead of each
          Texts,        \* what may be written in its note
          MaxChanges,   \* bound: changes of the server's data, made or asked for
          Reloads,      \* bound: clicks on "Reload latest note" that are out at once
          None          \* nothing asked, shown or loaded

Queries == [filter : Filters, page : 1..Cardinality(Inbox) + 1]

\* A list request that is out: the server has it or its answer is half read
\* and bad, its statements are run one after the other, the answer is on its way.
Flights ==
  [query : Queries, phase : {"sent", "reading"}]
    \cup [query : Queries, phase : {"counted"}, total : Nat]
    \cup [query : Queries, phase : {"answered"}, total : Nat, items : SUBSET Leads]

ASSUME ConsoleAssumption ==
  /\ IsFiniteSet(Leads) /\ Inbox \subseteq Leads /\ Lead \in Leads
  /\ CreatedAt \in [Leads -> Nat] /\ IsInjective(CreatedAt)
  /\ Home \in Filters /\ Descending \subseteq Filters
  /\ Matches \in [Filters -> SUBSET Leads] /\ HasFiles \in [Filters -> {"any", "with", "without"}]
  /\ OwnerOf \in [Files -> Leads] /\ Files \cap Leads = {}
  /\ PageSize \in Nat \ {0} /\ MaxChanges \in Nat
  /\ Reloads \cap {"opening", "refresh"} = {} /\ None \notin Flights

VARIABLES
  at, next, shell,                 \* where the tab is; where a login leads; the session check
  error,                           \* the page shows an error
  query, loading, result, flight,  \* the list page
  lead, text, noteState, deleting, \* the lead's page
  loads, doing,                    \* its reads that are out, and what it is busy with
  inbox, log, files, posted,       \* the server: leads, versions of the note, attachments, requests
  changes,                         \* how often those have changed
  repeated,                        \* history: the last search left the address as it was
  walk,                            \* history: the pages seen since page 1
  known,                           \* history: the versions of the note the text area has shown
  crossed                          \* history: a reload arrived while the note was being saved

shellVars == <<at, next, shell>>
listPage == <<query, loading, result, flight, repeated, walk>>
leadPage == <<lead, text, noteState, deleting, loads, doing, crossed>>
server == <<inbox, log, files, changes>>
vars == <<shellVars, error, listPage, leadPage, server, posted, known>>

Loads == Reloads \cup {"opening", "refresh"}
HomeQuery == [filter |-> Home, page |-> 1]
NoWalk == [old |-> {}, met |-> {}, broken |-> TRUE]
Idle == [op |-> "nothing"]
FilesOf(leads) == {f \in Files : OwnerOf[f] \in leads}

Init ==
  /\ at = "login" /\ next \in {"list", "lead"} /\ shell = "in" /\ error = FALSE
  /\ query = HomeQuery /\ loading = FALSE /\ result = None /\ flight = None
  /\ repeated = FALSE /\ walk = NoWalk
  /\ lead = None /\ text = "" /\ noteState = "" /\ deleting = None
  /\ loads = [k \in Loads |-> None] /\ doing = Idle /\ crossed = FALSE
  /\ inbox = Inbox /\ log = <<"">> /\ files = FilesOf(Inbox) /\ posted = {}
  /\ changes = 0 /\ known = {}

-----------------------------------------------------------------------------
(* What a search selects, and a walk over its pages                          *)

\* has_files asks whether there is an attachment now; the other conditions are
\* on what of a lead never changes.
Attached(l) == \E f \in files : OwnerOf[f] = l
Selected(q) ==
  {l \in inbox \cap Matches[q.filter] :
     /\ HasFiles[q.filter] = "with" => Attached(l)
     /\ HasFiles[q.filter] = "without" => ~Attached(l)}

FreshWalk(q) ==
  IF q.page = 1 THEN [old |-> Selected(q), met |-> {}, broken |-> FALSE] ELSE NoWalk

\* A walk is given up when a lead drops out of what the search selects: it is
\* deleted, or loses its last attachment where attachments are asked for.  And when
\* the selection changes between the two statements of a listing.
WalkGoesOn ==
  /\ Selected(query) \subseteq Selected(query)'
  /\ Selected(query)' = Selected(query) \/ flight = None \/ flight.phase # "counted"
KeepWalk == walk' = IF WalkGoesOn THEN walk ELSE NoWalk

-----------------------------------------------------------------------------
(* Between pages                                                             *)

\* Nobody waits for an answer any more: setState after unmount has no effect.
Abandon == posted' = {[m EXCEPT !.waited = FALSE] : m \in posted}

\* The tab comes to a page: nothing is kept of the one it leaves.
Mount(page, q) ==
  /\ at' = page /\ shell' = IF page = "login" THEN "in" ELSE "checking"
  /\ error' = FALSE
  /\ query' = q /\ loading' = (page = "list") /\ result' = None /\ flight' = None
  /\ repeated' = FALSE /\ walk' = NoWalk
  /\ lead' = None /\ text' = "" /\ noteState' = "" /\ deleting' = None
  /\ loads' = [k \in Loads |-> None] /\ doing' = Idle /\ crossed' = FALSE
  /\ Abandon

\* A link to another page, the browser's buttons, Sign out, the reload of the
\* page; also router.push by a call that outlives its page.
Leave ==
  /\ \/ at # "login" /\ Mount("login", HomeQuery) /\ next' \in {"list", "lead"}
     \/ Mount("lead", HomeQuery) /\ at # "login" /\ UNCHANGED next
     \/ at # "login" /\ \E q \in Queries : (at = "list" => q = query) /\ Mount("list", q) /\ UNCHANGED next
  /\ UNCHANGED <<server, known>>

\* The answer to submit: to the page asked for, or an error.
Login ==
  /\ at = "login"
  /\ \/ Mount(next, HomeQuery) /\ UNCHANGED next
     \/ ~error /\ error' = TRUE /\ UNCHANGED <<shellVars, listPage, leadPage, posted>>
  /\ UNCHANGED <<server, known>>

\* Only when the session is known is the page itself mounted, and asks.
SessionKnown ==
  /\ shell = "checking" /\ shell' = "in"
  /\ flight' = IF at = "list" THEN [query |-> query, phase |-> "sent"] ELSE None
  /\ walk' = IF at = "list" THEN FreshWalk(query) ELSE NoWalk
  /\ loads' = IF at = "lead" THEN [loads EXCEPT !["opening"] = [phase |-> "sent"]] ELSE loads
  /\ UNCHANGED <<at, next, error, query, loading, result, repeated, lead, text, noteState, deleting, doing, crossed, server, posted, known>>

\* 401 sends the tab to the login page, which comes back here; another error stays.
SessionRefused ==
  /\ shell = "checking"
  /\ \/ Mount("login", HomeQuery) /\ next' = at
     \/ shell' = "error" /\ UNCHANGED <<at, next, error, listPage, leadPage, posted>>
  /\ UNCHANGED <<server, known>>

-----------------------------------------------------------------------------
(* The list                                                                  *)

\* ORDER BY created_at, id, in one direction or the other.
Precedes(q, k, l) == IF q.filter \in Descending THEN CreatedAt[k] > CreatedAt[l] ELSE CreatedAt[k] < CreatedAt[l]
Ahead(q, l) == Cardinality({k \in Selected(q) : Precedes(q, k, l)})

\* Mutant: the offset counts from page 0.
PageOfShifted(q) == {l \in Selected(q) : q.page * PageSize <= Ahead(q, l) /\ Ahead(q, l) < (q.page + 1) * PageSize}

\* OFFSET (page - 1) * page_size LIMIT page_size
PageOf(q) == {l \in Selected(q) : (q.page - 1) * PageSize <= Ahead(q, l) /\ Ahead(q, l) < q.page * PageSize}

\* A request whose error answer is half read when it is aborted does not end in
\* an AbortError: api() takes the aborted body for an unreadable one and throws.
AbortedLate == flight # None /\ flight.phase = "reading"

\* Mutant: the effect lacks its dependency on the query.
ChangeQueryUnnoticed(q, failed, w) ==
  /\ query' = q
  /\ error' = failed
  /\ walk' = w /\ UNCHANGED <<flight, result>>

\* The address changes: the effect aborts the request that is out and sends another.
ChangeQuery(q, failed, w) ==
  /\ query' = q
  /\ flight' = [query |-> q, phase |-> "sent"]
  /\ error' = (failed \/ AbortedLate)
  /\ walk' = w /\ UNCHANGED result

OnList == at = "list" /\ shell = "in"
Settled == OnList /\ flight = None
Shown == result # None /\ ~error

\* search: the form always names an order and a page size, so never the plain
\* address, and no page number.  If the address stays the same, no effect runs;
\* one that spells page 1 out does not stay the same.
Search ==
  /\ OnList /\ loading' = TRUE
  /\ \E f \in Filters \ {Home} :
       LET q == [filter |-> f, page |-> 1]
       IN  \/ ChangeQuery(q, FALSE, FreshWalk(q)) /\ repeated' = FALSE
           \/ /\ q = query /\ repeated' = TRUE /\ error' = FALSE
              /\ UNCHANGED <<query, flight, walk, result>>
  /\ UNCHANGED <<shellVars, leadPage, server, posted, known>>

\* Reset filters, Previous page, an earlier address: neither flag is touched.
Follow ==
  /\ OnList
  /\ \E q \in Queries \ {query} : ChangeQuery(q, error, FreshWalk(q))
  /\ repeated' = FALSE
  /\ UNCHANGED <<shellVars, loading, leadPage, server, posted, known>>

Offered == Shown /\ result.query.page * PageSize < result.total

\* The link counts from the page shown, with the filters of the address.
NextPage ==
  /\ OnList /\ Offered
  /\ LET q == [query EXCEPT !.page = result.query.page + 1]
     IN  q \in Queries \ {query} /\ ChangeQuery(q, error, IF Settled THEN walk ELSE NoWalk)
  /\ repeated' = FALSE
  /\ UNCHANGED <<shellVars, loading, leadPage, server, posted, known>>

\* list_leads counts in one statement and selects the page in another.
CountLeads ==
  /\ flight # None /\ flight.phase = "sent"
  /\ flight' = [query |-> flight.query, phase |-> "counted", total |-> Cardinality(Selected(flight.query))]
  /\ UNCHANGED <<shellVars, error, query, loading, result, repeated, walk, leadPage, server, posted, known>>

SelectPage ==
  /\ flight # None /\ flight.phase = "counted"
  /\ flight' = [query |-> flight.query, phase |-> "answered", total |-> flight.total,
                items |-> PageOf(flight.query)]
  /\ UNCHANGED <<shellVars, error, query, loading, result, repeated, walk, leadPage, server, posted, known>>

ListArrives ==
  /\ flight # None /\ flight.phase = "answered"
  /\ result' = [query |-> flight.query, total |-> flight.total, items |-> flight.items]
  /\ loading' = FALSE /\ flight' = None /\ repeated' = FALSE
  /\ walk' = [walk EXCEPT !.met = @ \cup flight.items]
  /\ UNCHANGED <<shellVars, error, query, leadPage, server, posted, known>>

\* The head of an error answer is in, its body not yet.
ListRefused ==
  /\ flight # None /\ flight.phase # "reading"
  /\ flight' = [query |-> flight.query, phase |-> "reading"]
  /\ UNCHANGED <<shellVars, error, query, loading, result, repeated, walk, leadPage, server, posted, known>>

\* Mutant: an error does not end the loading.
ListFailsLoading ==
  /\ flight # None
  /\ error' = TRUE /\ flight' = None
  /\ walk' = NoWalk
  /\ UNCHANGED <<shellVars, query, loading, result, repeated, leadPage, server, posted, known>>

\* The body is read, or no answer comes at all.
ListFails ==
  /\ flight # None
  /\ error' = TRUE /\ loading' = FALSE /\ flight' = None /\ repeated' = FALSE
  /\ walk' = NoWalk
  /\ UNCHANGED <<shellVars, query, result, leadPage, server, posted, known>>

-----------------------------------------------------------------------------
(* The page of a lead                                                        *)

Snapshot == [note |-> Last(log), version |-> Len(log), files |-> files \cap FilesOf({Lead})]
Gone == Lead \notin inbox

\* detail
ServeLoad(k) ==
  /\ loads[k] # None /\ loads[k].phase = "sent"
  /\ loads' = [loads EXCEPT ![k] = IF Gone THEN [phase |-> "missing"] ELSE [phase |-> "found", lead |-> Snapshot]]
  /\ UNCHANGED <<shellVars, error, listPage, lead, text, noteState, deleting, doing, crossed, server, posted, known>>

\* Mutant: the lead is kept, its note is not put into the text area.
LoadArrivesWithoutText(k) ==
  /\ loads[k] # None /\ loads[k].phase = "found"
  /\ lead' = loads[k].lead
  /\ IF k = "opening" THEN UNCHANGED <<noteState, error>> ELSE noteState' = "" /\ error' = FALSE
  /\ crossed' = (crossed \/ doing.op = "note")
  /\ loads' = [loads EXCEPT ![k] = None]
  /\ doing' = IF k = "refresh" THEN Idle ELSE doing
  /\ UNCHANGED <<shellVars, listPage, text, known, deleting, server, posted>>

\* The lead and its note replace what the page holds, whatever it is doing.
LoadArrives(k) ==
  /\ loads[k] # None /\ loads[k].phase = "found"
  /\ lead' = loads[k].lead /\ text' = lead'.note
  /\ known' = known \cup {lead'.version}
  /\ IF k = "opening" THEN UNCHANGED <<noteState, error>> ELSE noteState' = "" /\ error' = FALSE
  /\ crossed' = (crossed \/ doing.op = "note")
  /\ loads' = [loads EXCEPT ![k] = None]
  /\ doing' = IF k = "refresh" THEN Idle ELSE doing
  /\ UNCHANGED <<shellVars, listPage, deleting, server, posted>>

LoadFails(k) ==
  /\ loads[k] # None
  /\ error' = TRUE
  /\ loads' = [loads EXCEPT ![k] = None]
  /\ doing' = IF k = "refresh" THEN Idle ELSE doing
  /\ UNCHANGED <<shellVars, listPage, lead, text, noteState, deleting, crossed, server, posted, known>>

\* A dialog covers the page while something is about to be deleted.
Room == Cardinality(posted) + changes < MaxChanges
Changed == changes' = changes + 1

Editable == lead # None /\ deleting = None
NotBusy == doing = Idle

\* Mutant: typing does not take back the word beside the button.
TypeUnmarked ==
  /\ Editable /\ NotBusy
  /\ text' \in Texts \ {text}
  /\ UNCHANGED <<shellVars, error, listPage, lead, noteState, deleting, loads, doing, crossed, server, posted, known>>

Type ==
  /\ Editable /\ NotBusy
  /\ text' \in Texts \ {text} /\ noteState' = "Changed"
  /\ UNCHANGED <<shellVars, error, listPage, lead, deleting, loads, doing, crossed, server, posted, known>>

\* "Reload latest note" is not disabled by anything.
ClickReload(k) ==
  /\ Editable /\ noteState = "Not saved" /\ loads[k] = None
  /\ loads' = [loads EXCEPT ![k] = [phase |-> "sent"]]
  /\ UNCHANGED <<shellVars, error, listPage, lead, text, noteState, deleting, doing, crossed, server, posted, known>>

\* The note goes out with the version the page holds, which the answer is
\* merged into as it is now.
Save ==
  /\ Editable /\ NotBusy /\ text # lead.note
  /\ Room
  /\ doing' = [op |-> "note", note |-> text, lead |-> lead, answer |-> 0]
  /\ noteState' = "Saving" /\ error' = FALSE /\ crossed' = FALSE
  /\ posted' = posted \cup {[op |-> "note", note |-> text, version |-> lead.version, waited |-> TRUE]}
  /\ UNCHANGED <<shellVars, listPage, lead, text, deleting, loads, server, known>>

SaveSucceeds ==
  /\ doing.op = "note" /\ doing.answer # 0
  /\ lead' = [doing.lead EXCEPT !.note = doing.note, !.version = doing.answer]
  /\ noteState' = "Saved" /\ doing' = Idle
  /\ UNCHANGED <<shellVars, error, listPage, text, deleting, loads, crossed, server, posted, known>>

AskDelete ==
  /\ Editable /\ NotBusy
  /\ deleting' \in lead.files \cup {Lead}
  /\ UNCHANGED <<shellVars, error, listPage, lead, text, noteState, loads, doing, crossed, server, posted, known>>

CancelDelete ==
  /\ deleting # None /\ NotBusy /\ deleting' = None
  /\ UNCHANGED <<shellVars, error, listPage, lead, text, noteState, loads, doing, crossed, server, posted, known>>

\* remove, after the id has been typed if it is the whole lead.
ConfirmDelete ==
  /\ deleting # None /\ NotBusy /\ Room
  /\ doing' = [op |-> "delete", what |-> deleting, answer |-> 0]
  /\ error' = FALSE
  /\ posted' = posted \cup {[op |-> "delete", what |-> deleting, waited |-> TRUE]}
  /\ UNCHANGED <<shellVars, listPage, lead, text, noteState, deleting, loads, crossed, server, known>>

\* After an attachment the lead is read again, after the lead the tab goes to the list.
RemoveSucceeds ==
  /\ doing.op = "delete" /\ doing.answer # 0
  /\ IF doing.what = Lead THEN Mount("list", HomeQuery) /\ UNCHANGED next
     ELSE /\ deleting' = None /\ doing' = [op |-> "refresh"]
          /\ loads' = [loads EXCEPT !["refresh"] = [phase |-> "sent"]]
          /\ UNCHANGED <<shellVars, error, listPage, lead, text, noteState, crossed, posted>>
  /\ UNCHANGED <<server, known>>

\* A refusal, or no answer: the request may be handled all the same, before or after.
ChangeFails ==
  /\ doing.op \in {"note", "delete"}
  /\ noteState' = IF doing.op = "note" THEN "Not saved" ELSE noteState
  /\ error' = TRUE /\ doing' = Idle
  /\ Abandon
  /\ UNCHANGED <<shellVars, listPage, lead, text, deleting, loads, crossed, server, known>>

-----------------------------------------------------------------------------
(* The server, and everybody else                                            *)

Hears(m, answer) == doing' = IF m.waited THEN [doing EXCEPT !.answer = answer] ELSE doing

\* notes: one UPDATE, if the version is still the current one.
ServeNote(m) ==
  /\ m.op = "note" /\ posted' = posted \ {m}
  /\ IF ~Gone /\ m.version = Len(log)
       THEN log' = Append(log, m.note) /\ Hears(m, Len(log')) /\ known' = known \cup {Len(log')} /\ Changed
       ELSE UNCHANGED <<log, doing, known, changes>>
  /\ UNCHANGED <<shellVars, error, listPage, lead, text, noteState, deleting, loads, crossed, inbox, files>>

\* remove: a lead with its attachments, or one attachment.
Delete(what) ==
  /\ inbox' = inbox \ {what}
  /\ files' = {f \in files : f # what /\ OwnerOf[f] # what}

\* Removing what is already gone is answered like the rest.
ServeDelete(m) ==
  /\ m.op = "delete" /\ posted' = posted \ {m}
  /\ Delete(m.what) /\ Hears(m, 1)
  /\ IF UNCHANGED <<inbox, files>> THEN UNCHANGED changes ELSE Changed
  /\ UNCHANGED <<shellVars, error, query, loading, result, flight, repeated, lead, text, noteState, deleting, loads, crossed, log, known>>
  /\ KeepWalk

RequestLost(m) ==
  /\ posted' = posted \ {m}
  /\ UNCHANGED <<shellVars, error, listPage, leadPage, server, known>>

\* A lead is listed by the time its transaction began, not the time it was
\* committed: it may come in anywhere.
Arrive ==
  /\ Room /\ Changed
  /\ \E l \in Leads \ (inbox \cup Inbox) : inbox' = inbox \cup {l} /\ files' = files \cup FilesOf({l})
  /\ UNCHANGED <<shellVars, error, query, loading, result, flight, repeated, leadPage, log, posted, known>>
  /\ KeepWalk

OthersDelete ==
  /\ Room /\ Changed
  /\ \E what \in inbox \cup files : Delete(what)
  /\ UNCHANGED <<shellVars, error, query, loading, result, flight, repeated, leadPage, log, posted, known>>
  /\ KeepWalk

\* Another administrator, who may write anything, also nothing.
OthersSave ==
  /\ ~Gone /\ Room /\ Changed
  /\ \E t \in Texts : log' = Append(log, t)
  /\ UNCHANGED <<shellVars, error, listPage, leadPage, inbox, files, posted, known>>

Next ==
  \/ Leave \/ Login \/ SessionKnown \/ SessionRefused
  \/ Search \/ Follow \/ NextPage \/ CountLeads \/ SelectPage \/ ListArrives \/ ListRefused \/ ListFails
  \/ \E k \in Loads : ServeLoad(k) \/ LoadArrives(k) \/ LoadFails(k)
  \/ \E k \in Reloads : ClickReload(k)
  \/ Type \/ Save \/ SaveSucceeds \/ AskDelete \/ CancelDelete \/ ConfirmDelete \/ RemoveSucceeds \/ ChangeFails
  \/ \E m \in posted : ServeNote(m) \/ ServeDelete(m) \/ RequestLost(m)
  \/ Arrive \/ OthersDelete \/ OthersSave

\* Every list request comes to an end: the proxy gives an upstream 100 seconds
\* (proxy_read_timeout), and then answers itself.
Spec == Init /\ [][Next]_vars
LiveSpec == Spec /\ WF_vars(ListArrives \/ ListFails)

-----------------------------------------------------------------------------
(* Properties                                                                *)

\* The page comes to rest with the list of the address it is at: aborted
\* requests leave nothing, and a list of another address is never shown
\* without "Loading requests" beside it once no request is out.
ListFitsAddress == Settled /\ Shown /\ ~loading => result.query = query

\* "Loading requests" is taken back, unless the form was sent with the filters
\* of the address: then nothing is asked, and it stays.
LoadingEnds == (OnList /\ loading /\ ~repeated) ~> (~OnList \/ ~loading \/ repeated)

\* Paging from the first page to the last shows every lead that the search
\* selected at the start, wherever others come in, a lead that is selected since
\* its last attachment was deleted included.  Not if a lead drops out of the list
\* on the way, because it is deleted or, in a search for leads with attachments,
\* loses its last one; and not if the list changes between the two statements of
\* a listing.
WalkMissesNothing ==
  Settled /\ Shown /\ result.query = query /\ ~Offered /\ ~walk.broken => walk.old \subseteq walk.met

\* A note saved from the page replaces a version that the administrator has had
\* on the page, or wrote there: nobody overwrites a note unread.
OverwritesOnlyKnown ==
  [][\A m \in posted : m.op = "note" /\ log' # log /\ posted' = posted \ {m} => Len(log) \in known]_vars

\* Beside "Saved" stands what the server has stored: the page's version of the
\* note is the server's, and so is the text, unless a reload crossed the save.
SavedIsStored ==
  noteState = "Saved" => log[lead.version] = lead.note /\ (text = lead.note \/ crossed)
=============================================================================
