------------------------- MODULE AdminConsoleProofs -------------------------
(***************************************************************************)
(* The administrative pages, for any number of leads, filters, texts,      *)
(* changes and reloads.  No note is overwritten unread: the version that a *)
(* save carries is one that the page has shown or written, although        *)
(* answers of saves, reloads and deletions may replace the page's lead in  *)
(* any order.  The list shown is the one of the address, paging misses no  *)
(* lead unless one drops out of the list, and beside "Saved" stands what   *)
(* is stored.                                                              *)
(***************************************************************************)
EXTENDS AdminConsole, FiniteSetTheorems, TLAPS

\* A lead as the page keeps it.
Kept(v) == \E n, k, f : v = [note |-> n, version |-> k, files |-> f]

LeadKnown == lead = None \/ (Kept(lead) /\ lead.version \in known)

LoadsFit ==
  /\ loads = [k \in Loads |-> loads[k]]
  /\ \A k \in Loads : loads[k] # None /\ loads[k].phase = "found" => Kept(loads[k].lead)

\* A read after a deletion is out only while the page waits for it.
RefreshFits == loads["refresh"] # None => doing.op = "refresh"

SavingNote(d) ==
  \E n, v, a : /\ d = [op |-> "note", note |-> n, lead |-> v, answer |-> a]
               /\ Kept(v) /\ (a = 0 \/ a \in known)
Deleting(d) == \E w, a : d = [op |-> "delete", what |-> w, answer |-> a]

\* What the page is busy with; the answer to a save is a known version.
DoingFits == doing \in {Idle, [op |-> "refresh"]} \/ SavingNote(doing) \/ Deleting(doing)

PostedNote(m) ==
  \E n, v : \E w \in BOOLEAN : m = [op |-> "note", note |-> n, version |-> v, waited |-> w] /\ v \in known
PostedDelete(m) == \E x : \E w \in BOOLEAN : m = [op |-> "delete", what |-> x, waited |-> w]

\* Every save on its way carries a known version.
PostedFits == \A m \in posted : PostedNote(m) \/ PostedDelete(m)

\* The page waits for one request at most, the one it is busy with.
OneWaited == \A m \in posted : m.waited =>
  /\ doing.op = m.op /\ doing.answer = 0
  /\ \A n \in posted : n.waited => n = m

ConsoleInv == LeadKnown /\ LoadsFit /\ RefreshFits /\ DoingFits /\ PostedFits /\ OneWaited
-----------------------------------------------------------------------------
(* Shapes                                                                    *)

LEMMA RefreshIsLoad == "refresh" \in Loads /\ \A k \in Reloads : k # "refresh"
  BY ConsoleAssumption DEF Loads

\* What the page is busy with is told by op.
LEMMA DoingShapes ==
  ASSUME NEW d, d \in {Idle, [op |-> "refresh"]} \/ SavingNote(d) \/ Deleting(d)
  PROVE  /\ d.op = "note" => SavingNote(d) /\ Kept(d.lead) /\ (d.answer = 0 \/ d.answer \in known)
         /\ d.op = "delete" => Deleting(d)
         /\ d.op \in {"nothing", "refresh", "note", "delete"}
  BY DEF Idle, SavingNote, Deleting

\* What a request is told by op, and whether it is waited for.
LEMMA PostedShapes ==
  ASSUME NEW m, PostedNote(m) \/ PostedDelete(m)
  PROVE  /\ m.op = "note" => PostedNote(m) /\ m.version \in known
         /\ m.op \in {"note", "delete"}
         /\ m.waited \in BOOLEAN
  BY DEF PostedNote, PostedDelete

\* More known versions and fewer or abandoned requests do no harm.
LEMMA PostedAbandoned ==
  ASSUME PostedFits, Abandon, known \subseteq known'
  PROVE  PostedFits' /\ \A m \in posted' : m.waited = FALSE
  <1> SUFFICES ASSUME NEW n \in posted' PROVE (PostedNote(n) \/ PostedDelete(n))' /\ n.waited = FALSE
    BY DEF PostedFits
  <1>1. PICK m \in posted : n = [m EXCEPT !.waited = FALSE]
    BY DEF Abandon
  <1>2. CASE PostedNote(m)
    <2>1. PICK t, v : \E w \in BOOLEAN : m = [op |-> "note", note |-> t, version |-> v, waited |-> w] /\ v \in known
      BY <1>2 DEF PostedNote
    <2>2. PICK w \in BOOLEAN : m = [op |-> "note", note |-> t, version |-> v, waited |-> w]
      BY <2>1
    <2>3. n = [op |-> "note", note |-> t, version |-> v, waited |-> FALSE] /\ v \in known'
      BY <1>1, <2>1, <2>2
    <2> QED
      BY <2>3 DEF PostedNote
  <1>3. CASE PostedDelete(m)
    <2>1. PICK x : \E w \in BOOLEAN : m = [op |-> "delete", what |-> x, waited |-> w]
      BY <1>3 DEF PostedDelete
    <2>2. PICK w \in BOOLEAN : m = [op |-> "delete", what |-> x, waited |-> w]
      BY <2>1
    <2>3. n = [op |-> "delete", what |-> x, waited |-> FALSE]
      BY <1>1, <2>2
    <2> QED
      BY <2>3 DEF PostedDelete
  <1> QED
    BY <1>2, <1>3 DEF PostedFits

\* Requests that are handled or lost leave the others alone.
LEMMA PostedShrinks ==
  ASSUME PostedFits, posted' \subseteq posted, known \subseteq known'
  PROVE  PostedFits'
  BY DEF PostedFits, PostedNote, PostedDelete

-----------------------------------------------------------------------------
(* Steps                                                                     *)

LEMMA InitConsole == Init => ConsoleInv
  BY RefreshIsLoad DEF Init, ConsoleInv, LeadKnown, LoadsFit, RefreshFits, DoingFits, PostedFits, OneWaited

LEMMA LeadStays ==
  ASSUME LeadKnown, lead' = lead, known \subseteq known'
  PROVE  LeadKnown'
  BY DEF LeadKnown, Kept

LEMMA LoadsStay ==
  ASSUME LoadsFit, loads' = loads
  PROVE  LoadsFit'
  <1>1. (loads = [k \in Loads |-> loads[k]])'
    BY Zenon DEF LoadsFit
  <1>2. ASSUME NEW k \in Loads, loads'[k] # None, loads'[k].phase = "found" PROVE Kept(loads'[k].lead)
    BY <1>2, Zenon DEF LoadsFit
  <1> QED
    BY <1>1, <1>2 DEF LoadsFit

\* One read sets out, is answered or ends.
LEMMA LoadChanges ==
  ASSUME LoadsFit, NEW k \in Loads, NEW v, loads' = [loads EXCEPT ![k] = v],
         v # None /\ v.phase = "found" => Kept(v.lead)
  PROVE  LoadsFit'
  <1>1. loads' = [j \in Loads |-> IF j = k THEN v ELSE loads[j]]
    BY DEF LoadsFit
  <1>2. ASSUME NEW j \in Loads, loads'[j] # None, loads'[j].phase = "found" PROVE Kept(loads'[j].lead)
    <2>1. CASE j = k
      BY <1>1, <1>2, <2>1
    <2>2. CASE j # k
      <3>1. loads'[j] = loads[j]
        BY <1>1, <2>2
      <3> QED
        BY <1>2, <3>1, Zenon DEF LoadsFit
    <2> QED
      BY <2>1, <2>2
  <1> QED
    BY <1>1, <1>2 DEF LoadsFit

LEMMA DoingStays ==
  ASSUME DoingFits, doing' = doing, known \subseteq known'
  PROVE  DoingFits'
  <1>1. SavingNote(doing) => SavingNote(doing)'
    BY DEF SavingNote
  <1>2. Deleting(doing) => Deleting(doing)'
    BY DEF Deleting
  <1> QED
    BY <1>1, <1>2 DEF DoingFits, Idle

LEMMA WaitedStays ==
  ASSUME OneWaited, doing' = doing, posted' \subseteq posted
  PROVE  OneWaited'
  BY DEF OneWaited

\* Steps off the page of the lead.
LEMMA QuietKeeps ==
  ASSUME ConsoleInv, UNCHANGED <<lead, loads, doing, posted, known>>
  PROVE  ConsoleInv'
  <1>1. RefreshFits'
    BY DEF ConsoleInv, RefreshFits
  <1> QED
    BY <1>1, LeadStays, LoadsStay, DoingStays, PostedShrinks, WaitedStays DEF ConsoleInv

\* A fresh page keeps no lead and waits for nothing.
LEMMA MountKeeps ==
  ASSUME ConsoleInv, UNCHANGED known, NEW page, NEW q, Mount(page, q)
  PROVE  ConsoleInv'
  <1>1. PostedFits' /\ \A m \in posted' : m.waited = FALSE
    BY PostedAbandoned DEF ConsoleInv, Mount
  <1> QED
    BY <1>1, RefreshIsLoad DEF ConsoleInv, Mount, LeadKnown, LoadsFit, RefreshFits, DoingFits, OneWaited

LEMMA SessionKeeps ==
  ASSUME ConsoleInv, SessionKnown
  PROVE  ConsoleInv'
  <1>1. LoadsFit'
    BY LoadsStay, LoadChanges DEF SessionKnown, Loads, ConsoleInv
  <1>2. RefreshFits'
    BY RefreshIsLoad, ConsoleAssumption DEF SessionKnown, ConsoleInv, RefreshFits, LoadsFit
  <1> QED
    BY <1>1, <1>2, LeadStays, DoingStays, PostedShrinks, WaitedStays DEF ConsoleInv, SessionKnown

LEMMA ServeLoadKeeps ==
  ASSUME ConsoleInv, NEW k \in Loads, ServeLoad(k)
  PROVE  ConsoleInv'
  <1>1. LoadsFit'
    BY LoadChanges DEF ServeLoad, ConsoleInv, Snapshot, Kept
  <1>2. RefreshFits'
    BY RefreshIsLoad DEF ServeLoad, ConsoleInv, RefreshFits, LoadsFit
  <1> QED
    BY <1>1, <1>2, LeadStays, DoingStays, PostedShrinks, WaitedStays DEF ConsoleInv, ServeLoad

\* The end of a read, with or without a lead.
LEMMA LoadEndKeeps ==
  ASSUME ConsoleInv, NEW k \in Loads, loads[k] # None,
         loads' = [loads EXCEPT ![k] = None],
         doing' = IF k = "refresh" THEN Idle ELSE doing,
         posted' = posted, known \subseteq known', LeadKnown'
  PROVE  ConsoleInv'
  <1>1. LoadsFit'
    BY LoadChanges DEF ConsoleInv
  <1>2. RefreshFits'
    BY RefreshIsLoad DEF ConsoleInv, RefreshFits, LoadsFit
  <1>3. PostedFits'
    BY PostedShrinks DEF ConsoleInv
  <1>4. DoingFits' /\ OneWaited'
    <2>1. CASE k = "refresh"
      <3>1. doing.op = "refresh" /\ doing' = Idle
        BY <2>1 DEF ConsoleInv, RefreshFits
      <3>2. \A m \in posted : m.waited = FALSE
        BY <3>1, PostedShapes DEF ConsoleInv, OneWaited, PostedFits
      <3> QED
        BY <3>1, <3>2 DEF DoingFits, OneWaited
    <2>2. CASE k # "refresh"
      BY <2>2, DoingStays, WaitedStays DEF ConsoleInv
    <2> QED
      BY <2>1, <2>2
  <1> QED
    BY <1>1, <1>2, <1>3, <1>4 DEF ConsoleInv

LEMMA LoadArrivesKeeps ==
  ASSUME ConsoleInv, NEW k \in Loads, LoadArrives(k)
  PROVE  ConsoleInv'
  <1>1. Kept(lead') /\ lead'.version \in known'
    BY DEF LoadArrives, ConsoleInv, LoadsFit
  <1>2. LeadKnown'
    BY <1>1 DEF LeadKnown, Kept
  <1> QED
    BY <1>2, LoadEndKeeps DEF LoadArrives

LEMMA LoadFailsKeeps ==
  ASSUME ConsoleInv, NEW k \in Loads, LoadFails(k)
  PROVE  ConsoleInv'
  BY LeadStays, LoadEndKeeps DEF LoadFails, ConsoleInv

LEMMA ReloadKeeps ==
  ASSUME ConsoleInv, NEW k \in Reloads, ClickReload(k)
  PROVE  ConsoleInv'
  <1>1. k \in Loads /\ k # "refresh"
    BY RefreshIsLoad DEF Loads
  <1>2. LoadsFit'
    BY <1>1, LoadChanges DEF ConsoleInv, ClickReload
  <1>3. RefreshFits'
    BY <1>1, RefreshIsLoad DEF ClickReload, ConsoleInv, RefreshFits, LoadsFit
  <1> QED
    BY <1>2, <1>3, LeadStays, DoingStays, PostedShrinks, WaitedStays DEF ConsoleInv, ClickReload

\* Nobody waits for a request while the page is busy with nothing.
LEMMA IdleWaitsForNone ==
  ASSUME ConsoleInv, doing.op \notin {"note", "delete"} \/ doing.answer # 0
  PROVE  \A m \in posted : m.waited = FALSE
  BY PostedShapes DEF ConsoleInv, OneWaited, PostedFits

LEMMA SaveKeeps ==
  ASSUME ConsoleInv, Save
  PROVE  ConsoleInv'
  <1> DEFINE new == [op |-> "note", note |-> text, version |-> lead.version, waited |-> TRUE]
  <1>1. doing = Idle /\ lead # None /\ Kept(lead) /\ lead.version \in known
    BY DEF Save, Editable, NotBusy, ConsoleInv, LeadKnown
  <1>2. \A m \in posted : m.waited = FALSE
    BY <1>1, IdleWaitsForNone DEF Idle
  <1>3. doing' = [op |-> "note", note |-> text, lead |-> lead, answer |-> 0]
    BY DEF Save
  <1>4. DoingFits'
    <2>1. SavingNote(doing')
      BY <1>1, <1>3 DEF SavingNote
    <2> QED
      BY <2>1 DEF DoingFits, SavingNote, Save
  <1>5. posted' = posted \cup {new} /\ known' = known
    BY DEF Save
  <1>6. PostedNote(new)
    BY <1>1 DEF PostedNote
  <1>7. PostedFits'
    <2> SUFFICES ASSUME NEW m \in posted' PROVE PostedNote(m)' \/ PostedDelete(m)'
      BY DEF PostedFits
    <2>1. PostedNote(m) \/ PostedDelete(m)
      BY <1>5, <1>6 DEF ConsoleInv, PostedFits
    <2>2. PostedNote(m)' = PostedNote(m) /\ PostedDelete(m)' = PostedDelete(m)
      BY <1>5 DEF PostedNote, PostedDelete
    <2> QED
      BY <2>1, <2>2
  <1>8. OneWaited'
    <2>1. ASSUME NEW m \in posted', m.waited PROVE m = new
      BY <1>2, <1>5, <2>1
    <2>2. doing'.op = new.op /\ doing'.answer = 0
      BY <1>3
    <2> QED
      BY <2>1, <2>2 DEF OneWaited
  <1>9. RefreshFits'
    BY <1>1 DEF Save, ConsoleInv, RefreshFits, Idle
  <1> QED
    BY <1>4, <1>7, <1>8, <1>9, LeadStays, LoadsStay DEF ConsoleInv, Save

LEMMA ConfirmKeeps ==
  ASSUME ConsoleInv, ConfirmDelete
  PROVE  ConsoleInv'
  <1> DEFINE new == [op |-> "delete", what |-> deleting, waited |-> TRUE]
  <1>1. doing = Idle
    BY DEF ConfirmDelete, NotBusy
  <1>2. \A m \in posted : m.waited = FALSE
    BY <1>1, IdleWaitsForNone DEF Idle
  <1>3. doing' = [op |-> "delete", what |-> deleting, answer |-> 0]
    BY DEF ConfirmDelete
  <1>4. DoingFits'
    BY <1>3 DEF DoingFits, Deleting
  <1>5. posted' = posted \cup {new} /\ known' = known
    BY DEF ConfirmDelete
  <1>6. PostedDelete(new)
    BY DEF PostedDelete
  <1>7. PostedFits'
    BY <1>5, <1>6 DEF ConsoleInv, PostedFits, PostedNote, PostedDelete
  <1>8. OneWaited'
    <2>1. ASSUME NEW m \in posted', m.waited PROVE m = new
      BY <1>2, <1>5, <2>1
    <2>2. doing'.op = new.op /\ doing'.answer = 0
      BY <1>3
    <2> QED
      BY <2>1, <2>2 DEF OneWaited
  <1>9. RefreshFits'
    BY <1>1 DEF ConfirmDelete, ConsoleInv, RefreshFits, Idle
  <1> QED
    BY <1>4, <1>7, <1>8, <1>9, LeadStays, LoadsStay DEF ConsoleInv, ConfirmDelete

LEMMA SaveSucceedsKeeps ==
  ASSUME ConsoleInv, SaveSucceeds
  PROVE  ConsoleInv'
  <1>1. SavingNote(doing) /\ Kept(doing.lead) /\ doing.answer \in known
    BY DoingShapes DEF SaveSucceeds, ConsoleInv, DoingFits
  <1>2. \A m \in posted : m.waited = FALSE
    BY IdleWaitsForNone DEF SaveSucceeds
  <1>3. PICK n, k, f : doing.lead = [note |-> n, version |-> k, files |-> f]
    BY <1>1 DEF Kept
  <1>4. lead' = [note |-> doing.note, version |-> doing.answer, files |-> f]
    <2>1. lead' = [[note |-> n, version |-> k, files |-> f] EXCEPT !.note = doing.note, !.version = doing.answer]
      BY <1>3 DEF SaveSucceeds
    <2> QED
      BY <2>1
  <1>5. LeadKnown'
    BY <1>1, <1>4 DEF LeadKnown, Kept, SaveSucceeds
  <1>6. DoingFits' /\ OneWaited'
    BY <1>2 DEF SaveSucceeds, DoingFits, OneWaited
  <1>7. RefreshFits'
    BY DEF SaveSucceeds, ConsoleInv, RefreshFits
  <1> QED
    BY <1>5, <1>6, <1>7, LoadsStay, PostedShrinks DEF ConsoleInv, SaveSucceeds

LEMMA RemoveSucceedsKeeps ==
  ASSUME ConsoleInv, RemoveSucceeds
  PROVE  ConsoleInv'
  <1>1. CASE doing.what = Lead
    BY <1>1, MountKeeps DEF RemoveSucceeds
  <1>2. CASE doing.what # Lead
    <2>1. \A m \in posted : m.waited = FALSE
      BY IdleWaitsForNone DEF RemoveSucceeds
    <2>2. /\ doing' = [op |-> "refresh"] /\ UNCHANGED <<lead, posted, known>>
          /\ loads' = [loads EXCEPT !["refresh"] = [phase |-> "sent"]]
      BY <1>2 DEF RemoveSucceeds
    <2>3. LoadsFit'
      BY <2>2, RefreshIsLoad, LoadChanges DEF ConsoleInv
    <2>4. DoingFits' /\ OneWaited' /\ RefreshFits'
      BY <2>1, <2>2 DEF DoingFits, OneWaited, RefreshFits
    <2> QED
      BY <2>2, <2>3, <2>4, LeadStays, PostedShrinks DEF ConsoleInv
  <1> QED
    BY <1>1, <1>2

LEMMA ChangeFailsKeeps ==
  ASSUME ConsoleInv, ChangeFails
  PROVE  ConsoleInv'
  <1>1. PostedFits' /\ \A m \in posted' : m.waited = FALSE
    BY PostedAbandoned DEF ChangeFails, ConsoleInv
  <1>2. DoingFits' /\ OneWaited'
    BY <1>1 DEF ChangeFails, DoingFits, OneWaited
  <1>3. RefreshFits'
    BY DEF ChangeFails, ConsoleInv, RefreshFits
  <1> QED
    BY <1>1, <1>2, <1>3, LeadStays, LoadsStay DEF ConsoleInv, ChangeFails

LEMMA LostKeeps ==
  ASSUME ConsoleInv, NEW m \in posted, RequestLost(m)
  PROVE  ConsoleInv'
  <1>1. RefreshFits'
    BY DEF RequestLost, ConsoleInv, RefreshFits, leadPage
  <1> QED
    BY <1>1, LeadStays, LoadsStay, DoingStays, PostedShrinks, WaitedStays DEF ConsoleInv, RequestLost, leadPage

\* The answer to a request that is waited for; op is what the page is busy with.
LEMMA AnswerKeeps ==
  ASSUME ConsoleInv, NEW m \in posted, NEW answer, posted' = posted \ {m}, known \subseteq known',
         Hears(m, answer), m.op = "note" => answer \in known',
         UNCHANGED <<lead, loads>>
  PROVE  ConsoleInv'
  <1>1. m.op \in {"note", "delete"} /\ m.waited \in BOOLEAN
    BY PostedShapes DEF ConsoleInv, PostedFits
  <1>2. LeadKnown' /\ LoadsFit' /\ PostedFits'
    BY LeadStays, LoadsStay, PostedShrinks DEF ConsoleInv
  <1>3. CASE ~m.waited
    <2>1. doing' = doing
      BY <1>3 DEF Hears
    <2> QED
      BY <1>2, <2>1, DoingStays, WaitedStays DEF ConsoleInv, RefreshFits
  <1>4. CASE m.waited
    <2>1. doing' = [doing EXCEPT !.answer = answer] /\ doing.op = m.op
      BY <1>4 DEF Hears, ConsoleInv, OneWaited
    <2>2. \A n \in posted' : n.waited = FALSE
      BY <1>4, PostedShapes DEF ConsoleInv, OneWaited, PostedFits
    <2>3. doing'.op = doing.op /\ DoingFits'
      <3>1. CASE m.op = "note"
        <4>1. SavingNote(doing)
          BY <2>1, <3>1, DoingShapes DEF ConsoleInv, DoingFits
        <4>2. PICK n, v, a : doing = [op |-> "note", note |-> n, lead |-> v, answer |-> a] /\ Kept(v)
          BY <4>1 DEF SavingNote
        <4>3. doing' = [op |-> "note", note |-> n, lead |-> v, answer |-> answer]
          BY <2>1, <4>2
        <4> QED
          BY <3>1, <4>2, <4>3 DEF DoingFits, SavingNote
      <3>2. CASE m.op = "delete"
        <4>1. PICK w, a : doing = [op |-> "delete", what |-> w, answer |-> a]
          BY <2>1, <3>2, DoingShapes DEF ConsoleInv, DoingFits, Deleting
        <4>2. doing' = [op |-> "delete", what |-> w, answer |-> answer]
          BY <2>1, <4>1
        <4> QED
          BY <4>1, <4>2 DEF DoingFits, Deleting
      <3> QED
        BY <1>1, <3>1, <3>2
    <2>4. OneWaited'
      BY <2>2 DEF OneWaited
    <2>5. RefreshFits'
      BY <2>3 DEF ConsoleInv, RefreshFits
    <2> QED
      BY <1>2, <2>3, <2>4, <2>5 DEF ConsoleInv
  <1> QED
    BY <1>1, <1>3, <1>4

LEMMA ServeNoteKeeps ==
  ASSUME ConsoleInv, NEW m \in posted, ServeNote(m)
  PROVE  ConsoleInv'
  <1>1. CASE doing' = doing /\ known' = known
    <2>1. RefreshFits'
      BY <1>1 DEF ServeNote, ConsoleInv, RefreshFits
    <2> QED
      BY <1>1, <2>1, LeadStays, LoadsStay, DoingStays, PostedShrinks, WaitedStays DEF ConsoleInv, ServeNote
  <1>2. CASE Hears(m, Len(log')) /\ known' = known \cup {Len(log')}
    BY <1>2, AnswerKeeps DEF ServeNote
  <1> QED
    BY <1>1, <1>2 DEF ServeNote

LEMMA ServeDeleteKeeps ==
  ASSUME ConsoleInv, NEW m \in posted, ServeDelete(m)
  PROVE  ConsoleInv'
  BY AnswerKeeps DEF ServeDelete

-----------------------------------------------------------------------------
(* The invariant and the theorem                                             *)

LEMMA StepKeeps == ConsoleInv /\ [Next]_vars => ConsoleInv'
  <1> SUFFICES ASSUME ConsoleInv, [Next]_vars PROVE ConsoleInv'
    OBVIOUS
  <1>1. CASE Leave
    BY <1>1, MountKeeps DEF Leave
  <1>2. CASE Login
    BY <1>2, MountKeeps, QuietKeeps DEF Login, leadPage
  <1>3. CASE SessionKnown
    BY <1>3, SessionKeeps
  <1>4. CASE SessionRefused
    BY <1>4, MountKeeps, QuietKeeps DEF SessionRefused, leadPage
  <1>5. CASE Search \/ Follow \/ NextPage \/ CountLeads \/ SelectPage \/ ListArrives \/ ListRefused \/ ListFails
    BY <1>5, QuietKeeps DEF Search, Follow, NextPage, CountLeads, SelectPage, ListArrives, ListRefused, ListFails, leadPage
  <1>6. ASSUME NEW k \in Loads, ServeLoad(k) \/ LoadArrives(k) \/ LoadFails(k) PROVE ConsoleInv'
    BY <1>6, ServeLoadKeeps, LoadArrivesKeeps, LoadFailsKeeps
  <1>7. ASSUME NEW k \in Reloads, ClickReload(k) PROVE ConsoleInv'
    BY <1>7, ReloadKeeps
  <1>8. CASE Type \/ AskDelete \/ CancelDelete
    BY <1>8, QuietKeeps DEF Type, AskDelete, CancelDelete
  <1>9. CASE Save \/ SaveSucceeds \/ ConfirmDelete \/ RemoveSucceeds \/ ChangeFails
    BY <1>9, SaveKeeps, SaveSucceedsKeeps, ConfirmKeeps, RemoveSucceedsKeeps, ChangeFailsKeeps
  <1>10. ASSUME NEW m \in posted, ServeNote(m) \/ ServeDelete(m) \/ RequestLost(m) PROVE ConsoleInv'
    BY <1>10, ServeNoteKeeps, ServeDeleteKeeps, LostKeeps
  <1>11. CASE Arrive \/ OthersDelete \/ OthersSave
    BY <1>11, QuietKeeps DEF Arrive, OthersDelete, OthersSave, leadPage
  <1>12. CASE UNCHANGED vars
    BY <1>12, QuietKeeps DEF vars, leadPage
  <1> QED
    BY <1>1, <1>2, <1>3, <1>4, <1>5, <1>6, <1>7, <1>8, <1>9, <1>10, <1>11, <1>12 DEF Next

\* What the page knows of the versions: the inductive invariant.
THEOREM ConsoleInvariant == Spec => []ConsoleInv
  BY InitConsole, StepKeeps, PTL DEF Spec

\* A save that takes effect replaces a version that the page has shown or
\* written, whatever answers came in between.
THEOREM NoNoteIsOverwrittenUnread == Spec => OverwritesOnlyKnown
  <1> DEFINE Step == \A m \in posted : m.op = "note" /\ log' # log /\ posted' = posted \ {m} => Len(log) \in known
  <1>1. ConsoleInv /\ [Next]_vars => [Step]_vars
    <2> SUFFICES ASSUME ConsoleInv, Next, NEW m \in posted, m.op = "note", log' # log, posted' = posted \ {m}
                 PROVE  Len(log) \in known
      OBVIOUS
    <2>1. posted' # posted
      OBVIOUS
    <2>2. m.version \in known
      BY PostedShapes DEF ConsoleInv, PostedFits
    <2>3. PICK n \in posted : ServeNote(n)
      BY <2>1 DEF Next, Leave, Login, SessionKnown, SessionRefused, Search, Follow, NextPage, CountLeads, SelectPage,
                  ListArrives, ListRefused, ListFails, ServeLoad, LoadArrives, LoadFails, ClickReload, Type, Save,
                  SaveSucceeds, AskDelete, CancelDelete, ConfirmDelete, RemoveSucceeds, ChangeFails, ServeDelete,
                  RequestLost, Arrive, OthersDelete, OthersSave, server
    <2>4. n = m
      BY <2>3 DEF ServeNote
    <2> QED
      BY <2>2, <2>3, <2>4 DEF ServeNote
  <1>2. Spec => [][Step]_vars
    BY <1>1, ConsoleInvariant, PTL DEF Spec
  <1> QED
    BY <1>2 DEF OverwritesOnlyKnown

-----------------------------------------------------------------------------
(* The list: what is shown fits the address                                  *)

\* Off the page of a lead nothing of it is kept.
PageIsEmpty == at # "lead" => /\ lead = None /\ deleting = None /\ doing = Idle
                              /\ \A k \in Loads : loads[k] = None

ListShapes ==
  /\ inbox \subseteq Leads /\ query \in Queries
  /\ flight = None \/ flight \in Flights
  /\ result = None \/ result \in [query : Queries, total : Nat, items : SUBSET Leads]
  /\ walk \in [old : SUBSET Leads, met : SUBSET Leads, broken : BOOLEAN]

\* One request at most is out, for the address; without one the list shown is its.
FlightFits ==
  /\ ~OnList => flight = None /\ walk.broken
  /\ OnList /\ flight # None => flight.query = query
  /\ OnList /\ flight = None /\ ~error /\ ~loading /\ result # None => result.query = query

ListInv == PageIsEmpty /\ ListShapes /\ FlightFits
-----------------------------------------------------------------------------
(* The walk over the pages                                                   *)

Unmet == walk.old \ walk.met

\* The leads not met yet come after the first n of the list.
AfterFirst(n) == \A l \in Unmet : Ahead(query, l) >= n
AfterPage(total) == query.page * PageSize < total

WalkInv == ~walk.broken =>
  /\ walk.old \subseteq Selected(query)
  /\ flight # None /\ flight.phase \in {"sent", "counted"} => AfterFirst((query.page - 1) * PageSize)
  /\ flight # None /\ flight.phase = "counted" => flight.total = Cardinality(Selected(query))
  /\ flight # None /\ flight.phase = "answered" =>
       \A l \in Unmet \ flight.items : Ahead(query, l) >= query.page * PageSize /\ AfterPage(flight.total)
  /\ flight = None =>
       /\ result.query = query
       /\ \A l \in Unmet : Ahead(query, l) >= query.page * PageSize /\ AfterPage(result.total)
-----------------------------------------------------------------------------
(* The note                                                                  *)

Notes == Texts \cup {""}

\* A lead as the page keeps it has a note that was stored under its version.
Stored(v) == v.version \in 1..Len(log) /\ log[v.version] = v.note

LogShapes == log \in Seq(Notes) /\ log # <<>>
LeadStored == lead # None => Stored(lead)
LoadsStored == \A k \in Loads : loads[k] # None /\ loads[k].phase = "found" => Stored(loads[k].lead)

\* The text area is locked while its note is being saved; only a reload changes it.
AnswerStored(d) == d.answer # 0 => d.answer \in 1..Len(log) /\ log[d.answer] = d.note
SavingFits == doing.op = "note" => (text = doing.note \/ crossed) /\ AnswerStored(doing)
RequestFits(m) == m.op = "note" => m.note \in Notes /\ (m.waited => m.note = doing.note)
SavedFits == noteState = "Saved" => Stored(lead) /\ (text = lead.note \/ crossed)

StoredInv ==
  /\ LogShapes /\ text \in Notes /\ LeadStored /\ LoadsStored /\ SavingFits /\ SavedFits
  /\ \A m \in posted : RequestFits(m)

\* The addresses a login, the form and the home link lead to.
LEMMA HomeIsQuery == HomeQuery \in Queries /\ \A f \in Filters : [filter |-> f, page |-> 1] \in Queries
  <1>1. Cardinality(Inbox) \in Nat
    BY ConsoleAssumption, FS_Subset, FS_CardinalityType
  <1>2. 1 \in 1..Cardinality(Inbox) + 1
    BY <1>1
  <1> QED
    BY <1>2, ConsoleAssumption DEF HomeQuery, Queries

\* A page that is mounted afresh keeps nothing and has asked nothing.
LEMMA MountIsFresh ==
  ASSUME NEW page, NEW q \in Queries, Mount(page, q), inbox \subseteq Leads, inbox' = inbox
  PROVE  ListInv' /\ WalkInv'
  <1>1. ~OnList' /\ flight' = None /\ walk' = NoWalk /\ query' = q /\ result' = None
    BY DEF Mount, OnList
  <1>2. PageIsEmpty'
    BY DEF Mount, PageIsEmpty
  <1>3. ListShapes' /\ FlightFits' /\ WalkInv'
    BY <1>1 DEF ListShapes, FlightFits, WalkInv, NoWalk
  <1> QED
    BY <1>2, <1>3 DEF ListInv

\* Steps that leave the page of the lead alone.
LEMMA PageStays ==
  ASSUME PageIsEmpty, UNCHANGED <<at, lead, deleting, doing, loads>>
  PROVE  PageIsEmpty'
  BY DEF PageIsEmpty

\* What the page of a lead does is done on it.
LEMMA PageSteps ==
  ASSUME PageIsEmpty, at' = at, at = "lead"
  PROVE  PageIsEmpty'
  BY DEF PageIsEmpty

\* The list page and its request stay; an error is forgotten off the page only.
LEMMA ListStays ==
  ASSUME ListShapes, FlightFits, UNCHANGED <<at, shell, listPage>>,
         error' = error \/ error' = TRUE \/ at # "list", inbox' \subseteq Leads
  PROVE  ListShapes' /\ FlightFits'
  <1>1. UNCHANGED <<query, loading, result, flight, walk>>
    BY DEF listPage
  <1>2. ListShapes'
    BY <1>1 DEF ListShapes
  <1>3. FlightFits'
    BY <1>1 DEF FlightFits, OnList
  <1> QED
    BY <1>2, <1>3

\* Steps that leave the list and the leads alone.
LEMMA WalkStays ==
  ASSUME WalkInv, UNCHANGED <<query, flight, walk, result, inbox, files>>
  PROVE  WalkInv'
  <1>1. Selected(query)' = Selected(query)
    BY DEF Selected, Attached
  <1>2. \A l : Ahead(query, l)' = Ahead(query, l)
    BY <1>1 DEF Ahead, Precedes
  <1>3. Unmet' = Unmet
    BY DEF Unmet
  <1> QED
    BY <1>1, <1>2, <1>3 DEF WalkInv, AfterFirst, AfterPage

-----------------------------------------------------------------------------
(* The order of the list                                                     *)

\* Every list is finite.
LEMMA SelectedIsFinite ==
  ASSUME inbox \subseteq Leads, NEW q
  PROVE  IsFiniteSet(Selected(q))
  <1>1. Selected(q) \subseteq Leads
    BY DEF Selected
  <1> QED
    BY <1>1, ConsoleAssumption, FS_Subset

\* Only leads and attachments that come or go change a list.
LEMMA SelectedStays ==
  ASSUME UNCHANGED <<inbox, files>>, NEW q
  PROVE  Selected(q)' = Selected(q) /\ \A l : Ahead(q, l)' = Ahead(q, l)
  BY DEF Selected, Attached, Ahead, Precedes

\* A lead of the list has fewer leads before it than the list has leads.
LEMMA AheadIsLess ==
  ASSUME inbox \subseteq Leads, NEW q, NEW l \in Selected(q)
  PROVE  /\ Ahead(q, l) \in Nat /\ Cardinality(Selected(q)) \in Nat
         /\ Ahead(q, l) < Cardinality(Selected(q))
  <1> DEFINE B == {k \in Selected(q) : Precedes(q, k, l)}
  <1>1. IsFiniteSet(Selected(q))
    BY SelectedIsFinite
  <1>2. B \subseteq Selected(q) /\ l \notin B
    <2>1. l \in Leads /\ CreatedAt[l] \in Nat
      BY ConsoleAssumption DEF Selected
    <2>2. ~(CreatedAt[l] < CreatedAt[l]) /\ ~(CreatedAt[l] > CreatedAt[l])
      BY <2>1
    <2> QED
      BY <2>2 DEF Precedes
  <1>3. IsFiniteSet(B) /\ Cardinality(B) <= Cardinality(Selected(q)) /\ (Cardinality(B) = Cardinality(Selected(q)) => B = Selected(q))
    BY <1>1, <1>2, FS_Subset
  <1>4. Cardinality(B) \in Nat /\ Cardinality(Selected(q)) \in Nat
    BY <1>1, <1>3, FS_CardinalityType
  <1>5. Cardinality(B) # Cardinality(Selected(q))
    BY <1>2, <1>3
  <1> QED
    BY <1>3, <1>4, <1>5 DEF Ahead

\* As long as none drops out, others come before a lead or after it: it never
\* moves forward.
LEMMA AheadGrows ==
  ASSUME NEW q, NEW l, Selected(q) \subseteq Selected(q)', inbox' \subseteq Leads
  PROVE  Ahead(q, l) \in Nat /\ Ahead(q, l)' \in Nat /\ Ahead(q, l) <= Ahead(q, l)'
  <1> DEFINE B == {k \in Selected(q) : Precedes(q, k, l)}
             S == Selected(q)'
             C == {k \in S : Precedes(q, k, l)}
  <1>1. S \subseteq Leads
    BY DEF Selected
  <1>2. IsFiniteSet(C)
    BY <1>1, ConsoleAssumption, FS_Subset
  <1>3. B \subseteq C
    OBVIOUS
  <1>4. IsFiniteSet(B) /\ Cardinality(B) <= Cardinality(C)
    BY <1>2, <1>3, FS_Subset
  <1>5. Cardinality(B) \in Nat /\ Cardinality(C) \in Nat
    BY <1>2, <1>4, FS_CardinalityType
  <1>6. Ahead(q, l) = Cardinality(B)
    BY DEF Ahead
  <1>7. Ahead(q, l)' = Cardinality(C)
    BY DEF Ahead, Precedes
  <1> QED
    BY <1>4, <1>5, <1>6, <1>7

-----------------------------------------------------------------------------
(* The steps of the list                                                     *)

\* Every request that is sent is told from none.
LEMMA SentIsFlight ==
  ASSUME NEW q \in Queries
  PROVE  [query |-> q, phase |-> "sent"] \in Flights /\ [query |-> q, phase |-> "sent"] # None
  <1>1. [query |-> q, phase |-> "sent"] \in Flights
    BY DEF Flights
  <1> QED
    BY <1>1, ConsoleAssumption

\* What a request carries in each phase.
LEMMA PhaseShapes ==
  ASSUME ListShapes, flight # None
  PROVE  /\ flight.query \in Queries
         /\ flight.phase \in {"sent", "reading", "counted", "answered"}
         /\ flight.phase = "counted" => flight.total \in Nat
         /\ flight.phase = "answered" => flight.total \in Nat /\ flight.items \subseteq Leads
  BY DEF ListShapes, Flights

\* A walk that begins now has met nothing, and everything is before it.
LEMMA FreshWalkFits ==
  ASSUME inbox \subseteq Leads, NEW q \in Queries,
         query' = q, flight' = [query |-> q, phase |-> "sent"], walk' = FreshWalk(q),
         UNCHANGED <<inbox, files>>
  PROVE  WalkInv' /\ walk' \in [old : SUBSET Leads, met : SUBSET Leads, broken : BOOLEAN]
  <1>1. walk' \in [old : SUBSET Leads, met : SUBSET Leads, broken : BOOLEAN]
    BY DEF FreshWalk, NoWalk, Selected
  <1>2. CASE q.page # 1
    BY <1>1, <1>2 DEF WalkInv, FreshWalk, NoWalk
  <1>3. CASE q.page = 1
    <2>1. walk' = [old |-> Selected(q), met |-> {}, broken |-> FALSE]
      BY <1>3 DEF FreshWalk
    <2>2. Selected(query)' = Selected(q)
      BY SelectedStays DEF Selected, Attached
    <2>3. walk'.old \subseteq Selected(query)'
      BY <2>1, <2>2
    <2>4. (query'.page - 1) * PageSize = 0
      BY <1>3, ConsoleAssumption
    <2>5. ASSUME NEW l PROVE Ahead(query, l)' \in Nat
      <3>1. Ahead(q, l)' \in Nat
        BY AheadGrows, SelectedStays
      <3> QED
        BY <3>1 DEF Ahead, Selected, Attached, Precedes
    <2>6. AfterFirst((query.page - 1) * PageSize)'
      BY <2>4, <2>5 DEF AfterFirst
    <2>7. flight' # None /\ flight'.phase = "sent"
      BY SentIsFlight
    <2>8. flight'.phase \notin {"counted", "answered"}
      BY <2>7
    <2>9. WalkInv'
      BY <2>3, <2>6, <2>7, <2>8 DEF WalkInv
    <2> QED
      BY <1>1, <2>9
  <1> QED
    BY <1>1, <1>2, <1>3

\* A walk goes on to the next page of what is shown.
LEMMA NextPageFits ==
  ASSUME ListInv, WalkInv, NextPage
  PROVE  WalkInv'
  <1> DEFINE q == [query EXCEPT !.page = result.query.page + 1]
  <1>1. /\ q \in Queries /\ query' = q /\ flight' = [query |-> q, phase |-> "sent"]
        /\ UNCHANGED <<inbox, files>>
        /\ walk' = IF Settled THEN walk ELSE NoWalk
    BY DEF NextPage, ChangeQuery, server
  <1>2. CASE walk'.broken
    BY <1>2 DEF WalkInv
  <1>3. CASE ~walk'.broken
    <2>1. walk' = walk /\ ~walk.broken /\ flight = None
      BY <1>1, <1>3 DEF NoWalk, Settled
    <2>2. /\ result.query = query /\ walk.old \subseteq Selected(query)
          /\ \A l \in Unmet : Ahead(query, l) >= query.page * PageSize
      BY <2>1 DEF WalkInv
    <2>3. query \in [filter : Filters, page : 1..Cardinality(Inbox) + 1]
      BY DEF ListInv, ListShapes, Queries
    <2>4. query = [filter |-> query.filter, page |-> query.page]
      BY <2>3
    <2>5. q = [filter |-> query.filter, page |-> query.page + 1]
      BY <2>2, <2>4
    <2>6. query.page \in Int
      <3>1. Cardinality(Inbox) \in Nat
        BY ConsoleAssumption, FS_Subset, FS_CardinalityType
      <3> QED
        BY <2>3, <3>1
    <2> HIDE DEF q
    <2>7. query'.filter = query.filter /\ query'.page - 1 = query.page
      BY <1>1, <2>5, <2>6
    <2>8. Selected(query)' = Selected(query)
      BY <1>1, <2>7 DEF Selected, Attached
    <2>9. ASSUME NEW l PROVE Ahead(query, l)' = Ahead(query, l)
      BY <2>7, <2>8 DEF Ahead, Precedes
    <2>10. AfterFirst((query.page - 1) * PageSize)'
      BY <2>1, <2>2, <2>7, <2>9 DEF AfterFirst, Unmet
    <2>11. flight' # None /\ flight'.phase = "sent"
      BY <1>1, SentIsFlight
    <2> QED
      BY <2>1, <2>2, <2>8, <2>10, <2>11 DEF WalkInv
  <1> QED
    BY <1>1, <1>2, <1>3 DEF NoWalk

\* Another address is asked for.
LEMMA AskingKeeps ==
  ASSUME ListInv, WalkInv, Search \/ Follow \/ NextPage
  PROVE  ListInv' /\ WalkInv'
  <1>1. UNCHANGED <<at, shell, lead, deleting, doing, loads, inbox, files, result>> /\ OnList
    BY DEF Search, Follow, NextPage, ChangeQuery, shellVars, leadPage, server
  <1>2. PageIsEmpty'
    BY <1>1, PageStays DEF ListInv
  <1>3. CASE Search /\ repeated'
    <2>1. UNCHANGED <<query, flight, walk, result>> /\ loading'
      BY <1>3 DEF Search
    <2>2. ListShapes' /\ FlightFits'
      BY <1>1, <2>1 DEF ListInv, ListShapes, FlightFits, OnList
    <2>3. WalkInv'
      BY <1>1, <2>1, WalkStays
    <2> QED
      BY <1>2, <2>2, <2>3 DEF ListInv
  <1>4. CASE ~(Search /\ repeated')
    <2>1. PICK q \in Queries : /\ query' = q /\ flight' = [query |-> q, phase |-> "sent"]
                               /\ walk' = FreshWalk(q) \/ NextPage
      <3>1. CASE Search
        BY <1>4, <3>1, HomeIsQuery DEF Search, ChangeQuery
      <3>2. CASE Follow
        BY <3>2 DEF Follow, ChangeQuery
      <3>3. CASE NextPage
        BY <3>3 DEF NextPage, ChangeQuery
      <3> QED
        BY <3>1, <3>2, <3>3
    <2>2. flight' \in Flights /\ flight' # None /\ flight'.query = query'
      BY <2>1, SentIsFlight
    <2>3. WalkInv' /\ walk' \in [old : SUBSET Leads, met : SUBSET Leads, broken : BOOLEAN]
      <3>1. CASE NextPage
        <4>1. walk' = walk \/ walk' = NoWalk
          BY <3>1 DEF NextPage, ChangeQuery
        <4>2. walk' \in [old : SUBSET Leads, met : SUBSET Leads, broken : BOOLEAN]
          <5>1. walk \in [old : SUBSET Leads, met : SUBSET Leads, broken : BOOLEAN]
            BY DEF ListInv, ListShapes
          <5>2. NoWalk \in [old : SUBSET Leads, met : SUBSET Leads, broken : BOOLEAN]
            BY DEF NoWalk
          <5> QED
            BY <4>1, <5>1, <5>2
        <4> QED
          BY <3>1, <4>2, NextPageFits
      <3>2. CASE walk' = FreshWalk(q)
        BY <1>1, <2>1, <3>2, FreshWalkFits DEF ListInv, ListShapes
      <3> QED
        BY <2>1, <3>1, <3>2
    <2>4. ListShapes'
      BY <1>1, <2>1, <2>2, <2>3 DEF ListInv, ListShapes
    <2>5. FlightFits'
      BY <1>1, <2>2 DEF FlightFits, OnList
    <2> QED
      BY <1>2, <2>3, <2>4, <2>5 DEF ListInv
  <1> QED
    BY <1>3, <1>4

LEMMA SessionKnownFits ==
  ASSUME ListInv, WalkInv, SessionKnown
  PROVE  ListInv' /\ WalkInv'
  <1>1. UNCHANGED <<at, query, lead, deleting, doing, inbox, files, result>> /\ ~OnList
    BY DEF SessionKnown, OnList, server
  <1>2. PageIsEmpty'
    BY <1>1 DEF SessionKnown, ListInv, PageIsEmpty
  <1>3. query \in Queries /\ inbox \subseteq Leads
    BY DEF ListInv, ListShapes
  <1>4. CASE at = "list"
    <2>1. flight' = [query |-> query, phase |-> "sent"] /\ walk' = FreshWalk(query) /\ query' = query
      BY <1>4 DEF SessionKnown, FreshWalk
    <2>2. WalkInv' /\ walk' \in [old : SUBSET Leads, met : SUBSET Leads, broken : BOOLEAN]
      BY <1>1, <1>3, <2>1, FreshWalkFits
    <2>3. flight' \in Flights /\ flight' # None /\ flight'.query = query'
      BY <1>3, <2>1, SentIsFlight
    <2>4. ListShapes' /\ FlightFits'
      BY <1>1, <1>4, <2>2, <2>3 DEF ListInv, ListShapes, FlightFits, OnList, SessionKnown
    <2> QED
      BY <1>2, <2>2, <2>4 DEF ListInv
  <1>5. CASE at # "list"
    <2>1. flight' = None /\ walk' = NoWalk /\ ~OnList'
      BY <1>1, <1>5 DEF SessionKnown, OnList
    <2>2. ListShapes' /\ FlightFits' /\ WalkInv'
      BY <1>1, <2>1 DEF ListInv, ListShapes, FlightFits, WalkInv, NoWalk
    <2> QED
      BY <1>2, <2>2 DEF ListInv
  <1> QED
    BY <1>4, <1>5

\* The two statements of a listing, and the end of a request.
LEMMA ListingKeeps ==
  ASSUME ListInv, WalkInv, CountLeads \/ SelectPage \/ ListRefused
  PROVE  ListInv' /\ WalkInv'
  <1>1. /\ UNCHANGED <<at, shell, error, lead, deleting, doing, loads, inbox, files, query, loading, result, walk>>
        /\ flight # None
    BY DEF CountLeads, SelectPage, ListRefused, shellVars, leadPage, server
  <1>2. OnList /\ flight.query = query /\ query \in Queries /\ inbox \subseteq Leads
    BY <1>1 DEF ListInv, FlightFits, ListShapes
  <1>3. PageIsEmpty'
    BY <1>1, PageStays DEF ListInv
  <1>5. Selected(query)' = Selected(query)
    BY <1>1 DEF Selected, Attached
  <1>4. \A l : Ahead(query, l) \in Nat /\ Ahead(query, l)' = Ahead(query, l)
    <2>1. \A q, l : Ahead(q, l) \in Nat
      BY <1>1, <1>2, SelectedStays, AheadGrows
    <2>2. \A l : Ahead(query, l)' = Ahead(query, l)
      BY <1>1, <1>5 DEF Ahead, Precedes
    <2> QED
      BY <2>1, <2>2
  <1>6. Cardinality(Selected(query)) \in Nat
    BY <1>2, SelectedIsFinite, FS_CardinalityType
  <1>7. ASSUME flight' \in Flights, flight'.query = query PROVE ListShapes' /\ FlightFits' /\ flight' # None
    <2>1. flight' # None
      BY <1>7, ConsoleAssumption
    <2>2. ListShapes'
      BY <1>1, <1>7 DEF ListInv, ListShapes
    <2>3. FlightFits'
      BY <1>1, <1>2, <1>7, <2>1 DEF FlightFits, OnList
    <2> QED
      BY <2>1, <2>2, <2>3
  <1>8. CASE CountLeads
    <2>1. flight.phase = "sent" /\ flight' = [query |-> query, phase |-> "counted", total |-> Cardinality(Selected(query))]
      BY <1>2, <1>8 DEF CountLeads
    <2>2. flight' \in Flights
      BY <1>2, <1>6, <2>1 DEF Flights
    <2>3. WalkInv'
      BY <1>1, <1>4, <1>5, <1>7, <2>1, <2>2 DEF WalkInv, AfterFirst, Unmet
    <2> QED
      BY <1>3, <1>7, <2>1, <2>2, <2>3 DEF ListInv
  <1>9. CASE SelectPage
    <2>1. /\ flight.phase = "counted"
          /\ flight' = [query |-> query, phase |-> "answered", total |-> flight.total, items |-> PageOf(query)]
      BY <1>2, <1>9 DEF SelectPage
    <2>2. PageOf(query) \subseteq Leads /\ flight.total \in Nat
      BY <1>1, <1>2, <2>1, PhaseShapes DEF PageOf, Selected, ListInv
    <2>3. flight' \in Flights
      BY <1>2, <2>1, <2>2 DEF Flights
    <2>4. ASSUME ~walk.broken, NEW l \in Unmet, l \notin PageOf(query)
          PROVE  Ahead(query, l) >= query.page * PageSize /\ AfterPage(flight.total)
      <3>1. l \in Selected(query) /\ Ahead(query, l) >= (query.page - 1) * PageSize
        BY <1>1, <2>1, <2>4 DEF WalkInv, AfterFirst, Unmet
      <3>2. query.page * PageSize \in Int /\ (query.page - 1) * PageSize \in Int
        <4>1. Cardinality(Inbox) \in Nat
          BY ConsoleAssumption, FS_Subset, FS_CardinalityType
        <4>2. query.page \in Int
          BY <1>2, <4>1 DEF Queries
        <4> QED
          BY <4>2, ConsoleAssumption
      <3>3. ~(Ahead(query, l) < query.page * PageSize)
        BY <1>4, <2>4, <3>1, <3>2 DEF PageOf
      <3>4. Ahead(query, l) < flight.total
        BY <1>1, <1>2, <2>1, <2>4, <3>1, AheadIsLess DEF WalkInv
      <3> QED
        BY <1>4, <2>2, <3>2, <3>3, <3>4 DEF AfterPage
    <2>5. WalkInv'
      <3>1. ASSUME ~walk.broken, NEW l \in (Unmet \ flight.items)'
            PROVE  Ahead(query, l)' >= (query.page * PageSize)' /\ AfterPage(flight.total)'
        BY <1>1, <1>4, <2>1, <2>4, <3>1 DEF Unmet, AfterPage
      <3>2. flight' # None /\ flight'.phase = "answered"
        BY <1>7, <2>1, <2>3
      <3>3. ~walk.broken => walk'.old \subseteq Selected(query)'
        BY <1>1, <1>5 DEF WalkInv
      <3> QED
        BY <1>1, <3>1, <3>2, <3>3 DEF WalkInv
    <2> QED
      BY <1>3, <1>7, <2>1, <2>3, <2>5 DEF ListInv
  <1>10. CASE ListRefused
    <2>1. flight' = [query |-> query, phase |-> "reading"]
      BY <1>2, <1>10 DEF ListRefused
    <2>2. flight' \in Flights
      BY <1>2, <2>1 DEF Flights
    <2>3. WalkInv'
      BY <1>1, <1>5, <1>7, <2>1, <2>2 DEF WalkInv
    <2> QED
      BY <1>3, <1>7, <2>1, <2>2, <2>3 DEF ListInv
  <1> QED
    BY <1>8, <1>9, <1>10

\* A list arrives, or its request fails: then the walk is given up.
LEMMA ListEndKeeps ==
  ASSUME ListInv, WalkInv, ListArrives \/ ListFails
  PROVE  ListInv' /\ WalkInv'
  <1>1. UNCHANGED <<at, shell, lead, deleting, doing, loads, inbox, files, query>> /\ flight # None /\ flight' = None
    BY DEF ListArrives, ListFails, shellVars, leadPage, server
  <1>2. OnList /\ flight.query = query /\ query \in Queries /\ inbox \subseteq Leads
    BY <1>1 DEF ListInv, FlightFits, ListShapes
  <1>3. PageIsEmpty'
    BY <1>1, PageStays DEF ListInv
  <1>4. CASE ListArrives
    <2>1. /\ flight.phase = "answered"
          /\ result' = [query |-> query, total |-> flight.total, items |-> flight.items]
          /\ walk' = [walk EXCEPT !.met = walk.met \cup flight.items]
      BY <1>2, <1>4 DEF ListArrives
    <2>2. flight.total \in Nat /\ flight.items \subseteq Leads
      BY <1>1, <2>1, PhaseShapes DEF ListInv
    <2>3. walk \in [old : SUBSET Leads, met : SUBSET Leads, broken : BOOLEAN]
      BY DEF ListInv, ListShapes
    <2>4. walk' = [old |-> walk.old, met |-> walk.met \cup flight.items, broken |-> walk.broken]
      BY <2>1, <2>3
    <2>5. result' \in [query : Queries, total : Nat, items : SUBSET Leads]
      BY <1>2, <2>1, <2>2
    <2>6. walk' \in [old : SUBSET Leads, met : SUBSET Leads, broken : BOOLEAN]
      BY <2>2, <2>3, <2>4
    <2>7. ListShapes'
      BY <1>1, <1>2, <2>5, <2>6 DEF ListShapes
    <2>8. FlightFits'
      BY <1>1, <1>2, <2>1 DEF FlightFits, OnList
    <2>9. (Unmet)' = Unmet \ flight.items
      BY <2>4 DEF Unmet
    <2>10. WalkInv'
      <3> SUFFICES ASSUME ~walk'.broken PROVE WalkInv'
        BY DEF WalkInv
      <3>1. walk'.old \subseteq Selected(query)'
        BY <1>1, <2>4 DEF WalkInv, Selected, Attached
      <3>2. ASSUME NEW l \in Unmet' PROVE Ahead(query, l)' >= (query.page * PageSize)' /\ AfterPage(result.total)'
        <4>1. l \in Unmet \ flight.items /\ ~walk.broken
          BY <2>4, <2>9
        <4>2. Ahead(query, l) >= query.page * PageSize /\ AfterPage(flight.total)
          BY <1>1, <2>1, <4>1 DEF WalkInv
        <4>3. Ahead(query, l)' = Ahead(query, l)
          BY <1>1 DEF Ahead, Selected, Attached, Precedes
        <4> QED
          BY <1>1, <2>1, <4>2, <4>3 DEF AfterPage
      <3>3. result'.query = query'
        BY <1>1, <2>1
      <3> QED
        BY <1>1, <3>1, <3>2, <3>3 DEF WalkInv
    <2> QED
      BY <1>3, <2>7, <2>8, <2>10 DEF ListInv
  <1>5. CASE ListFails
    <2>1. error' = TRUE /\ walk' = NoWalk /\ result' = result
      BY <1>5 DEF ListFails
    <2>2. ListShapes' /\ FlightFits' /\ WalkInv'
      BY <1>1, <1>2, <2>1 DEF ListInv, ListShapes, FlightFits, OnList, WalkInv, NoWalk
    <2> QED
      BY <1>3, <2>2 DEF ListInv
  <1> QED
    BY <1>4, <1>5

\* On the page of a lead the list is as it was left: with nothing.
LEMMA OnTheLead ==
  ASSUME ListInv, WalkInv, at = "lead", UNCHANGED <<at, shell, listPage, inbox, files>>
  PROVE  ListInv' /\ WalkInv'
  <1>1. PageIsEmpty'
    BY PageSteps DEF ListInv
  <1>2. ListShapes' /\ FlightFits'
    BY ListStays DEF ListInv, ListShapes
  <1> QED
    BY <1>1, <1>2, WalkStays DEF ListInv, listPage

\* What is done on the page of a lead, answers included.
LEMMA LeadPageKeeps ==
  ASSUME ListInv, WalkInv,
         \/ \E k \in Loads : ServeLoad(k) \/ LoadArrives(k) \/ LoadFails(k)
         \/ \E k \in Reloads : ClickReload(k)
         \/ Type \/ Save \/ SaveSucceeds \/ AskDelete \/ CancelDelete \/ ConfirmDelete \/ ChangeFails
         \/ RemoveSucceeds /\ doing.what # Lead
  PROVE  ListInv' /\ WalkInv'
  <1>1. UNCHANGED <<at, shell, listPage, inbox, files>>
    BY DEF ServeLoad, LoadArrives, LoadFails, ClickReload, Type, Save, SaveSucceeds, AskDelete, CancelDelete,
           ConfirmDelete, ChangeFails, RemoveSucceeds, shellVars, server
  <1>2. at = "lead"
    <2>1. CASE \E k \in Loads : loads[k] # None
      BY <2>1 DEF ListInv, PageIsEmpty
    <2>2. CASE lead # None \/ deleting # None \/ doing # Idle
      BY <2>2 DEF ListInv, PageIsEmpty
    <2>3. CASE doing.op \in {"note", "delete"}
      BY <2>3 DEF ListInv, PageIsEmpty, Idle
    <2> QED
      BY <2>1, <2>2, <2>3 DEF ServeLoad, LoadArrives, LoadFails, ClickReload, Type, Save, SaveSucceeds, AskDelete,
           CancelDelete, ConfirmDelete, ChangeFails, RemoveSucceeds, Editable
  <1> QED
    BY <1>1, <1>2, OnTheLead

\* The server and everybody else: leads come and go, notes are replaced.
LEMMA ServerKeeps ==
  ASSUME ConsoleInv, ListInv, WalkInv,
         \/ \E m \in posted : ServeNote(m) \/ ServeDelete(m) \/ RequestLost(m)
         \/ Arrive \/ OthersDelete \/ OthersSave
  PROVE  ListInv' /\ WalkInv'
  <1>1. UNCHANGED <<at, shell, error, query, loading, result, flight, repeated, lead, deleting, loads>>
    BY DEF ServeNote, ServeDelete, RequestLost, Arrive, OthersDelete, OthersSave, shellVars, leadPage, listPage
  <1>2. inbox' \subseteq Leads
    BY ConsoleAssumption DEF ServeNote, ServeDelete, Delete, RequestLost, Arrive, OthersDelete, OthersSave, ListInv, ListShapes, server
  <1>3. PageIsEmpty'
    <2>1. CASE doing' = doing
      BY <1>1, <2>1, PageStays DEF ListInv
    <2>2. CASE doing' # doing
      <3>1. PICK m \in posted : ServeNote(m) \/ ServeDelete(m)
        BY <2>2 DEF RequestLost, Arrive, OthersDelete, OthersSave, leadPage
      <3>2. m.waited /\ m.op \in {"note", "delete"}
        BY <2>2, <3>1 DEF ServeNote, ServeDelete, Hears
      <3>3. doing.op \in {"note", "delete"}
        BY <3>2 DEF ConsoleInv, OneWaited
      <3>4. at = "lead"
        BY <3>3 DEF ListInv, PageIsEmpty, Idle
      <3> QED
        BY <1>1, <3>4, PageSteps DEF ListInv
    <2> QED
      BY <2>1, <2>2
  <1>4. walk' = walk \/ walk' = NoWalk
    BY DEF ServeNote, ServeDelete, RequestLost, Arrive, OthersDelete, OthersSave, KeepWalk, listPage
  <1>5. ListShapes'
    <2>1. walk \in [old : SUBSET Leads, met : SUBSET Leads, broken : BOOLEAN]
      BY DEF ListInv, ListShapes
    <2>2. NoWalk \in [old : SUBSET Leads, met : SUBSET Leads, broken : BOOLEAN]
      BY DEF NoWalk
    <2>3. walk' \in [old : SUBSET Leads, met : SUBSET Leads, broken : BOOLEAN]
      BY <1>4, <2>1, <2>2
    <2> QED
      BY <1>1, <1>2, <2>3 DEF ListInv, ListShapes
  <1>6. FlightFits'
    BY <1>1, <1>4 DEF ListInv, FlightFits, OnList, NoWalk
  <1>7. WalkInv'
    <2>1. CASE walk' = NoWalk
      BY <2>1 DEF WalkInv, NoWalk
    <2>2. CASE walk' = walk /\ walk' # NoWalk /\ ~walk.broken
      <3>1. WalkGoesOn
        <4>1. CASE UNCHANGED <<inbox, files>>
          BY <1>1, <4>1 DEF WalkGoesOn, Selected, Attached
        <4>2. CASE KeepWalk
          BY <2>2, <4>2 DEF KeepWalk
        <4> QED
          BY <4>1, <4>2 DEF ServeNote, ServeDelete, RequestLost, Arrive, OthersDelete, OthersSave, server
      <3>2. ASSUME NEW l PROVE Ahead(query, l) \in Nat /\ Ahead(query, l)' \in Nat /\ Ahead(query, l) <= Ahead(query, l)'
        <4>1. PICK q : q = query
          OBVIOUS
        <4>2. Selected(q) = Selected(query) /\ Selected(q)' = Selected(query)'
          BY <1>1, <4>1 DEF Selected, Attached
        <4>3. Ahead(q, l) \in Nat /\ Ahead(q, l)' \in Nat /\ Ahead(q, l) <= Ahead(q, l)'
          BY <1>2, <3>1, <4>2, AheadGrows DEF WalkGoesOn
        <4>4. Ahead(q, l) = Ahead(query, l) /\ Ahead(q, l)' = Ahead(query, l)'
          BY <1>1, <4>1, <4>2 DEF Ahead, Precedes
        <4> QED
          BY <4>3, <4>4
      <3>3. Selected(query) \subseteq Selected(query)'
        BY <3>1 DEF WalkGoesOn
      <3>4. Unmet' = Unmet
        BY <2>2 DEF Unmet
      <3>5. query.page * PageSize \in Int /\ (query.page - 1) * PageSize \in Int
        <4>1. Cardinality(Inbox) \in Nat
          BY ConsoleAssumption, FS_Subset, FS_CardinalityType
        <4>2. query.page \in Int
          BY <4>1 DEF Queries, ListInv, ListShapes
        <4> QED
          BY <4>2, ConsoleAssumption
      <3>6. walk'.old \subseteq Selected(query)'
        BY <2>2, <3>3 DEF WalkInv
      <3>7. flight # None /\ flight.phase \in {"sent", "counted"} => AfterFirst((query.page - 1) * PageSize)'
        <4> SUFFICES ASSUME flight # None, flight.phase \in {"sent", "counted"}, NEW l \in Unmet
                     PROVE  Ahead(query, l)' >= (query.page - 1) * PageSize
          BY <1>1, <3>4 DEF AfterFirst
        <4>1. Ahead(query, l) >= (query.page - 1) * PageSize
          BY <2>2 DEF WalkInv, AfterFirst
        <4> QED
          BY <3>2, <3>5, <4>1
      <3>8. flight # None /\ flight.phase = "counted" => flight.total = Cardinality(Selected(query)')
        BY <1>1, <2>2, <3>1 DEF WalkInv, WalkGoesOn
      <3>9. flight # None /\ flight.phase = "answered" =>
              \A l \in Unmet \ flight.items : Ahead(query, l)' >= query.page * PageSize /\ AfterPage(flight.total)
        <4> SUFFICES ASSUME flight # None, flight.phase = "answered", NEW l \in Unmet \ flight.items
                     PROVE  Ahead(query, l)' >= query.page * PageSize /\ AfterPage(flight.total)
          OBVIOUS
        <4>1. Ahead(query, l) >= query.page * PageSize /\ AfterPage(flight.total)
          BY <2>2 DEF WalkInv
        <4> QED
          BY <3>2, <3>5, <4>1
      <3>10. flight = None =>
               /\ result.query = query
               /\ \A l \in Unmet : Ahead(query, l)' >= query.page * PageSize /\ AfterPage(result.total)
        <4> SUFFICES ASSUME flight = None
                     PROVE  /\ result.query = query
                            /\ \A l \in Unmet : Ahead(query, l)' >= query.page * PageSize /\ AfterPage(result.total)
          OBVIOUS
        <4>1. result.query = query /\ \A l \in Unmet : Ahead(query, l) >= query.page * PageSize /\ AfterPage(result.total)
          BY <2>2 DEF WalkInv
        <4> QED
          BY <3>2, <3>5, <4>1
      <3> QED
        BY <1>1, <3>4, <3>6, <3>7, <3>8, <3>9, <3>10 DEF WalkInv, AfterPage
    <2>3. CASE walk.broken
      BY <1>4, <2>3 DEF WalkInv, NoWalk
    <2> QED
      BY <1>4, <2>1, <2>2, <2>3
  <1> QED
    BY <1>3, <1>5, <1>6, <1>7 DEF ListInv

-----------------------------------------------------------------------------
(* The list's invariant and theorems                                         *)

LEMMA InitList == Init => ListInv /\ WalkInv
  <1> SUFFICES ASSUME Init PROVE ListInv /\ WalkInv
    OBVIOUS
  <1>1. PageIsEmpty
    BY DEF Init, PageIsEmpty
  <1>2. walk = NoWalk /\ walk.broken /\ walk \in [old : SUBSET Leads, met : SUBSET Leads, broken : BOOLEAN]
    BY DEF Init, NoWalk
  <1>3. inbox \subseteq Leads /\ query \in Queries /\ flight = None /\ result = None /\ ~OnList
    BY HomeIsQuery, ConsoleAssumption DEF Init, OnList
  <1>4. ListShapes /\ FlightFits /\ WalkInv
    BY <1>2, <1>3 DEF ListShapes, FlightFits, WalkInv
  <1> QED
    BY <1>1, <1>4 DEF ListInv

LEMMA ListKeeps == ConsoleInv /\ ListInv /\ WalkInv /\ [Next]_vars => ListInv' /\ WalkInv'
  <1> SUFFICES ASSUME ConsoleInv, ListInv, WalkInv, [Next]_vars PROVE ListInv' /\ WalkInv'
    OBVIOUS
  <1>0. inbox \subseteq Leads
    BY DEF ListInv, ListShapes
  <1>1. CASE Leave
    BY <1>0, <1>1, HomeIsQuery, MountIsFresh DEF Leave, server
  <1>2. CASE Login
    <2>1. CASE Mount(next, HomeQuery)
      BY <1>0, <1>2, <2>1, HomeIsQuery, MountIsFresh DEF Login, server
    <2>2. CASE ~Mount(next, HomeQuery)
      <3>1. UNCHANGED <<at, shell, listPage, inbox, files, lead, deleting, doing, loads>> /\ error' = TRUE
        BY <1>2, <2>2 DEF Login, shellVars, leadPage, server
      <3> QED
        BY <1>0, <3>1, PageStays, ListStays, WalkStays DEF ListInv, listPage
    <2> QED
      BY <2>1, <2>2
  <1>3. CASE SessionKnown
    BY <1>3, SessionKnownFits
  <1>4. CASE SessionRefused
    <2>1. CASE Mount("login", HomeQuery)
      BY <1>0, <1>4, <2>1, HomeIsQuery, MountIsFresh DEF SessionRefused, server
    <2>2. CASE ~Mount("login", HomeQuery)
      <3>1. /\ UNCHANGED <<at, error, listPage, inbox, files, lead, deleting, doing, loads>>
            /\ ~OnList /\ ~OnList'
        BY <1>4, <2>2 DEF SessionRefused, leadPage, server, OnList
      <3>2. PageIsEmpty' /\ WalkInv'
        BY <3>1, PageStays, WalkStays DEF ListInv, listPage
      <3>3. ListShapes' /\ FlightFits'
        BY <3>1 DEF ListInv, ListShapes, FlightFits, listPage
      <3> QED
        BY <3>2, <3>3 DEF ListInv
    <2> QED
      BY <2>1, <2>2
  <1>5. CASE Search \/ Follow \/ NextPage
    BY <1>5, AskingKeeps
  <1>6. CASE CountLeads \/ SelectPage \/ ListRefused
    BY <1>6, ListingKeeps
  <1>7. CASE ListArrives \/ ListFails
    BY <1>7, ListEndKeeps
  <1>8. CASE \/ \E k \in Loads : ServeLoad(k) \/ LoadArrives(k) \/ LoadFails(k)
             \/ \E k \in Reloads : ClickReload(k)
             \/ Type \/ Save \/ SaveSucceeds \/ AskDelete \/ CancelDelete \/ ConfirmDelete \/ ChangeFails
    BY <1>8, LeadPageKeeps
  <1>9. CASE RemoveSucceeds
    <2>1. CASE doing.what = Lead
      BY <1>0, <1>9, <2>1, HomeIsQuery, MountIsFresh DEF RemoveSucceeds, server
    <2>2. CASE doing.what # Lead
      BY <1>9, <2>2, LeadPageKeeps
    <2> QED
      BY <2>1, <2>2
  <1>10. CASE \/ \E m \in posted : ServeNote(m) \/ ServeDelete(m) \/ RequestLost(m)
              \/ Arrive \/ OthersDelete \/ OthersSave
    BY <1>10, ServerKeeps
  <1>11. CASE UNCHANGED vars
    <2>1. UNCHANGED <<at, shell, error, listPage, inbox, files, lead, deleting, doing, loads>>
      BY <1>11 DEF vars, shellVars, leadPage, server
    <2> QED
      BY <1>0, <2>1, PageStays, ListStays, WalkStays DEF ListInv, listPage
  <1> QED
    BY <1>1, <1>2, <1>3, <1>4, <1>5, <1>6, <1>7, <1>8, <1>9, <1>10, <1>11 DEF Next

\* What is asked, shown and still to come of the list: the inductive invariant.
THEOREM ListInvariant == Spec => [](ListInv /\ WalkInv)
  <1>1. ConsoleInv /\ ListInv /\ WalkInv /\ [Next]_vars => ListInv' /\ WalkInv'
    BY ListKeeps
  <1> QED
    BY <1>1, InitList, ConsoleInvariant, PTL DEF Spec

\* The page comes to rest with the list of the address it is at, whatever was
\* aborted, failed or asked again on the way.
THEOREM ListAlwaysFits == Spec => []ListFitsAddress
  <1>1. ListInv => ListFitsAddress
    BY DEF ListInv, FlightFits, ListFitsAddress, Settled, Shown
  <1> QED
    BY <1>1, ListInvariant, PTL

\* Paging to the end shows every lead that the search selected at the start, for
\* any leads coming in at any place of the order, any attachments deleted, any
\* filters and page size; unless a lead drops out of what the search selects on
\* the way, or that changes between the two statements of a listing.
THEOREM WalksMissNothing == Spec => []WalkMissesNothing
  <1>1. ListInv /\ WalkInv => WalkMissesNothing
    <2> SUFFICES ASSUME ListInv, WalkInv, Settled, Shown, result.query = query, ~Offered, ~walk.broken,
                        NEW l \in walk.old, l \notin walk.met
                 PROVE  FALSE
      BY DEF WalkMissesNothing
    <2>1. AfterPage(result.total)
      BY DEF WalkInv, Settled, Unmet
    <2> QED
      BY <2>1 DEF AfterPage, Offered
  <1> QED
    BY <1>1, ListInvariant, PTL

-----------------------------------------------------------------------------
(* The steps of the note                                                     *)

\* A new version leaves the older ones alone.
LogGrows == log' = log \/ \E t \in Notes : log' = Append(log, t)

LEMMA LogKeeps ==
  ASSUME LogShapes, LogGrows
  PROVE  LogShapes' /\ \A i \in 1..Len(log) : i \in 1..Len(log') /\ log'[i] = log[i]
  BY DEF LogShapes, LogGrows

LEMMA StoredStays ==
  ASSUME LogShapes, LogGrows, NEW v, Stored(v)
  PROVE  v.version \in 1..Len(log') /\ log'[v.version] = v.note
  BY LogKeeps DEF Stored

\* The server's note is stored under the number of the versions.
LEMMA SnapshotIsStored ==
  ASSUME LogShapes
  PROVE  Stored(Snapshot)
  <1>1. Len(log) \in 1..Len(log)
    BY DEF LogShapes
  <1> QED
    BY <1>1 DEF Stored, Snapshot, Last

LEMMA LeadStoredStays ==
  ASSUME LogShapes, LogGrows, LeadStored, lead' = lead
  PROVE  LeadStored'
  BY StoredStays DEF LeadStored, Stored

LEMMA LoadsStoredStay ==
  ASSUME LogShapes, LogGrows, LoadsStored, loads' = loads
  PROVE  LoadsStored'
  BY StoredStays DEF LoadsStored, Stored

\* One read sets out, is answered with what is stored, or ends.
LEMMA LoadsStoredChange ==
  ASSUME LoadsFit, LoadsStored, NEW k \in Loads, NEW v, loads' = [loads EXCEPT ![k] = v], log' = log,
         v # None /\ v.phase = "found" => Stored(v.lead)
  PROVE  LoadsStored'
  <1> SUFFICES ASSUME NEW j \in Loads, loads'[j] # None, loads'[j].phase = "found" PROVE Stored(loads'[j].lead)
    BY DEF LoadsStored, Stored
  <1>1. loads' = [i \in Loads |-> IF i = k THEN v ELSE loads[i]]
    BY DEF LoadsFit
  <1>2. CASE j = k
    BY <1>1, <1>2
  <1>3. CASE j # k
    BY <1>1, <1>3 DEF LoadsStored
  <1> QED
    BY <1>2, <1>3

LEMMA SavedStays ==
  ASSUME LogShapes, LogGrows, SavedFits, UNCHANGED <<lead, text, noteState, crossed>>
  PROVE  SavedFits'
  BY StoredStays DEF SavedFits, Stored

\* The note being saved and the answer to it stay while the log grows.
LEMMA SavingStays ==
  ASSUME LogShapes, LogGrows, SavingFits, doing' = doing, text' = text, crossed' = crossed
  PROVE  SavingFits'
  BY LogKeeps DEF SavingFits, AnswerStored

\* Steps of others: the page and what it is busy with stay, the log may grow.
LEMMA ApartKeeps ==
  ASSUME StoredInv, LogGrows, UNCHANGED <<lead, text, noteState, loads, doing, crossed>>, posted' \subseteq posted
  PROVE  StoredInv'
  <1>1. LogShapes' /\ LeadStored' /\ LoadsStored' /\ SavingFits' /\ SavedFits'
    BY LogKeeps, LeadStoredStays, LoadsStoredStay, SavingStays, SavedStays DEF StoredInv
  <1>2. \A m \in posted' : RequestFits(m)'
    BY DEF StoredInv, RequestFits
  <1> QED
    BY <1>1, <1>2 DEF StoredInv

\* Nobody waits for what an abandoned request carries.
LEMMA AbandonedFits ==
  ASSUME PostedFits, Abandon, \A m \in posted : RequestFits(m)
  PROVE  \A m \in posted' : RequestFits(m)'
  <1> SUFFICES ASSUME NEW n \in posted', n.op = "note" PROVE n.note \in Notes /\ n.waited = FALSE
    BY DEF RequestFits
  <1>1. PICK m \in posted : n = [m EXCEPT !.waited = FALSE]
    BY DEF Abandon
  <1>2. CASE PostedNote(m)
    <2>1. PICK t, v, w : m = [op |-> "note", note |-> t, version |-> v, waited |-> w]
      BY <1>2 DEF PostedNote
    <2>2. n = [op |-> "note", note |-> t, version |-> v, waited |-> FALSE] /\ m.op = "note" /\ m.note = t
      BY <1>1, <2>1
    <2> QED
      BY <2>2 DEF RequestFits
  <1>3. CASE PostedDelete(m)
    <2>1. PICK x, w : m = [op |-> "delete", what |-> x, waited |-> w]
      BY <1>3 DEF PostedDelete
    <2>2. n = [op |-> "delete", what |-> x, waited |-> FALSE]
      BY <1>1, <2>1
    <2> QED
      BY <2>2
  <1> QED
    BY <1>2, <1>3 DEF PostedFits

\* A fresh page holds no note.
LEMMA MountForgets ==
  ASSUME ConsoleInv, StoredInv, NEW page, NEW q, Mount(page, q), log' = log
  PROVE  StoredInv'
  <1>1. \A m \in posted' : RequestFits(m)'
    BY AbandonedFits DEF ConsoleInv, StoredInv, Mount
  <1>2. LogShapes' /\ (text \in Notes)' /\ LeadStored' /\ SavingFits' /\ SavedFits'
    BY DEF StoredInv, LogShapes, Mount, Notes, LeadStored, SavingFits, SavedFits, Idle
  <1>3. LoadsStored'
    BY DEF Mount, LoadsStored
  <1> QED
    BY <1>1, <1>2, <1>3 DEF StoredInv

\* A read ends, with a lead or without; k is the one.
LEMMA LoadEndStores ==
  ASSUME ConsoleInv, StoredInv, NEW k \in Loads, LoadArrives(k) \/ LoadFails(k)
  PROVE  StoredInv'
  <1>1. /\ loads[k] # None /\ loads' = [loads EXCEPT ![k] = None]
        /\ doing' = (IF k = "refresh" THEN Idle ELSE doing) /\ log' = log /\ posted' = posted
    BY DEF LoadArrives, LoadFails, server
  <1>2. doing'.op = "note" => doing' = doing
    BY <1>1 DEF Idle
  <1>3. LogShapes' /\ LoadsStored'
    BY <1>1, LoadsStoredChange DEF StoredInv, LogShapes, ConsoleInv
  <1>4. \A m \in posted' : RequestFits(m)'
    <2>1. CASE doing' = doing
      BY <1>1, <2>1 DEF StoredInv, RequestFits
    <2>2. CASE doing' # doing
      <3>1. doing.op = "refresh"
        BY <1>1, <2>2 DEF ConsoleInv, RefreshFits
      <3>2. \A m \in posted : m.waited = FALSE
        BY <3>1, IdleWaitsForNone
      <3> QED
        BY <1>1, <3>2 DEF StoredInv, RequestFits
    <2> QED
      BY <2>1, <2>2
  <1>5. CASE LoadArrives(k)
    <2>1. Stored(lead') /\ text' = lead'.note /\ crossed' = (crossed \/ doing.op = "note")
      BY <1>5 DEF LoadArrives, StoredInv, LoadsStored
    <2>2. text' \in Notes /\ LeadStored'
      BY <1>1, <2>1 DEF Stored, StoredInv, LogShapes, LeadStored
    <2>3. SavingFits'
      BY <1>1, <1>2, <2>1 DEF StoredInv, SavingFits, AnswerStored
    <2>4. SavedFits'
      BY <1>1, <2>1 DEF SavedFits, Stored
    <2> QED
      BY <1>3, <1>4, <2>2, <2>3, <2>4 DEF StoredInv
  <1>6. CASE LoadFails(k)
    <2>1. UNCHANGED <<lead, text, noteState, crossed>>
      BY <1>6 DEF LoadFails
    <2>2. LeadStored' /\ SavedFits'
      BY <1>1, <2>1 DEF StoredInv, LeadStored, SavedFits, Stored
    <2>3. SavingFits' /\ text' \in Notes
      BY <1>1, <1>2, <2>1 DEF StoredInv, SavingFits, AnswerStored
    <2> QED
      BY <1>3, <1>4, <2>2, <2>3 DEF StoredInv
  <1> QED
    BY <1>5, <1>6

\* A read sets out or is answered, and clicks that change no note.
LEMMA ClicksKeepNote ==
  ASSUME ConsoleInv, StoredInv,
         \/ \E k \in Loads : ServeLoad(k)
         \/ \E k \in Reloads : ClickReload(k)
         \/ SessionKnown \/ AskDelete \/ CancelDelete
  PROVE  StoredInv'
  <1>1. UNCHANGED <<lead, text, noteState, doing, crossed, posted, log>>
    BY DEF ServeLoad, ClickReload, SessionKnown, AskDelete, CancelDelete, server
  <1>2. LogShapes' /\ LeadStored' /\ SavingFits' /\ SavedFits'
    BY <1>1, LogKeeps, LeadStoredStays, SavingStays, SavedStays DEF StoredInv, LogGrows
  <1>3. \A m \in posted' : RequestFits(m)'
    BY <1>1 DEF StoredInv, RequestFits
  <1>4. LoadsStored'
    <2>1. CASE loads' = loads
      BY <1>1, <2>1, LoadsStoredStay DEF StoredInv, LogGrows
    <2>2. ASSUME NEW k \in Loads, loads' = [loads EXCEPT ![k] = [phase |-> "sent"]] PROVE LoadsStored'
      BY <1>1, <2>2, LoadsStoredChange DEF ConsoleInv, StoredInv
    <2>3. ASSUME NEW k \in Loads, ServeLoad(k) PROVE LoadsStored'
      BY <1>1, <2>3, SnapshotIsStored, LoadsStoredChange DEF ConsoleInv, StoredInv, ServeLoad
    <2>4. "opening" \in Loads /\ \A k \in Reloads : k \in Loads
      BY DEF Loads
    <2> QED
      BY <2>1, <2>2, <2>3, <2>4 DEF ClickReload, SessionKnown, AskDelete, CancelDelete
  <1> QED
    BY <1>1, <1>2, <1>3, <1>4 DEF StoredInv

LEMMA TypingKeepsNote ==
  ASSUME ConsoleInv, StoredInv, Type
  PROVE  StoredInv'
  <1>1. UNCHANGED <<lead, loads, doing, crossed, posted, log>> /\ text' \in Notes /\ doing = Idle /\ noteState' = "Changed"
    BY DEF Type, NotBusy, server, Notes
  <1>2. LogShapes' /\ LeadStored' /\ LoadsStored'
    BY <1>1, LogKeeps, LeadStoredStays, LoadsStoredStay DEF StoredInv, LogGrows
  <1>3. SavingFits' /\ SavedFits'
    BY <1>1 DEF SavingFits, SavedFits, Idle
  <1>4. \A m \in posted' : RequestFits(m)'
    BY <1>1 DEF StoredInv, RequestFits
  <1> QED
    BY <1>1, <1>2, <1>3, <1>4 DEF StoredInv

LEMMA SendingKeepsNote ==
  ASSUME ConsoleInv, StoredInv, Save \/ ConfirmDelete
  PROVE  StoredInv'
  <1>1. UNCHANGED <<lead, text, loads, log>> /\ doing = Idle
    BY DEF Save, ConfirmDelete, NotBusy, server
  <1>2. \A m \in posted : m.waited = FALSE
    BY <1>1, IdleWaitsForNone DEF Idle
  <1>3. LogShapes' /\ LeadStored' /\ LoadsStored'
    BY <1>1, LogKeeps, LeadStoredStays, LoadsStoredStay DEF StoredInv, LogGrows
  <1>4. CASE Save
    <2>1. /\ doing' = [op |-> "note", note |-> text, lead |-> lead, answer |-> 0] /\ noteState' = "Saving"
          /\ posted' = posted \cup {[op |-> "note", note |-> text, version |-> lead.version, waited |-> TRUE]}
      BY <1>4 DEF Save
    <2>2. SavingFits' /\ SavedFits'
      BY <1>1, <2>1 DEF SavingFits, AnswerStored, SavedFits
    <2>3. \A m \in posted' : RequestFits(m)'
      BY <1>1, <1>2, <2>1 DEF StoredInv, RequestFits
    <2> QED
      BY <1>1, <1>3, <2>2, <2>3 DEF StoredInv
  <1>5. CASE ConfirmDelete
    <2>1. /\ doing' = [op |-> "delete", what |-> deleting, answer |-> 0] /\ UNCHANGED <<noteState, crossed>>
          /\ posted' = posted \cup {[op |-> "delete", what |-> deleting, waited |-> TRUE]}
      BY <1>5 DEF ConfirmDelete
    <2>2. SavingFits' /\ SavedFits'
      BY <1>1, <2>1, SavedStays DEF SavingFits, StoredInv, LogGrows
    <2>3. \A m \in posted' : RequestFits(m)'
      BY <1>1, <1>2, <2>1 DEF StoredInv, RequestFits
    <2> QED
      BY <1>1, <1>3, <2>2, <2>3 DEF StoredInv
  <1> QED
    BY <1>4, <1>5

\* The answer is merged into the lead as it was when the note was sent.
LEMMA SavedKeepsNote ==
  ASSUME ConsoleInv, StoredInv, SaveSucceeds
  PROVE  StoredInv'
  <1>1. /\ UNCHANGED <<text, loads, crossed, posted, log>> /\ doing' = Idle /\ noteState' = "Saved"
        /\ lead' = [doing.lead EXCEPT !.note = doing.note, !.version = doing.answer]
        /\ doing.op = "note" /\ doing.answer # 0
    BY DEF SaveSucceeds, server
  <1>2. Kept(doing.lead)
    BY <1>1, DoingShapes DEF ConsoleInv, DoingFits
  <1>3. PICK n, k, f : doing.lead = [note |-> n, version |-> k, files |-> f]
    BY <1>2 DEF Kept
  <1>4. lead' = [note |-> doing.note, version |-> doing.answer, files |-> f]
    <2>1. lead' = [[note |-> n, version |-> k, files |-> f] EXCEPT !.note = doing.note, !.version = doing.answer]
      BY <1>1, <1>3
    <2> QED
      BY <2>1
  <1>5. (text = doing.note \/ crossed) /\ doing.answer \in 1..Len(log) /\ log[doing.answer] = doing.note
    BY <1>1 DEF StoredInv, SavingFits, AnswerStored
  <1>6. LeadStored' /\ SavedFits' /\ SavingFits'
    BY <1>1, <1>4, <1>5 DEF LeadStored, Stored, SavedFits, SavingFits, Idle
  <1>7. LogShapes' /\ LoadsStored'
    BY <1>1, LogKeeps, LoadsStoredStay DEF StoredInv, LogGrows
  <1>8. \A m \in posted : m.waited = FALSE
    BY <1>1, IdleWaitsForNone
  <1>9. \A m \in posted' : RequestFits(m)'
    BY <1>1, <1>8 DEF StoredInv, RequestFits
  <1> QED
    BY <1>1, <1>6, <1>7, <1>9 DEF StoredInv

LEMMA EndingKeepsNote ==
  ASSUME ConsoleInv, StoredInv, ChangeFails \/ RemoveSucceeds
  PROVE  StoredInv'
  <1>1. CASE RemoveSucceeds /\ doing.what = Lead
    BY <1>1, MountForgets DEF RemoveSucceeds, server
  <1>2. CASE RemoveSucceeds /\ doing.what # Lead
    <2>1. /\ UNCHANGED <<lead, text, noteState, crossed, posted, log>> /\ doing' = [op |-> "refresh"]
          /\ loads' = [loads EXCEPT !["refresh"] = [phase |-> "sent"]]
      BY <1>2 DEF RemoveSucceeds, server
    <2>2. \A m \in posted : m.waited = FALSE
      BY <1>2, IdleWaitsForNone DEF RemoveSucceeds
    <2>3. LogShapes' /\ LeadStored' /\ SavedFits' /\ SavingFits'
      BY <2>1, LogKeeps, LeadStoredStays, SavedStays DEF StoredInv, LogGrows, SavingFits
    <2>4. LoadsStored'
      BY <2>1, RefreshIsLoad, LoadsStoredChange DEF ConsoleInv, StoredInv
    <2>5. \A m \in posted' : RequestFits(m)'
      BY <2>1, <2>2 DEF StoredInv, RequestFits
    <2> QED
      BY <2>1, <2>3, <2>4, <2>5 DEF StoredInv
  <1>3. CASE ChangeFails
    <2>1. /\ UNCHANGED <<lead, text, loads, crossed, log>> /\ doing' = Idle /\ Abandon
          /\ noteState' = noteState \/ noteState' = "Not saved"
      BY <1>3 DEF ChangeFails, server
    <2>2. LogShapes' /\ LeadStored' /\ LoadsStored' /\ SavingFits'
      BY <2>1, LogKeeps, LeadStoredStays, LoadsStoredStay DEF StoredInv, LogGrows, SavingFits, Idle
    <2>3. SavedFits'
      BY <2>1, SavedStays DEF StoredInv, LogGrows, SavedFits
    <2>4. \A m \in posted' : RequestFits(m)'
      BY <2>1, AbandonedFits DEF ConsoleInv, StoredInv
    <2> QED
      BY <2>1, <2>2, <2>3, <2>4 DEF StoredInv
  <1> QED
    BY <1>1, <1>2, <1>3

\* The server stores a note, and tells the page the version if it waits.
LEMMA ServeNoteStores ==
  ASSUME ConsoleInv, StoredInv, NEW m \in posted, ServeNote(m) \/ ServeDelete(m)
  PROVE  StoredInv'
  <1>1. UNCHANGED <<lead, text, noteState, loads, crossed>> /\ posted' \subseteq posted
    BY DEF ServeNote, ServeDelete
  <1>2. m.op = "note" => m.note \in Notes /\ (m.waited => m.note = doing.note)
    BY DEF StoredInv, RequestFits
  <1>3. LogGrows
    BY <1>2 DEF ServeNote, ServeDelete, LogGrows
  <1>4. CASE doing' = doing
    BY <1>1, <1>3, <1>4, ApartKeeps
  <1>5. CASE doing' # doing
    <2>1. m.waited /\ doing.op = m.op /\ \A n \in posted' : n.waited = FALSE
      <3>1. m.waited
        BY <1>5 DEF ServeNote, ServeDelete, Hears
      <3>2. \A n \in posted : n.waited \in BOOLEAN
        BY PostedShapes DEF ConsoleInv, PostedFits
      <3> QED
        BY <3>1, <3>2 DEF ConsoleInv, OneWaited, ServeNote, ServeDelete
    <2>2. LogShapes' /\ LeadStored' /\ LoadsStored' /\ SavedFits'
      BY <1>1, <1>3, LogKeeps, LeadStoredStays, LoadsStoredStay, SavedStays DEF StoredInv
    <2>3. \A n \in posted' : RequestFits(n)'
      BY <1>1, <2>1 DEF StoredInv, RequestFits
    <2>4. SavingFits'
      <3>1. CASE m.op = "note"
        <4>1. /\ log' = Append(log, m.note) /\ doing' = [doing EXCEPT !.answer = Len(log')]
              /\ log \in Seq(Notes) /\ m.note \in Notes /\ m.note = doing.note
          BY <1>2, <1>5, <2>1, <3>1 DEF ServeNote, ServeDelete, Hears, StoredInv, LogShapes
        <4>2. Len(log') \in 1..Len(log') /\ log'[Len(log')] = m.note
          BY <4>1
        <4>3. PICK t, v, a : doing = [op |-> "note", note |-> t, lead |-> v, answer |-> a]
          BY <2>1, <3>1, DoingShapes DEF ConsoleInv, DoingFits, SavingNote
        <4>4. doing' = [op |-> "note", note |-> t, lead |-> v, answer |-> Len(log')]
          BY <4>1, <4>3
        <4> QED
          BY <1>1, <2>1, <3>1, <4>1, <4>2, <4>3, <4>4 DEF StoredInv, SavingFits, AnswerStored
      <3>2. CASE m.op # "note"
        <4>1. doing' = [doing EXCEPT !.answer = 1] /\ doing.op = "delete"
          BY <1>5, <2>1, <3>2 DEF ServeNote, ServeDelete, Hears
        <4>2. PICK w, a : doing = [op |-> "delete", what |-> w, answer |-> a]
          BY <4>1, DoingShapes DEF ConsoleInv, DoingFits, Deleting
        <4>3. doing' = [op |-> "delete", what |-> w, answer |-> 1]
          BY <4>1, <4>2
        <4> QED
          BY <4>3 DEF SavingFits
      <3> QED
        BY <3>1, <3>2
    <2> QED
      BY <1>1, <2>2, <2>3, <2>4 DEF StoredInv
  <1> QED
    BY <1>4, <1>5

-----------------------------------------------------------------------------
(* The note's invariant and theorem                                          *)

LEMMA InitStored == Init => StoredInv
  <1> SUFFICES ASSUME Init PROVE StoredInv
    OBVIOUS
  <1>1. log = <<"">> /\ "" \in Notes /\ text = "" /\ noteState = "" /\ lead = None /\ doing = Idle /\ posted = {}
    BY DEF Init, Notes
  <1>2. LogShapes
    <2>1. ASSUME NEW t \in Notes PROVE <<t>> \in Seq(Notes) /\ <<t>> # <<>>
      OBVIOUS
    <2> QED
      BY <1>1, <2>1 DEF LogShapes
  <1>3. LoadsStored
    BY DEF Init, LoadsStored
  <1> QED
    BY <1>1, <1>2, <1>3 DEF StoredInv, LeadStored, SavingFits, SavedFits, Idle

LEMMA StoredKeeps == ConsoleInv /\ StoredInv /\ [Next]_vars => StoredInv'
  <1> SUFFICES ASSUME ConsoleInv, StoredInv, [Next]_vars PROVE StoredInv'
    OBVIOUS
  <1> DEFINE Apart == LogGrows /\ UNCHANGED <<lead, text, noteState, loads, doing, crossed>> /\ posted' \subseteq posted
  <1>0. ASSUME Apart PROVE StoredInv'
    BY <1>0, ApartKeeps
  <1>1. CASE Leave
    BY <1>1, MountForgets DEF Leave, server
  <1>2. CASE Login
    <2>1. (\E p, q : Mount(p, q) /\ log' = log) \/ Apart
      BY <1>2 DEF Login, leadPage, server, LogGrows
    <2> QED
      BY <1>0, <2>1, MountForgets
  <1>3. CASE SessionRefused
    <2>1. (\E p, q : Mount(p, q) /\ log' = log) \/ Apart
      BY <1>3 DEF SessionRefused, leadPage, server, LogGrows
    <2> QED
      BY <1>0, <2>1, MountForgets
  <1>4. CASE Search \/ Follow \/ NextPage \/ CountLeads \/ SelectPage \/ ListArrives \/ ListRefused \/ ListFails
    <2>1. Apart
      BY <1>4 DEF Search, Follow, NextPage, CountLeads, SelectPage, ListArrives, ListRefused, ListFails, leadPage, server, LogGrows
    <2> QED
      BY <1>0, <2>1
  <1>5. CASE \/ \E k \in Loads : ServeLoad(k)
             \/ \E k \in Reloads : ClickReload(k)
             \/ SessionKnown \/ AskDelete \/ CancelDelete
    BY <1>5, ClicksKeepNote
  <1>6. CASE \E k \in Loads : LoadArrives(k) \/ LoadFails(k)
    BY <1>6, LoadEndStores
  <1>7. CASE Type \/ Save \/ ConfirmDelete
    BY <1>7, TypingKeepsNote, SendingKeepsNote
  <1>8. CASE SaveSucceeds \/ ChangeFails \/ RemoveSucceeds
    BY <1>8, SavedKeepsNote, EndingKeepsNote
  <1>9. CASE \E m \in posted : ServeNote(m) \/ ServeDelete(m)
    BY <1>9, ServeNoteStores
  <1>10. CASE (\E m \in posted : RequestLost(m)) \/ Arrive \/ OthersDelete \/ OthersSave
    <2>1. Apart
      BY <1>10 DEF RequestLost, Arrive, OthersDelete, OthersSave, leadPage, server, LogGrows, Notes
    <2> QED
      BY <1>0, <2>1
  <1>11. CASE UNCHANGED vars
    <2>1. Apart
      BY <1>11 DEF vars, leadPage, server, LogGrows
    <2> QED
      BY <1>0, <2>1
  <1> QED
    BY <1>1, <1>2, <1>3, <1>4, <1>5, <1>6, <1>7, <1>8, <1>9, <1>10, <1>11 DEF Next

\* Where the notes come from that the page holds, sends and is answered: the
\* inductive invariant.
THEOREM StoredInvariant == Spec => []StoredInv
  BY InitStored, StoredKeeps, ConsoleInvariant, PTL DEF Spec

\* Beside "Saved" stands what the server stored under the version shown,
\* whatever reloads, other administrators and answers came in between.
THEOREM SavedIsAlwaysStored == Spec => []SavedIsStored
  <1>1. StoredInv => SavedIsStored
    BY DEF StoredInv, SavedFits, Stored, SavedIsStored
  <1> QED
    BY <1>1, StoredInvariant, PTL
=============================================================================
