----------------------------- MODULE AdminAccess -----------------------------
(***************************************************************************)
(* Administrator accounts and their sessions, and who changes them:        *)
(*   logins    admin_auth.login, in the API process (threads)              *)
(*   commands  admin_auth.manage and admin_bootstrap.bootstrap, each in a  *)
(*             process of its own, so with Argon2 slots of its own         *)
(*   calls     requests with a session cookie: admin_routes.authenticated, *)
(*             then, in another transaction, a logout or a note            *)
(* A login locks its account's row from its SELECT to its commit, through  *)
(* the slow password check; so does every command about one account.       *)
(***************************************************************************)
EXTENDS Integers, FiniteSets

CONSTANTS Admins,      \* usernames
          Passwords,
          Logins,      \* login requests; also the name of the session each may open
          Commands,    \* runs of the account tools
          Actions,     \* what those may do, a subset of ActionKinds
          Calls,       \* authenticated requests
          Slots,       \* password checks that may run at once in the API
          Faults       \* {"raise"} if a login or command may fail at any point, or {}

ActionKinds == {"create", "reset-password", "disable", "enable", "cleanup-sessions", "bootstrap"}
Actors == Logins \cup Commands \cup Calls

ASSUME ActorsAssumption ==
  /\ Logins \cap Commands = {} /\ Logins \cap Calls = {} /\ Commands \cap Calls = {}
  /\ Actions \subseteq ActionKinds
  /\ Slots \in Nat \ {0}
ASSUME ValuesAssumption == Admins # {} /\ Passwords # {}

VARIABLES
  account,        \* table admins
  session, aged,  \* table admin_sessions; the sessions past their expires_at
  note,           \* notes_version of a lead
  rowLock,        \* who has locked an account's row
  bootLock,       \* who holds the bootstrap's advisory lock
  slots,          \* logins that hold an Argon2 slot
  seen,           \* the account as a login in progress has read it
  missing,        \* the accounts a bootstrap in progress found missing
  unlooked,       \* and those it has still to look at
  tries, order,   \* what a login carries, what a command was asked
  based,          \* the notes_version a call has read
  uses,           \* the session a call presents
  pc, reply

tables == <<account, session, aged, note>>
locks == <<rowLock, bootLock, slots>>
read == <<seen, missing, unlooked>>
inputs == <<tries, order>>
vars == <<tables, locks, read, inputs, based, uses, pc, reply>>

Account(p, w) == [exists |-> TRUE, active |-> TRUE, password |-> p, weak |-> w]
AnyPassword == CHOOSE p \in Passwords : TRUE
Absent == [exists |-> FALSE, active |-> FALSE, password |-> AnyPassword, weak |-> FALSE]

\* What callers send; what a command does not take is any value.
Credentials == [name : Admins, password : Passwords]
AnyName == CHOOSE a \in Admins : TRUE
Named == {"create", "reset-password", "disable", "enable"}
Orders == {o \in [action : Actions, name : Admins, password : Passwords] :
             /\ o.action \in Named \/ o.name = AnyName
             /\ o.action \in {"create", "reset-password", "bootstrap"} \/ o.password = AnyPassword}
NoCredentials == [name |-> AnyName, password |-> AnyPassword]
NoOrder == [action |-> "none", name |-> AnyName, password |-> AnyPassword]

\* An installation: with accounts or without, some of them hashed under the
\* Argon2 parameters of an earlier release ("weak").
Init ==
  /\ account \in [Admins -> {Absent} \cup {Account(p, w) : p \in Passwords, w \in BOOLEAN}]
  /\ session = [l \in Logins |-> "none"] /\ aged = {} /\ note = 0
  /\ rowLock = [a \in Admins |-> {}] /\ bootLock = {} /\ slots = {}
  /\ seen = [l \in Logins |-> Absent] /\ missing = [c \in Commands |-> {}]
  /\ unlooked = [c \in Commands |-> {}]
  /\ tries = [l \in Logins |-> NoCredentials] /\ order = [c \in Commands |-> NoOrder]
  /\ based = [g \in Calls |-> 0] /\ uses = [g \in Calls |-> {}]
  /\ pc = [x \in Actors |-> "idle"]
  /\ reply = [x \in Actors |-> "none"]

Goto(x, p) == pc' = [pc EXCEPT ![x] = p]
Answer(x, a) == reply' = [reply EXCEPT ![x] = a]
RowFree(a) == rowLock[a] = {}

\* The transaction of x ends, committed or not, and x with it.
End(x, a) ==
  /\ seen' = [l \in Logins |-> IF l = x THEN Absent ELSE seen[l]]
  /\ missing' = [c \in Commands |-> IF c = x THEN {} ELSE missing[c]]
  /\ unlooked' = [c \in Commands |-> IF c = x THEN {} ELSE unlooked[c]]
  /\ rowLock' = [b \in Admins |-> rowLock[b] \ {x}]
  /\ bootLock' = bootLock \ {x}
  /\ slots' = slots \ {x}
  /\ Goto(x, "done") /\ Answer(x, a)

-----------------------------------------------------------------------------
(* login                                                                     *)

\* Mutant: the row is read without FOR UPDATE.
LoginLookUnlocked(l) ==
  /\ pc[l] = "idle"
  /\ \E k \in Credentials :
       /\ tries' = [tries EXCEPT ![l] = k]
       /\ seen' = [seen EXCEPT ![l] = account[k.name]]
  /\ Goto(l, "waiting")
  /\ UNCHANGED <<tables, locks, missing, unlooked, order, based, uses, reply>>

\* SELECT ... FOR UPDATE; an unknown name locks nothing and is checked
\* against a dummy hash, so it takes a slot as well.
LoginLook(l) ==
  /\ pc[l] = "idle"
  /\ \E k \in Credentials :
       /\ RowFree(k.name)
       /\ tries' = [tries EXCEPT ![l] = k]
       /\ rowLock' = IF account[k.name].exists THEN [rowLock EXCEPT ![k.name] = {l}] ELSE rowLock
       /\ seen' = [seen EXCEPT ![l] = account[k.name]]
  /\ Goto(l, "waiting")
  /\ UNCHANGED <<tables, bootLock, slots, missing, unlooked, order, based, uses, reply>>

LoginSlot(l) ==
  /\ Cardinality(slots) < Slots
  /\ slots' = slots \cup {l}
  /\ \/ pc[l] = "waiting" /\ Goto(l, "verifying")
     \/ pc[l] = "valid" /\ Goto(l, "rehashing")
  /\ UNCHANGED <<tables, rowLock, bootLock, read, inputs, based, uses, reply>>

Valid(l) == seen[l].exists /\ seen[l].password = tries[l].password

\* Mutant: the slot is still held when the rehash asks for one.
LoginVerifyHolding(l) ==
  /\ pc[l] = "verifying"
  /\ \/ /\ ~Valid(l) \/ ~seen[l].active
        /\ End(l, "denied")
     \/ /\ Valid(l) /\ seen[l].active
        /\ Goto(l, IF seen[l].weak THEN "valid" ELSE "opening")
        /\ UNCHANGED <<locks, read, reply>>
  /\ UNCHANGED <<tables, inputs, based, uses>>

\* The slot is given back; then the answer, a rehash, or the session.
LoginVerify(l) ==
  /\ pc[l] = "verifying"
  /\ \/ /\ ~Valid(l) \/ ~seen[l].active
        /\ End(l, "denied")
     \/ /\ Valid(l) /\ seen[l].active
        /\ slots' = slots \ {l}
        /\ Goto(l, IF seen[l].weak THEN "valid" ELSE "opening")
        /\ UNCHANGED <<rowLock, bootLock, read, reply>>
  /\ UNCHANGED <<tables, inputs, based, uses>>

LoginRehash(l) ==
  /\ pc[l] = "rehashing"
  /\ slots' = slots \ {l}
  /\ Goto(l, "opening")
  /\ UNCHANGED <<tables, rowLock, bootLock, read, inputs, based, uses, reply>>

\* One commit stores the new hash, if there is one, and the session.
LoginOpen(l) ==
  /\ pc[l] = "opening"
  /\ account' = IF seen[l].weak
                  THEN [account EXCEPT ![tries[l].name].password = tries[l].password,
                                       ![tries[l].name].weak = FALSE]
                  ELSE account
  /\ session' = [session EXCEPT ![l] = "live"]
  /\ End(l, "granted")
  /\ UNCHANGED <<aged, note, inputs, based, uses>>

-----------------------------------------------------------------------------
(* manage and bootstrap                                                      *)

SessionsOf(a) == {l \in Logins : tries[l].name = a /\ session[l] \in {"live", "revoked"}}

\* SELECT ... FOR UPDATE: an account that should not be there, or should.
CommandLook(c) ==
  /\ pc[c] = "idle"
  /\ \E o \in Orders :
       /\ o.action \in Named /\ RowFree(o.name)
       /\ order' = [order EXCEPT ![c] = o]
       /\ \/ /\ account[o.name].exists = (o.action = "create")
             /\ End(c, "refused")
          \/ /\ account[o.name].exists # (o.action = "create")
             /\ rowLock' = IF account[o.name].exists THEN [rowLock EXCEPT ![o.name] = {c}] ELSE rowLock
             /\ Goto(c, "changing")
             /\ UNCHANGED <<bootLock, slots, read, reply>>
  /\ UNCHANGED <<tables, tries, based, uses>>

\* Mutant: disabling an account leaves its sessions alone.
RevokesOnReset(c) == order[c].action = "reset-password"

\* Everything but "enable" revokes the sessions the statement can see.
Revokes(c) == order[c].action \in {"reset-password", "disable"}

CommandChange(c) ==
  /\ pc[c] = "changing" /\ order[c].action # "create"
  /\ LET a == order[c].name
     IN  /\ account' =
              CASE order[c].action = "reset-password" ->
                     [account EXCEPT ![a].password = order[c].password, ![a].weak = FALSE]
                [] order[c].action \in {"enable", "disable"} ->
                     [account EXCEPT ![a].active = (order[c].action = "enable")]
         /\ session' = [l \in Logins |->
              IF l \in SessionsOf(a) /\ Revokes(c) THEN "revoked" ELSE session[l]]
  /\ End(c, "changed")
  /\ UNCHANGED <<aged, note, inputs, based, uses>>

\* Nothing was locked: the unique username decides at the insert.
CommandCreate(c) ==
  /\ pc[c] = "changing" /\ order[c].action = "create"
  /\ LET a == order[c].name
     IN  \/ account[a].exists /\ End(c, "error") /\ UNCHANGED account
         \/ /\ ~account[a].exists
            /\ account' = [account EXCEPT ![a] = Account(order[c].password, FALSE)]
            /\ End(c, "changed")
  /\ UNCHANGED <<session, aged, note, inputs, based, uses>>

\* Mutant: whatever is not expired goes.
OutlivedInverted(l) == l \notin aged \/ session[l] = "revoked"

\* Expired or revoked.
Outlived(l) == l \in aged \/ session[l] = "revoked"

CleanupSessions(c) ==
  /\ pc[c] = "idle"
  /\ \E o \in Orders : o.action = "cleanup-sessions" /\ order' = [order EXCEPT ![c] = o]
  /\ session' = [l \in Logins |-> IF Outlived(l) THEN "none" ELSE session[l]]
  /\ End(c, "changed")
  /\ UNCHANGED <<account, aged, note, tries, based, uses>>

\* The advisory lock, which lets one bootstrap after the other ...
BootstrapLock(c) ==
  /\ pc[c] = "idle" /\ bootLock = {}
  /\ \E o \in Orders : o.action = "bootstrap" /\ order' = [order EXCEPT ![c] = o]
  /\ bootLock' = {c}
  /\ unlooked' = [unlooked EXCEPT ![c] = Admins]
  /\ Goto(c, "booting")
  /\ UNCHANGED <<tables, rowLock, slots, seen, missing, tries, based, uses, reply>>

\* ... then one look after the other, each at what is committed by then.
BootstrapLook(c) ==
  /\ pc[c] = "booting"
  /\ \E a \in unlooked[c] :
       /\ unlooked' = [unlooked EXCEPT ![c] = @ \ {a}]
       /\ missing' = IF account[a].exists THEN missing ELSE [missing EXCEPT ![c] = @ \cup {a}]
  /\ UNCHANGED <<tables, locks, seen, inputs, based, uses, pc, reply>>

\* Mutant: bootstrap gives every initial account its initial password.
BootstrapCreateAll(c) ==
  /\ pc[c] = "booting" /\ unlooked[c] = {}
  /\ account' = [a \in Admins |-> Account(order[c].password, FALSE)]
  /\ End(c, "changed")
  /\ UNCHANGED <<session, aged, note, inputs, based, uses>>

\* They are created, all or none: the unique username decides here as well.
BootstrapCreate(c) ==
  /\ pc[c] = "booting" /\ unlooked[c] = {}
  /\ \/ /\ \E a \in missing[c] : account[a].exists
        /\ End(c, "error") /\ UNCHANGED account
     \/ /\ \A a \in missing[c] : ~account[a].exists
        /\ account' = [a \in Admins |->
             IF a \in missing[c] THEN Account(order[c].password, FALSE) ELSE account[a]]
        /\ End(c, "changed")
  /\ UNCHANGED <<session, aged, note, inputs, based, uses>>

-----------------------------------------------------------------------------
(* Authenticated requests                                                    *)

Usable(l) == session[l] = "live" /\ l \notin aged /\ account[tries[l].name].active

\* An administrator who signed in opens a lead ...
ReadNote(g) ==
  /\ pc[g] = "idle"
  /\ \E l \in Logins : reply[l] = "granted" /\ uses' = [uses EXCEPT ![g] = {l}]
  /\ based' = [based EXCEPT ![g] = note]
  /\ Goto(g, "asking")
  /\ UNCHANGED <<tables, locks, read, inputs, reply>>

\* ... and later saves a note or signs out: the session is looked up first,
Identify(g) ==
  /\ pc[g] = "asking"
  /\ \E l \in uses[g] :
       IF Usable(l) THEN Goto(g, "acting") /\ UNCHANGED reply
                    ELSE Goto(g, "done") /\ Answer(g, "unauthorized")
  /\ UNCHANGED <<tables, locks, read, inputs, based, uses>>

\* Mutant: the version counts down.
SaveNoteBackwards(g) ==
  /\ pc[g] = "acting"
  /\ \/ note = based[g] /\ note' = note - 1 /\ Answer(g, "saved")
     \/ note # based[g] /\ Answer(g, "conflict") /\ UNCHANGED note
  /\ Goto(g, "done")
  /\ UNCHANGED <<account, session, aged, locks, read, inputs, based, uses>>

\* Mutant: the version is not part of the UPDATE's condition.
SaveNoteBlindly(g) ==
  /\ pc[g] = "acting"
  /\ note' = note + 1
  /\ Goto(g, "done") /\ Answer(g, "saved")
  /\ UNCHANGED <<account, session, aged, locks, read, inputs, based, uses>>

\* then the note is written, if its version is still the one that was read ...
SaveNote(g) ==
  /\ pc[g] = "acting"
  /\ \/ note = based[g] /\ note' = note + 1 /\ Answer(g, "saved")
     \/ note # based[g] /\ Answer(g, "conflict") /\ UNCHANGED note
  /\ Goto(g, "done")
  /\ UNCHANGED <<account, session, aged, locks, read, inputs, based, uses>>

\* ... or the session is revoked.
Logout(g) ==
  /\ pc[g] = "acting"
  /\ session' = [l \in Logins |-> IF l \in uses[g] /\ session[l] = "live" THEN "revoked" ELSE session[l]]
  /\ Goto(g, "done") /\ Answer(g, "left")
  /\ UNCHANGED <<account, aged, note, locks, read, inputs, based, uses>>

-----------------------------------------------------------------------------

\* expires_at passes.
Expire(l) ==
  /\ session[l] = "live" /\ l \notin aged
  /\ aged' = aged \cup {l}
  /\ UNCHANGED <<account, session, note, locks, read, inputs, based, uses, pc, reply>>

\* A login or command is rolled back: an error, or its process is killed.
Fail(x) ==
  /\ "raise" \in Faults
  /\ pc[x] \notin {"idle", "done"}
  /\ End(x, "error")
  /\ UNCHANGED <<tables, inputs, based, uses>>

Rest ==
  /\ \A x \in Actors : pc[x] = "done" \/ (x \in Calls /\ pc[x] = "idle")
  /\ UNCHANGED vars

LoginStep(l) == LoginLook(l) \/ LoginSlot(l) \/ LoginVerify(l) \/ LoginRehash(l) \/ LoginOpen(l)
CommandStep(c) == CommandLook(c) \/ CommandChange(c) \/ CommandCreate(c) \/ CleanupSessions(c)
                  \/ BootstrapLock(c) \/ BootstrapLook(c) \/ BootstrapCreate(c)
CallStep(g) == Identify(g) \/ SaveNote(g) \/ Logout(g)

Next ==
  \/ \E l \in Logins : LoginStep(l) \/ Expire(l)
  \/ \E c \in Commands : CommandStep(c)
  \/ \E g \in Calls : ReadNote(g) \/ CallStep(g)
  \/ \E x \in Logins \cup Commands : Fail(x)
  \/ Rest

Spec == Init /\ [][Next]_vars

-----------------------------------------------------------------------------
(* Properties                                                                *)

\* Every variable keeps its type.
TypeOK ==
  /\ account \in [Admins -> [exists : BOOLEAN, active : BOOLEAN, password : Passwords, weak : BOOLEAN]]
  /\ session \in [Logins -> {"none", "live", "revoked"}] /\ aged \subseteq Logins
  /\ note \in Nat
  /\ rowLock \in [Admins -> SUBSET Actors] /\ bootLock \subseteq Commands /\ slots \subseteq Logins
  /\ seen \in [Logins -> [exists : BOOLEAN, active : BOOLEAN, password : Passwords, weak : BOOLEAN]]
  /\ missing \in [Commands -> SUBSET Admins] /\ unlooked \in [Commands -> SUBSET Admins]
  /\ tries \in [Logins -> Credentials] /\ order \in [Commands -> Orders \cup {NoOrder}]
  /\ based \in [Calls -> Nat] /\ uses \in [Calls -> SUBSET Logins]
  /\ pc \in [Actors -> {"idle", "waiting", "verifying", "valid", "rehashing", "opening", "changing", "booting",
                        "asking", "acting", "done"}]
  /\ reply \in [Actors -> {"none", "denied", "granted", "refused", "changed", "error",
                           "unauthorized", "saved", "conflict", "left"}]

\* "Disable and reset-password revoke all sessions" (docs/operations/admin.md:25),
\* also those of a login that was checking the old password meanwhile: a live
\* session belongs to an active account and was opened with its present password.
LiveSessionsAreCurrent ==
  \A l \in Logins : session[l] = "live" =>
    LET a == account[tries[l].name]
    IN  a.exists /\ a.active /\ a.password = tries[l].password

\* "Existing passwords never change" (admin_bootstrap.py:1): neither bootstrap nor
\* the rehash of a login changes what an account's password is, only a reset does.
OnlyResetChangesPassword ==
  [][\A a \in Admins : account[a].exists /\ account'[a].password # account[a].password =>
       \E c \in Commands : /\ order[c].action = "reset-password" /\ order[c].name = a
                           /\ reply[c] = "none" /\ reply'[c] = "changed"]_vars

\* An administrator is never signed out for nothing: a session that is live and
\* not expired ends by its own logout or by a reset or disable of its account.
SessionsEndForAReason ==
  [][\A l \in Logins : session[l] = "live" /\ l \notin aged /\ session'[l] # "live" =>
       \/ \E g \in Calls : l \in uses[g] /\ reply[g] = "none" /\ reply'[g] = "left"
       \/ \E c \in Commands : /\ order[c].name = tries[l].name /\ Revokes(c)
                              /\ reply[c] = "none" /\ reply'[c] = "changed"]_vars

\* "Another administrator changed this note" (admin_service.py:85): no saved note
\* overwrites one its author had not read.
NoLostNote ==
  \A g, h \in Calls : g # h /\ reply[g] = "saved" /\ reply[h] = "saved" => based[g] # based[h]

\* "Verification has released the bounded Argon2 slot before rehashing"
\* (admin_auth.py:57): row locks, the advisory lock and the slots are never all
\* held by logins and commands that wait for one another.
NobodyStuck ==
  (\E x \in Logins \cup Commands : pc[x] # "done") =>
    \/ \E l \in Logins : ENABLED LoginStep(l)
    \/ \E c \in Commands : ENABLED CommandStep(c)
=============================================================================
