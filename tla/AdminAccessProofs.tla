-------------------------- MODULE AdminAccessProofs --------------------------
(***************************************************************************)
(* What the row locks of AdminAccess achieve, for any number of accounts,  *)
(* logins, commands, calls and password slots, and with any of them        *)
(* failing: what a login has read of its account stays true until it       *)
(* commits, so no session is ever opened on a password or an account that  *)
(* a reset or a disable has taken away meanwhile.                          *)
(***************************************************************************)
EXTENDS AdminAccess, FiniteSetTheorems, TLAPS

Accounts == [exists : BOOLEAN, active : BOOLEAN, password : Passwords, weak : BOOLEAN]
Checking == {"waiting", "verifying", "valid", "rehashing", "opening"}

\* A row has at most one holder.
OneHolder == \A a \in Admins : \A x, y \in rowLock[a] : x = y

\* A login that has read an existing account holds its row and has its present value.
ReadsHold == \A l \in Logins : pc[l] \in Checking /\ seen[l].exists =>
  l \in rowLock[tries[l].name] /\ seen[l] = account[tries[l].name]

\* Past the check, the password was right and the account active.
ReadsValid == \A l \in Logins : pc[l] \in {"valid", "rehashing", "opening"} => Valid(l) /\ seen[l].active

\* A command about to change an account holds its row.
CommandsHold == \A c \in Commands : pc[c] = "changing" =>
  /\ order[c] \in Orders /\ order[c].action \in Named
  /\ order[c].action # "create" => c \in rowLock[order[c].name]

\* So does a bootstrap that is about to create accounts know what to.
BootstrapsOrdered == \A c \in Commands : pc[c] = "booting" => order[c] \in Orders

\* Only a login that is over has a session, and only actors that are over have answered.
OnlyAtTheEnd ==
  /\ \A l \in Logins : session[l] # "none" => pc[l] = "done"
  /\ \A x \in Actors : reply[x] # "none" => pc[x] = "done"

\* A saved note is behind the present one.
SavedIsBehind == \A g \in Calls : reply[g] = "saved" => based[g] < note

AccessInv ==
  /\ TypeOK /\ OneHolder /\ ReadsHold /\ ReadsValid /\ CommandsHold /\ BootstrapsOrdered
  /\ OnlyAtTheEnd /\ SavedIsBehind /\ LiveSessionsAreCurrent /\ NoLostNote

USE ActorsAssumption, ValuesAssumption DEF Actors

-----------------------------------------------------------------------------

LEMMA AnyInRange == AnyPassword \in Passwords /\ AnyName \in Admins
  BY DEF AnyPassword, AnyName

LEMMA OrderFields == ASSUME NEW o \in Orders
                     PROVE o.action \in Actions /\ o.name \in Admins /\ o.password \in Passwords
  BY DEF Orders

LEMMA InitAccess == Init => AccessInv
  <1> SUFFICES ASSUME Init PROVE AccessInv
    OBVIOUS
  <1>1. TypeOK
    <2>1. Absent \in Accounts
      BY AnyInRange DEF Absent, Accounts
    <2>2. \A p \in Passwords, w \in BOOLEAN :
            Account(p, w) \in Accounts
      BY DEF Account, Accounts
    <2>3. account \in [Admins -> Accounts]
      BY <2>1, <2>2 DEF Init
    <2>4. NoCredentials \in Credentials
      BY AnyInRange DEF NoCredentials, Credentials
    <2> QED
      BY <2>1, <2>3, <2>4 DEF Init, TypeOK, Accounts
  <1>2. OneHolder /\ ReadsHold /\ ReadsValid /\ CommandsHold /\ BootstrapsOrdered
    BY DEF Init, OneHolder, ReadsHold, ReadsValid, CommandsHold, BootstrapsOrdered, Checking
  <1>3. OnlyAtTheEnd /\ SavedIsBehind /\ LiveSessionsAreCurrent /\ NoLostNote
    BY DEF Init, OnlyAtTheEnd, SavedIsBehind, LiveSessionsAreCurrent, NoLostNote
  <1> QED
    BY <1>1, <1>2, <1>3 DEF AccessInv

-----------------------------------------------------------------------------
(* The steps of a login                                                      *)

LEMMA LoginLookKeeps == ASSUME AccessInv, NEW l \in Logins, LoginLook(l) PROVE AccessInv'
  <1>0. PICK k \in Credentials :
          /\ RowFree(k.name)
          /\ tries' = [tries EXCEPT ![l] = k]
          /\ rowLock' = IF account[k.name].exists THEN [rowLock EXCEPT ![k.name] = {l}] ELSE rowLock
          /\ seen' = [seen EXCEPT ![l] = account[k.name]]
    BY DEF LoginLook
  <1>1. TypeOK'
    BY <1>0 DEF AccessInv, TypeOK, LoginLook, Goto, tables, Credentials
  <1>2. OneHolder'
    BY <1>0 DEF AccessInv, TypeOK, OneHolder, RowFree, Credentials
  <1>3. ReadsHold'
    BY <1>0 DEF AccessInv, TypeOK, ReadsHold, LoginLook, Goto, RowFree, Checking, tables, Credentials
  <1>4. ReadsValid'
    BY <1>0 DEF AccessInv, TypeOK, ReadsValid, Valid, LoginLook, Goto
  <1>5. CommandsHold' /\ BootstrapsOrdered'
    BY <1>0 DEF AccessInv, TypeOK, CommandsHold, BootstrapsOrdered, LoginLook, Goto, RowFree, Credentials
  <1>6. OnlyAtTheEnd' /\ SavedIsBehind' /\ NoLostNote'
    BY DEF AccessInv, TypeOK, OnlyAtTheEnd, SavedIsBehind, NoLostNote, LoginLook, Goto, tables
  <1>7. LiveSessionsAreCurrent'
    BY <1>0 DEF AccessInv, TypeOK, OnlyAtTheEnd, LiveSessionsAreCurrent, LoginLook, tables
  <1> QED
    BY <1>1, <1>2, <1>3, <1>4, <1>5, <1>6, <1>7 DEF AccessInv

LEMMA LoginSlotKeeps == ASSUME AccessInv, NEW l \in Logins, LoginSlot(l) PROVE AccessInv'
  <1>1. TypeOK'
    BY DEF AccessInv, TypeOK, LoginSlot, Goto, tables, inputs, read
  <1>2. OneHolder' /\ ReadsHold' /\ ReadsValid' /\ CommandsHold' /\ BootstrapsOrdered'
    BY DEF AccessInv, TypeOK, OneHolder, ReadsHold, ReadsValid, CommandsHold, BootstrapsOrdered,
           Valid, LoginSlot, Goto, Checking, tables, inputs, read
  <1>3. OnlyAtTheEnd' /\ SavedIsBehind' /\ NoLostNote' /\ LiveSessionsAreCurrent'
    BY DEF AccessInv, TypeOK, OnlyAtTheEnd, SavedIsBehind, NoLostNote, LiveSessionsAreCurrent,
           LoginSlot, Goto, tables, inputs
  <1> QED
    BY <1>1, <1>2, <1>3 DEF AccessInv

Answers == {"denied", "granted", "refused", "changed", "error"}

\* What the end of a login or command does to locks, places and answers.
Ended(x, a) ==
  /\ rowLock' \in [Admins -> SUBSET Actors] /\ bootLock' \subseteq Commands /\ slots' \subseteq Logins
  /\ seen' \in [Logins -> Accounts]
  /\ missing' \in [Commands -> SUBSET Admins] /\ unlooked' \in [Commands -> SUBSET Admins]
  /\ pc' \in [Actors -> {"idle", "waiting", "verifying", "valid", "rehashing", "opening", "changing",
                        "booting", "asking", "acting", "done"}]
  /\ reply' \in [Actors -> {"none", "denied", "granted", "refused", "changed", "error",
                           "unauthorized", "saved", "conflict", "left"}]
  /\ pc'[x] = "done" /\ reply'[x] = a
  /\ \A y \in Actors : y # x => pc'[y] = pc[y] /\ reply'[y] = reply[y]
  /\ \A b \in Admins : rowLock'[b] = rowLock[b] \ {x}
  /\ \A l \in Logins : l # x => seen'[l] = seen[l]

\* The end of a transaction gives the row and the slot back.
LEMMA EndKeeps ==
  ASSUME TypeOK, NEW x \in Logins \cup Commands, NEW a \in Answers, End(x, a)
  PROVE  Ended(x, a)
  <1>1. Absent \in Accounts
    BY AnyInRange DEF Absent, Accounts
  <1> QED
    BY <1>1 DEF TypeOK, End, Goto, Answer, Answers, Ended, Accounts

\* The end of a login or command, provided that it leaves alone the accounts other
\* logins have read and keeps the sessions current.
LEMMA EndingKeeps ==
  ASSUME AccessInv, NEW x \in Logins \cup Commands, NEW a \in Answers, End(x, a),
         UNCHANGED <<note, based, aged, uses, tries>>,
         account' \in [Admins -> Accounts],
         \A l \in Logins \ {x} : pc[l] \in Checking /\ seen[l].exists =>
            account'[tries[l].name] = account[tries[l].name],
         session' \in [Logins -> {"none", "live", "revoked"}],
         \A l \in Logins \ {x} : session'[l] # "none" => session[l] # "none",
         LiveSessionsAreCurrent',
         order' \in [Commands -> Orders \cup {NoOrder}],
         \A c \in Commands : c # x => order'[c] = order[c]
  PROVE  AccessInv'
  <1>0. TypeOK /\ Ended(x, a)
    BY EndKeeps DEF AccessInv
  <1>1. TypeOK'
    BY <1>0 DEF TypeOK, Ended, Accounts
  <1>2. OneHolder'
    BY <1>0 DEF AccessInv, OneHolder, Ended
  <1>3. ReadsHold' /\ ReadsValid'
    <2>1. \A l \in Logins : pc'[l] \in Checking => l # x /\ pc'[l] = pc[l] /\ seen'[l] = seen[l]
      BY <1>0 DEF Ended, Checking
    <2>2. \A l \in Logins : tries[l].name \in Admins
      BY <1>0 DEF TypeOK, Credentials
    <2>3. ReadsHold'
      BY <1>0, <2>1, <2>2 DEF AccessInv, ReadsHold, Ended
    <2>4. ReadsValid'
      BY <2>1 DEF AccessInv, ReadsValid, Valid, Checking
    <2> QED
      BY <2>3, <2>4
  <1>4. CommandsHold' /\ BootstrapsOrdered'
    <2>1. \A c \in Commands : pc'[c] \in {"changing", "booting"} => c # x /\ pc'[c] = pc[c] /\ order'[c] = order[c]
      BY <1>0 DEF Ended
    <2> QED
      BY <2>1, <1>0, OrderFields DEF AccessInv, CommandsHold, BootstrapsOrdered, Ended
  <1>5. OnlyAtTheEnd'
    <2>1. \A l \in Logins : session'[l] # "none" => pc'[l] = "done"
      BY <1>0 DEF AccessInv, OnlyAtTheEnd, Ended
    <2>2. \A y \in Actors : reply'[y] # "none" => pc'[y] = "done"
      BY <1>0 DEF AccessInv, OnlyAtTheEnd, Ended
    <2> QED
      BY <2>1, <2>2 DEF OnlyAtTheEnd
  <1>6. \A g \in Calls : reply'[g] = reply[g]
    BY <1>0 DEF Ended
  <1>7. SavedIsBehind' /\ NoLostNote'
    BY <1>6 DEF AccessInv, SavedIsBehind, NoLostNote
  <1> QED
    BY <1>1, <1>2, <1>3, <1>4, <1>5, <1>7 DEF AccessInv

\* In particular one that changes no account and only ends sessions.
LEMMA QuietEnd ==
  ASSUME AccessInv, NEW x \in Logins \cup Commands, NEW a \in Answers, End(x, a),
         UNCHANGED <<account, note, based, aged, uses, tries>>,
         session' \in [Logins -> {"none", "live", "revoked"}],
         \A l \in Logins : session'[l] # "none" => session'[l] = session[l],
         order' \in [Commands -> Orders \cup {NoOrder}],
         \A c \in Commands : c # x => order'[c] = order[c]
  PROVE  AccessInv'
  <1>1. account' \in [Admins -> Accounts]
    BY DEF AccessInv, TypeOK, Accounts
  <1>2. LiveSessionsAreCurrent'
    BY DEF AccessInv, LiveSessionsAreCurrent
  <1> QED
    BY <1>1, <1>2, EndingKeeps

LEMMA LoginVerifyKeeps == ASSUME AccessInv, NEW l \in Logins, LoginVerify(l) PROVE AccessInv'
  <1>0. TypeOK
    BY DEF AccessInv
  <1>1. CASE End(l, "denied")
    BY <1>0, <1>1, QuietEnd DEF LoginVerify, tables, inputs, TypeOK, Answers
  <1>2. CASE /\ Valid(l) /\ seen[l].active
             /\ slots' = slots \ {l}
             /\ Goto(l, IF seen[l].weak THEN "valid" ELSE "opening")
             /\ UNCHANGED <<rowLock, bootLock, read, reply>>
    <2>1. TypeOK'
      BY <1>0, <1>2 DEF TypeOK, LoginVerify, Goto, tables, inputs, read
    <2>2. OneHolder' /\ ReadsHold' /\ ReadsValid' /\ CommandsHold' /\ BootstrapsOrdered'
      BY <1>0, <1>2 DEF AccessInv, TypeOK, OneHolder, ReadsHold, ReadsValid, CommandsHold, BootstrapsOrdered,
                        Valid, LoginVerify, Goto, Checking, tables, inputs, read
    <2>3. OnlyAtTheEnd' /\ SavedIsBehind' /\ NoLostNote' /\ LiveSessionsAreCurrent'
      BY <1>0, <1>2 DEF AccessInv, TypeOK, OnlyAtTheEnd, SavedIsBehind, NoLostNote, LiveSessionsAreCurrent,
                        LoginVerify, Goto, tables, inputs
    <2> QED
      BY <2>1, <2>2, <2>3 DEF AccessInv
  <1> QED
    BY <1>1, <1>2 DEF LoginVerify

LEMMA LoginRehashKeeps == ASSUME AccessInv, NEW l \in Logins, LoginRehash(l) PROVE AccessInv'
  <1>1. TypeOK'
    BY DEF AccessInv, TypeOK, LoginRehash, Goto, tables, inputs, read
  <1>2. OneHolder' /\ ReadsHold' /\ ReadsValid' /\ CommandsHold' /\ BootstrapsOrdered'
    BY DEF AccessInv, TypeOK, OneHolder, ReadsHold, ReadsValid, CommandsHold, BootstrapsOrdered,
           Valid, LoginRehash, Goto, Checking, tables, inputs, read
  <1>3. OnlyAtTheEnd' /\ SavedIsBehind' /\ NoLostNote' /\ LiveSessionsAreCurrent'
    BY DEF AccessInv, TypeOK, OnlyAtTheEnd, SavedIsBehind, NoLostNote, LiveSessionsAreCurrent,
           LoginRehash, Goto, tables, inputs
  <1> QED
    BY <1>1, <1>2, <1>3 DEF AccessInv

LEMMA LoginOpenKeeps == ASSUME AccessInv, NEW l \in Logins, LoginOpen(l) PROVE AccessInv'
  <1> DEFINE a == tries[l].name
  <1>1. TypeOK /\ tries[l] \in Credentials /\ a \in Admins /\ tries[l].password \in Passwords
    BY DEF AccessInv, TypeOK, Credentials
  <1>2. /\ account[a].exists /\ account[a].active /\ account[a].password = tries[l].password
        /\ l \in rowLock[a]
    BY DEF AccessInv, LoginOpen, ReadsHold, ReadsValid, Valid, Checking
  <1>3. account' \in [Admins -> Accounts]
    <2>1. account \in [Admins -> Accounts]
      BY <1>1 DEF TypeOK, Accounts
    <2>2. [account[a] EXCEPT !.password = tries[l].password, !.weak = FALSE] \in Accounts
      BY <1>1, <2>1 DEF Accounts
    <2>3. account' = account \/ account' = [account EXCEPT ![a] =
                                   [account[a] EXCEPT !.password = tries[l].password, !.weak = FALSE]]
      BY <1>1, <2>1 DEF LoginOpen
    <2> QED
      BY <2>1, <2>2, <2>3
  <1>4. \A b \in Admins : /\ account'[b].exists = account[b].exists /\ account'[b].active = account[b].active
                           /\ account'[b].password = account[b].password
    BY <1>1, <1>2 DEF TypeOK, LoginOpen
  <1>11. \A b \in Admins \ {a} : account'[b] = account[b]
    BY <1>1 DEF TypeOK, LoginOpen
  <1>5. ASSUME NEW m \in Logins \ {l}, pc[m] \in Checking, seen[m].exists
        PROVE  account'[tries[m].name] = account[tries[m].name]
    <2>1. tries[m].name \in Admins /\ m \in rowLock[tries[m].name]
      BY <1>1, <1>5 DEF AccessInv, ReadsHold, TypeOK, Credentials
    <2>2. tries[m].name # a
      BY <1>1, <1>2, <2>1 DEF AccessInv, OneHolder
    <2> QED
      BY <2>1, <2>2, <1>11
  <1>6. session' = [session EXCEPT ![l] = "live"] /\ tries' = tries
    BY DEF LoginOpen, inputs
  <1>7. LiveSessionsAreCurrent'
    <2> SUFFICES ASSUME NEW m \in Logins, session'[m] = "live"
                 PROVE  /\ account'[tries[m].name].exists /\ account'[tries[m].name].active
                        /\ account'[tries[m].name].password = tries[m].password
      BY <1>6 DEF LiveSessionsAreCurrent
    <2>1. tries[m].name \in Admins
      BY <1>1 DEF TypeOK, Credentials
    <2>2. CASE m = l
      BY <1>1, <1>2, <1>4, <2>2
    <2>3. CASE m # l
      <3>1. session[m] = "live"
        BY <1>1, <1>6, <2>3 DEF TypeOK
      <3> QED
        BY <1>4, <2>1, <3>1 DEF AccessInv, LiveSessionsAreCurrent
    <2> QED
      BY <2>2, <2>3
  <1>8. session' \in [Logins -> {"none", "live", "revoked"}]
    BY <1>1, <1>6 DEF TypeOK
  <1>9. End(l, "granted") /\ UNCHANGED <<note, based, aged, uses, tries, order>>
    BY DEF LoginOpen, inputs
  <1>10. \A m \in Logins \ {l} : session'[m] # "none" => session[m] # "none"
    BY <1>1, <1>6 DEF TypeOK
  <1> QED
    BY <1>1, <1>3, <1>5, <1>7, <1>8, <1>9, <1>10, EndingKeeps DEF Answers, TypeOK

-----------------------------------------------------------------------------
(* The steps of a command                                                    *)

LEMMA CommandLookKeeps == ASSUME AccessInv, NEW c \in Commands, CommandLook(c) PROVE AccessInv'
  <1>1. PICK o \in Orders :
          /\ o.action \in Named /\ RowFree(o.name)
          /\ order' = [order EXCEPT ![c] = o]
          /\ \/ /\ account[o.name].exists = (o.action = "create")
                /\ End(c, "refused")
             \/ /\ account[o.name].exists # (o.action = "create")
                /\ rowLock' = IF account[o.name].exists THEN [rowLock EXCEPT ![o.name] = {c}] ELSE rowLock
                /\ Goto(c, "changing")
                /\ UNCHANGED <<bootLock, slots, read, reply>>
    BY DEF CommandLook
  <1>2. TypeOK /\ o.name \in Admins /\ order' \in [Commands -> Orders \cup {NoOrder}]
        /\ \A d \in Commands : d # c => order'[d] = order[d]
    BY <1>1, OrderFields DEF AccessInv, TypeOK
  <1>3. CASE End(c, "refused")
    BY <1>2, <1>3, QuietEnd DEF CommandLook, tables, Answers, TypeOK
  <1>4. CASE /\ account[o.name].exists # (o.action = "create")
             /\ rowLock' = IF account[o.name].exists THEN [rowLock EXCEPT ![o.name] = {c}] ELSE rowLock
             /\ Goto(c, "changing")
             /\ UNCHANGED <<bootLock, slots, read, reply>>
    <2>1. TypeOK'
      BY <1>1, <1>2, <1>4 DEF TypeOK, CommandLook, Goto, tables, read
    <2>2. OneHolder'
      BY <1>1, <1>2, <1>4 DEF AccessInv, TypeOK, OneHolder, RowFree
    <2>3. ReadsHold' /\ ReadsValid'
      BY <1>1, <1>2, <1>4 DEF AccessInv, TypeOK, ReadsHold, ReadsValid, Valid, CommandLook, Goto, RowFree,
                              Checking, tables, read, Credentials
    <2>4. CommandsHold' /\ BootstrapsOrdered'
      <3>1. order'[c] = o /\ pc'[c] = "changing" /\ (o.action # "create" => c \in rowLock'[o.name])
        BY <1>1, <1>2, <1>4, OrderFields DEF TypeOK, Goto, AccessInv
      <3>2. \A d \in Commands \ {c} : pc'[d] = pc[d] /\ order'[d] = order[d]
        BY <1>2, <1>4 DEF TypeOK, Goto
      <3>3. ASSUME NEW d \in Commands \ {c}, pc[d] = "changing", order[d].action # "create"
            PROVE  d \in rowLock'[order[d].name]
        BY <1>1, <1>2, <1>4, <3>3, OrderFields DEF AccessInv, CommandsHold, RowFree, TypeOK
      <3> QED
        BY <1>1, <3>1, <3>2, <3>3 DEF AccessInv, CommandsHold, BootstrapsOrdered
    <2>5. OnlyAtTheEnd' /\ SavedIsBehind' /\ NoLostNote' /\ LiveSessionsAreCurrent'
      BY <1>2, <1>4 DEF AccessInv, TypeOK, OnlyAtTheEnd, SavedIsBehind, NoLostNote, LiveSessionsAreCurrent,
                        CommandLook, Goto, tables
    <2> QED
      BY <2>1, <2>2, <2>3, <2>4, <2>5 DEF AccessInv
  <1> QED
    BY <1>1, <1>3, <1>4

\* The row of the account a command changes is its own: no login in progress has read it.
LEMMA NobodyReads ==
  ASSUME AccessInv, NEW c \in Commands, NEW a \in Admins, c \in rowLock[a] \/ ~account[a].exists,
         NEW l \in Logins, pc[l] \in Checking, seen[l].exists
  PROVE  tries[l].name # a
  BY DEF AccessInv, ReadsHold, OneHolder

LEMMA CommandChangeKeeps == ASSUME AccessInv, NEW c \in Commands, CommandChange(c) PROVE AccessInv'
  <1> DEFINE a == order[c].name
  <1>1. /\ TypeOK /\ a \in Admins /\ order[c].password \in Passwords /\ c \in rowLock[a]
        /\ order[c].action \in {"reset-password", "disable", "enable"}
    BY OrderFields DEF AccessInv, CommandChange, CommandsHold, Named
  <1>2. account \in [Admins -> Accounts]
    BY <1>1 DEF TypeOK, Accounts
  <1>3. PICK row \in Accounts : /\ account' = [account EXCEPT ![a] = row]
                                /\ row.exists = account[a].exists
                                /\ order[c].action = "enable" => row.active /\ row.password = account[a].password
    <2>1. CASE order[c].action = "reset-password"
      <3>1. account' = [account EXCEPT ![a] = [account[a] EXCEPT !.password = order[c].password, !.weak = FALSE]]
        BY <1>1, <1>2, <2>1 DEF CommandChange
      <3>2. [account[a] EXCEPT !.password = order[c].password, !.weak = FALSE] \in Accounts
        BY <1>1, <1>2 DEF Accounts
      <3> QED
        BY <1>1, <1>2, <2>1, <3>1, <3>2 DEF Accounts
    <2>2. CASE order[c].action = "disable"
      <3>1. account' = [account EXCEPT ![a] = [account[a] EXCEPT !.active = FALSE]]
        BY <1>1, <1>2, <2>2 DEF CommandChange
      <3>2. [account[a] EXCEPT !.active = FALSE] \in Accounts
        BY <1>1, <1>2 DEF Accounts
      <3> QED
        BY <1>1, <1>2, <2>2, <3>1, <3>2 DEF Accounts
    <2>3. CASE order[c].action = "enable"
      <3>1. account' = [account EXCEPT ![a] = [account[a] EXCEPT !.active = TRUE]]
        BY <1>1, <1>2, <2>3 DEF CommandChange
      <3>2. [account[a] EXCEPT !.active = TRUE] \in Accounts
        BY <1>1, <1>2 DEF Accounts
      <3> QED
        BY <1>1, <1>2, <2>3, <3>1, <3>2 DEF Accounts
    <2> QED
      BY <1>1, <2>1, <2>2, <2>3
  <1>4. /\ session' = [l \in Logins |-> IF l \in SessionsOf(a) /\ Revokes(c) THEN "revoked" ELSE session[l]]
        /\ End(c, "changed") /\ UNCHANGED <<note, based, aged, uses, tries, order>>
    BY DEF CommandChange, inputs
  <1>5. session' \in [Logins -> {"none", "live", "revoked"}]
    BY <1>1, <1>4 DEF TypeOK
  <1>6. \A l \in Logins : session'[l] # "none" => session[l] # "none"
    BY <1>1, <1>4 DEF SessionsOf
  <1>7. LiveSessionsAreCurrent'
    <2> SUFFICES ASSUME NEW l \in Logins, session'[l] = "live"
                 PROVE  /\ account'[tries[l].name].exists /\ account'[tries[l].name].active
                        /\ account'[tries[l].name].password = tries[l].password
      BY <1>4 DEF LiveSessionsAreCurrent
    <2>1. /\ session[l] = "live" /\ tries[l].name \in Admins
          /\ tries[l].name = a => order[c].action = "enable"
      BY <1>1, <1>4 DEF SessionsOf, Revokes, TypeOK, Credentials
    <2> QED
      BY <1>1, <1>2, <1>3, <2>1 DEF AccessInv, LiveSessionsAreCurrent
  <1>8. \A l \in Logins \ {c} : pc[l] \in Checking /\ seen[l].exists =>
           account'[tries[l].name] = account[tries[l].name]
    BY <1>1, <1>2, <1>3, NobodyReads DEF TypeOK, Credentials
  <1>9. account' \in [Admins -> Accounts]
    BY <1>2, <1>3
  <1> QED
    BY <1>1, <1>4, <1>5, <1>6, <1>7, <1>8, <1>9, EndingKeeps DEF Answers, TypeOK

\* Creating accounts that were not there disturbs nobody.
LEMMA CreatingKeeps ==
  ASSUME AccessInv, NEW c \in Commands, End(c, "changed"), NEW new \in SUBSET Admins,
         \A a \in new : ~account[a].exists,
         account' \in [Admins -> Accounts], \A a \in Admins \ new : account'[a] = account[a],
         UNCHANGED <<session, aged, note, inputs, based, uses>>
  PROVE  AccessInv'
  <1>1. TypeOK /\ UNCHANGED <<tries, order>>
    BY DEF AccessInv, inputs
  <1>2. \A l \in Logins : pc[l] \in Checking /\ seen[l].exists => tries[l].name \notin new
    BY NobodyReads
  <1>3. \A l \in Logins : tries[l].name \in Admins
    BY <1>1 DEF TypeOK, Credentials
  <1>4. LiveSessionsAreCurrent'
    BY <1>1, <1>3 DEF AccessInv, LiveSessionsAreCurrent
  <1> QED
    BY <1>1, <1>2, <1>3, <1>4, EndingKeeps DEF Answers, TypeOK

LEMMA CommandCreateKeeps == ASSUME AccessInv, NEW c \in Commands, CommandCreate(c) PROVE AccessInv'
  <1> DEFINE a == order[c].name
  <1>1. TypeOK /\ a \in Admins /\ Account(order[c].password, FALSE) \in Accounts
    BY OrderFields DEF AccessInv, CommandCreate, CommandsHold, Account, Accounts
  <1>2. CASE End(c, "error") /\ UNCHANGED account
    BY <1>1, <1>2, QuietEnd DEF CommandCreate, inputs, Answers, TypeOK
  <1>3. CASE /\ ~account[a].exists
             /\ account' = [account EXCEPT ![a] = Account(order[c].password, FALSE)]
             /\ End(c, "changed")
    <2>1. account' \in [Admins -> Accounts] /\ \A b \in Admins \ {a} : account'[b] = account[b]
      BY <1>1, <1>3 DEF TypeOK, Accounts
    <2> QED
      <3>1. {a} \in SUBSET Admins /\ \A b \in {a} : ~account[b].exists
        BY <1>1, <1>3
      <3>2. UNCHANGED <<session, aged, note, inputs, based, uses>>
        BY DEF CommandCreate
      <3> QED
        BY <1>3, <2>1, <3>1, <3>2, CreatingKeeps
  <1> QED
    BY <1>2, <1>3 DEF CommandCreate

LEMMA BootstrapCreateKeeps == ASSUME AccessInv, NEW c \in Commands, BootstrapCreate(c) PROVE AccessInv'
  <1>1. TypeOK /\ missing[c] \in SUBSET Admins /\ Account(order[c].password, FALSE) \in Accounts
    BY OrderFields DEF AccessInv, BootstrapCreate, BootstrapsOrdered, TypeOK, Account, Accounts
  <1>2. CASE End(c, "error") /\ UNCHANGED account
    BY <1>1, <1>2, QuietEnd DEF BootstrapCreate, inputs, Answers, TypeOK
  <1>3. CASE /\ \A a \in missing[c] : ~account[a].exists
             /\ account' = [a \in Admins |->
                  IF a \in missing[c] THEN Account(order[c].password, FALSE) ELSE account[a]]
             /\ End(c, "changed")
    <2>1. account' \in [Admins -> Accounts] /\ \A b \in Admins \ missing[c] : account'[b] = account[b]
      BY <1>1, <1>3 DEF TypeOK, Accounts
    <2> QED
      BY <1>1, <1>3, <2>1, CreatingKeeps DEF BootstrapCreate
  <1> QED
    BY <1>2, <1>3 DEF BootstrapCreate

LEMMA CleanupSessionsKeeps == ASSUME AccessInv, NEW c \in Commands, CleanupSessions(c) PROVE AccessInv'
  <1>1. TypeOK /\ End(c, "changed") /\ UNCHANGED <<account, note, based, aged, uses, tries>>
    BY DEF AccessInv, CleanupSessions
  <1>2. PICK o \in Orders : order' = [order EXCEPT ![c] = o]
    BY DEF CleanupSessions
  <1>3. order' \in [Commands -> Orders \cup {NoOrder}] /\ \A d \in Commands : d # c => order'[d] = order[d]
    BY <1>1, <1>2 DEF TypeOK
  <1>4. session' \in [Logins -> {"none", "live", "revoked"}]
        /\ \A l \in Logins : session'[l] # "none" => session'[l] = session[l]
    BY <1>1 DEF CleanupSessions, TypeOK
  <1> QED
    BY <1>1, <1>3, <1>4, QuietEnd DEF Answers

LEMMA BootstrapLockKeeps == ASSUME AccessInv, NEW c \in Commands, BootstrapLock(c) PROVE AccessInv'
  <1>0. TypeOK
    BY DEF AccessInv
  <1>1. PICK o \in Orders : order' = [order EXCEPT ![c] = o]
    BY DEF BootstrapLock
  <1>2. TypeOK'
    BY <1>0, <1>1 DEF TypeOK, BootstrapLock, Goto, tables
  <1>3. OneHolder' /\ ReadsHold' /\ ReadsValid'
    BY <1>0 DEF AccessInv, TypeOK, OneHolder, ReadsHold, ReadsValid, Valid, BootstrapLock, Goto, Checking, tables
  <1>4. CommandsHold' /\ BootstrapsOrdered'
    <2>1. order'[c] = o /\ pc'[c] = "booting" /\ rowLock' = rowLock
      BY <1>0, <1>1 DEF TypeOK, BootstrapLock, Goto
    <2>2. \A d \in Commands \ {c} : pc'[d] = pc[d] /\ order'[d] = order[d]
      BY <1>0, <1>1 DEF TypeOK, BootstrapLock, Goto
    <2> QED
      BY <2>1, <2>2 DEF AccessInv, CommandsHold, BootstrapsOrdered
  <1>5. OnlyAtTheEnd' /\ SavedIsBehind' /\ NoLostNote' /\ LiveSessionsAreCurrent'
    BY <1>0 DEF AccessInv, TypeOK, OnlyAtTheEnd, SavedIsBehind, NoLostNote, LiveSessionsAreCurrent,
                BootstrapLock, Goto, tables
  <1> QED
    BY <1>2, <1>3, <1>4, <1>5 DEF AccessInv

LEMMA BootstrapLookKeeps == ASSUME AccessInv, NEW c \in Commands, BootstrapLook(c) PROVE AccessInv'
  <1>0. TypeOK
    BY DEF AccessInv
  <1>1. TypeOK'
    BY <1>0 DEF TypeOK, BootstrapLook, tables, locks, inputs
  <1>2. OneHolder' /\ ReadsHold' /\ ReadsValid' /\ CommandsHold' /\ BootstrapsOrdered'
    BY DEF AccessInv, OneHolder, ReadsHold, ReadsValid, Valid, CommandsHold, BootstrapsOrdered,
           BootstrapLook, tables, locks, inputs
  <1>3. OnlyAtTheEnd' /\ SavedIsBehind' /\ NoLostNote' /\ LiveSessionsAreCurrent'
    BY DEF AccessInv, OnlyAtTheEnd, SavedIsBehind, NoLostNote, LiveSessionsAreCurrent,
           BootstrapLook, tables, inputs
  <1> QED
    BY <1>1, <1>2, <1>3 DEF AccessInv

-----------------------------------------------------------------------------
(* The steps of a call, and the rest                                         *)

\* Steps that leave accounts, locks and the places of logins and commands alone.
CallsOnly ==
  /\ UNCHANGED <<account, locks, read, inputs>>
  /\ \A x \in Logins \cup Commands : pc'[x] = pc[x] /\ reply'[x] = reply[x]
  /\ \A l \in Logins : session'[l] # session[l] => session[l] = "live" /\ session'[l] = "revoked"

LEMMA CallsOnlyKeeps ==
  ASSUME AccessInv, CallsOnly
  PROVE  /\ OneHolder' /\ ReadsHold' /\ ReadsValid' /\ CommandsHold' /\ BootstrapsOrdered'
         /\ LiveSessionsAreCurrent' /\ \A l \in Logins : session'[l] # "none" => pc'[l] = "done"
  <1>1. OneHolder' /\ ReadsHold' /\ ReadsValid'
    BY DEF AccessInv, CallsOnly, OneHolder, ReadsHold, ReadsValid, Valid, Checking, locks, read, inputs
  <1>2. CommandsHold' /\ BootstrapsOrdered'
    BY DEF AccessInv, CallsOnly, CommandsHold, BootstrapsOrdered, locks, inputs
  <1>3. LiveSessionsAreCurrent'
    BY DEF AccessInv, CallsOnly, LiveSessionsAreCurrent, inputs
  <1>4. \A l \in Logins : session'[l] # "none" => pc'[l] = "done"
    BY DEF AccessInv, CallsOnly, OnlyAtTheEnd
  <1> QED
    BY <1>1, <1>2, <1>3, <1>4

LEMMA CallKeeps == ASSUME AccessInv, NEW g \in Calls, ReadNote(g) \/ CallStep(g) PROVE AccessInv'
  <1>0. TypeOK
    BY DEF AccessInv
  <1>1. CASE ReadNote(g)
    <2>1. PICK l \in Logins : uses' = [uses EXCEPT ![g] = {l}]
      BY <1>1 DEF ReadNote
    <2>2. TypeOK'
      BY <1>0, <1>1, <2>1 DEF TypeOK, ReadNote, Goto, tables, locks, read, inputs
    <2>3. CallsOnly
      BY <1>0, <1>1 DEF TypeOK, ReadNote, Goto, tables, CallsOnly
    <2>4. OnlyAtTheEnd' /\ SavedIsBehind' /\ NoLostNote'
      BY <1>0, <1>1 DEF AccessInv, TypeOK, OnlyAtTheEnd, SavedIsBehind, NoLostNote, ReadNote, Goto, tables
    <2> QED
      BY <2>2, <2>3, <2>4, CallsOnlyKeeps DEF AccessInv
  <1>2. CASE Identify(g)
    <2>1. TypeOK'
      BY <1>0, <1>2 DEF TypeOK, Identify, Goto, Answer, tables, locks, read, inputs
    <2>2. CallsOnly
      BY <1>0, <1>2 DEF TypeOK, Identify, Goto, Answer, tables, CallsOnly
    <2>3. OnlyAtTheEnd' /\ SavedIsBehind' /\ NoLostNote'
      <3>1. pc[g] # "done" /\ pc' \in [Actors -> {"acting", "done"} \cup {pc[x] : x \in Actors}]
            /\ \A x \in Actors : x # g => pc'[x] = pc[x] /\ reply'[x] = reply[x]
        BY <1>0, <1>2 DEF TypeOK, Identify, Goto, Answer
      <3>2. reply'[g] # "saved" /\ (reply'[g] # "none" => pc'[g] = "done")
            /\ UNCHANGED <<session, note, based>>
        BY <1>0, <1>2 DEF AccessInv, TypeOK, OnlyAtTheEnd, Identify, Goto, Answer, tables
      <3>3. \A l \in Logins : l # g
        BY ActorsAssumption
      <3> QED
        BY <3>1, <3>2, <3>3 DEF AccessInv, Actors, OnlyAtTheEnd, SavedIsBehind, NoLostNote
    <2> QED
      BY <2>1, <2>2, <2>3, CallsOnlyKeeps DEF AccessInv
  <1>3. CASE SaveNote(g)
    <2>0. \/ /\ note = based[g] /\ note' = note + 1
             /\ reply' = [reply EXCEPT ![g] = "saved"]
          \/ /\ note' = note /\ reply' = [reply EXCEPT ![g] = "conflict"]
      BY <1>3 DEF SaveNote, Answer
    <2>1. TypeOK'
      <3>1. note' \in Nat
        BY <1>0, <2>0 DEF TypeOK
      <3>2. reply' \in [Actors -> {"none", "denied", "granted", "refused", "changed", "error",
                                  "unauthorized", "saved", "conflict", "left"}]
        BY <1>0, <2>0 DEF TypeOK
      <3> QED
        BY <1>0, <1>3, <3>1, <3>2 DEF TypeOK, SaveNote, Goto, locks, read, inputs
    <2>2. CallsOnly
      BY <1>0, <1>3 DEF TypeOK, SaveNote, Goto, Answer, CallsOnly
    <2>3. OnlyAtTheEnd'
      BY <1>0, <1>3 DEF AccessInv, TypeOK, OnlyAtTheEnd, SaveNote, Goto, Answer
    <2>4. SavedIsBehind' /\ NoLostNote'
      <3>1. based' = based /\ note \in Nat /\ \A h \in Calls : based[h] \in Nat
        BY <1>0, <1>3 DEF TypeOK, SaveNote
      <3>2. \A h \in Calls : h # g => reply'[h] = reply[h]
        BY <1>0, <2>0 DEF TypeOK
      <3>3. CASE note = based[g] /\ note' = note + 1
        BY <3>1, <3>2, <3>3 DEF AccessInv, SavedIsBehind, NoLostNote
      <3>4. CASE note' = note /\ reply' = [reply EXCEPT ![g] = "conflict"]
        <4>1. reply'[g] = "conflict"
          BY <1>0, <3>4 DEF TypeOK
        <4> QED
          BY <3>1, <3>2, <3>4, <4>1 DEF AccessInv, SavedIsBehind, NoLostNote
      <3> QED
        BY <2>0, <3>3, <3>4
    <2> QED
      BY <2>1, <2>2, <2>3, <2>4, CallsOnlyKeeps DEF AccessInv
  <1>4. CASE Logout(g)
    <2>1. TypeOK'
      BY <1>0, <1>4 DEF TypeOK, Logout, Goto, Answer, locks, read, inputs
    <2>2. CallsOnly
      BY <1>0, <1>4 DEF TypeOK, Logout, Goto, Answer, CallsOnly
    <2>3. SavedIsBehind' /\ NoLostNote'
      BY <1>0, <1>4 DEF AccessInv, TypeOK, SavedIsBehind, NoLostNote, Logout, Answer
    <2>4. \A x \in Actors : reply'[x] # "none" => pc'[x] = "done"
      BY <1>0, <1>4 DEF AccessInv, TypeOK, OnlyAtTheEnd, Logout, Goto, Answer
    <2> QED
      BY <2>1, <2>2, <2>3, <2>4, CallsOnlyKeeps DEF AccessInv, OnlyAtTheEnd
  <1> QED
    BY <1>1, <1>2, <1>3, <1>4 DEF CallStep

LEMMA ExpireKeeps == ASSUME AccessInv, NEW l \in Logins, Expire(l) PROVE AccessInv'
  <1>1. TypeOK'
    BY DEF AccessInv, TypeOK, Expire, locks, read, inputs
  <1>2. CallsOnly
    BY DEF Expire, CallsOnly
  <1>3. OnlyAtTheEnd' /\ SavedIsBehind' /\ NoLostNote'
    BY DEF AccessInv, OnlyAtTheEnd, SavedIsBehind, NoLostNote, Expire
  <1> QED
    BY <1>1, <1>2, <1>3, CallsOnlyKeeps DEF AccessInv

LEMMA FailKeeps == ASSUME AccessInv, NEW x \in Logins \cup Commands, Fail(x) PROVE AccessInv'
  BY QuietEnd DEF AccessInv, TypeOK, Fail, tables, inputs, Answers

LEMMA StutterKeeps == ASSUME AccessInv, UNCHANGED vars PROVE AccessInv'
  <1>1. TypeOK' /\ OneHolder' /\ ReadsHold' /\ ReadsValid' /\ CommandsHold' /\ BootstrapsOrdered'
    BY DEF AccessInv, vars, tables, locks, read, inputs, TypeOK, OneHolder, ReadsHold, ReadsValid, Valid,
           CommandsHold, BootstrapsOrdered
  <1>2. OnlyAtTheEnd' /\ SavedIsBehind' /\ NoLostNote' /\ LiveSessionsAreCurrent'
    BY DEF AccessInv, vars, tables, locks, read, inputs, OnlyAtTheEnd, SavedIsBehind, NoLostNote,
           LiveSessionsAreCurrent
  <1> QED
    BY <1>1, <1>2 DEF AccessInv

LEMMA StepKeeps == ASSUME AccessInv, [Next]_vars PROVE AccessInv'
  <1>1. ASSUME NEW l \in Logins, LoginStep(l) PROVE AccessInv'
    BY <1>1, LoginLookKeeps, LoginSlotKeeps, LoginVerifyKeeps, LoginRehashKeeps, LoginOpenKeeps DEF LoginStep
  <1>2. ASSUME NEW c \in Commands, CommandStep(c) PROVE AccessInv'
    BY <1>2, CommandLookKeeps, CommandChangeKeeps, CommandCreateKeeps, CleanupSessionsKeeps,
       BootstrapLockKeeps, BootstrapLookKeeps, BootstrapCreateKeeps DEF CommandStep
  <1> QED
    BY <1>1, <1>2, CallKeeps, ExpireKeeps, FailKeeps, StutterKeeps DEF Next, Rest

-----------------------------------------------------------------------------
(* Results                                                                   *)

\* The invariant that the row locks maintain.
THEOREM AccessInvariant == Spec => []AccessInv
  <1>1. Init => AccessInv
    BY InitAccess
  <1>2. AccessInv /\ [Next]_vars => AccessInv'
    BY StepKeeps
  <1> QED
    BY <1>1, <1>2, PTL DEF Spec

\* Every reachable state is well typed.
THEOREM AccessTypeCorrect == Spec => []TypeOK
  <1>1. AccessInv => TypeOK
    BY DEF AccessInv
  <1> QED
    BY <1>1, AccessInvariant, PTL

\* A live session belongs to an active account and was opened with its present
\* password, whatever raced with the login that opened it.
THEOREM SessionsAreCurrent == Spec => []LiveSessionsAreCurrent
  <1>1. AccessInv => LiveSessionsAreCurrent
    BY DEF AccessInv
  <1> QED
    BY <1>1, AccessInvariant, PTL

\* No two saved notes were based on the same version.
THEOREM NotesAreKept == Spec => []NoLostNote
  <1>1. AccessInv => NoLostNote
    BY DEF AccessInv
  <1> QED
    BY <1>1, AccessInvariant, PTL

\* A password that changes in a step was changed by a reset.
LEMMA PasswordsStay ==
  ASSUME AccessInv, Next, NEW a \in Admins, account[a].exists, account'[a].password # account[a].password
  PROVE  \E c \in Commands : /\ order[c].action = "reset-password" /\ order[c].name = a
                             /\ reply[c] = "none" /\ reply'[c] = "changed"
  <1>0. TypeOK
    BY DEF AccessInv
  <1>1. ASSUME NEW l \in Logins, LoginStep(l) PROVE FALSE
    <2>1. LoginOpen(l)
      BY <1>1 DEF LoginStep, LoginLook, LoginSlot, LoginVerify, LoginRehash, tables
    <2>2. account[tries[l].name].password = tries[l].password /\ tries[l].name \in Admins
      BY <1>0, <2>1 DEF AccessInv, TypeOK, LoginOpen, ReadsHold, ReadsValid, Valid, Checking, Credentials
    <2> QED
      BY <1>0, <2>1, <2>2 DEF LoginOpen, TypeOK
  <1>2. ASSUME NEW c \in Commands, CommandStep(c)
        PROVE  CommandChange(c) /\ order[c].action = "reset-password" /\ order[c].name = a
    <2>1. ~CommandLook(c) /\ ~CleanupSessions(c) /\ ~BootstrapLock(c) /\ ~BootstrapLook(c)
      BY DEF CommandLook, CleanupSessions, BootstrapLock, BootstrapLook, tables
    <2>2. ~CommandCreate(c)
      BY <1>0, OrderFields DEF CommandCreate, AccessInv, CommandsHold, TypeOK
    <2>3. ~BootstrapCreate(c)
      BY <1>0 DEF BootstrapCreate, TypeOK
    <2>4. CommandChange(c)
      BY <1>2, <2>1, <2>2, <2>3 DEF CommandStep
    <2>5. order[c] \in Orders /\ order[c].action \in Named \ {"create"}
      BY <2>4 DEF AccessInv, CommandChange, CommandsHold
    <2>6. order[c].action \notin {"enable", "disable"}
      BY <1>0, <2>4, <2>5, OrderFields DEF CommandChange, TypeOK
    <2>7. order[c].action = "reset-password"
      BY <2>5, <2>6 DEF Named
    <2>8. account' = [account EXCEPT ![order[c].name].password = order[c].password, ![order[c].name].weak = FALSE]
      BY <2>4, <2>7 DEF CommandChange
    <2> QED
      BY <1>0, <2>4, <2>5, <2>7, <2>8, OrderFields DEF TypeOK
  <1>3. ASSUME NEW c \in Commands, CommandChange(c) PROVE reply[c] = "none" /\ reply'[c] = "changed"
    BY <1>0, <1>3, EndKeeps DEF AccessInv, CommandChange, OnlyAtTheEnd, Ended, Answers
  <1> QED
    BY <1>1, <1>2, <1>3 DEF Next, Expire, ReadNote, CallStep, Identify, SaveNote, Logout, Fail, Rest, vars, tables

\* Logins and bootstraps never change what an account's password is.
THEOREM OnlyResetsChangePasswords == Spec => OnlyResetChangesPassword
  <1> DEFINE Step == \A a \in Admins : account[a].exists /\ account'[a].password # account[a].password =>
                       \E c \in Commands : /\ order[c].action = "reset-password" /\ order[c].name = a
                                           /\ reply[c] = "none" /\ reply'[c] = "changed"
  <1>1. AccessInv /\ [Next]_vars => [Step]_vars
    BY PasswordsStay
  <1>2. Spec => [][Step]_vars
    BY <1>1, AccessInvariant, PTL DEF Spec
  <1> QED
    BY <1>2 DEF OnlyResetChangesPassword

\* A session that ends in a step was signed out or revoked.
LEMMA SessionsStay ==
  ASSUME AccessInv, Next, NEW l \in Logins, session[l] = "live", l \notin aged, session'[l] # "live"
  PROVE  \/ \E g \in Calls : l \in uses[g] /\ reply[g] = "none" /\ reply'[g] = "left"
         \/ \E c \in Commands : /\ order[c].name = tries[l].name /\ Revokes(c)
                                /\ reply[c] = "none" /\ reply'[c] = "changed"
  <1>0. TypeOK
    BY DEF AccessInv
  <1>1. ASSUME NEW k \in Logins, LoginStep(k) PROVE FALSE
    BY <1>0, <1>1 DEF TypeOK, LoginStep, LoginLook, LoginSlot, LoginVerify, LoginRehash, LoginOpen, tables
  <1>2. ASSUME NEW c \in Commands, CommandStep(c)
        PROVE  order[c].name = tries[l].name /\ Revokes(c) /\ reply[c] = "none" /\ reply'[c] = "changed"
    <2>1. CommandChange(c)
      BY <1>0, <1>2 DEF TypeOK, CommandStep, CommandLook, CommandCreate, CleanupSessions, Outlived,
         BootstrapLock, BootstrapLook, BootstrapCreate, tables
    <2>2. order[c].name = tries[l].name /\ Revokes(c)
      BY <2>1 DEF CommandChange, SessionsOf
    <2>3. reply[c] = "none" /\ reply'[c] = "changed"
      BY <1>0, <2>1, EndKeeps DEF AccessInv, CommandChange, OnlyAtTheEnd, Ended, Answers
    <2> QED
      BY <2>2, <2>3
  <1>3. ASSUME NEW g \in Calls, ReadNote(g) \/ CallStep(g)
        PROVE  l \in uses[g] /\ reply[g] = "none" /\ reply'[g] = "left"
    <2>1. Logout(g)
      BY <1>3 DEF ReadNote, CallStep, Identify, SaveNote, tables
    <2> QED
      BY <1>0, <2>1 DEF AccessInv, OnlyAtTheEnd, TypeOK, Logout, Answer
  <1> QED
    BY <1>1, <1>2, <1>3 DEF Next, Expire, Fail, Rest, vars, tables

\* A session that is live and not expired ends by its own logout or by a reset or
\* disable of its account, never by a cleanup, a bootstrap or somebody's login.
THEOREM SessionsEndOnlyForAReason == Spec => SessionsEndForAReason
  <1> DEFINE Step == \A l \in Logins : session[l] = "live" /\ l \notin aged /\ session'[l] # "live" =>
                       \/ \E g \in Calls : l \in uses[g] /\ reply[g] = "none" /\ reply'[g] = "left"
                       \/ \E c \in Commands : /\ order[c].name = tries[l].name /\ Revokes(c)
                                              /\ reply[c] = "none" /\ reply'[c] = "changed"
  <1>1. AccessInv /\ [Next]_vars => [Step]_vars
    BY SessionsStay
  <1>2. Spec => [][Step]_vars
    BY <1>1, AccessInvariant, PTL DEF Spec
  <1> QED
    BY <1>2 DEF SessionsEndForAReason

-----------------------------------------------------------------------------
(* Nobody waits in a circle                                                  *)

\* Who holds something is where its handler holds it, and only there.
HoldersAreBusy ==
  /\ \A x \in Logins \cup Commands : pc[x] \notin {"asking", "acting"}
  /\ \A a \in Admins : \A x \in rowLock[a] : x \in Logins \cup Commands /\ pc[x] \in Checking \cup {"changing"}
  /\ \A l \in slots : pc[l] \in {"verifying", "rehashing"}
  /\ \A c \in bootLock : pc[c] = "booting"

\* What needs nothing that another login or command may hold: the rest of a
\* handler that has all it asks for, or a password check while a slot is free.
Goes(x) ==
  \/ pc[x] \in {"verifying", "rehashing", "opening", "changing", "booting"}
  \/ pc[x] \in {"waiting", "valid"} /\ Cardinality(slots) < Slots

\* Whoever ends holds nothing any more, and whoever holds something is busy still.
LEMMA EndBusy ==
  ASSUME TypeOK, HoldersAreBusy, NEW x, NEW a, End(x, a)
  PROVE  HoldersAreBusy'
  BY DEF TypeOK, HoldersAreBusy, End, Goto

\* A login goes on, and takes a slot or gives it back.
LEMMA MovesBusy ==
  ASSUME TypeOK, HoldersAreBusy, NEW l \in Logins, UNCHANGED <<rowLock, bootLock>>,
         pc'[l] \in Checking, \A x \in Actors \ {l} : pc'[x] = pc[x],
         \/ slots' = slots \ {l}
         \/ slots' = slots \cup {l} /\ pc'[l] \in {"verifying", "rehashing"}
  PROVE  HoldersAreBusy'
  <1>1. \A x \in Logins \cup Commands : pc'[x] \notin {"asking", "acting"}
    BY DEF HoldersAreBusy, Checking
  <1>2. \A a \in Admins : \A x \in rowLock'[a] : x \in Logins \cup Commands /\ pc'[x] \in Checking \cup {"changing"}
    BY DEF HoldersAreBusy
  <1>3. \A k \in slots' : pc'[k] \in {"verifying", "rehashing"}
    BY DEF HoldersAreBusy, TypeOK
  <1>4. \A c \in bootLock' : pc'[c] = "booting"
    <2> SUFFICES ASSUME NEW c \in bootLock PROVE pc'[c] = "booting"
      OBVIOUS
    <2>1. c \in Commands /\ c \in Actors /\ c # l
      BY ActorsAssumption DEF TypeOK, Actors
    <2> QED
      BY <2>1 DEF HoldersAreBusy
  <1> QED
    BY <1>1, <1>2, <1>3, <1>4, Zenon DEF HoldersAreBusy

LEMMA LoginBusy ==
  ASSUME AccessInv, HoldersAreBusy, NEW l \in Logins, LoginStep(l)
  PROVE  HoldersAreBusy'
  <1>0. TypeOK
    BY DEF AccessInv
  <1>1. CASE LoginLook(l)
    BY <1>0, <1>1 DEF TypeOK, HoldersAreBusy, LoginLook, RowFree, Goto, Checking, Credentials
  <1>2. CASE LoginSlot(l)
    <2>1. UNCHANGED <<rowLock, bootLock>> /\ slots' = slots \cup {l}
      BY <1>2 DEF LoginSlot
    <2>2. pc'[l] \in {"verifying", "rehashing"} /\ \A x \in Actors \ {l} : pc'[x] = pc[x]
      BY <1>0, <1>2 DEF TypeOK, LoginSlot, Goto
    <2> QED
      BY <1>0, <2>1, <2>2, MovesBusy DEF Checking
  <1>3. CASE LoginVerify(l)
    <2>1. ASSUME NEW a, End(l, a) PROVE HoldersAreBusy'
      BY <1>0, <2>1, EndBusy
    <2>2. CASE slots' = slots \ {l} /\ UNCHANGED <<rowLock, bootLock>> /\ \E p \in {"valid", "opening"} : Goto(l, p)
      <3>1. pc'[l] \in {"valid", "opening"} /\ \A x \in Actors \ {l} : pc'[x] = pc[x]
        BY <1>0, <2>2 DEF TypeOK, Goto
      <3> QED
        BY <1>0, <2>2, <3>1, MovesBusy DEF Checking
    <2> QED
      BY <1>3, <2>1, <2>2 DEF LoginVerify
  <1>4. CASE LoginRehash(l)
    BY <1>0, <1>4 DEF TypeOK, HoldersAreBusy, LoginRehash, Goto, Checking
  <1>5. CASE LoginOpen(l)
    BY <1>0, <1>5, EndBusy DEF LoginOpen
  <1> QED
    BY <1>1, <1>2, <1>3, <1>4, <1>5 DEF LoginStep

LEMMA CommandBusy ==
  ASSUME AccessInv, HoldersAreBusy, NEW c \in Commands, CommandStep(c)
  PROVE  HoldersAreBusy'
  <1>0. TypeOK
    BY DEF AccessInv
  <1>1. CASE CommandLook(c)
    <2>1. PICK o \in Orders :
            \/ End(c, "refused")
            \/ /\ rowLock' = IF account[o.name].exists THEN [rowLock EXCEPT ![o.name] = {c}] ELSE rowLock
               /\ pc' = [pc EXCEPT ![c] = "changing"]
               /\ UNCHANGED <<bootLock, slots>>
      BY <1>1 DEF CommandLook, Goto
    <2>2. CASE End(c, "refused")
      BY <1>0, <2>2, EndBusy
    <2>3. CASE /\ rowLock' = IF account[o.name].exists THEN [rowLock EXCEPT ![o.name] = {c}] ELSE rowLock
               /\ pc' = [pc EXCEPT ![c] = "changing"]
               /\ UNCHANGED <<bootLock, slots>>
      <3>1. pc[c] = "idle" /\ pc'[c] = "changing" /\ \A x \in Actors \ {c} : pc'[x] = pc[x]
        BY <1>0, <1>1, <2>3 DEF TypeOK, CommandLook
      <3>2. \A a \in Admins : rowLock'[a] = rowLock[a] \/ rowLock'[a] = {c}
        BY <1>0, <2>3 DEF TypeOK
      <3> QED
        BY <1>0, <2>3, <3>1, <3>2 DEF TypeOK, HoldersAreBusy, Checking
    <2> QED
      BY <2>1, <2>2, <2>3
  <1>2. CASE BootstrapLock(c)
    BY <1>0, <1>2 DEF TypeOK, HoldersAreBusy, BootstrapLock, Goto, Checking
  <1>3. CASE BootstrapLook(c)
    BY <1>3 DEF HoldersAreBusy, BootstrapLook, locks
  <1>4. CASE CommandChange(c) \/ CommandCreate(c) \/ CleanupSessions(c) \/ BootstrapCreate(c)
    BY <1>0, <1>4, EndBusy DEF CommandChange, CommandCreate, CleanupSessions, BootstrapCreate
  <1> QED
    BY <1>1, <1>2, <1>3, <1>4 DEF CommandStep

LEMMA StepBusy ==
  ASSUME AccessInv, HoldersAreBusy, [Next]_vars
  PROVE  HoldersAreBusy'
  <1>0. TypeOK
    BY DEF AccessInv
  <1>1. ASSUME NEW g \in Calls, ReadNote(g) \/ CallStep(g) PROVE HoldersAreBusy'
    <2>1. UNCHANGED locks /\ \A x \in Logins \cup Commands : pc'[x] = pc[x]
      BY <1>0, <1>1 DEF TypeOK, ReadNote, CallStep, Identify, SaveNote, Logout, Goto
    <2> QED
      BY <1>0, <2>1 DEF TypeOK, HoldersAreBusy, locks
  <1>2. CASE (\E l \in Logins : Expire(l)) \/ Rest \/ UNCHANGED vars
    BY <1>2 DEF Expire, Rest, HoldersAreBusy, vars, locks
  <1>3. ASSUME NEW x \in Logins \cup Commands, Fail(x) PROVE HoldersAreBusy'
    BY <1>0, <1>3, EndBusy DEF Fail
  <1> QED
    BY <1>1, <1>2, <1>3, LoginBusy, CommandBusy DEF Next

\* Logins and commands never wait for one another in a circle: as long as one of
\* them is under way, one has all it needs to go on, and when none is, no row, no
\* advisory lock and no slot is held by any of them.
THEOREM NobodyWaitsInACircle ==
  Spec => [](\/ \E x \in Logins \cup Commands : Goes(x)
             \/ /\ \A x \in Logins \cup Commands : pc[x] \in {"idle", "done"}
                /\ (\A a \in Admins : RowFree(a)) /\ bootLock = {} /\ slots = {})
  <1> DEFINE Free == \/ \E x \in Logins \cup Commands : Goes(x)
                     \/ /\ \A x \in Logins \cup Commands : pc[x] \in {"idle", "done"}
                        /\ (\A a \in Admins : RowFree(a)) /\ bootLock = {} /\ slots = {}
  <1>1. Init => HoldersAreBusy
    BY DEF Init, HoldersAreBusy
  <1>2. AccessInv /\ HoldersAreBusy /\ [Next]_vars => HoldersAreBusy'
    BY StepBusy
  <1>3. AccessInv /\ HoldersAreBusy => Free
    <2> SUFFICES ASSUME TypeOK, HoldersAreBusy, ~\E x \in Logins \cup Commands : Goes(x)
                 PROVE  /\ \A x \in Logins \cup Commands : pc[x] \in {"idle", "done"}
                        /\ (\A a \in Admins : RowFree(a)) /\ bootLock = {} /\ slots = {}
      BY DEF AccessInv
    <2>1. slots = {}
      BY DEF HoldersAreBusy, Goes, TypeOK
    <2>2. Cardinality(slots) < Slots
      BY <2>1, FS_EmptySet
    <2>3. \A x \in Logins \cup Commands : pc[x] \in {"idle", "done"}
      BY <2>2 DEF TypeOK, HoldersAreBusy, Goes
    <2>4. \A a \in Admins : rowLock[a] = {}
      BY <2>3 DEF HoldersAreBusy, Checking
    <2>5. bootLock = {}
      BY <2>3 DEF HoldersAreBusy, TypeOK
    <2> QED
      BY <2>1, <2>3, <2>4, <2>5 DEF RowFree
  <1>4. Spec => []Free
    BY <1>1, <1>2, <1>3, AccessInvariant, PTL DEF Spec
  <1> QED
    BY <1>4
=============================================================================
