# Refraction LAB: TLA+ models, checks and proofs

These modules model the parts of the repository in which order, concurrency or
failure decide whether the program is right: the intake and storage of client
requests, the form that sends them, the administrators' accounts and their web
application, the rate limiter, the deployment tool and the renewal of certificates. Each module is written from the source under
`src/`; `PROJECT.json` names, for every definition, the lines it stands for.

To check a run: `tlc -config <cfg> <module>MC.tla`. To check the proofs:
`tlapm <module>Proofs.tla` (eight modules, named in section 5).

## 1. Inventory

| Part | State it keeps | Operations | What is hard about it |
|---|---|---|---|
| Lead intake and storage (`service.py`, `storage.py`, `admin_service.py`, `cleanup.py`) | tables `leads`, `lead_files`; directories `staging/`, `objects/`, `trash/`; advisory locks | `accept_brief`, `remove`, `download`, `recover`, `cleanup_orphans` | two stores without a common transaction; three kinds of lock; crashes, failing calls, commits that raise although they took effect, sessions that PostgreSQL ends |
| Public form (`apps/web/app/page.tsx`) and its endpoints (`main.py`) | draft, attempt key, form status, signed cookie | open, close, edit, clear, submit, reload; `GET /api/brief/session`, `POST /api/brief` | lost and late answers, repeats, a cookie that changes between two sends |
| Telegram notification (`telegram.py`) | none | `notify` | comes between the commit and the answer |
| Administrator accounts (`admin_auth.py`, `admin_bootstrap.py`, `admin_cli.py`, `admin_routes.py`) | tables `admins`, `admin_sessions`; note versions; Argon2 slots | `login`, `identity`, `logout`, `manage`, `bootstrap`, note edits | row locks, an advisory lock and a semaphore together; logins that verify while an account is reset |
| Administrative reading API (`list_leads`, `detail`) | none | queries | the total and the page come from two statements, pages from separate requests |
| Rate limiting (`security.py`) | an ordered table of buckets | `RateLimiter.check` | eviction order, window edges, the clock read outside the lock |
| Deployment tool (`remote.py`) | lock file, `settings.json`, releases, database volume, links | `deploy` | stops anywhere, and is run again |
| Deployment client (`client.py`, `release.py`) | none on the server | configuration, packaging, upload, one SSH command | gives up while the tool goes on |
| HTTP layer (`main.py`) | the pool of database connections | guard, headers, error answers | handlers wait for a connection, then for locks with it |
| Validation (`validation.py`), file types (`filetypes.py`) | none | pure checks | |
| Schema and migrations | the tables | Alembic upgrade | old code on a new schema, new code on an old one |
| Administrative web application (`apps/admin`) | page state: address, list, lead, note text and its state, loading, error, busy | list, page, detail, note, reload, delete, login | aborted and late answers, reads that replace what is being written, flags that nothing takes back |
| TLS certificate hooks (`scripts/deploy/tls`) | certificate and key in `shared/tls` | stop and start of the proxy, two renames | no lock shared with deployments |
| Proxy, containers, local stack, settings | configuration | | |

How they interact. The form sends a request with an `Idempotency-Key` and a
cookie through the guard (which asks the limiter) to `accept_brief`. Uploads,
removals and downloads are handlers of one API process and share the disk and
the storage lock with `cleanup_orphans`, which runs as a process of its own, at
the end of every deployment too. A removal frees the key and the browser of its
lead, which the form may then use again. The deployment tool starts the
database, the migrations and the API; the initial accounts and the cleanup run
in the container it has just replaced, and it replaces the proxy, which the certificate
hooks stop and start. The administrators' pages read lists and leads while other
administrators and visitors change them. Administrators' logins, account commands
(processes of their own) and the bootstrap meet in the table `admins`.

What makes each part correct:

- storage: accepted bytes are never lost; what was answered "deleted" is gone;
  a stream keeps its file; cleanup takes nothing that is being written; nothing
  is left behind; everyone is answered;
- intake: no two leads share a key or a browser; locks do not cycle; from
  outside, a request takes effect at one instant or not at all;
- form: it thanks only for what was saved; one draft makes one lead and one
  announcement; it never stays locked;
- accounts: no session survives a reset or disable, none ends for nothing, no
  password is undone, no note overwritten unread, nobody waits for ever;
- limiter: it stays bounded, a burst is bounded, `Retry-After` is honest, nobody
  is turned away while a bucket is dead;
- deployment: secrets always open the database, there is one database, code
  meets no older schema, links follow the switches, "ready" is true;
- renewal: the proxy is not left stopped afterwards, and serves the pair that is installed;
- administrative pages: the list is the one of the address, paging misses nothing
  that stays in the list,
  "Saved" stands beside what is stored, no note is overwritten unread, what loads
  ends loading.

## 2. Modules

### LeadRegister: what the intake promises

The abstract specification: requests carry a key, a browser and a payload; a
request is accepted, is a repeat, a conflict, comes from a browser that has a
lead already, is rejected or breaks, in one step. Leads can be deleted, which
frees their keys. `Accept` may answer "error": a commit that takes effect and
raises. Two modules use it: LeadStorage implements it, BriefForm is its client.

### LeadStorage: rows, bytes and locks

| State | Code |
|---|---|
| `leads`, `rows` | committed rows of `leads` and `lead_files` |
| `dir`, `bytes`, `aged` | where an upload's directory is, where each attachment is, directories past the grace period |
| `shared`, `exclusive`, `holds`, `lost` | the storage lock in its two forms, key and browser locks, sessions ended by the server |
| `pc`, `reply` | where a handler is, what it has answered |
| `todo`, `restore`, `unlink` | the pass over `trash/` or over the selected rows |
| `area`, `visit`, `at` | the sweep of a cleanup |

Each action is one database call, one disk call or one end of a transaction,
in the order of the code: an upload goes `LockShared`, `Stage`, `AcquireKeyLock`
(once per lock, in order of the ids), `Refuse` or `InsertLead`, `Promote`,
`CommitUpload`, `Discard`; a removal goes `LockExclusive`, recovery, `SelectFiles`,
`Quarantine` per file, `CommitRemoval`, a second exclusive transaction that
purges, or a repairing one after an error; a download recovers under the
exclusive lock, then opens and streams under the shared one; a cleanup recovers
and sweeps two directories. `Fail`, `Drop`, `Crash` and the ambiguous commits are
the faults of the set `Faults`.

Abstractions. An upload's batch directory and its lead directory have one name,
since the rename carries one to the other. Attachments are names; type and size
checks are the refusal `FileRefused`. The random identifiers are distinct, so the
unique constraints and the "exists already" errors of the storage cannot occur and
are covered by `Fail`. The listing of `trash/` is taken when the lock is granted
(only the lock's holder and handlers with a lost session write there). `rmtree`
is one step. A disk call that took effect and then raised is its action followed
by `Fail`. The ids of key and browser locks may coincide, as hashes may. Requests
are one-shot. A crash kills the API process with all its handlers, or one cleanup;
the tables and directories survive it. Loss of power, and so `fsync`, is not
modelled.

### StoragePool: handlers, connections and the storage lock

LeadStorage extended by `connected`, the requests that hold a connection of the API's
pool. `Checkout` takes one in a stage that waits for a lock (`Waiting`); `Pooled`, joined
to every step of LeadStorage, grants the storage lock only over a connection, and
`Kept` gives the connection back when the transaction ends: between the two
transactions of a removal, after the recovery of a download, at the end of its stream.
A cleanup has a pool of its own. The pool's limit of 30 seconds is `Fail` in a
waiting stage.

There are then three things to wait for: a connection, the storage lock, a key lock.
`NoGridlock` says that not everybody under way waits for another handler to give one of them
back, and `PoolInv` is the invariant behind it.

### BriefForm: the form, the network and the two endpoints

One browser with its tabs and cookie in front of the register. `Open`, `Close`,
`Edit`, `ClearDraft`, `Submit` and `Reload` are what the visitor does; `ServeCheck`,
`GuardRefuses`, `ServePost`, `Notify` what the server does; `CheckAnswered`,
`CheckFails`, `PostAnswered`, `GiveUp` what the page does with an answer, a failure
or its 90-second timer; a request that was given up may still be served. A draft is
a version number; a key is named after the send that first carried it, a cookie
after the answer that set it. The honeypot is left out: a filled one is answered
"ok" without being saved, and the field is hidden from visitors. Whether a cookie is
valid is evaluated when the request leaves. `Editable` stands for the rendering:
the reply step is disabled while the form sends, and Enter submits on that step only,
so no field can change under a send. `Notify` may fail without effect; a process
that dies before it leaves the message unannounced (telegram.py: no retries).

### BriefSystem: the form in front of the storage

LeadStorage and BriefForm together. What BriefForm keeps of a request (`brief`, `wire`) is
here an expression of the storage's state: a request is out while its handler has not
answered, and the answer is the handler's. Each step belongs to one side: `PageStep` is
the page or the visitor, `SendStep` a request that leaves, `GuardStep` the guard that
refuses it, `NotifyStep` the call to Telegram, and `StorageStep` any step of LeadStorage, in
which removals, downloads, cleanups and faults have their turn. Handlers run only for what was
sent and passed the guard. The commit decides an answer; it reaches the page when the
handler is done with its staging directory (`Leaves`). The requests of LeadStorage have
their key, browser and content from the start, so `Carries` says what the form's sends are
going to carry; a behaviour in which they carry something else is one for another value
of the constant.

### AdminAccess: accounts, sessions, notes

`LoginLook` takes the row lock, `LoginSlot` and `LoginVerify` an Argon2 slot,
`LoginRehash` a second one after the first was given back, `LoginOpen` inserts the
session and commits. Commands (`create`, `reset-password`, `disable`, `enable`,
`cleanup-sessions`, bootstrap) are processes of their own and do not use the API's
slots; a bootstrap takes its advisory lock (`BootstrapLock`), looks at one account after the
other (`BootstrapLook`) and commits what it adds (`BootstrapCreate`); `list` only reads. Outdated Argon2 parameters are the flag `weak`. `Identify`
and the act that follows are two steps, as in the code: a request that was
authorised when it arrived is carried out. `End` is the end of a transaction.
Origin, CSRF and password length checks are refusals without state and are left out.

### RateLimiter

`ReadClock` is outside the lock, `Check` inside, as in the code. Time is in ticks, a
second is `Second` of them, so windows that are no whole number of seconds occur.
The histories `admitted` (an address's last twice `Limit` admissions, newest first) and
`promised` go by the clock as it was read.

### Deployment

`remote.py` stage by stage with its lock, `settings.json`, `release.env`, volume,
schema, containers and links, and `client.py` around it (`Refuse`, `Send`, `Hear`,
`Lose`). The generated secrets are named after the deployment that drew them.
`Fail` may come before or after any stage: a failure without and with its effect. The stage
"application-health" is three steps, because Compose awaits health in the middle of it
(`depends_on` with `service_healthy`): `ApplicationUp` replaces the containers, `StartProxy`
starts the new proxy once api, frontend and admin are healthy, `AwaitHealth` waits for its own
health. A deployment may fail between any two of them. A
client that has lost its tool leaves it running, or failing at the next line it
prints. The lock is not waited for: a second deployment gives up. A manual rollback
is not modelled, nor a `docker compose` child that outlives a killed tool.

### TlsRenewal: certbot and the proxy beside deployments

Deployment extended by the two files of the certificate, the run of certbot and the
proxy. `Pre`, `CopyFiles`, `MoveChain`, `MoveKey` and `Post` are the three hooks, line by
line where an order matters; `Renew` is certbot. `Deploying` is any step of Deployment with
what it does to the proxy: `Replaced` removes the old container and makes a new one that is not
started (`Created`), `ProxyStarts` starts it, `ProxyHealthy` ends the wait for it, and the others
leave it alone (`ProxyLeftAlone`). The hooks may come in between: `Post` starts every container of
its project that does not run, a new one included. `ReplaceFails` is a failure after the api was
replaced and before the proxy is. nginx reads its files when
it starts (`Started`); one that fails is started again by Docker (`NginxRestarts`), one
that was stopped by `docker stop` is not, not even by a restart of the server (`Die`).
Certificates are numbers, so a pair that does not fit is two different ones. The hooks
look for one project name (`Ours`). With `HTTP_TEST_MODE` there is no certificate and
no renewal; that is Deployment itself.

### AdminConsole: the administrative pages

| State | Code |
|---|---|
| `at`, `next`, `shell` | the page of the tab, `?next=` of the login page, the session check of `Shell` |
| `error`, `loading`, `query`, `result` | the states of `Requests` and of the address |
| `flight` | its request: sent, counted, answered, or refused with the body still coming |
| `lead`, `text`, `noteState`, `deleting`, `doing`, `loads` | the states of `RequestDetail`; `doing` is `busy` and what for, `loads` its reads (at opening, after a deletion, by the reload button) |
| `inbox`, `log`, `files` | the server: the leads there are, versions of the note of the one, attachments of all |
| `posted` | changes that are on their way, also when nobody waits for them any more |

`Mount` is a page that starts afresh, with none of the state of another; a request that
is out then still reaches the server (`Abandon`). `ChangeQuery` is the effect of `Requests`:
it aborts the request before and sends the next. `CountLeads` and `SelectPage` are the two
statements of `list_leads`, between which leads may come in; `ServeLoad` is `detail`,
`ServeNote` and `ServeDelete` are the routes behind `Save` and `ConfirmDelete`, which may
be handled after the page has given them up (`ChangeFails`) or never. `Arrive`,
`OthersSave` and `OthersDelete` are everybody else. The note is one `UPDATE`, the
deletion one step here: what happens inside it is LeadStorage. Which filters a search
asks for is the set of leads it selects by what never changes of a lead (`Matches`), whether it
asks for attachments (`HasFiles`), which is answered by those there are (`Selected`, `Attached`),
and its order; validation of filters is a refusal like any other. Deleting what is gone already
is answered like any deletion. The order is that of the constant `CreatedAt`, which puts
`created_at` and, for leads of one instant, `id` into one number; a page is the set of
leads of the list with so many others before them (`Ahead`). The history variables `repeated`, `walk`, `known` and
`crossed` are read by properties only.

### MC modules

`LeadStorageMC`, `StoragePoolMC`, `BriefFormMC`, `BriefSystemMC`, `AdminAccessMC`, `AdminConsoleMC`,
`RateLimiterMC`, `DeploymentMC` and `TlsRenewalMC` give the constants their small values and the symmetry sets.

## 3. Runs

| Run | Config | Distinct states | Question and result |
|---|---|---|---|
| `intake` | Intake.cfg | 160,609 | Four uploads that share keys and browsers, lock ids coinciding crosswise, commits that may raise after taking effect, sessions that PostgreSQL may end. Check-then-insert stays unique, sorted locks never cycle, the register is implemented. |
| `removal` | Removal.cfg | 1,163,045 | One upload of two files, two removals, one download, one cleanup; crashes, failing calls, ambiguous commits. Nothing accepted is lost, nothing deleted remains, a stream keeps its file, recovery leaves nothing pending. |
| `cleanup` | Cleanup.cfg | 63,443 | Two uploads whose lock ids coincide crosswise, a removal, a download and a cleanup over two connections, without faults, under fairness. Running writes are spared, nothing is left over, there is no gridlock, everyone is answered. |
| `cleanup_race` | Race.cfg | violation | A cleanup dies on a staging directory that vanishes under it, with no fault at all. |
| `stale_recovery` | Stale.cfg | violation | With a lost session, a removal answers success while the bytes are in `objects/`. |
| `form` | Form.cfg | 508,129 | One tab, two sends, two checks, two drafts, an expiry and a deletion. |
| `form_retry` | FormRetry.cfg | violation | The form in front of the storage: an unchanged retry is told that its key was used with different content. |
| `admin` | Admin.cfg | 498,642 | Two logins, two commands of any kind, two calls, one account, one Argon2 slot, failures anywhere. |
| `limiter` | Limiter.cfg | 2,946,827 | Three addresses for two buckets over two windows back to back. |
| `console` | Console.cfg | 806,226 | One tab, two leads with an attachment each and two that may come in, one with, on pages of one, the plain list and a search for leads with attachments, two changes by anybody, requests aborted, refused or late. |
| `deploy` | Deploy.cfg | 1,393,995 | Three deployments, or two beside two runs of certbot; two project names, an old release after new ones, stopping anywhere, clients that give up. |
| `deploy_failure` | DeployFailure.cfg | violation | A deployment that is reported as failed has changed a link. |

Bounds and why they are enough.

- *Storage.* The hazards are pairwise: an upload against a cleanup, a removal
  against a removal, a recovery or a stream. Every pair occurs in a run, with a
  third party where a third matters (the second removal or the download that
  recovers between the two transactions of a removal). Two files let a removal
  stop half-way. Four uploads on two keys and two browsers give every coincidence
  of key, browser and payload and a crosswise coincidence of lock ids. In `cleanup` two
  connections serve four handlers, so that they run out while a handler that holds one
  waits for the storage lock of one that has to ask for another; the two uploads compete for
  both of their key locks.
  Lost sessions occur in `intake`; beside cleanups and removals they are in no passing
  run: that accepted bytes survive them is proved for every instance, and
  `stale_recovery` shows what does not.
- *Form.* A second send is what a retry is; a second check is what a reopened form
  is; two drafts tell a repeat from an edit. One tab: tabs meet only in the cookie,
  whose change between two sends one tab brings about by itself.
- *Accounts.* Every actor locks one row at most, so all contention is on one
  account; the proofs are for any number. Two logins contend for one slot, two
  commands for the row, the advisory lock and the unique username.
- *Limiter.* A window of three ticks with two ticks to a second and a horizon of
  six: two windows back to back, whole and fractional seconds to wait. Three
  addresses overfill a table of two. (Before `admitted` was cut to what the property
  reads, the horizon was eight; nothing else was found there, and the proofs are for any.)
- *Deployment.* Two failed or successful predecessors are what a deployment can
  tell apart (`current` and `previous`), in every order and on both names.
- *Renewal.* Two runs of certbot beside two deployments; where certbot has run, the third
  deployment of the configuration is never asked for (the constraint `ThirdAlone`), so that
  `deploy` explores three deployments alone and two beside two renewals. One run
  is not enough: the proxy of a project that the hooks do not look for serves the
  installed pair until the second renewal installs another (see section 5).
- *Console.* Two leads and two that may come in, in front, between or behind, one to a page, give a first, a middle, a
  last and an empty page. Two changes (`MaxChanges`) are a save and what overtakes it; two
  versions of a note and a third tell a stale version from the current one. One reload
  may be out at a time beside the read after a deletion. A plain address (newest first)
  and one search (oldest first, leads with attachments) are two addresses with different lists; the
  second loses a lead by the deletion of an attachment, too. A search for leads without
  attachments, which gains one by it, is left to the proof.

Deadlock is checked where a system has an end state (`Rest` lets it stay there). It
is not checked in `limiter`, where the clock stops at the horizon, nor in `deploy`,
where a tool that stopped is not run again, nor in `form_retry`, where the visitor has
used up the sends.

`BriefSystem` is checked on one instance for finding 3; its other properties are proved
(section 5). To see them checked as well, put `ThankedMeansStored`, `OneRowPerDraft` and
`SystemInv` under INVARIANTS and `ImplementsForm` under PROPERTIES of FormRetry.cfg in place of
`RetryIsSafe`, with `Removals = {"r1"}`, `Faults = {"io", "ambiguous", "drop"}`, `MaxDrafts = 2`
and `MaxDeletions = 1`: they hold in 280,140 distinct states.

Symmetry is used where actors are interchangeable: in `admin`, logins, commands and
calls get what they are given while they run; in `removal`, the removals and the two
attachments of the one lead; in `limiter`, addresses are only compared; in `deploy`,
the two releases with the newer schema. No run with symmetry checks liveness.

Fairness. LeadStorage: weak fairness per request, i.e. a running handler goes on, a
lock that is free is granted, and a client reads or closes its stream some time (the
code sets no limit on a stream, see the hazards). Requests are one-shot, so a lock
that is waited for is in the end free for good. BriefForm: the page's 90-second
timer runs out, and a browser ends a fetch some time. Nothing else is assumed; the
server owes the form no answer at all. StoragePool: as LeadStorage, and the pool serves
those who wait (weak fairness on `Checkout`; requests are one-shot, so nobody
overtakes them for ever). AdminConsole: a list request ends, with an answer or an error
(weak fairness on `ListArrives \/ ListFails`): the proxy gives an upstream 100 seconds
(`https.conf.template:53`) and then answers itself. A user owes the page nothing.

## 4. Findings

1. **`cleanup_race`.** `accept_brief` discards its staging directory after its
   transaction, hence without the storage lock; a cleanup between `is_dir()` and
   `stat()` (`service.py:80`) ends with `FileNotFoundError`, and with it the
   deployment stage that runs it. The comment at `service.py:27` says that cleanup
   "cannot race active writes".
2. **`stale_recovery`.** When PostgreSQL ends a session, the recovery that held the
   exclusive lock may still move a file out of the trash of a later removal, which
   then answers success (`admin_service.py:111`: "No success response until bytes
   have actually been purged").
3. **`form_retry`.** Shown on the form in front of the storage, without any fault. The payload hash covers the browser. A send without a valid cookie,
   saved but unanswered, and repeated unchanged after the session check has brought a
   cookie, is answered `idempotency_conflict`
   (`docs/architecture/system.md:16`: the key makes a network retry safe).
4. **`deploy_failure`.** `previous` and `current` are replaced before "ready" is
   printed; a stop in between is reported as a failure that retained everything
   (`docs/operations/deployment.md:14`: an error before `ready` changes no link).

Observed while modelling and not recorded as findings, because no document, comment or
test of the repository says otherwise; each is an exemption that its property names:

- With two threads, as the administrators' login limiter is used, the older clock reading
  may be inserted later and `TurnedAwayOnlyWhenFull` fails. It takes 10,000 addresses in
  one window to matter.
- A search with the filters of the address sets `loading` and asks nothing: "Loading
  requests" stays until another query (`repeated` in `LoadingEnds`).
- A request that is aborted while the body of its error answer is read ends in an
  ordinary error, shown for the next query, and no link of the list ever clears an error
  (`AbortedLate`): a list that has arrived stays hidden until a search or a reload.
- "Reload latest note" is not disabled while a save is out; crossed answers leave "Saved"
  beside a text that is not the stored one (`crossed` in `SavedIsStored`). No note is
  overwritten unread by it.
- A lead that comes in between the two statements of `list_leads` can make the last page
  look like the end (`WalkMissesNothing` gives the walk up there).
- Offset paging skips a lead when one before it drops out of the list. In a search for leads
  with attachments that takes no deleted lead: deleting the last attachment of one is enough
  (`WalkGoesOn`).
- Compose has removed the old proxy before it awaits the health of api, frontend and admin. If
  one of them stays unhealthy, the new proxy is made and not started, and the site is without
  one until the next deployment, or until the next run of certbot starts it, if it is the hooks'
  own (`Absent`, `Created` in `ProxyIsBack`).
- The hooks name the project `refraction`, whatever the configuration calls it, and a
  deployment that replaces the proxy between the hooks leaves it with the certificate it
  found (`Ours`, `overtaken` in `ProxyIsBack`): a proxy of another project goes on with the
  certificate of its last start, renewal after renewal. A kill between the two renames leaves a
  pair that nginx refuses.

## 5. Proofs

All for every value of the constants, from the assumptions named in the modules
(`ConstantsAssumption`, `PoolAssumption`, `ActorsAssumption`, `ValuesAssumption`,
`BoundsAssumption`, `DeploysAssumption`, `RenewalAssumption`, `ConsoleAssumption`). Some
theorems are conditional on the constants, and each condition is needed:

| Condition | Theorems | Why the code meets it, and what happens without |
|---|---|---|
| `NothingDrops`: `"drop" \notin Faults` | `SessionInvariant`, `DeletedIsPurged`, `StreamsAreUndisturbed`, `RecoveryCompletes`, `CleanupsSpareWrites` | PostgreSQL ends no session of a handler at work. Crashes, failing calls and ambiguous commits are allowed. With a lost session the run `stale_recovery` refutes `DeletedMeansPurged`: finding 2. |
| `NoFaults`: `Faults = {}` | `LeftInvariant` | A fault leaves files for the next cleanup; `NoLeftovers` speaks of fault-free systems only, so `NothingIsLeftOver` needs no condition. |
| `SendsAreUploads` | `SystemImplementsForm`, `DraftsMakeOneRow`, `ThankedIsStored` | It defines the composition: the uploads are the form's sends, and the storage calls the same what the form calls the same. |
| `Form!BoundsAssumption` | `DraftsMakeOneRow`, `ThankedIsStored` | There is a tab, and the bounds are natural numbers. |
| `OneThread` | `WindowsInvariant`, `BurstsAreBounded`, `TurnedAwayForAReason` | The public guard runs in the event loop. The login limiter is called from threads of a pool, whose readings of the clock may be older than what is in the table; then both properties fail. |

**LeadStorageProofs.** `TypeCorrect`; `StorageInvariant`; `AcceptedBytesAreKept`.
That an accepted attachment is in place or in trash is not inductive: a recovery that
is about to unlink a file must know that no row will point to it (`UnlinksDead`,
`TouchesOnlyOld`), an upload's commit that its files followed its directory
(`UploadFiles`), a cleanup about to delete that its directory has no lead and gets
none (`SweepsOrphans`), which rests on the storage lock being held by whoever has
not lost its session (`LockHeld`), and a removal that takes a lead takes all its
files (`TargetWhole`, `RowsOwned`). `StorageInv` is their conjunction. It holds under
every fault, lost sessions included: the removal looks its rows up again after it
moved anything, and an upload with a lost session cannot commit.

While no session is lost, more is true (`SessionInv`): the exclusive lock has one holder
and nobody shares it (`OneHolder`); each handler claims what it has selected, moved and has
still to do (`Claims`: what is in trash belongs to the removal at work, or to one that
failed and to the recovery that is emptying it); a file of a known lead without a row is no
longer in its directory (`GoneIsGone`). The argument is rely and guarantee: a step of one
request moves nobody else (`Alone`) and harms nobody's claim (`Harmless`), so each action is
shown once for its own claim and `OthersKeep` does the rest. From it follow `DeletedIsPurged`,
`StreamsAreUndisturbed`, `RecoveryCompletes` and the action property `CleanupsSpareWrites`.
`LeftInv` adds, for a system without faults, who still has to clear every staging
directory, every object without a row and the trash; when all are served there is none.

**LeadIntakeProofs.** `IntakeInvariant`, `LeadsAreUnique`,
`StorageImplementsRegister`. Two uploads never hold one lock id (`KeyLocksExclusive`),
an upload that has inserted holds all of its own (`InsertedHoldLocks`), so rivals of an
inserted upload wait, and what its lookups found stays true until it commits
(`InsertedUnrivalled`). Coinciding lock ids only make more uploads wait. For the
refinement, steps of other requests are *foreign* (they touch no upload's answer and
at most delete leads) and therefore a deletion or a stutter of the register; an
upload's own steps are an answer, the commit or a stutter. `LocksNeverCycle`: who waits
for a lock holds smaller ids only (`HoldsInOrder`), so along a circle of whatever length the
ids would grow for ever: those in it who wait for a greater lock than one's own become fewer
with each step along it, and there are finitely many (`SortedNeverCycle`).
`PoolIsStorage`: a behaviour over the pool of connections is one of LeadStorage, a handler
that waits for a connection being a stutter, and `PoolKeepsPromises` carries the theorems
over to what the run `cleanup` checks with two connections.
`PoolInvariant` and `NeverGridlocked`: who holds the storage lock or a key lock is inside its
transaction (`HoldersAtWork`), and a handler of the API that is inside one has its connection
(`Pool`). Whoever is inside its transaction waits for key locks at most, hence for somebody who is
inside one too; there is no circle of those, so if anybody is inside one, somebody goes on. If nobody
is, the storage lock is free, and all who are under way wait for a connection that they do not
have. But then all connections are out, and who has one is under way: a contradiction. No
condition is needed, since a session that is lost only frees locks.

**BriefSystemProofs.** `SystemInvariant`: handlers serve what was sent and let through, and what
was ever committed is there or some removal was asked to take it (`EverTraced`). This is an
addition to the storage's invariants, which say that bytes follow their rows, not why rows go.
`SystemImplementsForm`: every step of the system is one of BriefForm or a stutter. A step that
answers an upload is `ServePost`, because the storage implements the register
(`StorageImplementsRegister` gives `Serve`, `ServeForm` carries it over the renaming
of keys); one that takes a lead away is a deletion; everything else the storage does the form does
not see. A handler answers once (`ServesOnce`), which is what the form's invariant needs
to tell answers apart. The theorems of BriefFormProofs then hold of the system, and with
those of LeadStorageProofs and LeadIntakeProofs they end in what neither module could
say alone: `DraftsMakeOneRow` and `ThankedIsStored`. The page thanks for a send only if there is a
lead with its key and content whose rows and bytes are stored, or an administrator has asked for
their removal: under every fault, lost sessions included.

**AdminAccessProofs.** `AccessInvariant`, `AccessTypeCorrect`, `SessionsAreCurrent`,
`NotesAreKept`, `OnlyResetsChangePasswords`, `SessionsEndOnlyForAReason`. The invariant says
that a row lock has one holder (`OneHolder`), that a login past its lookup and a command
about to change an account hold the row (`ReadsHold`, `CommandsHold`), and that what a login
has read is still so (`ReadsHold`) and was right (`ReadsValid`). A login that commits a
session has therefore verified the present password of an active account.
`NobodyWaitsInACircle` is the part of `NobodyStuck` that can be said without ENABLED: who
holds a row, the advisory lock or a slot is under way (`HoldersAreBusy`), so if no login or
command has what its next step needs, none is under way and nothing is held.

**AdminConsoleProofs.** `ConsoleInvariant`, `NoNoteIsOverwrittenUnread`. That a save replaces
a version the page has had rests on where the page's lead comes from: a read, whose
version becomes known as it is shown (`LoadsFit`), or the answer of a save (`DoingFits`),
which is an answer to this page's save and not to a deletion, because the page waits for
one request at most and that is the one it is busy with (`OneWaited`, `RefreshFits`). Every
save on its way then carries a known version (`PostedFits`). `ConsoleInv` is their
conjunction. `StoredInv` says where notes come from: the log of the server only grows, so a
version that was read, sent or answered stays stored with its note (`Stored`), and
while a save is out only a reload changes the text (`SavingFits`); hence `SavedIsAlwaysStored`.
`ListInv` says that at most one request is out, for the address, and that off the list there
is none (`FlightFits`, `PageIsEmpty`); hence `ListAlwaysFits`. `WalksMissNothing` rests on a
count: a lead that the walk has not met has at least as many leads before it as the pages
seen hold (`AfterFirst`). As long as no lead drops out of what the
search selects (`WalkGoesOn`), that number only grows (`AheadGrows`), and a
lead of the list has fewer before it than the list has leads (`AheadIsLess`), so while one is
not met there is a next page.

**BriefFormProofs.** `FormInvariant`, `FormTypes`, `ShownIsSaved`, `DraftsMakeOneLead`,
`AnnouncementsAreOfLeads`, `KeysAreNotReused`. The core is that keys and drafts stand for each
other across every tab and send (`KeysStandForDrafts`, `DraftsStandForKeys`), that a draft belongs
to one tab (`DraftsAreOwn`), and that the register keeps what it promises in front of a network
that delays and repeats (`RegisterHolds`). An answer that a page takes for its own is one to its
own draft (`PagesAreTold`).

**RateLimiterProofs.** For any number of threads: `LimiterInvariant`, `LimiterTypes`,
`TableStaysBounded`, `RetryIsHonest` (a bucket outlives no promise made about it:
`PromisesKept`). For one thread: `WindowsInvariant` - the table is sorted by expiry
(`InOrder`), so eviction from the front finds every dead bucket, and a bucket counts just the
admissions of its window (`Paced`) - hence `BurstsAreBounded` and `TurnedAwayForAReason`.

**DeploymentProofs.** `DeploymentInvariant`, `DeploymentTypes`, `SecretsAlwaysFit`,
`OneDatabaseEver`, `SchemaAlwaysReady`, `LinksAlwaysFollow`, `ReadyAlwaysTrue`. The lock leaves one
deployment between "locked" and "linked" (`OneAtATime`); the settings are written once, so every
value in memory, every `release.env` and the one volume agree with them (`OneConfiguration`); what
a stage has established is never taken back (`StagesHold`, `LinkedAreUsable`).

The same module proves TlsRenewal, which extends Deployment: `RenewalInvariant`,
`ProxyAlwaysBack`, `DeploymentsBesideRenewals`. Whatever keeps the proxy from
being up has somebody to end it (`WhoItWaitsFor`): a proxy the hooks stopped waits for their post
hook, which will find it; a proxy that is not there or was not started waits for the deployment
whose containers are there, which is at "replaced" or has failed there; and during a run of the hooks
only a deployment brings theirs up. So `Post` leaves none stopped. The deployments' invariant holds beside renewals too, although an
unfit pair of files may fail a deployment after its containers were replaced.

What the proofs changed. `ProxyIsBack` said of every proxy that it serves the installed
pair. No invariant could be found for it because it was false: with a second run of certbot a
proxy of another project than the hooks look for serves the pair before (the run had one
renewal). It now says so of the hooks' own proxy, and the run has two. `admitted` and `inbox`
were sequences of unlimited length and of listed leads; they are now the readings the property
needs and a set with an order, which say the same and can be reasoned about.

While the model replaced and started the proxy in one step, `ProxyIsBack` said that the proxy is
up, which the code does not promise: it now says which deployment has yet to start it, or failed to.
`WalkMissesNothing` spoke of filters that select the same leads for ever, and now speaks of what
they select at the time.

`NoLockCycle` spoke of two uploads that wait for each other; two sorted requests cannot, but
neither does that exclude three. It now speaks of circles of any length.

Before each proof TLC checked the invariants on the instances above.

Only model-checked: liveness (`Answered`, `FormComesBack`, `LoadingEnds`), which is out of this
prover's reach, and `NobodyStuck` itself, which speaks of ENABLED. Every other property of a
passing run is stated by a theorem. Recursion over data does not occur in the modules; what
induction the proofs need (a least natural number: `RateLimiterProofs!Least`, `SortedNeverCycle`) is
taken from the library's theorem about well-founded sets, which has no operator parameter.
That the limiter's variables have their types is proved (`LimiterTypes`) and no longer checked by
a run.

## 6. Not modelled, and why

- Settings, headers and the health endpoint keep no state.
- The single checks of `validation.py`, `filetypes.py` and `load_config`, and the
  file walk of `release.py`, are data; they appear as a refusal.
- `client_ip` parses headers; nothing depends on its order.
- The landing page, the layout of the form, focus handling and wording.
- Proxy, containers and local tools are configuration of third-party programs; Deployment
  and TlsRenewal name what they assume of PostgreSQL, Alembic, nginx, Docker and certbot.
- The worker threads of the API. The synchronous routes, what blocks in the endpoints of
  `main.py` and every chunk of a stream share one pool of them. Handlers that wait for a
  connection or the storage lock keep a thread each, so many of them may hold up a stream that
  they wait for; those that wait for a connection give up after the 30 seconds of the pool. That a
  stream goes on is fairness in StoragePool.
- Several tabs of the administrative application: they meet on the server only, where
  another tab is another administrator (`OthersSave`, `OthersDelete`).

## 7. Plan

Written, in this order: LeadStorage with LeadRegister and their proofs; BriefForm on the
register; AdminAccess with its proofs; RateLimiter; Deployment; StoragePool on LeadStorage;
TlsRenewal on Deployment; AdminConsole with its proofs; the proofs of BriefForm, RateLimiter,
Deployment and TlsRenewal, and of what LeadStorage and AdminConsole had left; the absence of
gridlock over the pool; BriefSystem, which composes the form with the storage, and its proofs.

Left of the model, pure algorithms: the BIFF record walk of `filetypes.check_ole` against
a reference definition of a well-formed workbook; the allowlist of `release.py` against
the refusals of `extract_release`.

Left of the proofs: for the login limiter, the bound on bursts by two threads that read the
clock at most one request apart.
