------------------------------ MODULE Deployment ------------------------------
(***************************************************************************)
(* scripts/deploy/remote.py on the server, started by client.py over SSH:  *)
(* what a deployment leaves behind when it stops at any point, what the    *)
(* next one makes of it, and what the client is told.  A deployment stands *)
(* for its release too: the release identifier is new each time, and       *)
(* releases are never removed.                                             *)
(***************************************************************************)
EXTENDS Integers, Sequences, FiniteSets, SequencesExt

CONSTANTS Deploys,   \* runs of the tool; also the releases they bring
          Projects,  \* COMPOSE_PROJECT_NAME values a configuration may name
          SchemaOf,  \* the last migration a release ships, per release
          None       \* no release, no secret, no settings

\* The secrets are named after the deployment that drew them.
Settings == [project : Projects, secret : Deploys]

ASSUME DeploysAssumption ==
  /\ SchemaOf \in [Deploys -> Nat]
  /\ None \notin Deploys \cup Projects \cup Settings

VARIABLES
  lock,      \* who holds the flock on .deploy.lock
  settings,  \* shared/settings.json: the project and the generated secrets
  env,       \* releases/<d>/release.env: the settings a release runs under
  volume,    \* per project, the secrets its database was initialised with
  schema,    \* the migration its database is at
  running,   \* the release whose api container is there
  current, previous,  \* the links
  asked,     \* the project a deployment's payload names
  values,    \* what a deployment holds in memory
  pc,        \* the stage a deployment has completed
  client,    \* what the client of a deployment is doing or has been told
  before,    \* history: the links when it began
  switched   \* history: the releases that became current, in order

links == <<current, previous>>
machine == <<volume, schema, running>>
vars == <<lock, settings, env, machine, links, asked, values, pc, client, before, switched>>

Init ==
  /\ lock = {} /\ settings = None
  /\ env = [d \in Deploys |-> None]
  /\ volume = [p \in Projects |-> None] /\ schema = [p \in Projects |-> 0]
  /\ running = None /\ current = None /\ previous = None
  /\ asked \in [Deploys -> Projects]
  /\ values = [d \in Deploys |-> None]
  /\ pc = [d \in Deploys |-> "idle"]
  /\ client = [d \in Deploys |-> "local"]
  /\ before = [d \in Deploys |-> <<None, None>>] /\ switched = <<>>

Stage(d, from, to) == pc[d] = from /\ pc' = [pc EXCEPT ![d] = to]

-----------------------------------------------------------------------------
(* The client                                                                *)

\* load_config, the packing or the connection refuses: nothing reaches the server.
Refuse(d) ==
  /\ client[d] = "local"
  /\ client' = [client EXCEPT ![d] = "failed"]
  /\ UNCHANGED <<lock, settings, env, machine, links, asked, values, pc, before, switched>>

\* The release is packed and uploaded with the settings, and the tool started.
Send(d) ==
  /\ client[d] = "local"
  /\ client' = [client EXCEPT ![d] = "waiting"]
  /\ UNCHANGED <<lock, settings, env, machine, links, asked, values, pc, before, switched>>

\* Mutant: the end of the output is taken for success.
ExitStatusUnread(d) == pc[d] \in {"ready", "failed"}

\* recv_exit_status() = 0: the tool ran to its end.
ExitStatus(d) == pc[d] = "ready"

\* The tool has ended and its exit status is read.
Hear(d) ==
  /\ client[d] = "waiting" /\ pc[d] \in {"ready", "failed"}
  /\ client' = [client EXCEPT ![d] = IF ExitStatus(d) THEN "ready" ELSE "failed"]
  /\ UNCHANGED <<lock, settings, env, machine, links, asked, values, pc, before, switched>>

\* The half hour is over, or the connection breaks, if only when the uploads are
\* removed at the end.  The tool may not have begun, or go on unheard.
Lose(d) ==
  /\ client[d] = "waiting"
  /\ client' = [client EXCEPT ![d] = "failed"]
  /\ UNCHANGED <<lock, settings, env, machine, links, asked, values, pc, before, switched>>

-----------------------------------------------------------------------------
(* The server                                                                *)

\* LOCK_EX | LOCK_NB: a deployment that finds another one gives up at once.
Begin(d) ==
  /\ client[d] = "waiting"
  /\ \/ lock = {} /\ lock' = {d} /\ Stage(d, "idle", "locked")
     \/ lock # {} /\ UNCHANGED lock /\ Stage(d, "idle", "failed")
  /\ before' = [before EXCEPT ![d] = links]
  /\ UNCHANGED <<settings, env, machine, links, asked, values, client, switched>>

\* Mutant: no secret is drawn on a first deployment.
MergedOnly(d) == [project |-> asked[d], secret |-> IF settings = None THEN None ELSE settings.secret]

\* What is on the server, the payload over it, and a secret if there is none.
Merged(d) == [project |-> asked[d], secret |-> IF settings = None THEN d ELSE settings.secret]

\* Mutant: the project name is not compared with the one in use.
PersistUnchecked(d) ==
  /\ Stage(d, "locked", "persisted")
  /\ values' = [values EXCEPT ![d] = Merged(d)]
  /\ settings' = Merged(d)
  /\ UNCHANGED <<lock, env, machine, links, asked, client, before, switched>>

\* Mutant: the settings are read but not saved.
PersistNothing(d) ==
  /\ Stage(d, "locked", "persisted")
  /\ settings # None => settings.project = asked[d]
  /\ values' = [values EXCEPT ![d] = Merged(d)]
  /\ UNCHANGED <<lock, settings, env, machine, links, asked, client, before, switched>>

\* settings.json is read, checked, completed and replaced before anything runs.
Persist(d) ==
  /\ Stage(d, "locked", "persisted")
  /\ settings # None => settings.project = asked[d]
  /\ values' = [values EXCEPT ![d] = Merged(d)]
  /\ settings' = Merged(d)
  /\ UNCHANGED <<lock, env, machine, links, asked, client, before, switched>>

\* Docker is installed if it is missing, and asked whether it works.
InstallDocker(d) ==
  /\ Stage(d, "persisted", "docker")
  /\ UNCHANGED <<lock, settings, env, machine, links, asked, values, client, before, switched>>

\* A directory of its own for the release, and the archive into it.
ExtractRelease(d) ==
  /\ Stage(d, "docker", "extracted")
  /\ UNCHANGED <<lock, settings, env, machine, links, asked, values, client, before, switched>>

\* release.env keeps the settings beside the code, for a manual rollback.
Snapshot(d) ==
  /\ Stage(d, "extracted", "configured")
  /\ env' = [env EXCEPT ![d] = values[d]]
  /\ UNCHANGED <<lock, settings, machine, links, asked, values, client, before, switched>>

\* Certificates, the composed configuration, and the images.
Images(d) ==
  /\ Stage(d, "configured", "unpacked")
  /\ UNCHANGED <<lock, settings, env, machine, links, asked, values, client, before, switched>>

\* The first start on a project's volume initialises it with the secrets.
DatabaseUp(d) ==
  /\ Stage(d, "unpacked", "database")
  /\ LET p == env[d].project
     IN  volume' = IF volume[p] = None THEN [volume EXCEPT ![p] = env[d].secret] ELSE volume
  /\ UNCHANGED <<lock, settings, env, schema, running, links, asked, values, client, before, switched>>

\* The database only answers to its own secrets.
Reaches(d) == volume[env[d].project] = env[d].secret

\* Alembic only goes forward, and does not know a revision of a later release.
Upgradable(d) == schema[env[d].project] <= SchemaOf[d]

\* All the migrations that are missing, in one transaction.
Migrate(d) ==
  /\ Stage(d, "database", "migrated")
  /\ Reaches(d) /\ Upgradable(d)
  /\ schema' = [schema EXCEPT ![env[d].project] = SchemaOf[d]]
  /\ UNCHANGED <<lock, settings, env, volume, running, links, asked, values, client, before, switched>>

\* Mutant: the new containers start beside the migrations.
ApplicationUpEarly(d) ==
  /\ pc[d] \in {"database", "migrated"} /\ running # d
  /\ running' = d
  /\ pc' = IF pc[d] = "migrated" THEN [pc EXCEPT ![d] = "replaced"] ELSE pc
  /\ UNCHANGED <<lock, settings, env, volume, schema, links, asked, values, client, before, switched>>

\* Compose replaces the containers of api, frontend, admin and proxy first ...
ApplicationUp(d) ==
  /\ Stage(d, "migrated", "replaced")
  /\ running' = d
  /\ UNCHANGED <<lock, settings, env, volume, schema, links, asked, values, client, before, switched>>

\* ... starts the proxy when the other three are healthy, which the api is if it
\* reaches the database ...
StartProxy(d) ==
  /\ Stage(d, "replaced", "started")
  /\ running = d /\ Reaches(d)
  /\ UNCHANGED <<lock, settings, env, machine, links, asked, values, client, before, switched>>

\* ... and waits until the proxy is healthy too.
AwaitHealth(d) ==
  /\ Stage(d, "started", "serving")
  /\ UNCHANGED <<lock, settings, env, machine, links, asked, values, client, before, switched>>

\* Initial accounts and orphan cleanup, both through the api container.
Verify(d) ==
  /\ Stage(d, "serving", "verified")
  /\ running = d /\ Reaches(d)
  /\ UNCHANGED <<lock, settings, env, machine, links, asked, values, client, before, switched>>

\* Mutant: the link is resolved after the new release took its place.
LinkPreviousItself(d) ==
  /\ Stage(d, "verified", "linking")
  /\ previous' = d
  /\ UNCHANGED <<lock, settings, env, machine, current, asked, values, client, before, switched>>

LinkPrevious(d) ==
  /\ Stage(d, "verified", "linking")
  /\ previous' = IF current = None THEN previous ELSE current
  /\ UNCHANGED <<lock, settings, env, machine, current, asked, values, client, before, switched>>

LinkCurrent(d) ==
  /\ Stage(d, "linking", "linked")
  /\ current' = d /\ switched' = Append(switched, d)
  /\ UNCHANGED <<lock, settings, env, machine, previous, asked, values, client, before>>

\* "ready" is printed and the process ends.
Ready(d) ==
  /\ Stage(d, "linked", "ready")
  /\ lock' = lock \ {d}
  /\ UNCHANGED <<settings, env, machine, links, asked, values, client, before, switched>>

\* A stage fails, with or without its effect, the printing of its name to a
\* closed connection included, or the process is killed.
Fail(d) ==
  /\ pc[d] \notin {"idle", "ready", "failed"}
  /\ pc' = [pc EXCEPT ![d] = "failed"]
  /\ lock' = lock \ {d}
  /\ UNCHANGED <<settings, env, machine, links, asked, values, client, before, switched>>

\* The steps that leave the containers of the application alone.
Elsewhere(d) ==
  \/ Refuse(d) \/ Send(d) \/ Hear(d) \/ Lose(d)
  \/ Begin(d) \/ Persist(d) \/ InstallDocker(d) \/ ExtractRelease(d) \/ Snapshot(d) \/ Images(d)
  \/ DatabaseUp(d) \/ Migrate(d)
  \/ Verify(d) \/ LinkPrevious(d) \/ LinkCurrent(d) \/ Ready(d) \/ Fail(d)

Next == \E d \in Deploys : Elsewhere(d) \/ ApplicationUp(d) \/ StartProxy(d) \/ AwaitHealth(d)

Spec == Init /\ [][Next]_vars

-----------------------------------------------------------------------------
(* Properties                                                                *)

\* Every variable keeps its type.
TypeOK ==
  /\ lock \subseteq Deploys /\ settings \in Settings \cup {None}
  /\ env \in [Deploys -> Settings \cup {None}]
  /\ volume \in [Projects -> Deploys \cup {None}] /\ schema \in [Projects -> Nat]
  /\ {running, current, previous} \subseteq Deploys \cup {None}
  /\ asked \in [Deploys -> Projects] /\ values \in [Deploys -> Settings \cup {None}]
  /\ pc \in [Deploys -> {"idle", "locked", "persisted", "docker", "extracted", "configured", "unpacked", "database", "migrated",
                         "replaced", "started", "serving", "verified", "linking", "linked", "ready", "failed"}]
  /\ client \in [Deploys -> {"local", "waiting", "ready", "failed"}]
  /\ switched \in Seq(Deploys)

\* "Generated on the server once" (docs/operations/deployment.md:14): whatever
\* deployments failed and wherever, every release can still open the database.
SecretsFitTheVolume ==
  \A d \in Deploys, p \in Projects :
    env[d] # None /\ env[d].project = p /\ volume[p] # None => env[d].secret = volume[p]

\* "Changing project name would select different data volumes" (remote.py:119):
\* retries included, no server ever gets a second database.
OneDatabase == Cardinality({p \in Projects : volume[p] # None}) <= 1

\* The code that serves, that of a failed deployment included, and the code the
\* links name never meet a schema older than the one they were written for.
SchemaIsReady ==
  \A d \in {running, current, previous} \ {None} : SchemaOf[d] <= schema[env[d].project]

\* "previous: preceding successful release" (docs/operations/deployment.md:21):
\* the links name the last two releases that were switched to, but for a
\* deployment that is between its two links, or died there.
LinksFollowHistory ==
  LET n == Len(switched)
      between == \E d \in Deploys : pc[d] \in {"linking", "failed"} /\ d \notin ToSet(switched)
  IN  /\ current = IF n = 0 THEN None ELSE switched[n]
      /\ \/ previous = IF n < 2 THEN None ELSE switched[n - 1]
         \/ between /\ previous = current

\* "Deployment ready" (client.py:216) is never said in vain: the release was
\* switched to, its migrations are in, and its secrets open the database.
ReadyIsTrue ==
  \A d \in Deploys : client[d] = "ready" =>
    d \in ToSet(switched) /\ Reaches(d) /\ SchemaOf[d] <= schema[env[d].project]

\* "An error before ready does not change a symlink" (docs/operations/deployment.md:14).
FailureKeepsLinks ==
  [][\A d \in Deploys : pc[d] # "failed" /\ pc'[d] = "failed" /\ d \in lock => links = before[d]]_vars
=============================================================================
