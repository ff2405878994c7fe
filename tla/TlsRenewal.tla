----------------------------- MODULE TlsRenewal -----------------------------
(***************************************************************************)
(* The renewal of the certificate beside deployments: certbot with the     *)
(* hooks of scripts/deploy/tls, the two files of the proxy's certificate,  *)
(* and the proxy container, which the hooks stop and start and which each  *)
(* deployment replaces.  Renewals and deployments share no lock.           *)
(* Certificates are numbered; file and proxy hold the number they come     *)
(* from.  The server is one with HTTP_TEST_MODE=false.                     *)
(***************************************************************************)
EXTENDS Deployment

CONSTANTS HookProject,  \* the project whose containers the hooks look for
          MaxRenewals   \* bound: runs of certbot that find a renewal due

ASSUME RenewalAssumption == HookProject \in Projects /\ MaxRenewals \in Nat

VARIABLES
  renewals, issued,  \* runs so far; the certificate certbot holds
  chain, key,        \* fullchain.pem and privkey.pem in shared/tls
  hook,              \* how far the run in progress is
  proxy,             \* what the proxy does: a certificate's number if it serves
  overtaken          \* history: a deployment started the proxy during the last run

certificate == <<renewals, issued, chain, key, hook, overtaken>>
renewalVars == <<vars, certificate, proxy>>

Down == 0 - 1     \* the hooks stopped it
Failing == 0 - 2  \* it is started again and again: nginx refuses the pair
Absent == 0 - 3   \* there is no container yet
Created == 0 - 4  \* a deployment replaced it and has not started the new one
Up == proxy \notin {Down, Absent, Created}
Served == {n \in {proxy} : n >= 0}

RenewalInit ==
  /\ Init
  /\ renewals = 0 /\ issued = 0 /\ chain = 0 /\ key = 0
  /\ hook = "idle" /\ proxy = Absent /\ overtaken = FALSE

\* nginx reads the two files when it starts, and only then.
Started == IF chain = key THEN chain ELSE Failing

-----------------------------------------------------------------------------
(* Deployments                                                               *)

\* The old container is removed and a new one made, whose mounts name the release.
Replaced(d) == ApplicationUp(d) /\ proxy' = Created /\ UNCHANGED overtaken

\* It depends on the health of the other services.  A post hook may have started it.
ProxyStarts(d) ==
  /\ StartProxy(d)
  /\ proxy' = IF Up THEN proxy ELSE Started
  /\ overtaken' = (overtaken \/ hook \notin {"idle", "dead"})

\* A proxy that is stopped, or refuses its files, is not healthy: the wait fails.
ProxyHealthy(d) == AwaitHealth(d) /\ Served # {} /\ UNCHANGED <<proxy, overtaken>>

ProxyLeftAlone(d) == Elsewhere(d) /\ UNCHANGED <<proxy, overtaken>>

Deploying ==
  /\ \E d \in Deploys : Replaced(d) \/ ProxyStarts(d) \/ ProxyHealthy(d) \/ ProxyLeftAlone(d)
  /\ UNCHANGED <<renewals, issued, chain, key, hook>>

\* The replacement itself fails between the api and the proxy, which stays as it was.
ReplaceFails(d) ==
  /\ Stage(d, "migrated", "failed")
  /\ running' = d /\ lock' = lock \ {d}
  /\ UNCHANGED <<settings, env, volume, schema, links, asked, values, client, before, switched>>
  /\ UNCHANGED <<certificate, proxy>>

\* The restart policy starts a failing nginx again.
NginxRestarts ==
  /\ proxy = Failing /\ chain = key /\ proxy' = chain
  /\ UNCHANGED <<vars, certificate>>

-----------------------------------------------------------------------------
(* A renewal                                                                 *)

HookStage(from, to) == hook \in from /\ hook' = to
\* The hooks name the project, whatever the configuration calls it.
Ours == running # None /\ env[running].project = HookProject

\* certbot-pre.sh: docker stop for the running containers, to free port 80.
Pre ==
  /\ HookStage({"idle", "dead"}, "stopped")
  /\ renewals < MaxRenewals /\ renewals' = renewals + 1
  /\ proxy' = IF Ours /\ Up THEN Down ELSE proxy
  /\ overtaken' = FALSE
  /\ UNCHANGED <<vars, issued, chain, key>>

\* certbot answers the challenge on port 80 itself.
Renew ==
  /\ HookStage({"stopped"}, "issued")
  /\ Served = {}
  /\ issued' = issued + 1
  /\ UNCHANGED <<vars, renewals, chain, key, proxy, overtaken>>

\* certbot-deploy.sh: both files are copied beside the old ones ...
CopyFiles ==
  /\ HookStage({"issued"}, "copied")
  /\ UNCHANGED <<vars, renewals, issued, chain, key, proxy, overtaken>>

\* ... and renamed over them one after the other.
MoveChain ==
  /\ HookStage({"copied"}, "chain")
  /\ chain' = issued
  /\ UNCHANGED <<vars, renewals, issued, key, proxy, overtaken>>

MoveKey ==
  /\ HookStage({"chain"}, "installed")
  /\ key' = issued
  /\ UNCHANGED <<vars, renewals, issued, chain, proxy, overtaken>>

\* The challenge or a command of the deploy hook fails; the post hook is still run.
RenewalFails ==
  /\ HookStage({"stopped", "issued", "copied", "chain"}, "failed")
  /\ UNCHANGED <<vars, renewals, issued, chain, key, proxy, overtaken>>

\* Mutant: only running containers are looked for.
PostRunningOnly ==
  /\ HookStage({"installed", "failed"}, "idle")
  /\ UNCHANGED <<vars, renewals, issued, chain, key, proxy, overtaken>>

\* certbot-post.sh: docker start for all containers, one that was never started
\* included; one that runs is left alone.
Post ==
  /\ HookStage({"installed", "failed"}, "idle")
  /\ proxy' = IF Ours /\ proxy \in {Down, Created} THEN Started ELSE proxy
  /\ UNCHANGED <<vars, renewals, issued, chain, key, overtaken>>

\* certbot is killed, or the server goes down: a container that was stopped by
\* hand stays stopped (restart: unless-stopped), any other reads the files again.
Die ==
  /\ hook \notin {"idle", "dead"} /\ hook' = "dead"
  /\ UNCHANGED proxy \/ (proxy \notin {Down, Absent} /\ proxy' = Started)
  /\ UNCHANGED <<vars, renewals, issued, chain, key, overtaken>>

Renewing == Pre \/ Renew \/ CopyFiles \/ MoveChain \/ MoveKey \/ RenewalFails \/ Post \/ Die

RenewalNext == Deploying \/ (\E d \in Deploys : ReplaceFails(d)) \/ NginxRestarts \/ Renewing
RenewalSpec == RenewalInit /\ [][RenewalNext]_renewalVars

-----------------------------------------------------------------------------
(* Properties                                                                *)

\* "... and restart only the proxy" (docs/operations/deployment.md:38): once a
\* run of certbot is over, failed or not, the proxy is not left stopped.  There is
\* none, or a new one that was never started, only while the deployment whose
\* containers are there awaits the health of the others, or after it failed.  And
\* if the proxy is the hooks' own and is up, it serves the certificate that is
\* installed, unless a deployment started it during the run; a pair that does not
\* fit, left by a deploy hook that failed, stops it.
ProxyIsBack ==
  hook = "idle" /\ running # None =>
    /\ proxy # Down
    /\ proxy \in {Absent, Created} => pc[running] \in {"replaced", "failed"}
    /\ Ours => proxy \in {Absent, Created, Failing, chain} \/ overtaken
=============================================================================
