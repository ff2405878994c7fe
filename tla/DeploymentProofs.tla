-------------------------- MODULE DeploymentProofs --------------------------
(***************************************************************************)
(* Proofs about Deployment, for any number of releases, projects and       *)
(* schemas: the invariants that hold whatever stage fails or is killed.    *)
(* The argument: the lock leaves one deployment at a time between "locked" *)
(* and "linked"; the settings are written once, so every value in memory,  *)
(* every release.env and the one volume agree with them; what a stage has  *)
(* established is never taken back.                                        *)
(*                                                                         *)
(* At the end, renewals beside deployments: a run of certbot does not      *)
(* leave the proxy stopped.  Only the pre hook stops it, and only if it is *)
(* its own; which project runs never changes, so the post hook finds it    *)
(* again.  A proxy that is not up without the hooks is one that the last   *)
(* deployment replaced: that deployment still waits, or has failed.        *)
(***************************************************************************)
EXTENDS TlsRenewal, FiniteSetTheorems, SequenceTheorems, TLAPS

\* The stages, grouped by what a deployment that has completed them knows.
WithLinks == {"linked", "ready"}
WithSchema == {"migrated", "replaced", "started", "serving", "verified", "linking"} \cup WithLinks
WithDatabase == {"database"} \cup WithSchema
WithEnv == {"configured", "unpacked"} \cup WithDatabase
WithValues == {"persisted", "docker", "extracted"} \cup WithEnv
Underway == ({"locked"} \cup WithValues) \ {"ready"}
AllStages == {"idle", "failed"} \cup Underway \cup {"ready"}

\* The release can run: it has the settings, the database has its secrets and
\* a schema that is new enough.
Usable(d) ==
  /\ settings # None /\ env[d] = settings
  /\ volume[settings.project] = settings.secret
  /\ SchemaOf[d] <= schema[settings.project]

\* The lock is held by the deployment that is under way, and by one at most.
OneAtATime ==
  /\ \A d \in Deploys : d \in lock <=> pc[d] \in Underway
  /\ \A d, e \in lock : d = e

\* The settings are the only ones there ever were.
OneConfiguration ==
  /\ \A d \in Deploys : values[d] # None => values[d] = settings
  /\ \A d \in Deploys : env[d] # None => env[d] = settings
  /\ \A p \in Projects : volume[p] # None =>
       settings # None /\ p = settings.project /\ volume[p] = settings.secret

\* What a deployment has completed is still so.
StageHolds(d) ==
  /\ pc[d] \in WithValues => settings # None /\ values[d] = settings
  /\ pc[d] \in WithEnv => env[d] = settings
  /\ pc[d] \in WithDatabase => volume[settings.project] = settings.secret
  /\ pc[d] \in WithSchema => Usable(d)
  /\ pc[d] \in WithLinks => d \in ToSet(switched)
  /\ d \in ToSet(switched) => pc[d] \in WithLinks \cup {"failed"}
  /\ pc[d] = "linking" => previous = current
  /\ client[d] = "ready" => pc[d] = "ready"

StagesHold == \A d \in Deploys : StageHolds(d)

\* Every release that serves or is linked can run.
LinkedAreUsable ==
  /\ \A d \in {running, current, previous} \ {None} : Usable(d)
  /\ \A d \in ToSet(switched) : Usable(d)

\* What one deployment does in a step of Next.
Step(d) == Elsewhere(d) \/ ApplicationUp(d) \/ StartProxy(d) \/ AwaitHealth(d)

\* The inductive invariant.
DInv ==
  /\ TypeOK /\ OneAtATime /\ OneConfiguration /\ StagesHold /\ LinkedAreUsable /\ LinksFollowHistory

-----------------------------------------------------------------------------
(* Types                                                                     *)

\* Every step of a deployment keeps the types.
LEMMA TypeStep == ASSUME TypeOK, StagesHold, NEW d \in Deploys PROVE Step(d) => TypeOK'
<1> USE DeploysAssumption DEF links, machine
<1>1. Refuse(d) => TypeOK'
  BY DEF TypeOK, Refuse, Stage
<1>2. Send(d) => TypeOK'
  BY DEF TypeOK, Send, Stage
<1>3. Hear(d) => TypeOK'
  BY DEF TypeOK, Hear, Stage, ExitStatus
<1>4. Lose(d) => TypeOK'
  BY DEF TypeOK, Lose, Stage
<1>5. Begin(d) => TypeOK'
  <2> SUFFICES ASSUME Begin(d) PROVE TypeOK'  OBVIOUS
  <2>1. lock' \subseteq Deploys /\ pc' \in [Deploys -> AllStages]
    <3>1. lock' \in {{d}, lock}  BY DEF Begin
    <3>2. pc' \in {[pc EXCEPT ![d] = "locked"], [pc EXCEPT ![d] = "failed"]}  BY DEF Begin, Stage
    <3> QED BY <3>1, <3>2 DEF TypeOK, Stage, AllStages, Underway, WithValues, WithEnv, WithDatabase, WithSchema, WithLinks
  <2> QED BY <2>1 DEF TypeOK, Begin, AllStages, Underway, WithValues, WithEnv, WithDatabase, WithSchema, WithLinks
<1>6. Persist(d) => TypeOK'
  BY DEF TypeOK, Persist, Stage, Merged, Settings
<1>7. InstallDocker(d) => TypeOK'
  BY DEF TypeOK, InstallDocker, Stage
<1>8. ExtractRelease(d) => TypeOK'
  BY DEF TypeOK, ExtractRelease, Stage
<1>9. Snapshot(d) => TypeOK'
  BY DEF TypeOK, Snapshot, Stage
<1>10. Images(d) => TypeOK'
  BY DEF TypeOK, Images, Stage
<1>11. DatabaseUp(d) => TypeOK'
  <2> SUFFICES ASSUME DatabaseUp(d) PROVE TypeOK'  OBVIOUS
  <2>1. env[d] \in Settings  BY DEF DatabaseUp, Stage, StagesHold, StageHolds, WithEnv, WithDatabase, WithSchema, WithValues, TypeOK
  <2> QED BY <2>1 DEF TypeOK, DatabaseUp, Stage, Settings
<1>12. Migrate(d) => TypeOK'
  <2> SUFFICES ASSUME Migrate(d) PROVE TypeOK'  OBVIOUS
  <2>1. env[d] \in Settings  BY DEF Migrate, Stage, StagesHold, StageHolds, WithEnv, WithDatabase, WithSchema, WithValues, TypeOK
  <2> QED BY <2>1 DEF TypeOK, Migrate, Stage, Settings
<1>13. ApplicationUp(d) => TypeOK'
  BY DEF TypeOK, ApplicationUp, Stage
<1>19. StartProxy(d) => TypeOK'
  BY DEF TypeOK, StartProxy, Stage
<1>20. AwaitHealth(d) => TypeOK'
  BY DEF TypeOK, AwaitHealth, Stage
<1>14. Verify(d) => TypeOK'
  BY DEF TypeOK, Verify, Stage
<1>15. LinkPrevious(d) => TypeOK'
  BY DEF TypeOK, LinkPrevious, Stage
<1>16. LinkCurrent(d) => TypeOK'
  BY DEF TypeOK, LinkCurrent, Stage
<1>17. Ready(d) => TypeOK'
  BY DEF TypeOK, Ready, Stage
<1>18. Fail(d) => TypeOK'
  BY DEF TypeOK, Fail, Stage
<1> QED BY <1>1, <1>2, <1>3, <1>4, <1>5, <1>6, <1>7, <1>8, <1>9, <1>10, <1>11, <1>12, <1>13, <1>14, <1>15, <1>16, <1>17, <1>18, <1>19, <1>20
  DEF Step, Elsewhere

-----------------------------------------------------------------------------
(* One deployment at a time                                                  *)

\* The lock is taken when there is none and let go with the process.
LEMMA LockStep == ASSUME TypeOK, OneAtATime, NEW d \in Deploys PROVE Step(d) => OneAtATime'
<1> USE DEF AllStages, Underway, WithValues, WithEnv, WithDatabase, WithSchema, WithLinks
<1>1. Refuse(d) \/ Send(d) \/ Hear(d) \/ Lose(d) => OneAtATime'
  BY DEF Refuse, Send, Hear, Lose, OneAtATime
<1>2. Begin(d) => OneAtATime'
  <2> SUFFICES ASSUME Begin(d) PROVE OneAtATime'  OBVIOUS
  <2>1. CASE lock = {}
    <3>1. lock' = {d} /\ pc[d] = "idle" /\ pc' = [pc EXCEPT ![d] = "locked"]  BY <2>1 DEF Begin, Stage
    <3> QED BY <2>1, <3>1 DEF OneAtATime, TypeOK
  <2>2. CASE lock # {}
    <3>1. lock' = lock /\ pc[d] = "idle" /\ pc' = [pc EXCEPT ![d] = "failed"]  BY <2>2 DEF Begin, Stage
    <3> QED BY <3>1 DEF OneAtATime, TypeOK
  <2> QED BY <2>1, <2>2
<1>3. Ready(d) \/ Fail(d) => OneAtATime'
  <2> SUFFICES ASSUME Ready(d) \/ Fail(d) PROVE OneAtATime'  OBVIOUS
  <2>1. /\ pc[d] \in Underway /\ lock' = lock \ {d}
        /\ pc' \in {[pc EXCEPT ![d] = "ready"], [pc EXCEPT ![d] = "failed"]}
    BY DEF Ready, Fail, Stage, TypeOK
  <2> QED BY <2>1 DEF OneAtATime, TypeOK
<1>4. ASSUME NEW from \in AllStages, NEW to \in AllStages,
             from \in Underway, to \in Underway, Stage(d, from, to), lock' = lock
      PROVE OneAtATime'
  BY <1>4 DEF OneAtATime, TypeOK, Stage
<1>5. Persist(d) \/ InstallDocker(d) \/ ExtractRelease(d) \/ Snapshot(d) \/ Images(d) => OneAtATime'
  BY <1>4 DEF Persist, InstallDocker, ExtractRelease, Snapshot, Images
<1>6. DatabaseUp(d) \/ Migrate(d) \/ ApplicationUp(d) \/ StartProxy(d) \/ AwaitHealth(d)
      \/ Verify(d) \/ LinkPrevious(d) \/ LinkCurrent(d) => OneAtATime'
  BY <1>4 DEF DatabaseUp, Migrate, ApplicationUp, StartProxy, AwaitHealth, Verify, LinkPrevious, LinkCurrent
<1> QED BY <1>1, <1>2, <1>3, <1>5, <1>6 DEF Step, Elsewhere

-----------------------------------------------------------------------------
(* One configuration                                                         *)

\* Once written, the settings are never different again.
LEMMA SettingsStay == ASSUME DInv, NEW d \in Deploys, Step(d), settings # None PROVE settings' = settings
<1>1. Persist(d) => settings' = settings
  BY DEF Persist, Merged, DInv, TypeOK, Settings
<1> QED BY <1>1 DEF Step, Elsewhere, Refuse, Send, Hear, Lose, Begin, InstallDocker, ExtractRelease, Snapshot, Images,
            DatabaseUp, Migrate, ApplicationUp, StartProxy, AwaitHealth, Verify, LinkPrevious, LinkCurrent, Ready, Fail

\* Nothing is derived from the settings before they are there.
LEMMA NothingBefore == ASSUME DInv, settings = None
  PROVE /\ \A d \in Deploys : values[d] = None /\ env[d] = None /\ ~Usable(d)
        /\ \A p \in Projects : volume[p] = None
  BY DEF DInv, OneConfiguration, Usable

\* Every step keeps values, release.env and volume in line with the settings.
LEMMA ConfigurationStep == ASSUME DInv, NEW d \in Deploys, Step(d) PROVE OneConfiguration'
<1> USE DeploysAssumption
<1>1. CASE Persist(d)
  <2>1. CASE settings = None
    <3>1. /\ settings' = Merged(d) /\ values' = [values EXCEPT ![d] = Merged(d)]
          /\ env' = env /\ volume' = volume
      BY <1>1 DEF Persist, machine
    <3> QED BY <2>1, <3>1, NothingBefore DEF OneConfiguration, DInv, TypeOK
  <2>2. CASE settings # None
    <3>1. /\ settings' = settings /\ values' = [values EXCEPT ![d] = settings]
          /\ env' = env /\ volume' = volume
      BY <1>1, <2>2, SettingsStay DEF Persist, machine
    <3> QED BY <3>1 DEF OneConfiguration, DInv, TypeOK
  <2> QED BY <2>1, <2>2
<1>2. CASE Snapshot(d)
  BY <1>2 DEF Snapshot, machine, OneConfiguration, DInv, TypeOK
<1>3. CASE DatabaseUp(d)
  <2>1. settings # None /\ env[d] = settings
    BY <1>3 DEF DatabaseUp, Stage, DInv, StagesHold, StageHolds, WithEnv, WithValues
  <2>2. settings' = settings /\ env' = env /\ values' = values  BY <1>3 DEF DatabaseUp
  <2>3. settings.project \in Projects /\ settings.secret \in Deploys  BY <2>1 DEF DInv, TypeOK, Settings
  <2>4. \A p \in Projects : volume'[p] # None => p = settings.project /\ volume'[p] = settings.secret
    BY <1>3, <2>1, <2>3 DEF DatabaseUp, DInv, TypeOK, OneConfiguration
  <2> QED BY <2>1, <2>2, <2>4 DEF OneConfiguration, DInv
<1>4. CASE UNCHANGED <<settings, values, env, volume>>
  BY <1>4 DEF OneConfiguration, DInv
<1> QED BY <1>1, <1>2, <1>3, <1>4 DEF Step, Elsewhere, Refuse, Send, Hear, Lose, Begin, InstallDocker, ExtractRelease, Images,
            Migrate, ApplicationUp, StartProxy, AwaitHealth, Verify, LinkPrevious, LinkCurrent, Ready, Fail, machine

-----------------------------------------------------------------------------
(* What is established stays                                                 *)

\* A release that can run still can after any step of any deployment: the
\* volume is initialised once and the schema only goes forward.
LEMMA UsableStays == ASSUME DInv, NEW d \in Deploys, Step(d), NEW e \in Deploys, Usable(e) PROVE Usable(e)'
<1> USE DeploysAssumption
<1>1. settings # None /\ settings' = settings  BY SettingsStay DEF Usable
<1>2. settings \in Settings /\ settings.project \in Projects /\ settings.secret \in Deploys
  BY <1>1 DEF DInv, TypeOK, Settings
<1>3. CASE Snapshot(d)
  <2>1. values[d] = settings  BY <1>3 DEF Snapshot, Stage, DInv, StagesHold, StageHolds, WithValues
  <2> QED BY <1>1, <1>3, <2>1 DEF Snapshot, machine, Usable, DInv, TypeOK
<1>4. CASE DatabaseUp(d)
  <2>1. env[d] = settings  BY <1>4 DEF DatabaseUp, Stage, DInv, StagesHold, StageHolds, WithEnv, WithValues
  <2>2. volume' = volume  BY <1>2, <1>4, <2>1 DEF DatabaseUp, Usable
  <2> QED BY <1>1, <1>4, <2>2 DEF DatabaseUp, Usable
<1>5. CASE Migrate(d)
  <2>1. env[d] = settings  BY <1>5 DEF Migrate, Stage, DInv, StagesHold, StageHolds, WithEnv, WithDatabase, WithValues
  <2>2. schema' = [schema EXCEPT ![settings.project] = SchemaOf[d]] /\ schema[settings.project] <= SchemaOf[d]
    BY <1>5, <2>1 DEF Migrate, Upgradable
  <2>3. SchemaOf[e] <= schema'[settings.project]  BY <1>2, <2>2 DEF Usable, DInv, TypeOK
  <2> QED BY <1>1, <1>5, <2>3 DEF Migrate, Usable
<1>6. CASE UNCHANGED <<settings, env, volume, schema>>
  BY <1>6 DEF Usable
<1>7. CASE Persist(d)
  BY <1>1, <1>7 DEF Persist, machine, Usable
<1> QED BY <1>3, <1>4, <1>5, <1>6, <1>7 DEF Step, Elsewhere, Refuse, Send, Hear, Lose, Begin, InstallDocker, ExtractRelease, Images,
            ApplicationUp, StartProxy, AwaitHealth, Verify, LinkPrevious, LinkCurrent, Ready, Fail, machine

\* The elements of a sequence that got one more.
LEMMA ToSetAppend == ASSUME NEW S, NEW s \in Seq(S), NEW x \in S
  PROVE  ToSet(Append(s, x)) = ToSet(s) \cup {x}
<1> DEFINE t == Append(s, x)
<1>1. /\ Len(t) = Len(s) + 1 /\ Len(s) \in Nat /\ t \in Seq(S)
      /\ \A i \in 1 .. Len(s) : t[i] = s[i]
      /\ t[Len(s) + 1] = x
  BY AppendProperties
<1>2. DOMAIN t = 1 .. Len(s) + 1 /\ DOMAIN s = 1 .. Len(s)  BY <1>1, LenProperties
<1>3. ASSUME NEW y \in ToSet(t) PROVE y \in ToSet(s) \cup {x}
  <2>1. PICK i \in 1 .. Len(s) + 1 : y = t[i]  BY <1>2 DEF ToSet
  <2>2. i \in 1 .. Len(s) \/ i = Len(s) + 1  BY <1>1, <2>1
  <2> QED BY <1>1, <1>2, <2>1, <2>2 DEF ToSet
<1>4. ASSUME NEW y \in ToSet(s) PROVE y \in ToSet(t)
  <2>1. PICK i \in 1 .. Len(s) : y = s[i]  BY <1>2 DEF ToSet
  <2>2. i \in 1 .. Len(s) + 1 /\ t[i] = y  BY <1>1, <2>1
  <2> QED BY <1>2, <2>2 DEF ToSet
<1>5. x \in ToSet(t)
  <2>1. Len(s) + 1 \in 1 .. Len(s) + 1  BY <1>1
  <2> QED BY <1>1, <1>2, <2>1 DEF ToSet
<1> QED BY <1>3, <1>4, <1>5

\* The releases that were switched to are releases.
LEMMA SwitchedAreDeploys == TypeOK => ToSet(switched) \subseteq Deploys
<1> SUFFICES ASSUME TypeOK, NEW y \in ToSet(switched) PROVE y \in Deploys  OBVIOUS
<1>1. DOMAIN switched = 1 .. Len(switched)  BY LenProperties DEF TypeOK
<1>2. PICK i \in 1 .. Len(switched) : y = switched[i]  BY <1>1 DEF ToSet
<1> QED BY <1>2, ElementOfSeq DEF TypeOK

-----------------------------------------------------------------------------
(* The stages                                                                *)

\* What a step of d leaves alone of another deployment.
LEMMA OthersStay == ASSUME TypeOK, NEW d \in Deploys, Step(d), NEW e \in Deploys, e # d
  PROVE pc'[e] = pc[e] /\ values'[e] = values[e] /\ env'[e] = env[e] /\ client'[e] = client[e]
<1>1. Refuse(d) \/ Send(d) \/ Hear(d) \/ Lose(d) => (pc' = pc /\ values' = values /\ env' = env /\ client'[e] = client[e])
  BY DEF Refuse, Send, Hear, Lose, TypeOK
<1>2. Begin(d) \/ Persist(d) => (pc'[e] = pc[e] /\ values'[e] = values[e] /\ env' = env /\ client' = client)
  BY DEF Begin, Persist, Stage, TypeOK
<1>3. InstallDocker(d) \/ ExtractRelease(d) \/ Snapshot(d) \/ Images(d) \/ DatabaseUp(d) \/ Migrate(d)
        => (pc'[e] = pc[e] /\ values' = values /\ env'[e] = env[e] /\ client' = client)
  BY DEF InstallDocker, ExtractRelease, Snapshot, Images, DatabaseUp, Migrate, Stage, TypeOK
<1>4. ApplicationUp(d) \/ StartProxy(d) \/ AwaitHealth(d) \/ Verify(d) \/ LinkPrevious(d) \/ LinkCurrent(d) \/ Ready(d) \/ Fail(d)
        => (pc'[e] = pc[e] /\ values' = values /\ env' = env /\ client' = client)
  BY DEF ApplicationUp, StartProxy, AwaitHealth, Verify, LinkPrevious, LinkCurrent, Ready, Fail, Stage, TypeOK
<1> QED BY <1>1, <1>2, <1>3, <1>4 DEF Step, Elsewhere

\* The volume that is initialised stays as it is.
LEMMA VolumeStays ==
  ASSUME DInv, NEW d \in Deploys, Step(d), settings # None, volume[settings.project] = settings.secret
  PROVE  volume'[settings.project] = settings.secret
<1> USE DeploysAssumption
<1>1. settings.project \in Projects /\ settings.secret \in Deploys  BY DEF DInv, TypeOK, Settings
<1>2. CASE DatabaseUp(d)
  <2>1. env[d] = settings  BY <1>2 DEF DatabaseUp, Stage, DInv, StagesHold, StageHolds, WithEnv, WithValues
  <2> QED BY <1>1, <1>2, <2>1 DEF DatabaseUp
<1> QED BY <1>2 DEF Step, Elsewhere, Refuse, Send, Hear, Lose, Begin, Persist, InstallDocker, ExtractRelease, Snapshot, Images,
            Migrate, ApplicationUp, StartProxy, AwaitHealth, Verify, LinkPrevious, LinkCurrent, Ready, Fail, machine

\* Only the deployment that holds the lock touches the links and their history.
LEMMA LinksStay ==
  ASSUME DInv, NEW d \in Deploys, Step(d)
  PROVE  /\ \/ ToSet(switched') = ToSet(switched)
            \/ pc'[d] = "linked" /\ ToSet(switched') = ToSet(switched) \cup {d}
         /\ \A e \in Deploys : e # d /\ pc[e] = "linking" => previous' = previous /\ current' = current
<1>1. CASE LinkPrevious(d) \/ LinkCurrent(d)
  <2>1. pc[d] \in Underway
    BY <1>1 DEF LinkPrevious, LinkCurrent, Stage, Underway, WithValues, WithEnv, WithDatabase, WithSchema
  <2>2. \A e \in Deploys : e # d => pc[e] # "linking"
    BY <2>1 DEF DInv, OneAtATime, Underway, WithValues, WithEnv, WithDatabase, WithSchema
  <2>3. switched' = switched \/ (pc'[d] = "linked" /\ switched' = Append(switched, d))
    <3>1. LinkPrevious(d) => switched' = switched  BY DEF LinkPrevious
    <3>2. LinkCurrent(d) => pc'[d] = "linked" /\ switched' = Append(switched, d)
      BY DEF LinkCurrent, Stage, DInv, TypeOK
    <3> QED BY <1>1, <3>1, <3>2
  <2>4. ToSet(Append(switched, d)) = ToSet(switched) \cup {d}  BY ToSetAppend DEF DInv, TypeOK
  <2> QED BY <2>2, <2>3, <2>4
<1>2. CASE current' = current /\ previous' = previous /\ switched' = switched
  BY <1>2
<1> QED BY <1>1, <1>2 DEF Step, Elsewhere, Refuse, Send, Hear, Lose, Begin, Persist, InstallDocker, ExtractRelease, Snapshot, Images,
            DatabaseUp, Migrate, ApplicationUp, StartProxy, AwaitHealth, Verify, Ready, Fail, links

\* What the other deployments have completed is still so.
LEMMA OthersHold == ASSUME DInv, NEW d \in Deploys, Step(d), NEW e \in Deploys, e # d PROVE StageHolds(e)'
<1>1. StageHolds(e)  BY DEF DInv, StagesHold
<1>2. pc'[e] = pc[e] /\ values'[e] = values[e] /\ env'[e] = env[e] /\ client'[e] = client[e]
  BY OthersStay DEF DInv
<1>3. pc[e] \in WithValues => settings' # None /\ values'[e] = settings'
  BY <1>1, <1>2, SettingsStay DEF StageHolds
<1>4. pc[e] \in WithEnv => env'[e] = settings'
  BY <1>1, <1>2, SettingsStay DEF StageHolds, WithValues
<1>5. pc[e] \in WithDatabase => volume'[settings'.project] = settings'.secret
  BY <1>1, SettingsStay, VolumeStays DEF StageHolds, WithValues, WithEnv
<1>6. pc[e] \in WithSchema => Usable(e)'  BY <1>1, UsableStays DEF StageHolds
<1>7. /\ pc[e] \in WithLinks => e \in ToSet(switched')
      /\ e \in ToSet(switched') => pc[e] \in WithLinks \cup {"failed"}
      /\ pc[e] = "linking" => previous' = current'
      /\ client[e] = "ready" => pc[e] = "ready"
  BY <1>1, LinksStay DEF StageHolds
<1> QED BY <1>2, <1>3, <1>4, <1>5, <1>6, <1>7 DEF StageHolds

\* Nothing of what Usable looks at changes.
LEMMA UsableKept == ASSUME UNCHANGED <<settings, env, volume, schema>>, NEW e PROVE Usable(e) => Usable(e)'
  BY DEF Usable

\* What the deployment that takes the step has completed is so.
LEMMA OwnHolds == ASSUME DInv, NEW d \in Deploys, Step(d) PROVE StageHolds(d)'
<1> USE DeploysAssumption
<1> DEFINE H == StageHolds(d)
<1>0. H  BY DEF DInv, StagesHold
<1>t. pc \in [Deploys -> AllStages] /\ settings \in Settings \cup {None}
  BY DEF DInv, TypeOK, AllStages, Underway, WithValues, WithEnv, WithDatabase, WithSchema, WithLinks
<1>1. CASE Refuse(d) \/ Send(d) \/ Lose(d)
  <2>1. UNCHANGED <<settings, env, volume, schema, values, links, pc, switched>> /\ client'[d] # "ready"
    BY <1>1 DEF Refuse, Send, Lose, machine, DInv, TypeOK
  <2>2. Usable(d) => Usable(d)'  BY <2>1, UsableKept
  <2> QED BY <1>0, <2>1, <2>2 DEF StageHolds, links
<1>2. CASE Hear(d)
  <2>1. UNCHANGED <<settings, env, volume, schema, values, links, pc, switched>> /\ (client'[d] = "ready" => pc[d] = "ready")
    BY <1>2 DEF Hear, ExitStatus, machine, DInv, TypeOK
  <2>2. Usable(d) => Usable(d)'  BY <2>1, UsableKept
  <2> QED BY <1>0, <2>1, <2>2 DEF StageHolds, links
<1>3. CASE Begin(d) \/ Fail(d)
  <2>1. pc[d] # "ready" /\ pc'[d] \in {"locked", "failed"} /\ UNCHANGED <<switched, client>>
    BY <1>3, <1>t DEF Begin, Stage, Fail
  <2>2. d \in ToSet(switched) => pc'[d] = "failed"
    BY <1>0, <1>3, <1>t DEF Begin, Stage, Fail, StageHolds, WithLinks
  <2> QED BY <1>0, <2>1, <2>2 DEF StageHolds, WithValues, WithEnv, WithDatabase, WithSchema, WithLinks
<1>4. CASE Persist(d)
  <2>1. /\ pc[d] = "locked" /\ pc'[d] = "persisted" /\ UNCHANGED <<switched, client>>
        /\ settings' = Merged(d) /\ values'[d] = Merged(d) /\ Merged(d) \in Settings
    BY <1>4, <1>t DEF Persist, Stage, DInv, TypeOK, Merged, Settings
  <2> QED BY <1>0, <2>1 DEF StageHolds, WithValues, WithEnv, WithDatabase, WithSchema, WithLinks
<1>5. CASE InstallDocker(d) \/ ExtractRelease(d) \/ Images(d)
  <2>1. /\ pc[d] \in WithValues \ WithDatabase /\ pc'[d] \in WithValues \ WithDatabase
        /\ pc'[d] \in WithEnv => pc[d] \in WithEnv
        /\ UNCHANGED <<settings, env, values, switched, client>>
    BY <1>5, <1>t DEF InstallDocker, ExtractRelease, Images, Stage, WithValues, WithEnv, WithDatabase, WithSchema, WithLinks
  <2> QED BY <1>0, <2>1 DEF StageHolds, WithValues, WithEnv, WithDatabase, WithSchema, WithLinks
<1>6. CASE Snapshot(d)
  <2>1. /\ pc[d] = "extracted" /\ pc'[d] = "configured"
        /\ env'[d] = values[d] /\ UNCHANGED <<settings, values, switched, client>>
    BY <1>6, <1>t DEF Snapshot, Stage, DInv, TypeOK
  <2> QED BY <1>0, <2>1 DEF StageHolds, WithValues, WithEnv, WithDatabase, WithSchema, WithLinks
<1>7. CASE DatabaseUp(d)
  <2>1. /\ pc[d] = "unpacked" /\ pc'[d] = "database" /\ UNCHANGED <<settings, env, values, switched, client>>
    BY <1>7, <1>t DEF DatabaseUp, Stage
  <2>2. settings # None /\ env[d] = settings
    BY <1>0, <2>1 DEF StageHolds, WithValues, WithEnv
  <2>3. settings.project \in Projects /\ settings.secret \in Deploys  BY <1>t, <2>2 DEF Settings
  <2>4. volume[settings.project] # None => volume[settings.project] = settings.secret
    BY <2>3 DEF DInv, OneConfiguration
  <2>5. volume'[settings.project] = settings.secret
    BY <1>7, <2>2, <2>3, <2>4 DEF DatabaseUp, DInv, TypeOK
  <2> QED BY <1>0, <2>1, <2>2, <2>5 DEF StageHolds, WithValues, WithEnv, WithDatabase, WithSchema, WithLinks
<1>8. CASE Migrate(d)
  <2>1. /\ pc[d] = "database" /\ pc'[d] = "migrated" /\ UNCHANGED <<settings, env, values, volume, switched, client>>
    BY <1>8, <1>t DEF Migrate, Stage
  <2>2. settings # None /\ env[d] = settings /\ volume[settings.project] = settings.secret
    BY <1>0, <2>1 DEF StageHolds, WithValues, WithEnv, WithDatabase
  <2>3. settings.project \in Projects  BY <1>t, <2>2 DEF Settings
  <2>4. schema'[settings.project] = SchemaOf[d]  BY <1>8, <2>2, <2>3 DEF Migrate, DInv, TypeOK
  <2>5. Usable(d)'  BY <2>1, <2>2, <2>4 DEF Usable
  <2> QED BY <1>0, <2>1, <2>2, <2>5 DEF StageHolds, WithValues, WithEnv, WithDatabase, WithSchema, WithLinks
<1>9. CASE ApplicationUp(d) \/ StartProxy(d) \/ AwaitHealth(d) \/ Verify(d)
  <2>1. /\ pc[d] \in {"migrated", "replaced", "started", "serving"}
        /\ pc'[d] \in {"replaced", "started", "serving", "verified"}
        /\ UNCHANGED <<settings, env, values, volume, schema, switched, client>>
    BY <1>9, <1>t DEF ApplicationUp, StartProxy, AwaitHealth, Verify, Stage, machine
  <2>2. Usable(d) => Usable(d)'  BY <2>1, UsableKept
  <2> QED BY <1>0, <2>1, <2>2 DEF StageHolds, WithValues, WithEnv, WithDatabase, WithSchema, WithLinks
<1>10. CASE LinkPrevious(d)
  <2>1. /\ pc[d] = "verified" /\ pc'[d] = "linking"
        /\ UNCHANGED <<settings, env, values, volume, schema, switched, client>>
    BY <1>10, <1>t DEF LinkPrevious, Stage, machine
  <2>2. Usable(d) => Usable(d)'  BY <2>1, UsableKept
  <2>3. Len(switched) \in Nat /\ \A i \in 1 .. Len(switched) : switched[i] # None
    BY ElementOfSeq, LenProperties DEF DInv, TypeOK
  <2>4. current = None => previous = None
    BY <2>3 DEF DInv, LinksFollowHistory
  <2>5. previous' = current'  BY <1>10, <2>4 DEF LinkPrevious
  <2> QED BY <1>0, <2>1, <2>2, <2>5 DEF StageHolds, WithValues, WithEnv, WithDatabase, WithSchema, WithLinks
<1>11. CASE LinkCurrent(d) \/ Ready(d)
  <2>1. /\ pc[d] \in {"linking", "linked"} /\ pc'[d] \in {"linked", "ready"}
        /\ UNCHANGED <<settings, env, values, volume, schema, client>>
    BY <1>11, <1>t DEF LinkCurrent, Ready, Stage, machine
  <2>2. Usable(d) => Usable(d)'  BY <2>1, UsableKept
  <2>3. d \in ToSet(switched')
    <3>1. CASE LinkCurrent(d)
      BY <3>1, ToSetAppend DEF LinkCurrent, DInv, TypeOK
    <3>2. CASE Ready(d)
      BY <1>0, <3>2 DEF Ready, Stage, StageHolds, WithLinks
    <3> QED BY <1>11, <3>1, <3>2
  <2> QED BY <1>0, <2>1, <2>2, <2>3 DEF StageHolds, WithValues, WithEnv, WithDatabase, WithSchema, WithLinks
<1> QED BY <1>1, <1>2, <1>3, <1>4, <1>5, <1>6, <1>7, <1>8, <1>9, <1>10, <1>11 DEF Step, Elsewhere

-----------------------------------------------------------------------------
(* The links                                                                 *)

\* What serves or is linked can still run, and what begins to can.
LEMMA LinkedStep == ASSUME DInv, NEW d \in Deploys, Step(d) PROVE LinkedAreUsable'
<1>1. {running', current', previous'} \subseteq {running, current, previous} \cup
        (IF pc[d] \in WithSchema THEN {d} ELSE {})
  BY DEF Step, Elsewhere, Refuse, Send, Hear, Lose, Begin, Persist, InstallDocker, ExtractRelease, Snapshot, Images,
         DatabaseUp, Migrate, ApplicationUp, StartProxy, AwaitHealth, Verify, LinkPrevious, LinkCurrent, Ready, Fail, Stage, machine, links, WithSchema
<1>2. ToSet(switched') \subseteq ToSet(switched) \cup (IF pc[d] \in WithSchema THEN {d} ELSE {})
  <2>1. CASE LinkCurrent(d)
    BY <2>1, ToSetAppend DEF LinkCurrent, Stage, WithSchema, DInv, TypeOK
  <2>2. CASE switched' = switched
    BY <2>2
  <2> QED BY <2>1, <2>2 DEF Step, Elsewhere, Refuse, Send, Hear, Lose, Begin, Persist, InstallDocker, ExtractRelease, Snapshot, Images,
         DatabaseUp, Migrate, ApplicationUp, StartProxy, AwaitHealth, Verify, LinkPrevious, Ready, Fail
<1>3. pc[d] \in WithSchema => Usable(d)  BY DEF DInv, StagesHold, StageHolds
<1>4. {running, current, previous} \ {None} \subseteq Deploys /\ ToSet(switched) \subseteq Deploys
  BY SwitchedAreDeploys DEF DInv, TypeOK
<1>5. ASSUME NEW e \in ({running', current', previous'} \ {None}) \cup ToSet(switched') PROVE Usable(e)'
  <2>1. e \in Deploys /\ Usable(e)  BY <1>1, <1>2, <1>3, <1>4 DEF DInv, LinkedAreUsable
  <2> QED BY <2>1, UsableStays
<1> QED BY <1>5 DEF LinkedAreUsable

\* The two links name the last two releases, whoever died between them.
LEMMA LinksStep == ASSUME DInv, NEW d \in Deploys, Step(d) PROVE LinksFollowHistory'
<1> DEFINE n == Len(switched)
           between == \E e \in Deploys : pc[e] \in {"linking", "failed"} /\ e \notin ToSet(switched)
<1>0. /\ current = IF n = 0 THEN None ELSE switched[n]
      /\ \/ previous = IF n < 2 THEN None ELSE switched[n - 1]
         \/ between /\ previous = current
  BY DEF DInv, LinksFollowHistory
<1>t. n \in Nat /\ switched \in Seq(Deploys) /\ pc \in [Deploys -> AllStages]
  BY LenProperties DEF DInv, TypeOK, AllStages, Underway, WithValues, WithEnv, WithDatabase, WithSchema, WithLinks
<1>d. StageHolds(d)  BY DEF DInv, StagesHold
<1>1. CASE LinkPrevious(d)
  <2>1. /\ previous' = IF current = None THEN previous ELSE current
        /\ current' = current /\ switched' = switched /\ pc'[d] = "linking" /\ pc[d] = "verified"
    BY <1>1, <1>t DEF LinkPrevious, Stage
  <2>2. d \notin ToSet(switched)  BY <1>d, <2>1 DEF StageHolds, WithLinks
  <2>3. between'  BY <2>1, <2>2
  <2>4. CASE current # None
    BY <1>0, <2>1, <2>3, <2>4 DEF LinksFollowHistory
  <2>5. CASE current = None
    <3>1. \A i \in 1 .. n : switched[i] # None  BY ElementOfSeq, DeploysAssumption DEF DInv, TypeOK
    <3>2. n = 0  BY <1>0, <1>t, <2>5, <3>1
    <3> QED BY <1>0, <2>1, <2>5, <3>2 DEF LinksFollowHistory
  <2> QED BY <2>4, <2>5
<1>2. CASE LinkCurrent(d)
  <2>1. current' = d /\ switched' = Append(switched, d) /\ previous' = previous /\ pc[d] = "linking"
    BY <1>2 DEF LinkCurrent, Stage
  <2>2. previous = current  BY <1>d, <2>1 DEF StageHolds
  <2>3. Len(switched') = n + 1 /\ switched'[n + 1] = d /\ \A i \in 1 .. n : switched'[i] = switched[i]
    BY <1>t, <2>1, AppendProperties
  <2>4. current' = IF n + 1 = 0 THEN None ELSE switched'[n + 1]  BY <1>t, <2>1, <2>3
  <2>5. previous' = IF n + 1 < 2 THEN None ELSE switched'[n]  BY <1>0, <1>t, <2>1, <2>2, <2>3
  <2>6. (n + 1) - 1 = n  BY <1>t
  <2> QED BY <2>3, <2>4, <2>5, <2>6 DEF LinksFollowHistory
<1>3. CASE ~LinkPrevious(d) /\ ~LinkCurrent(d)
  <2>1. current' = current /\ previous' = previous /\ switched' = switched
    BY <1>3 DEF Step, Elsewhere, Refuse, Send, Hear, Lose, Begin, Persist, InstallDocker, ExtractRelease, Snapshot, Images,
         DatabaseUp, Migrate, ApplicationUp, StartProxy, AwaitHealth, Verify, Ready, Fail, links
  <2>2. between => between'
    <3>1. pc[d] \in {"linking", "failed"} => pc'[d] \in {"linking", "failed"}
      BY <1>3, <1>t DEF Step, Elsewhere, Refuse, Send, Hear, Lose, Begin, Persist, InstallDocker, ExtractRelease, Snapshot, Images,
         DatabaseUp, Migrate, ApplicationUp, StartProxy, AwaitHealth, Verify, Ready, Fail, Stage
    <3>2. \A e \in Deploys : e # d => pc'[e] = pc[e]  BY OthersStay DEF DInv
    <3> QED BY <2>1, <3>1, <3>2
  <2> QED BY <1>0, <2>1, <2>2 DEF LinksFollowHistory
<1> QED BY <1>1, <1>2, <1>3

-----------------------------------------------------------------------------
(* The theorems                                                              *)

\* At first there is nothing on the server.
LEMMA DInit == Init => DInv
<1> SUFFICES ASSUME Init PROVE DInv  OBVIOUS
<1> USE DeploysAssumption DEF Init
<1>1. TypeOK  BY EmptySeq DEF TypeOK
<1>2. ToSet(switched) = {} /\ Len(switched) = 0  BY EmptySeq DEF ToSet
<1>3. OneAtATime  BY DEF OneAtATime, Underway, WithValues, WithEnv, WithDatabase, WithSchema, WithLinks
<1>4. OneConfiguration  BY DEF OneConfiguration
<1>5. StagesHold  BY <1>2 DEF StagesHold, StageHolds, WithValues, WithEnv, WithDatabase, WithSchema, WithLinks
<1>6. LinkedAreUsable  BY <1>2 DEF LinkedAreUsable
<1>7. LinksFollowHistory  BY <1>2 DEF LinksFollowHistory
<1> QED BY <1>1, <1>3, <1>4, <1>5, <1>6, <1>7 DEF DInv

\* One step of one deployment keeps all of it.
LEMMA DStep == ASSUME DInv, NEW d \in Deploys, Step(d) PROVE DInv'
<1>1. TypeOK'  BY TypeStep DEF DInv
<1>2. OneAtATime'  BY LockStep DEF DInv
<1>3. StagesHold'  BY OthersHold, OwnHolds DEF StagesHold
<1> QED BY <1>1, <1>2, <1>3, ConfigurationStep, LinkedStep, LinksStep DEF DInv

\* What is not a deployment's step changes nothing.
LEMMA DStutter == DInv /\ UNCHANGED vars => DInv'
<1> SUFFICES ASSUME DInv, UNCHANGED vars PROVE DInv'  OBVIOUS
<1> USE DEF vars, machine, links
<1>1. TypeOK' /\ OneAtATime' /\ OneConfiguration'  BY DEF DInv, TypeOK, OneAtATime, OneConfiguration
<1>2. \A d : Usable(d) => Usable(d)'  BY DEF Usable
<1>3. StagesHold' /\ LinkedAreUsable'  BY <1>2 DEF DInv, StagesHold, StageHolds, LinkedAreUsable
<1>4. LinksFollowHistory'  BY DEF DInv, LinksFollowHistory
<1> QED BY <1>1, <1>3, <1>4 DEF DInv

\* Whatever fails and wherever, the inductive invariant holds.
THEOREM DeploymentInvariant == Spec => []DInv
<1>1. DInv /\ [Next]_vars => DInv'
  BY DStep, DStutter DEF Next, Step
<1> QED BY DInit, <1>1, PTL DEF Spec

\* Every variable keeps its type.
THEOREM DeploymentTypes == Spec => []TypeOK
<1>1. DInv => TypeOK  BY DEF DInv
<1> QED BY <1>1, DeploymentInvariant, PTL

\* A release.env and a volume that are there are the settings'.
LEMMA Secrets == DInv => SecretsFitTheVolume
  BY DEF DInv, OneConfiguration, SecretsFitTheVolume

\* One volume is initialised at most: that of the settings' project.
LEMMA Database == DInv => OneDatabase
<1> SUFFICES ASSUME DInv PROVE OneDatabase  OBVIOUS
<1> DEFINE V == {p \in Projects : volume[p] # None}
<1>1. V \subseteq {settings.project}  BY DEF DInv, OneConfiguration
<1>2. IsFiniteSet({settings.project}) /\ Cardinality({settings.project}) = 1  BY FS_Singleton
<1>3. Cardinality(V) <= Cardinality({settings.project})  BY <1>1, <1>2, FS_Subset
<1> QED BY <1>2, <1>3 DEF OneDatabase

\* What serves or is linked can run, so its schema is there.
LEMMA SchemaIsThere == DInv => SchemaIsReady
  BY DEF DInv, LinkedAreUsable, Usable, SchemaIsReady

\* Only a deployment that completed every stage is reported ready.
LEMMA Answers == DInv => ReadyIsTrue
<1> SUFFICES ASSUME DInv, NEW d \in Deploys, client[d] = "ready"
             PROVE  d \in ToSet(switched) /\ Reaches(d) /\ SchemaOf[d] <= schema[env[d].project]
  BY DEF ReadyIsTrue
<1>1. pc[d] = "ready" /\ d \in ToSet(switched) /\ Usable(d)
  BY DEF DInv, StagesHold, StageHolds, WithSchema, WithLinks
<1> QED BY <1>1 DEF Usable, Reaches

\* Every release can open the database, whatever deployments failed before it.
THEOREM SecretsAlwaysFit == Spec => []SecretsFitTheVolume
  BY Secrets, DeploymentInvariant, PTL

\* No server ever gets a second database.
THEOREM OneDatabaseEver == Spec => []OneDatabase
  BY Database, DeploymentInvariant, PTL

\* Code that serves or is linked never meets an older schema.
THEOREM SchemaAlwaysReady == Spec => []SchemaIsReady
  BY SchemaIsThere, DeploymentInvariant, PTL

\* The links name the last two releases that were switched to.
THEOREM LinksAlwaysFollow == Spec => []LinksFollowHistory
<1>1. DInv => LinksFollowHistory  BY DEF DInv
<1> QED BY <1>1, DeploymentInvariant, PTL

\* "Deployment ready" is never said in vain.
THEOREM ReadyAlwaysTrue == Spec => []ReadyIsTrue
  BY Answers, DeploymentInvariant, PTL

-----------------------------------------------------------------------------
(* Renewals of the certificate                                               *)

\* The types of what the renewal adds.
RenewalTypeOK ==
  /\ {issued, chain, key} \subseteq Nat
  /\ proxy \in Nat \cup {Down, Failing, Absent, Created}
  /\ hook \in {"idle", "stopped", "issued", "copied", "chain", "installed", "failed", "dead"}
  /\ overtaken \in BOOLEAN

\* Who a proxy that is not up waits for: one that the hooks stopped for the post
\* hook, which will find it; one that is not there, or was not started, for the
\* deployment whose containers are there, which goes on with it or has failed.
\* And during a run of the hooks only a deployment brings theirs up.
WhoItWaitsFor ==
  /\ running = None => proxy = Absent
  /\ proxy = Down => running # None /\ Ours /\ hook # "idle"
  /\ proxy \in {Absent, Created} /\ running # None => pc[running] \in {"replaced", "failed"}
  /\ running # None /\ Ours /\ hook \notin {"idle", "dead"} => ~Up \/ overtaken

RInv == DInv /\ RenewalTypeOK /\ WhoItWaitsFor /\ ProxyIsBack

-----------------------------------------------------------------------------
(* A deployment whose containers are only partly replaced                    *)

\* It leaves the deployments' invariant as it is: its release can run, and the
\* lock is let go.
LEMMA ReplaceFailsStep == ASSUME DInv, NEW d \in Deploys, ReplaceFails(d) PROVE DInv'
<1> USE DEF WithValues, WithEnv, WithDatabase, WithSchema, WithLinks
<1>1. /\ pc[d] = "migrated" /\ pc' = [pc EXCEPT ![d] = "failed"]
      /\ running' = d /\ lock' = lock \ {d}
      /\ settings' = settings /\ env' = env /\ volume' = volume /\ schema' = schema
      /\ current' = current /\ previous' = previous /\ asked' = asked /\ values' = values
      /\ client' = client /\ switched' = switched
  BY DEF ReplaceFails, Stage, links
<1>2. TypeOK'  BY <1>1 DEF DInv, TypeOK
<1>3. OneAtATime'  BY <1>1 DEF DInv, TypeOK, OneAtATime, Underway
<1>4. OneConfiguration'  BY <1>1 DEF DInv, OneConfiguration
<1>5. \A e : Usable(e) => Usable(e)'  BY <1>1 DEF Usable
<1>6. StagesHold'
  <2> SUFFICES ASSUME NEW e \in Deploys PROVE StageHolds(e)'  BY DEF StagesHold
  <2>1. StageHolds(e) /\ StageHolds(d)  BY DEF DInv, StagesHold
  <2>2. pc'[e] = IF e = d THEN "failed" ELSE pc[e]  BY <1>1 DEF DInv, TypeOK
  <2>3. client[d] # "ready"  BY <1>1, <2>1 DEF StageHolds
  <2> QED BY <1>1, <1>5, <2>1, <2>2, <2>3 DEF StageHolds
<1>7. LinkedAreUsable'
  <2>1. Usable(d)  BY <1>1 DEF DInv, StagesHold, StageHolds
  <2> QED BY <1>1, <1>5, <2>1 DEF DInv, LinkedAreUsable
<1>8. LinksFollowHistory'
  <2>1. \A e \in Deploys : pc[e] \in {"linking", "failed"} => pc'[e] = pc[e]  BY <1>1 DEF DInv, TypeOK
  <2> QED BY <1>1, <2>1 DEF DInv, LinksFollowHistory
<1> QED BY <1>2, <1>3, <1>4, <1>6, <1>7, <1>8 DEF DInv

\* What is deployed stays deployed: the project of the release that serves.
LEMMA OursStays ==
  ASSUME DInv, DInv', running # None, running' # None,
         settings # None => settings' = settings
  PROVE  Ours' <=> Ours
<1>1. Usable(running) /\ Usable(running)'  BY DEF DInv, LinkedAreUsable
<1> QED BY <1>1 DEF Ours, Usable

-----------------------------------------------------------------------------
(* The renewal                                                               *)

\* A proxy that starts serves the certificate or refuses the pair.
LEMMA StartedUp == RenewalTypeOK => Started \in {chain, Failing} /\ Started \in Nat \cup {Failing}
  BY DEF RenewalTypeOK, Started

\* What a step of deployment d does to the containers, the proxy and the stages.
Effect(d) ==
  /\ \A e \in Deploys : e # d => pc'[e] = pc[e]
  /\ \/ running' = d /\ pc'[d] = "replaced" /\ proxy' = Created /\ overtaken' = overtaken
     \/ /\ running = d /\ running' = d /\ pc'[d] = "started"
        /\ proxy' = (IF Up THEN proxy ELSE Started)
        /\ overtaken' = (overtaken \/ hook \notin {"idle", "dead"})
     \/ running' = d /\ pc'[d] = "failed" /\ proxy' = proxy /\ overtaken' = overtaken
     \/ /\ running' = running /\ proxy' = proxy /\ overtaken' = overtaken
        /\ proxy \in {Absent, Created} /\ pc[d] \in {"replaced", "failed"} => pc'[d] \in {"replaced", "failed"}

\* Every step of a deployment is one of these.
LEMMA DeployingKinds == ASSUME RInv, Deploying \/ (\E d \in Deploys : ReplaceFails(d))
  PROVE /\ UNCHANGED <<chain, key, issued, hook>>
        /\ \E d \in Deploys : DInv' /\ (settings # None => settings' = settings) /\ Effect(d)
<1>0. DInv /\ pc \in [Deploys -> AllStages]
  BY DEF RInv, DInv, TypeOK, AllStages, Underway, WithValues, WithEnv, WithDatabase, WithSchema, WithLinks
<1>1. CASE \E d \in Deploys : ReplaceFails(d)
  <2>1. PICK d \in Deploys : ReplaceFails(d)  BY <1>1
  <2>2. DInv'  BY <1>0, <2>1, ReplaceFailsStep
  <2>3. pc' = [pc EXCEPT ![d] = "failed"] /\ running' = d /\ settings' = settings
    BY <2>1 DEF ReplaceFails, Stage
  <2>4. UNCHANGED <<chain, key, issued, hook, proxy, overtaken>>  BY <2>1 DEF ReplaceFails, certificate
  <2> QED BY <1>0, <2>2, <2>3, <2>4 DEF Effect
<1>2. CASE Deploying
  <2>1. PICK d \in Deploys : Replaced(d) \/ ProxyStarts(d) \/ ProxyHealthy(d) \/ ProxyLeftAlone(d)
    BY <1>2 DEF Deploying
  <2>2. UNCHANGED <<chain, key, issued, hook>>  BY <1>2 DEF Deploying
  <2>3. Step(d)  BY <2>1 DEF Replaced, ProxyStarts, ProxyHealthy, ProxyLeftAlone, Step
  <2>4. DInv' /\ (settings # None => settings' = settings) /\ \A e \in Deploys : e # d => pc'[e] = pc[e]
    BY <1>0, <2>3, DStep, SettingsStay, OthersStay DEF DInv
  <2>5. CASE Replaced(d)
    <3>1. running' = d /\ pc'[d] = "replaced" /\ proxy' = Created /\ overtaken' = overtaken
      BY <1>0, <2>5 DEF Replaced, ApplicationUp, Stage
    <3> QED BY <2>2, <2>4, <3>1 DEF Effect
  <2>6. CASE ProxyStarts(d)
    <3>1. running = d /\ running' = d /\ pc'[d] = "started"
      BY <1>0, <2>6 DEF ProxyStarts, StartProxy, Stage, machine
    <3>2. proxy' = (IF Up THEN proxy ELSE Started) /\ overtaken' = (overtaken \/ hook \notin {"idle", "dead"})
      BY <2>6 DEF ProxyStarts
    <3> QED BY <2>2, <2>4, <3>1, <3>2 DEF Effect
  <2>7. CASE ProxyHealthy(d)
    <3>1. running' = running /\ pc[d] = "started" /\ proxy' = proxy /\ overtaken' = overtaken
      BY <1>0, <2>7 DEF ProxyHealthy, AwaitHealth, Stage, machine
    <3> QED BY <2>2, <2>4, <3>1 DEF Effect
  <2>8. CASE ProxyLeftAlone(d)
    <3>1. running' = running /\ proxy' = proxy /\ overtaken' = overtaken
      BY <2>8 DEF ProxyLeftAlone, Elsewhere, Refuse, Send, Hear, Lose, Begin, Persist, InstallDocker, ExtractRelease,
         Snapshot, Images, DatabaseUp, Migrate, Verify, LinkPrevious, LinkCurrent, Ready, Fail, machine
    <3>2. pc[d] \in {"replaced", "failed"} => pc'[d] \in {pc[d], "failed"}
      BY <1>0, <2>8 DEF ProxyLeftAlone, Elsewhere, Refuse, Send, Hear, Lose, Begin, Persist, InstallDocker, ExtractRelease,
         Snapshot, Images, DatabaseUp, Migrate, Verify, LinkPrevious, LinkCurrent, Ready, Fail, Stage
    <3> QED BY <2>2, <2>4, <3>1, <3>2 DEF Effect
  <2> QED BY <2>1, <2>5, <2>6, <2>7, <2>8
<1> QED BY <1>1, <1>2

\* Deployments, one that fails half way through the containers included.
LEMMA DeployingStep == ASSUME RInv, Deploying \/ (\E d \in Deploys : ReplaceFails(d)) PROVE RInv'
<1>0. PICK d \in Deploys : DInv' /\ (settings # None => settings' = settings) /\ Effect(d)
  BY DeployingKinds
<1>1. UNCHANGED <<chain, key, issued, hook>> /\ d # None  BY DeployingKinds, DeploysAssumption
<1>s. Started \in {chain, Failing} /\ Started \in Nat \cup {Failing}  BY StartedUp DEF RInv
<1>2. {chain, Failing} \cap {Down, Absent, Created} = {} /\ Down \notin {Absent, Created}
  BY DEF RInv, RenewalTypeOK, Down, Failing, Absent, Created
<1>3. RenewalTypeOK'
  <2>1. {issued', chain', key'} \subseteq Nat  BY <1>1 DEF RInv, RenewalTypeOK
  <2>2. proxy' \in {proxy, Created, Started} /\ overtaken' \in BOOLEAN
    BY <1>0 DEF Effect, RInv, RenewalTypeOK
  <2>3. proxy' \in Nat \cup {Down, Failing, Absent, Created}
    BY <1>s, <2>2 DEF RInv, RenewalTypeOK
  <2> QED BY <1>1, <2>1, <2>2, <2>3 DEF RInv, RenewalTypeOK, Down, Failing, Absent, Created
<1>4. running # None /\ running' # None => (Ours' <=> Ours)
  BY <1>0, OursStays DEF RInv
<1>5. Ours => running # None  BY DEF Ours
<1>6. WhoItWaitsFor /\ ProxyIsBack  BY DEF RInv
<1>7. running # None => running \in Deploys  BY DEF RInv, DInv, TypeOK
<1>8. WhoItWaitsFor' /\ ProxyIsBack'
  <2>1. CASE running' = d /\ pc'[d] = "replaced" /\ proxy' = Created /\ overtaken' = overtaken
    BY <1>1, <1>2, <2>1 DEF WhoItWaitsFor, ProxyIsBack, Up, Created, Down
  <2>2. CASE /\ running = d /\ running' = d /\ pc'[d] = "started"
             /\ proxy' = (IF Up THEN proxy ELSE Started)
             /\ overtaken' = (overtaken \/ hook \notin {"idle", "dead"})
    BY <1>1, <1>2, <1>s, <1>4, <1>6, <2>2 DEF WhoItWaitsFor, ProxyIsBack, Up
  <2>3. CASE running' = d /\ pc'[d] = "failed" /\ proxy' = proxy /\ overtaken' = overtaken
    BY <1>1, <1>2, <1>4, <1>5, <1>6, <2>3 DEF WhoItWaitsFor, ProxyIsBack, Up
  <2>4. CASE /\ running' = running /\ proxy' = proxy /\ overtaken' = overtaken
             /\ proxy \in {Absent, Created} /\ pc[d] \in {"replaced", "failed"} => pc'[d] \in {"replaced", "failed"}
    <3>1. proxy \in {Absent, Created} /\ running # None => pc'[running] \in {"replaced", "failed"}
      BY <1>0, <1>6, <1>7, <2>4 DEF Effect, WhoItWaitsFor
    <3>2. CASE running = None
      BY <1>2, <1>6, <2>4, <3>2 DEF WhoItWaitsFor, ProxyIsBack
    <3>3. CASE running # None
      BY <1>1, <1>4, <1>6, <2>4, <3>1, <3>3 DEF WhoItWaitsFor, ProxyIsBack, Up
    <3> QED BY <3>2, <3>3
  <2> QED BY <1>0, <2>1, <2>2, <2>3, <2>4 DEF Effect
<1> QED BY <1>0, <1>3, <1>8 DEF RInv

\* The hooks, certbot and the restart policy.
LEMMA RenewingStep == ASSUME RInv, Renewing \/ NginxRestarts PROVE RInv'
<1> USE DEF Up, Down, Failing, Absent, Created
<1>1. UNCHANGED vars  BY DEF Renewing, NginxRestarts, Pre, Renew, CopyFiles, MoveChain, MoveKey, RenewalFails, Post, Die
<1>2. DInv' /\ UNCHANGED <<running, pc>> /\ (Ours' <=> Ours)
  <2>1. DInv'  BY <1>1, DStutter DEF RInv
  <2>2. running' = running /\ env' = env /\ pc' = pc  BY <1>1 DEF vars, machine
  <2> QED BY <2>1, <2>2 DEF Ours
<1>3. Ours => running # None  BY DEF Ours
<1>s. Started \in {chain, Failing} /\ {chain, issued, key} \subseteq Nat  BY StartedUp DEF RInv, RenewalTypeOK
<1>4. RenewalTypeOK'
  <2>1. CASE NginxRestarts
    BY <1>s, <2>1 DEF NginxRestarts, certificate, RInv, RenewalTypeOK
  <2>2. CASE Pre \/ Renew \/ CopyFiles \/ MoveChain \/ MoveKey \/ RenewalFails
    <3>1. {issued', chain', key'} \subseteq Nat
      BY <1>s, <2>2 DEF Pre, Renew, CopyFiles, MoveChain, MoveKey, RenewalFails
    <3>2. proxy' \in {proxy, Down} /\ overtaken' \in {overtaken, FALSE}
      BY <2>2 DEF Pre, Renew, CopyFiles, MoveChain, MoveKey, RenewalFails
    <3>3. hook' \in {"stopped", "issued", "copied", "chain", "installed", "failed"}
      BY <2>2 DEF Pre, Renew, CopyFiles, MoveChain, MoveKey, RenewalFails, HookStage
    <3> QED BY <3>1, <3>2, <3>3 DEF RInv, RenewalTypeOK
  <2>3. CASE Post \/ Die
    <3>1. proxy' \in {proxy, Started} /\ hook' \in {"idle", "dead"}  BY <2>3 DEF Post, Die, HookStage
    <3> QED BY <1>s, <2>3, <3>1 DEF Post, Die, RInv, RenewalTypeOK
  <2> QED BY <2>1, <2>2, <2>3 DEF Renewing
<1>w. WhoItWaitsFor /\ ProxyIsBack  BY DEF RInv
<1>5. WhoItWaitsFor' /\ ProxyIsBack'
  <2>1. CASE NginxRestarts
    BY <1>2, <1>s, <1>w, <2>1 DEF NginxRestarts, certificate, WhoItWaitsFor, ProxyIsBack
  <2>2. CASE Pre
    BY <1>2, <1>3, <1>w, <2>2 DEF Pre, HookStage, WhoItWaitsFor, ProxyIsBack
  <2>3. CASE Renew \/ CopyFiles \/ MoveChain \/ MoveKey \/ RenewalFails
    <3>1. /\ proxy' = proxy /\ overtaken' = overtaken
          /\ hook \notin {"idle", "dead"} /\ hook' \notin {"idle", "dead"}
      BY <2>3 DEF Renew, CopyFiles, MoveChain, MoveKey, RenewalFails, HookStage
    <3> QED BY <1>2, <1>w, <3>1 DEF WhoItWaitsFor, ProxyIsBack
  <2>4. CASE Post
    BY <1>2, <1>3, <1>s, <1>w, <2>4 DEF Post, HookStage, WhoItWaitsFor, ProxyIsBack
  <2>5. CASE Die
    BY <1>2, <1>3, <1>s, <1>w, <2>5 DEF Die, WhoItWaitsFor, ProxyIsBack
  <2> QED BY <2>1, <2>2, <2>3, <2>4, <2>5 DEF Renewing
<1> QED BY <1>2, <1>4, <1>5 DEF RInv

-----------------------------------------------------------------------------
(* The theorems                                                              *)

\* The inductive invariant holds beside any number of renewals and deployments.
THEOREM RenewalInvariant == RenewalSpec => []RInv
<1>1. RenewalInit => RInv
  <2> SUFFICES ASSUME RenewalInit PROVE RInv  OBVIOUS
  <2>1. DInv /\ running = None  BY DInit DEF RenewalInit, Init
  <2>2. /\ issued = 0 /\ chain = 0 /\ key = 0 /\ hook = "idle" /\ proxy = Absent /\ overtaken = FALSE
    BY DEF RenewalInit
  <2>3. {issued, chain, key} \subseteq Nat  BY <2>2
  <2>4. RenewalTypeOK  BY <2>2, <2>3 DEF RenewalTypeOK
  <2> QED BY <2>1, <2>2, <2>4 DEF RInv, WhoItWaitsFor, ProxyIsBack, Ours, Absent, Down
<1>2. RInv /\ UNCHANGED renewalVars => RInv'
  <2> SUFFICES ASSUME RInv, UNCHANGED renewalVars PROVE RInv'  OBVIOUS
  <2>1. DInv'  BY DStutter DEF RInv, renewalVars
  <2>2. /\ running' = running /\ env' = env /\ issued' = issued /\ chain' = chain /\ key' = key
        /\ hook' = hook /\ proxy' = proxy /\ overtaken' = overtaken /\ pc' = pc
    BY DEF renewalVars, vars, machine, certificate
  <2> QED BY <2>1, <2>2 DEF RInv, RenewalTypeOK, WhoItWaitsFor, ProxyIsBack, Ours, Up
<1>3. RInv /\ [RenewalNext]_renewalVars => RInv'
  BY <1>2, DeployingStep, RenewingStep DEF RenewalNext
<1> QED BY <1>1, <1>3, PTL DEF RenewalSpec

\* Once a run of certbot is over, failed or not, the proxy is not left stopped; it
\* is not up only while a deployment waits for its containers or after it failed.
THEOREM ProxyAlwaysBack == RenewalSpec => []ProxyIsBack
<1>1. RInv => ProxyIsBack  BY DEF RInv
<1> QED BY <1>1, RenewalInvariant, PTL

\* What holds of deployments alone holds of them beside renewals, when the proxy is
\* not healthy, or when only some of their containers could be replaced.
THEOREM DeploymentsBesideRenewals ==
  RenewalSpec => [](SecretsFitTheVolume /\ OneDatabase /\ SchemaIsReady /\ LinksFollowHistory /\ ReadyIsTrue)
<1>1. RInv => SecretsFitTheVolume /\ OneDatabase /\ SchemaIsReady /\ LinksFollowHistory /\ ReadyIsTrue
  BY Secrets, Database, SchemaIsThere, Answers DEF RInv, DInv
<1> QED BY <1>1, RenewalInvariant, PTL
=============================================================================
