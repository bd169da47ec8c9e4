------------------------------ MODULE Deployment ------------------------------
(***************************************************************************)
(* Releases on the demo host, as .fordeploy/deploy.sh replaces one by the  *)
(* next: images and a bundle are transferred, the legacy container is      *)
(* stopped, Compose is brought up, readiness is awaited, the links current *)
(* and previous are moved and old images removed.                          *)
(*                                                                         *)
(* A command that fails ends the script; between "trap rollback ERR" and   *)
(* "trap - ERR" the rollback runs first, but not on an exit of the script's*)
(* own.  The rollback brings up the graph profile only: the simulator stays*)
(* what it is.  The connection may be lost between any two commands.       *)
(***************************************************************************)
EXTENDS Naturals

CONSTANTS
  Versions,      \* releases, each deployed by one run of the script
  None,          \* no release
  Services,      \* the services whose images are built here
  GraphProfile,  \* those that Compose starts without --profile simulator
  MaxFailures    \* bound: commands that fail and connections lost

ASSUME DeploymentAssumption ==
  /\ None \notin Versions
  /\ GraphProfile \subseteq Services
  /\ MaxFailures \in Nat

(* A definition F_Variant is F as a plausible mistake would have it; it is   *)
(* used by no action, only to see that the properties notice the difference. *)

VARIABLES
  step,          \* where the script of a version is
  PREVIOUS_RELEASE,     \* the release the script found current
  LEGACY_WAS_RUNNING,   \* whether it stopped the legacy container
  deployRoot,    \* whether DEPLOY_ROOT is there
  images,        \* the application images the host has, by service and version
  bundles,       \* versions whose release directory is complete
  current,       \* the link current
  previous,      \* the link previous
  composed,      \* the version of each service's containers
  legacy,        \* the container of the first-stage deployment
  everReady,     \* history: versions that answered both readiness checks
  failures       \* failures so far

scriptVars     == <<PREVIOUS_RELEASE, LEGACY_WAS_RUNNING>>
hostVars       == <<deployRoot, images, bundles>>
linkVars       == <<current, previous>>
runVars        == <<composed, legacy, everReady>>
deploymentVars == <<step, scriptVars, hostVars, linkVars, runVars, failures>>

-----------------------------------------------------------------------------
Steps == {"new", "transferred", "loaded", "stopped", "up", "ready", "healthy",
          "linkedPrevious", "linked", "cleaned", "rollback",
          "succeeded", "rolledBack", "failed", "lost"}

\* A maintainer runs one deployment at a time.
Over == {"new", "succeeded", "rolledBack", "failed", "lost"}

At(v, s) == step[v] = s
GoTo(v, s) == step' = [step EXCEPT ![v] = s]

Images(v) == Services \X {v}

\* Some services have their containers replaced by those of version v.
Replaced(some, v) == [s \in Services |-> IF s \in some THEN v ELSE composed[s]]

Failure == failures < MaxFailures /\ failures' = failures + 1

DeploymentInit ==
  /\ step = [v \in Versions |-> "new"]
  /\ PREVIOUS_RELEASE = [v \in Versions |-> None]
  /\ LEGACY_WAS_RUNNING = [v \in Versions |-> FALSE]
  /\ deployRoot = FALSE
  /\ images = {} /\ bundles = {}
  /\ current = None /\ previous = None
  /\ composed = [s \in Services |-> None]
  /\ legacy \in {"running", "stopped", "absent"}
  /\ everReady = {}
  /\ failures = 0

-----------------------------------------------------------------------------
\* Checks, clean clone, build, archive and transfer: nothing on the host changes.
Transfer(v) ==
  /\ At(v, "new")
  /\ \A u \in Versions : step[u] \in Over
  /\ GoTo(v, "transferred")
  /\ UNCHANGED <<scriptVars, hostVars, linkVars, runVars, failures>>

\* readlink -f prints what current names; where there is no such link it prints the
\* path of the link itself if DEPLOY_ROOT is there, and otherwise nothing.
PreviousAccepted == current # None \/ ~ deployRoot

UnsafePreviousRelease(v) ==
  /\ At(v, "transferred")
  /\ ~ PreviousAccepted
  /\ GoTo(v, "failed")
  /\ UNCHANGED <<scriptVars, hostVars, linkVars, runVars, failures>>

Load_FindsPrevious(v) ==
  /\ At(v, "transferred")
  /\ PreviousAccepted
  /\ PREVIOUS_RELEASE' = [PREVIOUS_RELEASE EXCEPT ![v] = previous]
  /\ deployRoot' = TRUE
  /\ images' = images \cup Images(v)
  /\ bundles' = bundles \cup {v}
  /\ GoTo(v, "loaded")
  /\ UNCHANGED <<LEGACY_WAS_RUNNING, linkVars, runVars, failures>>

\* Extract the bundle, load the images, validate the configuration.
Load(v) ==
  /\ At(v, "transferred")
  /\ PreviousAccepted
  /\ PREVIOUS_RELEASE' = [PREVIOUS_RELEASE EXCEPT ![v] = current]
  /\ deployRoot' = TRUE
  /\ images' = images \cup Images(v)
  /\ bundles' = bundles \cup {v}
  /\ GoTo(v, "loaded")
  /\ UNCHANGED <<LEGACY_WAS_RUNNING, linkVars, runVars, failures>>

\* The bundle is complete with the file .deployment.env, written after the images.
LoadFails(v) ==
  /\ At(v, "transferred")
  /\ PreviousAccepted
  /\ Failure
  /\ \/ UNCHANGED hostVars
     \/ /\ deployRoot' = TRUE
        /\ \E loaded \in SUBSET Images(v) : images' = images \cup loaded
        /\ bundles' \in {bundles, bundles \cup {u \in {v} : Images(u) \subseteq images'}}
  /\ GoTo(v, "failed")
  /\ UNCHANGED <<scriptVars, linkVars, runVars>>

StopLegacy_Removes(v) ==
  /\ At(v, "loaded")
  /\ LEGACY_WAS_RUNNING' = [LEGACY_WAS_RUNNING EXCEPT ![v] = legacy = "running"]
  /\ legacy' = "absent"
  /\ GoTo(v, "stopped")
  /\ UNCHANGED <<PREVIOUS_RELEASE, hostVars, linkVars, composed, everReady, failures>>

StopLegacy(v) ==
  /\ At(v, "loaded")
  /\ LEGACY_WAS_RUNNING' = [LEGACY_WAS_RUNNING EXCEPT ![v] = legacy = "running"]
  /\ legacy' = IF legacy = "running" THEN "stopped" ELSE legacy
  /\ GoTo(v, "stopped")
  /\ UNCHANGED <<PREVIOUS_RELEASE, hostVars, linkVars, composed, everReady, failures>>

\* docker stop fails before the trap is set.
StopLegacyFails(v) ==
  /\ At(v, "loaded")
  /\ legacy = "running"
  /\ Failure
  /\ GoTo(v, "failed")
  /\ UNCHANGED <<scriptVars, hostVars, linkVars, runVars>>

ComposeUp(v) ==
  /\ At(v, "stopped")
  /\ composed' = Replaced(Services, v)
  /\ GoTo(v, "up")
  /\ UNCHANGED <<scriptVars, hostVars, linkVars, legacy, everReady, failures>>

\* Some containers may have been replaced.
ComposeUpFails(v) ==
  /\ At(v, "stopped")
  /\ Failure
  /\ \E some \in SUBSET Services : composed' = Replaced(some, v)
  /\ GoTo(v, "rollback")
  /\ UNCHANGED <<scriptVars, hostVars, linkVars, legacy, everReady>>

-----------------------------------------------------------------------------
(* rollback().  Every command of it may fail and be ignored.                *)
HasPrevious(v) == PREVIOUS_RELEASE[v] \in bundles

RestorePrevious_FromLink(v) ==
  /\ HasPrevious(v)
  /\ GraphProfile \X {previous} \subseteq images
  /\ composed' = Replaced(GraphProfile, previous)
  /\ UNCHANGED legacy

\* up with --profile graph: the simulator's containers are not touched.
RestorePrevious(v) ==
  /\ HasPrevious(v)
  /\ GraphProfile \X {PREVIOUS_RELEASE[v]} \subseteq images
  /\ composed' = Replaced(GraphProfile, PREVIOUS_RELEASE[v])
  /\ UNCHANGED legacy

RestoreLegacy(v) ==
  /\ ~ HasPrevious(v)
  /\ LEGACY_WAS_RUNNING[v]
  /\ composed' = Replaced(Services, None)
  /\ legacy' = "running"

NothingToRestore(v) ==
  /\ ~ HasPrevious(v) /\ ~ LEGACY_WAS_RUNNING[v]
  /\ UNCHANGED <<composed, legacy>>

\* up, or down or start, has done a part of it.
RestoreFails(v) ==
  \/ /\ HasPrevious(v)
     /\ \E some \in SUBSET GraphProfile :
          /\ some \X {PREVIOUS_RELEASE[v]} \subseteq images
          /\ composed' = Replaced(some, PREVIOUS_RELEASE[v])
     /\ UNCHANGED legacy
  \/ /\ ~ HasPrevious(v) /\ LEGACY_WAS_RUNNING[v]
     /\ \E some \in SUBSET Services : composed' = Replaced(some, None)
     /\ legacy' \in {legacy, "running"}

\* docker image rm refuses an image that a container uses.
Unused(S) == {i \in S : composed'[i[1]] # i[2]}

rollback(v) ==
  /\ At(v, "rollback")
  /\ \/ /\ RestorePrevious(v) \/ RestoreLegacy(v) \/ NothingToRestore(v)
        /\ GoTo(v, "rolledBack")
        /\ UNCHANGED failures
     \/ /\ RestoreFails(v)
        /\ GoTo(v, "failed")
        /\ Failure
  /\ images' = images \ Unused(Images(v))
  /\ UNCHANGED <<scriptVars, deployRoot, bundles, linkVars, everReady>>

-----------------------------------------------------------------------------
LocallyReady(v) ==
  /\ At(v, "up")
  /\ GoTo(v, "ready")
  /\ UNCHANGED <<scriptVars, hostVars, linkVars, runVars, failures>>

\* Sixty attempts have failed: the logs are shown and the script exits.  Only
\* the failure of compose ps or logs itself runs the trap.
NotLocallyReady(v) ==
  /\ At(v, "up")
  /\ \/ failures + 1 <= MaxFailures /\ failures' = failures + 1 /\ GoTo(v, "failed")
     \/ failures + 2 <= MaxFailures /\ failures' = failures + 2 /\ GoTo(v, "rollback")
  /\ UNCHANGED <<scriptVars, hostVars, linkVars, runVars>>

PubliclyReady(v) ==
  /\ At(v, "ready")
  /\ everReady' = everReady \cup {v}
  /\ GoTo(v, "healthy")
  /\ UNCHANGED <<scriptVars, hostVars, linkVars, composed, legacy, failures>>

NotPubliclyReady(v) ==
  /\ At(v, "ready")
  /\ Failure
  /\ GoTo(v, "failed")
  /\ UNCHANGED <<scriptVars, hostVars, linkVars, runVars>>

-----------------------------------------------------------------------------
LinkPrevious(v) ==
  /\ At(v, "healthy")
  /\ previous' = IF PREVIOUS_RELEASE[v] = None THEN previous ELSE PREVIOUS_RELEASE[v]
  /\ GoTo(v, "linkedPrevious")
  /\ UNCHANGED <<scriptVars, hostVars, current, runVars, failures>>

LinkCurrent(v) ==
  /\ At(v, "linkedPrevious")
  /\ current' = v
  /\ GoTo(v, "linked")
  /\ UNCHANGED <<scriptVars, hostVars, previous, runVars, failures>>

LinkFails(v) ==
  /\ step[v] \in {"healthy", "linkedPrevious"}
  /\ Failure
  /\ GoTo(v, "failed")
  /\ UNCHANGED <<scriptVars, hostVars, linkVars, runVars>>

Kept_CurrentOnly(v) == {v}

\* PREVIOUS_VERSION is read from the bundle of the previous release.
Kept(v) == {v} \cup (bundles \cap {PREVIOUS_RELEASE[v]})

\* Remove the legacy container, and the images of all but two versions; any
\* removal may fail and be ignored.
Clean(v) ==
  /\ At(v, "linked")
  /\ legacy' = IF legacy = "stopped" THEN "absent" ELSE legacy
  /\ UNCHANGED composed
  /\ LET old == images \ (Services \X Kept(v))
     IN  \/ images' = images \ Unused(old) /\ UNCHANGED failures
         \/ Failure /\ \E some \in SUBSET Unused(old) : images' = images \ some
  /\ GoTo(v, "cleaned")
  /\ UNCHANGED <<scriptVars, deployRoot, bundles, linkVars, everReady>>

Report(v) ==
  /\ At(v, "cleaned")
  /\ GoTo(v, "succeeded")
  /\ UNCHANGED <<scriptVars, hostVars, linkVars, runVars, failures>>

\* The connection is lost, and the script with it.
LoseConnection(v) ==
  /\ step[v] \notin Over
  /\ Failure
  /\ GoTo(v, "lost")
  /\ UNCHANGED <<scriptVars, hostVars, linkVars, runVars>>

-----------------------------------------------------------------------------
Step(v) ==
  \/ Transfer(v)
  \/ UnsafePreviousRelease(v)
  \/ Load(v)
  \/ LoadFails(v)
  \/ StopLegacy(v)
  \/ StopLegacyFails(v)
  \/ ComposeUp(v)
  \/ ComposeUpFails(v)
  \/ rollback(v)
  \/ LocallyReady(v)
  \/ NotLocallyReady(v)
  \/ PubliclyReady(v)
  \/ NotPubliclyReady(v)
  \/ LinkPrevious(v)
  \/ LinkCurrent(v)
  \/ LinkFails(v)
  \/ Clean(v)
  \/ Report(v)
  \/ LoseConnection(v)

DeploymentNext == \E v \in Versions : Step(v)

DeploymentSpec == DeploymentInit /\ [][DeploymentNext]_deploymentVars

-----------------------------------------------------------------------------
(* Every variable keeps its type, and a release that runs has its images.    *)
DeploymentTypeOK ==
  /\ step \in [Versions -> Steps]
  /\ PREVIOUS_RELEASE \in [Versions -> Versions \cup {None}]
  /\ LEGACY_WAS_RUNNING \in [Versions -> BOOLEAN]
  /\ deployRoot \in BOOLEAN
  /\ images \subseteq Services \X Versions
  /\ bundles \subseteq Versions
  /\ current \in Versions \cup {None}
  /\ previous \in Versions \cup {None}
  /\ composed \in [Services -> Versions \cup {None}]
  /\ \A s \in Services : composed[s] # None => <<s, composed[s]>> \in images
  /\ legacy \in {"running", "stopped", "absent"}
  /\ everReady \subseteq Versions
  /\ failures \in 0 .. MaxFailures

(* The releases the links name can be brought up: whatever failed, in        *)
(* whichever deployment, their images and their bundles are on the host, and *)
(* they have been ready before.                                              *)
RollbackTargetsIntact ==
  \A v \in Versions \cap {current, previous} : Images(v) \subseteq images /\ v \in bundles \cap everReady

(* The legacy container is given up only for a release that has been ready;  *)
(* a first deployment that fails leaves it there to be started.              *)
LegacyKeptUntilReady ==
  [][legacy # "absent" /\ legacy' = "absent" =>
       \A s \in Services : composed[s] \in everReady]_deploymentVars

(* Whatever earlier deployments have left, one that succeeds leaves every     *)
(* service at the release that current names, and one that ends by its       *)
(* rollback leaves those of the graph profile there; before there is a       *)
(* release, the legacy container that it stopped is running and nothing else.*)
EndsAtCurrent ==
  [][\A v \in Versions : step'[v] # step[v] =>
       /\ step'[v] = "succeeded" => \A s \in Services : composed'[s] = current'
       /\ step'[v] = "rolledBack" =>
            \/ current' # None /\ \A s \in GraphProfile : composed'[s] = current'
            \/ /\ current' = None
               /\ LEGACY_WAS_RUNNING'[v] => legacy' = "running" /\ \A s \in Services : composed'[s] = None
    ]_deploymentVars

-----------------------------------------------------------------------------
(* What the documents say and the code does not do.                         *)

(* The deployment guide says that on failure the previous release or the     *)
(* legacy container is rolled back to; an exit of the script's own, on a     *)
(* failed readiness check, does not run the trap.                            *)
FailureRollsBack ==
  \A v \in Versions :
    At(v, "failed") /\ (PREVIOUS_RELEASE[v] # None \/ LEGACY_WAS_RUNNING[v]) /\ v \notin everReady =>
      \E s \in Services : composed[s] # v

(* It says so of the release; the simulator stays at the version that failed.*)
RollbackIsWhole ==
  [][\A v \in Versions : step'[v] # step[v] /\ step'[v] = "rolledBack" /\ PREVIOUS_RELEASE[v] # None =>
       \A s \in Services : composed'[s] = PREVIOUS_RELEASE[v]]_deploymentVars

(* The script accepts a host that has no release yet; once a first deployment *)
(* has ended without the link current, it refuses every later one.           *)
NoReleaseIsAccepted ==
  [][\A v \in Versions : At(v, "transferred") /\ current = None /\ step'[v] = "failed" =>
       failures' # failures]_deploymentVars
=============================================================================
