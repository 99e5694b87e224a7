------------------------------ MODULE AppUpdate ------------------------------
(***************************************************************************)
(* The update agent (agent/greenmind_agent.py): it polls the cloud for the *)
(* desired application release, downloads, extracts and installs it, moves *)
(* the symlink current, restarts the gateway service, checks its health    *)
(* and rolls back.                                                         *)
(*                                                                         *)
(* The agent is one process and one loop; around it the operator changes   *)
(* the desired release, systemd and the health timer restart the gateway,  *)
(* and the agent or the whole machine may die between any two steps.  The  *)
(* checks on digest, signature and archive are one step that can fail.     *)
(* Versions are names without an order: an operator may go back.           *)
(***************************************************************************)
EXTENDS Integers, FiniteSets

CONSTANTS
  Versions,
  Initial,       \* the release the installer leaves as current
  NoVersion,
  Broken,        \* releases whose service fails the health check
  Keep,          \* KEEP_RELEASES
  Returns,       \* whether the operator may go back to an extracted release
  MaxRequests,   \* bound: changes of the desired release
  MaxFaults,     \* bound: failing steps
  MaxCrashes     \* bound: deaths of the agent

ASSUME AppUpdateAssumption ==
  /\ IsFiniteSet(Versions)
  /\ Initial \in Versions /\ NoVersion \notin Versions
  /\ Broken \subseteq Versions \ {Initial}
  /\ Keep \in Nat \ {0}
  /\ Returns \in BOOLEAN
  /\ MaxRequests \in Nat /\ MaxFaults \in Nat /\ MaxCrashes \in Nat

VARIABLES
  desired,    \* release the cloud wants
  releases,   \* directories under releases/
  installed,  \* those of them whose virtual environment is complete
  newer,      \* newer[v]: directories made after that of v (their mtimes)
  current,    \* target of the symlink current
  running,    \* release the gateway process was started from
  previous,   \* state["previous_release"]
  cached,     \* state["cached_version"]
  saved,      \* the state file: previous and cached as last saved
  tarball,    \* whether the file state["cached_tarball"] names exists
  temps,      \* temporary links left under the names this process uses
  pc,
  target,     \* release the agent is applying
  created,    \* created_release
  outcome,    \* history: how the attempt in progress ended
  before,     \* history: current when the attempt began
  kept,       \* history: directories whose release passed its health check, or
              \* was still active when its attempt ended
  stranded,   \* history: releases left active by a rollback whose link failed
  requests, faults, crashes

diskVars  == <<releases, installed, newer, current>>
stateVars == <<previous, cached, saved, tarball>>
tempVars  == <<temps, kept, stranded>>
loopVars  == <<pc, target, created, outcome, before>>
boundVars == <<requests, faults, crashes>>
vars == <<desired, diskVars, running, stateVars, tempVars, loopVars, boundVars>>

MaybeVersion == Versions \cup {NoVersion}

Init ==
  /\ desired = Initial
  /\ releases = {Initial} /\ installed = {Initial}
  /\ newer = [v \in Versions |-> {}]
  /\ current = Initial /\ running = Initial
  /\ previous = NoVersion /\ cached = NoVersion
  /\ saved = [previous |-> NoVersion, cached |-> NoVersion]
  /\ tarball = FALSE
  /\ pc = "poll" /\ target = NoVersion /\ created = FALSE
  /\ outcome = "none" /\ before = Initial
  /\ temps = {} /\ kept = {Initial} /\ stranded = {}
  /\ requests = 0 /\ faults = 0 /\ crashes = 0

Fault == faults < MaxFaults /\ faults' = faults + 1 /\ UNCHANGED <<requests, crashes>>

Goto(from, to) == pc = from /\ pc' = to

\* save_state: the file becomes what the agent has in memory.
Save(p, c) == saved' = [previous |-> p, cached |-> c]

-----------------------------------------------------------------------------
(* main and _handle_app_update *)

\* The cloud offers an update when the reported release is not the desired one.
Poll ==
  /\ Goto("poll", "download")
  /\ desired # current
  /\ target' = desired
  /\ created' = FALSE /\ outcome' = "none" /\ before' = current
  /\ UNCHANGED <<desired, tempVars, diskVars, running, stateVars, boundVars>>

UseCached ==
  /\ Goto("download", "apply")
  /\ cached = target /\ tarball
  /\ UNCHANGED <<desired, tempVars, diskVars, running, stateVars, target, created,
                 outcome, before, boundVars>>

Download ==
  /\ Goto("download", "apply")
  /\ ~(cached = target /\ tarball)
  /\ cached' = target /\ tarball' = TRUE
  /\ Save(previous, target)
  /\ UNCHANGED <<desired, tempVars, diskVars, running, previous, target, created,
                 outcome, before, boundVars>>

\* No space, no answer, wrong digest or signature, or not in the window: the
\* name of a file that is gone is forgotten.
DownloadFails ==
  /\ Goto("download", "save")
  /\ Fault
  /\ ~(cached = target /\ tarball)
  /\ cached' = IF cached = target THEN NoVersion ELSE cached
  /\ UNCHANGED <<desired, tempVars, diskVars, running, previous, saved, tarball,
                 target, created, outcome, before>>

\* Outside the update window.
Postpone ==
  /\ Goto("apply", "save")
  /\ UNCHANGED <<desired, tempVars, diskVars, running, stateVars, target, created,
                 outcome, before, boundVars>>

BeginApply ==
  /\ Goto("apply", "extract")
  /\ Save(previous, cached)
  /\ UNCHANGED <<desired, tempVars, diskVars, running, previous, cached, tarball,
                 target, created, outcome, before, boundVars>>

-----------------------------------------------------------------------------
(* apply_app_update *)

\* An exception: the handler rolls back to what the state calls previous.
Except == pc' = "rollback" /\ outcome' = "failed"

AlreadyExtracted ==
  /\ pc = "extract" /\ Except
  /\ target \in releases
  /\ UNCHANGED <<desired, tempVars, diskVars, running, stateVars, target, created,
                 before, boundVars>>

ExtractFails ==
  /\ pc = "extract" /\ Except
  /\ target \notin releases
  /\ Fault
  /\ UNCHANGED <<desired, tempVars, diskVars, running, stateVars, target, created,
                 before>>

Extract ==
  /\ Goto("extract", "install")
  /\ target \notin releases
  /\ releases' = releases \cup {target}
  /\ newer' = [v \in Versions |->
       IF v = target \/ v \notin releases THEN {} ELSE newer[v] \cup {target}]
  /\ created' = TRUE
  /\ UNCHANGED <<desired, tempVars, installed, current, running, stateVars,
                 target, outcome, before, boundVars>>

InstallFails ==
  /\ pc = "install" /\ Except
  /\ Fault
  /\ UNCHANGED <<desired, tempVars, diskVars, running, stateVars, target, created,
                 before>>

Install ==
  /\ Goto("install", "switch")
  /\ installed' = installed \cup {target}
  /\ UNCHANGED <<desired, tempVars, releases, newer, current, running, stateVars,
                 target, created, outcome, before, boundVars>>

\* Seeded bug: the release to return to is not remembered when there is one.
SwitchKeepingPrevious ==
  /\ Goto("switch", "restart")
  /\ previous' = IF previous = NoVersion THEN current ELSE previous
  /\ current' = target
  /\ UNCHANGED <<desired, tempVars, releases, installed, newer, running, cached,
                 saved, tarball, target, created, outcome, before, boundVars>>

Switch ==
  /\ Goto("switch", "restart")
  /\ "update" \notin temps
  /\ previous' = current
  /\ current' = target
  /\ UNCHANGED <<desired, tempVars, releases, installed, newer, running, cached,
                 saved, tarball, target, created, outcome, before, boundVars>>

\* symlink_to fails, or os.replace after it: then the temporary link stays, under
\* a name that all later attempts of this process find taken.
LinkFails(name) ==
  \/ name \in temps /\ UNCHANGED <<temps, boundVars>>
  \/ name \notin temps /\ Fault /\ temps' \in {temps, temps \cup {name}}

SwitchFails ==
  /\ pc = "switch" /\ Except
  /\ LinkFails("update")
  /\ previous' = current
  /\ UNCHANGED <<desired, kept, stranded, diskVars, running, cached, saved, tarball, target,
                 created, before>>

\* rmtree of some release directories.
Delete(gone) ==
  /\ releases' = releases \ gone
  /\ installed' = installed \ gone
  /\ newer' = [v \in Versions |-> IF v \in gone THEN {} ELSE newer[v] \ gone]

\* cleanup_old_releases spares the Keep youngest directories and the active one.
Old == {v \in releases : Cardinality(newer[v]) >= Keep}

CleanUp == Delete(Old \ {current})

\* Seeded bug: old releases are cleaned up before the verdict on the new one.
RestartCleaning ==
  /\ Goto("restart", "health")
  /\ running' = current
  /\ CleanUp
  /\ UNCHANGED <<desired, tempVars, current, stateVars, target, created, outcome,
                 before, boundVars>>

Restart ==
  /\ Goto("restart", "health")
  /\ running' = current
  /\ UNCHANGED <<desired, tempVars, diskVars, stateVars, target, created, outcome,
                 before, boundVars>>

\* systemctl fails or takes too long, and the service may restart all the same.
RestartFails ==
  /\ pc = "restart" /\ Except
  /\ Fault
  /\ running' \in {running, current}
  /\ UNCHANGED <<desired, tempVars, diskVars, stateVars, target, created, before>>

Healthy ==
  /\ Goto("health", "save")
  /\ running \notin Broken
  /\ cached' = NoVersion /\ tarball' = FALSE
  /\ CleanUp
  /\ outcome' = "applied" /\ kept' = (kept \cup {target}) \ (Old \ {current})
  /\ UNCHANGED <<desired, temps, stranded, current, running, previous, saved,
                 target, created, before, boundVars>>

\* The metadata of a release that passed cannot be written.
MetadataFails ==
  /\ pc = "health" /\ Except
  /\ running \notin Broken
  /\ Fault
  /\ UNCHANGED <<desired, tempVars, diskVars, running, stateVars, target, created,
                 before>>

\* Seeded bug: what is not healthy yet is given the benefit of the doubt.
UnhealthyIgnored ==
  /\ Goto("health", "save")
  /\ running \in Broken \/ faults < MaxFaults
  /\ faults' = IF running \in Broken THEN faults ELSE faults + 1
  /\ outcome' = "refused"
  /\ UNCHANGED <<desired, tempVars, diskVars, running, stateVars, target, created,
                 before, requests, crashes>>

\* A broken release, or a check that fails once on a good one.
Unhealthy ==
  /\ Goto("health", "rollback")
  /\ running \in Broken \/ faults < MaxFaults
  /\ faults' = IF running \in Broken THEN faults ELSE faults + 1
  /\ outcome' = "refused"
  /\ UNCHANGED <<desired, tempVars, diskVars, running, stateVars, target, created,
                 before, requests, crashes>>

\* _rollback_to: after a refused health check the local previous is the one in
\* the state, because Switch has set both.
LinkBack ==
  /\ Goto("rollback", "restart_back")
  /\ previous \in releases /\ "rollback" \notin temps
  /\ current' = previous
  /\ UNCHANGED <<desired, tempVars, releases, installed, newer, running,
                 stateVars, target, created, outcome, before, boundVars>>

\* The link cannot be put back: what is active stays so.
LinkBackFails ==
  /\ Goto("rollback", "discard")
  /\ previous \in releases
  /\ LinkFails("rollback")
  /\ stranded' = stranded \cup ({current} \ {before})
  /\ UNCHANGED <<desired, kept, diskVars, running, stateVars, target, created,
                 outcome, before>>

NothingToLink ==
  /\ Goto("rollback", "discard")
  /\ previous \notin releases
  /\ UNCHANGED <<desired, tempVars, diskVars, running, stateVars, target, created,
                 outcome, before, boundVars>>

RestartBack ==
  /\ Goto("restart_back", "discard")
  /\ running' = current
  /\ UNCHANGED <<desired, tempVars, diskVars, stateVars, target, created, outcome,
                 before, boundVars>>

RestartBackFails ==
  /\ Goto("restart_back", "discard")
  /\ Fault
  /\ running' \in {running, current}
  /\ UNCHANGED <<desired, tempVars, diskVars, stateVars, target, created, outcome,
                 before>>

\* Seeded bug: the directory is removed without a look at the symlink.
DiscardAnyway ==
  /\ Goto("discard", "save")
  /\ Delete(IF created THEN {target} ELSE {})
  /\ tarball' = FALSE /\ kept' = kept \cup {current}
  /\ UNCHANGED <<desired, temps, stranded, current, running, previous, cached,
                 saved, target, created, outcome, before, boundVars>>

\* Seeded bug: what the failed attempt extracted is left on the disk.
DiscardDownload ==
  /\ Goto("discard", "save")
  /\ tarball' = FALSE /\ kept' = kept \cup {current}
  /\ UNCHANGED <<desired, temps, stranded, diskVars, running, previous, cached,
                 saved, target, created, outcome, before, boundVars>>

\* The failed release is removed unless it is active; the download always is.
Discard ==
  /\ Goto("discard", "save")
  /\ Delete(IF created /\ current # target THEN {target} ELSE {})
  /\ tarball' = FALSE /\ kept' = kept \cup {current}
  /\ UNCHANGED <<desired, temps, stranded, current, running, previous, cached,
                 saved, target, created, outcome, before, boundVars>>

\* The end of the loop.
EndLoop ==
  /\ Goto("save", "poll")
  /\ Save(previous, cached)
  /\ target' = NoVersion
  /\ UNCHANGED <<desired, tempVars, diskVars, running, previous, cached, tarball,
                 created, outcome, before, boundVars>>

-----------------------------------------------------------------------------
(* Around the agent *)

\* The operator rolls out another release.
RollOut(v) ==
  /\ requests < MaxRequests /\ requests' = requests + 1
  /\ v # desired
  /\ Returns \/ v \notin releases
  /\ desired' = v
  /\ UNCHANGED <<diskVars, tempVars, running, stateVars, loopVars, faults, crashes>>

\* systemd restarts a service that died, the health timer one that is broken,
\* a command one that may be fine.
ServiceRestarts ==
  /\ running' = current
  /\ UNCHANGED <<desired, tempVars, diskVars, stateVars, loopVars, boundVars>>

\* The agent dies, alone or with the machine; PrivateTmp takes its downloads,
\* and a save_state it dies in leaves a file that load_state cannot read.
Crash ==
  /\ crashes < MaxCrashes /\ crashes' = crashes + 1
  /\ \E torn \in {saved, [previous |-> NoVersion, cached |-> NoVersion]} :
       /\ torn # saved => pc \in {"download", "apply", "save"}
       /\ saved' = torn
       /\ previous' = torn.previous /\ cached' = torn.cached
  /\ tarball' = FALSE /\ temps' = {}
  /\ running' \in {running, current}
  /\ pc' = "poll" /\ target' = NoVersion /\ created' = FALSE /\ outcome' = "none"
  /\ UNCHANGED <<desired, kept, stranded, diskVars, before, requests, faults>>

AgentStep ==
  \/ Poll \/ UseCached \/ Download \/ DownloadFails \/ BeginApply
  \/ AlreadyExtracted \/ ExtractFails \/ Extract \/ InstallFails \/ Install
  \/ Switch \/ SwitchFails \/ Restart \/ RestartFails
  \/ Healthy \/ MetadataFails \/ Unhealthy
  \/ LinkBack \/ LinkBackFails \/ NothingToLink \/ RestartBack \/ RestartBackFails
  \/ Discard \/ EndLoop

Next ==
  \/ AgentStep
  \/ Postpone
  \/ \E v \in Versions : RollOut(v)
  \/ ServiceRestarts
  \/ Crash

Spec == Init /\ [][Next]_vars

\* The loop never stops (every call it makes has a timeout), the update window
\* opens again and again, and the health timer restarts a broken service.
Fairness ==
  /\ WF_vars(AgentStep)
  /\ SF_vars(BeginApply)
  /\ WF_vars(running \in Broken /\ ServiceRestarts)

FairSpec == Spec /\ Fairness

-----------------------------------------------------------------------------
(* Properties *)

Phases == {"poll", "download", "apply", "extract", "install", "switch", "restart",
           "health", "rollback", "restart_back", "discard", "save"}

DiskType ==
  /\ releases \in SUBSET Versions /\ installed \in SUBSET releases
  /\ newer \in [Versions -> SUBSET Versions]
  /\ current \in Versions /\ running \in Versions

StateType ==
  /\ previous \in MaybeVersion /\ cached \in MaybeVersion
  /\ saved \in [previous : MaybeVersion, cached : MaybeVersion]
  /\ tarball \in BOOLEAN

LoopType ==
  /\ pc \in Phases
  /\ target \in MaybeVersion /\ (pc # "poll" => target \in Versions)
  /\ created \in BOOLEAN
  /\ outcome \in {"none", "applied", "refused", "failed"}
  /\ before \in Versions
  /\ temps \subseteq {"update", "rollback"}
  /\ kept \subseteq Versions /\ stranded \subseteq Versions

BoundType ==
  /\ requests \in 0 .. MaxRequests /\ faults \in 0 .. MaxFaults
  /\ crashes \in 0 .. MaxCrashes

\* Every variable has its type; an environment is complete only in a release
\* directory, and an attempt under way has a target.
TypeOK == desired \in Versions /\ DiskType /\ StateType /\ LoopType /\ BoundType

\* The symlink current never dangles: whatever the clean-up, the removal of
\* failed releases and stale rollback targets do, the directory it names exists
\* and the service can be restarted from it at any time.
CurrentExists == current \in releases

\* While a new release is on trial, the one it replaced is still complete on
\* the disk and is the one the rollback will take.
TrialCanBeUndone ==
  pc \in {"restart", "health"} =>
    /\ previous = before /\ previous # target
    /\ before \in releases

\* When an attempt ends whose release the health check refused, the release
\* before it is active again; only if a step failed and the link could not be put
\* back ("ROLLBACK FAILED", greenmind_agent.py:724-726) the refused one stays,
\* and never a third.
RefusedIsUndone ==
  pc = "save" /\ outcome = "refused" =>
    \/ current = before
    \/ current = target /\ target \in stranded /\ faults > 0

\* As long as the agent does not die, only releases that passed their health
\* check, or that their attempt left active, stay on the disk: any other attempt
\* leaves nothing behind that would make its repetition fail.
OnlyKeptRemain == pc = "poll" /\ crashes = 0 => releases \subseteq kept

\* What the three properties above rest on: until the switch the attempt has
\* changed nothing but the target's directory, and from a refused health check
\* on the way back stays open and is taken.
BeforeTheSwitch ==
  pc \in {"download", "apply", "extract", "install", "switch"} =>
    before = current /\ target # current /\ outcome = "none"

ExtractedIsThere == pc \in {"install", "switch"} => target \in releases

OnTrial == pc \in {"restart", "health"} => outcome = "none" /\ current = target

WayBack ==
  outcome = "refused" =>
    /\ pc = "rollback" =>
         previous = before /\ before \in releases /\ current = target /\ target # before
    /\ pc = "restart_back" => current = before
    /\ pc \in {"discard", "save"} =>
         current = before \/ (current = target /\ target \in stranded)

\* What an attempt extracted and nothing has vouched for yet is its target.
OnlyTargetUnkept ==
  crashes = 0 =>
    releases \subseteq
      IF pc \in {"poll", "download", "apply", "extract", "save"} \/ ~created
      THEN kept ELSE kept \cup {target}

LinksNeedFaults == temps # {} \/ stranded # {} => faults > 0

\* The inductive invariant of the proofs.
IndInv ==
  /\ TypeOK /\ CurrentExists /\ TrialCanBeUndone
  /\ BeforeTheSwitch /\ ExtractedIsThere /\ OnTrial /\ WayBack
  /\ OnlyTargetUnkept /\ LinksNeedFaults

(* Releases are switched as GuardedSwitch promises: the release before the  *)
(* one on trial stays on the disk, and the trial ends with one of the two.  *)
(* A trial lasts from the switch until the verdict is executed; an attempt  *)
(* that failed before its switch rolls back without one.                    *)
OnTheWayBack == pc = "rollback" /\ current # before

Abstract == INSTANCE GuardedSwitch WITH
  Item <- Versions, stock <- releases, active <- current,
  fallback <- IF pc \in {"restart", "health"} \/ OnTheWayBack THEN {before} ELSE {}
Implements == Abstract!Spec

\* README: "On failure -> automatic rollback to previous release": an attempt
\* that fails, at whatever step, leaves the release that was active before.
FailureIsUndone ==
  pc = "save" /\ outcome \in {"failed", "refused"} => current = before

\* A working release that is not on the disk already (the extraction of one
\* that is fails, always) is finally active and running,
\* as long as the operator wants it and the agent does not die on the way.
FreshIsReached ==
  \A v \in Versions \ Broken :
    desired = v /\ v \notin releases /\ crashes = 0
      ~> \/ desired # v \/ crashes > 0 \/ "update" \in temps \/ v \in kept
         \/ current = v /\ running = v

\* A broken release does not keep running, unless the agent dies, which may
\* happen before it has the verdict, or the rollback's link failed: then the
\* refused release stays active until the operator wants another one, and a later
\* rollback may come back to it.
BrokenIsLeft ==
  \A v \in Broken :
    running = v /\ crashes = 0 ~> running # v \/ crashes > 0 \/ v \in stranded
=============================================================================
