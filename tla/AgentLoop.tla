----------------------------- MODULE AgentLoop ------------------------------
(***************************************************************************)
(* The update agent's round (main in agent/greenmind_agent.py): poll the    *)
(* desired state, apply a configuration, execute the pending commands,      *)
(* report.  The third part of a round, application releases, is AppUpdate;  *)
(* here it is only time that passes between the poll and what follows.      *)
(*                                                                          *)
(* active.json is a symbolic link to a version file or, after a rollback,   *)
(* to the backup.  No part of the gateway reads it, so the verdict of the   *)
(* health check does not depend on the version.                             *)
(***************************************************************************)
EXTENDS Naturals

CONSTANTS
    Versions,   \* configuration versions; a version's payload never changes
    NoConfig,   \* no active.json, no backup, no version
    Backup,     \* active.json points to last_good_config.json
    Torn,       \* content of a backup whose copy was cut short
    Commands,   \* identifiers of commands the operator may give
    Reboots,    \* those that are controlled_reboot
    NoCommand,
    MaxFaults   \* bound: failing steps, refusals, lost reports, crashes

ASSUME NamesAssumption ==
    /\ NoConfig \notin Versions /\ Backup \notin Versions \union {NoConfig}
    /\ Torn \notin Versions \union {NoConfig, Backup}
    /\ Reboots \subseteq Commands /\ NoCommand \notin Commands
ASSUME FaultsAssumption == MaxFaults \in Nat

VARIABLES
    wanted,     \* the cloud: desired configuration
    pending,    \* the cloud: commands without a result
    blocked,    \* the cloud: the gateway is blocked
    pc,         \* where the agent's round stands
    target,     \* configuration of this round
    todo,       \* commands of this round still to execute
    command,    \* command executed and not yet reported
    active,     \* what active.json points to
    files,      \* version files on the disk
    backup,     \* content of last_good_config.json
    residues,   \* temporary names that this process left behind
    rebooting,  \* the machine is about to go down
    faults,
    given,      \* history: commands ever given
    runs,       \* history: how often a command was executed
    before,     \* history: configuration in force when the attempt began
    outcome     \* history: how the last attempt ended

cloud   == <<wanted, pending, blocked>>
round   == <<target, todo, command>>
disk    == <<active, files, backup, residues>>
attempt == <<before, outcome>>
vars == <<cloud, pc, round, disk, rebooting, faults, given, runs, attempt>>

Places == {"idle", "download", "backup", "write", "link", "restart", "health",
           "back", "restart_back", "commands", "report"}
Names == {"config", "active_tmp", "active_rollback"}

TypeOK ==
    /\ wanted \in Versions \union {NoConfig}
    /\ pending \subseteq given /\ given \subseteq Commands
    /\ blocked \in BOOLEAN /\ pc \in Places
    /\ target \in Versions \union {NoConfig} /\ todo \subseteq given
    /\ command \in given \union {NoCommand}
    /\ active \in Versions \union {NoConfig, Backup}
    /\ files \subseteq Versions
    /\ backup \in Versions \union {NoConfig, Torn}
    /\ residues \subseteq Names /\ rebooting \in BOOLEAN
    /\ faults \in 0..MaxFaults /\ runs \in [Commands -> Nat]
    /\ before \in Versions \union {NoConfig}
    /\ outcome \in {"none", "applied", "kept", "undone", "left"}

Init ==
    /\ wanted = NoConfig /\ pending = {} /\ blocked = FALSE
    /\ pc = "idle" /\ target = NoConfig /\ todo = {} /\ command = NoCommand
    /\ active = NoConfig /\ files = {} /\ backup = NoConfig /\ residues = {}
    /\ rebooting = FALSE /\ faults = 0
    /\ given = {} /\ runs = [c \in Commands |-> 0]
    /\ before = NoConfig /\ outcome = "none"

-----------------------------------------------------------------------------
(* External: the operator, through the cloud.                               *)

Publish(v) == /\ wanted # v
              /\ wanted' = v
              /\ UNCHANGED <<pending, blocked, pc, round, disk, rebooting,
                             faults, given, runs, attempt>>

Order(c) == /\ c \notin given
            /\ given' = given \union {c} /\ pending' = pending \union {c}
            /\ UNCHANGED <<wanted, blocked, pc, round, disk, rebooting, faults,
                           runs, attempt>>

Block == /\ blocked' = ~blocked
         /\ UNCHANGED <<wanted, pending, pc, round, disk, rebooting, faults,
                        given, runs, attempt>>

-----------------------------------------------------------------------------
(* Helpers.                                                                 *)

Fault == faults < MaxFaults /\ faults' = faults + 1

\* The configuration a reader of active.json gets.
InForce == IF active = Backup THEN backup ELSE active

\* The attempt is over; whatever its end, the commands of the round follow.
Leave(how) == pc' = "commands" /\ outcome' = how /\ target' = NoConfig

-----------------------------------------------------------------------------
(* Poll and download (main, _handle_config_update).                         *)

\* Seeded bug: the commands wait until no configuration is wanted.
PollConfigFirst ==
    /\ pc = "idle" /\ ~blocked
    /\ wanted # active \/ pending # {}
    /\ target' = IF wanted # active THEN wanted ELSE NoConfig
    /\ todo' = IF wanted # active THEN {} ELSE pending
    /\ pc' = IF wanted # active THEN "download" ELSE "commands"
    /\ UNCHANGED <<cloud, command, disk, rebooting, faults, given, runs,
                   attempt>>

\* The cloud compares the name active.json resolves to with the desired one;
\* what it answers is all this round knows.  A blocked gateway does nothing.
Poll ==
    /\ pc = "idle" /\ ~blocked
    /\ wanted # active \/ pending # {}
    /\ target' = IF wanted # active THEN wanted ELSE NoConfig
    /\ todo' = pending
    /\ pc' = IF wanted # active THEN "download" ELSE "commands"
    /\ UNCHANGED <<cloud, command, disk, rebooting, faults, given, runs,
                   attempt>>

Download == /\ pc = "download"
            /\ pc' = "backup" /\ before' = InForce /\ outcome' = "none"
            /\ UNCHANGED <<cloud, round, disk, rebooting, faults, given, runs>>

\* No answer, a wrong digest, malformed metadata, or the lock file fails.
DownloadFails == /\ pc = "download"
                 /\ Fault
                 /\ pc' = "commands" /\ target' = NoConfig
                 /\ UNCHANGED <<cloud, todo, command, disk, rebooting, given,
                                runs, attempt>>

-----------------------------------------------------------------------------
(* apply_config_update.                                                     *)

\* Seeded bug: the backup is taken of the new configuration.
BackUpLate ==
    /\ pc = "backup"
    /\ backup' = IF active \in Versions THEN target ELSE backup
    /\ IF active = Backup THEN Leave("kept")
                          ELSE pc' = "write" /\ UNCHANGED <<target, outcome>>
    /\ UNCHANGED <<cloud, todo, command, active, files, residues, rebooting,
                   faults, given, runs, before>>

\* Seeded bug: an existing backup is not replaced.
BackUpOnce ==
    /\ pc = "backup"
    /\ backup' = IF active \in Versions /\ backup = NoConfig THEN active ELSE backup
    /\ IF active = Backup THEN Leave("kept")
                          ELSE pc' = "write" /\ UNCHANGED <<target, outcome>>
    /\ UNCHANGED <<cloud, todo, command, active, files, residues, rebooting,
                   faults, given, runs, before>>

\* The active file is copied, unless there is none or the link does not point
\* into the versions directory: then the update is refused.
BackUp ==
    /\ pc = "backup"
    /\ backup' = IF active \in Versions THEN active ELSE backup
    /\ IF active = Backup THEN Leave("kept")
                          ELSE pc' = "write" /\ UNCHANGED <<target, outcome>>
    /\ UNCHANGED <<cloud, todo, command, active, files, residues, rebooting,
                   faults, given, runs, before>>

BackUpFails ==
    /\ pc = "backup" /\ active \in Versions
    /\ Fault
    /\ backup' \in {backup, Torn}
    /\ Leave("kept")
    /\ UNCHANGED <<cloud, todo, command, active, files, residues, rebooting,
                   given, runs, before>>

\* Seeded bug: the file system still buffers the file when the link switches.
WriteSkipped ==
    /\ pc = "write"
    /\ pc' = "link"
    /\ UNCHANGED <<cloud, round, disk, rebooting, faults, given, runs, attempt>>

\* Open exclusively under a name with the process id, write, fsync, rename.
Write ==
    /\ pc = "write"
    /\ IF "config" \in residues
         THEN Leave("kept") /\ UNCHANGED files
         ELSE /\ files' = files \union {target} /\ pc' = "link"
              /\ UNCHANGED <<target, outcome>>
    /\ UNCHANGED <<cloud, todo, command, active, backup, residues, rebooting,
                   faults, given, runs, before>>

\* The disk is full: the temporary file may stay, and its name is then taken
\* for as long as the agent lives.
WriteFails ==
    /\ pc = "write"
    /\ Fault
    /\ residues' \in {residues, residues \union {"config"}}
    /\ Leave("kept")
    /\ UNCHANGED <<cloud, todo, command, active, files, backup, rebooting,
                   given, runs, before>>

Link ==
    /\ pc = "link"
    /\ IF "active_tmp" \in residues
         THEN Leave("kept") /\ UNCHANGED active
         ELSE /\ active' = target /\ pc' = "restart"
              /\ UNCHANGED <<target, outcome>>
    /\ UNCHANGED <<cloud, todo, command, files, backup, residues, rebooting,
                   faults, given, runs, before>>

LinkFails ==
    /\ pc = "link"
    /\ Fault
    /\ residues' \in {residues, residues \union {"active_tmp"}}
    /\ Leave("kept")
    /\ UNCHANGED <<cloud, todo, command, active, files, backup, rebooting,
                   given, runs, before>>

\* An exception of the restart is caught outside the rollback: the new
\* configuration stays.
Restart ==
    /\ pc = "restart"
    /\ \/ pc' = "health" /\ UNCHANGED <<target, outcome, faults>>
       \/ Fault /\ Leave("left")
    /\ UNCHANGED <<cloud, todo, command, disk, rebooting, given, runs, before>>

Healthy == /\ pc = "health"
           /\ Leave("applied")
           /\ UNCHANGED <<cloud, todo, command, disk, rebooting, faults, given,
                          runs, before>>

Unhealthy == /\ pc = "health"
             /\ Fault
             /\ pc' = "back"
             /\ UNCHANGED <<cloud, round, disk, rebooting, given, runs, attempt>>

\* Without a backup, after the very first configuration, nothing is undone.
LinkBack ==
    /\ pc = "back"
    /\ IF backup = NoConfig \/ "active_rollback" \in residues
         THEN Leave("left") /\ UNCHANGED active
         ELSE /\ active' = Backup /\ pc' = "restart_back"
              /\ UNCHANGED <<target, outcome>>
    /\ UNCHANGED <<cloud, todo, command, files, backup, residues, rebooting,
                   faults, given, runs, before>>

LinkBackFails ==
    /\ pc = "back" /\ backup # NoConfig
    /\ Fault
    /\ residues' \in {residues, residues \union {"active_rollback"}}
    /\ Leave("left")
    /\ UNCHANGED <<cloud, todo, command, active, files, backup, rebooting,
                   given, runs, before>>

\* Whether this restart works or not, the attempt ends here.
RestartBack == /\ pc = "restart_back"
               /\ Leave("undone")
               /\ UNCHANGED <<cloud, todo, command, disk, rebooting, faults,
                              given, runs, before>>

-----------------------------------------------------------------------------
(* Commands (main, execute_command, report_command_result).                 *)

\* A reboot outside the window is only reported; the machine goes down some
\* time after a reboot was ordered.
Execute(c) ==
    /\ pc = "commands" /\ c \in todo
    /\ todo' = todo \ {c} /\ command' = c /\ pc' = "report"
    /\ \/ /\ runs' = [runs EXCEPT ![c] = @ + 1]
          /\ rebooting' = (rebooting \/ c \in Reboots)
       \/ c \in Reboots /\ UNCHANGED <<runs, rebooting>>
    /\ UNCHANGED <<cloud, target, disk, faults, given, attempt>>

\* The lock file cannot be opened: the command is skipped.
Skip(c) == /\ pc = "commands" /\ c \in todo
           /\ Fault
           /\ todo' = todo \ {c}
           /\ UNCHANGED <<cloud, pc, target, command, disk, rebooting, given,
                          runs, attempt>>

\* Seeded bug: only the results of reboots are reported.
ReportSome ==
    /\ pc = "report"
    /\ pending' = IF command \in Reboots THEN pending \ {command} ELSE pending
    /\ command' = NoCommand /\ pc' = "commands"
    /\ UNCHANGED <<wanted, blocked, target, todo, disk, rebooting, faults,
                   given, runs, attempt>>

Report == /\ pc = "report"
          /\ pending' = pending \ {command}
          /\ command' = NoCommand /\ pc' = "commands"
          /\ UNCHANGED <<wanted, blocked, target, todo, disk, rebooting, faults,
                         given, runs, attempt>>

\* The exception is swallowed; the cloud offers the command again.
ReportLost == /\ pc = "report"
              /\ Fault
              /\ command' = NoCommand /\ pc' = "commands"
              /\ UNCHANGED <<cloud, target, todo, disk, rebooting, given, runs,
                             attempt>>

EndRound == /\ pc = "commands" /\ todo = {}
            /\ pc' = "idle"
            /\ UNCHANGED <<cloud, round, disk, rebooting, faults, given, runs,
                           attempt>>

-----------------------------------------------------------------------------
(* The process ends.                                                        *)

\* A new process: nothing of the round is left.  A copy or a link that was
\* being made may be half done, under the name of the process that died.
Restarted ==
    /\ pc' = "idle" /\ target' = NoConfig /\ todo' = {} /\ command' = NoCommand

\* Seeded bug: the temporary names do not depend on the process.
CronRestartSameNames ==
    /\ pc = "idle" /\ residues # {}
    /\ Restarted
    /\ UNCHANGED <<cloud, disk, rebooting, faults, given, runs, attempt>>

\* The nightly cron job finds the agent between two rounds; the new process
\* has a new id.
CronRestart ==
    /\ pc = "idle" /\ residues # {}
    /\ Restarted /\ residues' = {}
    /\ UNCHANGED <<cloud, active, files, backup, rebooting, faults, given,
                   runs, attempt>>

\* Killed or switched off at any moment.  After a reboot the process may have
\* the id of the one before.
Crash ==
    /\ Fault
    /\ Restarted /\ rebooting' = FALSE
    /\ residues' \in
         {{}, residues, residues \union
                CASE pc = "write" -> {"config"}
                  [] pc = "link" -> {"active_tmp"}
                  [] pc = "back" -> {"active_rollback"}
                  [] OTHER -> {}}
    /\ backup' \in IF pc = "backup" /\ active \in Versions
                     THEN {backup, Torn} ELSE {backup}
    /\ UNCHANGED <<cloud, active, files, given, runs, attempt>>

\* The reboot an executed command asked for.  When it overtakes the report,
\* or cuts the round short, it counts as a fault.
GoDown ==
    /\ rebooting
    /\ IF pc = "idle" THEN UNCHANGED faults ELSE Fault
    /\ Restarted /\ rebooting' = FALSE
    /\ residues' \in {{}, residues}
    /\ backup' \in IF pc = "backup" /\ active \in Versions
                     THEN {backup, Torn} ELSE {backup}
    /\ UNCHANGED <<cloud, active, files, given, runs, attempt>>

-----------------------------------------------------------------------------
Step == \/ Poll \/ Download \/ DownloadFails
        \/ BackUp \/ BackUpFails \/ Write \/ WriteFails \/ Link \/ LinkFails
        \/ Restart \/ Healthy \/ Unhealthy
        \/ LinkBack \/ LinkBackFails \/ RestartBack
        \/ \E c \in Commands : Execute(c) \/ Skip(c)
        \/ Report \/ ReportLost \/ EndRound

Next == \/ \E v \in Versions : Publish(v)
        \/ \E c \in Commands : Order(c)
        \/ Block
        \/ Step \/ CronRestart \/ Crash \/ GoDown

Spec == Init /\ [][Next]_vars

\* The agent polls for ever; cron strikes between two rounds some night.
FairSpec == Spec /\ WF_vars(Step) /\ WF_vars(GoDown) /\ SF_vars(CronRestart)

-----------------------------------------------------------------------------
(* Properties.                                                              *)

\* Whatever step fails or is cut short, active.json points to a file that was
\* written whole.  (greenmind_agent.py:800-829, 846-851)
ActiveIsWhole == /\ active \in Versions => active \in files
                 /\ active = Backup => backup \in files

\* An attempt that ends before the switch, or with a rollback, leaves the
\* configuration in force that was in force before it.
\* (greenmind_agent.py:800-812, 843-856)
RefusedIsUndone == outcome \in {"kept", "undone"} => InForce = before

(* Configurations are switched as GuardedSwitch promises: only a file that *)
(* was written whole comes into force, and the trial ends with it or with  *)
(* the configuration before.  "No configuration" is always at hand.        *)
Abstract == INSTANCE GuardedSwitch WITH
    Item <- Versions \union {NoConfig},
    stock <- files \union {NoConfig}, active <- InForce,
    fallback <- IF pc \in {"restart", "health", "back"} THEN {before} ELSE {}
Implements == Abstract!Spec

\* A command is executed again only because a report got lost or the agent
\* died before it.  (greenmind_agent.py:1160-1203)
RepeatsNeedFaults == \A c \in Commands : runs[c] <= 1 + faults

\* Every command is answered, whatever else is to be done in the rounds.
CommandsAreAnswered ==
    \A c \in Commands : c \in pending ~> (c \notin pending \/ blocked)

\* As long as no health check sent it back, the agent reaches every desired
\* configuration, also after a temporary name was left behind.
ConfigIsReached ==
    [](active # Backup) =>
        \A v \in Versions : wanted = v ~> (active = v \/ wanted # v \/ blocked)

\* "compares the current state with the desired state, and applies updates"
\* (README.md:213): without any condition on earlier attempts.
DesiredConfigIsReached ==
    \A v \in Versions : wanted = v ~> (active = v \/ wanted # v \/ blocked)
=============================================================================
