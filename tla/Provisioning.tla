---------------------------- MODULE Provisioning ----------------------------
(***************************************************************************)
(* Boot, setup portal, pairing and reset of a gateway (src/main.py,         *)
(* src/setup_portal/server.py, src/core/config_store.py,                    *)
(* src/runtime/reset.py, src/network/wifi_manager.py), with the processes   *)
(* that live on what they store or interrupt them: the update agent, which  *)
(* reads the credentials once, systemd with its health timer, the nightly   *)
(* cron job, NetworkManager, the user and the cloud that issues keys.       *)
(*                                                                          *)
(* A key is identified with the pairing code it was issued for: codes are   *)
(* single-use.  The radio wlan0 is an access point, a client, or idle.      *)
(***************************************************************************)
EXTENDS Naturals, FiniteSets

CONSTANTS
    Tasks,      \* background tasks the portal may run at once
    Codes,      \* pairing codes the user gets from the dashboard
    NoKey,      \* no credentials; also: no code
    MaxFaults,  \* bound: failing steps, lost answers, power losses
    MaxResets,  \* bound: resets asked for, by the user and by the cloud
    MaxRivals,  \* bound: forms sent while an earlier one is still processed
    MaxKills    \* bound: restarts that systemd ends by force

ASSUME NoKeyAssumption == NoKey \notin Codes
ASSUME BoundsAssumption ==
    MaxFaults \in Nat /\ MaxResets \in Nat /\ MaxRivals \in Nat /\ MaxKills \in Nat

VARIABLES
    mode,       \* where the gateway process stands
    store,      \* the key in secrets.json
    flag,       \* /boot/reset_greenmind.txt exists
    radio,      \* what wlan0 does
    profile,    \* NetworkManager has a profile of the user's network
    pc,         \* where each _run_provisioning stands
    code,       \* the code each of them works with
    used,       \* codes the cloud has turned into keys
    agent,      \* the key the update agent holds
    limited,    \* systemd has given up starting the agent
    faults, touches, remotes, rivals, kills,     \* counters of the bounds
    kept,       \* history: keys that were ever stored
    condemned   \* history: keys in the store while a reset was asked for

gateway == <<mode, store, flag>>
network == <<radio, profile>>
portal  == <<pc, code, used>>
updater == <<agent, limited>>
asked   == <<touches, remotes>>
costs   == <<rivals, kills>>
history == <<kept, condemned>>
vars == <<gateway, network, portal, updater, faults, asked, costs, history>>

Modes == {"down", "wiped", "boot", "portal", "draining", "terminating",
          "runtime", "resetting"}
Stages == {"none", "connect", "join", "check", "post", "registered",
           "refused", "signal"}

TypeOK ==
    /\ mode \in Modes /\ store \in Codes \union {NoKey} /\ flag \in BOOLEAN
    /\ radio \in {"off", "ap", "wifi"} /\ profile \in BOOLEAN
    /\ pc \in [Tasks -> Stages] /\ code \in [Tasks -> Codes \union {NoKey}]
    /\ \A t \in Tasks : (pc[t] = "none") <=> (code[t] = NoKey)
    /\ used \subseteq Codes /\ kept \subseteq used /\ condemned \subseteq kept
    /\ agent \in kept \union {NoKey} /\ limited \in BOOLEAN
    /\ faults \in 0..MaxFaults /\ rivals \in 0..MaxRivals /\ kills \in 0..MaxKills
    /\ touches \in Nat /\ remotes \in Nat /\ touches + remotes <= MaxResets

Init ==
    /\ mode = "down" /\ store = NoKey /\ flag = FALSE
    /\ radio = "off" /\ profile = FALSE
    /\ pc = [t \in Tasks |-> "none"] /\ code = [t \in Tasks |-> NoKey]
    /\ used = {} /\ agent = NoKey /\ limited = FALSE
    /\ faults = 0 /\ touches = 0 /\ remotes = 0 /\ rivals = 0 /\ kills = 0
    /\ kept = {} /\ condemned = {}

-----------------------------------------------------------------------------
(* Helpers.                                                                 *)

Fails(n) == faults + n <= MaxFaults /\ faults' = faults + n

Busy == {t \in Tasks : pc[t] # "none"}

Goto(t, stage) == pc' = [pc EXCEPT ![t] = stage] /\ UNCHANGED code

End(t) == pc' = [pc EXCEPT ![t] = "none"] /\ code' = [code EXCEPT ![t] = NoKey]

\* The process dies with every background task in it.
Die == /\ mode' = "down"
       /\ pc' = [t \in Tasks |-> "none"]
       /\ code' = [t \in Tasks |-> NoKey]

\* start_ap after n faults.  No caller looks at its result.
StartAp(n) == \/ Fails(n) /\ radio' = "ap"
              \/ Fails(n + 1) /\ UNCHANGED radio

Condemn == condemned' = condemned \union ({store} \ {NoKey})

-----------------------------------------------------------------------------
(* Boot (async_main).                                                       *)

\* Seeded bug: the flag goes before the credentials do.
ClearFirst == /\ mode = "down" /\ flag
              /\ mode' = "wiped" /\ flag' = FALSE
              /\ UNCHANGED <<store, network, portal, updater, faults, asked,
                             costs, history>>

\* The flag is found: the credentials go first.
Wipe == /\ mode = "down" /\ flag
        /\ mode' = "wiped" /\ store' = NoKey
        /\ UNCHANGED <<flag, network, portal, updater, faults, asked, costs,
                       history>>

\* Then every WiFi profile, unless nmcli fails, then the flag, unless its
\* removal fails: neither failure is noticed.
ClearFlag ==
    /\ mode = "wiped"
    /\ mode' = "boot"
    /\ \E lost \in BOOLEAN, stuck \in BOOLEAN :
         /\ Fails((IF lost THEN 1 ELSE 0) + (IF stuck THEN 1 ELSE 0))
         /\ flag' = stuck
         /\ IF lost THEN UNCHANGED network
                    ELSE profile' = FALSE /\ radio' = "off"
    /\ UNCHANGED <<store, portal, updater, asked, costs, history>>

Decides == mode = "boot" \/ (mode = "down" /\ ~flag)

EnterRuntime ==
    /\ Decides /\ store # NoKey
    /\ mode' = "runtime"
    /\ radio' = IF radio = "ap" THEN "off" ELSE radio
    /\ UNCHANGED <<store, flag, profile, portal, updater, faults, asked,
                   costs, history>>

\* Seeded bug: the portal starts without an access point.
EnterSetupQuietly ==
    /\ Decides /\ store = NoKey
    /\ mode' = "portal"
    /\ UNCHANGED <<store, flag, network, portal, updater, faults, asked, costs,
                   history>>

EnterSetup ==
    /\ Decides /\ store = NoKey
    /\ mode' = "portal"
    /\ StartAp(0)
    /\ UNCHANGED <<store, flag, profile, portal, updater, asked, costs,
                   history>>

-----------------------------------------------------------------------------
(* The portal: do_setup schedules a background task for each form.          *)

Submit(t) ==
    /\ mode = "portal" /\ radio # "off" /\ pc[t] = "none"
    /\ IF Busy = {} THEN UNCHANGED rivals
                    ELSE rivals < MaxRivals /\ rivals' = rivals + 1
    /\ \E c \in Codes \ used : code' = [code EXCEPT ![t] = c]
    /\ pc' = [pc EXCEPT ![t] = "connect"]
    /\ UNCHANGED <<gateway, network, used, updater, faults, asked, kills,
                   history>>

\* connect_to_wifi: access point down, profile of that name deleted.
LeaveAp(t) ==
    /\ pc[t] = "connect"
    /\ Goto(t, "join")
    /\ radio' = "off" /\ profile' = FALSE
    /\ UNCHANGED <<gateway, used, updater, faults, asked, costs, history>>

Join(t) ==
    /\ pc[t] = "join"
    /\ Goto(t, "check")
    /\ radio' = "wifi" /\ profile' = TRUE
    /\ UNCHANGED <<gateway, used, updater, faults, asked, costs, history>>

\* Three attempts fail; the profile of the last one stays behind.
JoinFails(t) ==
    /\ pc[t] = "join"
    /\ End(t)
    /\ StartAp(1) /\ profile' = TRUE
    /\ UNCHANGED <<gateway, used, updater, asked, costs, history>>

Online(t) ==
    /\ pc[t] = "check" /\ radio = "wifi"
    /\ Goto(t, "post")
    /\ UNCHANGED <<gateway, network, used, updater, faults, asked, costs,
                   history>>

\* Back to the access point: no internet, no answer in time, or a connection
\* that broke, which needs a fault while the radio is a client.
NoConnection(t) ==
    /\ pc[t] \in {"check", "post", "registered", "refused"}
    /\ End(t)
    /\ StartAp(IF radio = "wifi" THEN 1 ELSE 0)
    /\ UNCHANGED <<gateway, profile, used, updater, asked, costs, history>>

\* Any answer but 201.
Rejected(t) ==
    /\ pc[t] = "refused" /\ radio = "wifi"
    /\ End(t)
    /\ StartAp(0)
    /\ UNCHANGED <<gateway, profile, used, updater, asked, costs, history>>

\* 201: store_credentials replaces the file atomically.
Persist(t) ==
    /\ pc[t] = "registered" /\ radio = "wifi"
    /\ Goto(t, "signal")
    /\ store' = code[t] /\ kept' = kept \union {code[t]}
    /\ condemned' = IF flag THEN condemned \union {code[t]} ELSE condemned
    /\ UNCHANGED <<mode, flag, network, used, updater, faults, asked, costs>>

\* The answer lacks a key or the file cannot be written: the exception ends
\* the task and nothing starts the access point again.
PersistFails(t) ==
    /\ pc[t] = "registered" /\ radio = "wifi"
    /\ End(t)
    /\ Fails(1)
    /\ UNCHANGED <<gateway, network, used, updater, asked, costs, history>>

\* _kill_server sends SIGINT.  The server drains: it waits for its tasks.  A
\* SIGINT while it already stops makes it leave at once.
Signal(t) ==
    /\ pc[t] = "signal"
    /\ IF mode = "portal" THEN End(t) /\ mode' = "draining" ELSE Die
    /\ UNCHANGED <<store, flag, network, used, updater, faults, asked, costs,
                   history>>

Exit == /\ mode \in {"draining", "terminating"} /\ Busy = {}
        /\ mode' = "down"
        /\ UNCHANGED <<store, flag, network, portal, updater, faults, asked,
                       costs, history>>

-----------------------------------------------------------------------------
(* Resets.                                                                  *)

\* The user creates the flag file and reboots when it suits him (PowerLoss).
Touch == /\ touches + remotes < MaxResets
         /\ touches' = touches + 1 /\ flag' = TRUE /\ Condemn
         /\ UNCHANGED <<mode, store, network, portal, updater, faults, remotes,
                        costs, kept>>

\* trigger_remote_reset: wipe, then the flag, then the process ends.
WipeRemotely ==
    /\ mode = "runtime" /\ touches + remotes < MaxResets
    /\ mode' = "resetting" /\ store' = NoKey /\ Condemn
    /\ remotes' = remotes + 1
    /\ UNCHANGED <<flag, network, portal, updater, faults, touches, costs,
                   kept>>

LeaveRuntime ==
    /\ mode = "resetting"
    /\ mode' = "down"
    /\ \/ Fails(0) /\ flag' = TRUE
       \/ Fails(1) /\ UNCHANGED flag
    /\ UNCHANGED <<store, network, portal, updater, asked, costs, history>>

-----------------------------------------------------------------------------
(* systemd, cron and the update agent.                                      *)

\* Seeded bug: the restart does not wait.
HealthCheckKills ==
    /\ mode \in {"portal", "draining"}
    /\ Die
    /\ UNCHANGED <<store, flag, network, used, updater, faults, asked, costs,
                   history>>

\* Seeded bug: the timer leaves a portal alone.
HealthCheckSpares ==
    /\ mode = "draining"
    /\ mode' = "terminating"
    /\ UNCHANGED <<store, flag, network, portal, updater, faults, asked,
                   costs, history>>

\* The portal has no /api/v1/health, so the timer restarts it as well: the
\* server gets SIGTERM and TimeoutStopSec to let its tasks end.
HealthCheck ==
    /\ mode \in {"portal", "draining"}
    /\ mode' = "terminating"
    /\ UNCHANGED <<store, flag, network, portal, updater, faults, asked,
                   costs, history>>

\* A task outlasts TimeoutStopSec: systemd kills the portal and, with it, a
\* registration whose code the cloud may have taken already.
Kill == /\ mode = "terminating" /\ Busy # {}
        /\ kills < MaxKills /\ kills' = kills + 1
        /\ Die
        /\ UNCHANGED <<store, flag, network, used, updater, faults, asked, rivals,
                       history>>

\* The agent reads the credentials once, at its start.
AgentStarts ==
    /\ agent = NoKey /\ ~limited /\ store # NoKey
    /\ agent' = store
    /\ UNCHANGED <<gateway, network, portal, limited, faults, asked, costs,
                   history>>

\* Without credentials it exits, and after StartLimitBurst attempts systemd
\* leaves it dead.
AgentGivesUp ==
    /\ agent = NoKey /\ ~limited /\ store = NoKey
    /\ limited' = TRUE
    /\ UNCHANGED <<gateway, network, portal, agent, faults, asked, costs,
                   history>>

\* Seeded bug: only a dead agent is restarted.
CronRestartDead ==
    /\ limited
    /\ agent' = NoKey /\ limited' = FALSE
    /\ UNCHANGED <<gateway, network, portal, faults, asked, costs, history>>

\* The nightly restart.
CronRestart ==
    /\ agent # NoKey \/ limited
    /\ agent' = NoKey /\ limited' = FALSE
    /\ UNCHANGED <<gateway, network, portal, faults, asked, costs, history>>

\* Power loss or a reboot, at any moment.
PowerLoss ==
    /\ Fails(1)
    /\ Die
    /\ radio' = "off" /\ agent' = NoKey /\ limited' = FALSE
    /\ UNCHANGED <<store, flag, profile, used, asked, costs, history>>

-----------------------------------------------------------------------------
(* External: the cloud and NetworkManager.                                  *)

\* A code is good once; the answer travels back.
Register(t) ==
    /\ pc[t] = "post" /\ radio = "wifi"
    /\ Goto(t, IF code[t] \in used THEN "refused" ELSE "registered")
    /\ used' = used \union {code[t]}
    /\ UNCHANGED <<gateway, network, updater, faults, asked, costs, history>>

Autoconnect ==
    /\ radio = "off" /\ profile
    /\ radio' = "wifi"
    /\ UNCHANGED <<gateway, profile, portal, updater, faults, asked, costs,
                   history>>

-----------------------------------------------------------------------------
Boot == Wipe \/ ClearFlag \/ EnterRuntime \/ EnterSetup \/ Exit

Task(t) == \/ LeaveAp(t) \/ Join(t) \/ JoinFails(t) \/ Online(t)
           \/ NoConnection(t) \/ Register(t) \/ Rejected(t)
           \/ Persist(t) \/ PersistFails(t) \/ Signal(t)

Next == \/ Boot
        \/ \E t \in Tasks : Submit(t) \/ Task(t)
        \/ Touch \/ WipeRemotely \/ LeaveRuntime
        \/ HealthCheck \/ Kill \/ PowerLoss
        \/ AgentStarts \/ AgentGivesUp \/ CronRestart
        \/ Autoconnect

Spec == Init /\ [][Next]_vars

\* Processes go on, timers fire, and a user whose form did not help sends it
\* again: the portal may vanish in between, hence strong fairness.
FairSpec ==
    /\ Spec
    /\ WF_vars(Boot) /\ WF_vars(LeaveRuntime) /\ WF_vars(HealthCheck)
    /\ WF_vars(AgentStarts \/ AgentGivesUp) /\ WF_vars(CronRestart)
    /\ \A t \in Tasks : WF_vars(Task(t))
    /\ SF_vars(\E t \in Tasks : Submit(t))

-----------------------------------------------------------------------------
(* Properties.                                                              *)

\* A reset does away with every key the store held while it was asked for:
\* once the flag is gone, through whatever crashes, none of them is left.
\* (main.py:38-47, reset.py:19-31)
ResetWipes == ~flag => store \notin condemned

\* A code that was spent without its key being stored has been lost to a
\* fault, to a second form sent meanwhile, or to a restart by the health timer
\* that a task outlasted, each of which accounts for one code.  A restart that
\* lets the tasks end costs none, and neither does a form on its own.
\* (server.py:125-163, greenmind-healthcheck.sh:10,
\* greenmind-gateway.service:19)
Wasted == {c \in used \ kept : \A t \in Tasks : code[t] # c}
CodesAreNotWasted == Cardinality(Wasted) <= faults + rivals + kills

\* A portal that lost its access point and works on nothing gets it back:
\* after an exception in a task only the timer's restart does that.
\* (server.py:107-163, wifi_manager.py:101-157)
Stranded == mode = "portal" /\ Busy = {} /\ radio # "ap"
AccessPointReturns == Stranded ~> (radio = "ap" \/ mode = "runtime")

\* A user who keeps trying gets the gateway into runtime mode, for as long as
\* there are codes.
SetupSucceeds == store = NoKey ~> (mode = "runtime" \/ used = Codes)

\* The update agent ends up with the key the gateway uses, after first setup
\* and after a reset.  (greenmind_agent.py:1064-1072, install-gateway.sh:706)
AgentFollows == \A k \in Codes : store = k ~> (agent = k \/ store # k)
=============================================================================
