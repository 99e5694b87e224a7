---------------------------- MODULE LocalNetwork ----------------------------
(***************************************************************************)
(* The gateway and its sensors on the local network: the UDP beacon that    *)
(* tells sensors where the gateway is (src/runtime/udp_discovery.py), the   *)
(* bounded table in which POST /ingest remembers where the sensors are      *)
(* (src/runtime/ingest_api.py), and the remote manager, which executes      *)
(* commands of the cloud (src/runtime/remote_manager.py), one of them with  *)
(* the help of that table.                                                  *)
(*                                                                          *)
(* Addresses come from DHCP and change under all of them.  A command has an *)
(* action and names a sensor; reboot and restart_service are the same here, *)
(* as addresses may change at any time.                                     *)
(***************************************************************************)
EXTENDS Naturals, SequencesExt, FiniteSets

CONSTANTS
    Sensors,
    Gateway,
    Addresses,
    NoAddress,     \* no lease, no entry, no answer
    Fallback,      \* what get_local_ip returns without a route
    Leases,        \* the leases at the start
    Answers,       \* answers of the cloud that hold commands
    MaxEntries,    \* max_sensor_ip_entries
    MaxMoves,      \* bound: leases granted, changed or lost
    MaxAnswers,    \* bound: answers of the cloud with commands
    MaxStops       \* bound: deaths of the service that no command causes

Hosts == Sensors \union {Gateway}

\* Allowed actions with an effect, and one that is not allowed.
Commands == [action : {"restart", "provision", "unknown"}]
            \union [action : {"delete"}, sensor : Sensors]

\* No two hosts have the same address.
Distinct(lease) == \A g, h \in Hosts :
    lease[g] = lease[h] => g = h \/ lease[g] = NoAddress

ASSUME HostsAssumption == Gateway \notin Sensors /\ IsFiniteSet(Sensors)
ASSUME AddressesAssumption ==
    NoAddress \notin Addresses \union Hosts /\ Fallback \notin Addresses \union {NoAddress}
ASSUME LeasesAssumption ==
    Leases \in [Hosts -> Addresses \union {NoAddress}] /\ Distinct(Leases)
ASSUME AnswersAssumption == Answers \subseteq Seq(Commands) \ {<<>>}
ASSUME BoundsAssumption ==
    /\ MaxEntries \in Nat \ {0}
    /\ MaxMoves \in Nat /\ MaxAnswers \in Nat /\ MaxStops \in Nat

VARIABLES
    address,    \* DHCP: the lease of each host
    service,    \* the gateway process
    answered,   \* the address the beacon answers with
    table,      \* keys of sensor_ips, the least recently used first
    ip,         \* its values
    commands,   \* the commands of the answer that are still to be executed
    sending,    \* the DELETE on its way
    sendsTo,    \* the gateway's address as each sensor knows it
    unheard,    \* history: sensors the service has not heard since it started
                \* or since their address changed
    used,       \* history: the sensors whose entries were used since that of
                \* s was; with s itself, if it never was
    tried,      \* history: sensors whose deletion the last answer led to
    moves, answers, stops

lan    == <<address, moves>>
entries == <<table, ip, used>>
manager == <<commands, sending, tried, answers>>
vars == <<lan, service, answered, entries, manager, sendsTo, unheard, stops>>

NoDelete == [sensor |-> NoAddress, to |-> NoAddress, moved |-> FALSE]

InTable == {table[i] : i \in DOMAIN table}

TypeOK ==
    /\ address \in [Hosts -> Addresses \union {NoAddress}] /\ Distinct(address)
    /\ service \in {"up", "stopping", "down"}
    /\ answered \in Addresses \union {NoAddress, Fallback}
    /\ table \in Seq(Sensors) /\ Len(table) <= MaxEntries
    /\ ip \in [Sensors -> Addresses \union {NoAddress}]
    /\ \A s \in Sensors : s \in InTable <=> ip[s] # NoAddress
    /\ commands \in Seq(Commands)
    /\ sending \in [sensor : Sensors, to : Addresses, moved : BOOLEAN] \union {NoDelete}
    /\ sendsTo \in [Sensors -> Addresses \union {NoAddress, Fallback}]
    /\ unheard \subseteq Sensors /\ tried \subseteq Sensors
    /\ used \in [Sensors -> SUBSET Sensors]
    /\ moves \in 0..MaxMoves /\ answers \in 0..MaxAnswers /\ stops \in 0..MaxStops

Init ==
    /\ address = Leases
    /\ service = "down" /\ answered = NoAddress
    /\ table = <<>> /\ ip = [s \in Sensors |-> NoAddress]
    /\ commands = <<>> /\ sending = NoDelete
    /\ sendsTo = [s \in Sensors |-> NoAddress]
    /\ unheard = Sensors /\ tried = {} /\ used = [s \in Sensors |-> {s}]
    /\ moves = 0 /\ answers = 0 /\ stops = 0

-----------------------------------------------------------------------------
(* The service starts and ends.                                             *)

\* get_local_ip is called once.
Start ==
    /\ service = "down"
    /\ service' = "up"
    /\ answered' = IF address[Gateway] = NoAddress THEN Fallback ELSE address[Gateway]
    /\ UNCHANGED <<lan, entries, manager, sendsTo, unheard, stops>>

\* Table and commands are in memory only.
End ==
    /\ service' = "down" /\ answered' = NoAddress
    /\ table' = <<>> /\ ip' = [s \in Sensors |-> NoAddress]
    /\ used' = [s \in Sensors |-> {s}]
    /\ commands' = <<>> /\ sending' = NoDelete
    /\ unheard' = Sensors
    /\ UNCHANGED <<lan, sendsTo, tried, answers>>

Stop == service = "stopping" /\ End /\ UNCHANGED stops

Crash == service # "down" /\ End /\ stops < MaxStops /\ stops' = stops + 1

-----------------------------------------------------------------------------
(* BoundedSensorIPCache.                                                    *)

Place(s) == CHOOSE i \in DOMAIN table : table[i] = s

\* Key s becomes the most recently used one.
MovedToEnd(s) == Append(IF s \in InTable THEN RemoveAt(table, Place(s)) ELSE table, s)

Use(s) == used' = [r \in Sensors |-> IF r = s THEN {} ELSE used[r] \union {s}]

\* The entry of s is set and the order is that; what exceeds the bound goes.
Keep(s, a, order) ==
    LET gone == IF Len(order) > MaxEntries THEN {Head(order)} ELSE {}
    IN /\ table' = IF gone = {} THEN order ELSE Tail(order)
       /\ ip' = [r \in Sensors |-> IF r = s THEN a
                                  ELSE IF r \in gone THEN NoAddress ELSE ip[r]]
       /\ Use(s)

\* Seeded bug: an address once remembered is not overwritten.
RememberFirst(s, a) ==
    Keep(s, IF ip[s] = NoAddress THEN a ELSE ip[s], MovedToEnd(s))

\* Seeded bug: an entry keeps its place when it is overwritten.
RememberInPlace(s, a) == Keep(s, a, IF s \in InTable THEN table ELSE MovedToEnd(s))

Remember(s, a) == Keep(s, a, MovedToEnd(s))

\* POST /ingest of a sensor that knows the gateway's address.
Ingest(s) ==
    /\ service = "up"
    /\ address[s] # NoAddress
    /\ sendsTo[s] = address[Gateway] /\ sendsTo[s] # NoAddress
    /\ Remember(s, address[s])
    /\ unheard' = unheard \ {s}
    /\ UNCHANGED <<lan, service, answered, manager, sendsTo, stops>>

-----------------------------------------------------------------------------
(* UdpDiscoveryProtocol, and the sensors (external).                        *)

\* Seeded bug: the answer is the address the probe came from.
EchoProbe(s) ==
    /\ service # "down" /\ address[Gateway] # NoAddress /\ address[s] # NoAddress
    /\ sendsTo[s] = NoAddress
    /\ sendsTo' = [sendsTo EXCEPT ![s] = address[s]]
    /\ UNCHANGED <<lan, service, answered, entries, manager, unheard, stops>>

\* A sensor without a gateway broadcasts; datagrams may be lost.
Probe(s) ==
    /\ service # "down" /\ address[Gateway] # NoAddress /\ address[s] # NoAddress
    /\ sendsTo[s] = NoAddress
    /\ sendsTo' = [sendsTo EXCEPT ![s] = answered]
    /\ UNCHANGED <<lan, service, answered, entries, manager, unheard, stops>>

\* Where it sends to there is no gateway: it looks for one again.
Forget(s) ==
    /\ sendsTo[s] # NoAddress
    /\ sendsTo[s] # address[Gateway] \/ service = "down"
    /\ sendsTo' = [sendsTo EXCEPT ![s] = NoAddress]
    /\ UNCHANGED <<lan, service, answered, entries, manager, unheard, stops>>

-----------------------------------------------------------------------------
(* remote_manager_loop.                                                     *)

Idle == service # "down" /\ commands = <<>> /\ sending = NoDelete

Poll ==
    /\ Idle
    /\ answers < MaxAnswers /\ answers' = answers + 1
    /\ commands' \in Answers
    /\ tried' = {}
    /\ UNCHANGED <<lan, service, answered, entries, sending, sendsTo, unheard, stops>>

Current(action) ==
    /\ service # "down" /\ sending = NoDelete
    /\ commands # <<>> /\ Head(commands).action = action

Ignore ==
    /\ Current("unknown")
    /\ commands' = Tail(commands)
    /\ UNCHANGED <<lan, service, answered, entries, sending, tried, answers,
                   sendsTo, unheard, stops>>

\* systemctl and reboot return before the service ends, or fail.
Restart ==
    /\ Current("restart")
    /\ commands' = Tail(commands)
    /\ service' \in {service, "stopping"}
    /\ UNCHANGED <<lan, answered, entries, sending, tried, answers, sendsTo,
                   unheard, stops>>

\* On WiFi the call of NetworkManager.ninja_hop, which does not exist, raises
\* and takes the rest of the answer with it; otherwise nothing is done.
Provision ==
    /\ Current("provision")
    /\ commands' \in {<<>>, Tail(commands)}
    /\ UNCHANGED <<lan, service, answered, entries, sending, tried, answers,
                   sendsTo, unheard, stops>>

DeleteUnknown ==
    /\ Current("delete")
    /\ ip[Head(commands).sensor] = NoAddress
    /\ tried' = tried \union {Head(commands).sensor}
    /\ commands' = Tail(commands)
    /\ UNCHANGED <<lan, service, answered, entries, sending, answers, sendsTo,
                   unheard, stops>>

\* The address is read; connection and request are awaited.
Delete ==
    /\ Current("delete")
    /\ LET s == Head(commands).sensor
       IN /\ ip[s] # NoAddress
          /\ sending' = [sensor |-> s, to |-> ip[s], moved |-> s \in unheard]
          /\ table' = MovedToEnd(s) /\ UNCHANGED ip
          /\ Use(s)
          /\ tried' = tried \union {s}
    /\ UNCHANGED <<lan, service, answered, commands, answers, sendsTo, unheard, stops>>

\* Seeded bug: an exception of the request is not caught.
DeleteRaises ==
    /\ sending # NoDelete
    /\ sending' = NoDelete
    /\ commands' = <<>>
    /\ UNCHANGED <<lan, service, answered, entries, tried, answers, sendsTo,
                   unheard, stops>>

\* An answer, from whoever has that address now, or none.
DeleteEnds ==
    /\ sending # NoDelete
    /\ sending' = NoDelete
    /\ commands' = Tail(commands)
    /\ UNCHANGED <<lan, service, answered, entries, tried, answers, sendsTo,
                   unheard, stops>>

-----------------------------------------------------------------------------
(* External: DHCP.                                                          *)

Lease(h, a) ==
    /\ moves < MaxMoves /\ moves' = moves + 1
    /\ a # address[h]
    /\ address' = [address EXCEPT ![h] = a] /\ Distinct(address')
    /\ unheard' = unheard \union ({h} \ {Gateway})
    /\ sending' = IF h = sending.sensor THEN [sending EXCEPT !.moved = TRUE] ELSE sending
    /\ UNCHANGED <<service, answered, entries, commands, tried, answers, sendsTo, stops>>

-----------------------------------------------------------------------------
Manage == Ignore \/ Restart \/ Provision \/ DeleteUnknown \/ Delete \/ DeleteEnds

Next == \/ Start \/ Stop \/ Crash
        \/ \E s \in Sensors : Ingest(s) \/ Probe(s) \/ Forget(s)
        \/ Poll \/ Manage
        \/ \E h \in Hosts, a \in Addresses \union {NoAddress} : Lease(h, a)

Spec == Init /\ [][Next]_vars

\* systemd restarts the service, its loop goes on (every await has a timeout),
\* and sensors send, or look for the gateway, again and again.
FairSpec ==
    /\ Spec
    /\ WF_vars(Start) /\ WF_vars(Stop) /\ WF_vars(Manage)
    /\ \A s \in Sensors : WF_vars(Ingest(s)) /\ WF_vars(Probe(s)) /\ WF_vars(Forget(s))

-----------------------------------------------------------------------------
(* Properties.                                                              *)

\* A DELETE goes to the present address of the sensor it is meant for, unless
\* that sensor got another address since the gateway last heard it: only then
\* can it reach somebody else.  (remote_manager.py:116-121)
DeleteIsAimed ==
    sending # NoDelete /\ ~sending.moved => sending.to = address[sending.sensor]

\* What it rests on: the entry of a sensor heard where it is says where it is.
EntriesAreCurrent ==
    \A s \in Sensors \ unheard : ip[s] \in {address[s], NoAddress}

\* An entry stays in the table until as many others as the table holds have
\* been used since it was.  (ingest_api.py:44-49, 56-60)
RecentIsKnown ==
    \A s \in Sensors :
        s \notin used[s] /\ Cardinality(used[s]) < MaxEntries => s \in InTable

\* When addresses, service and cloud come to rest with the beacon telling the
\* truth, every sensor is heard where it is, so that no entry is stale.  Without
\* that premise it is false: the beacon never looks at its address again.
\* (udp_discovery.py:1-5, 47-55)
Truthful == answered = address[Gateway] /\ answered # NoAddress
SensorsAreHeard ==
    \A s \in Sensors :
        <>[](Truthful /\ address[s] # NoAddress) => <>[](s \notin unheard)

\* Commands before it in the answer do not keep a deletion from being tried,
\* whether they are unknown, fail or are not answered, unless one of them is
\* a provisioning or stops the service.  (remote_manager.py:40-44)
Waiting(s) ==
    \E i \in DOMAIN commands :
        /\ commands[i] = [action |-> "delete", sensor |-> s]
        /\ \A j \in 1..(i - 1) : commands[j].action # "provision"
DeletesAreTried == \A s \in Sensors : Waiting(s) ~> s \in tried \/ service = "down"
=============================================================================
