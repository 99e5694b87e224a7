----------------------------- MODULE AckedStore -----------------------------
(***************************************************************************)
(* What the gateway's sensor endpoint promises a sensor, with nothing of   *)
(* how it is done: a packet is acknowledged only after it was stored, and  *)
(* what was stored is never un-stored, neither by a crash nor by a later   *)
(* packet.  SensorIngest implements this specification.                    *)
(***************************************************************************)
CONSTANT Packet

VARIABLES stored,   \* packets that survive any later crash
          acked     \* packets whose sensor has been told so

storeVars == <<stored, acked>>

Init == stored = {} /\ acked = {}

\* Several packets may become durable at once: one fsync covers every frame
\* written before it.
Store ==
  /\ \E new \in SUBSET Packet : stored' = stored \cup new
  /\ UNCHANGED acked

Acknowledge(p) ==
  /\ p \in stored
  /\ acked' = acked \cup {p}
  /\ UNCHANGED stored

Next == Store \/ \E p \in Packet : Acknowledge(p)

Spec == Init /\ [][Next]_storeVars
=============================================================================
