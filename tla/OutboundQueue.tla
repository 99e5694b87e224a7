--------------------------- MODULE OutboundQueue ---------------------------
(***************************************************************************)
(* What each of the gateway's two uploaders promises about the records     *)
(* entrusted to it: a record stays in local storage until the cloud has    *)
(* it, and only a record that can never be delivered is set aside.         *)
(* Delivery is at least once.                                              *)
(***************************************************************************)
CONSTANTS Record,
          Undeliverable   \* records the cloud, or the worker, must refuse

VARIABLES pending,     \* records in local storage
          delivered,   \* records the cloud has
          dead         \* records set aside for good

queueVars == <<pending, delivered, dead>>

Init == pending = {} /\ delivered = {} /\ dead = {}

Accept(r) ==
  /\ r \notin pending \cup delivered \cup dead
  /\ pending' = pending \cup {r}
  /\ UNCHANGED <<delivered, dead>>

\* The cloud takes some records, whether or not anyone learns of it.
Deliver(rs) ==
  /\ rs \cap Undeliverable = {}
  /\ delivered' = delivered \cup rs
  /\ UNCHANGED <<pending, dead>>

Discard(rs) ==
  /\ rs \subseteq delivered
  /\ pending' = pending \ rs
  /\ UNCHANGED <<delivered, dead>>

Bury(r) ==
  /\ r \in pending \cap Undeliverable
  /\ pending' = pending \ {r}
  /\ dead' = dead \cup {r}
  /\ UNCHANGED delivered

Next ==
  \/ \E r \in Record : Accept(r) \/ Bury(r)
  \/ \E rs \in SUBSET Record : Deliver(rs) \/ Discard(rs)

Spec == Init /\ [][Next]_queueVars
=============================================================================
