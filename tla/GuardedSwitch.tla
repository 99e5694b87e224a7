--------------------------- MODULE GuardedSwitch ---------------------------
(***************************************************************************)
(* What the update agent promises about the thing it replaces, be it the    *)
(* application release or the configuration: one item is active at a time,  *)
(* a new one only after it was brought here whole, and while the verdict    *)
(* on it is out the item it replaced is neither forgotten nor removed.  The *)
(* trial ends with one of the two, never with a third.                      *)
(***************************************************************************)
CONSTANT Item

VARIABLES stock,     \* items at hand
          active,
          fallback   \* during a trial, the item to go back to; else empty

switchVars == <<stock, active, fallback>>

Init == active \in Item /\ stock = {active} /\ fallback = {}

Bring(is) ==
  /\ stock' = stock \cup is
  /\ UNCHANGED <<active, fallback>>

Remove(is) ==
  /\ is \cap ({active} \cup fallback) = {}
  /\ stock' = stock \ is
  /\ UNCHANGED <<active, fallback>>

Try(i) ==
  /\ fallback = {}
  /\ i \in stock \ {active}
  /\ active' = i /\ fallback' = {active}
  /\ UNCHANGED stock

\* The new item stays: it passed, or nobody is left to judge it.
Settle(is) ==
  /\ active \notin is
  /\ stock' = stock \ is /\ fallback' = {}
  /\ UNCHANGED active

Undo ==
  /\ active' \in fallback /\ fallback' = {}
  /\ UNCHANGED stock

\* Without a trial: something else went wrong, and the agent goes back all the
\* same, to the item it last replaced if that is still at hand.
Relapse(i) ==
  /\ fallback = {}
  /\ i \in stock
  /\ active' = i
  /\ UNCHANGED <<stock, fallback>>

Next ==
  \/ \E is \in SUBSET Item : Bring(is) \/ Remove(is) \/ Settle(is)
  \/ \E i \in Item : Try(i) \/ Relapse(i)
  \/ Undo

Spec == Init /\ [][Next]_switchVars
=============================================================================
