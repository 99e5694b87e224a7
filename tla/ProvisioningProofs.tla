------------------------- MODULE ProvisioningProofs --------------------------
(***************************************************************************)
(* Proofs about Provisioning, for any number of tasks, codes, faults and    *)
(* resets.                                                                  *)
(***************************************************************************)
EXTENDS Provisioning, FiniteSetTheorems, TLAPS

\* A process that runs no portal has no tasks.
TasksNeedPortal ==
    mode \notin {"portal", "draining", "terminating"} =>
        \A t \in Tasks : pc[t] = "none"

\* Between the wipe and the removal of the flag nothing is stored.
WipedIsEmpty == mode = "wiped" => store = NoKey

\* The cloud turned a code into a key for one task only; what is stored was
\* new then.
KeysAreFresh ==
    /\ store \in kept \union {NoKey}
    /\ \A t \in Tasks : pc[t] = "registered" => code[t] \in used \ kept
    /\ \A t, u \in Tasks :
         pc[t] = "registered" /\ pc[u] = "registered" /\ code[t] = code[u] => t = u

\* The inductive invariant.
IndInv == TypeOK /\ TasksNeedPortal /\ WipedIsEmpty /\ KeysAreFresh /\ ResetWipes

LEMMA InitInv == Init => IndInv
<1> SUFFICES ASSUME Init PROVE IndInv
  OBVIOUS
<1>1. TypeOK
  <2>1. /\ faults \in 0..MaxFaults /\ rivals \in 0..MaxRivals /\ kills \in 0..MaxKills
        /\ touches \in Nat /\ remotes \in Nat /\ touches + remotes <= MaxResets
    BY BoundsAssumption DEF Init
  <2>2. /\ pc \in [Tasks -> Stages] /\ code \in [Tasks -> Codes \union {NoKey}]
        /\ \A t \in Tasks : pc[t] = "none" /\ code[t] = NoKey
    BY DEF Init, Stages
  <2> QED
    BY <2>1, <2>2 DEF Init, TypeOK, Modes
<1> QED
  BY <1>1, NoKeyAssumption
     DEF Init, IndInv, TasksNeedPortal, WipedIsEmpty, KeysAreFresh, ResetWipes

\* Every step keeps the types.
LEMMA TypeStep ==
    ASSUME IndInv, Next PROVE TypeOK'
<1> USE NoKeyAssumption, BoundsAssumption
       DEF IndInv, TypeOK, Modes, Stages, TasksNeedPortal, KeysAreFresh, gateway,
           network, portal, updater, asked, costs, history
<1>1. CASE Wipe
  BY <1>1 DEF Wipe
<1>2. CASE ClearFlag
  <2>1. faults' \in 0..MaxFaults
    BY <1>2 DEF ClearFlag, Fails
  <2> QED
    BY <1>2, <2>1 DEF ClearFlag
<1>3. CASE EnterRuntime
  BY <1>3 DEF EnterRuntime, Decides
<1>4. CASE EnterSetup
  BY <1>4 DEF EnterSetup, Decides, StartAp, Fails
<1>5. CASE Exit
  BY <1>5 DEF Exit, Busy
<1>6. CASE Touch
  BY <1>6 DEF Touch, Condemn
<1>7. CASE WipeRemotely
  BY <1>7 DEF WipeRemotely, Condemn
<1>8. CASE LeaveRuntime
  <2>1. faults' \in 0..MaxFaults
    BY <1>8 DEF LeaveRuntime, Fails
  <2> QED
    BY <1>8, <2>1 DEF LeaveRuntime
<1>9. CASE HealthCheck
  BY <1>9 DEF HealthCheck
<1>10. CASE Kill
  BY <1>10 DEF Kill, Die
<1>11. CASE PowerLoss
  <2>1. faults' \in 0..MaxFaults
    BY <1>11 DEF PowerLoss, Fails
  <2> QED
    BY <1>11, <2>1 DEF PowerLoss, Die
<1>12. CASE AgentStarts
  BY <1>12 DEF AgentStarts
<1>13. CASE AgentGivesUp
  BY <1>13 DEF AgentGivesUp
<1>14. CASE CronRestart
  BY <1>14 DEF CronRestart
<1>15. CASE Autoconnect
  BY <1>15 DEF Autoconnect
<1>16. ASSUME NEW t \in Tasks, Submit(t) PROVE TypeOK'
  BY <1>16 DEF Submit
<1>17. ASSUME NEW t \in Tasks, LeaveAp(t) PROVE TypeOK'
  BY <1>17 DEF LeaveAp, Goto
<1>18. ASSUME NEW t \in Tasks, Join(t) PROVE TypeOK'
  BY <1>18 DEF Join, Goto
<1>19. ASSUME NEW t \in Tasks, JoinFails(t) PROVE TypeOK'
  BY <1>19 DEF JoinFails, End, StartAp, Fails
<1>20. ASSUME NEW t \in Tasks, Online(t) PROVE TypeOK'
  BY <1>20 DEF Online, Goto
<1>21. ASSUME NEW t \in Tasks, NoConnection(t) PROVE TypeOK'
  BY <1>21 DEF NoConnection, End, StartAp, Fails
<1>22. ASSUME NEW t \in Tasks, Register(t) PROVE TypeOK'
  BY <1>22 DEF Register, Goto
<1>23. ASSUME NEW t \in Tasks, Rejected(t) PROVE TypeOK'
  BY <1>23 DEF Rejected, End, StartAp, Fails
<1>24. ASSUME NEW t \in Tasks, Persist(t) PROVE TypeOK'
  BY <1>24 DEF Persist, Goto
<1>25. ASSUME NEW t \in Tasks, PersistFails(t) PROVE TypeOK'
  BY <1>25 DEF PersistFails, End, Fails
<1>26. ASSUME NEW t \in Tasks, Signal(t) PROVE TypeOK'
  BY <1>26 DEF Signal, End, Die
<1> QED
  BY <1>1, <1>2, <1>3, <1>4, <1>5, <1>6, <1>7, <1>8, <1>9, <1>10, <1>11, <1>12,
     <1>13, <1>14, <1>15, <1>16, <1>17, <1>18, <1>19, <1>20, <1>21, <1>22, <1>23,
     <1>24, <1>25, <1>26
     DEF Next, Boot, Task

\* Tasks live and die with a portal, and nothing is stored without one.
LEMMA TasksStep ==
    ASSUME IndInv, Next PROVE TasksNeedPortal' /\ WipedIsEmpty'
<1> USE NoKeyAssumption, BoundsAssumption
       DEF IndInv, TypeOK, Stages, TasksNeedPortal, WipedIsEmpty, gateway, network,
           portal, updater, asked, costs, history
<1>1. CASE Wipe
  BY <1>1 DEF Wipe
<1>2. CASE ClearFlag
  BY <1>2 DEF ClearFlag, Fails
<1>3. CASE EnterRuntime
  BY <1>3 DEF EnterRuntime, Decides
<1>4. CASE EnterSetup
  BY <1>4 DEF EnterSetup, Decides, StartAp, Fails
<1>5. CASE Exit
  BY <1>5 DEF Exit, Busy
<1>6. CASE Touch
  BY <1>6 DEF Touch, Condemn
<1>7. CASE WipeRemotely
  BY <1>7 DEF WipeRemotely, Condemn
<1>8. CASE LeaveRuntime
  BY <1>8 DEF LeaveRuntime, Fails
<1>9. CASE HealthCheck
  BY <1>9 DEF HealthCheck
<1>10. CASE Kill
  BY <1>10 DEF Kill, Die
<1>11. CASE PowerLoss
  BY <1>11 DEF PowerLoss, Fails, Die
<1>12. CASE AgentStarts
  BY <1>12 DEF AgentStarts
<1>13. CASE AgentGivesUp
  BY <1>13 DEF AgentGivesUp
<1>14. CASE CronRestart
  BY <1>14 DEF CronRestart
<1>15. CASE Autoconnect
  BY <1>15 DEF Autoconnect
<1>16. ASSUME NEW t \in Tasks, Submit(t) PROVE TasksNeedPortal' /\ WipedIsEmpty'
  BY <1>16 DEF Submit
<1>17. ASSUME NEW t \in Tasks, LeaveAp(t) PROVE TasksNeedPortal' /\ WipedIsEmpty'
  BY <1>17 DEF LeaveAp, Goto
<1>18. ASSUME NEW t \in Tasks, Join(t) PROVE TasksNeedPortal' /\ WipedIsEmpty'
  BY <1>18 DEF Join, Goto
<1>19. ASSUME NEW t \in Tasks, JoinFails(t) PROVE TasksNeedPortal' /\ WipedIsEmpty'
  BY <1>19 DEF JoinFails, End, StartAp, Fails
<1>20. ASSUME NEW t \in Tasks, Online(t) PROVE TasksNeedPortal' /\ WipedIsEmpty'
  BY <1>20 DEF Online, Goto
<1>21. ASSUME NEW t \in Tasks, NoConnection(t) PROVE TasksNeedPortal' /\
   WipedIsEmpty'
  BY <1>21 DEF NoConnection, End, StartAp, Fails
<1>22. ASSUME NEW t \in Tasks, Register(t) PROVE TasksNeedPortal' /\ WipedIsEmpty'
  BY <1>22 DEF Register, Goto
<1>23. ASSUME NEW t \in Tasks, Rejected(t) PROVE TasksNeedPortal' /\ WipedIsEmpty'
  BY <1>23 DEF Rejected, End, StartAp, Fails
<1>24. ASSUME NEW t \in Tasks, Persist(t) PROVE TasksNeedPortal' /\ WipedIsEmpty'
  BY <1>24 DEF Persist, Goto
<1>25. ASSUME NEW t \in Tasks, PersistFails(t) PROVE TasksNeedPortal' /\
   WipedIsEmpty'
  BY <1>25 DEF PersistFails, End, Fails
<1>26. ASSUME NEW t \in Tasks, Signal(t) PROVE TasksNeedPortal' /\ WipedIsEmpty'
  BY <1>26 DEF Signal, End, Die
<1> QED
  BY <1>1, <1>2, <1>3, <1>4, <1>5, <1>6, <1>7, <1>8, <1>9, <1>10, <1>11, <1>12,
     <1>13, <1>14, <1>15, <1>16, <1>17, <1>18, <1>19, <1>20, <1>21, <1>22, <1>23,
     <1>24, <1>25, <1>26
     DEF Next, Boot, Task

\* A code becomes a key once.
LEMMA KeysStep ==
    ASSUME IndInv, Next PROVE KeysAreFresh'
<1> USE NoKeyAssumption, BoundsAssumption
       DEF IndInv, TypeOK, Stages, KeysAreFresh, gateway, network, portal, updater,
           asked, costs, history
<1>1. CASE Wipe
  BY <1>1 DEF Wipe
<1>2. CASE ClearFlag
  BY <1>2 DEF ClearFlag, Fails
<1>3. CASE EnterRuntime
  BY <1>3 DEF EnterRuntime, Decides
<1>4. CASE EnterSetup
  BY <1>4 DEF EnterSetup, Decides, StartAp, Fails
<1>5. CASE Exit
  BY <1>5 DEF Exit, Busy
<1>6. CASE Touch
  BY <1>6 DEF Touch, Condemn
<1>7. CASE WipeRemotely
  BY <1>7 DEF WipeRemotely, Condemn
<1>8. CASE LeaveRuntime
  BY <1>8 DEF LeaveRuntime, Fails
<1>9. CASE HealthCheck
  BY <1>9 DEF HealthCheck
<1>10. CASE Kill
  BY <1>10 DEF Kill, Die
<1>11. CASE PowerLoss
  BY <1>11 DEF PowerLoss, Fails, Die
<1>12. CASE AgentStarts
  BY <1>12 DEF AgentStarts
<1>13. CASE AgentGivesUp
  BY <1>13 DEF AgentGivesUp
<1>14. CASE CronRestart
  BY <1>14 DEF CronRestart
<1>15. CASE Autoconnect
  BY <1>15 DEF Autoconnect
<1>16. ASSUME NEW t \in Tasks, Submit(t) PROVE KeysAreFresh'
  BY <1>16 DEF Submit
<1>17. ASSUME NEW t \in Tasks, LeaveAp(t) PROVE KeysAreFresh'
  BY <1>17 DEF LeaveAp, Goto
<1>18. ASSUME NEW t \in Tasks, Join(t) PROVE KeysAreFresh'
  BY <1>18 DEF Join, Goto
<1>19. ASSUME NEW t \in Tasks, JoinFails(t) PROVE KeysAreFresh'
  BY <1>19 DEF JoinFails, End, StartAp, Fails
<1>20. ASSUME NEW t \in Tasks, Online(t) PROVE KeysAreFresh'
  BY <1>20 DEF Online, Goto
<1>21. ASSUME NEW t \in Tasks, NoConnection(t) PROVE KeysAreFresh'
  BY <1>21 DEF NoConnection, End, StartAp, Fails
<1>22. ASSUME NEW t \in Tasks, Register(t) PROVE KeysAreFresh'
  BY <1>22 DEF Register, Goto
<1>23. ASSUME NEW t \in Tasks, Rejected(t) PROVE KeysAreFresh'
  BY <1>23 DEF Rejected, End, StartAp, Fails
<1>24. ASSUME NEW t \in Tasks, Persist(t) PROVE KeysAreFresh'
  BY <1>24 DEF Persist, Goto
<1>25. ASSUME NEW t \in Tasks, PersistFails(t) PROVE KeysAreFresh'
  BY <1>25 DEF PersistFails, End, Fails
<1>26. ASSUME NEW t \in Tasks, Signal(t) PROVE KeysAreFresh'
  BY <1>26 DEF Signal, End, Die
<1> QED
  BY <1>1, <1>2, <1>3, <1>4, <1>5, <1>6, <1>7, <1>8, <1>9, <1>10, <1>11, <1>12,
     <1>13, <1>14, <1>15, <1>16, <1>17, <1>18, <1>19, <1>20, <1>21, <1>22, <1>23,
     <1>24, <1>25, <1>26
     DEF Next, Boot, Task

\* Nothing that was condemned is stored again.
LEMMA ResetStep ==
    ASSUME IndInv, Next PROVE ResetWipes'
<1> USE NoKeyAssumption, BoundsAssumption
       DEF IndInv, TypeOK, WipedIsEmpty, KeysAreFresh, ResetWipes, gateway, network,
           portal, updater, asked, costs, history
<1>1. CASE Wipe
  BY <1>1 DEF Wipe
<1>2. CASE ClearFlag
  BY <1>2 DEF ClearFlag, Fails
<1>3. CASE EnterRuntime
  BY <1>3 DEF EnterRuntime, Decides
<1>4. CASE EnterSetup
  BY <1>4 DEF EnterSetup, Decides, StartAp, Fails
<1>5. CASE Exit
  BY <1>5 DEF Exit, Busy
<1>6. CASE Touch
  BY <1>6 DEF Touch, Condemn
<1>7. CASE WipeRemotely
  BY <1>7 DEF WipeRemotely, Condemn
<1>8. CASE LeaveRuntime
  BY <1>8 DEF LeaveRuntime, Fails
<1>9. CASE HealthCheck
  BY <1>9 DEF HealthCheck
<1>10. CASE Kill
  BY <1>10 DEF Kill, Die
<1>11. CASE PowerLoss
  BY <1>11 DEF PowerLoss, Fails, Die
<1>12. CASE AgentStarts
  BY <1>12 DEF AgentStarts
<1>13. CASE AgentGivesUp
  BY <1>13 DEF AgentGivesUp
<1>14. CASE CronRestart
  BY <1>14 DEF CronRestart
<1>15. CASE Autoconnect
  BY <1>15 DEF Autoconnect
<1>16. ASSUME NEW t \in Tasks, Submit(t) PROVE ResetWipes'
  BY <1>16 DEF Submit
<1>17. ASSUME NEW t \in Tasks, LeaveAp(t) PROVE ResetWipes'
  BY <1>17 DEF LeaveAp, Goto
<1>18. ASSUME NEW t \in Tasks, Join(t) PROVE ResetWipes'
  BY <1>18 DEF Join, Goto
<1>19. ASSUME NEW t \in Tasks, JoinFails(t) PROVE ResetWipes'
  BY <1>19 DEF JoinFails, End, StartAp, Fails
<1>20. ASSUME NEW t \in Tasks, Online(t) PROVE ResetWipes'
  BY <1>20 DEF Online, Goto
<1>21. ASSUME NEW t \in Tasks, NoConnection(t) PROVE ResetWipes'
  BY <1>21 DEF NoConnection, End, StartAp, Fails
<1>22. ASSUME NEW t \in Tasks, Register(t) PROVE ResetWipes'
  BY <1>22 DEF Register, Goto
<1>23. ASSUME NEW t \in Tasks, Rejected(t) PROVE ResetWipes'
  BY <1>23 DEF Rejected, End, StartAp, Fails
<1>24. ASSUME NEW t \in Tasks, Persist(t) PROVE ResetWipes'
  BY <1>24 DEF Persist, Goto
<1>25. ASSUME NEW t \in Tasks, PersistFails(t) PROVE ResetWipes'
  BY <1>25 DEF PersistFails, End, Fails
<1>26. ASSUME NEW t \in Tasks, Signal(t) PROVE ResetWipes'
  BY <1>26 DEF Signal, End, Die
<1> QED
  BY <1>1, <1>2, <1>3, <1>4, <1>5, <1>6, <1>7, <1>8, <1>9, <1>10, <1>11, <1>12,
     <1>13, <1>14, <1>15, <1>16, <1>17, <1>18, <1>19, <1>20, <1>21, <1>22, <1>23,
     <1>24, <1>25, <1>26
     DEF Next, Boot, Task

LEMMA InvStep == IndInv /\ [Next]_vars => IndInv'
<1>1. ASSUME IndInv, Next PROVE IndInv'
  BY <1>1, TypeStep, TasksStep, KeysStep, ResetStep DEF IndInv
<1>2. ASSUME IndInv, UNCHANGED vars PROVE IndInv'
  BY <1>2
     DEF IndInv, vars, gateway, network, portal, updater, asked, costs, history,
         TypeOK, TasksNeedPortal, WipedIsEmpty, KeysAreFresh, ResetWipes
<1> QED
  BY <1>1, <1>2

LEMMA InvariantHolds == Spec => []IndInv
BY InitInv, InvStep, PTL DEF Spec

\* The variables of main, portal, store and agent are of their types.
THEOREM TypeCorrect == Spec => []TypeOK
<1>1. IndInv => TypeOK
  BY DEF IndInv
<1> QED
  BY InvariantHolds, <1>1, PTL

\* Once the flag of a reset is gone, no key is left that the store held while
\* the reset was asked for.  (main.py:38-47, reset.py:19-31)
THEOREM ResetAlwaysWipes == Spec => []ResetWipes
<1>1. IndInv => ResetWipes
  BY DEF IndInv
<1> QED
  BY InvariantHolds, <1>1, PTL

-----------------------------------------------------------------------------
(* Wasted codes.  A code that is spent or in some task's hands is lost      *)
(* unless its key gets stored.  The faults, the rival forms and the kills   *)
(* account for all of them but one: the first form sent to an idle portal   *)
(* costs nothing, and its code is not lost for nothing.                     *)

Charged == rivals + kills

AtStake == (used \union {code[t] : t \in Busy}) \ kept

\* Where a task stands it knows what became of its code.
TasksKnow ==
    \A t \in Tasks : /\ pc[t] = "refused" => code[t] \in used
                     /\ pc[t] = "signal" => code[t] \in kept

\* As long as every task has a code of its own, spent only if it was issued a
\* key, and not all of them have been cut off with theirs, one can still end
\* well or give its code back.
Hopeful ==
    /\ Busy # {}
    /\ \A t \in Busy :
         code[t] \notin kept /\ (code[t] \in used <=> pc[t] = "registered")
    /\ \A t, u \in Busy : code[t] = code[u] => t = u
    /\ radio = "wifi" \/ \E t \in Busy : code[t] \notin used

Accounted ==
    /\ IsFiniteSet(AtStake)
    /\ \/ Cardinality(AtStake) <= faults + Charged
       \/ Hopeful /\ Cardinality(AtStake) <= faults + Charged + 1

\* Arithmetic of the account: n codes at stake before a step and m after it, a
\* and b the faults and the charges before, c and d after.
LEMMA Account ==
    ASSUME NEW a \in Nat, NEW b \in Nat, NEW c \in Nat, NEW d \in Nat,
           NEW n \in Nat, NEW m \in Nat, c + d >= a + b, m <= n
    PROVE  /\ n <= a + b => m <= c + d
           /\ n <= a + b + 1 => m <= c + d + 1
           /\ n <= a + b + 1 /\ c + d >= a + b + 1 => m <= c + d
           /\ n <= a + b + 1 /\ m # n => m <= c + d
OBVIOUS

LEMMA Grows ==
    ASSUME NEW a \in Nat, NEW b \in Nat, NEW c \in Nat
    PROVE  /\ c >= a => c + b >= a + b
           /\ c >= a + 1 => c + b >= a + b + 1
OBVIOUS

\* What is counted is a number, and only a rival form or a kill is charged.
LEMMA ChargeType == ASSUME IndInv PROVE faults \in Nat /\ Charged \in Nat
BY BoundsAssumption DEF IndInv, TypeOK, Charged

LEMMA ChargeTypeNext == ASSUME IndInv' PROVE faults' \in Nat /\ Charged' \in Nat
<1>1. /\ faults' \in 0..MaxFaults /\ rivals' \in 0..MaxRivals
      /\ kills' \in 0..MaxKills
  BY DEF IndInv, TypeOK
<1>2. faults' \in Nat /\ rivals' \in Nat /\ kills' \in Nat
  BY <1>1, BoundsAssumption
<1>3. \A m, n \in Nat : m + n \in Nat
  OBVIOUS
<1> QED
  BY <1>2, <1>3 DEF Charged

LEMMA ChargeKept == ASSUME UNCHANGED costs PROVE Charged' = Charged
BY DEF costs, Charged

LEMMA InitAccounted == Init => TasksKnow /\ Accounted
<1> SUFFICES ASSUME Init PROVE TasksKnow /\ Accounted
  OBVIOUS
<1>1. Busy = {} /\ AtStake = {} /\ faults + Charged = 0
  BY DEF Init, Busy, AtStake, Charged
<1> QED
  BY <1>1, FS_EmptySet DEF Init, TasksKnow, Accounted

\* Nothing new is at stake, and either a fault is paid, or a code is out of
\* danger, or hope is not lost.
LEMMA StakeKept ==
    ASSUME IndInv, IndInv', Accounted, AtStake' \subseteq AtStake,
           faults' + Charged' >= faults + Charged,
           \/ faults' + Charged' >= faults + Charged + 1
           \/ AtStake' # AtStake
           \/ Hopeful => Hopeful'
    PROVE  Accounted'
<1>1. /\ faults \in Nat /\ Charged \in Nat /\ faults' \in Nat /\ Charged' \in Nat
  BY ChargeType, ChargeTypeNext
<1>2. IsFiniteSet(AtStake) /\ Cardinality(AtStake) \in Nat
  BY FS_CardinalityType DEF Accounted
<1>3. IsFiniteSet(AtStake') /\ Cardinality(AtStake') \in Nat
  BY <1>2, FS_Subset, FS_CardinalityType
<1>4. /\ Cardinality(AtStake') <= Cardinality(AtStake)
      /\ AtStake' # AtStake => Cardinality(AtStake') # Cardinality(AtStake)
  BY <1>2, FS_Subset
<1>5. \A n, m \in Nat :
        m <= n => /\ n <= faults + Charged => m <= faults' + Charged'
                  /\ n <= faults + Charged + 1 => m <= faults' + Charged' + 1
                  /\ /\ n <= faults + Charged + 1
                     /\ faults' + Charged' >= faults + Charged + 1 \/ m # n
                     => m <= faults' + Charged'
  BY <1>1, Account
<1>6. ASSUME Cardinality(AtStake') <= faults' + Charged' PROVE Accounted'
  BY <1>3, <1>6 DEF Accounted
<1>7. ASSUME Hopeful', Cardinality(AtStake') <= faults' + Charged' + 1 PROVE Accounted'
  BY <1>3, <1>7 DEF Accounted
<1>8. CASE Cardinality(AtStake) <= faults + Charged
  BY <1>2, <1>3, <1>4, <1>5, <1>6, <1>8
<1>9. CASE Hopeful /\ Cardinality(AtStake) <= faults + Charged + 1
  BY <1>2, <1>3, <1>4, <1>5, <1>6, <1>7, <1>9
<1> QED
  BY <1>8, <1>9 DEF Accounted

\* In particular when a fault or a kill is paid.
LEMMA StakeKeptIfPaid ==
    ASSUME IndInv, IndInv', Accounted, AtStake' \subseteq AtStake,
           faults' + Charged' >= faults + Charged + 1
    PROVE  Accounted'
<1>1. faults \in Nat /\ Charged \in Nat /\ faults' \in Nat /\ Charged' \in Nat
  BY ChargeType, ChargeTypeNext
<1>2. \A a, b, c, d \in Nat : c + d >= a + b + 1 => c + d >= a + b
  OBVIOUS
<1>3. faults' + Charged' >= faults + Charged
  BY <1>1, <1>2
<1> QED
  BY <1>3, StakeKept

\* A task that ends lets go of its code.
LEMMA EndReleases ==
    ASSUME IndInv, NEW t \in Tasks, pc[t] # "none", End(t), UNCHANGED <<used, kept>>
    PROVE  /\ t \in Busy /\ Busy' = Busy \ {t}
           /\ \A u \in Busy' : code'[u] = code[u] /\ pc'[u] = pc[u]
           /\ AtStake' \subseteq AtStake
<1>1. /\ t \in Busy /\ Busy' = Busy \ {t}
      /\ \A u \in Busy' : code'[u] = code[u] /\ pc'[u] = pc[u]
  BY DEF IndInv, TypeOK, Stages, End, Busy
<1> QED
  BY <1>1 DEF AtStake

LEMMA DieReleases ==
    ASSUME Die, UNCHANGED <<used, kept>>
    PROVE  Busy' = {} /\ AtStake' \subseteq AtStake
<1>1. Busy' = {}
  BY DEF Die, Busy
<1> QED
  BY <1>1 DEF AtStake

\* Steps that leave codes, tasks and radio alone.
LEMMA IdleAccounts ==
    ASSUME IndInv, IndInv', Accounted, UNCHANGED <<pc, code, used, kept, costs>>,
           faults' >= faults, Busy = {} \/ radio' = radio \/ radio' = "wifi"
    PROVE  Accounted'
<1>1. Busy' = Busy /\ AtStake' = AtStake
  BY DEF Busy, AtStake
<1>2. Hopeful => Hopeful'
  BY <1>1 DEF Hopeful
<1>3. /\ faults \in Nat /\ Charged \in Nat /\ faults' \in Nat
      /\ faults' >= faults /\ Charged' = Charged
  BY ChargeType, ChargeKept, BoundsAssumption DEF IndInv, TypeOK
<1>4. faults' + Charged' >= faults + Charged
  BY <1>3, Grows
<1> QED
  BY <1>1, <1>2, <1>4, StakeKept

LEMMA SubmitAccounts ==
    ASSUME IndInv, Accounted, NEW t \in Tasks, Submit(t) PROVE Accounted'
<1>1. PICK c \in Codes \ used : code' = [code EXCEPT ![t] = c]
  BY DEF Submit
<1>2. /\ pc' = [pc EXCEPT ![t] = "connect"] /\ pc[t] = "none"
      /\ UNCHANGED <<used, kept, faults>>
      /\ IF Busy = {} THEN Charged' = Charged ELSE Charged' = Charged + 1
  BY BoundsAssumption DEF Submit, history, Charged, IndInv, TypeOK
<1>3. /\ t \notin Busy /\ Busy' = Busy \union {t}
      /\ code'[t] = c /\ pc'[t] = "connect" /\ c \notin kept
      /\ \A u \in Busy : code'[u] = code[u] /\ pc'[u] = pc[u]
  BY <1>1, <1>2 DEF IndInv, TypeOK, Stages, Busy
<1>4. AtStake' = AtStake \union {c}
  BY <1>2, <1>3 DEF AtStake
<1>5. /\ faults \in Nat /\ Charged \in Nat /\ Charged' \in Nat
      /\ IsFiniteSet(AtStake) /\ Cardinality(AtStake) \in Nat
  BY <1>2, ChargeType, FS_CardinalityType DEF Accounted
<1>6. /\ IsFiniteSet(AtStake')
      /\ Cardinality(AtStake') = IF c \in AtStake THEN Cardinality(AtStake)
                                                  ELSE Cardinality(AtStake) + 1
  BY <1>4, <1>5, FS_AddElement
<1>7. CASE Busy = {}
  <2>1. Hopeful'
    BY <1>1, <1>2, <1>3, <1>7 DEF Hopeful
  <2>2. Cardinality(AtStake) <= faults + Charged
    BY <1>7 DEF Accounted, Hopeful
  <2> QED
    BY <1>2, <1>5, <1>6, <1>7, <2>1, <2>2 DEF Accounted
<1>8. CASE Busy # {} /\ c \in AtStake
  BY <1>2, <1>5, <1>6, <1>8 DEF Accounted
<1>9. CASE Busy # {} /\ c \notin AtStake
  <2>1. \A u \in Busy : code[u] # c \/ code[u] \in kept
    BY <1>9 DEF AtStake
  <2>2. Hopeful => Hopeful'
    BY <1>1, <1>2, <1>3, <2>1 DEF Hopeful
  <2> QED
    BY <1>2, <1>5, <1>6, <1>9, <2>2 DEF Accounted
<1> QED
  BY <1>7, <1>8, <1>9

\* A task goes on to its next stage.
LEMMA GoesOnAccounts ==
    ASSUME IndInv, IndInv', Accounted, NEW t \in Tasks,
           LeaveAp(t) \/ Join(t) \/ Online(t)
    PROVE  Accounted'
<1>1. /\ pc[t] \in {"connect", "join", "check"}
      /\ \E stage \in {"join", "check", "post"} : pc' = [pc EXCEPT ![t] = stage]
      /\ UNCHANGED <<code, used, kept, faults, costs>>
  BY DEF LeaveAp, Join, Online, Goto, history
<1>2. Busy' = Busy /\ t \in Busy
  BY <1>1 DEF Busy, IndInv, TypeOK
<1>3. AtStake' = AtStake
  BY <1>1, <1>2 DEF AtStake
<1>4. ASSUME Hopeful PROVE Hopeful'
  <2>1. code[t] \notin used
    BY <1>1, <1>2, <1>4 DEF Hopeful
  <2>2. \A u \in Busy : pc'[u] = "registered" <=> pc[u] = "registered"
    BY <1>1, <1>2 DEF IndInv, TypeOK
  <2> QED
    BY <1>1, <1>2, <1>4, <2>1, <2>2 DEF Hopeful
<1>5. faults' + Charged' >= faults + Charged
  BY <1>1, ChargeType, ChargeKept
<1> QED
  BY <1>3, <1>4, <1>5, StakeKept

\* The connection is gone.  A task that got no key gives its code back; one that
\* did was cut off by another, whose code is still good.
LEMMA NoConnectionAccounts ==
    ASSUME IndInv, IndInv', Accounted, NEW t \in Tasks, NoConnection(t)
    PROVE  Accounted'
<1>1. /\ pc[t] # "none" /\ End(t) /\ UNCHANGED <<used, kept, costs>>
      /\ radio = "wifi" => faults' >= faults + 1
      /\ faults' >= faults
  BY BoundsAssumption DEF NoConnection, StartAp, Fails, history, IndInv, TypeOK
<1>2. /\ t \in Busy /\ Busy' = Busy \ {t}
      /\ \A u \in Busy' : code'[u] = code[u] /\ pc'[u] = pc[u]
      /\ AtStake' \subseteq AtStake
  BY <1>1, EndReleases
<1>0. /\ faults \in Nat /\ Charged \in Nat /\ faults' \in Nat
      /\ Charged' = Charged
  BY <1>1, ChargeType, ChargeKept, BoundsAssumption DEF IndInv, TypeOK
<1>3. /\ faults' + Charged' >= faults + Charged
      /\ radio = "wifi" => faults' + Charged' >= faults + Charged + 1
  BY <1>0, <1>1, Grows
<1>4. CASE radio = "wifi" \/ ~Hopeful
  BY <1>2, <1>3, <1>4, StakeKept
<1>5. CASE radio # "wifi" /\ Hopeful /\ pc[t] = "registered"
  <2>1. PICK u \in Busy : code[u] \notin used
    BY <1>5 DEF Hopeful
  <2>2. u \in Busy'
    BY <1>2, <1>5, <2>1 DEF Hopeful
  <2>3. Hopeful'
    BY <1>1, <1>2, <1>5, <2>1, <2>2 DEF Hopeful
  <2> QED
    BY <1>2, <1>3, <2>3, StakeKept
<1>6. CASE Hopeful /\ pc[t] # "registered"
  <2>1. code[t] \notin used \union kept
    BY <1>2, <1>6 DEF Hopeful
  <2>2. code[t] \in AtStake
    BY <1>2, <2>1 DEF AtStake
  <2>3. \A u \in Busy' : code'[u] # code[t]
    BY <1>2, <1>6 DEF Hopeful
  <2>4. code[t] \notin AtStake'
    BY <1>1, <2>1, <2>3 DEF AtStake
  <2> QED
    BY <1>2, <1>3, <2>2, <2>4, StakeKept
<1> QED
  BY <1>4, <1>5, <1>6

LEMMA RegisterAccounts ==
    ASSUME IndInv, IndInv', Accounted, NEW t \in Tasks, Register(t) PROVE Accounted'
<1>1. /\ pc[t] = "post" /\ radio' = radio /\ radio = "wifi"
      /\ pc' = [pc EXCEPT ![t] = IF code[t] \in used THEN "refused" ELSE "registered"]
      /\ used' = used \union {code[t]}
      /\ UNCHANGED <<code, kept, faults, costs>>
  BY DEF Register, Goto, history, network
<1>2. Busy' = Busy /\ t \in Busy
  BY <1>1 DEF Busy, IndInv, TypeOK
<1>3. AtStake' = AtStake
  BY <1>1, <1>2 DEF AtStake
<1>4. ASSUME Hopeful PROVE Hopeful'
  <2>1. code[t] \notin used
    BY <1>1, <1>2, <1>4 DEF Hopeful
  <2>2. \A u \in Busy : pc'[u] = IF u = t THEN "registered" ELSE pc[u]
    BY <1>1, <2>1 DEF IndInv, TypeOK, Busy
  <2>3. \A u \in Busy : code[u] \in used' <=> u = t \/ code[u] \in used
    BY <1>1, <1>2, <1>4 DEF Hopeful
  <2> QED
    BY <1>1, <1>2, <1>4, <2>2, <2>3 DEF Hopeful
<1>5. faults' + Charged' >= faults + Charged
  BY <1>1, ChargeType, ChargeKept
<1> QED
  BY <1>3, <1>4, <1>5, StakeKept

\* A key is stored: its code is out of danger.
LEMMA PersistAccounts ==
    ASSUME IndInv, IndInv', Accounted, NEW t \in Tasks, Persist(t) PROVE Accounted'
<1>1. /\ pc[t] = "registered"
      /\ pc' = [pc EXCEPT ![t] = "signal"]
      /\ kept' = kept \union {code[t]}
      /\ UNCHANGED <<code, used, faults, costs>>
  BY DEF Persist, Goto
<1>2. Busy' = Busy
  BY <1>1 DEF Busy, IndInv, TypeOK
<1>3. code[t] \in AtStake /\ AtStake' = AtStake \ {code[t]}
  BY <1>1, <1>2 DEF AtStake, IndInv, KeysAreFresh
<1>4. faults' + Charged' >= faults + Charged
  BY <1>1, ChargeType, ChargeKept
<1> QED
  BY <1>3, <1>4, StakeKept

LEMMA AccountedStep ==
    ASSUME IndInv, IndInv', TasksKnow, Accounted, Next PROVE Accounted'
<1>0. faults \in Nat /\ Charged \in Nat /\ faults' \in Nat
  BY ChargeType, BoundsAssumption DEF IndInv, TypeOK
<1>1. CASE \/ Wipe \/ Exit \/ Touch \/ WipeRemotely \/ LeaveRuntime \/ HealthCheck
           \/ AgentStarts \/ AgentGivesUp \/ CronRestart \/ Autoconnect
  BY <1>0, <1>1, IdleAccounts
     DEF Wipe, Exit, Touch, WipeRemotely, LeaveRuntime, HealthCheck, AgentStarts,
         AgentGivesUp, CronRestart, Autoconnect, Fails, network, portal, history,
         asked
<1>2. CASE ClearFlag \/ EnterRuntime \/ EnterSetup
  <2>1. Busy = {}
    BY <1>2 DEF ClearFlag, EnterRuntime, EnterSetup, Decides, IndInv,
                TasksNeedPortal, Busy
  <2>2. /\ UNCHANGED <<pc, code, used, kept, costs>>
        /\ faults' >= faults
    BY <1>0, <1>2
       DEF ClearFlag, EnterRuntime, EnterSetup, StartAp, Fails, portal, history
  <2> QED
    BY <2>1, <2>2, IdleAccounts
<1>3. CASE Kill \/ PowerLoss
  <2>1. Die /\ UNCHANGED <<used, kept>>
    BY <1>3 DEF Kill, PowerLoss, history
  <2>2. CASE Kill
    <3>1. faults' = faults /\ rivals' = rivals /\ kills' = kills + 1
      BY <2>2 DEF Kill
    <3>2. rivals \in 0..MaxRivals /\ kills \in 0..MaxKills
      BY DEF IndInv, TypeOK
    <3>3. faults' + Charged' >= faults + Charged + 1
      BY <1>0, <3>1, <3>2, BoundsAssumption DEF Charged
    <3> QED
      BY <2>1, <3>3, DieReleases, StakeKeptIfPaid
  <2>3. CASE PowerLoss
    <3>1. UNCHANGED costs /\ faults' = faults + 1
      BY <2>3 DEF PowerLoss, Fails
    <3>2. faults' + Charged' >= faults + Charged + 1
      BY <1>0, <3>1, ChargeKept
    <3> QED
      BY <2>1, <3>2, DieReleases, StakeKeptIfPaid
  <2> QED
    BY <1>3, <2>2, <2>3
<1>4. ASSUME NEW t \in Tasks, Submit(t) PROVE Accounted'
  BY <1>4, SubmitAccounts
<1>5. ASSUME NEW t \in Tasks, LeaveAp(t) \/ Join(t) \/ Online(t) PROVE Accounted'
  BY <1>5, GoesOnAccounts
<1>6. ASSUME NEW t \in Tasks, JoinFails(t) \/ PersistFails(t) PROVE Accounted'
  <2>1. /\ pc[t] # "none" /\ End(t) /\ UNCHANGED <<used, kept, costs>>
        /\ faults' >= faults + 1
    BY <1>0, <1>6 DEF JoinFails, PersistFails, StartAp, Fails, history
  <2>2. AtStake' \subseteq AtStake
    BY <2>1, EndReleases
  <2>3. Charged' = Charged /\ faults' >= faults + 1
    BY <2>1, ChargeKept
  <2>4. faults' + Charged' >= faults + Charged + 1
    BY <1>0, <2>3, Grows
  <2> QED
    BY <2>2, <2>4, StakeKeptIfPaid
<1>7. ASSUME NEW t \in Tasks, NoConnection(t) PROVE Accounted'
  BY <1>7, NoConnectionAccounts
<1>8. ASSUME NEW t \in Tasks, Register(t) PROVE Accounted'
  BY <1>8, RegisterAccounts
<1>9. ASSUME NEW t \in Tasks, Rejected(t) PROVE Accounted'
  <2>1. /\ pc[t] = "refused" /\ End(t) /\ UNCHANGED <<used, kept, costs>>
        /\ faults' >= faults
    BY <1>0, <1>9 DEF Rejected, StartAp, Fails, history
  <2>2. t \in Busy /\ AtStake' \subseteq AtStake
    BY <2>1, EndReleases
  <2>3. ~Hopeful
    BY <2>1, <2>2 DEF TasksKnow, Hopeful
  <2>4. faults' + Charged' >= faults + Charged
    BY <1>0, <2>1, ChargeKept, Grows
  <2> QED
    BY <2>2, <2>3, <2>4, StakeKept
<1>10. ASSUME NEW t \in Tasks, Persist(t) PROVE Accounted'
  BY <1>10, PersistAccounts
<1>11. ASSUME NEW t \in Tasks, Signal(t) PROVE Accounted'
  <2>1. /\ (pc[t] = "signal" /\ End(t)) \/ Die
        /\ UNCHANGED <<used, kept, costs, faults>>
    BY <1>11 DEF Signal, history
  <2>2. pc[t] = "signal"
    BY <1>11 DEF Signal
  <2>3. AtStake' \subseteq AtStake
    BY <2>1, <2>2, EndReleases, DieReleases
  <2>4. ~Hopeful
    BY <2>2 DEF TasksKnow, Hopeful, Busy
  <2>5. faults' + Charged' >= faults + Charged
    BY <1>0, <2>1, ChargeKept
  <2> QED
    BY <2>3, <2>4, <2>5, StakeKept
<1> QED
  BY <1>1, <1>2, <1>3, <1>4, <1>5, <1>6, <1>7, <1>8, <1>9, <1>10, <1>11
     DEF Next, Boot, Task

LEMMA KnowStep == ASSUME IndInv, TasksKnow, Next PROVE TasksKnow'
<1> USE DEF IndInv, TypeOK, TasksKnow, Stages, gateway, network, portal, updater, asked,
        costs, history
<1>1. CASE \/ Wipe \/ ClearFlag \/ EnterRuntime \/ EnterSetup \/ Exit \/ Touch
           \/ WipeRemotely \/ LeaveRuntime \/ HealthCheck \/ AgentStarts
           \/ AgentGivesUp \/ CronRestart \/ Autoconnect
  BY <1>1 DEF Wipe, ClearFlag, EnterRuntime, EnterSetup, Exit, Touch, WipeRemotely,
              LeaveRuntime, HealthCheck, AgentStarts, AgentGivesUp, CronRestart,
              Autoconnect
<1>2. CASE Kill \/ PowerLoss
  BY <1>2 DEF Kill, PowerLoss, Die
<1>3. ASSUME NEW t \in Tasks, Submit(t) PROVE TasksKnow'
  BY <1>3 DEF Submit
<1>4. ASSUME NEW t \in Tasks, LeaveAp(t) \/ Join(t) \/ Online(t) PROVE TasksKnow'
  BY <1>4 DEF LeaveAp, Join, Online, Goto
<1>5. ASSUME NEW t \in Tasks, JoinFails(t) \/ PersistFails(t) \/ NoConnection(t)
                              \/ Rejected(t)
      PROVE  TasksKnow'
  BY <1>5 DEF JoinFails, PersistFails, NoConnection, Rejected, End
<1>6. ASSUME NEW t \in Tasks, Register(t) PROVE TasksKnow'
  BY <1>6 DEF Register, Goto
<1>7. ASSUME NEW t \in Tasks, Persist(t) PROVE TasksKnow'
  BY <1>7 DEF Persist, Goto
<1>8. ASSUME NEW t \in Tasks, Signal(t) PROVE TasksKnow'
  BY <1>8 DEF Signal, End, Die
<1> QED
  BY <1>1, <1>2, <1>3, <1>4, <1>5, <1>6, <1>7, <1>8 DEF Next, Boot, Task

\* A code is spent in vain only if something fails, a second form is sent, or
\* systemd kills a portal whose task outlasted the health timer's restart,
\* however many forms, codes and restarts there are.  (server.py:107-163,
\* greenmind-healthcheck.sh:10)
THEOREM CodesAreNeverWasted == Spec => []CodesAreNotWasted
<1>1. IndInv /\ IndInv' /\ TasksKnow /\ Accounted /\ [Next]_vars
        => (TasksKnow /\ Accounted)'
  <2>1. UNCHANGED vars /\ TasksKnow /\ Accounted => (TasksKnow /\ Accounted)'
    BY DEF vars, gateway, network, portal, history, costs, Charged, TasksKnow,
           Accounted, AtStake, Hopeful, Busy
  <2> QED
    BY <2>1, KnowStep, AccountedStep
<1>2. IndInv /\ Accounted => CodesAreNotWasted
  <2> SUFFICES ASSUME IndInv, Accounted PROVE Cardinality(Wasted) <= faults + Charged
    BY ChargeType, BoundsAssumption
       DEF CodesAreNotWasted, Charged, IndInv, TypeOK
  <2>1. faults \in Nat /\ Charged \in Nat
    BY ChargeType
  <2>2. Wasted \in SUBSET AtStake
    BY DEF Wasted, AtStake
  <2>3. /\ IsFiniteSet(Wasted) /\ Cardinality(Wasted) \in Nat
        /\ Cardinality(AtStake) \in Nat /\ Cardinality(Wasted) <= Cardinality(AtStake)
        /\ Wasted # AtStake => Cardinality(Wasted) # Cardinality(AtStake)
    BY <2>2, FS_Subset, FS_CardinalityType DEF Accounted
  <2>4. Hopeful => Wasted # AtStake
    BY DEF Hopeful, Wasted, AtStake, Busy
  <2> QED
    BY <2>1, <2>3, <2>4 DEF Accounted
<1> QED
  BY <1>1, <1>2, InitAccounted, InvariantHolds, PTL DEF Spec
=============================================================================
