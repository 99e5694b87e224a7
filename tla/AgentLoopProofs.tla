--------------------------- MODULE AgentLoopProofs ---------------------------
(***************************************************************************)
(* Proofs about AgentLoop, for any versions, commands and number of faults. *)
(***************************************************************************)
EXTENDS AgentLoop, TLAPS

\* From the switch of the link to the verdict, and with the rollback.
OnTrial == {"restart", "health", "back"}
Switched == OnTrial \union {"restart_back"}

\* Only a gateway that was never given a configuration has none; without one
\* there is no backup either.
NothingYet ==
    /\ wanted = NoConfig =>
         active = NoConfig /\ pc \in {"idle", "commands", "report"}
    /\ active = NoConfig => backup = NoConfig

\* A round with a target works on it, and the file is written before the link
\* points to it.
TargetIsHeld ==
    /\ pc \in {"download", "backup", "write", "link"} \union Switched =>
         target \in Versions
    /\ pc \in {"link"} \union Switched => target \in files

\* What is in force before and after the switch, and what a rollback returns to.
PlaceOfAttempt ==
    /\ pc = "backup" => InForce = before
    /\ pc \in {"write", "link"} => active = before /\ active # Backup
    /\ pc \in {"write", "link"} \union Switched =>
         backup = before /\ before \in files \union {NoConfig}
    /\ pc \in OnTrial => active \in Versions
    /\ pc = "restart_back" => active = Backup
    /\ pc \in {"backup", "write", "link"} \union Switched => outcome = "none"

\* A command whose executions the faults do not account for has its answer, or
\* is about to be reported.
PaidFor ==
    /\ pc = "idle" => todo = {}
    /\ pc # "report" => command = NoCommand
    /\ \A c \in Commands :
         /\ c \notin given => runs[c] = 0
         /\ runs[c] <= 1 + faults
         /\ runs[c] > faults => c \notin todo /\ (c = command \/ c \notin pending)

\* All that is about configurations.
Attempts ==
    NothingYet /\ TargetIsHeld /\ ActiveIsWhole /\ PlaceOfAttempt /\ RefusedIsUndone

\* The inductive invariant.
IndInv == TypeOK /\ Attempts /\ PaidFor

LEMMA InitInv == Init => IndInv
<1> SUFFICES ASSUME Init PROVE IndInv
  OBVIOUS
<1>1. TypeOK
  <2>1. runs \in [Commands -> Nat] /\ faults \in 0..MaxFaults
    BY FaultsAssumption DEF Init
  <2> QED
    BY <2>1 DEF Init, TypeOK, Places
<1>2. Attempts
  BY NamesAssumption
     DEF Init, Attempts, NothingYet, TargetIsHeld, OnTrial, Switched, ActiveIsWhole,
         PlaceOfAttempt, RefusedIsUndone
<1>3. PaidFor
  BY FaultsAssumption DEF Init, PaidFor
<1> QED
  BY <1>1, <1>2, <1>3 DEF IndInv

\* Every step keeps the types.
LEMMA TypeStep ==
    ASSUME IndInv, Next PROVE TypeOK'
<1> USE NamesAssumption, FaultsAssumption
       DEF IndInv, Attempts, TypeOK, Places, Names, NothingYet, TargetIsHeld,
           OnTrial, Switched, PlaceOfAttempt, InForce, ActiveIsWhole, cloud, round,
           disk, attempt
<1>1. CASE Download
  BY <1>1 DEF Download
<1>2. CASE DownloadFails
  BY <1>2 DEF DownloadFails, Fault
<1>3. CASE BackUp
  BY <1>3 DEF BackUp, Leave
<1>4. CASE BackUpFails
  BY <1>4 DEF BackUpFails, Fault, Leave
<1>5. CASE Write
  BY <1>5 DEF Write, Leave
<1>6. CASE WriteFails
  BY <1>6 DEF WriteFails, Fault, Leave
<1>7. CASE Link
  BY <1>7 DEF Link, Leave
<1>8. CASE LinkFails
  BY <1>8 DEF LinkFails, Fault, Leave
<1>9. CASE Restart
  BY <1>9 DEF Restart, Fault, Leave
<1>10. CASE Healthy
  BY <1>10 DEF Healthy, Leave
<1>11. CASE Unhealthy
  BY <1>11 DEF Unhealthy, Fault
<1>12. CASE LinkBack
  BY <1>12 DEF LinkBack, Leave
<1>13. CASE LinkBackFails
  BY <1>13 DEF LinkBackFails, Fault, Leave
<1>14. CASE RestartBack
  BY <1>14 DEF RestartBack, Leave
<1>15. CASE Report
  BY <1>15 DEF Report
<1>16. CASE ReportLost
  BY <1>16 DEF ReportLost, Fault
<1>17. CASE EndRound
  BY <1>17 DEF EndRound
<1>18. CASE Block
  BY <1>18 DEF Block
<1>19. CASE Poll
  BY <1>19 DEF Poll
<1>20. CASE CronRestart
  BY <1>20 DEF CronRestart, Restarted
<1>21. CASE Crash
  <2>1. residues' \subseteq Names
    BY <1>21 DEF Crash
  <2>2. backup' \in Versions \union {NoConfig, Torn}
    BY <1>21 DEF Crash
  <2>3. faults' \in 0..MaxFaults
    BY <1>21 DEF Crash, Fault
  <2> QED
    BY <1>21, <2>1, <2>2, <2>3 DEF Crash, Restarted
<1>22. CASE GoDown
  <2>1. residues' \subseteq Names
    BY <1>22 DEF GoDown
  <2>2. backup' \in Versions \union {NoConfig, Torn}
    BY <1>22 DEF GoDown
  <2>3. faults' \in 0..MaxFaults
    BY <1>22 DEF GoDown, Fault
  <2> QED
    BY <1>22, <2>1, <2>2, <2>3 DEF GoDown, Restarted
<1>23. ASSUME NEW v \in Versions, Publish(v) PROVE TypeOK'
  BY <1>23 DEF Publish
<1>24. ASSUME NEW c \in Commands, Order(c) PROVE TypeOK'
  BY <1>24 DEF Order
<1>25. ASSUME NEW c \in Commands, Execute(c) PROVE TypeOK'
  <2>1. runs' \in [Commands -> Nat]
    BY <1>25 DEF Execute
  <2>2. rebooting' \in BOOLEAN
    BY <1>25 DEF Execute
  <2> QED
    BY <1>25, <2>1, <2>2 DEF Execute
<1>26. ASSUME NEW c \in Commands, Skip(c) PROVE TypeOK'
  BY <1>26 DEF Skip, Fault
<1> QED
  BY <1>1, <1>2, <1>3, <1>4, <1>5, <1>6, <1>7, <1>8, <1>9, <1>10, <1>11, <1>12,
     <1>13, <1>14, <1>15, <1>16, <1>17, <1>18, <1>19, <1>20, <1>21, <1>22, <1>23,
     <1>24, <1>25, <1>26
     DEF Next, Step

\* What is in force, on the disk and in the backup while an attempt goes on.
LEMMA AttemptStep ==
    ASSUME IndInv, Next PROVE Attempts'
<1> USE NamesAssumption
       DEF IndInv, Attempts, TypeOK, NothingYet, TargetIsHeld, OnTrial, Switched,
           ActiveIsWhole, PlaceOfAttempt, RefusedIsUndone, InForce, cloud, round,
           disk, attempt
<1>1. CASE Download
  BY <1>1 DEF Download
<1>2. CASE DownloadFails
  BY <1>2 DEF DownloadFails, Fault
<1>3. CASE BackUp
  BY <1>3 DEF BackUp, Leave
<1>4. CASE BackUpFails
  BY <1>4 DEF BackUpFails, Fault, Leave
<1>5. CASE Write
  BY <1>5 DEF Write, Leave
<1>6. CASE WriteFails
  BY <1>6 DEF WriteFails, Fault, Leave
<1>7. CASE Link
  BY <1>7 DEF Link, Leave
<1>8. CASE LinkFails
  BY <1>8 DEF LinkFails, Fault, Leave
<1>9. CASE Restart
  BY <1>9 DEF Restart, Fault, Leave
<1>10. CASE Healthy
  BY <1>10 DEF Healthy, Leave
<1>11. CASE Unhealthy
  BY <1>11 DEF Unhealthy, Fault
<1>12. CASE LinkBack
  BY <1>12 DEF LinkBack, Leave
<1>13. CASE LinkBackFails
  BY <1>13 DEF LinkBackFails, Fault, Leave
<1>14. CASE RestartBack
  BY <1>14 DEF RestartBack, Leave
<1>15. CASE Report
  BY <1>15 DEF Report
<1>16. CASE ReportLost
  BY <1>16 DEF ReportLost, Fault
<1>17. CASE EndRound
  BY <1>17 DEF EndRound
<1>18. CASE Block
  BY <1>18 DEF Block
<1>19. CASE Poll
  BY <1>19 DEF Poll
<1>20. CASE CronRestart
  BY <1>20 DEF CronRestart, Restarted
<1>21. CASE Crash
  BY <1>21 DEF Crash, Fault, Restarted
<1>22. CASE GoDown
  BY <1>22 DEF GoDown, Fault, Restarted
<1>23. ASSUME NEW v \in Versions, Publish(v) PROVE Attempts'
  BY <1>23 DEF Publish
<1>24. ASSUME NEW c \in Commands, Order(c) PROVE Attempts'
  BY <1>24 DEF Order
<1>25. ASSUME NEW c \in Commands, Execute(c) PROVE Attempts'
  BY <1>25 DEF Execute
<1>26. ASSUME NEW c \in Commands, Skip(c) PROVE Attempts'
  BY <1>26 DEF Skip, Fault
<1> QED
  BY <1>1, <1>2, <1>3, <1>4, <1>5, <1>6, <1>7, <1>8, <1>9, <1>10, <1>11, <1>12,
     <1>13, <1>14, <1>15, <1>16, <1>17, <1>18, <1>19, <1>20, <1>21, <1>22, <1>23,
     <1>24, <1>25, <1>26
     DEF Next, Step

\* Who pays for the executions of a command.
LEMMA PaidStep ==
    ASSUME IndInv, Next PROVE PaidFor'
<1> USE NamesAssumption, FaultsAssumption
       DEF IndInv, TypeOK, PaidFor, cloud, round, disk, attempt
<1>1. CASE Download
  BY <1>1 DEF Download
<1>2. CASE DownloadFails
  BY <1>2 DEF DownloadFails, Fault
<1>3. CASE BackUp
  BY <1>3 DEF BackUp, Leave
<1>4. CASE BackUpFails
  BY <1>4 DEF BackUpFails, Fault, Leave
<1>5. CASE Write
  BY <1>5 DEF Write, Leave
<1>6. CASE WriteFails
  BY <1>6 DEF WriteFails, Fault, Leave
<1>7. CASE Link
  BY <1>7 DEF Link, Leave
<1>8. CASE LinkFails
  BY <1>8 DEF LinkFails, Fault, Leave
<1>9. CASE Restart
  BY <1>9 DEF Restart, Fault, Leave
<1>10. CASE Healthy
  BY <1>10 DEF Healthy, Leave
<1>11. CASE Unhealthy
  BY <1>11 DEF Unhealthy, Fault
<1>12. CASE LinkBack
  BY <1>12 DEF LinkBack, Leave
<1>13. CASE LinkBackFails
  BY <1>13 DEF LinkBackFails, Fault, Leave
<1>14. CASE RestartBack
  BY <1>14 DEF RestartBack, Leave
<1>15. CASE Report
  BY <1>15 DEF Report
<1>16. CASE ReportLost
  BY <1>16 DEF ReportLost, Fault
<1>17. CASE EndRound
  BY <1>17 DEF EndRound
<1>18. CASE Block
  BY <1>18 DEF Block
<1>19. CASE Poll
  BY <1>19 DEF Poll
<1>20. CASE CronRestart
  BY <1>20 DEF CronRestart, Restarted
<1>21. CASE Crash
  BY <1>21 DEF Crash, Fault, Restarted
<1>22. CASE GoDown
  BY <1>22 DEF GoDown, Fault, Restarted
<1>23. ASSUME NEW v \in Versions, Publish(v) PROVE PaidFor'
  BY <1>23 DEF Publish
<1>24. ASSUME NEW c \in Commands, Order(c) PROVE PaidFor'
  BY <1>24 DEF Order
<1>25. ASSUME NEW c \in Commands, Execute(c) PROVE PaidFor'
  BY <1>25 DEF Execute
<1>26. ASSUME NEW c \in Commands, Skip(c) PROVE PaidFor'
  BY <1>26 DEF Skip, Fault
<1> QED
  BY <1>1, <1>2, <1>3, <1>4, <1>5, <1>6, <1>7, <1>8, <1>9, <1>10, <1>11, <1>12,
     <1>13, <1>14, <1>15, <1>16, <1>17, <1>18, <1>19, <1>20, <1>21, <1>22, <1>23,
     <1>24, <1>25, <1>26
     DEF Next, Step

LEMMA InvStep == IndInv /\ [Next]_vars => IndInv'
<1>1. ASSUME IndInv, Next PROVE IndInv'
  BY <1>1, TypeStep, AttemptStep, PaidStep DEF IndInv
<1>2. ASSUME IndInv, UNCHANGED vars PROVE IndInv'
  BY <1>2
        DEF IndInv, Attempts, vars, cloud, round, disk, attempt, TypeOK, NothingYet,
            TargetIsHeld,
         ActiveIsWhole, PlaceOfAttempt, RefusedIsUndone, PaidFor, InForce
<1> QED
  BY <1>1, <1>2

LEMMA InvariantHolds == Spec => []IndInv
BY InitInv, InvStep, PTL DEF Spec

\* The variables of the round and what it keeps on the disk are of their types.
THEOREM TypeCorrect == Spec => []TypeOK
<1>1. IndInv => TypeOK
  BY DEF IndInv
<1> QED
  BY InvariantHolds, <1>1, PTL

\* active.json never points to a file that was not written whole, whatever step
\* fails or is cut short.  (greenmind_agent.py:800-829, 846-851)
THEOREM ActiveIsAlwaysWhole == Spec => []ActiveIsWhole
<1>1. IndInv => ActiveIsWhole
  BY DEF IndInv, Attempts
<1> QED
  BY InvariantHolds, <1>1, PTL

\* An attempt that ends before the switch or with a rollback changes nothing.
\* (greenmind_agent.py:800-812, 843-856)
THEOREM RefusedIsAlwaysUndone == Spec => []RefusedIsUndone
<1>1. IndInv => RefusedIsUndone
  BY DEF IndInv, Attempts
<1> QED
  BY InvariantHolds, <1>1, PTL

\* A command is executed at most once more than there were faults.
\* (greenmind_agent.py:1160-1203)
THEOREM RepeatsAlwaysNeedFaults == Spec => []RepeatsNeedFaults
<1>1. IndInv => RepeatsNeedFaults
  BY DEF IndInv, PaidFor, RepeatsNeedFaults
<1> QED
  BY InvariantHolds, <1>1, PTL

-----------------------------------------------------------------------------
(* Configurations are switched as GuardedSwitch promises.                  *)

\* Until the switch, what the round works on is not what is active.
TargetIsNew == pc \in {"download", "backup", "write", "link"} => target # active

LEMMA TargetIsNewHolds == Spec => []TargetIsNew
<1> USE DEF TargetIsNew
<1>1. Init => TargetIsNew
  BY DEF Init
<1>2. TargetIsNew /\ [Next]_vars => TargetIsNew'
  <2> SUFFICES ASSUME TargetIsNew, [Next]_vars PROVE TargetIsNew'
    OBVIOUS
  <2>1. ASSUME pc' \notin {"download", "backup", "write", "link"} PROVE TargetIsNew'
    BY <2>1
  <2>2. CASE Poll \/ Download \/ BackUp \/ Write
    BY <2>2 DEF Poll, Download, BackUp, Write, Leave, round, disk
  <2>3. CASE \/ DownloadFails \/ BackUpFails \/ WriteFails \/ Link \/ LinkFails
             \/ Healthy \/ Unhealthy \/ LinkBack \/ LinkBackFails \/ RestartBack
    BY <2>1, <2>3
       DEF DownloadFails, BackUpFails, WriteFails, Link, LinkFails, Healthy, Unhealthy,
           LinkBack, LinkBackFails, RestartBack, Leave
  <2>4. CASE Restart \/ Report \/ ReportLost \/ EndRound
    BY <2>1, <2>4 DEF Restart, Report, ReportLost, EndRound, Leave
  <2>5. CASE CronRestart \/ Crash \/ GoDown
    BY <2>1, <2>5 DEF CronRestart, Crash, GoDown, Restarted
  <2>6. CASE Block \/ (\E v \in Versions : Publish(v)) \/ \E c \in Commands : Order(c)
    BY <2>6 DEF Block, Publish, Order, round, disk
  <2>7. ASSUME NEW c \in Commands, Execute(c) \/ Skip(c) PROVE TargetIsNew'
    BY <2>1, <2>7 DEF Execute, Skip
  <2>8. CASE UNCHANGED vars
    BY <2>8 DEF vars, round, disk
  <2> QED
    BY <2>2, <2>3, <2>4, <2>5, <2>6, <2>7, <2>8 DEF Next, Step
<1> QED
  BY <1>1, <1>2, PTL DEF Spec

\* The configuration a trial falls back to.
Fallback == IF pc \in OnTrial THEN {before} ELSE {}

LEMMA StepRefines ==
    ASSUME IndInv, TargetIsNew, Next PROVE [Abstract!Next]_(Abstract!switchVars)
<1> USE DEF OnTrial, Fallback, Abstract!switchVars
<1>1. /\ ActiveIsWhole /\ PlaceOfAttempt /\ TargetIsHeld
      /\ files \subseteq Versions /\ active \in Versions \union {NoConfig, Backup}
      /\ backup \in Versions \union {NoConfig, Torn}
      /\ Backup \notin Versions \union {NoConfig}
  BY NamesAssumption DEF IndInv, Attempts, TypeOK
<1>2. ASSUME UNCHANGED <<files, InForce, Fallback>>
      PROVE  UNCHANGED Abstract!switchVars
  BY <1>2
<1>3. ASSUME UNCHANGED <<files, InForce>>, Fallback' = {}
      PROVE  [Abstract!Next]_(Abstract!switchVars)
  <2>1. InForce \notin {} /\ (files \union {NoConfig})' = (files \union {NoConfig}) \ {}
    BY <1>3
  <2>2. Abstract!Settle({})
    BY <1>3, <2>1 DEF Abstract!Settle
  <2> QED
    BY <2>2 DEF Abstract!Next
<1>4. ASSUME UNCHANGED <<files, active>>,
             active = Backup => UNCHANGED backup,
             pc' \notin OnTrial \/ (pc \in OnTrial /\ UNCHANGED before)
      PROVE  [Abstract!Next]_(Abstract!switchVars)
  <2>1. UNCHANGED <<files, InForce>>
    BY <1>4 DEF InForce
  <2>2. CASE pc' \notin OnTrial
    <3>1. Fallback' = {}
      BY <2>2
    <3> QED
      BY <1>3, <2>1, <3>1
  <2>3. CASE pc' \in OnTrial
    <3>1. UNCHANGED Fallback
      BY <1>4, <2>3
    <3> QED
      BY <1>2, <2>1, <3>1
  <2> QED
    BY <2>2, <2>3
<1>5. CASE \/ Poll \/ Download \/ DownloadFails \/ Report \/ ReportLost \/ EndRound
  BY <1>4, <1>5
     DEF Poll, Download, DownloadFails, Report, ReportLost, EndRound, disk
<1>6. CASE BackUp \/ BackUpFails
  BY <1>1, <1>4, <1>6 DEF BackUp, BackUpFails, Leave
<1>7. CASE WriteFails \/ LinkFails \/ Healthy \/ LinkBackFails \/ RestartBack
  BY <1>4, <1>7 DEF WriteFails, LinkFails, Healthy, LinkBackFails, RestartBack, Leave, disk
<1>8. CASE Restart \/ Unhealthy
  BY <1>4, <1>8 DEF Restart, Unhealthy, Leave, disk, attempt
<1>9. CASE Write
  <2>1. CASE "config" \in residues
    BY <1>4, <1>9, <2>1 DEF Write, Leave
  <2>2. CASE "config" \notin residues
    <3>1. /\ files' = files \union {target} /\ target \in Versions
          /\ UNCHANGED <<active, backup>> /\ pc = "write" /\ pc' = "link"
      BY <1>1, <1>9, <2>2 DEF Write, TargetIsHeld
    <3>2. UNCHANGED <<InForce, Fallback>>
      BY <3>1 DEF InForce
    <3>3. Abstract!Bring({target})
      BY <3>1, <3>2 DEF Abstract!Bring
    <3> QED
      BY <3>1, <3>3 DEF Abstract!Next
  <2> QED
    BY <2>1, <2>2
<1>10. CASE Link
  <2>1. CASE "active_tmp" \in residues
    BY <1>4, <1>10, <2>1 DEF Link, Leave
  <2>2. CASE "active_tmp" \notin residues
    <3>1. /\ active' = target /\ UNCHANGED <<files, backup, before>>
          /\ pc = "link" /\ pc' = "restart"
          /\ target \in files /\ target \in Versions
          /\ active = before /\ active # Backup
      BY <1>1, <1>10, <2>2 DEF Link, TargetIsHeld, PlaceOfAttempt
    <3>2. InForce = active /\ InForce' = target
      BY <1>1, <3>1 DEF InForce
    <3>3. Fallback = {} /\ Fallback' = {InForce}
      BY <3>1, <3>2
    <3>4. target # active
      BY <3>1 DEF TargetIsNew
    <3>5. Abstract!Try(target)
      BY <3>1, <3>2, <3>3, <3>4 DEF Abstract!Try
    <3> QED
      BY <3>1, <3>5 DEF Abstract!Next
  <2> QED
    BY <2>1, <2>2
<1>11. CASE LinkBack
  <2>1. CASE backup = NoConfig \/ "active_rollback" \in residues
    BY <1>4, <1>11, <2>1 DEF LinkBack, Leave
  <2>2. CASE ~(backup = NoConfig \/ "active_rollback" \in residues)
    <3>1. /\ active' = Backup /\ UNCHANGED <<files, backup>>
          /\ pc = "back" /\ pc' = "restart_back" /\ backup = before
      BY <1>1, <1>11, <2>2 DEF LinkBack, PlaceOfAttempt, Switched
    <3>2. InForce' = before /\ Fallback = {before} /\ Fallback' = {}
      BY <3>1 DEF InForce
    <3>3. Abstract!Undo
      BY <3>1, <3>2 DEF Abstract!Undo
    <3> QED
      BY <3>3 DEF Abstract!Next
  <2> QED
    BY <2>1, <2>2
<1>12. CASE CronRestart
  BY <1>4, <1>12 DEF CronRestart, Restarted
<1>13. CASE Crash \/ GoDown
  <2>1. /\ UNCHANGED <<files, active>> /\ pc' = "idle"
        /\ active = Backup => UNCHANGED backup
    BY <1>1, <1>13 DEF Crash, GoDown, Restarted
  <2> QED
    BY <1>4, <2>1
<1>14. CASE Block \/ \E v \in Versions : Publish(v)
  BY <1>4, <1>14 DEF Block, Publish, disk, attempt
<1>15. ASSUME NEW c \in Commands, Order(c) \/ Execute(c) \/ Skip(c)
       PROVE  [Abstract!Next]_(Abstract!switchVars)
  BY <1>4, <1>15 DEF Order, Execute, Skip, disk, attempt
<1> QED
  BY <1>5, <1>6, <1>7, <1>8, <1>9, <1>10, <1>11, <1>12, <1>13, <1>14, <1>15
     DEF Next, Step

\* Only a configuration written whole comes into force, and its trial ends with
\* it or with the one before.  (greenmind_agent.py:787-867)
THEOREM ImplementsGuardedSwitch == Spec => Implements
<1>1. Init => Abstract!Init
  BY DEF Init, Abstract!Init, InForce
<1>2. IndInv /\ TargetIsNew /\ [Next]_vars => [Abstract!Next]_(Abstract!switchVars)
  <2>1. UNCHANGED vars => UNCHANGED Abstract!switchVars
    BY DEF vars, disk, attempt, Abstract!switchVars, InForce
  <2> QED
    BY <2>1, StepRefines
<1> QED
  BY InvariantHolds, TargetIsNewHolds, <1>1, <1>2, PTL DEF Spec, Implements, Abstract!Spec
=============================================================================
