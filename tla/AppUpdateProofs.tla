--------------------------- MODULE AppUpdateProofs ---------------------------
(***************************************************************************)
(* Proofs about AppUpdate, for any releases, any number retained and any   *)
(* values of the bounds.                                                   *)
(***************************************************************************)
EXTENDS AppUpdate, TLAPS

LEMMA FaultType == ASSUME BoundType, Fault PROVE BoundType'
BY AppUpdateAssumption DEF BoundType, Fault

\* The ways the disk changes keep its type.
LEMMA DeleteType ==
  ASSUME DiskType, NEW gone, Delete(gone), UNCHANGED <<current, running>>
  PROVE  DiskType'
<1>1. releases' \in SUBSET Versions /\ installed' \in SUBSET releases'
  BY DEF DiskType, Delete
<1>2. newer' \in [Versions -> SUBSET Versions]
  BY DEF DiskType, Delete
<1> QED
  BY <1>1, <1>2 DEF DiskType

LEMMA ExtractType ==
  ASSUME TypeOK, Extract PROVE DiskType'
<1>1. target \in Versions
  BY DEF TypeOK, LoopType, Extract, Goto
<1>2. newer' \in [Versions -> SUBSET Versions]
  BY <1>1 DEF TypeOK, DiskType, Extract
<1>3. releases' \in SUBSET Versions /\ installed' \in SUBSET releases'
  BY <1>1 DEF TypeOK, DiskType, Extract
<1> QED
  BY <1>2, <1>3 DEF TypeOK, DiskType, Extract

LEMMA InitInv == Init => IndInv
<1> SUFFICES ASSUME Init PROVE IndInv
  OBVIOUS
<1>1. DiskType
  BY AppUpdateAssumption DEF Init, DiskType
<1>2. StateType
  BY DEF Init, StateType, MaybeVersion
<1>3. LoopType
  BY AppUpdateAssumption DEF Init, LoopType, Phases, MaybeVersion
<1>4. BoundType
  BY AppUpdateAssumption DEF Init, BoundType
<1>5. TypeOK
  BY <1>1, <1>2, <1>3, <1>4, AppUpdateAssumption DEF Init, TypeOK
<1>6. CurrentExists /\ TrialCanBeUndone /\ BeforeTheSwitch /\ ExtractedIsThere
      /\ OnTrial /\ WayBack /\ OnlyTargetUnkept /\ LinksNeedFaults
  BY DEF Init, CurrentExists, TrialCanBeUndone, BeforeTheSwitch,
         ExtractedIsThere, OnTrial, WayBack, OnlyTargetUnkept, LinksNeedFaults
<1> QED
  BY <1>5, <1>6 DEF IndInv

LEMMA TypeStep == ASSUME TypeOK, ExtractedIsThere, Next PROVE TypeOK'
<1>1. ASSUME Poll PROVE TypeOK'
  <2>1. DiskType'
    BY <1>1 DEF TypeOK, DiskType, LoopType, Poll, Goto, diskVars, MaybeVersion
  <2>2. StateType'
    BY <1>1 DEF TypeOK, StateType, LoopType, DiskType, MaybeVersion, Poll, Goto, Save, stateVars
  <2>3. LoopType'
    BY <1>1 DEF TypeOK, LoopType, DiskType, Phases, MaybeVersion, Poll, Goto, tempVars
  <2>4. BoundType'
    BY <1>1, AppUpdateAssumption DEF TypeOK, BoundType, Poll, boundVars
  <2> QED
    BY <1>1, <2>1, <2>2, <2>3, <2>4 DEF TypeOK, Poll
<1>2. ASSUME UseCached PROVE TypeOK'
  <2>1. DiskType'
    BY <1>2 DEF TypeOK, DiskType, LoopType, UseCached, Goto, diskVars, MaybeVersion
  <2>2. StateType'
    BY <1>2 DEF TypeOK, StateType, LoopType, DiskType, MaybeVersion, UseCached, Goto, Save, stateVars
  <2>3. LoopType'
    BY <1>2 DEF TypeOK, LoopType, DiskType, Phases, MaybeVersion, UseCached, Goto, tempVars
  <2>4. BoundType'
    BY <1>2, AppUpdateAssumption DEF TypeOK, BoundType, UseCached, boundVars
  <2> QED
    BY <1>2, <2>1, <2>2, <2>3, <2>4 DEF TypeOK, UseCached
<1>3. ASSUME Download PROVE TypeOK'
  <2>1. DiskType'
    BY <1>3 DEF TypeOK, DiskType, LoopType, Download, Goto, diskVars, MaybeVersion
  <2>2. StateType'
    BY <1>3 DEF TypeOK, StateType, LoopType, DiskType, MaybeVersion, Download, Goto, Save, stateVars
  <2>3. LoopType'
    BY <1>3 DEF TypeOK, LoopType, DiskType, Phases, MaybeVersion, Download, Goto, tempVars
  <2>4. BoundType'
    BY <1>3, AppUpdateAssumption DEF TypeOK, BoundType, Download, boundVars
  <2> QED
    BY <1>3, <2>1, <2>2, <2>3, <2>4 DEF TypeOK, Download
<1>4. ASSUME DownloadFails PROVE TypeOK'
  <2>1. DiskType'
    BY <1>4 DEF TypeOK, DiskType, LoopType, DownloadFails, Goto, diskVars, MaybeVersion
  <2>2. StateType'
    BY <1>4 DEF TypeOK, StateType, LoopType, DiskType, MaybeVersion, DownloadFails, Goto, Save, stateVars
  <2>3. LoopType'
    BY <1>4 DEF TypeOK, LoopType, DiskType, Phases, MaybeVersion, DownloadFails, Goto, tempVars
  <2>4. BoundType'
    BY <1>4, FaultType DEF TypeOK, DownloadFails
  <2> QED
    BY <1>4, <2>1, <2>2, <2>3, <2>4 DEF TypeOK, DownloadFails
<1>5. ASSUME BeginApply PROVE TypeOK'
  <2>1. DiskType'
    BY <1>5 DEF TypeOK, DiskType, LoopType, BeginApply, Goto, diskVars, MaybeVersion
  <2>2. StateType'
    BY <1>5 DEF TypeOK, StateType, LoopType, DiskType, MaybeVersion, BeginApply, Goto, Save, stateVars
  <2>3. LoopType'
    BY <1>5 DEF TypeOK, LoopType, DiskType, Phases, MaybeVersion, BeginApply, Goto, tempVars
  <2>4. BoundType'
    BY <1>5, AppUpdateAssumption DEF TypeOK, BoundType, BeginApply, boundVars
  <2> QED
    BY <1>5, <2>1, <2>2, <2>3, <2>4 DEF TypeOK, BeginApply
<1>6. ASSUME AlreadyExtracted PROVE TypeOK'
  <2>1. DiskType'
    BY <1>6 DEF TypeOK, DiskType, LoopType, AlreadyExtracted, Goto, diskVars, MaybeVersion
  <2>2. StateType'
    BY <1>6 DEF TypeOK, StateType, LoopType, DiskType, MaybeVersion, AlreadyExtracted, Goto, Save, stateVars
  <2>3. LoopType'
    BY <1>6 DEF TypeOK, LoopType, DiskType, Phases, MaybeVersion, AlreadyExtracted, Goto, Except, tempVars
  <2>4. BoundType'
    BY <1>6, AppUpdateAssumption DEF TypeOK, BoundType, AlreadyExtracted, boundVars
  <2> QED
    BY <1>6, <2>1, <2>2, <2>3, <2>4 DEF TypeOK, AlreadyExtracted
<1>7. ASSUME ExtractFails PROVE TypeOK'
  <2>1. DiskType'
    BY <1>7 DEF TypeOK, DiskType, LoopType, ExtractFails, Goto, diskVars, MaybeVersion
  <2>2. StateType'
    BY <1>7 DEF TypeOK, StateType, LoopType, DiskType, MaybeVersion, ExtractFails, Goto, Save, stateVars
  <2>3. LoopType'
    BY <1>7 DEF TypeOK, LoopType, DiskType, Phases, MaybeVersion, ExtractFails, Goto, Except, tempVars
  <2>4. BoundType'
    BY <1>7, FaultType DEF TypeOK, ExtractFails
  <2> QED
    BY <1>7, <2>1, <2>2, <2>3, <2>4 DEF TypeOK, ExtractFails
<1>8. ASSUME Extract PROVE TypeOK'
  <2>1. DiskType'
    BY <1>8, ExtractType
  <2>2. StateType'
    BY <1>8 DEF TypeOK, StateType, LoopType, DiskType, MaybeVersion, Extract, Goto, Save, stateVars
  <2>3. LoopType'
    BY <1>8 DEF TypeOK, LoopType, DiskType, Phases, MaybeVersion, Extract, Goto, tempVars
  <2>4. BoundType'
    BY <1>8, AppUpdateAssumption DEF TypeOK, BoundType, Extract, boundVars
  <2> QED
    BY <1>8, <2>1, <2>2, <2>3, <2>4 DEF TypeOK, Extract
<1>9. ASSUME InstallFails PROVE TypeOK'
  <2>1. DiskType'
    BY <1>9 DEF TypeOK, DiskType, LoopType, InstallFails, Goto, diskVars, MaybeVersion
  <2>2. StateType'
    BY <1>9 DEF TypeOK, StateType, LoopType, DiskType, MaybeVersion, InstallFails, Goto, Save, stateVars
  <2>3. LoopType'
    BY <1>9 DEF TypeOK, LoopType, DiskType, Phases, MaybeVersion, InstallFails, Goto, Except, tempVars
  <2>4. BoundType'
    BY <1>9, FaultType DEF TypeOK, InstallFails
  <2> QED
    BY <1>9, <2>1, <2>2, <2>3, <2>4 DEF TypeOK, InstallFails
<1>10. ASSUME Install PROVE TypeOK'
  <2>1. DiskType'
    BY <1>10 DEF TypeOK, ExtractedIsThere, DiskType, LoopType, Install, Goto
  <2>2. StateType'
    BY <1>10 DEF TypeOK, StateType, LoopType, DiskType, MaybeVersion, Install, Goto, Save, stateVars
  <2>3. LoopType'
    BY <1>10 DEF TypeOK, LoopType, DiskType, Phases, MaybeVersion, Install, Goto, tempVars
  <2>4. BoundType'
    BY <1>10, AppUpdateAssumption DEF TypeOK, BoundType, Install, boundVars
  <2> QED
    BY <1>10, <2>1, <2>2, <2>3, <2>4 DEF TypeOK, Install
<1>11. ASSUME Switch PROVE TypeOK'
  <2>1. DiskType'
    BY <1>11 DEF TypeOK, DiskType, LoopType, Switch, Goto, diskVars, MaybeVersion
  <2>2. StateType'
    BY <1>11 DEF TypeOK, StateType, LoopType, DiskType, MaybeVersion, Switch, Goto, Save, stateVars
  <2>3. LoopType'
    BY <1>11 DEF TypeOK, LoopType, DiskType, Phases, MaybeVersion, Switch, Goto, tempVars
  <2>4. BoundType'
    BY <1>11, AppUpdateAssumption DEF TypeOK, BoundType, Switch, boundVars
  <2> QED
    BY <1>11, <2>1, <2>2, <2>3, <2>4 DEF TypeOK, Switch
<1>12. ASSUME Restart PROVE TypeOK'
  <2>1. DiskType'
    BY <1>12 DEF TypeOK, DiskType, LoopType, Restart, Goto, diskVars, MaybeVersion
  <2>2. StateType'
    BY <1>12 DEF TypeOK, StateType, LoopType, DiskType, MaybeVersion, Restart, Goto, Save, stateVars
  <2>3. LoopType'
    BY <1>12 DEF TypeOK, LoopType, DiskType, Phases, MaybeVersion, Restart, Goto, tempVars
  <2>4. BoundType'
    BY <1>12, AppUpdateAssumption DEF TypeOK, BoundType, Restart, boundVars
  <2> QED
    BY <1>12, <2>1, <2>2, <2>3, <2>4 DEF TypeOK, Restart
<1>13. ASSUME RestartFails PROVE TypeOK'
  <2>1. DiskType'
    BY <1>13 DEF TypeOK, DiskType, LoopType, RestartFails, Goto, diskVars, MaybeVersion
  <2>2. StateType'
    BY <1>13 DEF TypeOK, StateType, LoopType, DiskType, MaybeVersion, RestartFails, Goto, Save, stateVars
  <2>3. LoopType'
    BY <1>13 DEF TypeOK, LoopType, DiskType, Phases, MaybeVersion, RestartFails, Goto, Except, tempVars
  <2>4. BoundType'
    BY <1>13, FaultType DEF TypeOK, RestartFails
  <2> QED
    BY <1>13, <2>1, <2>2, <2>3, <2>4 DEF TypeOK, RestartFails
<1>14. ASSUME Healthy PROVE TypeOK'
  <2>1. DiskType'
    BY <1>14, DeleteType DEF TypeOK, Healthy, CleanUp
  <2>2. StateType'
    BY <1>14 DEF TypeOK, StateType, LoopType, DiskType, MaybeVersion, Healthy, Goto, Save, stateVars
  <2>3. LoopType'
    BY <1>14 DEF TypeOK, LoopType, DiskType, Phases, MaybeVersion, Healthy, Goto, tempVars
  <2>4. BoundType'
    BY <1>14, AppUpdateAssumption DEF TypeOK, BoundType, Healthy, boundVars
  <2> QED
    BY <1>14, <2>1, <2>2, <2>3, <2>4 DEF TypeOK, Healthy
<1>15. ASSUME Unhealthy PROVE TypeOK'
  <2>1. DiskType'
    BY <1>15 DEF TypeOK, DiskType, LoopType, Unhealthy, Goto, diskVars, MaybeVersion
  <2>2. StateType'
    BY <1>15 DEF TypeOK, StateType, LoopType, DiskType, MaybeVersion, Unhealthy, Goto, Save, stateVars
  <2>3. LoopType'
    BY <1>15 DEF TypeOK, LoopType, DiskType, Phases, MaybeVersion, Unhealthy, Goto, tempVars
  <2>4. BoundType'
    BY <1>15, AppUpdateAssumption DEF TypeOK, BoundType, Unhealthy, boundVars
  <2> QED
    BY <1>15, <2>1, <2>2, <2>3, <2>4 DEF TypeOK, Unhealthy
<1>16. ASSUME LinkBack PROVE TypeOK'
  <2>1. DiskType'
    BY <1>16 DEF TypeOK, DiskType, LinkBack
  <2>2. StateType'
    BY <1>16 DEF TypeOK, StateType, LoopType, DiskType, MaybeVersion, LinkBack, Goto, Save, stateVars
  <2>3. LoopType'
    BY <1>16 DEF TypeOK, LoopType, DiskType, Phases, MaybeVersion, LinkBack, Goto, tempVars
  <2>4. BoundType'
    BY <1>16, AppUpdateAssumption DEF TypeOK, BoundType, LinkBack, boundVars
  <2> QED
    BY <1>16, <2>1, <2>2, <2>3, <2>4 DEF TypeOK, LinkBack
<1>17. ASSUME NothingToLink PROVE TypeOK'
  <2>1. DiskType'
    BY <1>17 DEF TypeOK, DiskType, LoopType, NothingToLink, Goto, diskVars, MaybeVersion
  <2>2. StateType'
    BY <1>17 DEF TypeOK, StateType, LoopType, DiskType, MaybeVersion, NothingToLink, Goto, Save, stateVars
  <2>3. LoopType'
    BY <1>17 DEF TypeOK, LoopType, DiskType, Phases, MaybeVersion, NothingToLink, Goto, tempVars
  <2>4. BoundType'
    BY <1>17, AppUpdateAssumption DEF TypeOK, BoundType, NothingToLink, boundVars
  <2> QED
    BY <1>17, <2>1, <2>2, <2>3, <2>4 DEF TypeOK, NothingToLink
<1>18. ASSUME RestartBack PROVE TypeOK'
  <2>1. DiskType'
    BY <1>18 DEF TypeOK, DiskType, LoopType, RestartBack, Goto, diskVars, MaybeVersion
  <2>2. StateType'
    BY <1>18 DEF TypeOK, StateType, LoopType, DiskType, MaybeVersion, RestartBack, Goto, Save, stateVars
  <2>3. LoopType'
    BY <1>18 DEF TypeOK, LoopType, DiskType, Phases, MaybeVersion, RestartBack, Goto, tempVars
  <2>4. BoundType'
    BY <1>18, AppUpdateAssumption DEF TypeOK, BoundType, RestartBack, boundVars
  <2> QED
    BY <1>18, <2>1, <2>2, <2>3, <2>4 DEF TypeOK, RestartBack
<1>19. ASSUME RestartBackFails PROVE TypeOK'
  <2>1. DiskType'
    BY <1>19 DEF TypeOK, DiskType, LoopType, RestartBackFails, Goto, diskVars, MaybeVersion
  <2>2. StateType'
    BY <1>19 DEF TypeOK, StateType, LoopType, DiskType, MaybeVersion, RestartBackFails, Goto, Save, stateVars
  <2>3. LoopType'
    BY <1>19 DEF TypeOK, LoopType, DiskType, Phases, MaybeVersion, RestartBackFails, Goto, tempVars
  <2>4. BoundType'
    BY <1>19, FaultType DEF TypeOK, RestartBackFails
  <2> QED
    BY <1>19, <2>1, <2>2, <2>3, <2>4 DEF TypeOK, RestartBackFails
<1>20. ASSUME Discard PROVE TypeOK'
  <2>1. DiskType'
    BY <1>20, DeleteType DEF TypeOK, Discard, CleanUp
  <2>2. StateType'
    BY <1>20 DEF TypeOK, StateType, LoopType, DiskType, MaybeVersion, Discard, Goto, Save, stateVars
  <2>3. LoopType'
    BY <1>20 DEF TypeOK, LoopType, DiskType, Phases, MaybeVersion, Discard, Goto, tempVars
  <2>4. BoundType'
    BY <1>20, AppUpdateAssumption DEF TypeOK, BoundType, Discard, boundVars
  <2> QED
    BY <1>20, <2>1, <2>2, <2>3, <2>4 DEF TypeOK, Discard
<1>21. ASSUME EndLoop PROVE TypeOK'
  <2>1. DiskType'
    BY <1>21 DEF TypeOK, DiskType, LoopType, EndLoop, Goto, diskVars, MaybeVersion
  <2>2. StateType'
    BY <1>21 DEF TypeOK, StateType, LoopType, DiskType, MaybeVersion, EndLoop, Goto, Save, stateVars
  <2>3. LoopType'
    BY <1>21 DEF TypeOK, LoopType, DiskType, Phases, MaybeVersion, EndLoop, Goto, tempVars
  <2>4. BoundType'
    BY <1>21, AppUpdateAssumption DEF TypeOK, BoundType, EndLoop, boundVars
  <2> QED
    BY <1>21, <2>1, <2>2, <2>3, <2>4 DEF TypeOK, EndLoop
<1>22. ASSUME Postpone PROVE TypeOK'
  <2>1. DiskType'
    BY <1>22 DEF TypeOK, DiskType, LoopType, Postpone, Goto, diskVars, MaybeVersion
  <2>2. StateType'
    BY <1>22 DEF TypeOK, StateType, LoopType, DiskType, MaybeVersion, Postpone, Goto, Save, stateVars
  <2>3. LoopType'
    BY <1>22 DEF TypeOK, LoopType, DiskType, Phases, MaybeVersion, Postpone, Goto, tempVars
  <2>4. BoundType'
    BY <1>22, AppUpdateAssumption DEF TypeOK, BoundType, Postpone, boundVars
  <2> QED
    BY <1>22, <2>1, <2>2, <2>3, <2>4 DEF TypeOK, Postpone
<1>23. ASSUME NEW v \in Versions, RollOut(v) PROVE TypeOK'
  <2>1. DiskType'
    BY <1>23 DEF TypeOK, DiskType, RollOut, diskVars
  <2>2. StateType'
    BY <1>23 DEF TypeOK, StateType, RollOut, stateVars
  <2>3. LoopType'
    BY <1>23 DEF TypeOK, LoopType, RollOut, loopVars, tempVars
  <2>4. BoundType'
    BY <1>23, AppUpdateAssumption DEF TypeOK, BoundType, RollOut
  <2> QED
    BY <1>23, <2>1, <2>2, <2>3, <2>4 DEF TypeOK, RollOut
<1>24. ASSUME ServiceRestarts PROVE TypeOK'
  <2>1. DiskType'
    BY <1>24 DEF TypeOK, DiskType, ServiceRestarts, diskVars
  <2>2. StateType'
    BY <1>24 DEF TypeOK, StateType, ServiceRestarts, stateVars
  <2>3. LoopType'
    BY <1>24 DEF TypeOK, LoopType, ServiceRestarts, loopVars, tempVars
  <2>4. BoundType'
    BY <1>24 DEF TypeOK, BoundType, ServiceRestarts, boundVars
  <2> QED
    BY <1>24, <2>1, <2>2, <2>3, <2>4 DEF TypeOK, ServiceRestarts
<1>25. ASSUME Crash PROVE TypeOK'
  <2>1. DiskType'
    BY <1>25 DEF TypeOK, DiskType, Crash, diskVars
  <2>2. StateType'
    <3>1. saved' \in [previous : MaybeVersion, cached : MaybeVersion]
      BY <1>25 DEF TypeOK, StateType, Crash, MaybeVersion
    <3>2. previous' = saved'.previous /\ cached' = saved'.cached
      BY <1>25 DEF Crash
    <3>3. tarball' = FALSE
      BY <1>25 DEF Crash
    <3> QED
      BY <3>1, <3>2, <3>3 DEF StateType
  <2>3. LoopType'
    BY <1>25 DEF TypeOK, LoopType, Crash, Phases, MaybeVersion, tempVars
  <2>4. BoundType'
    BY <1>25, AppUpdateAssumption DEF TypeOK, BoundType, Crash
  <2> QED
    BY <1>25, <2>1, <2>2, <2>3, <2>4 DEF TypeOK, Crash
<1>26. ASSUME SwitchFails PROVE TypeOK'
  <2>1. DiskType'
    BY <1>26 DEF TypeOK, DiskType, SwitchFails, diskVars
  <2>2. StateType'
    BY <1>26 DEF TypeOK, StateType, DiskType, MaybeVersion, SwitchFails, stateVars
  <2>3. LoopType'
    BY <1>26 DEF TypeOK, LoopType, Phases, MaybeVersion, SwitchFails, LinkFails, Goto, Except, tempVars
  <2>4. BoundType'
    BY <1>26, FaultType DEF TypeOK, BoundType, SwitchFails, LinkFails, boundVars
  <2> QED
    BY <1>26, <2>1, <2>2, <2>3, <2>4 DEF TypeOK, SwitchFails
<1>27. ASSUME MetadataFails PROVE TypeOK'
  <2>1. DiskType'
    BY <1>27 DEF TypeOK, DiskType, MetadataFails, diskVars
  <2>2. StateType'
    BY <1>27 DEF TypeOK, StateType, DiskType, MaybeVersion, MetadataFails, stateVars
  <2>3. LoopType'
    BY <1>27 DEF TypeOK, LoopType, Phases, MaybeVersion, MetadataFails, Goto, Except, tempVars
  <2>4. BoundType'
    BY <1>27, FaultType DEF TypeOK, BoundType, MetadataFails, boundVars
  <2> QED
    BY <1>27, <2>1, <2>2, <2>3, <2>4 DEF TypeOK, MetadataFails
<1>28. ASSUME LinkBackFails PROVE TypeOK'
  <2>1. DiskType'
    BY <1>28 DEF TypeOK, DiskType, LinkBackFails, diskVars
  <2>2. StateType'
    BY <1>28 DEF TypeOK, StateType, DiskType, MaybeVersion, LinkBackFails, stateVars
  <2>3. LoopType'
    BY <1>28 DEF TypeOK, DiskType, LoopType, Phases, MaybeVersion, LinkBackFails, LinkFails, Goto
  <2>4. BoundType'
    BY <1>28, FaultType DEF TypeOK, BoundType, LinkBackFails, LinkFails, boundVars
  <2> QED
    BY <1>28, <2>1, <2>2, <2>3, <2>4 DEF TypeOK, LinkBackFails
<1> QED
  BY <1>1, <1>2, <1>3, <1>4, <1>5, <1>6, <1>7, <1>8, <1>9, <1>10, <1>11, <1>12, <1>13, <1>14, <1>15, <1>16, <1>17, <1>18, <1>19, <1>20, <1>21, <1>22, <1>23, <1>24, <1>25, <1>26, <1>27, <1>28 DEF Next, AgentStep

\* No step takes the directory of the active release away.
LEMMA CurrentStep ==
  ASSUME IndInv, Next PROVE CurrentExists'
<1> USE DEF IndInv, CurrentExists
<1>1. CASE \/ Poll \/ UseCached \/ Download \/ DownloadFails \/ BeginApply
           \/ AlreadyExtracted \/ ExtractFails \/ InstallFails \/ Install
           \/ Restart \/ RestartFails \/ Unhealthy \/ NothingToLink
           \/ RestartBack \/ RestartBackFails \/ EndLoop \/ Postpone
           \/ SwitchFails \/ MetadataFails \/ LinkBackFails
           \/ ServiceRestarts \/ Crash \/ \E v \in Versions : RollOut(v)
  <2>1. UNCHANGED <<releases, current>>
    BY <1>1 DEF diskVars, Poll, UseCached, Download, DownloadFails, BeginApply,
       AlreadyExtracted, ExtractFails, InstallFails, Install, Restart,
       RestartFails, Unhealthy, NothingToLink, RestartBack, RestartBackFails,
       EndLoop, Postpone, ServiceRestarts, Crash, RollOut, SwitchFails,
       MetadataFails, LinkBackFails
  <2> QED
    BY <2>1
<1>2. CASE Extract
  BY <1>2 DEF Extract
<1>3. CASE Switch
  BY <1>3 DEF Switch, Goto, ExtractedIsThere
<1>4. CASE Healthy
  BY <1>4 DEF Healthy, CleanUp, Delete
<1>5. CASE LinkBack
  BY <1>5 DEF LinkBack
<1>6. CASE Discard
  BY <1>6 DEF Discard, Delete
<1> QED
  BY <1>1, <1>2, <1>3, <1>4, <1>5, <1>6 DEF Next, AgentStep

\* Steps keep what is known of the attempt under way.
LEMMA AttemptStep ==
  ASSUME IndInv, Next
  PROVE  /\ TrialCanBeUndone' /\ BeforeTheSwitch' /\ ExtractedIsThere'
         /\ OnTrial' /\ WayBack'
<1> USE DEF IndInv, CurrentExists, TrialCanBeUndone, BeforeTheSwitch, ExtractedIsThere,
        OnTrial, WayBack
<1>1. CASE Poll
  BY <1>1 DEF Poll, Goto, diskVars, stateVars
<1>2. CASE UseCached
  BY <1>2 DEF UseCached, Goto, diskVars, stateVars
<1>3. CASE Download
  BY <1>3 DEF Download, Goto, diskVars, stateVars
<1>4. CASE DownloadFails
  BY <1>4 DEF DownloadFails, Goto, diskVars, stateVars
<1>5. CASE BeginApply
  BY <1>5 DEF BeginApply, Goto, diskVars, stateVars
<1>6. CASE AlreadyExtracted
  BY <1>6 DEF AlreadyExtracted, Goto, Except, diskVars, stateVars
<1>7. CASE ExtractFails
  BY <1>7 DEF ExtractFails, Goto, Except, diskVars, stateVars
<1>8. CASE Extract
  BY <1>8 DEF Extract, Goto, diskVars, stateVars
<1>9. CASE InstallFails
  BY <1>9 DEF InstallFails, Goto, Except, diskVars, stateVars
<1>10. CASE Install
  BY <1>10 DEF Install, Goto, diskVars, stateVars
<1>11. CASE Switch
  BY <1>11 DEF Switch, Goto, diskVars, stateVars
<1>12. CASE Restart
  BY <1>12 DEF Restart, Goto, diskVars, stateVars
<1>13. CASE RestartFails
  BY <1>13 DEF RestartFails, Goto, Except, diskVars, stateVars
<1>14. CASE Healthy
  BY <1>14 DEF Healthy, Goto, CleanUp, Delete, diskVars, stateVars
<1>15. CASE Unhealthy
  BY <1>15 DEF Unhealthy, Goto, diskVars, stateVars
<1>16. CASE LinkBack
  BY <1>16 DEF LinkBack, Goto, diskVars, stateVars
<1>17. CASE NothingToLink
  BY <1>17 DEF NothingToLink, Goto, diskVars, stateVars
<1>18. CASE RestartBack
  BY <1>18 DEF RestartBack, Goto, diskVars, stateVars
<1>19. CASE RestartBackFails
  BY <1>19 DEF RestartBackFails, Goto, diskVars, stateVars
<1>20. CASE Discard
  BY <1>20 DEF Discard, Goto, Delete, diskVars, stateVars
<1>21. CASE EndLoop
  BY <1>21 DEF EndLoop, Goto, diskVars, stateVars
<1>22. CASE Postpone
  BY <1>22 DEF Postpone, Goto, diskVars, stateVars
<1>23. CASE \E v \in Versions : RollOut(v)
  BY <1>23 DEF RollOut, diskVars, stateVars, loopVars, tempVars
<1>24. CASE ServiceRestarts
  BY <1>24 DEF ServiceRestarts, diskVars, stateVars, loopVars, tempVars
<1>25. CASE Crash
  BY <1>25 DEF Crash, diskVars
<1>26. CASE SwitchFails
  BY <1>26 DEF SwitchFails, Except, diskVars
<1>27. CASE MetadataFails
  BY <1>27 DEF MetadataFails, Except, diskVars, stateVars
<1>28. CASE LinkBackFails
  BY <1>28 DEF LinkBackFails, Goto, diskVars, stateVars
<1> QED
  BY <1>1, <1>2, <1>3, <1>4, <1>5, <1>6, <1>7, <1>8, <1>9, <1>10, <1>11, <1>12, <1>13, <1>14, <1>15, <1>16, <1>17, <1>18, <1>19, <1>20, <1>21, <1>22, <1>23, <1>24, <1>25, <1>26, <1>27, <1>28 DEF Next, AgentStep

\* Only the target's directory can be one nothing has vouched for.
LEMMA UnkeptStep ==
  ASSUME IndInv, Next PROVE OnlyTargetUnkept'
<1> USE DEF IndInv, OnlyTargetUnkept
<1>1. CASE \/ UseCached \/ Download \/ DownloadFails \/ BeginApply \/ InstallFails
           \/ Install \/ Switch \/ SwitchFails \/ Restart \/ RestartFails
           \/ MetadataFails \/ Unhealthy \/ LinkBack \/ LinkBackFails
           \/ NothingToLink \/ RestartBack \/ RestartBackFails \/ Postpone
           \/ ServiceRestarts \/ AlreadyExtracted \/ ExtractFails
           \/ \E v \in Versions : RollOut(v)
  <2>1. /\ UNCHANGED <<releases, kept, target, created>>
        /\ crashes' = crashes
        /\ pc' \in {"poll", "download", "apply", "extract", "save"} =>
             pc \in {"poll", "download", "apply", "extract", "save"}
    BY <1>1 DEF diskVars, tempVars, boundVars, loopVars, Goto, Except, Fault, LinkFails,
       UseCached, Download, DownloadFails, BeginApply, InstallFails, Install,
       Switch, SwitchFails, Restart, RestartFails, MetadataFails, Unhealthy,
       LinkBack, LinkBackFails, NothingToLink, RestartBack, RestartBackFails,
       Postpone, ServiceRestarts, AlreadyExtracted, ExtractFails, RollOut
  <2> QED
    BY <2>1
<1>2. CASE Poll
  BY <1>2 DEF Poll, Goto, diskVars, tempVars, boundVars
<1>3. CASE Extract
  BY <1>3 DEF Extract, Goto, tempVars, boundVars
<1>4. CASE Healthy
  BY <1>4 DEF Healthy, Goto, CleanUp, Delete, boundVars
<1>5. CASE Discard
  BY <1>5 DEF Discard, Goto, Delete, boundVars
<1>6. CASE EndLoop
  BY <1>6 DEF EndLoop, Goto, diskVars, tempVars, boundVars
<1>7. CASE Crash
  BY <1>7 DEF Crash, TypeOK, BoundType
<1> QED
  BY <1>1, <1>2, <1>3, <1>4, <1>5, <1>6, <1>7 DEF Next, AgentStep

\* Temporary links stay, and refused releases stay active, only after a fault.
LEMMA FaultStep == ASSUME IndInv, Next PROVE LinksNeedFaults'
<1> USE DEF IndInv, LinksNeedFaults
<1>1. faults \in Nat
  BY AppUpdateAssumption DEF TypeOK, BoundType
<1>2. CASE SwitchFails \/ LinkBackFails
  <2>1. faults' \in Nat /\ faults' >= faults /\ (temps # {} \/ faults' > 0)
    BY <1>1, <1>2 DEF SwitchFails, LinkBackFails, LinkFails, Fault, boundVars
  <2> QED
    BY <1>1, <2>1
<1>3. CASE ~(SwitchFails \/ LinkBackFails)
  <2>1. temps' \in {temps, {}} /\ stranded' = stranded /\ faults' \in {faults, faults + 1}
    BY <1>3 DEF Next, AgentStep, tempVars, boundVars, Fault,
       Poll, UseCached, Download, DownloadFails, Postpone, BeginApply,
       AlreadyExtracted, ExtractFails, Extract, InstallFails, Install, Switch,
       Restart, RestartFails, Healthy, MetadataFails, Unhealthy, LinkBack,
       NothingToLink, RestartBack, RestartBackFails, Discard, EndLoop, RollOut,
       ServiceRestarts, Crash
  <2> QED
    BY <1>1, <2>1
<1> QED
  BY <1>2, <1>3

LEMMA InvStep == IndInv /\ [Next]_vars => IndInv'
<1>1. ASSUME IndInv, Next PROVE IndInv'
  BY <1>1, TypeStep, CurrentStep, AttemptStep, UnkeptStep, FaultStep DEF IndInv
<1>2. ASSUME IndInv, UNCHANGED vars PROVE IndInv'
  <2>1. TypeOK'
    BY <1>2 DEF IndInv, TypeOK, DiskType, StateType, LoopType, BoundType, vars,
       diskVars, stateVars, tempVars, loopVars, boundVars
  <2>2. /\ CurrentExists' /\ TrialCanBeUndone' /\ BeforeTheSwitch'
        /\ ExtractedIsThere' /\ OnTrial' /\ WayBack' /\ OnlyTargetUnkept'
        /\ LinksNeedFaults'
    BY <1>2 DEF IndInv, CurrentExists, TrialCanBeUndone, BeforeTheSwitch,
       ExtractedIsThere, OnTrial, WayBack, OnlyTargetUnkept, LinksNeedFaults,
       vars, diskVars, stateVars, tempVars, loopVars, boundVars
  <2> QED
    BY <2>1, <2>2 DEF IndInv
<1> QED
  BY <1>1, <1>2

THEOREM InvariantHolds == Spec => []IndInv
BY InitInv, InvStep, PTL DEF Spec

\* Types of apply_app_update's and main's variables and of the disk.
THEOREM TypeCorrect == Spec => []TypeOK
<1>1. IndInv => TypeOK
  BY DEF IndInv
<1> QED
  BY InvariantHolds, <1>1, PTL

\* The symlink current never dangles: neither cleanup_old_releases nor the
\* removal of a failed release takes the directory it names.
THEOREM CurrentAlwaysExists == Spec => []CurrentExists
<1>1. IndInv => CurrentExists
  BY DEF IndInv
<1> QED
  BY InvariantHolds, <1>1, PTL

\* Between the switch and the verdict of the health check the replaced release
\* is on the disk and is where the rollback goes.
THEOREM TrialCanAlwaysBeUndone == Spec => []TrialCanBeUndone
<1>1. IndInv => TrialCanBeUndone
  BY DEF IndInv
<1> QED
  BY InvariantHolds, <1>1, PTL

\* A release refused by run_healthcheck_suite is not what the attempt leaves, for
\* _rollback_to takes the link back; if that fails, it is that release and no
\* other, and some step has failed.
THEOREM RefusedIsAlwaysUndone == Spec => []RefusedIsUndone
<1>1. IndInv => RefusedIsUndone
  BY DEF IndInv, WayBack, LinksNeedFaults, RefusedIsUndone
<1> QED
  BY InvariantHolds, <1>1, PTL

\* Failed attempts leave no directory behind: while the agent lives, what is
\* under releases/ passed its health check or was left active.
THEOREM OnlyKeptReleasesRemain == Spec => []OnlyKeptRemain
<1>1. IndInv => OnlyKeptRemain
  BY DEF IndInv, OnlyTargetUnkept, OnlyKeptRemain
<1> QED
  BY InvariantHolds, <1>1, PTL

-----------------------------------------------------------------------------
(* Releases are switched as GuardedSwitch promises.                        *)

\* On the way back from a trial the release before is still there, and it is
\* the one the rollback will take.
WayBackIsOpen == OnTheWayBack => previous = before /\ before \in releases

LEMMA WayBackStep ==
  ASSUME IndInv, WayBackIsOpen, Next PROVE WayBackIsOpen'
<1> USE DEF IndInv, WayBackIsOpen, OnTheWayBack
<1>1. ASSUME pc' # "rollback" PROVE WayBackIsOpen'
  BY <1>1
<1>2. CASE \/ AlreadyExtracted \/ ExtractFails \/ InstallFails \/ SwitchFails
  BY <1>2
     DEF AlreadyExtracted, ExtractFails, InstallFails, SwitchFails, BeforeTheSwitch,
         diskVars
<1>3. CASE RestartFails \/ MetadataFails \/ Unhealthy
  BY <1>3
     DEF RestartFails, MetadataFails, Unhealthy, Goto, TrialCanBeUndone, diskVars,
         stateVars
<1>4. CASE ServiceRestarts \/ \E v \in Versions : RollOut(v)
  BY <1>4 DEF ServiceRestarts, RollOut, diskVars, stateVars, loopVars
<1>5. CASE \/ Poll \/ UseCached \/ Download \/ DownloadFails \/ BeginApply \/ Postpone
           \/ Extract \/ Install \/ Switch \/ Restart \/ Healthy
           \/ LinkBack \/ LinkBackFails \/ NothingToLink
           \/ RestartBack \/ RestartBackFails \/ Discard \/ EndLoop \/ Crash
  BY <1>1, <1>5
     DEF Poll, UseCached, Download, DownloadFails, BeginApply, Postpone, Extract,
         Install, Switch, Restart, Healthy, LinkBack, LinkBackFails, NothingToLink,
         RestartBack, RestartBackFails, Discard, EndLoop, Crash, Goto
<1> QED
  BY <1>2, <1>3, <1>4, <1>5 DEF Next, AgentStep

LEMMA WayBackHolds == Spec => []WayBackIsOpen
<1>1. Init => WayBackIsOpen
  BY DEF Init, WayBackIsOpen, OnTheWayBack
<1>2. IndInv /\ WayBackIsOpen /\ [Next]_vars => WayBackIsOpen'
  <2>1. WayBackIsOpen /\ UNCHANGED vars => WayBackIsOpen'
    BY DEF WayBackIsOpen, OnTheWayBack, vars, diskVars, stateVars, loopVars
  <2> QED
    BY <2>1, WayBackStep
<1> QED
  BY InvariantHolds, <1>1, <1>2, PTL DEF Spec

\* The release a trial falls back to.
Fallback == IF pc \in {"restart", "health"} \/ OnTheWayBack THEN {before} ELSE {}

LEMMA StepRefines ==
  ASSUME IndInv, WayBackIsOpen, Next PROVE [Abstract!Next]_(Abstract!switchVars)
<1> USE DEF IndInv, Fallback, OnTheWayBack, Abstract!switchVars
<1>1. /\ releases \subseteq Versions /\ current \in Versions /\ before \in Versions
      /\ previous \in MaybeVersion /\ CurrentExists
      /\ pc # "poll" => target \in Versions
  BY DEF TypeOK, DiskType, StateType, LoopType
<1>2. ASSUME UNCHANGED <<releases, current, Fallback>>
      PROVE  UNCHANGED Abstract!switchVars
  BY <1>2
<1>3. CASE \/ Poll \/ UseCached \/ Download \/ DownloadFails \/ BeginApply \/ Postpone
           \/ Install \/ Restart \/ RestartBack \/ RestartBackFails \/ EndLoop
  <2>1. /\ UNCHANGED <<releases, current>>
        /\ UNCHANGED before \/ pc' \notin {"restart", "health", "rollback"}
        /\ \/ {pc, pc'} \subseteq {"restart", "health"}
           \/ {pc, pc'} \cap {"restart", "health", "rollback"} = {}
    BY <1>3
       DEF Poll, UseCached, Download, DownloadFails, BeginApply, Postpone, Install,
           Restart, RestartBack, RestartBackFails, EndLoop, Goto, diskVars
  <2>2. UNCHANGED before \/ {pc, pc'} \cap {"restart", "health", "rollback"} = {}
    BY <2>1
  <2>3. UNCHANGED Fallback
    BY <2>1, <2>2
  <2> QED
    BY <1>2, <2>1, <2>3
<1>4. CASE ServiceRestarts \/ \E v \in Versions : RollOut(v)
  BY <1>2, <1>4 DEF ServiceRestarts, RollOut, diskVars, loopVars
<1>5. CASE AlreadyExtracted \/ ExtractFails \/ InstallFails \/ SwitchFails
  BY <1>2, <1>5
     DEF AlreadyExtracted, ExtractFails, InstallFails, SwitchFails, Except,
         BeforeTheSwitch, diskVars
<1>6. ASSUME UNCHANGED <<releases, current>>, Fallback' = {}
      PROVE  [Abstract!Next]_(Abstract!switchVars)
  <2>1. Abstract!Settle({})
    BY <1>6 DEF Abstract!Settle
  <2> QED
    BY <2>1 DEF Abstract!Next
<1>7. ASSUME UNCHANGED <<releases, current, before>>, pc \in {"restart", "health"},
             pc' = "rollback"
      PROVE  [Abstract!Next]_(Abstract!switchVars)
  <2>1. CASE current # before
    <3>1. UNCHANGED Fallback
      BY <1>7, <2>1
    <3> QED
      BY <1>2, <1>7, <3>1
  <2>2. CASE current = before
    <3>1. Fallback' = {}
      BY <1>7, <2>2
    <3> QED
      BY <1>6, <1>7, <3>1
  <2> QED
    BY <2>1, <2>2
<1>8. CASE RestartFails \/ MetadataFails \/ Unhealthy
  BY <1>7, <1>8 DEF RestartFails, MetadataFails, Unhealthy, Except, Goto, diskVars
<1>9. CASE NothingToLink \/ LinkBackFails
  BY <1>6, <1>9 DEF NothingToLink, LinkBackFails, Goto, diskVars
<1>10. CASE Crash
  BY <1>6, <1>10 DEF Crash, diskVars
<1>11. CASE Extract
  <2>1. releases' = releases \cup {target} /\ {target} \in SUBSET Versions
    BY <1>1, <1>11 DEF Extract, Goto
  <2>2. UNCHANGED <<current, Fallback>>
    BY <1>11 DEF Extract, Goto
  <2>3. Abstract!Bring({target})
    BY <2>1, <2>2 DEF Abstract!Bring
  <2> QED
    BY <2>1, <2>3 DEF Abstract!Next
<1>12. CASE Switch
  <2>1. /\ target \in releases \ {current} /\ before = current
        /\ current' = target /\ UNCHANGED <<releases, before>>
        /\ pc = "switch" /\ pc' = "restart"
    BY <1>12 DEF Switch, Goto, ExtractedIsThere, BeforeTheSwitch
  <2>2. Fallback = {} /\ Fallback' = {current}
    BY <2>1
  <2>3. Abstract!Try(target)
    BY <2>1, <2>2 DEF Abstract!Try
  <2> QED
    BY <1>1, <2>1, <2>3 DEF Abstract!Next
<1>13. CASE Healthy
  <2> DEFINE S == Old \ {current}
  <2>1. releases' = releases \ S /\ UNCHANGED current
    BY <1>13 DEF Healthy, CleanUp, Delete
  <2>2. Fallback' = {}
    BY <1>13 DEF Healthy, Goto
  <2>3. S \in SUBSET Versions /\ current \notin S
    BY <1>1 DEF Old
  <2>4. Abstract!Settle(S)
    BY <2>1, <2>2, <2>3 DEF Abstract!Settle
  <2> QED
    BY <2>3, <2>4 DEF Abstract!Next
<1>14. CASE LinkBack
  <2>1. /\ pc = "rollback" /\ pc' = "restart_back"
        /\ current' = previous /\ previous \in releases /\ UNCHANGED releases
    BY <1>14 DEF LinkBack, Goto
  <2>2. Fallback' = {}
    BY <2>1
  <2>3. CASE current = before
    <3>1. Fallback = {}
      BY <2>1, <2>3
    <3>2. Abstract!Relapse(previous)
      BY <2>1, <2>2, <3>1 DEF Abstract!Relapse
    <3> QED
      BY <1>1, <2>1, <3>2 DEF Abstract!Next
  <2>4. CASE current # before
    <3>1. Fallback = {previous}
      BY <2>1, <2>4 DEF WayBackIsOpen
    <3>2. Abstract!Undo
      BY <2>1, <2>2, <3>1 DEF Abstract!Undo
    <3> QED
      BY <3>2 DEF Abstract!Next
  <2> QED
    BY <2>3, <2>4
<1>15. CASE Discard
  <2> DEFINE S == IF created /\ current # target THEN {target} ELSE {}
  <2>1. releases' = releases \ S /\ UNCHANGED current
    BY <1>15 DEF Discard, Delete
  <2>2. Fallback = {} /\ Fallback' = {}
    BY <1>15 DEF Discard, Goto
  <2>3. S \in SUBSET Versions /\ S \cap ({current} \cup Fallback) = {}
    BY <1>1, <1>15, <2>2 DEF Discard, Goto
  <2>4. Abstract!Remove(S)
    BY <2>1, <2>2, <2>3 DEF Abstract!Remove
  <2> QED
    BY <2>3, <2>4 DEF Abstract!Next
<1> QED
  BY <1>2, <1>3, <1>4, <1>5, <1>8, <1>9, <1>10, <1>11, <1>12, <1>13, <1>14, <1>15
     DEF Next, AgentStep

\* The release before the one on trial stays on the disk until the verdict, and
\* the trial ends with one of the two.  (greenmind_agent.py:557-760)
THEOREM ImplementsGuardedSwitch == Spec => Implements
<1>1. Init => Abstract!Init
  BY AppUpdateAssumption DEF Init, Abstract!Init, OnTheWayBack
<1>2. IndInv /\ WayBackIsOpen /\ [Next]_vars => [Abstract!Next]_(Abstract!switchVars)
  <2>1. UNCHANGED vars => UNCHANGED Abstract!switchVars
    BY DEF vars, diskVars, loopVars, Abstract!switchVars, OnTheWayBack
  <2> QED
    BY <2>1, StepRefines
<1> QED
  BY InvariantHolds, WayBackHolds, <1>1, <1>2, PTL DEF Spec, Implements, Abstract!Spec
=============================================================================
