------------------------ MODULE FirmwareCacheProofs ------------------------
(***************************************************************************)
(* What FirmwareCache guarantees for any releases, images, sensors and      *)
(* bounds.  RecordedIsWhole is not inductive: that a recorded file is not   *)
(* truncated rests on the list, the row and the cloud agreeing on its hash. *)
(***************************************************************************)
EXTENDS FirmwareCache, TLAPS

-----------------------------------------------------------------------------
(* Types.                                                                   *)

\* The initial state is well typed.
LEMMA InitTypeOK == Init => TypeOK
BY ImagesAssumption, BoundsAssumption, ReleasesAssumption
   DEF Init, TypeOK, Releases, Versions, NoOffer, Offers

\* Every step keeps every variable in its type, an offer at every sensor that
\* is not idle, and a target just while a file is written.
LEMMA NextTypeOK == TypeOK /\ [Next]_vars => TypeOK'
<1> SUFFICES ASSUME TypeOK, [Next]_vars PROVE TypeOK'
  OBVIOUS
<1> USE ImagesAssumption, BoundsAssumption, ReleasesAssumption
    DEF TypeOK, Releases, Versions, NoOffer, Offers
<1>1. ASSUME NEW r \in Releases, Publish(r) PROVE TypeOK'
  BY <1>1 DEF Publish, worker, disk, sensor
<1>2. ASSUME NEW r \in Releases, Withdraw(r) PROVE TypeOK'
  BY <1>2 DEF Withdraw, worker, disk, sensor
<1>3. ASSUME NEW r \in Releases, Reissue(r) PROVE TypeOK'
  BY <1>3 DEF Reissue, worker, disk, sensor
<1>4. CASE Sync
  BY <1>4 DEF Sync, cloud, disk, sensor
<1>5. CASE EndRound
  BY <1>5 DEF EndRound, cloud, disk, sensor
<1>6. CASE Written
  <2>1. target \in Releases
    BY <1>6 DEF Written
  <2>2. /\ row' \in [Releases -> Images \union {NoImage}]
        /\ file' \in [Releases -> Images \union {NoImage, Torn}]
    <3>1. sha[target] \in Images
      BY <2>1
    <3>2. CASE binary[target] = sha[target]
      BY <1>6, <2>1, <3>1, <3>2 DEF Written, Save
    <3>3. CASE binary[target] # sha[target]
      BY <1>6, <2>1, <3>3 DEF Written
    <3> QED
      BY <3>2, <3>3
  <2>3. place' = "next" /\ todo' \subseteq Releases /\ target' = 0
    BY <1>6 DEF Written, Proceed
  <2> QED
    BY <1>6, <2>2, <2>3 DEF Written, cloud, sensor
<1>7. ASSUME NEW r \in Releases, Cached(r) PROVE TypeOK'
  BY <1>7 DEF Cached, Proceed, Save, cloud, sensor
<1>8. ASSUME NEW r \in Releases, Open(r) PROVE TypeOK'
  BY <1>8 DEF Open, cloud
<1>9. ASSUME NEW r \in Releases, CachedFails(r) PROVE TypeOK'
  BY <1>9 DEF CachedFails, Fault, cloud, disk, sensor
<1>10. ASSUME NEW r \in Releases, RequestFails(r) PROVE TypeOK'
  BY <1>10 DEF RequestFails, Proceed, Fault, cloud, disk, sensor
<1>11. ASSUME NEW r \in Releases, Flush(r) PROVE TypeOK'
  BY <1>11 DEF Flush, cloud, worker, sensor
<1>12. CASE WriteFails
  BY <1>12 DEF WriteFails, Proceed, Fault, cloud, disk, sensor
<1>13. CASE SaveFails
  BY <1>13 DEF SaveFails, Proceed, Fault, cloud, sensor
<1>14. ASSUME NEW s \in Sensors, Check(s) PROVE TypeOK'
  BY <1>14 DEF Check, Applicable, cloud, worker, disk
<1>15. ASSUME NEW s \in Sensors, Download(s) PROVE TypeOK'
  <2>1. offer[s] \in Offers
    BY <1>15 DEF Download
  <2>2. CASE file[offer[s].release] = NoImage
    BY <1>15, <2>2 DEF Download, Quit, cloud, worker, disk
  <2>3. CASE file[offer[s].release] # NoImage
    <3>1. offer[s].release \in Releases
      BY <2>1
    <3>2. /\ at' = [at EXCEPT ![s] = "reading"]
          /\ got' = [got EXCEPT ![s] = file[offer[s].release]]
          /\ offer' = offer /\ offer[s] # NoOffer
      BY <1>15, <2>3 DEF Download
    <3>3. /\ got' \in [Sensors -> Images \union {NoImage, Torn}]
          /\ at' \in [Sensors -> {"idle", "offered", "reading"}]
          /\ \A x \in Sensors : at'[x] = "idle" <=> offer'[x] = NoOffer
      BY <3>1, <3>2
    <3> QED
      BY <1>15, <3>2, <3>3 DEF Download, cloud, worker, disk
  <2> QED
    BY <2>2, <2>3
<1>16. ASSUME NEW s \in Sensors, Install(s) PROVE TypeOK'
  BY <1>16 DEF Install, Quit, cloud, worker, disk
<1>17. CASE Crash
  BY <1>17 DEF Crash, Restarts, Fault, cloud, disk
<1>18. CASE PowerLoss
  BY <1>18 DEF PowerLoss, Restarts, Fault, cloud
<1>19. CASE UNCHANGED vars
  BY <1>19 DEF vars, cloud, worker, disk, sensor
<1> QED
  BY <1>1, <1>2, <1>3, <1>4, <1>5, <1>6, <1>7, <1>8, <1>9, <1>10, <1>11,
     <1>12, <1>13, <1>14, <1>15, <1>16, <1>17, <1>18, <1>19
  DEF Next, Work, SensorStep

\* Type correctness of the cache and of everyone who uses it.
THEOREM TypeCorrect == Spec => []TypeOK
BY InitTypeOK, NextTypeOK, PTL DEF Spec

-----------------------------------------------------------------------------
(* Recorded files.                                                          *)

\* Of a release whose binary the cloud never replaced, the list of the round
\* and the row name the hash of that binary.
HashesAgree ==
    \A r \in Releases \ reissued :
        sha[r] = binary[r] /\ row[r] \in {NoImage, binary[r]}

IndInv == TypeOK /\ HashesAgree /\ RecordedIsWhole

\* The strengthened invariant holds at the start.
LEMMA InitIndInv == Init => IndInv
BY InitTypeOK DEF Init, IndInv, HashesAgree, RecordedIsWhole

\* A step that leaves the worker's list, the cloud's binaries, the rows and
\* the files alone keeps the invariant.
LEMMA Frame ==
    ASSUME IndInv, TypeOK',
           UNCHANGED <<binary, reissued, sha, row, file, powerLost>>
    PROVE  IndInv'
BY DEF IndInv, HashesAgree, RecordedIsWhole

\* Every step preserves it: in particular a file is only truncated when no row
\* names its hash.
LEMMA NextIndInv == IndInv /\ [Next]_vars => IndInv'
<1> SUFFICES ASSUME IndInv, [Next]_vars PROVE IndInv'
  OBVIOUS
<1>0. TypeOK /\ TypeOK'
  BY NextTypeOK DEF IndInv
<1>1. ASSUME NEW r \in Releases, Publish(r) \/ Withdraw(r) PROVE IndInv'
  BY <1>0, <1>1, Frame DEF Publish, Withdraw, worker, disk
<1>2. ASSUME NEW r \in Releases, Reissue(r) PROVE IndInv'
  BY <1>0, <1>2
  DEF Reissue, worker, disk, IndInv, HashesAgree, RecordedIsWhole, TypeOK
<1>3. CASE Sync
  BY <1>0, <1>3
  DEF Sync, cloud, disk, IndInv, HashesAgree, RecordedIsWhole
<1>4. CASE EndRound
  BY <1>0, <1>4, Frame DEF EndRound, cloud, disk
<1>5. ASSUME NEW r \in Releases, Cached(r) PROVE IndInv'
  BY <1>0, <1>5
  DEF Cached, Save, cloud, IndInv, HashesAgree, RecordedIsWhole, TypeOK
<1>6. ASSUME NEW r \in Releases, Open(r) PROVE IndInv'
  <2>1. r \notin reissued \union powerLost => row[r] = NoImage
    BY <1>6 DEF Open, IndInv, HashesAgree, RecordedIsWhole
  <2>2. HashesAgree'
    BY <1>6 DEF Open, cloud, IndInv, HashesAgree
  <2>3. RecordedIsWhole'
    BY <1>0, <1>6, <2>1 DEF Open, cloud, IndInv, RecordedIsWhole, TypeOK
  <2> QED
    BY <1>0, <2>2, <2>3 DEF IndInv
<1>7. CASE Written
  <2>1. target \in Releases
    BY <1>0, <1>7 DEF Written, TypeOK, Versions, Releases
  <2>2. CASE binary[target] = sha[target]
    BY <1>0, <1>7, <2>1, <2>2
    DEF Written, Save, cloud, IndInv, HashesAgree, RecordedIsWhole, TypeOK
  <2>3. CASE binary[target] # sha[target]
    <3>1. target \in reissued
      BY <2>1, <2>3 DEF IndInv, HashesAgree
    <3> QED
      BY <1>0, <1>7, <2>1, <2>3, <3>1
      DEF Written, cloud, IndInv, HashesAgree, RecordedIsWhole, TypeOK
  <2> QED
    BY <2>2, <2>3
<1>8. ASSUME NEW r \in Releases, CachedFails(r) \/ RequestFails(r) \/ Flush(r)
      PROVE IndInv'
  BY <1>0, <1>8, Frame
  DEF CachedFails, RequestFails, Flush, cloud, disk, worker
<1>9. CASE WriteFails
  BY <1>0, <1>9, Frame DEF WriteFails, cloud, disk
<1>10. CASE SaveFails
  BY <1>0, <1>10
  DEF SaveFails, cloud, IndInv, HashesAgree, RecordedIsWhole, TypeOK
<1>11. ASSUME NEW s \in Sensors, SensorStep(s) PROVE IndInv'
  BY <1>0, <1>11, Frame
  DEF SensorStep, Check, Download, Install, cloud, worker, disk
<1>12. CASE Crash
  BY <1>0, <1>12, Frame DEF Crash, cloud, disk
<1>13. CASE PowerLoss
  BY <1>0, <1>13
  DEF PowerLoss, cloud, IndInv, HashesAgree, RecordedIsWhole, TypeOK
<1>14. CASE UNCHANGED vars
  BY <1>0, <1>14, Frame DEF vars, cloud, worker, disk
<1> QED
  BY <1>1, <1>2, <1>3, <1>4, <1>5, <1>6, <1>7, <1>8, <1>9, <1>10, <1>11,
     <1>12, <1>13, <1>14
  DEF Next, Work

\* What a sensor may be offered is whole on the disk, unless the cloud
\* replaced the binary or the power went before it was written back.
THEOREM RecordedIsAlwaysWhole == Spec => []RecordedIsWhole
<1>1. IndInv => RecordedIsWhole
  BY DEF IndInv
<1> QED
  BY <1>1, InitIndInv, NextIndInv, PTL DEF Spec
=============================================================================
