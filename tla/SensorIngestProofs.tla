------------------------- MODULE SensorIngestProofs -------------------------
(***************************************************************************)
(* Proofs about SensorIngest, for any number of sensors and connections    *)
(* and any values of the bounds.                                           *)
(***************************************************************************)
EXTENDS SensorIngest, TLAPS

LEMMA BoundsAreNat == MaxBoot \in Nat /\ MaxSeq \in Nat \ {0} /\ MaxFaults \in Nat
BY SensorIngestAssumption

LEMMA InitType == Init => TypeOK
<1> SUFFICES ASSUME Init PROVE TypeOK
  OBVIOUS
<1>1. SensorType
  BY BoundsAreNat DEF Init, SensorType, Boots
<1>2. HandlerType
  BY DEF Init, HandlerType
<1>3. WavType
  BY DEF Init, WavType
<1>4. DbType
  <2>1. -1 \in -1 .. MaxSeq - 1
    BY BoundsAreNat
  <2>2. lastSeq \in [Sensors -> [Boots -> -1 .. MaxSeq - 1]]
    BY <2>1, Zenon DEF Init
  <2>3. lastHash \in [Sensors -> [Boots -> Payloads \cup {NoPayload}]]
    BY Zenon DEF Init
  <2>4. jobs \in Seq(Packet)
    BY DEF Init
  <2>5. rowGone \in BOOLEAN
    BY DEF Init
  <2> QED
    BY <2>2, <2>3, <2>4, <2>5 DEF DbType
<1>5. faults \in 0 .. MaxFaults
  BY BoundsAreNat DEF Init
<1> QED
  BY <1>1, <1>2, <1>3, <1>4, <1>5 DEF TypeOK

\* The four ways a handler's variables change keep their types.
LEMMA HangupType ==
  ASSUME HandlerType, NEW c \in Conns, Hangup(c) PROVE HandlerType'
BY DEF HandlerType, Hangup

LEMMA GotoType ==
  ASSUME HandlerType, NEW c \in Conns, pc[c] # "idle", NEW to \in Held, Goto(c, to)
  PROVE  HandlerType'
BY DEF HandlerType, Goto, Held

LEMMA FinishType ==
  ASSUME HandlerType, NEW c \in Conns, pc[c] # "idle",
         NEW code \in {200, 409, 500, 503, 507}, Finish(c, code)
  PROVE  HandlerType'
BY DEF HandlerType, Finish

LEMMA BusyCarriesPacket ==
  ASSUME TypeOK, NEW c \in Conns, pc[c] # "idle"
  PROVE  /\ msg[c] \in Packet /\ msg[c].sensor \in Sensors
         /\ msg[c].boot \in Boots /\ msg[c].seq \in Seqs /\ msg[c].payload \in Payloads
BY DEF TypeOK, HandlerType, Packet

LEMMA FaultType ==
  ASSUME TypeOK, Fault PROVE (faults \in 0 .. MaxFaults)'
BY BoundsAreNat DEF TypeOK, Fault

LEMMA CellType ==
  ASSUME NEW V, NEW f \in [Sensors -> [Boots -> V]],
         NEW s \in Sensors, NEW b \in Boots, NEW v \in V
  PROVE  [f EXCEPT ![s][b] = v] \in [Sensors -> [Boots -> V]]
OBVIOUS

LEMMA UnchangedType ==
  /\ SensorType /\ UNCHANGED sensorVars => SensorType'
  /\ HandlerType /\ UNCHANGED handlerVars => HandlerType'
  /\ WavType /\ UNCHANGED wavVars => WavType'
  /\ DbType /\ UNCHANGED dbVars => DbType'
<1>1. SensorType /\ UNCHANGED sensorVars => SensorType'
  BY DEF SensorType, sensorVars
<1>2. HandlerType /\ UNCHANGED handlerVars => HandlerType'
  BY DEF HandlerType, handlerVars
<1>3. WavType /\ UNCHANGED wavVars => WavType'
  BY DEF WavType, wavVars
<1>4. DbType /\ UNCHANGED dbVars => DbType'
  BY DEF DbType, dbVars, cursorVars
<1> QED
  BY <1>1, <1>2, <1>3, <1>4

LEMMA NextType == TypeOK /\ [Next]_vars => TypeOK'
<1> SUFFICES ASSUME TypeOK, [Next]_vars PROVE TypeOK'
  OBVIOUS
<1>0. SensorType /\ HandlerType /\ WavType /\ DbType /\ faults \in 0 .. MaxFaults
  BY DEF TypeOK
<1>1. ASSUME NEW s \in Sensors, Timeout(s) PROVE TypeOK'
  <2>1. SensorType'
    BY <1>0, <1>1 DEF Timeout, SensorType
  <2> QED
    BY <1>0, <1>1, <2>1, FaultType, UnchangedType DEF Timeout, TypeOK
<1>2. ASSUME NEW s \in Sensors, SensorReboot(s) PROVE TypeOK'
  <2>1. boot[s] + 1 \in Boots
    BY <1>0, <1>2, BoundsAreNat DEF SensorReboot, SensorType, Boots
  <2>2. SensorType'
    BY <1>0, <1>2, <2>1 DEF SensorReboot, SensorType
  <2> QED
    BY <1>0, <1>2, <2>2, UnchangedType DEF SensorReboot, TypeOK
<1>3. ASSUME NEW s \in Sensors, NEW c \in Conns, Send(s, c) PROVE TypeOK'
  <2>1. PICK p \in Payloads : msg' = [msg EXCEPT ![c] = Pending(s, p)]
    BY <1>3 DEF Send
  <2>2. Pending(s, p) \in Packet
    BY <1>0, <1>3, BoundsAreNat DEF Pending, Packet, Send, SensorType, Seqs
  <2>3. HandlerType'
    BY <1>0, <1>3, <2>1, <2>2, NoPacketAssumption DEF Send, HandlerType
  <2>4. SensorType'
    BY <1>0, <1>3 DEF Send, SensorType
  <2> QED
    BY <1>0, <1>3, <2>3, <2>4, UnchangedType DEF Send, TypeOK
<1>4. ASSUME NEW c \in Conns, DropRequest(c) PROVE TypeOK'
  <2>1. SensorType'
    BY <1>0, <1>4 DEF DropRequest, StopListening, SensorType
  <2> QED
    BY <1>0, <1>4, <2>1, HangupType, FaultType, UnchangedType DEF DropRequest, TypeOK
<1>5. ASSUME NEW c \in Conns, Deliver(c) PROVE TypeOK'
  <2>1. msg[c] \in Packet
    BY <1>5, BusyCarriesPacket DEF Deliver
  <2>2. SensorType'
    BY <1>0, <1>5, <2>1 DEF Deliver, StopListening, SensorType, Packet
  <2> QED
    BY <1>0, <1>5, <2>2, HangupType, UnchangedType DEF Deliver, TypeOK
<1>6. ASSUME NEW c \in Conns, Admit(c) PROVE TypeOK'
  <2>1. HandlerType'
    BY <1>0, <1>6 DEF Admit, Acquire, HandlerType, Held
  <2> QED
    BY <1>0, <1>6, <2>1, UnchangedType DEF Admit, TypeOK
<1>7. ASSUME NEW c \in Conns, AckDuplicate(c) \/ RejectConflict(c) PROVE TypeOK'
  BY <1>0, <1>7, FinishType, UnchangedType
  DEF AckDuplicate, RejectConflict, Acquire, TypeOK
<1>8. ASSUME NEW c \in Conns,
             LookupFails(c) \/ RefuseStorage(c) \/ FlushFails(c) \/ CommitFails(c)
      PROVE TypeOK'
  <2>1. /\ Fault /\ pc[c] # "idle"
        /\ UNCHANGED <<sensorVars, wavVars, dbVars>>
        /\ \E code \in {200, 409, 500, 503, 507} : Finish(c, code)
    BY <1>8 DEF LookupFails, RefuseStorage, FlushFails, CommitFails, Acquire
  <2> QED
    BY <1>0, <2>1, FinishType, FaultType, UnchangedType DEF TypeOK
<1>9. ASSUME NEW c \in Conns, WriteFrames(c) PROVE TypeOK'
  <2>1. msg[c] \in Packet /\ msg[c].sensor \in Sensors
    BY <1>9, BusyCarriesPacket DEF WriteFrames
  <2>2. wav' \in [Sensors -> Seq(Packet)]
    BY <1>0, <1>9, <2>1 DEF WriteFrames, WavType
  <2>3. \A s \in Sensors : Len(wav[s]) <= Len(wav'[s])
    BY <1>0, <1>9, <2>1 DEF WriteFrames, WavType
  <2>4. WavType'
    BY <1>0, <1>9, <2>2, <2>3 DEF WriteFrames, WavType
  <2>5. HandlerType'
    BY <1>0, <1>9, GotoType DEF WriteFrames, Held
  <2> QED
    BY <1>0, <1>9, <2>4, <2>5, UnchangedType DEF WriteFrames, TypeOK
<1>10. ASSUME NEW c \in Conns, FlushBatch(c) PROVE TypeOK'
  <2>1. msg[c].sensor \in Sensors
    BY <1>10, BusyCarriesPacket DEF FlushBatch
  <2>2. WavType'
    BY <1>0, <1>10, <2>1 DEF FlushBatch, WavType
  <2>3. HandlerType'
    BY <1>0, <1>10, GotoType DEF FlushBatch, Held
  <2> QED
    BY <1>0, <1>10, <2>2, <2>3, UnchangedType DEF FlushBatch, TypeOK
<1>11. ASSUME NEW c \in Conns, Commit(c) PROVE TypeOK'
  <2>1. msg[c] \in Packet
    BY <1>11, BusyCarriesPacket DEF Commit
  <2>2. jobs' \in Seq(Packet)
    BY <1>0, <1>11, <2>1 DEF Commit, DbType
  <2>3. /\ lastSeq' \in [Sensors -> [Boots -> -1 .. MaxSeq - 1]]
        /\ lastHash' \in [Sensors -> [Boots -> Payloads \cup {NoPayload}]]
    <3>1. /\ msg[c].sensor \in Sensors /\ msg[c].boot \in Boots
          /\ msg[c].seq \in -1 .. MaxSeq - 1 /\ msg[c].payload \in Payloads
      BY <2>1, BoundsAreNat DEF Packet, Seqs
    <3>2. CASE Identified(msg[c])
      <4>1. /\ lastSeq'  = [lastSeq EXCEPT ![msg[c].sensor][msg[c].boot] = msg[c].seq]
            /\ lastHash' = [lastHash EXCEPT ![msg[c].sensor][msg[c].boot] = msg[c].payload]
        BY <1>11, <3>2 DEF Commit, AdvanceCursor
      <4>2. lastSeq' \in [Sensors -> [Boots -> -1 .. MaxSeq - 1]]
        BY <1>0, <3>1, <4>1, CellType DEF DbType
      <4>3. lastHash' \in [Sensors -> [Boots -> Payloads \cup {NoPayload}]]
        BY <1>0, <3>1, <4>1, CellType DEF DbType
      <4> QED
        BY <4>2, <4>3
    <3>3. CASE ~Identified(msg[c])
      BY <1>0, <1>11, <3>3 DEF Commit, AdvanceCursor, DbType, cursorVars
    <3> QED
      BY <3>2, <3>3
  <2>4. DbType'
    BY <1>0, <1>11, <2>2, <2>3 DEF Commit, DbType
  <2>5. HandlerType'
    BY <1>0, <1>11, GotoType DEF Commit, Held
  <2> QED
    BY <1>0, <1>11, <2>4, <2>5, UnchangedType DEF Commit, TypeOK
<1>12. ASSUME NEW c \in Conns, Refresh(c) PROVE TypeOK'
  <2>1. HandlerType'
    BY <1>0, <1>12, FinishType DEF Refresh
  <2>2. DbType'
    BY <1>0, <1>12, Zenon DEF Refresh, DbType, cursorVars
  <2> QED
    BY <1>0, <1>12, <2>1, <2>2, UnchangedType DEF Refresh, TypeOK
<1>13. ASSUME DrainRow PROVE TypeOK'
  <2>1. DbType'
    BY <1>0, <1>13, Zenon DEF DrainRow, DbType, cursorVars
  <2> QED
    BY <1>0, <1>13, <2>1, FaultType, UnchangedType DEF DrainRow, TypeOK
<1>14. ASSUME Crash PROVE TypeOK'
  <2>1. SensorType'
    BY <1>0, <1>14 DEF Crash, SensorType
  <2>2. HandlerType'
    BY <1>14 DEF Crash, HandlerType
  <2>3. DbType'
    BY <1>0, <1>14, Zenon DEF Crash, DbType, cursorVars
  <2>4. PICK kept \in Surviving :
          /\ wav' = [s \in Sensors |-> SubSeq(wav[s], 1, kept[s])]
          /\ synced' = kept
    BY <1>14 DEF Crash
  <2>5. \A s \in Sensors : /\ kept[s] \in Nat /\ kept[s] <= Len(wav[s])
    BY <1>0 DEF Surviving, WavType
  <2>6. kept \in [Sensors -> Nat]
    BY <2>5 DEF Surviving
  <2>7. \A s \in Sensors : /\ SubSeq(wav[s], 1, kept[s]) \in Seq(Packet)
                            /\ Len(SubSeq(wav[s], 1, kept[s])) = kept[s]
    BY <1>0, <2>5 DEF WavType
  <2>8. WavType'
    BY <2>4, <2>6, <2>7 DEF WavType
  <2> QED
    BY <1>0, <1>14, <2>1, <2>2, <2>3, <2>8, FaultType DEF Crash, TypeOK
<1>15. CASE UNCHANGED vars
  BY <1>0, <1>15, UnchangedType DEF vars, TypeOK
<1> QED
  BY <1>1, <1>2, <1>3, <1>4, <1>5, <1>6, <1>7, <1>8, <1>9, <1>10, <1>11, <1>12,
     <1>13, <1>14, <1>15
  DEF Next, HandlerStep

(* The type invariant holds for every fleet and every bound.               *)
THEOREM TypeCorrect == Spec => []TypeOK
BY InitType, NextType, PTL DEF Spec

-----------------------------------------------------------------------------
(* Which actions write which variables. *)

LEMMA WavWriters ==
  [Next]_vars => UNCHANGED wav \/ Crash \/ \E c \in Conns : WriteFrames(c)
BY DEF Next, HandlerStep, vars, Timeout, SensorReboot, Send, DropRequest, Deliver,
       Admit, AckDuplicate, RejectConflict, LookupFails, RefuseStorage, FlushBatch,
       FlushFails, Commit, CommitFails, Refresh, DrainRow, wavVars

LEMMA SyncedWriters ==
  [Next]_vars => UNCHANGED synced \/ Crash \/ \E c \in Conns : FlushBatch(c)
BY DEF Next, HandlerStep, vars, Timeout, SensorReboot, Send, DropRequest, Deliver,
       Admit, AckDuplicate, RejectConflict, LookupFails, RefuseStorage, WriteFrames,
       FlushFails, Commit, CommitFails, Refresh, DrainRow, wavVars

LEMMA JobsWriters ==
  [Next]_vars => UNCHANGED <<jobs, lastSeq, lastHash>> \/ \E c \in Conns : Commit(c)
BY DEF Next, HandlerStep, vars, Timeout, SensorReboot, Send, DropRequest, Deliver,
       Admit, AckDuplicate, RejectConflict, LookupFails, RefuseStorage, WriteFrames,
       FlushBatch, FlushFails, CommitFails, Refresh, DrainRow, Crash, dbVars, cursorVars

LEMMA TopWriters ==
  [Next]_vars =>
    \/ UNCHANGED <<top, acked>>
    \/ \E c \in Conns : Deliver(c) /\ Listening(c) /\ status[c] = 200
BY DEF Next, HandlerStep, vars, Timeout, SensorReboot, Send, DropRequest, Deliver,
       Admit, AckDuplicate, RejectConflict, LookupFails, RefuseStorage, WriteFrames,
       FlushBatch, FlushFails, Commit, CommitFails, Refresh, DrainRow, Crash, sensorVars

\* A connection keeps its place unless it is the one that moves.
OthersStay(c) ==
  \A d \in Conns \ {c} : pc'[d] = pc[d] /\ msg'[d] = msg[d] /\ status'[d] = status[d]

ConnStep(c) ==
  (\E s \in Sensors : Send(s, c)) \/ DropRequest(c) \/ Deliver(c) \/ HandlerStep(c)

LEMMA ConnStepMovesOne ==
  ASSUME TypeOK, NEW c \in Conns, ConnStep(c) PROVE OthersStay(c)
<1> HandlerType
  BY DEF TypeOK
<1>1. ASSUME Hangup(c) PROVE OthersStay(c)
  BY <1>1 DEF Hangup, OthersStay, HandlerType
<1>2. ASSUME NEW to, Goto(c, to) PROVE OthersStay(c)
  BY <1>2 DEF Goto, OthersStay, HandlerType
<1>3. ASSUME NEW code, Finish(c, code) PROVE OthersStay(c)
  BY <1>3 DEF Finish, OthersStay, HandlerType
<1>4. ASSUME NEW s \in Sensors, Send(s, c) PROVE OthersStay(c)
  BY <1>4 DEF Send, OthersStay, HandlerType
<1>5. CASE Admit(c)
  BY <1>5 DEF Admit, OthersStay, HandlerType
<1> QED
  BY <1>1, <1>2, <1>3, <1>4, <1>5
  DEF ConnStep, DropRequest, Deliver, HandlerStep, AckDuplicate, RejectConflict,
      LookupFails, RefuseStorage, WriteFrames, FlushBatch, FlushFails, Commit,
      CommitFails, Refresh

LEMMA ConnsMove ==
  [Next]_vars =>
    \/ UNCHANGED <<pc, msg, status, ingestLock>>
    \/ Crash
    \/ \E c \in Conns : ConnStep(c)
BY DEF Next, vars, handlerVars, ConnStep, Timeout, SensorReboot, DrainRow

-----------------------------------------------------------------------------
(* Mutual exclusion: the lock is held exactly inside the handler. *)

LEMMA InitLock == Init => LockHeld
BY SensorIngestAssumption DEF Init, LockHeld, Held

LEMMA NextLock == TypeOK /\ LockHeld /\ [Next]_vars => LockHeld'
<1> SUFFICES ASSUME TypeOK, LockHeld, [Next]_vars PROVE LockHeld'
  OBVIOUS
<1>0. HandlerType /\ NoConn \notin Conns
  BY SensorIngestAssumption DEF TypeOK
<1>1. CASE UNCHANGED <<pc, msg, status, ingestLock>>
  BY <1>1 DEF LockHeld
<1>2. CASE Crash
  BY <1>0, <1>2 DEF Crash, LockHeld, Held
<1>3. ASSUME NEW c \in Conns, ConnStep(c) PROVE LockHeld'
  <2>0. OthersStay(c)
    BY <1>3, ConnStepMovesOne
  <2>1. ASSUME pc[c] \notin Held, Hangup(c) PROVE LockHeld'
    BY <1>0, <2>1 DEF Hangup, LockHeld, Held, HandlerType
  <2>2. ASSUME pc[c] \in Held, NEW to \in Held, Goto(c, to) PROVE LockHeld'
    BY <1>0, <2>2 DEF Goto, LockHeld, HandlerType
  <2>3. ASSUME pc[c] \in Held \/ LockFree, NEW code, Finish(c, code) PROVE LockHeld'
    BY <1>0, <2>3 DEF Finish, LockHeld, LockFree, Held, HandlerType
  <2>4. ASSUME NEW s \in Sensors, Send(s, c) PROVE LockHeld'
    BY <1>0, <2>4 DEF Send, LockHeld, Held, HandlerType
  <2>5. CASE Admit(c)
    BY <1>0, <2>5 DEF Admit, Acquire, LockFree, LockHeld, Held, HandlerType
  <2>6. CASE DropRequest(c) \/ Deliver(c)
    BY <2>1, <2>6 DEF DropRequest, Deliver, Held
  <2>7. CASE WriteFrames(c) \/ FlushBatch(c) \/ Commit(c)
    BY <2>2, <2>7 DEF WriteFrames, FlushBatch, Commit, Held
  <2>8. CASE AckDuplicate(c) \/ RejectConflict(c) \/ LookupFails(c) \/ RefuseStorage(c)
             \/ FlushFails(c) \/ CommitFails(c) \/ Refresh(c)
    BY <2>3, <2>8
    DEF AckDuplicate, RejectConflict, LookupFails, RefuseStorage, FlushFails,
        CommitFails, Refresh, Acquire, Held
  <2> QED
    BY <1>3, <2>4, <2>5, <2>6, <2>7, <2>8 DEF ConnStep, HandlerStep
<1> QED
  BY <1>1, <1>2, <1>3, ConnsMove

\* Two handlers are never both inside.
LEMMA OneInside ==
  ASSUME LockHeld, NEW c \in Conns, NEW d \in Conns, pc[c] \in Held, pc[d] \in Held
  PROVE  c = d
BY DEF LockHeld

-----------------------------------------------------------------------------
(* What is on the disk stays there. *)

LEMMA ArchiveGrows ==
  ASSUME TypeOK, [Next]_vars, NEW s \in Sensors
  PROVE  /\ Len(wav[s]) \in Nat /\ synced[s] \in 0 .. Len(wav[s])
         /\ synced[s] <= Len(wav'[s]) /\ synced[s] <= synced'[s]
         /\ \A i \in 1 .. synced[s] : wav'[s][i] = wav[s][i]
         /\ Archived(s) \subseteq Archived(s)'
<1>0. WavType /\ WavType'
  BY NextType DEF TypeOK
<1>1. Len(wav[s]) \in Nat /\ synced[s] \in 0 .. Len(wav[s]) /\ synced'[s] \in Nat
  BY <1>0 DEF WavType
<1>2. synced[s] <= Len(wav'[s]) /\ \A i \in 1 .. synced[s] : wav'[s][i] = wav[s][i]
  <2>1. CASE UNCHANGED wav
    BY <1>1, <2>1
  <2>2. ASSUME NEW c \in Conns, WriteFrames(c)
        PROVE  synced[s] <= Len(wav'[s]) /\ \A i \in 1 .. synced[s] : wav'[s][i] = wav[s][i]
    <3>1. msg[c] \in Packet
      BY <2>2, BusyCarriesPacket DEF WriteFrames
    <3>2. wav'[s] = IF s = msg[c].sensor THEN Append(wav[s], msg[c]) ELSE wav[s]
      BY <1>0, <2>2 DEF WriteFrames, WavType
    <3> QED
      BY <1>0, <1>1, <3>1, <3>2 DEF WavType
  <2>3. CASE Crash
    <3>1. PICK kept \in Surviving :
            /\ wav' = [r \in Sensors |-> SubSeq(wav[r], 1, kept[r])]
            /\ synced' = kept
      BY <2>3 DEF Crash
    <3>2. kept[s] \in synced[s] .. Len(wav[s])
      BY DEF Surviving
    <3> QED
      BY <1>0, <1>1, <3>1, <3>2 DEF WavType
  <2> QED
    BY <2>1, <2>2, <2>3, WavWriters
<1>3. synced[s] <= synced'[s]
  <2>1. CASE UNCHANGED synced
    BY <1>1, <2>1
  <2>2. ASSUME NEW c \in Conns, FlushBatch(c) PROVE synced[s] <= synced'[s]
    BY <1>0, <1>1, <2>2 DEF FlushBatch, WavType
  <2>3. CASE Crash
    BY <1>1, <2>3 DEF Crash, Surviving
  <2> QED
    BY <2>1, <2>2, <2>3, SyncedWriters
<1> QED
  BY <1>1, <1>2, <1>3 DEF Archived

LEMMA QueueGrows ==
  ASSUME TypeOK, [Next]_vars PROVE Queued \subseteq Queued'
<1>0. jobs \in Seq(Packet)
  BY DEF TypeOK, DbType
<1>1. CASE UNCHANGED <<jobs, lastSeq, lastHash>>
  BY <1>1 DEF Queued
<1>2. ASSUME NEW c \in Conns, Commit(c) PROVE Queued \subseteq Queued'
  BY <1>0, <1>2, BusyCarriesPacket DEF Commit, Queued
<1> QED
  BY <1>1, <1>2, JobsWriters

\* Committing adds one packet, and only that.
LEMMA CommitQueue ==
  ASSUME TypeOK, NEW c \in Conns, Commit(c)
  PROVE  /\ msg[c] \in Packet
         /\ Queued' = Queued \cup {msg[c]}
         /\ Len(jobs) \in Nat /\ Len(jobs') = Len(jobs) + 1
         /\ \A i \in 1 .. Len(jobs) : jobs'[i] = jobs[i]
         /\ jobs'[Len(jobs) + 1] = msg[c]
<1>1. msg[c] \in Packet /\ jobs \in Seq(Packet) /\ jobs' = Append(jobs, msg[c])
  BY BusyCarriesPacket DEF Commit, TypeOK, DbType
<1>2. /\ Len(jobs) \in Nat /\ Len(jobs') = Len(jobs) + 1
      /\ \A i \in 1 .. Len(jobs) : jobs'[i] = jobs[i]
      /\ jobs'[Len(jobs) + 1] = msg[c]
  BY <1>1
<1> QED
  BY <1>1, <1>2 DEF Queued

LEMMA StoredGrows ==
  ASSUME TypeOK, [Next]_vars PROVE Stored \subseteq Stored'
<1>1. \A p \in Queued : p \in Packet /\ p.sensor \in Sensors
  <2>1. \A i \in 1 .. Len(jobs) : jobs[i] \in Packet
    BY DEF TypeOK, DbType
  <2> QED
    BY <2>1 DEF Queued, Packet
<1> QED
  BY <1>1, ArchiveGrows, QueueGrows DEF Stored

-----------------------------------------------------------------------------
(* The cursor. *)

LEMMA CommitCursor ==
  ASSUME TypeOK, NEW c \in Conns, Commit(c), NEW s \in Sensors, NEW b \in Boots
  PROVE  IF Identified(msg[c]) /\ msg[c].sensor = s /\ msg[c].boot = b
         THEN lastSeq'[s][b] = msg[c].seq /\ lastHash'[s][b] = msg[c].payload
         ELSE lastSeq'[s][b] = lastSeq[s][b] /\ lastHash'[s][b] = lastHash[s][b]
BY BusyCarriesPacket DEF Commit, AdvanceCursor, cursorVars, TypeOK, DbType

LEMMA CursorGrows ==
  ASSUME TypeOK, FreshInHandler, [Next]_vars, NEW s \in Sensors, NEW b \in Boots
  PROVE  lastSeq[s][b] \in Int /\ lastSeq'[s][b] \in Int /\ lastSeq[s][b] <= lastSeq'[s][b]
<1>1. DbType /\ DbType'
  BY NextType DEF TypeOK
<1>2. lastSeq[s][b] \in Int /\ lastSeq'[s][b] \in Int
  BY <1>1, BoundsAreNat DEF DbType
<1>3. CASE UNCHANGED <<jobs, lastSeq, lastHash>>
  BY <1>2, <1>3
<1>4. ASSUME NEW c \in Conns, Commit(c) PROVE lastSeq[s][b] <= lastSeq'[s][b]
  BY <1>2, <1>4, CommitCursor DEF FreshInHandler, Last, Commit
<1> QED
  BY <1>2, <1>3, <1>4, JobsWriters

LEMMA DeliverTop ==
  ASSUME TypeOK, NEW c \in Conns, Deliver(c), Listening(c), status[c] = 200,
         NEW s \in Sensors, NEW b \in Boots
  PROVE  top'[s][b] = IF msg[c].sensor = s /\ msg[c].boot = b THEN top[s][b] + 1 ELSE top[s][b]
BY BusyCarriesPacket DEF Deliver, TypeOK, SensorType

LEMMA TopGrows ==
  ASSUME TypeOK, [Next]_vars, NEW s \in Sensors, NEW b \in Boots
  PROVE  top[s][b] \in Nat /\ top'[s][b] \in Nat /\ top[s][b] <= top'[s][b]
<1>1. top[s][b] \in Nat
  BY DEF TypeOK, SensorType
<1>2. ASSUME NEW c \in Conns, Deliver(c) /\ Listening(c) /\ status[c] = 200
      PROVE  top'[s][b] \in Nat /\ top[s][b] <= top'[s][b]
  BY <1>1, <1>2, DeliverTop
<1> QED
  BY <1>1, <1>2, TopWriters

-----------------------------------------------------------------------------
(* No request is ahead of its sensor. *)

LEMMA LiveChanges ==
  ASSUME TypeOK, [Next]_vars, NEW s \in Sensors
  PROVE  \/ live'[s] = live[s] \/ live'[s] = NoConn
         \/ \E c \in Conns : Send(s, c) /\ live'[s] = c
<1>0. SensorType
  BY DEF TypeOK
<1>1. ASSUME NEW r \in Sensors, Timeout(r) \/ SensorReboot(r)
      PROVE live'[s] = live[s] \/ live'[s] = NoConn
  BY <1>0, <1>1 DEF Timeout, SensorReboot, SensorType
<1>2. ASSUME NEW r \in Sensors, NEW c \in Conns, Send(r, c)
      PROVE live'[s] = live[s] \/ (Send(s, c) /\ live'[s] = c)
  BY <1>0, <1>2 DEF Send, SensorType
<1>3. ASSUME NEW c \in Conns, DropRequest(c) \/ Deliver(c)
      PROVE live'[s] = live[s] \/ live'[s] = NoConn
  BY <1>0, <1>3 DEF DropRequest, Deliver, StopListening, SensorType
<1>4. CASE Crash
  BY <1>4 DEF Crash
<1>5. CASE UNCHANGED live
  BY <1>5
<1>6. ASSUME NEW c \in Conns, HandlerStep(c) PROVE UNCHANGED live
  BY <1>6
  DEF HandlerStep, Admit, AckDuplicate, RejectConflict, LookupFails, RefuseStorage,
      WriteFrames, FlushBatch, FlushFails, Commit, CommitFails, Refresh, sensorVars
<1> QED
  BY <1>1, <1>2, <1>3, <1>4, <1>5, <1>6 DEF Next, vars, sensorVars, DrainRow

\* The ways a connection can look different after a step.
LEMMA ConnPath ==
  ASSUME TypeOK, [Next]_vars, NEW d \in Conns
  PROVE  \/ pc'[d] = pc[d] /\ msg'[d] = msg[d] /\ status'[d] = status[d]
         \/ pc'[d] = "idle"
         \/ \E s \in Sensors : Send(s, d)
         \/ HandlerStep(d)
<1>0. HandlerType
  BY DEF TypeOK
<1>1. CASE UNCHANGED <<pc, msg, status, ingestLock>>
  BY <1>1
<1>2. CASE Crash
  BY <1>2 DEF Crash
<1>3. ASSUME NEW c \in Conns \ {d}, ConnStep(c)
      PROVE  pc'[d] = pc[d] /\ msg'[d] = msg[d] /\ status'[d] = status[d]
  BY <1>3, ConnStepMovesOne DEF OthersStay
<1>4. CASE DropRequest(d) \/ Deliver(d)
  BY <1>0, <1>4 DEF DropRequest, Deliver, Hangup, HandlerType
<1> QED
  BY <1>1, <1>2, <1>3, <1>4, ConnsMove DEF ConnStep

\* A connection that is busy after a step either carries the packet it
\* carried before, or has just been used by its sensor.
LEMMA PacketStays ==
  ASSUME TypeOK, [Next]_vars, NEW d \in Conns, pc'[d] # "idle"
  PROVE  \/ pc[d] # "idle" /\ msg'[d] = msg[d]
         \/ \E s \in Sensors : Send(s, d)
<1>1. CASE HandlerStep(d)
  BY <1>1
  DEF HandlerStep, Admit, AckDuplicate, RejectConflict, LookupFails, RefuseStorage,
      WriteFrames, FlushBatch, FlushFails, Commit, CommitFails, Refresh, Goto, Finish, Acquire
<1> QED
  BY <1>1, ConnPath

LEMMA NextRequestsBehind ==
  TypeOK /\ RequestsBehind /\ [Next]_vars => RequestsBehind'
<1> SUFFICES ASSUME TypeOK, RequestsBehind, [Next]_vars,
                    NEW d \in Conns, pc'[d] # "idle"
             PROVE  /\ msg'[d].seq <= top'[msg'[d].sensor][msg'[d].boot]
                    /\ live'[msg'[d].sensor] = d =>
                         msg'[d].seq = top'[msg'[d].sensor][msg'[d].boot]
  BY DEF RequestsBehind, Listening
<1>0. NoConn \notin Conns /\ SensorType
  BY SensorIngestAssumption DEF TypeOK
<1>1. ASSUME NEW s \in Sensors, Send(s, d)
      PROVE  /\ msg'[d].seq = top'[msg'[d].sensor][msg'[d].boot]
             /\ top'[msg'[d].sensor][msg'[d].boot] \in Nat
  BY <1>0, <1>1 DEF Send, Pending, TypeOK, HandlerType, SensorType
<1>2. CASE pc[d] # "idle" /\ msg'[d] = msg[d]
  <2> DEFINE p == msg[d]
  <2>1. p.sensor \in Sensors /\ p.boot \in Boots /\ p.seq \in Nat
    BY <1>2, BusyCarriesPacket, BoundsAreNat DEF Seqs
  <2>2. p.seq <= top[p.sensor][p.boot] /\ (live[p.sensor] = d => p.seq = top[p.sensor][p.boot])
    BY <1>2 DEF RequestsBehind, Listening
  <2>3. p.seq <= top'[p.sensor][p.boot]
    BY <2>1, <2>2, TopGrows
  <2>4. ASSUME live'[p.sensor] = d PROVE p.seq = top'[p.sensor][p.boot]
    <3>1. live[p.sensor] = d
      BY <1>0, <1>2, <2>1, <2>4, LiveChanges DEF Send
    <3>2. CASE UNCHANGED <<top, acked>>
      BY <2>2, <3>1, <3>2
    <3>3. ASSUME NEW c \in Conns, Deliver(c) /\ Listening(c) /\ status[c] = 200
          PROVE  top'[p.sensor][p.boot] = top[p.sensor][p.boot]
      <4>1. c # d
        BY <1>0, <3>3 DEF Deliver, Hangup, TypeOK, HandlerType
      <4> QED
        BY <2>1, <3>1, <3>3, <4>1, DeliverTop DEF Listening
    <3> QED
      BY <2>2, <3>1, <3>2, <3>3, TopWriters
  <2> QED
    BY <1>2, <2>3, <2>4
<1> QED
  BY <1>1, <1>2, PacketStays

-----------------------------------------------------------------------------
(* The cursor row, the queue and the archive. *)

\* While a handler is inside, nobody else commits or writes frames.
LEMMA InsideAlone ==
  ASSUME LockHeld, NEW d \in Conns, pc[d] \in Held, NEW c \in Conns,
         Commit(c) \/ WriteFrames(c)
  PROVE  c = d
BY OneInside DEF Commit, WriteFrames, Held

LEMMA NextFresh ==
  TypeOK /\ LockHeld /\ FreshInHandler /\ [Next]_vars => FreshInHandler'
<1> SUFFICES ASSUME TypeOK, LockHeld, FreshInHandler, [Next]_vars, NEW d \in Conns,
                    pc'[d] \in {"append", "flush", "commit"}, Identified(msg'[d])
             PROVE  lastSeq'[msg'[d].sensor][msg'[d].boot] < msg'[d].seq
  BY DEF FreshInHandler, Last, Identified
<1>0. HandlerType
  BY DEF TypeOK
<1>1. ASSUME pc[d] \in {"append", "flush", "commit"}, msg'[d] = msg[d]
      PROVE lastSeq'[msg'[d].sensor][msg'[d].boot] < msg'[d].seq
  <2>1. UNCHANGED lastSeq
    BY <1>0, <1>1, InsideAlone, JobsWriters DEF Held, Commit, Goto, HandlerType
  <2> QED
    BY <1>1, <2>1 DEF FreshInHandler, Last
<1>2. CASE Admit(d)
  <2>1. /\ msg' = msg /\ lastSeq' = lastSeq /\ ~(msg[d].seq <= Last(msg[d]))
    BY <1>2 DEF Admit, Replayed, dbVars, cursorVars
  <2>2. Last(msg[d]) \in Int /\ msg[d].seq \in Int
    BY <1>2, BusyCarriesPacket, BoundsAreNat DEF Admit, Acquire, Last, Seqs, TypeOK, DbType
  <2> QED
    BY <2>1, <2>2 DEF Last
<1>3. CASE HandlerStep(d) /\ ~Admit(d)
  <2>1. pc[d] \in {"append", "flush", "commit"} /\ msg'[d] = msg[d]
    BY <1>0, <1>3
    DEF HandlerStep, AckDuplicate, RejectConflict, LookupFails, RefuseStorage, Acquire,
        WriteFrames, FlushBatch, FlushFails, Commit, CommitFails, Refresh, Goto, Finish, HandlerType
  <2> QED
    BY <1>1, <2>1
<1>4. ASSUME NEW s \in Sensors, Send(s, d) PROVE FALSE
  BY <1>0, <1>4 DEF Send, HandlerType
<1> QED
  BY <1>1, <1>2, <1>3, <1>4, ConnPath

LEMMA NextFrameIsLast ==
  TypeOK /\ LockHeld /\ FrameIsLast /\ [Next]_vars => FrameIsLast'
<1> SUFFICES ASSUME TypeOK, LockHeld, FrameIsLast, [Next]_vars, NEW d \in Conns,
                    pc'[d] = "flush"
             PROVE  LET s == msg'[d].sensor IN
                    Len(wav'[s]) > 0 /\ wav'[s][Len(wav'[s])] = msg'[d]
  BY DEF FrameIsLast
<1>0. HandlerType /\ WavType
  BY DEF TypeOK
<1>1. CASE pc[d] = "flush" /\ msg'[d] = msg[d]
  <2>1. UNCHANGED wav
    BY <1>0, <1>1, InsideAlone, WavWriters DEF Held, WriteFrames, Crash, HandlerType
  <2> QED
    BY <1>1, <2>1 DEF FrameIsLast
<1>2. CASE WriteFrames(d)
  <2>1. msg'[d] = msg[d] /\ msg[d] \in Packet /\ msg[d].sensor \in Sensors
    BY <1>2, BusyCarriesPacket DEF WriteFrames, Goto
  <2>2. wav[msg[d].sensor] \in Seq(Packet)
    BY <1>0, <2>1 DEF WavType
  <2>3. wav'[msg[d].sensor] = Append(wav[msg[d].sensor], msg[d])
    BY <1>0, <1>2, <2>1 DEF WriteFrames, WavType
  <2> QED
    BY <2>1, <2>2, <2>3
<1>3. CASE HandlerStep(d) /\ ~WriteFrames(d)
  BY <1>0, <1>3
  DEF HandlerStep, Admit, AckDuplicate, RejectConflict, LookupFails, RefuseStorage,
      FlushBatch, FlushFails, Commit, CommitFails, Refresh, Goto, Finish, HandlerType
<1>4. ASSUME NEW s \in Sensors, Send(s, d) PROVE FALSE
  BY <1>0, <1>4 DEF Send, HandlerType
<1> QED
  BY <1>1, <1>2, <1>3, <1>4, ConnPath

LEMMA NextCommitIsArchived ==
  TypeOK /\ FrameIsLast /\ CommitIsArchived /\ [Next]_vars => CommitIsArchived'
<1> SUFFICES ASSUME TypeOK, FrameIsLast, CommitIsArchived, [Next]_vars, NEW d \in Conns,
                    pc'[d] = "commit"
             PROVE  \E i \in 1 .. synced'[msg'[d].sensor] :
                      msg'[d] = wav'[msg'[d].sensor][i]
  BY DEF CommitIsArchived, Archived
<1>0. HandlerType /\ WavType
  BY DEF TypeOK
<1>1. CASE pc[d] = "commit" /\ msg'[d] = msg[d]
  <2>1. msg[d].sensor \in Sensors /\ msg[d] \in Archived(msg[d].sensor)
    BY <1>1, BusyCarriesPacket DEF CommitIsArchived
  <2>2. \A s \in Sensors : \A p \in Archived(s) : \E i \in 1 .. synced'[s] : p = wav'[s][i]
    BY ArchiveGrows DEF Archived
  <2> QED
    BY <1>1, <2>1, <2>2
<1>2. CASE FlushBatch(d)
  <2> DEFINE s == msg[d].sensor
  <2>1. msg'[d] = msg[d] /\ s \in Sensors
    BY <1>2, BusyCarriesPacket DEF FlushBatch, Goto
  <2>2. wav' = wav /\ synced'[s] = Len(wav[s]) /\ Len(wav[s]) \in Nat
    BY <1>0, <1>2, <2>1 DEF FlushBatch, WavType
  <2>3. Len(wav[s]) > 0 /\ wav[s][Len(wav[s])] = msg[d]
    BY <1>2 DEF FlushBatch, FrameIsLast
  <2>4. Len(wav[s]) \in 1 .. synced'[s]
    BY <2>2, <2>3
  <2> QED
    BY <2>1, <2>2, <2>3, <2>4 DEF Archived
<1>3. CASE HandlerStep(d) /\ ~FlushBatch(d)
  BY <1>0, <1>3
  DEF HandlerStep, Admit, AckDuplicate, RejectConflict, LookupFails, RefuseStorage,
      WriteFrames, FlushFails, Commit, CommitFails, Refresh, Goto, Finish, HandlerType
<1>4. ASSUME NEW s \in Sensors, Send(s, d) PROVE FALSE
  BY <1>0, <1>4 DEF Send, HandlerType
<1> QED
  BY <1>1, <1>2, <1>3, <1>4, ConnPath

\* A replayed packet that is not in conflict is the committed one, or older.
LEMMA ReplayIsKnown ==
  ASSUME TypeOK, CursorIsNewest, QueuedIsArchived, NEW p \in Packet,
         Replayed(p), ~Conflicting(p)
  PROVE  p \in Stored \/ p.seq < top[p.sensor][p.boot]
<1>1. /\ p.sensor \in Sensors \ Legacy /\ p.boot \in Boots /\ p.seq \in Nat
      /\ lastSeq[p.sensor][p.boot] \in Int /\ top[p.sensor][p.boot] \in Nat
  BY BoundsAreNat DEF Packet, Replayed, Identified, Seqs, TypeOK, SensorType, DbType
<1>2. p.seq <= lastSeq[p.sensor][p.boot] /\ lastSeq[p.sensor][p.boot] <= top[p.sensor][p.boot]
  <2>1. lastSeq[p.sensor][p.boot] \in top[p.sensor][p.boot] - 1 .. top[p.sensor][p.boot]
    BY <1>1 DEF CursorIsNewest
  <2> QED
    BY <1>1, <2>1 DEF Replayed, Last
<1>3. CASE p.seq < lastSeq[p.sensor][p.boot]
  BY <1>1, <1>2, <1>3
<1>4. CASE p.seq = lastSeq[p.sensor][p.boot]
  <2>1. p.payload = lastHash[p.sensor][p.boot]
    BY <1>4 DEF Conflicting, Last
  <2>2. p = [sensor |-> p.sensor, boot |-> p.boot, seq |-> lastSeq[p.sensor][p.boot],
             payload |-> lastHash[p.sensor][p.boot]]
    BY <1>4, <2>1 DEF Packet
  <2>3. p \in Queued
    BY <1>1, <1>4, <2>2 DEF CursorIsNewest
  <2> QED
    BY <2>3 DEF Stored, QueuedIsArchived
<1> QED
  BY <1>1, <1>2, <1>3, <1>4

LEMMA NextAnswerIsTrue ==
  /\ TypeOK /\ CursorIsNewest /\ QueuedIsArchived /\ FreshInHandler
  /\ CommitIsArchived /\ AnswerIsTrue /\ [Next]_vars
  => AnswerIsTrue'
<1> SUFFICES ASSUME TypeOK, CursorIsNewest, QueuedIsArchived, FreshInHandler,
                    CommitIsArchived, AnswerIsTrue, [Next]_vars, NEW d \in Conns,
                    pc'[d] = "refresh" \/ (pc'[d] = "reply" /\ status'[d] = 200)
             PROVE  LET p == msg'[d] IN
                    /\ Identified(p) => p.seq <= lastSeq'[p.sensor][p.boot]
                    /\ p \in Stored' \/ (Identified(p) /\ p.seq < top'[p.sensor][p.boot])
  BY DEF AnswerIsTrue, Last, Identified
<1> DEFINE p == msg[d]
<1>0. HandlerType
  BY DEF TypeOK
<1>1. pc[d] # "idle" /\ msg'[d] = p
  BY <1>0, PacketStays DEF Send, HandlerType
<1>2. /\ p \in Packet /\ p.sensor \in Sensors /\ p.boot \in Boots /\ p.seq \in Nat
  BY <1>1, BusyCarriesPacket, BoundsAreNat DEF Seqs
<1>3. /\ lastSeq[p.sensor][p.boot] \in Int /\ lastSeq'[p.sensor][p.boot] \in Int
      /\ lastSeq[p.sensor][p.boot] <= lastSeq'[p.sensor][p.boot]
      /\ top[p.sensor][p.boot] \in Nat /\ top'[p.sensor][p.boot] \in Nat
      /\ top[p.sensor][p.boot] <= top'[p.sensor][p.boot]
  BY <1>2, CursorGrows, TopGrows
<1>4. Stored \subseteq Stored'
  BY StoredGrows
<1>5. ASSUME Identified(p) => p.seq <= lastSeq[p.sensor][p.boot],
             p \in Stored \/ (Identified(p) /\ p.seq < top[p.sensor][p.boot])
      PROVE  /\ Identified(p) => p.seq <= lastSeq'[p.sensor][p.boot]
             /\ p \in Stored' \/ (Identified(p) /\ p.seq < top'[p.sensor][p.boot])
  BY <1>2, <1>3, <1>4, <1>5
<1>6. CASE pc[d] = "refresh" \/ (pc[d] = "reply" /\ status[d] = 200)
  BY <1>1, <1>5, <1>6 DEF AnswerIsTrue, Last
<1>7. CASE AckDuplicate(d)
  <2>1. Replayed(p) /\ ~Conflicting(p)
    BY <1>7 DEF AckDuplicate
  <2>2. Identified(p) /\ p.seq <= lastSeq[p.sensor][p.boot]
    BY <2>1 DEF Replayed, Last
  <2> QED
    BY <1>1, <1>2, <1>5, <2>1, <2>2, ReplayIsKnown
<1>8. CASE Commit(d)
  <2>1. p \in Archived(p.sensor)
    BY <1>8 DEF Commit, CommitIsArchived
  <2>2. Queued' = Queued \cup {p} /\ UNCHANGED <<wav, synced>>
    BY <1>8, CommitQueue DEF Commit, wavVars
  <2>3. p \in Stored'
    BY <2>1, <2>2 DEF Stored, Archived
  <2>4. Identified(p) => lastSeq'[p.sensor][p.boot] = p.seq
    BY <1>2, <1>8, CommitCursor
  <2> QED
    BY <1>1, <1>2, <2>3, <2>4
<1>9. CASE HandlerStep(d) /\ ~AckDuplicate(d) /\ ~Commit(d)
  <2>1. pc[d] = "refresh"
    BY <1>0, <1>9
    DEF HandlerStep, Admit, RejectConflict, LookupFails, RefuseStorage, WriteFrames,
        FlushBatch, FlushFails, CommitFails, Refresh, Goto, Finish, HandlerType
  <2> QED
    BY <1>6, <2>1
<1>10. ASSUME NEW s \in Sensors, Send(s, d) PROVE FALSE
  BY <1>0, <1>10 DEF Send, HandlerType
<1> QED
  BY <1>6, <1>7, <1>8, <1>9, <1>10, ConnPath

LEMMA NextCursorIsNewest ==
  /\ TypeOK /\ RequestsBehind /\ FreshInHandler /\ AnswerIsTrue /\ CursorIsNewest
  /\ [Next]_vars
  => CursorIsNewest'
<1> SUFFICES ASSUME TypeOK, RequestsBehind, FreshInHandler, AnswerIsTrue, CursorIsNewest,
                    [Next]_vars, NEW s \in Sensors \ Legacy, NEW b \in Boots
             PROVE  /\ lastSeq'[s][b] \in top'[s][b] - 1 .. top'[s][b]
                    /\ lastSeq'[s][b] >= 0 =>
                         [sensor |-> s, boot |-> b, seq |-> lastSeq'[s][b],
                          payload |-> lastHash'[s][b]] \in Queued'
                    /\ \A p \in Queued' : p.sensor = s /\ p.boot = b => p.seq <= lastSeq'[s][b]
  BY DEF CursorIsNewest
<1>1. /\ lastSeq[s][b] \in Int /\ lastSeq'[s][b] \in Int /\ lastSeq[s][b] <= lastSeq'[s][b]
      /\ top[s][b] \in Nat /\ top'[s][b] \in Nat /\ top[s][b] <= top'[s][b]
  BY CursorGrows, TopGrows
<1>2. /\ lastSeq[s][b] \in top[s][b] - 1 .. top[s][b]
      /\ lastSeq[s][b] >= 0 =>
           [sensor |-> s, boot |-> b, seq |-> lastSeq[s][b], payload |-> lastHash[s][b]] \in Queued
      /\ \A p \in Queued : p.sensor = s /\ p.boot = b => p.seq <= lastSeq[s][b]
  BY DEF CursorIsNewest
<1>3. ASSUME NEW c \in Conns, Commit(c), Identified(msg[c]), msg[c].sensor = s, msg[c].boot = b
      PROVE  /\ lastSeq'[s][b] \in top'[s][b] - 1 .. top'[s][b]
             /\ lastSeq'[s][b] >= 0 =>
                  [sensor |-> s, boot |-> b, seq |-> lastSeq'[s][b],
                   payload |-> lastHash'[s][b]] \in Queued'
             /\ \A p \in Queued' : p.sensor = s /\ p.boot = b => p.seq <= lastSeq'[s][b]
  <2>1. msg[c] \in Packet /\ Queued' = Queued \cup {msg[c]}
    BY <1>3, CommitQueue
  <2>2. lastSeq'[s][b] = msg[c].seq /\ lastHash'[s][b] = msg[c].payload
    BY <1>3, CommitCursor
  <2>3. UNCHANGED top
    BY <1>3 DEF Commit, sensorVars
  <2>4. msg[c].seq <= top[s][b] /\ lastSeq[s][b] < msg[c].seq
    BY <1>3 DEF RequestsBehind, FreshInHandler, Last, Commit
  <2>5. msg[c].seq \in top[s][b] - 1 .. top[s][b]
    BY <1>1, <1>2, <2>2, <2>4
  <2>6. msg[c] = [sensor |-> s, boot |-> b, seq |-> msg[c].seq, payload |-> msg[c].payload]
    BY <1>3, <2>1 DEF Packet
  <2>7. \A p \in Queued' : p.sensor = s /\ p.boot = b => p.seq <= msg[c].seq
    <3> SUFFICES ASSUME NEW p \in Queued', p.sensor = s, p.boot = b PROVE p.seq <= msg[c].seq
      OBVIOUS
    <3>1. CASE p = msg[c]
      BY <1>1, <2>2, <3>1
    <3>2. CASE p \in Queued
      <4>1. p.seq <= lastSeq[s][b]
        BY <1>2, <3>2
      <4>2. p.seq \in Int
        <5>1. \A i \in 1 .. Len(jobs) : jobs[i] \in Packet
          BY DEF TypeOK, DbType
        <5> QED
          BY <3>2, <5>1, BoundsAreNat DEF Queued, Packet, Seqs
      <4> QED
        BY <1>1, <2>2, <2>4, <4>1, <4>2
    <3> QED
      BY <2>1, <3>1, <3>2
  <2> QED
    BY <2>1, <2>2, <2>3, <2>5, <2>6, <2>7
<1>4. ASSUME NEW c \in Conns, Commit(c),
             ~(Identified(msg[c]) /\ msg[c].sensor = s /\ msg[c].boot = b)
      PROVE  /\ lastSeq'[s][b] = lastSeq[s][b] /\ lastHash'[s][b] = lastHash[s][b]
             /\ UNCHANGED top
             /\ Queued \subseteq Queued'
             /\ \A p \in Queued' : p.sensor = s /\ p.boot = b => p \in Queued
  <2>1. msg[c] \in Packet /\ Queued' = Queued \cup {msg[c]}
    BY <1>4, CommitQueue
  <2>2. ~(msg[c].sensor = s /\ msg[c].boot = b)
    BY <1>4 DEF Identified
  <2> QED
    BY <1>4, <2>1, <2>2, CommitCursor DEF Commit, sensorVars
<1>5. ASSUME NEW c \in Conns, Deliver(c), Listening(c), status[c] = 200
      PROVE  /\ UNCHANGED <<lastSeq, lastHash, jobs>>
             /\ lastSeq[s][b] \in top'[s][b] - 1 .. top'[s][b]
  <2> DEFINE p == msg[c]
  <2>1. UNCHANGED <<lastSeq, lastHash, jobs>>
    BY <1>5 DEF Deliver, dbVars, cursorVars
  <2>2. top'[s][b] = IF p.sensor = s /\ p.boot = b THEN top[s][b] + 1 ELSE top[s][b]
    BY <1>5, DeliverTop
  <2>3. CASE ~(p.sensor = s /\ p.boot = b)
    BY <1>2, <2>1, <2>2, <2>3
  <2>4. CASE p.sensor = s /\ p.boot = b
    <3>1. p.seq = top[s][b]
      BY <1>5, <2>4 DEF Deliver, RequestsBehind
    <3>2. p.seq <= lastSeq[s][b]
      BY <1>5, <2>4 DEF Deliver, AnswerIsTrue, Identified, Last
    <3> QED
      BY <1>1, <1>2, <2>1, <2>2, <2>4, <3>1, <3>2
  <2> QED
    BY <2>1, <2>3, <2>4
<1>6. CASE UNCHANGED <<jobs, lastSeq, lastHash>>
  <2>1. lastSeq'[s][b] \in top'[s][b] - 1 .. top'[s][b]
    BY <1>2, <1>5, <1>6, TopWriters
  <2> QED
    BY <1>2, <1>6, <2>1 DEF Queued
<1> QED
  BY <1>2, <1>3, <1>4, <1>6, JobsWriters

-----------------------------------------------------------------------------
(* The archive. *)

LEMMA NextArchiveBehind ==
  TypeOK /\ RequestsBehind /\ ArchiveBehind /\ [Next]_vars => ArchiveBehind'
<1> SUFFICES ASSUME TypeOK, RequestsBehind, ArchiveBehind, [Next]_vars,
                    NEW s \in Sensors, NEW i \in 1 .. Len(wav'[s])
             PROVE  /\ wav'[s][i].sensor = s
                    /\ wav'[s][i].seq <= top'[s][wav'[s][i].boot]
  BY DEF ArchiveBehind
<1>0. WavType
  BY DEF TypeOK
<1>1. Len(wav[s]) \in Nat /\ wav[s] \in Seq(Packet)
  BY <1>0 DEF WavType
<1>2. ASSUME i \in 1 .. Len(wav[s]), wav'[s][i] = wav[s][i]
      PROVE  wav'[s][i].sensor = s /\ wav'[s][i].seq <= top'[s][wav'[s][i].boot]
  <2>1. wav[s][i] \in Packet
    BY <1>1, <1>2
  <2>2. wav[s][i].boot \in Boots /\ wav[s][i].seq \in Nat
    BY <2>1, BoundsAreNat DEF Packet, Seqs
  <2>3. wav[s][i].sensor = s /\ wav[s][i].seq <= top[s][wav[s][i].boot]
    BY <1>2 DEF ArchiveBehind
  <2> QED
    BY <1>2, <2>2, <2>3, TopGrows
<1>3. CASE UNCHANGED wav
  BY <1>2, <1>3
<1>4. CASE Crash
  <2>1. PICK kept \in Surviving : wav' = [r \in Sensors |-> SubSeq(wav[r], 1, kept[r])]
    BY <1>4 DEF Crash
  <2>2. kept[s] \in 0 .. Len(wav[s])
    BY <1>0 DEF Surviving, WavType
  <2>3. i \in 1 .. Len(wav[s]) /\ wav'[s][i] = wav[s][i]
    BY <1>1, <2>1, <2>2
  <2> QED
    BY <1>2, <2>3
<1>5. ASSUME NEW c \in Conns, WriteFrames(c)
      PROVE  wav'[s][i].sensor = s /\ wav'[s][i].seq <= top'[s][wav'[s][i].boot]
  <2>1. msg[c] \in Packet /\ pc[c] # "idle" /\ UNCHANGED top
    BY <1>5, BusyCarriesPacket DEF WriteFrames, sensorVars
  <2>2. wav'[s] = IF s = msg[c].sensor THEN Append(wav[s], msg[c]) ELSE wav[s]
    BY <1>0, <1>5 DEF WriteFrames, WavType
  <2>3. CASE i \in 1 .. Len(wav[s])
    BY <1>1, <1>2, <2>1, <2>2, <2>3
  <2>4. CASE i \notin 1 .. Len(wav[s])
    <3>1. s = msg[c].sensor /\ wav'[s][i] = msg[c]
      BY <1>1, <2>1, <2>2, <2>4
    <3> QED
      BY <2>1, <3>1 DEF RequestsBehind
  <2> QED
    BY <2>3, <2>4
<1> QED
  BY <1>3, <1>4, <1>5, WavWriters

LEMMA NextArchiveInOrder ==
  /\ TypeOK /\ CursorIsNewest /\ ArchiveBehind /\ FreshInHandler /\ ArchiveInOrder
  /\ [Next]_vars
  => ArchiveInOrder'
<1> SUFFICES ASSUME TypeOK, CursorIsNewest, ArchiveBehind, FreshInHandler, ArchiveInOrder,
                    [Next]_vars, NEW s \in Sensors \ Legacy,
                    NEW i \in 1 .. Len(wav'[s]), NEW j \in 1 .. Len(wav'[s]), i < j,
                    wav'[s][i].boot = wav'[s][j].boot
             PROVE  wav'[s][i].seq <= wav'[s][j].seq
  BY DEF ArchiveInOrder
<1>0. WavType
  BY DEF TypeOK
<1>1. Len(wav[s]) \in Nat /\ wav[s] \in Seq(Packet)
  BY <1>0 DEF WavType
<1>2. ASSUME j \in 1 .. Len(wav[s]), \A k \in 1 .. j : wav'[s][k] = wav[s][k]
      PROVE  wav'[s][i].seq <= wav'[s][j].seq
  <2>1. /\ i \in 1 .. j /\ j \in 1 .. j /\ i \in 1 .. Len(wav[s])
    BY <1>1, <1>2
  <2> QED
    BY <1>2, <2>1 DEF ArchiveInOrder
<1>3. CASE UNCHANGED wav
  BY <1>2, <1>3
<1>4. CASE Crash
  <2>1. PICK kept \in Surviving : wav' = [r \in Sensors |-> SubSeq(wav[r], 1, kept[r])]
    BY <1>4 DEF Crash
  <2>2. kept[s] \in 0 .. Len(wav[s])
    BY <1>0 DEF Surviving, WavType
  <2>3. j \in 1 .. Len(wav[s]) /\ \A k \in 1 .. j : wav'[s][k] = wav[s][k]
    BY <1>1, <2>1, <2>2
  <2> QED
    BY <1>2, <2>3
<1>5. ASSUME NEW c \in Conns, WriteFrames(c) PROVE wav'[s][i].seq <= wav'[s][j].seq
  <2> DEFINE p == msg[c]
  <2>1. p \in Packet
    BY <1>5, BusyCarriesPacket DEF WriteFrames
  <2>2. wav'[s] = IF s = p.sensor THEN Append(wav[s], p) ELSE wav[s]
    BY <1>0, <1>5 DEF WriteFrames, WavType
  <2>3. CASE j \in 1 .. Len(wav[s])
    BY <1>1, <1>2, <2>1, <2>2, <2>3
  <2>4. CASE j \notin 1 .. Len(wav[s])
    <3>1. s = p.sensor /\ wav'[s][j] = p /\ i \in 1 .. Len(wav[s]) /\ wav'[s][i] = wav[s][i]
      BY <1>1, <2>1, <2>2, <2>4
    <3>2. wav[s][i] \in Packet
      BY <1>1, <3>1
    <3>3. /\ wav[s][i].seq \in Nat /\ p.seq \in Nat /\ p.boot \in Boots
          /\ top[s][p.boot] \in Nat /\ lastSeq[s][p.boot] \in Int
      <4>1. wav[s][i].seq \in Nat /\ p.seq \in Nat /\ p.boot \in Boots
        BY <2>1, <3>2, BoundsAreNat DEF Packet, Seqs
      <4> QED
        BY <4>1, CursorGrows, TopGrows
    <3>4. wav[s][i].seq <= top[s][p.boot]
      BY <3>1 DEF ArchiveBehind
    <3>5. lastSeq[s][p.boot] \in top[s][p.boot] - 1 .. top[s][p.boot]
      BY <3>3 DEF CursorIsNewest
    <3>6. lastSeq[s][p.boot] < p.seq
      BY <1>5, <3>1 DEF WriteFrames, FreshInHandler, Identified, Last
    <3> QED
      BY <3>1, <3>3, <3>4, <3>5, <3>6
  <2> QED
    BY <2>3, <2>4
<1> QED
  BY <1>3, <1>4, <1>5, WavWriters

LEMMA NextQueuedIsArchived ==
  TypeOK /\ CommitIsArchived /\ QueuedIsArchived /\ [Next]_vars => QueuedIsArchived'
<1> SUFFICES ASSUME TypeOK, CommitIsArchived, QueuedIsArchived, [Next]_vars,
                    NEW p \in Queued'
             PROVE  \E i \in 1 .. synced'[p.sensor] : p = wav'[p.sensor][i]
  BY DEF QueuedIsArchived, Archived
<1>1. \A s \in Sensors : \A q \in Archived(s) : \E i \in 1 .. synced'[s] : q = wav'[s][i]
  BY ArchiveGrows DEF Archived
<1>2. \A q \in Queued : q.sensor \in Sensors
  <2>1. \A i \in 1 .. Len(jobs) : jobs[i] \in Packet
    BY DEF TypeOK, DbType
  <2> QED
    BY <2>1 DEF Queued, Packet
<1>3. CASE p \in Queued
  BY <1>1, <1>2, <1>3 DEF QueuedIsArchived
<1>4. ASSUME NEW c \in Conns, Commit(c), p = msg[c]
      PROVE  \E i \in 1 .. synced'[p.sensor] : p = wav'[p.sensor][i]
  BY <1>1, <1>4, CommitQueue DEF Commit, CommitIsArchived, Packet
<1> QED
  BY <1>3, <1>4, JobsWriters, CommitQueue DEF Queued

LEMMA NextQueuedOnce ==
  TypeOK /\ CursorIsNewest /\ FreshInHandler /\ QueuedOnce /\ [Next]_vars => QueuedOnce'
<1> SUFFICES ASSUME TypeOK, CursorIsNewest, FreshInHandler, QueuedOnce, [Next]_vars
             PROVE  QueuedOnce'
  OBVIOUS
<1>1. CASE UNCHANGED <<jobs, lastSeq, lastHash>>
  BY <1>1 DEF QueuedOnce, Identified
<1>2. ASSUME NEW c \in Conns, Commit(c) PROVE QueuedOnce'
  <2> DEFINE Same(p, q) == <<p.sensor, p.boot, p.seq>> = <<q.sensor, q.boot, q.seq>>
             n == Len(jobs)
  <2>1. /\ msg[c] \in Packet /\ n \in Nat /\ Len(jobs') = n + 1
        /\ \A i \in 1 .. n : jobs'[i] = jobs[i]
        /\ jobs'[n + 1] = msg[c]
    BY <1>2, CommitQueue
  <2>2. ASSUME NEW i \in 1 .. n, Identified(msg[c]) PROVE ~Same(jobs[i], msg[c])
    <3>1. jobs[i] \in Packet /\ jobs[i] \in Queued
      BY DEF TypeOK, DbType, Queued
    <3>2. SUFFICES ASSUME Same(jobs[i], msg[c]) PROVE FALSE
      OBVIOUS
    <3>3. lastSeq[msg[c].sensor][msg[c].boot] < msg[c].seq
      BY <1>2, <2>2 DEF Commit, FreshInHandler, Last
    <3>4. jobs[i].seq <= lastSeq[msg[c].sensor][msg[c].boot]
      BY <2>1, <2>2, <3>1, <3>2 DEF CursorIsNewest, Identified, Packet
    <3>5. /\ lastSeq[msg[c].sensor][msg[c].boot] \in Int /\ msg[c].seq \in Int
      <4>1. msg[c].sensor \in Sensors /\ msg[c].boot \in Boots /\ msg[c].seq \in Int
        BY <2>1, BoundsAreNat DEF Packet, Seqs
      <4> QED
        BY <4>1, CursorGrows
    <3> QED
      BY <3>2, <3>3, <3>4, <3>5
  <2>3. ASSUME NEW i \in 1 .. n + 1, NEW j \in 1 .. n + 1,
               Identified(jobs'[i]), Same(jobs'[i], jobs'[j])
        PROVE  i = j
    <3>1. CASE i \in 1 .. n /\ j \in 1 .. n
      BY <2>1, <2>3, <3>1 DEF QueuedOnce
    <3>2. CASE i \in 1 .. n /\ j = n + 1
      BY <2>1, <2>2, <2>3, <3>2 DEF Identified
    <3>3. CASE i = n + 1 /\ j \in 1 .. n
      BY <2>1, <2>2, <2>3, <3>3 DEF Identified
    <3>4. i \in 1 .. n \/ i = n + 1
      BY <2>1
    <3>5. j \in 1 .. n \/ j = n + 1
      BY <2>1
    <3> QED
      BY <3>1, <3>2, <3>3, <3>4, <3>5
  <2> QED
    BY <2>1, <2>3 DEF QueuedOnce, Identified
<1> QED
  BY <1>1, <1>2, JobsWriters

LEMMA DeliveredIsStored ==
  ASSUME TypeOK, RequestsBehind, AnswerIsTrue, NEW c \in Conns,
         Deliver(c), Listening(c), status[c] = 200
  PROVE  msg[c] \in Stored /\ acked' = acked \cup {msg[c]}
<1>1. msg[c] \in Packet /\ msg[c].seq \in Nat
  BY BusyCarriesPacket, BoundsAreNat DEF Deliver, Seqs
<1>2. msg[c].seq = top[msg[c].sensor][msg[c].boot]
  BY DEF Deliver, RequestsBehind
<1> QED
  BY <1>1, <1>2 DEF Deliver, AnswerIsTrue

LEMMA NextAckedIsStored ==
  /\ TypeOK /\ RequestsBehind /\ AnswerIsTrue /\ AckedIsStored /\ [Next]_vars
  => AckedIsStored'
<1> SUFFICES ASSUME TypeOK, RequestsBehind, AnswerIsTrue, AckedIsStored, [Next]_vars
             PROVE  AckedIsStored'
  OBVIOUS
<1>1. acked' \subseteq Stored
  BY TopWriters, DeliveredIsStored DEF AckedIsStored
<1> QED
  BY <1>1, StoredGrows DEF AckedIsStored

-----------------------------------------------------------------------------
LEMMA InitIndInv == Init => IndInv
<1> SUFFICES ASSUME Init PROVE IndInv
  OBVIOUS
<1>1. TypeOK /\ LockHeld
  BY InitType, InitLock
<1>2. Queued = {}
  BY DEF Init, Queued
<1>3. CursorIsNewest
  BY <1>2, BoundsAreNat DEF Init, CursorIsNewest
<1>4. ArchiveBehind /\ ArchiveInOrder
  BY DEF Init, ArchiveBehind, ArchiveInOrder
<1>5. RequestsBehind /\ FreshInHandler /\ FrameIsLast /\ CommitIsArchived /\ AnswerIsTrue
  BY DEF Init, RequestsBehind, FreshInHandler, FrameIsLast, CommitIsArchived, AnswerIsTrue
<1>6. AckedIsStored /\ QueuedIsArchived /\ QueuedOnce
  BY <1>2 DEF Init, AckedIsStored, QueuedIsArchived, QueuedOnce
<1> QED
  BY <1>1, <1>3, <1>4, <1>5, <1>6 DEF IndInv

LEMMA NextIndInv == IndInv /\ [Next]_vars => IndInv'
BY NextType, NextLock, NextRequestsBehind, NextCursorIsNewest, NextArchiveBehind,
   NextFresh, NextFrameIsLast, NextCommitIsArchived, NextAnswerIsTrue, NextAckedIsStored,
   NextQueuedIsArchived, NextQueuedOnce, NextArchiveInOrder
DEF IndInv

LEMMA Inductive == Spec => []IndInv
BY InitIndInv, NextIndInv, PTL DEF Spec

(* The sensor may discard what was acknowledged: it is synced in the       *)
(* archive and committed to the queue, through every interleaving of       *)
(* retries and every crash.                                                *)
THEOREM AckedIsAlwaysStored == Spec => []AckedIsStored
<1>1. IndInv => AckedIsStored
  BY DEF IndInv
<1> QED
  BY <1>1, Inductive, PTL

(* A queue row never outruns the archive.                                  *)
THEOREM QueuedIsAlwaysArchived == Spec => []QueuedIsArchived
<1>1. IndInv => QueuedIsArchived
  BY DEF IndInv
<1> QED
  BY <1>1, Inductive, PTL

(* Retries never put an identified batch into the queue twice.             *)
THEOREM QueuedAtMostOnce == Spec => []QueuedOnce
<1>1. IndInv => QueuedOnce
  BY DEF IndInv
<1> QED
  BY <1>1, Inductive, PTL

(* A late retry never lands behind its successor in the archive.           *)
THEOREM ArchiveAlwaysInOrder == Spec => []ArchiveInOrder
<1>1. IndInv => ArchiveInOrder
  BY DEF IndInv
<1> QED
  BY <1>1, Inductive, PTL

(* Concurrent handlers never move a cursor backwards.                      *)
THEOREM CursorIsMonotone == Spec => CursorNeverRegresses
<1>1. IndInv /\ [Next]_vars =>
        [\A s \in Sensors, b \in Boots : lastSeq[s][b] <= lastSeq'[s][b]]_vars
  BY CursorGrows DEF IndInv
<1> QED
  BY <1>1, Inductive, PTL DEF Spec, CursorNeverRegresses

(* A committed batch is never written to the archive again.                *)
THEOREM NoRewriteAfterCommit == Spec => CommittedIsNotRewritten
<1> DEFINE Act ==
      \A s \in Sensors \ Legacy :
        Len(wav'[s]) > Len(wav[s]) =>
          LET p == wav'[s][Len(wav'[s])] IN
          \A q \in Queued : <<q.sensor, q.boot, q.seq>> # <<s, p.boot, p.seq>>
<1>1. IndInv /\ [Next]_vars => [Act]_vars
  <2> SUFFICES ASSUME IndInv, [Next]_vars,
                      NEW s \in Sensors \ Legacy, Len(wav'[s]) > Len(wav[s]),
                      NEW q \in Queued
               PROVE  LET p == wav'[s][Len(wav'[s])] IN
                      <<q.sensor, q.boot, q.seq>> # <<s, p.boot, p.seq>>
    OBVIOUS
  <2>0. TypeOK /\ WavType /\ FreshInHandler /\ CursorIsNewest
    BY DEF IndInv, TypeOK
  <2>1. Len(wav[s]) \in Nat /\ wav[s] \in Seq(Packet)
    BY <2>0 DEF WavType
  <2>2. ~UNCHANGED wav
    BY <2>1
  <2>3. ~Crash
    <3> SUFFICES ASSUME Crash PROVE FALSE
      OBVIOUS
    <3>1. PICK kept \in Surviving : wav' = [r \in Sensors |-> SubSeq(wav[r], 1, kept[r])]
      BY DEF Crash
    <3>2. kept[s] \in 0 .. Len(wav[s])
      BY <2>0 DEF Surviving, WavType
    <3> QED
      BY <2>1, <3>1, <3>2
  <2>4. PICK c \in Conns : WriteFrames(c)
    BY <2>2, <2>3, WavWriters
  <2>5. msg[c] \in Packet
    BY <2>0, <2>4, BusyCarriesPacket DEF WriteFrames
  <2>6. wav'[s] = IF s = msg[c].sensor THEN Append(wav[s], msg[c]) ELSE wav[s]
    BY <2>0, <2>4 DEF WriteFrames, WavType
  <2>7. s = msg[c].sensor /\ wav'[s][Len(wav'[s])] = msg[c]
    BY <2>1, <2>5, <2>6
  <2>8. /\ lastSeq[s][msg[c].boot] < msg[c].seq
        /\ lastSeq[s][msg[c].boot] \in Int /\ msg[c].seq \in Int /\ msg[c].boot \in Boots
    <3>1. msg[c].boot \in Boots /\ msg[c].seq \in Int
      BY <2>5, BoundsAreNat DEF Packet, Seqs
    <3>2. lastSeq[s][msg[c].boot] < msg[c].seq
      BY <2>0, <2>4, <2>7 DEF WriteFrames, FreshInHandler, Identified, Last
    <3> QED
      BY <2>0, <3>1, <3>2, CursorGrows
  <2>9. q.sensor = s /\ q.boot = msg[c].boot => q.seq <= lastSeq[s][msg[c].boot]
    BY <2>0, <2>8 DEF CursorIsNewest
  <2> QED
    BY <2>7, <2>8, <2>9
<1> QED
  BY <1>1, Inductive, PTL DEF Spec, CommittedIsNotRewritten

(* The endpoint implements AckedStore: every step is a Store, an           *)
(* Acknowledge of a stored packet, or a stutter.                           *)
THEOREM ImplementsAckedStore == Spec => Implements
<1>1. Init => Abstract!Init
  BY DEF Init, Abstract!Init, Stored, Queued
<1>2. IndInv /\ [Next]_vars => [Abstract!Next]_(Abstract!storeVars)
  <2> SUFFICES ASSUME IndInv, [Next]_vars PROVE [Abstract!Next]_(Abstract!storeVars)
    OBVIOUS
  <2>1. TypeOK /\ RequestsBehind /\ AnswerIsTrue
    BY DEF IndInv
  <2>2. Stored \subseteq Stored' /\ Stored' \subseteq Packet
    <3>1. \A i \in 1 .. Len(jobs') : jobs'[i] \in Packet
      BY <2>1, NextType DEF TypeOK, DbType
    <3> QED
      BY <2>1, <3>1, StoredGrows DEF Stored, Queued
  <2>3. CASE UNCHANGED <<top, acked>>
    <3>1. Stored' = Stored \cup (Stored' \ Stored)
      BY <2>2
    <3>2. Abstract!Store
      BY <2>2, <2>3, <3>1 DEF Abstract!Store
    <3> QED
      BY <3>2 DEF Abstract!Next
  <2>4. ASSUME NEW c \in Conns, Deliver(c), Listening(c), status[c] = 200
        PROVE  Abstract!Next
    <3>1. msg[c] \in Stored /\ acked' = acked \cup {msg[c]} /\ msg[c] \in Packet
      BY <2>1, <2>4, DeliveredIsStored, BusyCarriesPacket DEF Deliver
    <3>2. UNCHANGED Stored
      BY <2>4 DEF Deliver, wavVars, dbVars, Stored, Queued, Archived
    <3> QED
      BY <3>1, <3>2 DEF Abstract!Next, Abstract!Acknowledge
  <2> QED
    BY <2>3, <2>4, TopWriters
<1> QED
  BY <1>1, <1>2, Inductive, PTL DEF Spec, Implements, Abstract!Spec
=============================================================================
