---------------------------- MODULE SensorIngest ----------------------------
(***************************************************************************)
(* POST /api/v1/ingest (runtime/ingest_api.py): a sensor's batch is        *)
(* appended to the WAV archive, committed to the SQLite queue together     *)
(* with the sensor's (boot_id, sequence) cursor, and acknowledged.         *)
(*                                                                         *)
(* Handlers run in uvicorn's thread pool and serialise on _ingest_lock;    *)
(* while one of them holds it, requests arrive, sensors time out and       *)
(* retry on another connection, the upload worker drains the queue, and    *)
(* the process may die.  The sensor firmware is not part of the            *)
(* repository: it is the stop-and-wait client the comment in               *)
(* wav_writer.py:261-262 describes, which keeps one pending packet until   *)
(* it sees an acknowledgement.                                             *)
(***************************************************************************)
EXTENDS Integers, Sequences

CONSTANTS
  Sensors,    \* MAC addresses
  Legacy,     \* sensors whose packets carry no boot_id/sequence
  Conns,      \* HTTP connections: limit_concurrency of uvicorn
  NoConn,     \* "no connection"
  Payloads,   \* encodings of a batch: what payload_hash tells apart
  NoPayload,  \* no hash stored yet
  NoPacket,   \* what an idle connection carries
  MaxBoot,    \* bound: a sensor restarts at most this often
  MaxSeq,     \* bound: batches per boot
  MaxFaults   \* bound: failures of network, disk, database and process

ASSUME SensorIngestAssumption ==
  /\ Legacy \subseteq Sensors
  /\ NoConn \notin Conns
  /\ NoPayload \notin Payloads
  /\ MaxBoot \in Nat /\ MaxSeq \in Nat \ {0} /\ MaxFaults \in Nat

Boots == 0 .. MaxBoot
Seqs  == 0 .. MaxSeq - 1

\* A batch as it travels: its identity, and the encoding that is hashed.
Packet == [sensor : Sensors, boot : Boots, seq : Seqs, payload : Payloads]

ASSUME NoPacketAssumption == NoPacket \notin Packet

VARIABLES
  boot,       \* sensor: current boot_id
  top,        \* sensor: top[s][b] batches acknowledged in boot b; the pending
              \*         packet has sequence top[s][boot[s]]
  live,       \* sensor: the connection it is waiting on
  acked,      \* history: packets the sensor saw acknowledged with status 200
  pc,         \* handler of each connection
  msg,        \* the packet of each connection (NoPacket when idle)
  status,     \* the HTTP status a finished handler returns
  ingestLock, \* holder of _ingest_lock
  wav,        \* wav[s]: packets in the sensor's WAV chunks, in file order
  synced,     \* synced[s]: how many of them an fsync covers
  lastSeq,    \* SensorBatchCursor.last_sequence per sensor and boot, -1: no row
  lastHash,   \* SensorBatchCursor.last_payload_hash
  jobs,       \* IngestJob rows ever committed, in id order
  rowGone,    \* the upload worker deleted the row whose handler is refreshing it
  faults      \* failures so far

sensorVars  == <<boot, top, live, acked>>
handlerVars == <<pc, msg, status, ingestLock>>
wavVars     == <<wav, synced>>
cursorVars  == <<lastSeq, lastHash>>
dbVars      == <<cursorVars, jobs, rowGone>>
vars == <<sensorVars, handlerVars, wavVars, dbVars, faults>>

Init ==
  /\ boot   = [s \in Sensors |-> 0]
  /\ top    = [s \in Sensors |-> [b \in Boots |-> 0]]
  /\ live   = [s \in Sensors |-> NoConn]
  /\ acked  = {}
  /\ pc     = [c \in Conns |-> "idle"]
  /\ msg    = [c \in Conns |-> NoPacket]
  /\ status = [c \in Conns |-> 0]
  /\ ingestLock = NoConn
  /\ wav    = [s \in Sensors |-> << >>]
  /\ synced = [s \in Sensors |-> 0]
  /\ lastSeq  = [s \in Sensors |-> [b \in Boots |-> -1]]
  /\ lastHash = [s \in Sensors |-> [b \in Boots |-> NoPayload]]
  /\ jobs    = << >>
  /\ rowGone = FALSE
  /\ faults  = 0

-----------------------------------------------------------------------------
Fault == faults < MaxFaults /\ faults' = faults + 1

Pending(s, p) ==
  [sensor |-> s, boot |-> boot[s], seq |-> top[s][boot[s]], payload |-> p]

\* Seeded bug: the lock outlives its handler.
FinishLocked(c, code) ==
  /\ pc' = [pc EXCEPT ![c] = "reply"]
  /\ status' = [status EXCEPT ![c] = code]
  /\ UNCHANGED <<msg, ingestLock>>

\* Handler c goes to `to'; a handler that ends releases _ingest_lock and
\* leaves its status for the connection to deliver.
Goto(c, to)    == pc' = [pc EXCEPT ![c] = to] /\ UNCHANGED <<msg, status, ingestLock>>
Finish(c, code) ==
  /\ pc' = [pc EXCEPT ![c] = "reply"]
  /\ status' = [status EXCEPT ![c] = code]
  /\ ingestLock' = NoConn
  /\ UNCHANGED msg

\* A connection ends, and a sensor that waits on it is free to try again.
Hangup(c) ==
  /\ pc' = [pc EXCEPT ![c] = "idle"]
  /\ msg' = [msg EXCEPT ![c] = NoPacket]
  /\ status' = [status EXCEPT ![c] = 0]
  /\ UNCHANGED ingestLock

Listening(c) == live[msg[c].sensor] = c
StopListening(c) ==
  live' = IF Listening(c) THEN [live EXCEPT ![msg[c].sensor] = NoConn] ELSE live

-----------------------------------------------------------------------------
(* The sensor and the network (external). *)

\* The sensor sends, or sends again, its pending packet.  A retry may be
\* encoded anew when Payloads has several members.
Send(s, c) ==
  /\ live[s] = NoConn
  /\ pc[c] = "idle"
  /\ top[s][boot[s]] < MaxSeq
  /\ \E p \in Payloads : msg' = [msg EXCEPT ![c] = Pending(s, p)]
  /\ pc' = [pc EXCEPT ![c] = "waiting"]
  /\ live' = [live EXCEPT ![s] = c]
  /\ UNCHANGED <<boot, top, acked, status, ingestLock, wavVars, dbVars, faults>>

\* The sensor gives up on an answer; its handler runs on in the thread pool.
Timeout(s) ==
  /\ Fault
  /\ live[s] # NoConn
  /\ live' = [live EXCEPT ![s] = NoConn]
  /\ UNCHANGED <<boot, top, acked, handlerVars, wavVars, dbVars>>

\* The connection breaks before the handler runs.
DropRequest(c) ==
  /\ Fault
  /\ pc[c] = "waiting"
  /\ Hangup(c)
  /\ StopListening(c)
  /\ UNCHANGED <<boot, top, acked, wavVars, dbVars>>

\* The response arrives.  Only a sensor still waiting on this connection
\* reads it; on status 200 it discards the pending packet.
Deliver(c) ==
  LET p == msg[c] IN
  /\ pc[c] = "reply"
  /\ Hangup(c)
  /\ StopListening(c)
  /\ IF Listening(c) /\ status[c] = 200
     THEN /\ acked' = acked \cup {p}
          /\ top' = [top EXCEPT ![p.sensor][p.boot] = @ + 1]
     ELSE UNCHANGED <<acked, top>>
  /\ UNCHANGED <<boot, wavVars, dbVars, faults>>

\* The sensor restarts: a new boot_id, sequences from 0, pending packet gone.
SensorReboot(s) ==
  /\ boot[s] < MaxBoot
  /\ boot' = [boot EXCEPT ![s] = @ + 1]
  /\ live' = [live EXCEPT ![s] = NoConn]
  /\ UNCHANGED <<top, acked, handlerVars, wavVars, dbVars, faults>>

-----------------------------------------------------------------------------
(* ingest_data / _ingest_data *)

\* Seeded bug: handlers do not serialise.
LockIgnored == TRUE

LockFree == ingestLock = NoConn
Acquire(c) == pc[c] = "waiting" /\ LockFree

Identified(p) == p.sensor \notin Legacy
Last(p) == lastSeq[p.sensor][p.boot]

\* Seeded bugs in the cursor comparison: only older packets, or only the last
\* one, count as replays.
OlderOnly(p) == Identified(p) /\ p.seq < Last(p)
LastOnly(p)  == Identified(p) /\ p.seq = Last(p)

Replayed(p) == Identified(p) /\ p.seq <= Last(p)
Conflicting(p) == p.seq = Last(p) /\ p.payload # lastHash[p.sensor][p.boot]

\* Not seen before: go on to the archive, holding the lock.
Admit(c) ==
  /\ Acquire(c)
  /\ ~Replayed(msg[c])
  /\ ingestLock' = c
  /\ pc' = [pc EXCEPT ![c] = "append"]
  /\ UNCHANGED <<sensorVars, msg, status, wavVars, dbVars, faults>>

AckDuplicate(c) ==
  /\ Acquire(c)
  /\ Replayed(msg[c]) /\ ~Conflicting(msg[c])
  /\ Finish(c, 200)
  /\ UNCHANGED <<sensorVars, wavVars, dbVars, faults>>

RejectConflict(c) ==
  /\ Acquire(c)
  /\ Replayed(msg[c]) /\ Conflicting(msg[c])
  /\ Finish(c, 409)
  /\ UNCHANGED <<sensorVars, wavVars, dbVars, faults>>

\* The cursor query is outside any try: a database error is a bare 500.
LookupFails(c) ==
  /\ Fault
  /\ Acquire(c)
  /\ Identified(msg[c])
  /\ Finish(c, 500)
  /\ UNCHANGED <<sensorVars, wavVars, dbVars>>

\* wav_writer refuses before it writes: 507, or 500 for an OSError or a
\* ValueError, which the handler does not catch.
RefuseStorage(c) ==
  /\ Fault
  /\ pc[c] = "append"
  /\ \E code \in {500, 507} : Finish(c, code)
  /\ UNCHANGED <<sensorVars, wavVars, dbVars>>

\* writer.writeframes(): the frames are in the file, not yet on the disk.
WriteFrames(c) ==
  LET s == msg[c].sensor IN
  /\ pc[c] = "append"
  /\ wav' = [wav EXCEPT ![s] = Append(@, msg[c])]
  /\ Goto(c, "flush")
  /\ UNCHANGED <<sensorVars, synced, dbVars, faults>>

\* Seeded bug: the flush is left to the next FLUSH_INTERVAL_SEC.
FlushLater(c) ==
  /\ pc[c] = "flush"
  /\ Goto(c, "commit")
  /\ UNCHANGED <<sensorVars, wavVars, dbVars, faults>>

\* _flush_if_due(force=True)
FlushBatch(c) ==
  LET s == msg[c].sensor IN
  /\ pc[c] = "flush"
  /\ synced' = [synced EXCEPT ![s] = Len(wav[s])]
  /\ Goto(c, "commit")
  /\ UNCHANGED <<sensorVars, wav, dbVars, faults>>

\* flush or fsync raises OSError, which nobody catches: 500, and the frames
\* stay in the file.
FlushFails(c) ==
  /\ Fault
  /\ pc[c] = "flush"
  /\ Finish(c, 500)
  /\ UNCHANGED <<sensorVars, wavVars, dbVars>>

\* Seeded bug: the cursor names the next batch instead of the last one.
AdvanceTooFar(p) ==
  IF Identified(p)
  THEN /\ lastSeq'  = [lastSeq EXCEPT ![p.sensor][p.boot] = p.seq + 1]
       /\ lastHash' = [lastHash EXCEPT ![p.sensor][p.boot] = p.payload]
  ELSE UNCHANGED cursorVars

AdvanceCursor(p) ==
  IF Identified(p)
  THEN /\ lastSeq'  = [lastSeq EXCEPT ![p.sensor][p.boot] = p.seq]
       /\ lastHash' = [lastHash EXCEPT ![p.sensor][p.boot] = p.payload]
  ELSE UNCHANGED cursorVars

\* One transaction: the queue row and the cursor.
Commit(c) ==
  /\ pc[c] = "commit"
  /\ jobs' = Append(jobs, msg[c])
  /\ AdvanceCursor(msg[c])
  /\ Goto(c, "refresh")
  /\ UNCHANGED <<sensorVars, wavVars, rowGone, faults>>

\* Seeded bug: a failed commit is answered as a success.
CommitFailureHidden(c) ==
  /\ Fault
  /\ pc[c] = "commit"
  /\ Finish(c, 200)
  /\ UNCHANGED <<sensorVars, wavVars, dbVars>>

CommitFails(c) ==
  /\ Fault
  /\ pc[c] = "commit"
  /\ Finish(c, 503)
  /\ UNCHANGED <<sensorVars, wavVars, dbVars>>

\* db.refresh(job), inside the same try: it raises when the upload worker
\* has already deleted the row, and the committed batch is answered 503.
Refresh(c) ==
  /\ pc[c] = "refresh"
  /\ Finish(c, IF rowGone THEN 503 ELSE 200)
  /\ rowGone' = FALSE
  /\ UNCHANGED <<sensorVars, wavVars, cursorVars, jobs, faults>>

-----------------------------------------------------------------------------
(* The rest of the gateway. *)

\* The upload worker (see UploadWorker) delivers and deletes queue rows at any
\* time.  A handler notices only when its own row goes between its commit and
\* its refresh; a legacy batch is then queued again, so the bound applies.
DrainRow ==
  /\ Fault
  /\ ~rowGone
  /\ \E c \in Conns : pc[c] = "refresh"
  /\ rowGone' = TRUE
  /\ UNCHANGED <<sensorVars, handlerVars, wavVars, cursorVars, jobs>>

\* Seeded bug: frames are lost although they were synced.
SurvivingAny ==
  {kept \in [Sensors -> UNION {0 .. Len(wav[s]) : s \in Sensors}] :
     \A s \in Sensors : kept[s] \in 0 .. Len(wav[s])}

\* The process or the machine dies and is started again: connections and the
\* lock are gone, the database is as last committed (synchronous=FULL), and
\* each archive keeps what was synced and any prefix of the rest.
Surviving ==
  {kept \in [Sensors -> UNION {synced[s] .. Len(wav[s]) : s \in Sensors}] :
     \A s \in Sensors : kept[s] \in synced[s] .. Len(wav[s])}

Crash ==
  /\ Fault
  /\ pc' = [c \in Conns |-> "idle"]
  /\ msg' = [c \in Conns |-> NoPacket]
  /\ status' = [c \in Conns |-> 0]
  /\ ingestLock' = NoConn
  /\ live' = [s \in Sensors |-> NoConn]
  /\ \E kept \in Surviving :
       /\ wav' = [s \in Sensors |-> SubSeq(wav[s], 1, kept[s])]
       /\ synced' = kept
  /\ rowGone' = FALSE
  /\ UNCHANGED <<boot, top, acked, cursorVars, jobs>>

-----------------------------------------------------------------------------
HandlerStep(c) ==
  \/ Admit(c) \/ AckDuplicate(c) \/ RejectConflict(c) \/ LookupFails(c)
  \/ RefuseStorage(c) \/ WriteFrames(c) \/ FlushBatch(c) \/ FlushFails(c)
  \/ Commit(c) \/ CommitFails(c) \/ Refresh(c)

Next ==
  \/ \E s \in Sensors : Timeout(s) \/ SensorReboot(s) \/ \E c \in Conns : Send(s, c)
  \/ \E c \in Conns : DropRequest(c) \/ Deliver(c) \/ HandlerStep(c)
  \/ DrainRow
  \/ Crash

Spec == Init /\ [][Next]_vars

\* The thread pool runs every handler on, uvicorn delivers what it returns,
\* and a sensor keeps retrying.  Nothing forces a fault, a restart or a drain.
Fairness ==
  /\ \A s \in Sensors : WF_vars(\E c \in Conns : Send(s, c))
  /\ \A c \in Conns : WF_vars(HandlerStep(c)) /\ WF_vars(Deliver(c))

FairSpec == Spec /\ Fairness

-----------------------------------------------------------------------------
Archived(s) == {wav[s][i] : i \in 1 .. synced[s]}
Queued == {jobs[i] : i \in 1 .. Len(jobs)}

\* Packets on the disk, in the archive as well as in the queue's history.
Stored == {p \in Queued : p \in Archived(p.sensor)}

Held == {"append", "flush", "commit", "refresh"}

SensorType ==
  /\ boot \in [Sensors -> Boots]
  /\ top \in [Sensors -> [Boots -> Nat]]
  /\ live \in [Sensors -> Conns \cup {NoConn}]
  /\ acked \subseteq Packet

HandlerType ==
  /\ pc \in [Conns -> {"idle", "waiting", "reply"} \cup Held]
  /\ msg \in [Conns -> Packet \cup {NoPacket}]
  /\ status \in [Conns -> {0, 200, 409, 500, 503, 507}]
  /\ ingestLock \in Conns \cup {NoConn}
  /\ \A c \in Conns : pc[c] = "idle" <=> msg[c] = NoPacket

WavType ==
  /\ wav \in [Sensors -> Seq(Packet)]
  /\ synced \in [Sensors -> Nat]
  /\ \A s \in Sensors : synced[s] <= Len(wav[s])

DbType ==
  /\ lastSeq \in [Sensors -> [Boots -> -1 .. MaxSeq - 1]]
  /\ lastHash \in [Sensors -> [Boots -> Payloads \cup {NoPayload}]]
  /\ jobs \in Seq(Packet)
  /\ rowGone \in BOOLEAN

(* The variables have their types, exactly the busy connections carry a    *)
(* packet, and no archive claims to have synced more than it holds.        *)
TypeOK ==
  SensorType /\ HandlerType /\ WavType /\ DbType /\ faults \in 0 .. MaxFaults

(* "Persist every accepted batch": a packet the sensor saw acknowledged,   *)
(* in the very encoding that was acknowledged, is on the disk in its WAV   *)
(* archive and was committed to the queue, whatever crashed meanwhile.     *)
AckedIsStored == acked \subseteq Stored

(* A queue row never speaks of samples the archive may still lose: the     *)
(* batch of every committed row is already covered by an fsync.            *)
QueuedIsArchived == \A p \in Queued : p \in Archived(p.sensor)

(* A batch with an identity enters the upload queue once, however often    *)
(* and over however many connections it is sent.                           *)
QueuedOnce ==
  \A i, j \in 1 .. Len(jobs) :
    /\ Identified(jobs[i])
    /\ <<jobs[i].sensor, jobs[i].boot, jobs[i].seq>>
         = <<jobs[j].sensor, jobs[j].boot, jobs[j].seq>>
    => i = j

(* Within one boot an identified sensor's samples stand in its WAV file in *)
(* the order they were taken: a late retry never lands behind its          *)
(* successor.                                                              *)
ArchiveInOrder ==
  \A s \in Sensors \ Legacy : \A i, j \in 1 .. Len(wav[s]) :
    i < j /\ wav[s][i].boot = wav[s][j].boot => wav[s][i].seq <= wav[s][j].seq

(* A replay of a batch that was committed once is not written to the       *)
(* archive again.                                                          *)
CommittedIsNotRewritten ==
  [][\A s \in Sensors \ Legacy :
       Len(wav'[s]) > Len(wav[s]) =>
         LET p == wav'[s][Len(wav'[s])] IN
         \A q \in Queued : <<q.sensor, q.boot, q.seq>> # <<s, p.boot, p.seq>>]_vars

(* The cursor of a boot never moves backwards, although handlers of old    *)
(* and new packets of one sensor run side by side.                         *)
CursorNeverRegresses ==
  [][\A s \in Sensors, b \in Boots : lastSeq[s][b] <= lastSeq'[s][b]]_vars

(* The endpoint keeps the promise AckedStore states.                       *)
Abstract == INSTANCE AckedStore WITH stored <- Stored
Implements == Abstract!Spec

(* A pending packet is eventually acknowledged, or its sensor restarts.    *)
PendingIsAcked ==
  \A s \in Sensors, b \in Boots, n \in Seqs :
    (boot[s] = b /\ top[s][b] = n) ~> (boot[s] # b \/ top[s][b] > n)

-----------------------------------------------------------------------------
(* The inductive invariant behind the safety properties.                   *)

\* The lock is held exactly while a handler is between Admit and its return.
LockHeld == \A c \in Conns : pc[c] \in Held <=> ingestLock = c

\* No request is ahead of its sensor, and the one the sensor waits on is not
\* behind it either.
RequestsBehind ==
  \A c \in Conns : pc[c] # "idle" =>
    LET p == msg[c] IN
    /\ p.seq <= top[p.sensor][p.boot]
    /\ Listening(c) => p.seq = top[p.sensor][p.boot]

\* The cursor row is the newest committed batch of its boot, and is at most
\* one batch ahead of what the sensor knows to be acknowledged.
CursorIsNewest ==
  \A s \in Sensors \ Legacy, b \in Boots :
    /\ lastSeq[s][b] \in top[s][b] - 1 .. top[s][b]
    /\ lastSeq[s][b] >= 0 =>
         [sensor |-> s, boot |-> b, seq |-> lastSeq[s][b], payload |-> lastHash[s][b]]
           \in Queued
    /\ \A p \in Queued : p.sensor = s /\ p.boot = b => p.seq <= lastSeq[s][b]

ArchiveBehind ==
  \A s \in Sensors : \A i \in 1 .. Len(wav[s]) :
    /\ wav[s][i].sensor = s
    /\ wav[s][i].seq <= top[s][wav[s][i].boot]

\* A handler past the cursor check carries a packet beyond the cursor.
FreshInHandler ==
  \A c \in Conns :
    pc[c] \in {"append", "flush", "commit"} /\ Identified(msg[c])
      => Last(msg[c]) < msg[c].seq

\* Nothing is written behind the frames a handler is about to flush.
FrameIsLast ==
  \A c \in Conns : pc[c] = "flush" =>
    LET s == msg[c].sensor IN Len(wav[s]) > 0 /\ wav[s][Len(wav[s])] = msg[c]

CommitIsArchived ==
  \A c \in Conns : pc[c] = "commit" => msg[c] \in Archived(msg[c].sensor)

\* An answer 200 is about a stored packet, or about one its sensor has long
\* stopped waiting for.
AnswerIsTrue ==
  \A c \in Conns : pc[c] = "refresh" \/ (pc[c] = "reply" /\ status[c] = 200) =>
    LET p == msg[c] IN
    /\ Identified(p) => p.seq <= Last(p)
    /\ p \in Stored \/ (Identified(p) /\ p.seq < top[p.sensor][p.boot])

IndInv ==
  /\ TypeOK /\ LockHeld /\ RequestsBehind /\ CursorIsNewest /\ ArchiveBehind
  /\ FreshInHandler /\ FrameIsLast /\ CommitIsArchived /\ AnswerIsTrue
  /\ AckedIsStored /\ QueuedIsArchived /\ QueuedOnce /\ ArchiveInOrder
=============================================================================
