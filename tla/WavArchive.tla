----------------------------- MODULE WavArchive -----------------------------
(***************************************************************************)
(* The raw archive: runtime/wav_writer.py fills .wav.part chunks, one open *)
(* writer per sensor and at most wav_max_open_writers of them, and renames *)
(* finished chunks to .wav; runtime/wav_uploader.py sends .wav files to    *)
(* the cloud and deletes those the cloud acknowledged.                     *)
(*                                                                         *)
(* Ingest handlers and the idle finalizer, which runs in a thread of the   *)
(* uploader, serialise on wav_writer._lock; the uploader's scan, its       *)
(* requests and the death of the process interleave with the steps of a    *)
(* write.  The fsync behind each append is SensorIngest's subject: here an *)
(* append is durable.  Of a chunk's content only its number of batches is  *)
(* kept.  The cloud is external.                                           *)
(***************************************************************************)
EXTENDS Integers, Sequences, FiniteSets

CONSTANTS
  Sensors,
  NoSensor,
  Chunks,      \* chunk files, each name used once
  NoChunk,
  Buckets,     \* time windows of wav_chunk_minutes
  Poison,      \* chunks the cloud refuses for good (400, 409, 422)
  MaxOpen,     \* wav_max_open_writers
  MaxPending,  \* wav_max_pending_files
  MaxSize,     \* bound: batches per chunk
  MaxFaults    \* bound: failures of disk, network, cloud and process

ASSUME WavArchiveAssumption ==
  /\ IsFiniteSet(Chunks)
  /\ NoSensor \notin Sensors /\ NoChunk \notin Chunks
  /\ Buckets \subseteq Nat
  /\ Poison \subseteq Chunks
  /\ MaxOpen \in Nat \ {0} /\ MaxPending \in Nat \ {0}
  /\ MaxSize \in Nat \ {0} /\ MaxFaults \in Nat

VARIABLES
  file,      \* file[k]: "free", "part", "wav", "gone" (deleted) or "stuck", a
             \*          part that recover_part_files will never finalize
  size,      \* size[k]: batches in the chunk (kept when the file is deleted)
  bucket,    \* bucket[k]: window of _started_at, which the name carries
  writers,   \* _writers: sensors with a writer, least recently used first
  open,      \* open[s]: the chunk of the sensor's writer, if it has one
  idle,      \* sensors whose writer has not written for idle_seconds
  cache,     \* _storage_cache: pending_files as last counted, -1 for None
  step,      \* where the write that holds _lock stands
  sensor,    \* its sensor
  window,    \* and the window of its samples
  stage,     \* where the uploader stands
  todo,      \* completed files it has still to send in this round
  sending,   \* the file whose answer it awaits
  backoff,   \* files whose next_attempt has not come
  wire,      \* uploads the cloud has not handled, <<chunk, batches>>
  answer,    \* the answer on its way back
  cloud,     \* cloud[k]: batches of the chunk's object, -1 without one
  faults

fileVars   == <<file, size, bucket>>
writerVars == <<writers, open, idle, cache, step, sensor, window>>
uploadVars == <<stage, todo, sending, backoff>>
netVars    == <<wire, answer, cloud>>
vars == <<fileVars, writerVars, uploadVars, netVars, faults>>

Init ==
  /\ file = [k \in Chunks |-> "free"]
  /\ size = [k \in Chunks |-> 0]
  /\ bucket = [k \in Chunks |-> 0]
  /\ writers = << >> /\ open = [s \in Sensors |-> NoChunk] /\ idle = {}
  /\ cache = -1
  /\ step = "free" /\ sensor = NoSensor /\ window = 0
  /\ stage = "scan" /\ todo = {} /\ sending = NoChunk /\ backoff = {}
  /\ wire = {} /\ answer = "none" /\ cloud = [k \in Chunks |-> -1]
  /\ faults = 0

Fault == faults < MaxFaults /\ faults' = faults + 1

-----------------------------------------------------------------------------
(* wav_writer *)

Completed == {k \in Chunks : file[k] = "wav"}
InUse     == {s \in Sensors : \E i \in 1 .. Len(writers) : writers[i] = s}
OpenChunk == {open[s] : s \in Sensors} \ {NoChunk}

\* The keys of _writers without those of S, in their order.
Without(S) ==
  LET kept[n \in 0 .. Len(writers)] ==
        IF n = 0 THEN << >>
        ELSE IF writers[n] \in S THEN kept[n - 1] ELSE Append(kept[n - 1], writers[n])
  IN kept[Len(writers)]

\* storage_status: the cached count, or a fresh one that becomes the cache.
\* Forgetting the cache after 30 seconds is CacheExpires.
PendingFiles == IF cache = -1 THEN Cardinality(Completed) ELSE cache

\* Seeded bug: the limit is tested off by one.
RoomForOneMore == PendingFiles <= MaxPending

HasCapacity  == PendingFiles < MaxPending

\* The write leaves write_samples, with or without an exception.
Leave == step' = "free" /\ sensor' = NoSensor /\ UNCHANGED window

\* _close_current of the writers of S: each chunk becomes visible.
Close(S) ==
  LET closed == {open[s] : s \in S} \ {NoChunk} IN
  /\ file' = [k \in Chunks |-> IF k \in closed THEN "wav" ELSE file[k]]
  /\ open' = [s \in Sensors |-> IF s \in S THEN NoChunk ELSE open[s]]
  /\ cache' = IF closed = {} THEN cache ELSE -1
  /\ UNCHANGED <<size, bucket>>

\* _close_current of s raises, after the writers of S were closed: before the
\* rename, and the chunk stays a part without a writer, or in the fsync of the
\* directory, and the count goes stale.
CloseFails(s, S) ==
  LET closed == {open[r] : r \in S} \ {NoChunk} IN
  /\ Fault
  /\ open[s] # NoChunk
  /\ \E renamed \in BOOLEAN :
       file' = [k \in Chunks |->
         IF k \in closed \/ (renamed /\ k = open[s]) THEN "wav" ELSE file[k]]
  /\ open' = [r \in Sensors |-> IF r \in S \cup {s} THEN NoChunk ELSE open[r]]
  /\ cache' = IF closed = {} THEN cache ELSE -1
  /\ UNCHANGED <<size, bucket>>

\* Bound: a write begins only if a chunk can take its batch.
Room(s, b) ==
  /\ \E k \in Chunks : file[k] = "free"
  /\ open[s] # NoChunk /\ bucket[open[s]] = b => size[open[s]] < MaxSize

\* write_samples finds the sensor's writer ...
Begin(s, b) ==
  /\ step = "free"
  /\ s \in InUse /\ Room(s, b)
  /\ writers' = Append(Without({s}), s)
  /\ step' = "check" /\ sensor' = s /\ window' = b
  /\ UNCHANGED <<fileVars, open, idle, cache, uploadVars, netVars, faults>>

\* ... or makes one, after closing the least recently used one when there
\* are too many.
Admitted(s, b, rest) ==
  /\ step = "free"
  /\ s \notin InUse /\ Room(s, b)
  /\ writers' = Append(rest, s)
  /\ idle' = idle \cap {rest[i] : i \in 1 .. Len(rest)}
  /\ step' = "check" /\ sensor' = s /\ window' = b
  /\ UNCHANGED <<uploadVars, netVars>>

BeginNew(s, b) ==
  /\ Len(writers) < MaxOpen
  /\ Admitted(s, b, writers)
  /\ UNCHANGED <<fileVars, open, cache, faults>>

BeginEvicting(s, b) ==
  /\ Len(writers) >= MaxOpen
  /\ Admitted(s, b, Tail(writers))
  /\ \E evicted \in InUse : evicted = Head(writers) /\ Close({evicted})
  /\ UNCHANGED faults

EvictionFails(s) ==
  /\ step = "free"
  /\ s \notin InUse /\ Len(writers) >= MaxOpen
  /\ \E evicted \in InUse : evicted = Head(writers) /\ CloseFails(evicted, {})
  /\ writers' = Tail(writers)
  /\ idle' = idle \ {Head(writers)}
  /\ UNCHANGED <<step, sensor, window, uploadVars, netVars>>

\* _SensorWriter.write, first _ensure_storage_capacity
Check ==
  /\ step = "check"
  /\ cache' = PendingFiles
  /\ IF ~HasCapacity
     THEN Leave
     ELSE /\ step' = IF open[sensor] = NoChunk THEN "open"
                     ELSE IF bucket[open[sensor]] # window THEN "rotate" ELSE "append"
          /\ UNCHANGED <<sensor, window>>
  /\ UNCHANGED <<fileVars, writers, open, idle, uploadVars, netVars, faults>>

Rotate ==
  /\ step = "rotate"
  /\ Close({sensor})
  /\ step' = "open"
  /\ UNCHANGED <<writers, idle, sensor, window, uploadVars, netVars, faults>>

RotationFails ==
  /\ step = "rotate"
  /\ CloseFails(sensor, {})
  /\ Leave
  /\ UNCHANGED <<writers, idle, uploadVars, netVars>>

\* _open_new_chunk, second _ensure_storage_capacity
RefuseToOpen ==
  /\ step = "open"
  /\ ~HasCapacity
  /\ cache' = PendingFiles
  /\ Leave
  /\ UNCHANGED <<fileVars, writers, open, idle, uploadVars, netVars, faults>>

OpenNewChunk(k) ==
  /\ step = "open"
  /\ HasCapacity
  /\ cache' = PendingFiles
  /\ file[k] = "free"
  /\ file' = [file EXCEPT ![k] = "part"]
  /\ bucket' = [bucket EXCEPT ![k] = window]
  /\ open' = [open EXCEPT ![sensor] = k]
  /\ step' = "append"
  /\ UNCHANGED <<size, writers, idle, sensor, window, uploadVars, netVars, faults>>

AppendBatch ==
  /\ step = "append"
  /\ size' = [size EXCEPT ![open[sensor]] = @ + 1]
  /\ idle' = idle \ {sensor}
  /\ Leave
  /\ UNCHANGED <<file, bucket, writers, open, cache, uploadVars, netVars, faults>>

\* OSError of open, writeframes or fsync.
WriteFails ==
  /\ Fault
  /\ step \in {"open", "append"}
  /\ Leave
  /\ UNCHANGED <<fileVars, writers, open, idle, cache, uploadVars, netVars>>

-----------------------------------------------------------------------------
(* Time passes. *)

GoesIdle(s) ==
  /\ s \in InUse \ idle
  /\ idle' = idle \cup {s}
  /\ UNCHANGED <<fileVars, writers, open, cache, step, sensor, window, uploadVars, netVars, faults>>

CacheExpires ==
  /\ cache # -1
  /\ cache' = -1
  /\ UNCHANGED <<fileVars, writers, open, idle, step, sensor, window, uploadVars, netVars, faults>>

BackoffEnds(k) ==
  /\ k \in backoff
  /\ backoff' = backoff \ {k}
  /\ UNCHANGED <<fileVars, writerVars, stage, todo, sending, netVars, faults>>

-----------------------------------------------------------------------------
(* wav_uploader.upload_loop *)

\* Seeded bug: idle writers are left to the next rotation.
FinalizeNone ==
  /\ stage = "scan" /\ step = "free"
  /\ stage' = "list"
  /\ UNCHANGED <<fileVars, writerVars, todo, sending, backoff, netVars, faults>>

\* finalize_idle_writers, under _lock
FinalizeIdle ==
  /\ stage = "scan" /\ step = "free"
  /\ Close(idle)
  /\ writers' = Without(idle)
  /\ idle' = {}
  /\ stage' = "list"
  /\ UNCHANGED <<step, sensor, window, todo, sending, backoff, netVars, faults>>

\* The i-th of them cannot be closed: the exception ends the round, and that
\* writer keeps its entry, now without a chunk.
FinalizeFails(i) ==
  /\ stage = "scan" /\ step = "free"
  /\ writers[i] \in idle
  /\ LET S == idle \cap {writers[j] : j \in 1 .. i - 1} IN
     /\ CloseFails(writers[i], S)
     /\ writers' = Without(S)
     /\ idle' = idle \ S
  /\ UNCHANGED <<step, sensor, window, uploadVars, netVars>>

\* The oldest file of S; equal timestamps come in any order.
Earliest(S) == {k \in S : \A i \in S : bucket[k] <= bucket[i]}

\* Seeded bug: the finder also matches active .wav.part files.
ListParts ==
  /\ stage = "list"
  /\ LET found == {k \in Chunks : file[k] \in {"wav", "part"}} IN
     /\ backoff' = backoff \cap found
     /\ IF found = {} THEN stage' = "scan" /\ UNCHANGED todo
        ELSE stage' = "send" /\ todo' = found
  /\ UNCHANGED <<fileVars, writerVars, sending, netVars, faults>>

\* _find_completed_wavs; only the first file's backoff is looked at.
List ==
  /\ stage = "list"
  /\ backoff' = backoff \cap Completed
  /\ \/ Completed = {} /\ stage' = "scan" /\ UNCHANGED todo
     \/ \E k \in Earliest(Completed) :
          IF k \in backoff
          THEN stage' = "scan" /\ UNCHANGED todo
          ELSE stage' = "send" /\ todo' = Completed
  /\ UNCHANGED <<fileVars, writerVars, sending, netVars, faults>>

\* The file is hashed, its metadata read, and the request sent.
Send(k) ==
  /\ stage = "send"
  /\ k \in Earliest(todo)
  /\ sending' = k
  /\ wire' = wire \cup {<<k, size[k]>>}
  /\ answer' = "none"
  /\ stage' = "await"
  /\ UNCHANGED <<fileVars, writerVars, todo, backoff, cloud, faults>>

\* Seeded bug: a failure ends the task, not the round.
EndTask(k) ==
  /\ backoff' = backoff \cup {k}
  /\ stage' = "ended" /\ todo' = {} /\ sending' = NoChunk
  /\ answer' = "none"
  /\ UNCHANGED <<fileVars, writerVars, wire, cloud>>

\* Every failure ends the round: later files wait for the next one.
BreakOff(k) ==
  /\ backoff' = backoff \cup {k}
  /\ stage' = "scan" /\ todo' = {} /\ sending' = NoChunk
  /\ answer' = "none"
  /\ UNCHANGED <<fileVars, writerVars, wire, cloud>>

\* The file cannot be read.
SendFails(k) ==
  /\ Fault
  /\ stage = "send"
  /\ k \in Earliest(todo)
  /\ BreakOff(k)

\* Seeded bug: the hash in the acknowledgement is not compared.
AcknowledgedUnchecked ==
  /\ stage = "await" /\ answer \in {"stored", "mismatch"}
  /\ file' = [file EXCEPT ![sending] = "gone"]
  /\ backoff' = backoff \ {sending}
  /\ cache' = -1
  /\ todo' = todo \ {sending}
  /\ stage' = IF todo = {sending} THEN "scan" ELSE "send"
  /\ sending' = NoChunk /\ answer' = "none"
  /\ UNCHANGED <<size, bucket, writers, open, idle, step, sensor, window, wire, cloud, faults>>

\* 200 or 201 whose s3_key carries the hash of the file
Acknowledged ==
  /\ stage = "await" /\ answer = "stored"
  /\ file' = [file EXCEPT ![sending] = "gone"]
  /\ backoff' = backoff \ {sending}
  /\ cache' = -1
  /\ todo' = todo \ {sending}
  /\ stage' = IF todo = {sending} THEN "scan" ELSE "send"
  /\ sending' = NoChunk /\ answer' = "none"
  /\ UNCHANGED <<size, bucket, writers, open, idle, step, sensor, window, wire, cloud, faults>>

\* Any other status, or a hash that does not match.
Refused ==
  /\ stage = "await" /\ answer \in {"rejected", "failed", "mismatch"}
  /\ BreakOff(sending)
  /\ UNCHANGED faults

\* httpx.HTTPError, or the deletion of an acknowledged file fails.
UploadFails ==
  /\ Fault
  /\ stage = "await"
  /\ BreakOff(sending)

-----------------------------------------------------------------------------
(* The cloud and the network (external). *)

Answer(r, code) ==
  /\ wire' = wire \ {r}
  /\ answer' = IF stage = "await" /\ sending = r[1] THEN code ELSE answer

CloudHandles(r) ==
  /\ r \in wire
  /\ IF r[1] \in Poison
     THEN Answer(r, "rejected") /\ UNCHANGED cloud
     ELSE Answer(r, "stored") /\ cloud' = [cloud EXCEPT ![r[1]] = r[2]]
  /\ UNCHANGED <<fileVars, writerVars, uploadVars, faults>>

CloudFails(r) ==
  /\ Fault
  /\ r \in wire
  /\ \E code \in {"failed", "mismatch"} : Answer(r, code)
  /\ UNCHANGED <<fileVars, writerVars, uploadVars, cloud>>

Vanish(r) ==
  /\ r \in wire /\ ~(stage = "await" /\ sending = r[1])
  /\ wire' = wire \ {r}
  /\ UNCHANGED <<fileVars, writerVars, uploadVars, answer, cloud, faults>>

-----------------------------------------------------------------------------
(* Restarts. *)

\* The process is gone; lifespan runs recover_part_files before the next
\* write: parts become .wav files, except those that hold nothing and those
\* that the caller says are torn.
Restart(torn) ==
  /\ file' = [k \in Chunks |->
       IF file[k] # "part" THEN file[k]
       ELSE IF size[k] = 0 \/ k \in torn THEN "stuck" ELSE "wav"]
  /\ writers' = << >> /\ open' = [s \in Sensors |-> NoChunk] /\ idle' = {}
  /\ cache' = -1
  /\ Leave
  /\ stage' = "scan" /\ todo' = {} /\ sending' = NoChunk /\ backoff' = {}
  /\ answer' = "none"
  /\ UNCHANGED <<size, bucket, wire, cloud>>

\* A power cut while frames are being written can leave a header that counts
\* frames the file does not have.
Crash ==
  /\ Fault
  /\ \E torn \in {{}, IF step = "append" THEN {open[sensor]} ELSE {}} : Restart(torn)

\* Orderly shutdown: lifespan closes every writer first, an empty one too.
Shutdown ==
  /\ Fault
  /\ step = "free"
  /\ file' = [k \in Chunks |->
       IF k \in OpenChunk THEN "wav"
       ELSE IF file[k] # "part" THEN file[k]
       ELSE IF size[k] = 0 THEN "stuck" ELSE "wav"]
  /\ writers' = << >> /\ open' = [s \in Sensors |-> NoChunk] /\ idle' = {}
  /\ cache' = -1
  /\ Leave
  /\ stage' = "scan" /\ todo' = {} /\ sending' = NoChunk /\ backoff' = {}
  /\ answer' = "none"
  /\ UNCHANGED <<size, bucket, wire, cloud>>

-----------------------------------------------------------------------------
WriterStep ==
  \/ Check \/ Rotate \/ RefuseToOpen \/ AppendBatch
  \/ \E k \in Chunks : OpenNewChunk(k)

UploaderStep ==
  \/ FinalizeIdle \/ List \/ Acknowledged \/ Refused
  \/ \E k \in Chunks : Send(k)

Next ==
  \/ \E s \in Sensors, b \in Buckets :
       Begin(s, b) \/ BeginNew(s, b) \/ BeginEvicting(s, b)
  \/ \E s \in Sensors : EvictionFails(s) \/ GoesIdle(s)
  \/ \E i \in DOMAIN writers : FinalizeFails(i)
  \/ WriterStep \/ RotationFails \/ WriteFails
  \/ UploaderStep \/ UploadFails \/ (\E k \in Chunks : SendFails(k) \/ BackoffEnds(k))
  \/ CacheExpires
  \/ \E r \in wire : CloudHandles(r) \/ CloudFails(r) \/ Vanish(r)
  \/ Crash \/ Shutdown

Spec == Init /\ [][Next]_vars

\* Threads and tasks run on, _lock is granted in the end, time passes, and
\* the cloud answers what it receives.  Nothing forces a batch or a fault.
Fairness ==
  /\ WF_vars(WriterStep)
  /\ SF_vars(FinalizeIdle)
  /\ WF_vars(List \/ Acknowledged \/ Refused \/ \E k \in Chunks : Send(k))
  /\ \A s \in Sensors : WF_vars(GoesIdle(s))
  /\ \A k \in Chunks : WF_vars(BackoffEnds(k))
  /\ WF_vars(\E r \in wire : stage = "await" /\ sending = r[1] /\ CloudHandles(r))

FairSpec == Spec /\ Fairness

-----------------------------------------------------------------------------
OpenHere(k) == \E s \in Sensors : open[s] = k

(* Variables have their types; an open chunk is a part of its own, and     *)
(* what the uploader works on is a finished file.                          *)
TypeOK ==
  /\ file \in [Chunks -> {"free", "part", "wav", "gone", "stuck"}]
  /\ size \in [Chunks -> 0 .. MaxSize] /\ bucket \in [Chunks -> Nat]
  /\ writers \in Seq(Sensors) /\ Len(writers) <= MaxOpen
  /\ open \in [Sensors -> Chunks \cup {NoChunk}]
  /\ \A s \in Sensors : open[s] # NoChunk => file[open[s]] = "part" /\ s \in InUse
  /\ \A s, r \in Sensors : open[s] = open[r] /\ open[s] # NoChunk => s = r
  /\ idle \subseteq InUse
  /\ cache \in {-1} \cup 0 .. Cardinality(Chunks)
  /\ step \in {"free", "check", "rotate", "open", "append"}
  /\ sensor \in Sensors \cup {NoSensor} /\ window \in Buckets \cup {0}
  /\ stage \in {"scan", "list", "send", "await"}
  /\ todo \subseteq Completed
  /\ sending \in Completed \cup {NoChunk}
  /\ backoff \subseteq Chunks
  /\ wire \subseteq Chunks \X (0 .. MaxSize)
  /\ answer \in {"none", "stored", "rejected", "failed", "mismatch"}
  /\ cloud \in [Chunks -> -1 .. MaxSize]
  /\ faults \in 0 .. MaxFaults

(* ".part: active, never uploaded": whatever is on its way to the cloud,   *)
(* or there already, is a complete chunk to which nothing will be added.   *)
UploadedWhole ==
  /\ \A r \in wire : r[2] = size[r[1]] /\ file[r[1]] \in {"wav", "gone"}
  /\ \A k \in Chunks : cloud[k] # -1 => cloud[k] = size[k] /\ file[k] \in {"wav", "gone"}

(* The limit on unacknowledged files holds up to the writers that were     *)
(* open when it was reached, whatever the cached count said: rotation,     *)
(* eviction, idling and recovery cannot pile up more.                      *)
BacklogBounded ==
  Cardinality(Completed) + Cardinality(OpenChunk) < MaxPending + MaxOpen + faults

(* The archive keeps the promise OutboundQueue states: a chunk is in local *)
(* storage from its first byte until the cloud has it.                     *)
Abstract == INSTANCE OutboundQueue WITH
  Record <- Chunks, Undeliverable <- Poison,
  pending <- {k \in Chunks : file[k] \in {"part", "wav", "stuck"}},
  delivered <- {k \in Chunks : cloud[k] # -1}, dead <- {}
Implements == Abstract!Spec

(* A finished file that the cloud accepts is eventually stored there and   *)
(* deleted here, through failures, backoffs and restarts, unless a file    *)
(* refused for good is in the way: each round of wav_uploader.py:233-354   *)
(* starts with the oldest file and ends with the first that fails.         *)
CompletedIsUploaded ==
  \A k \in Chunks \ Poison :
    file[k] = "wav" ~> file[k] = "gone" \/ \E p \in Poison : file[p] = "wav"

(* wav_writer.py:438, "disconnected sensors remain uploadable": an open    *)
(* chunk whose sensor falls silent is eventually finished and stored, too, *)
(* unless its writer fails to close it (then the next restart's recovery   *)
(* decides).                                                               *)
SilentSensorIsUploaded ==
  \A k \in Chunks \ Poison :
    OpenHere(k) ~> \/ file[k] = "gone"
                   \/ file[k] \in {"part", "stuck"} /\ ~OpenHere(k)
                   \/ \E p \in Poison : file[p] = "wav"
=============================================================================
