---------------------------- MODULE UploadWorker ----------------------------
(***************************************************************************)
(* runtime/upload_worker.py: the loop that drains the SQLite queue into    *)
(* the cloud, up to BATCH_SIZE rows per request, isolates the rows of a    *)
(* refused request, and moves only hopeless rows to the dead letter table. *)
(*                                                                         *)
(* The cloud is external: it refuses a request that holds an invalid row   *)
(* (422) or a row of an unassigned sensor (403), answers a measurement_id  *)
(* it has seen without inserting again, and inserts the rows otherwise.    *)
(* Requests and answers can be lost or late, and the worker can die or     *)
(* have its database fail between any two steps.  Delays (the backoff) are *)
(* abstracted to the interleaving.                                         *)
(***************************************************************************)
EXTENDS Integers, FiniteSets

CONSTANTS
  Jobs,        \* rows of ingest_jobs, numbered in created_at order
  Serials,
  Serial,      \* gateway_serial recorded in each row
  Malformed,   \* rows whose payload_json does not parse
  Invalid,     \* rows the cloud's validation refuses (422)
  Unassigned,  \* rows whose sensor is not assigned to the gateway at first
  BatchSize,   \* BATCH_SIZE
  MaxRetries,  \* MAX_RETRIES
  MaxFaults    \* bound: lost answers, refusals of service, crashes

ASSUME UploadWorkerAssumption ==
  /\ Jobs \subseteq Nat
  /\ Serial \in [Jobs -> Serials]
  /\ Malformed \subseteq Jobs /\ Invalid \subseteq Jobs /\ Unassigned \subseteq Jobs
  /\ BatchSize \in Nat \ {0} /\ MaxRetries \in Nat /\ MaxFaults \in Nat

VARIABLES
  created,     \* history: rows ever committed to the queue
  queue,       \* rows of ingest_jobs with status QUEUED
  dlq,         \* rows of dead_letter_jobs
  retries,     \* IngestJob.retry_count
  place,       \* where upload_loop stands
  todo,        \* rows fetched in this cycle and not yet in a request
  batch,       \* rows of the group in work
  rest,        \* rows of it that _isolate_rejected has yet to send
  retained,    \* _isolate_rejected kept a row
  sent,        \* rows of the request whose answer is awaited
  answer,      \* the answer on its way back
  wire,        \* requests the cloud has not handled
  seen,        \* cloud: measurement ids, each the rows it was derived from
  rows,        \* cloud: how often each row was inserted
  unassigned,  \* cloud: rows whose sensor is not assigned to the gateway
  faults

dbVars     == <<created, queue, dlq, retries>>
workVars   == <<place, todo, batch, rest, retained, sent>>
cloudVars  == <<seen, rows, unassigned>>
vars == <<dbVars, workVars, answer, wire, cloudVars, faults>>

Init ==
  /\ created = {} /\ queue = {} /\ dlq = {}
  /\ retries = [j \in Jobs |-> 0]
  /\ place = "fetch"
  /\ todo = {} /\ batch = {} /\ rest = {} /\ retained = FALSE /\ sent = {}
  /\ answer = "none"
  /\ wire = {}
  /\ seen = {} /\ rows = [j \in Jobs |-> 0] /\ unassigned = Unassigned
  /\ faults = 0

Fault == faults < MaxFaults /\ faults' = faults + 1

\* The n oldest rows of S.
Oldest(S, n) == {j \in S : Cardinality({i \in S : i < j}) < n}

\* The rows that share the gateway_serial of the oldest one.
FirstGroup(S) ==
  {j \in S : \E first \in S : (\A i \in S : first <= i) /\ Serial[j] = Serial[first]}

Awaited(B) == place \in {"awaitGroup", "awaitOne"} /\ sent = B

\* The loop starts over: the next thing it does is fetch.
StartOver ==
  /\ place' = "fetch"
  /\ todo' = {} /\ batch' = {} /\ rest' = {} /\ retained' = FALSE /\ sent' = {}
  /\ answer' = "none"

-----------------------------------------------------------------------------
(* The queue is filled by SensorIngest; created_at is the capture time, so *)
(* a row can arrive older than rows already there.                         *)
Enqueue(j) ==
  /\ j \in Jobs \ created
  /\ created' = created \cup {j}
  /\ queue' = queue \cup {j}
  /\ UNCHANGED <<dlq, retries, workVars, answer, wire, cloudVars, faults>>

-----------------------------------------------------------------------------
(* upload_loop *)

Fetch ==
  /\ place = "fetch"
  /\ queue # {}
  /\ todo' = Oldest(queue, BatchSize)
  /\ place' = "groups"
  /\ UNCHANGED <<dbVars, batch, rest, retained, sent, answer, wire, cloudVars, faults>>

\* _move_to_dlq: the copy and the deletion are one transaction.
MoveToDlq(j) ==
  /\ dlq' = dlq \cup {j}
  /\ queue' = queue \ {j}
  /\ UNCHANGED <<created, retries>>

BuryMalformed(j) ==
  /\ place = "groups"
  /\ j \in todo \cap Malformed
  /\ MoveToDlq(j)
  /\ todo' = todo \ {j}
  /\ UNCHANGED <<place, batch, rest, retained, sent, answer, wire, cloudVars, faults>>

Post(B) ==
  /\ sent' = B
  /\ wire' = wire \cup {B}
  /\ answer' = "none"

\* _flush_group, up to the await
PostGroup ==
  /\ place = "groups"
  /\ todo # {} /\ todo \cap Malformed = {}
  /\ batch' = FirstGroup(todo)
  /\ todo' = todo \ batch'
  /\ Post(batch')
  /\ place' = "awaitGroup"
  /\ UNCHANGED <<dbVars, rest, retained, cloudVars, faults>>

EndCycle ==
  /\ place = "groups"
  /\ todo = {}
  /\ StartOver
  /\ UNCHANGED <<dbVars, wire, cloudVars, faults>>

\* Seeded bug: nothing is deleted.
DeleteNothing == UNCHANGED dbVars

\* 200, 201, 202: one commit deletes the rows of the request.
DeleteSent ==
  /\ queue' = queue \ sent
  /\ UNCHANGED <<created, dlq, retries>>

GroupAccepted ==
  /\ place = "awaitGroup" /\ answer = "accepted"
  /\ DeleteSent
  /\ place' = "groups" /\ batch' = {} /\ sent' = {} /\ answer' = "none"
  /\ UNCHANGED <<todo, rest, retained, wire, cloudVars, faults>>

\* Seeded bug: a refused request is retried as a whole.
GroupRetried ==
  /\ place = "awaitGroup" /\ answer \in {"invalid", "unknown"}
  /\ StartOver
  /\ UNCHANGED <<dbVars, wire, cloudVars, faults>>

\* 422, or 403 for an unknown sensor
GroupRefused ==
  /\ place = "awaitGroup" /\ answer \in {"invalid", "unknown"}
  /\ place' = "isolate" /\ rest' = batch /\ retained' = FALSE
  /\ sent' = {} /\ answer' = "none"
  /\ UNCHANGED <<dbVars, todo, batch, wire, cloudVars, faults>>

\* Seeded bug: MAX_RETRIES failures make a row a dead letter.
CountAndBury(B) ==
  LET spent == {j \in B : retries[j] = MaxRetries} IN
  /\ retries' = [j \in Jobs |-> IF j \in B \ spent THEN retries[j] + 1 ELSE retries[j]]
  /\ dlq' = dlq \cup spent
  /\ queue' = queue \ spent
  /\ UNCHANGED created

\* _record_transient_failure
CountFailure(B) ==
  /\ retries' = [j \in Jobs |->
       IF j \in B /\ retries[j] < MaxRetries THEN retries[j] + 1 ELSE retries[j]]
  /\ UNCHANGED <<created, queue, dlq>>

\* 401, 403, 5xx and the rest
GroupFails ==
  /\ place = "awaitGroup" /\ answer = "transient"
  /\ CountFailure(sent)
  /\ StartOver
  /\ UNCHANGED <<wire, cloudVars, faults>>

\* 410 without a reset: back off, but count nothing
GroupGone ==
  /\ place = "awaitGroup" /\ answer = "gone"
  /\ StartOver
  /\ UNCHANGED <<dbVars, wire, cloudVars, faults>>

\* httpx.HTTPError: no answer, whatever the cloud did or will do.
GroupUnanswered ==
  /\ Fault
  /\ place = "awaitGroup"
  /\ CountFailure(sent)
  /\ StartOver
  /\ UNCHANGED <<wire, cloudVars>>

-----------------------------------------------------------------------------
(* _isolate_rejected *)

PostOne(j) ==
  /\ place = "isolate"
  /\ j \in rest /\ \A i \in rest : j <= i
  /\ Post({j})
  /\ rest' = rest \ {j}
  /\ place' = "awaitOne"
  /\ UNCHANGED <<dbVars, todo, batch, retained, cloudVars, faults>>

BackToIsolation(kept) ==
  /\ place' = "isolate" /\ sent' = {} /\ answer' = "none"
  /\ retained' = (retained \/ kept)
  /\ UNCHANGED <<todo, batch, rest, wire, cloudVars>>

OneAccepted ==
  /\ place = "awaitOne" /\ answer = "accepted"
  /\ DeleteSent
  /\ BackToIsolation(FALSE)
  /\ UNCHANGED faults

OneInvalid ==
  /\ place = "awaitOne" /\ answer = "invalid"
  /\ \E j \in sent : MoveToDlq(j)
  /\ BackToIsolation(FALSE)
  /\ UNCHANGED faults

OneKept ==
  /\ place = "awaitOne" /\ answer \in {"unknown", "transient", "gone"}
  /\ CountFailure(sent)
  /\ BackToIsolation(TRUE)
  /\ UNCHANGED faults

OneUnanswered ==
  /\ Fault
  /\ place = "awaitOne"
  /\ CountFailure(sent)
  /\ BackToIsolation(TRUE)

\* A kept row makes the loop fetch anew; otherwise the next group follows.
EndIsolation ==
  /\ place = "isolate" /\ rest = {}
  /\ IF retained
     THEN StartOver
     ELSE /\ place' = "groups" /\ batch' = {}
          /\ UNCHANGED <<todo, rest, retained, sent, answer>>
  /\ UNCHANGED <<dbVars, wire, cloudVars, faults>>

\* The process dies and restarts, or the database fails and the exception
\* reaches the handler of upload_loop: what is not committed is forgotten.
Abandon ==
  /\ Fault
  /\ place # "fetch"
  /\ StartOver
  /\ UNCHANGED <<dbVars, wire, cloudVars>>

-----------------------------------------------------------------------------
(* The cloud and the network (external). *)

Answer(B, code) ==
  /\ wire' = wire \ {B}
  /\ answer' = IF Awaited(B) THEN code ELSE answer

CloudRefuses(B) ==
  /\ B \in wire
  /\ \/ B \cap Invalid # {} /\ Answer(B, "invalid")
     \/ B \cap Invalid = {} /\ B \cap unassigned # {} /\ Answer(B, "unknown")
  /\ UNCHANGED <<dbVars, workVars, cloudVars, faults>>

CloudAccepts(B) ==
  /\ B \in wire
  /\ B \cap (Invalid \cup unassigned) = {}
  /\ rows' = IF B \in seen THEN rows
             ELSE [j \in Jobs |-> IF j \in B THEN rows[j] + 1 ELSE rows[j]]
  /\ seen' = seen \cup {B}
  /\ Answer(B, "accepted")
  /\ UNCHANGED <<dbVars, workVars, unassigned, faults>>

CloudUnavailable(B) ==
  /\ Fault
  /\ B \in wire
  /\ \E code \in {"transient", "gone"} : Answer(B, code)
  /\ UNCHANGED <<dbVars, workVars, cloudVars>>

\* A request nobody waits for any more may never reach the cloud.
Vanish(B) ==
  /\ B \in wire /\ ~Awaited(B)
  /\ wire' = wire \ {B}
  /\ UNCHANGED <<dbVars, workVars, answer, cloudVars, faults>>

\* Someone assigns a sensor to the gateway.
Assign(j) ==
  /\ j \in unassigned
  /\ unassigned' = unassigned \ {j}
  /\ UNCHANGED <<dbVars, workVars, answer, wire, seen, rows, faults>>

-----------------------------------------------------------------------------
WorkerStep ==
  \/ Fetch \/ (\E j \in Jobs : BuryMalformed(j) \/ PostOne(j))
  \/ PostGroup \/ EndCycle \/ EndIsolation
  \/ GroupAccepted \/ GroupRefused \/ GroupFails \/ GroupGone
  \/ OneAccepted \/ OneInvalid \/ OneKept

CloudStep(B) == CloudRefuses(B) \/ CloudAccepts(B)

Next ==
  \/ \E j \in Jobs : Enqueue(j) \/ Assign(j)
  \/ WorkerStep \/ GroupUnanswered \/ OneUnanswered \/ Abandon
  \/ \E B \in wire : CloudStep(B) \/ CloudUnavailable(B) \/ Vanish(B)

Spec == Init /\ [][Next]_vars

\* asyncio runs the loop on and the cloud answers what it receives; faults
\* are finitely many, and nobody has to assign a sensor.
Fairness == WF_vars(WorkerStep) /\ WF_vars(\E B \in wire : Awaited(B) /\ CloudStep(B))

FairSpec == Spec /\ Fairness

-----------------------------------------------------------------------------
Delivered == {j \in Jobs : rows[j] > 0}

(* Rows, places and requests have their types; what the loop works on is   *)
(* still in the queue, and only an awaited request has an answer.          *)
TypeOK ==
  /\ created \subseteq Jobs /\ queue \subseteq created /\ dlq \subseteq created
  /\ retries \in [Jobs -> 0 .. MaxRetries]
  /\ place \in {"fetch", "groups", "awaitGroup", "isolate", "awaitOne"}
  /\ todo \subseteq queue /\ batch \subseteq created
  /\ rest \subseteq queue /\ sent \subseteq queue
  /\ retained \in BOOLEAN
  /\ answer \in {"none", "accepted", "invalid", "unknown", "transient", "gone"}
  /\ wire \subseteq SUBSET created /\ seen \subseteq SUBSET created
  /\ rows \in [Jobs -> Nat]
  /\ unassigned \subseteq Unassigned
  /\ faults \in 0 .. MaxFaults

(* A row is inserted a second time only at the price of a fault: without   *)
(* one, batching and isolation insert each row once.                       *)
DuplicatesNeedFaults == \A j \in Jobs : rows[j] <= 1 + faults

(* The worker keeps the promise OutboundQueue states.                      *)
Abstract == INSTANCE OutboundQueue WITH
  Record <- Jobs, Undeliverable <- Malformed \cup Invalid,
  pending <- queue, delivered <- Delivered, dead <- dlq
Implements == Abstract!Spec

(* What holds a good row j up although the cloud would take it: unassigned *)
(* rows are kept, and those older than j either fill every fetch, or the   *)
(* oldest of them has another serial, so that its group comes first and    *)
(* ends the cycle before that of j is sent.                                *)
Stuck == (queue \cap unassigned) \ (Malformed \cup Invalid)
HeldUp(j) ==
  LET older == {i \in Stuck : i < j} IN
  \/ Cardinality(older) >= BatchSize
  \/ \E first \in older : Serial[first] # Serial[j] /\ \A i \in older : first <= i

Good == Jobs \ (Malformed \cup Invalid \cup Unassigned)

(* Isolation and dead letters drain the queue: a row the cloud would       *)
(* accept is inserted and leaves the queue, whatever malformed, invalid    *)
(* and unassigned rows surround it, unless it is held up for ever in one   *)
(* of the two ways above.  (upload_worker.py:143-175, 226-229, 265-324)    *)
GoodRowsDrain ==
  \A j \in Good :
    <>[]~HeldUp(j) => (j \in queue ~> j \in Delivered /\ j \notin queue)

(* upload_worker.py:257-258, "one bad reading can't block the whole        *)
(* queue", and :270, "draining valid jobs": the same without exception.    *)
NothingHoldsUp ==
  \A j \in Good : j \in queue ~> j \in Delivered /\ j \notin queue
=============================================================================
