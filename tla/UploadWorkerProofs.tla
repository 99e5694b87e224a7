-------------------------- MODULE UploadWorkerProofs --------------------------
(***************************************************************************)
(* Proofs about UploadWorker, for any rows, serials, batch size and bounds: *)
(* the type invariant, the refinement of OutboundQueue, and the bound on    *)
(* duplicates.                                                              *)
(***************************************************************************)
EXTENDS UploadWorker, FiniteSetTheorems, TLAPS

\* What the loop holds in memory at each place; no row is held twice.
HeldOnce ==
  /\ place \in {"fetch", "groups"} => batch = {}
  /\ place = "fetch" => todo = {}
  /\ place \notin {"isolate", "awaitOne"} => rest = {}
  /\ place \notin {"awaitGroup", "awaitOne"} => sent = {} /\ answer = "none"
  /\ place = "awaitGroup" => sent = batch
  /\ place = "awaitOne" => \E j \in Jobs : sent = {j}
  /\ todo \cap batch = {} /\ rest \cup sent \subseteq batch /\ rest \cap sent = {}

\* No row that does not parse is ever sent.
RequestsParse ==
  /\ batch \cap Malformed = {}
  /\ \A B \in wire : B \cap Malformed = {}

\* What the cloud has seen it has inserted, and that was deliverable.
InsertedIsGood ==
  /\ \A B \in seen : B \subseteq Delivered
  /\ Delivered \subseteq created \ (Malformed \cup Invalid)

\* An answer tells what the cloud did with the request that awaits it.
AnswerIsTrue ==
  /\ answer = "accepted" => sent \subseteq Delivered
  /\ answer = "invalid" => sent \cap Invalid # {}

\* The inductive invariant.
IndInv == TypeOK /\ HeldOnce /\ RequestsParse /\ InsertedIsGood /\ AnswerIsTrue

LEMMA InitInv == Init => IndInv
<1> SUFFICES ASSUME Init PROVE IndInv
  OBVIOUS
<1>1. TypeOK
  <2>1. /\ retries \in [Jobs -> 0 .. MaxRetries] /\ rows \in [Jobs -> Nat]
        /\ faults \in 0 .. MaxFaults
    BY UploadWorkerAssumption DEF Init
  <2> QED
    BY <2>1 DEF Init, TypeOK
<1>2. Delivered = {}
  BY DEF Init, Delivered
<1> QED
  BY <1>1, <1>2
     DEF Init, IndInv, HeldOnce, RequestsParse, InsertedIsGood, AnswerIsTrue

\* What _record_transient_failure and an insertion leave.
LEMMA CountFailureType ==
  ASSUME TypeOK, NEW B, CountFailure(B) PROVE retries' \in [Jobs -> 0 .. MaxRetries]
BY UploadWorkerAssumption DEF TypeOK, CountFailure

LEMMA InsertedRows ==
  ASSUME TypeOK, InsertedIsGood, NEW B \in wire, CloudAccepts(B)
  PROVE  Delivered' = Delivered \cup B
<1>1. B \subseteq Jobs
  BY DEF TypeOK
<1>2. CASE B \in seen
  BY <1>2 DEF CloudAccepts, Delivered, InsertedIsGood
<1>3. CASE B \notin seen
  <2>1. \A j \in Jobs : rows'[j] = IF j \in B THEN rows[j] + 1 ELSE rows[j]
    BY <1>3 DEF CloudAccepts
  <2>2. \A j \in Jobs : rows'[j] > 0 <=> rows[j] > 0 \/ j \in B
    BY <2>1 DEF TypeOK
  <2> QED
    BY <1>1, <2>2 DEF Delivered
<1> QED
  BY <1>2, <1>3

\* Every step keeps the types.
LEMMA TypeStep ==
  ASSUME IndInv, Next PROVE TypeOK'
<1> USE UploadWorkerAssumption
       DEF IndInv, TypeOK, HeldOnce, dbVars, workVars, cloudVars
<1>1. ASSUME NEW j \in Jobs, Enqueue(j) PROVE TypeOK'
  BY <1>1 DEF Enqueue
<1>2. ASSUME NEW j \in Jobs, Assign(j) PROVE TypeOK'
  BY <1>2 DEF Assign
<1>3. CASE Fetch
  BY <1>3 DEF Fetch, Oldest
<1>4. ASSUME NEW j \in Jobs, BuryMalformed(j) PROVE TypeOK'
  BY <1>4 DEF BuryMalformed, MoveToDlq
<1>5. ASSUME NEW j \in Jobs, PostOne(j) PROVE TypeOK'
  BY <1>5 DEF PostOne, Post
<1>6. CASE PostGroup
  BY <1>6 DEF PostGroup, Post, FirstGroup
<1>7. CASE EndCycle
  BY <1>7 DEF EndCycle, StartOver
<1>8. CASE EndIsolation
  BY <1>8 DEF EndIsolation, StartOver
<1>9. CASE GroupAccepted
  BY <1>9 DEF GroupAccepted, DeleteSent
<1>10. CASE GroupRefused
  BY <1>10 DEF GroupRefused
<1>11. CASE GroupFails
  <2>1. retries' \in [Jobs -> 0 .. MaxRetries]
    BY <1>11, CountFailureType DEF GroupFails
  <2> QED
    BY <1>11, <2>1 DEF GroupFails, CountFailure, StartOver
<1>12. CASE GroupGone
  BY <1>12 DEF GroupGone, StartOver
<1>13. CASE OneAccepted
  BY <1>13 DEF OneAccepted, DeleteSent, BackToIsolation
<1>14. CASE OneInvalid
  BY <1>14 DEF OneInvalid, MoveToDlq, BackToIsolation
<1>15. CASE OneKept
  BY <1>15 DEF OneKept, CountFailure, BackToIsolation
<1>16. CASE GroupUnanswered
  <2>1. retries' \in [Jobs -> 0 .. MaxRetries]
    BY <1>16, CountFailureType DEF GroupUnanswered
  <2>2. faults' \in 0 .. MaxFaults
    BY <1>16 DEF GroupUnanswered, Fault
  <2> QED
    BY <1>16, <2>1, <2>2 DEF GroupUnanswered, CountFailure, StartOver
<1>17. CASE OneUnanswered
  BY <1>17 DEF OneUnanswered, Fault, CountFailure, BackToIsolation
<1>18. CASE Abandon
  <2>1. faults' \in 0 .. MaxFaults
    BY <1>18 DEF Abandon, Fault
  <2> QED
    BY <1>18, <2>1 DEF Abandon, StartOver
<1>19. ASSUME NEW B \in wire, CloudRefuses(B) PROVE TypeOK'
  BY <1>19 DEF CloudRefuses, Answer, Awaited
<1>20. ASSUME NEW B \in wire, CloudAccepts(B) PROVE TypeOK'
  BY <1>20 DEF CloudAccepts, Answer, Awaited
<1>21. ASSUME NEW B \in wire, CloudUnavailable(B) PROVE TypeOK'
  BY <1>21 DEF CloudUnavailable, Fault, Answer, Awaited
<1>22. ASSUME NEW B \in wire, Vanish(B) PROVE TypeOK'
  BY <1>22 DEF Vanish
<1> QED
  BY <1>1, <1>2, <1>3, <1>4, <1>5, <1>6, <1>7, <1>8, <1>9, <1>10, <1>11, <1>12,
     <1>13, <1>14, <1>15, <1>16, <1>17, <1>18, <1>19, <1>20, <1>21, <1>22
     DEF Next, WorkerStep, CloudStep

\* The loop takes rows over from one place to the next.
LEMMA HeldStep ==
  ASSUME IndInv, Next PROVE HeldOnce' /\ RequestsParse'
<1> USE DEF IndInv, TypeOK, HeldOnce, RequestsParse, dbVars, workVars, cloudVars
<1>1. ASSUME NEW j \in Jobs, Enqueue(j) PROVE HeldOnce' /\ RequestsParse'
  BY <1>1 DEF Enqueue
<1>2. ASSUME NEW j \in Jobs, Assign(j) PROVE HeldOnce' /\ RequestsParse'
  BY <1>2 DEF Assign
<1>3. CASE Fetch
  BY <1>3 DEF Fetch, Oldest
<1>4. ASSUME NEW j \in Jobs, BuryMalformed(j) PROVE HeldOnce' /\ RequestsParse'
  BY <1>4 DEF BuryMalformed, MoveToDlq
<1>5. ASSUME NEW j \in Jobs, PostOne(j) PROVE HeldOnce' /\ RequestsParse'
  BY <1>5 DEF PostOne, Post
<1>6. CASE PostGroup
  BY <1>6 DEF PostGroup, Post, FirstGroup
<1>7. CASE EndCycle
  BY <1>7 DEF EndCycle, StartOver
<1>8. CASE EndIsolation
  BY <1>8 DEF EndIsolation, StartOver
<1>9. CASE GroupAccepted
  BY <1>9 DEF GroupAccepted, DeleteSent
<1>10. CASE GroupRefused
  BY <1>10 DEF GroupRefused
<1>11. CASE GroupFails
  BY <1>11 DEF GroupFails, CountFailure, StartOver
<1>12. CASE GroupGone
  BY <1>12 DEF GroupGone, StartOver
<1>13. CASE OneAccepted
  BY <1>13 DEF OneAccepted, DeleteSent, BackToIsolation
<1>14. CASE OneInvalid
  BY <1>14 DEF OneInvalid, MoveToDlq, BackToIsolation
<1>15. CASE OneKept
  BY <1>15 DEF OneKept, CountFailure, BackToIsolation
<1>16. CASE GroupUnanswered
  BY <1>16 DEF GroupUnanswered, Fault, CountFailure, StartOver
<1>17. CASE OneUnanswered
  BY <1>17 DEF OneUnanswered, Fault, CountFailure, BackToIsolation
<1>18. CASE Abandon
  BY <1>18 DEF Abandon, Fault, StartOver
<1>19. ASSUME NEW B \in wire, CloudRefuses(B) PROVE HeldOnce' /\ RequestsParse'
  BY <1>19 DEF CloudRefuses, Answer, Awaited
<1>20. ASSUME NEW B \in wire, CloudAccepts(B) PROVE HeldOnce' /\ RequestsParse'
  BY <1>20 DEF CloudAccepts, Answer, Awaited
<1>21. ASSUME NEW B \in wire, CloudUnavailable(B) PROVE HeldOnce' /\ RequestsParse'
  BY <1>21 DEF CloudUnavailable, Fault, Answer, Awaited
<1>22. ASSUME NEW B \in wire, Vanish(B) PROVE HeldOnce' /\ RequestsParse'
  BY <1>22 DEF Vanish
<1> QED
  BY <1>1, <1>2, <1>3, <1>4, <1>5, <1>6, <1>7, <1>8, <1>9, <1>10, <1>11, <1>12,
     <1>13, <1>14, <1>15, <1>16, <1>17, <1>18, <1>19, <1>20, <1>21, <1>22
     DEF Next, WorkerStep, CloudStep

\* What the cloud inserts it has received, and says so.
LEMMA CloudInvStep ==
  ASSUME IndInv, Next PROVE InsertedIsGood' /\ AnswerIsTrue'
<1> USE UploadWorkerAssumption
       DEF IndInv, TypeOK, HeldOnce, RequestsParse, InsertedIsGood, AnswerIsTrue,
           Delivered, dbVars, workVars, cloudVars
<1>1. ASSUME NEW j \in Jobs, Enqueue(j) PROVE InsertedIsGood' /\ AnswerIsTrue'
  BY <1>1 DEF Enqueue
<1>2. ASSUME NEW j \in Jobs, Assign(j) PROVE InsertedIsGood' /\ AnswerIsTrue'
  BY <1>2 DEF Assign
<1>3. CASE Fetch
  BY <1>3 DEF Fetch, Oldest
<1>4. ASSUME NEW j \in Jobs, BuryMalformed(j) PROVE InsertedIsGood' /\ AnswerIsTrue'
  BY <1>4 DEF BuryMalformed, MoveToDlq
<1>5. ASSUME NEW j \in Jobs, PostOne(j) PROVE InsertedIsGood' /\ AnswerIsTrue'
  BY <1>5 DEF PostOne, Post
<1>6. CASE PostGroup
  BY <1>6 DEF PostGroup, Post, FirstGroup
<1>7. CASE EndCycle
  BY <1>7 DEF EndCycle, StartOver
<1>8. CASE EndIsolation
  BY <1>8 DEF EndIsolation, StartOver
<1>9. CASE GroupAccepted
  BY <1>9 DEF GroupAccepted, DeleteSent
<1>10. CASE GroupRefused
  BY <1>10 DEF GroupRefused
<1>11. CASE GroupFails
  BY <1>11 DEF GroupFails, CountFailure, StartOver
<1>12. CASE GroupGone
  BY <1>12 DEF GroupGone, StartOver
<1>13. CASE OneAccepted
  BY <1>13 DEF OneAccepted, DeleteSent, BackToIsolation
<1>14. CASE OneInvalid
  BY <1>14 DEF OneInvalid, MoveToDlq, BackToIsolation
<1>15. CASE OneKept
  BY <1>15 DEF OneKept, CountFailure, BackToIsolation
<1>16. CASE GroupUnanswered
  BY <1>16 DEF GroupUnanswered, Fault, CountFailure, StartOver
<1>17. CASE OneUnanswered
  BY <1>17 DEF OneUnanswered, Fault, CountFailure, BackToIsolation
<1>18. CASE Abandon
  BY <1>18 DEF Abandon, Fault, StartOver
<1>19. ASSUME NEW B \in wire, CloudRefuses(B) PROVE InsertedIsGood' /\ AnswerIsTrue'
  BY <1>19 DEF CloudRefuses, Answer, Awaited
<1>20. ASSUME NEW B \in wire, CloudAccepts(B) PROVE InsertedIsGood' /\ AnswerIsTrue'
  <2>1. B \subseteq created \ (Malformed \cup Invalid)
    BY <1>20 DEF CloudAccepts
  <2>2. Delivered' = Delivered \cup B
    BY <1>20, <2>1, InsertedRows
  <2>3. InsertedIsGood'
    BY <1>20, <2>1, <2>2 DEF CloudAccepts
  <2>4. sent \subseteq Delivered => sent' \subseteq Delivered'
    BY <1>20, <2>2 DEF CloudAccepts
  <2>5. answer' = "accepted" => sent' \subseteq Delivered'
    BY <1>20, <2>2, <2>4 DEF CloudAccepts, Answer, Awaited
  <2> QED
    BY <1>20, <2>3, <2>5 DEF CloudAccepts, Answer, Awaited
<1>21. ASSUME NEW B \in wire, CloudUnavailable(B) PROVE InsertedIsGood' /\
   AnswerIsTrue'
  BY <1>21 DEF CloudUnavailable, Fault, Answer, Awaited
<1>22. ASSUME NEW B \in wire, Vanish(B) PROVE InsertedIsGood' /\ AnswerIsTrue'
  BY <1>22 DEF Vanish
<1> QED
  BY <1>1, <1>2, <1>3, <1>4, <1>5, <1>6, <1>7, <1>8, <1>9, <1>10, <1>11, <1>12,
     <1>13, <1>14, <1>15, <1>16, <1>17, <1>18, <1>19, <1>20, <1>21, <1>22
     DEF Next, WorkerStep, CloudStep

LEMMA InvStep == IndInv /\ [Next]_vars => IndInv'
<1>1. ASSUME IndInv, Next PROVE IndInv'
  BY <1>1, TypeStep, HeldStep, CloudInvStep DEF IndInv
<1>2. ASSUME IndInv, UNCHANGED vars PROVE IndInv'
  BY <1>2
     DEF IndInv, vars, dbVars, workVars, cloudVars, TypeOK, HeldOnce, RequestsParse,
         InsertedIsGood, AnswerIsTrue, Delivered
<1> QED
  BY <1>1, <1>2

LEMMA InvariantHolds == Spec => []IndInv
BY InitInv, InvStep, PTL DEF Spec

\* Queue, dead letters, the loop's place and the rows it works on are of their
\* types; above all, what it works on is still in the queue.
THEOREM TypeCorrect == Spec => []TypeOK
<1>1. IndInv => TypeOK
  BY DEF IndInv
<1> QED
  BY InvariantHolds, <1>1, PTL

\* A step of the database, the loop or the cloud is one of the abstract queue.
LEMMA StepRefines ==
  ASSUME IndInv, Next PROVE [Abstract!Next]_(Abstract!queueVars)
<1> USE DEF IndInv, Abstract!queueVars
<1>1. CASE UNCHANGED <<queue, dlq, rows>>
  BY <1>1 DEF Delivered
<1>2. ASSUME NEW j \in Jobs, Enqueue(j) PROVE Abstract!Next
  <2>1. j \notin queue \cup Delivered \cup dlq
    BY <1>2 DEF Enqueue, TypeOK, InsertedIsGood
  <2>2. Abstract!Accept(j)
    BY <1>2, <2>1 DEF Enqueue, Abstract!Accept, cloudVars, Delivered
  <2> QED
    BY <2>2 DEF Abstract!Next
<1>3. ASSUME NEW j \in Jobs, j \in queue, j \in Malformed \cup Invalid,
   MoveToDlq(j),
             UNCHANGED rows
      PROVE  Abstract!Next
  BY <1>3 DEF MoveToDlq, Abstract!Next, Abstract!Bury, Delivered
<1>4. ASSUME NEW j \in Jobs, BuryMalformed(j) PROVE Abstract!Next
  BY <1>3, <1>4 DEF BuryMalformed, TypeOK, cloudVars
<1>5. CASE OneInvalid
  <2>1. PICK j \in sent : MoveToDlq(j)
    BY <1>5 DEF OneInvalid
  <2>2. sent = {j} /\ j \in Jobs /\ j \in queue
    BY <1>5, <2>1 DEF OneInvalid, HeldOnce, TypeOK
  <2>3. j \in Invalid
    BY <1>5, <2>2 DEF OneInvalid, AnswerIsTrue
  <2> QED
    BY <1>3, <1>5, <2>1, <2>2, <2>3 DEF OneInvalid, BackToIsolation, cloudVars
<1>6. CASE GroupAccepted \/ OneAccepted
  <2>1. sent \subseteq Delivered /\ sent \in SUBSET Jobs
    BY <1>6 DEF GroupAccepted, OneAccepted, AnswerIsTrue, Delivered
  <2>2. Abstract!Discard(sent)
    BY <1>6, <2>1
       DEF GroupAccepted, OneAccepted, DeleteSent, BackToIsolation, cloudVars,
           Abstract!Discard, Delivered
  <2> QED
    BY <2>1, <2>2 DEF Abstract!Next
<1>7. ASSUME NEW B \in wire, CloudAccepts(B) PROVE Abstract!Next
  <2>1. B \in SUBSET Jobs /\ B \cap (Malformed \cup Invalid) = {}
    BY <1>7 DEF CloudAccepts, TypeOK, RequestsParse
  <2>2. Delivered' = Delivered \cup B
    BY <1>7, InsertedRows
  <2>3. Abstract!Deliver(B)
    BY <1>7, <2>1, <2>2 DEF CloudAccepts, dbVars, Abstract!Deliver
  <2> QED
    BY <2>1, <2>3 DEF Abstract!Next
<1>8. CASE \/ Fetch \/ (\E j \in Jobs : PostOne(j)) \/ PostGroup \/ EndCycle
           \/ EndIsolation \/ GroupRefused \/ GroupFails \/ GroupGone \/ OneKept
           \/ GroupUnanswered \/ OneUnanswered \/ Abandon
           \/ (\E j \in Jobs : Assign(j))
           \/ \E B \in wire : CloudRefuses(B) \/ CloudUnavailable(B) \/ Vanish(B)
  BY <1>1, <1>8
        DEF Fetch, PostOne, PostGroup, EndCycle, EndIsolation, GroupRefused,
            GroupFails,
         GroupGone, OneKept, GroupUnanswered, OneUnanswered, Abandon, Assign,
         CloudRefuses, CloudUnavailable, Vanish, CountFailure, BackToIsolation,
         dbVars, cloudVars
<1> QED
  BY <1>2, <1>4, <1>5, <1>6, <1>7, <1>8 DEF Next, WorkerStep, CloudStep

\* No row leaves the queue before the cloud has it, unless it can never be
\* delivered: then it is a dead letter.  (upload_worker.py:1-9, 184-337)
THEOREM ImplementsOutboundQueue == Spec => Implements
<1>1. Init => Abstract!Init
  BY DEF Init, Abstract!Init, Delivered
<1>2. IndInv /\ [Next]_vars => [Abstract!Next]_(Abstract!queueVars)
  <2>1. UNCHANGED vars => UNCHANGED Abstract!queueVars
    BY DEF vars, dbVars, cloudVars, Abstract!queueVars, Delivered
  <2> QED
    BY <2>1, StepRefines
<1> QED
  BY <1>1, <1>2, InvariantHolds, PTL DEF Spec, Implements, Abstract!Spec

-----------------------------------------------------------------------------
(* Duplicates.  A row can be inserted by each request under way that the    *)
(* cloud has not seen, and by a further one if the loop may send it again.  *)

Unseen(j) == {B \in wire \ seen : j \in B}

\* Only while an answer is awaited, or has said that the row is inserted, is the
\* loop kept from sending a queued row again.
SentAgain(j) == j \in queue /\ ~(j \in sent /\ answer \in {"none", "accepted"})

Charge(j) == rows[j] + Cardinality(Unseen(j)) + (IF SentAgain(j) THEN 1 ELSE 0)

\* Each insertion a row has had or may still have beyond the first is paid for
\* by a fault.
PaidFor ==
  /\ IsFiniteSet(wire)
  /\ answer # "none" => sent \notin wire
  /\ \A B \in seen : B \cap (Invalid \cup unassigned) = {}
  /\ \A j \in Jobs : Charge(j) <= 1 + faults

LEMMA UnseenType ==
  ASSUME IsFiniteSet(wire), NEW j
  PROVE  IsFiniteSet(Unseen(j)) /\ Cardinality(Unseen(j)) \in Nat
<1>1. Unseen(j) \in SUBSET wire
  BY DEF Unseen
<1> QED
  BY <1>1, FS_Subset, FS_CardinalityType

LEMMA UnseenGrows ==
  ASSUME IsFiniteSet(wire), NEW B, wire' = wire \cup {B}, UNCHANGED seen, NEW j
  PROVE  /\ IsFiniteSet(wire') /\ Cardinality(Unseen(j)') \in Nat
         /\ Cardinality(Unseen(j)') <= Cardinality(Unseen(j)) + 1
         /\ j \notin B => Cardinality(Unseen(j)') = Cardinality(Unseen(j))
<1>1. IsFiniteSet(wire')
  BY FS_AddElement
<1>2. CASE j \in B /\ B \notin seen
  <2>1. Unseen(j)' = Unseen(j) \cup {B}
    BY <1>2 DEF Unseen
  <2>2. IsFiniteSet(Unseen(j)) /\ Cardinality(Unseen(j)) \in Nat
    BY UnseenType
  <2>3. Cardinality(Unseen(j) \cup {B}) \in {Cardinality(Unseen(j)), Cardinality(Unseen(j)) + 1}
    BY <2>2, FS_AddElement
  <2> QED
    BY <1>1, <1>2, <2>1, <2>2, <2>3
<1>3. CASE ~(j \in B /\ B \notin seen)
  <2>1. Unseen(j)' = Unseen(j)
    BY <1>3 DEF Unseen
  <2> QED
    BY <1>1, <2>1, UnseenType
<1> QED
  BY <1>2, <1>3

\* A request leaves the wire, handled or lost.
LEMMA UnseenShrinks ==
  ASSUME IsFiniteSet(wire), NEW B \in wire, wire' = wire \ {B},
         seen' \in {seen, seen \cup {B}}, NEW j
  PROVE  /\ IsFiniteSet(wire') /\ Cardinality(Unseen(j)') \in Nat
         /\ Cardinality(Unseen(j)') =
              IF j \in B /\ B \notin seen THEN Cardinality(Unseen(j)) - 1
                                          ELSE Cardinality(Unseen(j))
<1>1. IsFiniteSet(wire')
  BY FS_RemoveElement
<1>2. Unseen(j)' = Unseen(j) \ {B}
  BY DEF Unseen
<1>3. B \in Unseen(j) <=> j \in B /\ B \notin seen
  BY DEF Unseen
<1>4. IsFiniteSet(Unseen(j)) /\ Cardinality(Unseen(j)) \in Nat
  BY UnseenType
<1>5. IsFiniteSet(Unseen(j) \ {B}) /\ Cardinality(Unseen(j) \ {B}) \in Nat
  BY <1>4, FS_RemoveElement, FS_CardinalityType
<1> QED
  BY <1>1, <1>2, <1>3, <1>4, <1>5, FS_RemoveElement

LEMMA InitPaid == Init => PaidFor
<1> SUFFICES ASSUME Init PROVE PaidFor
  OBVIOUS
<1>1. \A j \in Jobs : Unseen(j) = {} /\ ~SentAgain(j) /\ rows[j] = 0
  BY DEF Init, Unseen, SentAgain
<1>2. \A j \in Jobs : Charge(j) = 0
  BY <1>1, FS_EmptySet DEF Charge
<1>3. IsFiniteSet(wire) /\ seen = {} /\ answer = "none" /\ faults = 0
  BY FS_EmptySet DEF Init
<1> QED
  BY <1>2, <1>3 DEF PaidFor

\* Neither wire nor cloud changes, and no row may be sent again that could not,
\* or there is one fault more.
LEMMA LoopPays ==
  ASSUME IndInv, PaidFor, UNCHANGED <<wire, cloudVars>>,
         answer' # "none" => sent' \notin wire,
         \/ faults' = faults /\ \A j \in Jobs : SentAgain(j)' => SentAgain(j)
         \/ faults' = faults + 1
  PROVE  PaidFor'
<1>1. faults \in Nat /\ rows \in [Jobs -> Nat]
  BY UploadWorkerAssumption DEF IndInv, TypeOK
<1>2. ASSUME NEW j \in Jobs PROVE Charge(j)' <= 1 + faults'
  <2>1. Cardinality(Unseen(j)) \in Nat /\ Unseen(j)' = Unseen(j)
    BY UnseenType DEF PaidFor, Unseen, cloudVars
  <2>2. rows'[j] = rows[j] /\ rows[j] \in Nat
    BY <1>1 DEF cloudVars
  <2>3. Charge(j) <= 1 + faults
    BY DEF PaidFor
  <2> QED
    BY <1>1, <2>1, <2>2, <2>3 DEF Charge
<1> QED
  BY <1>2 DEF PaidFor, cloudVars

\* A request is sent for rows that were free to be sent.
LEMMA PostPays ==
  ASSUME IndInv, PaidFor, NEW B, B \subseteq queue, sent = {}, Post(B),
         UNCHANGED <<queue, cloudVars, faults>>
  PROVE  PaidFor'
<1>1. faults \in Nat /\ rows \in [Jobs -> Nat]
  BY UploadWorkerAssumption DEF IndInv, TypeOK
<1>2. ASSUME NEW j \in Jobs PROVE Charge(j)' <= 1 + faults'
  <2>1. /\ Cardinality(Unseen(j)) \in Nat /\ Cardinality(Unseen(j)') \in Nat
        /\ Cardinality(Unseen(j)') <= Cardinality(Unseen(j)) + 1
        /\ j \notin B => Cardinality(Unseen(j)') = Cardinality(Unseen(j))
    BY UnseenType, UnseenGrows DEF PaidFor, Post, cloudVars
  <2>2. rows'[j] = rows[j] /\ rows[j] \in Nat /\ faults' = faults
    BY <1>1 DEF cloudVars
  <2>3. /\ j \in B => SentAgain(j) /\ ~SentAgain(j)'
        /\ SentAgain(j)' => SentAgain(j)
    BY DEF SentAgain, Post
  <2>4. Charge(j) <= 1 + faults
    BY DEF PaidFor
  <2>5. CASE j \in B
    BY <1>1, <2>1, <2>2, <2>3, <2>4, <2>5 DEF Charge
  <2>6. CASE j \notin B
    BY <1>1, <2>1, <2>2, <2>3, <2>4, <2>6 DEF Charge
  <2> QED
    BY <2>5, <2>6
<1>3. IsFiniteSet(wire')
  BY FS_AddElement DEF PaidFor, Post
<1> QED
  BY <1>2, <1>3 DEF PaidFor, Post, cloudVars

\* The cloud refuses a request, fails, or never gets it.
LEMMA UninsertedPays ==
  ASSUME IndInv, PaidFor, NEW B \in wire, wire' = wire \ {B},
         UNCHANGED <<queue, sent, cloudVars>>,
         \/ answer' = answer
         \/ sent = B,
         \/ faults' = faults /\ (answer' = answer \/ B \notin seen)
         \/ faults' = faults + 1
  PROVE  PaidFor'
<1>1. faults \in Nat /\ rows \in [Jobs -> Nat]
  BY UploadWorkerAssumption DEF IndInv, TypeOK
<1>2. ASSUME NEW j \in Jobs PROVE Charge(j)' <= 1 + faults'
  <2>1. /\ Cardinality(Unseen(j)) \in Nat /\ Cardinality(Unseen(j)') \in Nat
        /\ Cardinality(Unseen(j)') =
              IF j \in B /\ B \notin seen THEN Cardinality(Unseen(j)) - 1
                                          ELSE Cardinality(Unseen(j))
    BY UnseenType, UnseenShrinks DEF PaidFor, cloudVars
  <2>2. rows'[j] = rows[j] /\ rows[j] \in Nat
    BY <1>1 DEF cloudVars
  <2>3. SentAgain(j)' => SentAgain(j) \/ (j \in B /\ answer' # answer)
    BY DEF SentAgain
  <2>4. Charge(j) <= 1 + faults
    BY DEF PaidFor
  <2> QED
    BY <1>1, <2>1, <2>2, <2>3, <2>4 DEF Charge
<1>3. IsFiniteSet(wire')
  BY FS_RemoveElement DEF PaidFor
<1> QED
  BY <1>2, <1>3 DEF PaidFor, cloudVars

LEMMA AcceptPays ==
  ASSUME IndInv, PaidFor, NEW B \in wire, CloudAccepts(B) PROVE PaidFor'
<1>1. faults \in Nat /\ rows \in [Jobs -> Nat] /\ B \subseteq Jobs
  BY UploadWorkerAssumption DEF IndInv, TypeOK
<1>2. wire' = wire \ {B} /\ seen' = seen \cup {B}
  BY DEF CloudAccepts, Answer
<1>3. UNCHANGED <<queue, sent, unassigned, faults>>
  BY DEF CloudAccepts, dbVars, workVars
<1>4. answer' = answer \/ (sent = B /\ answer = "none" /\ answer' = "accepted")
  BY DEF CloudAccepts, Answer, Awaited, PaidFor
<1>5. ASSUME NEW j \in Jobs PROVE Charge(j)' <= 1 + faults'
  <2>1. /\ Cardinality(Unseen(j)) \in Nat /\ Cardinality(Unseen(j)') \in Nat
        /\ Cardinality(Unseen(j)') =
              IF j \in B /\ B \notin seen THEN Cardinality(Unseen(j)) - 1
                                          ELSE Cardinality(Unseen(j))
    BY <1>2, UnseenType, UnseenShrinks DEF PaidFor
  <2>2. /\ rows[j] \in Nat
        /\ rows'[j] = IF j \in B /\ B \notin seen THEN rows[j] + 1 ELSE rows[j]
    BY <1>1 DEF CloudAccepts
  <2>3. SentAgain(j)' => SentAgain(j)
    BY <1>3, <1>4 DEF SentAgain
  <2>4. Charge(j) <= 1 + faults
    BY DEF PaidFor
  <2> QED
    BY <1>1, <1>3, <2>1, <2>2, <2>3, <2>4 DEF Charge
<1>6. IsFiniteSet(wire')
  BY <1>2, FS_RemoveElement DEF PaidFor
<1>7. \A C \in seen' : C \cap (Invalid \cup unassigned') = {}
  BY <1>2, <1>3 DEF CloudAccepts, PaidFor
<1>8. answer' # "none" => sent' \notin wire'
  BY <1>2, <1>3, <1>4 DEF PaidFor
<1> QED
  BY <1>5, <1>6, <1>7, <1>8 DEF PaidFor

\* A new row has never been sent.
LEMMA EnqueuePays ==
  ASSUME IndInv, PaidFor, NEW k \in Jobs, Enqueue(k) PROVE PaidFor'
<1>1. faults \in Nat /\ rows \in [Jobs -> Nat]
  BY UploadWorkerAssumption DEF IndInv, TypeOK
<1>2. /\ queue' = queue \cup {k} /\ k \notin created
      /\ UNCHANGED <<sent, answer, wire, seen, rows, unassigned, faults>>
  BY DEF Enqueue, workVars, cloudVars
<1>3. \A j \in Jobs : Unseen(j)' = Unseen(j)
  BY <1>2 DEF Unseen
<1>4. rows[k] = 0 /\ Unseen(k) = {}
  BY <1>1, <1>2 DEF IndInv, TypeOK, InsertedIsGood, Delivered, Unseen
<1>5. ASSUME NEW j \in Jobs PROVE Charge(j)' <= 1 + faults'
  <2>1. Cardinality(Unseen(j)) \in Nat /\ rows[j] \in Nat /\ Charge(j) <= 1 + faults
    BY <1>1, UnseenType DEF PaidFor
  <2>2. CASE j = k
    <3>1. Cardinality(Unseen(j)') = 0 /\ rows'[j] = 0
      BY <1>2, <1>3, <1>4, <2>2, FS_EmptySet
    <3> QED
      BY <1>1, <1>2, <3>1 DEF Charge
  <2>3. CASE j # k
    <3>1. SentAgain(j)' <=> SentAgain(j)
      BY <1>2, <2>3 DEF SentAgain
    <3> QED
      BY <1>2, <1>3, <2>1, <3>1 DEF Charge
  <2> QED
    BY <2>2, <2>3
<1> QED
  BY <1>2, <1>5 DEF PaidFor

LEMMA PaidStep == ASSUME IndInv, PaidFor, Next PROVE PaidFor'
<1>1. ASSUME NEW j \in Jobs, Enqueue(j) PROVE PaidFor'
  BY <1>1, EnqueuePays
<1>2. ASSUME NEW j \in Jobs, Assign(j) PROVE PaidFor'
  <2>1. /\ UNCHANGED <<queue, sent, answer, wire, seen, rows, faults>>
        /\ unassigned' \subseteq unassigned
    BY <1>2 DEF Assign, dbVars, workVars
  <2>2. \A i \in Jobs : Charge(i)' = Charge(i)
    BY <2>1 DEF Charge, Unseen, SentAgain
  <2> QED
    BY <2>1, <2>2 DEF PaidFor
<1>3. CASE Fetch \/ EndCycle \/ EndIsolation \/ \E j \in Jobs : BuryMalformed(j)
  BY <1>3, LoopPays
     DEF Fetch, EndCycle, EndIsolation, BuryMalformed, MoveToDlq, StartOver, dbVars,
         IndInv, HeldOnce, PaidFor, SentAgain
<1>4. CASE PostGroup
  <2>1. batch' \subseteq queue /\ sent = {}
    BY <1>4 DEF PostGroup, FirstGroup, IndInv, TypeOK, HeldOnce
  <2> QED
    BY <1>4, <2>1, PostPays DEF PostGroup, dbVars
<1>5. ASSUME NEW j \in Jobs, PostOne(j) PROVE PaidFor'
  <2>1. {j} \subseteq queue /\ sent = {}
    BY <1>5 DEF PostOne, IndInv, TypeOK, HeldOnce
  <2> QED
    BY <1>5, <2>1, PostPays DEF PostOne, dbVars
<1>6. CASE GroupAccepted \/ OneAccepted
  BY <1>6, LoopPays
     DEF GroupAccepted, OneAccepted, DeleteSent, BackToIsolation, SentAgain
<1>7. CASE GroupRefused \/ GroupFails \/ GroupGone \/ OneKept
  BY <1>7, LoopPays
     DEF GroupRefused, GroupFails, GroupGone, OneKept, CountFailure, StartOver,
         BackToIsolation, dbVars, SentAgain
<1>8. CASE OneInvalid
  BY <1>8, LoopPays DEF OneInvalid, MoveToDlq, BackToIsolation, SentAgain
<1>9. CASE GroupUnanswered \/ OneUnanswered \/ Abandon
  BY <1>9, LoopPays
     DEF GroupUnanswered, OneUnanswered, Abandon, Fault, StartOver, BackToIsolation
<1>10. ASSUME NEW B \in wire, CloudRefuses(B) PROVE PaidFor'
  <2>1. B \notin seen
    BY <1>10 DEF CloudRefuses, PaidFor
  <2> QED
    BY <1>10, <2>1, UninsertedPays DEF CloudRefuses, Answer, Awaited, dbVars, workVars
<1>11. ASSUME NEW B \in wire, CloudAccepts(B) PROVE PaidFor'
  BY <1>11, AcceptPays
<1>12. ASSUME NEW B \in wire, CloudUnavailable(B) PROVE PaidFor'
  BY <1>12, UninsertedPays
     DEF CloudUnavailable, Fault, Answer, Awaited, dbVars, workVars
<1>13. ASSUME NEW B \in wire, Vanish(B) PROVE PaidFor'
  BY <1>13, UninsertedPays DEF Vanish, dbVars, workVars
<1> QED
  BY <1>1, <1>2, <1>3, <1>4, <1>5, <1>6, <1>7, <1>8, <1>9, <1>10, <1>11, <1>12,
     <1>13 DEF Next, WorkerStep, CloudStep

\* A row is inserted at most once more than there were faults, however the loop
\* batches, isolates and retries.  (upload_worker.py:33-35, 184-304)
THEOREM DuplicatesAlwaysNeedFaults == Spec => []DuplicatesNeedFaults
<1>1. IndInv /\ PaidFor /\ [Next]_vars => PaidFor'
  <2>1. UNCHANGED vars /\ PaidFor => PaidFor'
    BY DEF vars, dbVars, workVars, cloudVars, PaidFor, Charge, Unseen, SentAgain
  <2> QED
    BY <2>1, PaidStep
<1>2. IndInv /\ PaidFor => DuplicatesNeedFaults
  <2> SUFFICES ASSUME IndInv, PaidFor, NEW j \in Jobs PROVE rows[j] <= 1 + faults
    BY DEF DuplicatesNeedFaults
  <2>1. faults \in Nat /\ rows[j] \in Nat /\ Cardinality(Unseen(j)) \in Nat
    BY UploadWorkerAssumption, UnseenType DEF IndInv, TypeOK, PaidFor
  <2> QED
    BY <2>1 DEF PaidFor, Charge
<1> QED
  BY <1>1, <1>2, InitPaid, InvariantHolds, PTL DEF Spec
=============================================================================
