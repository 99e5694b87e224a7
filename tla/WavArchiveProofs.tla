---------------------------- MODULE WavArchiveProofs ---------------------------
(***************************************************************************)
(* Proofs about WavArchive, for any sensors, chunks, limits and faults: no  *)
(* chunk is uploaded before it is finished, or deleted before it is stored; *)
(* the writers fit their slots; and the backlog is bounded.                 *)
(***************************************************************************)
EXTENDS WavArchive, FiniteSetTheorems, SequenceTheorems, WellFoundedInduction, TLAPS

\* The types the argument needs; who owns a writer is not among them.
MapType ==
  /\ file \in [Chunks -> {"free", "part", "wav", "gone", "stuck"}]
  /\ size \in [Chunks -> Nat]
  /\ open \in [Sensors -> Chunks \cup {NoChunk}]
  /\ idle \subseteq Sensors
  /\ todo \subseteq Chunks
  /\ sending \in Chunks \cup {NoChunk}
  /\ wire \subseteq Chunks \X Nat
  /\ cloud \in [Chunks -> Int]

\* A writer's chunk is an unfinished file, and nobody else's.
OpenIsPart ==
  /\ \A s \in Sensors : open[s] # NoChunk => file[open[s]] = "part"
  /\ \A s, r \in Sensors : open[s] = open[r] /\ open[s] # NoChunk => s = r

\* The write under way has a sensor, and from the first check on its chunk.
WriteHasChunk ==
  /\ step # "free" => sensor \in Sensors
  /\ step \in {"rotate", "append"} => open[sensor] # NoChunk

\* What the uploader works on is finished; only an awaited request is answered,
\* and "stored" means that the cloud has the chunk.
WorkIsFinished ==
  /\ todo \subseteq Completed
  /\ stage = "await" => sending \in Completed
  /\ stage # "await" => answer = "none"
  /\ answer = "stored" => cloud[sending] # -1

\* The inductive invariant.
IndInv ==
  MapType /\ OpenIsPart /\ WriteHasChunk /\ WorkIsFinished /\ UploadedWhole

LEMMA InitInv == Init => IndInv
<1> SUFFICES ASSUME Init PROVE IndInv
  OBVIOUS
<1>1. MapType
  BY DEF Init, MapType
<1>2. Completed = {}
  BY DEF Init, Completed
<1> QED
  BY <1>1, <1>2
     DEF Init, IndInv, OpenIsPart, WriteHasChunk, WorkIsFinished, UploadedWhole

\* Every step keeps the types.
LEMMA TypeStep ==
  ASSUME IndInv, Next PROVE MapType'
<1> USE WavArchiveAssumption
       DEF IndInv, MapType, OpenIsPart, WriteHasChunk, WorkIsFinished, fileVars,
           writerVars, uploadVars, netVars
<1>1. ASSUME NEW s \in Sensors, NEW b \in Buckets, Begin(s, b)
      PROVE  MapType'
  BY <1>1 DEF Begin
<1>2. ASSUME NEW s \in Sensors, NEW b \in Buckets, BeginNew(s, b)
      PROVE  MapType'
  BY <1>2 DEF BeginNew, Admitted
<1>3. ASSUME NEW s \in Sensors, NEW b \in Buckets, BeginEvicting(s, b)
      PROVE  MapType'
  BY <1>3 DEF BeginEvicting, Admitted, InUse, Close
<1>4. ASSUME NEW s \in Sensors, EvictionFails(s)
      PROVE  MapType'
  BY <1>4 DEF EvictionFails, InUse, CloseFails
<1>5. ASSUME NEW i \in DOMAIN writers, FinalizeFails(i)
      PROVE  MapType'
  BY <1>5 DEF FinalizeFails, CloseFails
<1>6. ASSUME NEW s \in Sensors, GoesIdle(s)
      PROVE  MapType'
  BY <1>6 DEF GoesIdle, InUse
<1>7. CASE Check
  BY <1>7 DEF Check, Leave
<1>8. CASE Rotate
  BY <1>8 DEF Rotate, Close
<1>9. CASE RefuseToOpen
  BY <1>9 DEF RefuseToOpen, Leave
<1>10. CASE AppendBatch
  BY <1>10 DEF AppendBatch, Leave
<1>11. ASSUME NEW k \in Chunks, OpenNewChunk(k)
      PROVE  MapType'
  BY <1>11 DEF OpenNewChunk
<1>12. CASE RotationFails
  BY <1>12 DEF RotationFails, CloseFails, Leave
<1>13. CASE WriteFails
  BY <1>13 DEF WriteFails, Leave
<1>14. CASE FinalizeIdle
  BY <1>14 DEF FinalizeIdle, Close
<1>15. CASE List
  BY <1>15 DEF List, Completed
<1>16. ASSUME NEW k \in Chunks, Send(k)
      PROVE  MapType'
  BY <1>16 DEF Send, Earliest
<1>17. CASE Acknowledged
  BY <1>17 DEF Acknowledged
<1>18. CASE Refused
  BY <1>18 DEF Refused, BreakOff
<1>19. CASE UploadFails
  BY <1>19 DEF UploadFails, BreakOff
<1>20. ASSUME NEW k \in Chunks, SendFails(k)
      PROVE  MapType'
  BY <1>20 DEF SendFails, BreakOff
<1>21. ASSUME NEW k \in Chunks, BackoffEnds(k)
      PROVE  MapType'
  BY <1>21 DEF BackoffEnds
<1>22. CASE CacheExpires
  BY <1>22 DEF CacheExpires
<1>23. ASSUME NEW r \in wire, CloudHandles(r)
      PROVE  MapType'
  BY <1>23 DEF CloudHandles, Answer
<1>24. ASSUME NEW r \in wire, CloudFails(r)
      PROVE  MapType'
  BY <1>24 DEF CloudFails, Answer
<1>25. ASSUME NEW r \in wire, Vanish(r)
      PROVE  MapType'
  BY <1>25 DEF Vanish
<1>26. CASE Crash
  BY <1>26 DEF Crash, Restart, Leave
<1>27. CASE Shutdown
  BY <1>27 DEF Shutdown, Leave
<1> QED
  BY <1>1, <1>2, <1>3, <1>4, <1>5, <1>6, <1>7, <1>8, <1>9, <1>10, <1>11, <1>12,
     <1>13, <1>14, <1>15, <1>16, <1>17, <1>18, <1>19, <1>20, <1>21, <1>22, <1>23,
     <1>24, <1>25, <1>26, <1>27
     DEF Next, WriterStep, UploaderStep

\* Writers work on chunks of their own.
LEMMA WriterInvStep ==
  ASSUME IndInv, Next PROVE OpenIsPart' /\ WriteHasChunk'
<1> USE WavArchiveAssumption
       DEF IndInv, MapType, OpenIsPart, WriteHasChunk, WorkIsFinished, Completed,
           fileVars, writerVars, uploadVars, netVars
<1>1. ASSUME NEW s \in Sensors, NEW b \in Buckets, Begin(s, b)
      PROVE  OpenIsPart' /\ WriteHasChunk'
  BY <1>1 DEF Begin
<1>2. ASSUME NEW s \in Sensors, NEW b \in Buckets, BeginNew(s, b)
      PROVE  OpenIsPart' /\ WriteHasChunk'
  BY <1>2 DEF BeginNew, Admitted
<1>3. ASSUME NEW s \in Sensors, NEW b \in Buckets, BeginEvicting(s, b)
      PROVE  OpenIsPart' /\ WriteHasChunk'
  BY <1>3 DEF BeginEvicting, Admitted, InUse, Close
<1>4. ASSUME NEW s \in Sensors, EvictionFails(s)
      PROVE  OpenIsPart' /\ WriteHasChunk'
  BY <1>4 DEF EvictionFails, InUse, CloseFails
<1>5. ASSUME NEW i \in DOMAIN writers, FinalizeFails(i)
      PROVE  OpenIsPart' /\ WriteHasChunk'
  BY <1>5 DEF FinalizeFails, CloseFails
<1>6. ASSUME NEW s \in Sensors, GoesIdle(s)
      PROVE  OpenIsPart' /\ WriteHasChunk'
  BY <1>6 DEF GoesIdle, InUse
<1>7. CASE Check
  BY <1>7 DEF Check, Leave
<1>8. CASE Rotate
  BY <1>8 DEF Rotate, Close
<1>9. CASE RefuseToOpen
  BY <1>9 DEF RefuseToOpen, Leave
<1>10. CASE AppendBatch
  BY <1>10 DEF AppendBatch, Leave
<1>11. ASSUME NEW k \in Chunks, OpenNewChunk(k)
      PROVE  OpenIsPart' /\ WriteHasChunk'
  BY <1>11 DEF OpenNewChunk
<1>12. CASE RotationFails
  BY <1>12 DEF RotationFails, CloseFails, Leave
<1>13. CASE WriteFails
  BY <1>13 DEF WriteFails, Leave
<1>14. CASE FinalizeIdle
  BY <1>14 DEF FinalizeIdle, Close
<1>15. CASE List
  BY <1>15 DEF List
<1>16. ASSUME NEW k \in Chunks, Send(k)
      PROVE  OpenIsPart' /\ WriteHasChunk'
  BY <1>16 DEF Send, Earliest
<1>17. CASE Acknowledged
  BY <1>17 DEF Acknowledged
<1>18. CASE Refused
  BY <1>18 DEF Refused, BreakOff
<1>19. CASE UploadFails
  BY <1>19 DEF UploadFails, BreakOff
<1>20. ASSUME NEW k \in Chunks, SendFails(k)
      PROVE  OpenIsPart' /\ WriteHasChunk'
  BY <1>20 DEF SendFails, BreakOff
<1>21. ASSUME NEW k \in Chunks, BackoffEnds(k)
      PROVE  OpenIsPart' /\ WriteHasChunk'
  BY <1>21 DEF BackoffEnds
<1>22. CASE CacheExpires
  BY <1>22 DEF CacheExpires
<1>23. ASSUME NEW r \in wire, CloudHandles(r)
      PROVE  OpenIsPart' /\ WriteHasChunk'
  BY <1>23 DEF CloudHandles, Answer
<1>24. ASSUME NEW r \in wire, CloudFails(r)
      PROVE  OpenIsPart' /\ WriteHasChunk'
  BY <1>24 DEF CloudFails, Answer
<1>25. ASSUME NEW r \in wire, Vanish(r)
      PROVE  OpenIsPart' /\ WriteHasChunk'
  BY <1>25 DEF Vanish
<1>26. CASE Crash
  BY <1>26 DEF Crash, Restart, Leave
<1>27. CASE Shutdown
  BY <1>27 DEF Shutdown, Leave
<1> QED
  BY <1>1, <1>2, <1>3, <1>4, <1>5, <1>6, <1>7, <1>8, <1>9, <1>10, <1>11, <1>12,
     <1>13, <1>14, <1>15, <1>16, <1>17, <1>18, <1>19, <1>20, <1>21, <1>22, <1>23,
     <1>24, <1>25, <1>26, <1>27
     DEF Next, WriterStep, UploaderStep

\* The uploader works on what is finished.
LEMMA UploaderInvStep ==
  ASSUME IndInv, Next PROVE WorkIsFinished' /\ UploadedWhole'
<1> USE WavArchiveAssumption
       DEF IndInv, MapType, OpenIsPart, WriteHasChunk, WorkIsFinished,
           UploadedWhole, Completed, fileVars, writerVars, uploadVars, netVars
<1>1. ASSUME NEW s \in Sensors, NEW b \in Buckets, Begin(s, b)
      PROVE  WorkIsFinished' /\ UploadedWhole'
  BY <1>1 DEF Begin
<1>2. ASSUME NEW s \in Sensors, NEW b \in Buckets, BeginNew(s, b)
      PROVE  WorkIsFinished' /\ UploadedWhole'
  BY <1>2 DEF BeginNew, Admitted
<1>3. ASSUME NEW s \in Sensors, NEW b \in Buckets, BeginEvicting(s, b)
      PROVE  WorkIsFinished' /\ UploadedWhole'
  BY <1>3 DEF BeginEvicting, Admitted, InUse, Close
<1>4. ASSUME NEW s \in Sensors, EvictionFails(s)
      PROVE  WorkIsFinished' /\ UploadedWhole'
  BY <1>4 DEF EvictionFails, InUse, CloseFails
<1>5. ASSUME NEW i \in DOMAIN writers, FinalizeFails(i)
      PROVE  WorkIsFinished' /\ UploadedWhole'
  BY <1>5 DEF FinalizeFails, CloseFails
<1>6. ASSUME NEW s \in Sensors, GoesIdle(s)
      PROVE  WorkIsFinished' /\ UploadedWhole'
  BY <1>6 DEF GoesIdle, InUse
<1>7. CASE Check
  BY <1>7 DEF Check, Leave
<1>8. CASE Rotate
  BY <1>8 DEF Rotate, Close
<1>9. CASE RefuseToOpen
  BY <1>9 DEF RefuseToOpen, Leave
<1>10. CASE AppendBatch
  BY <1>10 DEF AppendBatch, Leave
<1>11. ASSUME NEW k \in Chunks, OpenNewChunk(k)
      PROVE  WorkIsFinished' /\ UploadedWhole'
  BY <1>11 DEF OpenNewChunk
<1>12. CASE RotationFails
  BY <1>12 DEF RotationFails, CloseFails, Leave
<1>13. CASE WriteFails
  BY <1>13 DEF WriteFails, Leave
<1>14. CASE FinalizeIdle
  BY <1>14 DEF FinalizeIdle, Close
<1>15. CASE List
  <2>1. todo' \in {todo, Completed} /\ stage' \in {"scan", "send"}
    BY <1>15 DEF List
  <2>2. stage = "list" /\ UNCHANGED <<fileVars, sending, netVars>>
    BY <1>15 DEF List
  <2> QED
    BY <2>1, <2>2
<1>16. ASSUME NEW k \in Chunks, Send(k)
      PROVE  WorkIsFinished' /\ UploadedWhole'
  BY <1>16 DEF Send, Earliest
<1>17. CASE Acknowledged
  BY <1>17 DEF Acknowledged
<1>18. CASE Refused
  BY <1>18 DEF Refused, BreakOff
<1>19. CASE UploadFails
  BY <1>19 DEF UploadFails, BreakOff
<1>20. ASSUME NEW k \in Chunks, SendFails(k)
      PROVE  WorkIsFinished' /\ UploadedWhole'
  BY <1>20 DEF SendFails, BreakOff
<1>21. ASSUME NEW k \in Chunks, BackoffEnds(k)
      PROVE  WorkIsFinished' /\ UploadedWhole'
  BY <1>21 DEF BackoffEnds
<1>22. CASE CacheExpires
  BY <1>22 DEF CacheExpires
<1>23. ASSUME NEW r \in wire, CloudHandles(r)
      PROVE  WorkIsFinished' /\ UploadedWhole'
  BY <1>23 DEF CloudHandles, Answer
<1>24. ASSUME NEW r \in wire, CloudFails(r)
      PROVE  WorkIsFinished' /\ UploadedWhole'
  BY <1>24 DEF CloudFails, Answer
<1>25. ASSUME NEW r \in wire, Vanish(r)
      PROVE  WorkIsFinished' /\ UploadedWhole'
  BY <1>25 DEF Vanish
<1>26. CASE Crash
  BY <1>26 DEF Crash, Restart, Leave
<1>27. CASE Shutdown
  BY <1>27 DEF Shutdown, Leave
<1> QED
  BY <1>1, <1>2, <1>3, <1>4, <1>5, <1>6, <1>7, <1>8, <1>9, <1>10, <1>11, <1>12,
     <1>13, <1>14, <1>15, <1>16, <1>17, <1>18, <1>19, <1>20, <1>21, <1>22, <1>23,
     <1>24, <1>25, <1>26, <1>27
     DEF Next, WriterStep, UploaderStep

LEMMA InvStep == IndInv /\ [Next]_vars => IndInv'
<1>1. ASSUME IndInv, Next PROVE IndInv'
  BY <1>1, TypeStep, WriterInvStep, UploaderInvStep DEF IndInv
<1>2. ASSUME IndInv, UNCHANGED vars PROVE IndInv'
  BY <1>2
        DEF IndInv, vars, fileVars, writerVars, uploadVars, netVars, MapType,
            OpenIsPart,
         WriteHasChunk, WorkIsFinished, UploadedWhole, Completed
<1> QED
  BY <1>1, <1>2

LEMMA InvariantHolds == Spec => []IndInv
BY InitInv, InvStep, PTL DEF Spec

\* ".part: active, never uploaded": nothing is added to a chunk that is on its
\* way to the cloud or already there.
THEOREM UploadedIsAlwaysWhole == Spec => []UploadedWhole
<1>1. IndInv => UploadedWhole
  BY DEF IndInv
<1> QED
  BY InvariantHolds, <1>1, PTL

\* In local storage: what the abstract queue calls pending.
Stored == {k \in Chunks : file[k] \in {"part", "wav", "stuck"}}
InCloud == {k \in Chunks : cloud[k] # -1}

\* Closing, whether it works or not, renames unfinished files.
LEMMA CloseStores ==
  ASSUME IndInv, NEW S \in SUBSET Sensors,
         Close(S) \/ \E s \in Sensors : CloseFails(s, S)
  PROVE  UNCHANGED Stored
<1> USE DEF IndInv, MapType, OpenIsPart, Stored
<1>1. CASE Close(S)
  BY <1>1 DEF Close
<1>2. ASSUME NEW s \in Sensors, CloseFails(s, S) PROVE UNCHANGED Stored
  BY <1>2 DEF CloseFails
<1> QED
  BY <1>1, <1>2

\* A step of writers, uploader or cloud is one of the abstract queue.
LEMMA StepRefines ==
  ASSUME IndInv, Next PROVE [Abstract!Next]_(Abstract!queueVars)
<1> USE DEF IndInv, Abstract!queueVars, fileVars, writerVars, uploadVars, netVars
<1>1. ASSUME UNCHANGED <<Stored, cloud>> PROVE UNCHANGED Abstract!queueVars
  BY <1>1 DEF Stored
<1>2. ASSUME NEW k \in Chunks, OpenNewChunk(k) PROVE Abstract!Next
  <2>1. file[k] = "free" /\ cloud[k] = -1
    BY <1>2 DEF OpenNewChunk, UploadedWhole
  <2>2. Stored' = Stored \cup {k} /\ UNCHANGED cloud
    BY <1>2 DEF OpenNewChunk, Stored, MapType
  <2>3. Abstract!Accept(k)
    BY <2>1, <2>2 DEF Abstract!Accept, Stored
  <2> QED
    BY <2>3 DEF Abstract!Next
<1>3. CASE Acknowledged
  <2>1. PICK k \in Chunks : k = sending
    BY <1>3 DEF Acknowledged, WorkIsFinished, Completed
  <2>2. file[k] = "wav" /\ cloud[k] # -1
    BY <1>3, <2>1 DEF Acknowledged, WorkIsFinished, Completed
  <2>3. Stored' = Stored \ {k} /\ UNCHANGED cloud
    BY <1>3, <2>1, <2>2 DEF Acknowledged, Stored, MapType
  <2>4. Abstract!Discard({k})
    BY <2>2, <2>3 DEF Abstract!Discard, Stored
  <2> QED
    BY <2>4 DEF Abstract!Next
<1>4. ASSUME NEW r \in wire, CloudHandles(r), r[1] \notin Poison PROVE Abstract!Next
  <2>1. r[1] \in Chunks /\ r[2] \in Nat
    BY <1>4 DEF MapType
  <2>2. cloud' = [cloud EXCEPT ![r[1]] = r[2]] /\ UNCHANGED file
    BY <1>4 DEF CloudHandles
  <2>3. InCloud' = InCloud \cup {r[1]}
    BY <2>1, <2>2 DEF InCloud, MapType
  <2>4. Abstract!Deliver({r[1]})
    BY <1>4, <2>1, <2>2, <2>3 DEF Abstract!Deliver, InCloud
  <2> QED
    BY <2>1, <2>4 DEF Abstract!Next
<1>5. ASSUME NEW r \in wire, CloudHandles(r), r[1] \in Poison
      PROVE  UNCHANGED <<Stored, cloud>>
  BY <1>5 DEF CloudHandles, Stored
<1>6. ASSUME NEW s \in Sensors, NEW b \in Buckets,
             Begin(s, b) \/ BeginNew(s, b) \/ BeginEvicting(s, b)
      PROVE  UNCHANGED <<Stored, cloud>>
  <2>1. CASE Begin(s, b) \/ BeginNew(s, b)
    BY <1>6, <2>1 DEF Begin, BeginNew, Admitted, Stored
  <2>2. CASE BeginEvicting(s, b)
    <3>1. PICK evicted \in InUse : Close({evicted})
      BY <2>2 DEF BeginEvicting
    <3>2. {evicted} \in SUBSET Sensors
      BY <3>1 DEF InUse
    <3> QED
      BY <2>2, <3>1, <3>2, CloseStores DEF BeginEvicting, Admitted
  <2> QED
    BY <1>6, <2>1, <2>2
<1>7. ASSUME NEW s \in Sensors, EvictionFails(s) \/ GoesIdle(s)
      PROVE  UNCHANGED <<Stored, cloud>>
  <2>1. CASE EvictionFails(s)
    <3>1. PICK evicted \in InUse : CloseFails(evicted, {})
      BY <2>1 DEF EvictionFails
    <3> QED
      BY <2>1, <3>1, CloseStores DEF EvictionFails, InUse
  <2>2. CASE GoesIdle(s)
    BY <2>2 DEF GoesIdle, Stored
  <2> QED
    BY <1>7, <2>1, <2>2
<1>8. CASE Rotate \/ RotationFails \/ FinalizeIdle
  <2>1. ASSUME Rotate PROVE UNCHANGED <<Stored, cloud>>
    <3>1. Close({sensor}) /\ {sensor} \in SUBSET Sensors
      BY <2>1 DEF Rotate, WriteHasChunk
    <3> QED
      BY <2>1, <3>1, CloseStores DEF Rotate
  <2>2. ASSUME RotationFails PROVE UNCHANGED <<Stored, cloud>>
    <3>1. CloseFails(sensor, {}) /\ sensor \in Sensors
      BY <2>2 DEF RotationFails, WriteHasChunk
    <3> QED
      BY <2>2, <3>1, CloseStores DEF RotationFails
  <2>3. ASSUME FinalizeIdle PROVE UNCHANGED <<Stored, cloud>>
    <3>1. Close(idle) /\ idle \in SUBSET Sensors
      BY <2>3 DEF FinalizeIdle, MapType
    <3> QED
      BY <2>3, <3>1, CloseStores DEF FinalizeIdle
  <2> QED
    BY <1>8, <1>1, <2>1, <2>2, <2>3
<1>9. CASE Crash \/ Shutdown
  <2>1. UNCHANGED <<Stored, cloud>>
    BY <1>9 DEF Crash, Restart, Shutdown, OpenChunk, OpenIsPart, Stored, MapType
  <2> QED
    BY <1>1, <2>1
<1>10. CASE \/ Check \/ RefuseToOpen \/ AppendBatch \/ WriteFails \/ List \/ Refused
            \/ UploadFails \/ CacheExpires
            \/ (\E k \in Chunks : Send(k) \/ SendFails(k) \/ BackoffEnds(k))
            \/ \E r \in wire : CloudFails(r) \/ Vanish(r)
  <2>1. UNCHANGED <<Stored, cloud>>
    BY <1>10
       DEF Check, RefuseToOpen, AppendBatch, WriteFails, List, Refused, UploadFails,
           CacheExpires, Send, SendFails, BackoffEnds, CloudFails, Vanish, BreakOff,
           Stored
  <2> QED
    BY <1>1, <2>1
<1>11. ASSUME NEW i \in DOMAIN writers, FinalizeFails(i)
       PROVE  UNCHANGED <<Stored, cloud>>
  <2>1. PICK S \in SUBSET idle : CloseFails(writers[i], S)
    BY <1>11 DEF FinalizeFails
  <2>2. S \in SUBSET Sensors /\ writers[i] \in Sensors
    BY <1>11 DEF FinalizeFails, MapType
  <2> QED
    BY <1>11, <2>1, <2>2, CloseStores DEF FinalizeFails
<1> QED
  BY <1>1, <1>2, <1>3, <1>4, <1>5, <1>6, <1>7, <1>8, <1>9, <1>10, <1>11
     DEF Next, WriterStep, UploaderStep

\* A chunk is in local storage from its first byte until the cloud has it.
\* (wav_writer.py, wav_uploader.py:233-354)
THEOREM ImplementsOutboundQueue == Spec => Implements
<1>1. Init => Abstract!Init
  BY DEF Init, Abstract!Init
<1>2. IndInv /\ [Next]_vars => [Abstract!Next]_(Abstract!queueVars)
  <2>1. UNCHANGED vars => UNCHANGED Abstract!queueVars
    BY DEF vars, fileVars, netVars, Abstract!queueVars
  <2> QED
    BY <2>1, StepRefines
<1> QED
  BY <1>1, <1>2, InvariantHolds, PTL DEF Spec, Implements, Abstract!Spec

-----------------------------------------------------------------------------
(* Without.  The least element of a set of naturals stands in for           *)
(* induction: the set of the numbers up to which the claim holds.           *)

LEMMA LeastNatural ==
  ASSUME NEW T, T \subseteq Nat, T # {}
  PROVE  \E n \in T : \A m \in T : n <= m
<1>1. PICK x \in T : \A y \in T : ~ (<<y, x>> \in OpToRel(<, Nat))
  BY NatLessThanWellFounded, WFMin
<1>2. \A y \in T : ~ (y < x)
  BY <1>1 DEF OpToRel
<1> QED
  BY <1>2

LEMMA UpTo ==
  ASSUME NEW n \in Nat, NEW T, 0 \in T, \A m \in 0 .. n - 1 : m \in T => m + 1 \in T
  PROVE  0 .. n \subseteq T
<1> DEFINE missing == (0 .. n) \ T
<1> SUFFICES ASSUME missing # {} PROVE FALSE
  OBVIOUS
<1>0. missing \subseteq Nat
  OBVIOUS
<1>1. PICK k \in missing : \A m \in missing : k <= m
  <2> HIDE DEF missing
  <2> QED
    BY <1>0, LeastNatural
<1>2. k \in 1 .. n /\ k \notin T
  OBVIOUS
<1>3. k - 1 \in 0 .. n - 1 /\ (k - 1) + 1 = k /\ ~ (k <= k - 1)
  BY <1>2
<1>4. k - 1 \in missing
  BY <1>2, <1>3
<1> QED
  BY <1>1, <1>3, <1>4

LEMMA AppendedTo ==
  ASSUME NEW R, NEW q \in Seq(R), NEW e \in R
  PROVE  /\ Append(q, e) \in Seq(R) /\ Len(Append(q, e)) = Len(q) + 1
         /\ {Append(q, e)[i] : i \in DOMAIN Append(q, e)} = {q[i] : i \in DOMAIN q} \cup {e}
<1> DEFINE t == Append(q, e)
<1>1. /\ t \in Seq(R) /\ Len(t) = Len(q) + 1
      /\ \A i \in 1 .. Len(q) : t[i] = q[i]
      /\ t[Len(q) + 1] = e
  BY AppendProperties
<1>2. DOMAIN t = 1 .. Len(q) + 1 /\ DOMAIN q = 1 .. Len(q) /\ Len(q) \in Nat
  BY <1>1
<1> HIDE DEF t
<1>3. 1 .. Len(q) + 1 = 1 .. Len(q) \cup {Len(q) + 1}
  BY <1>2
<1>4. {t[i] : i \in DOMAIN t} = {q[i] : i \in DOMAIN q} \cup {e}
  BY <1>1, <1>2, <1>3
<1> QED
  BY <1>1, <1>4 DEF t

\* f follows the recursion of Without up to n.
Filters(f, n, S) ==
  f = [m \in 0 .. n |->
         IF m = 0 THEN << >>
         ELSE IF writers[m] \in S THEN f[m - 1] ELSE Append(f[m - 1], writers[m])]

LEMMA FiltersEquations ==
  ASSUME NEW n \in Nat, NEW S, NEW f, Filters(f, n, S)
  PROVE  /\ f[0] = << >>
         /\ \A m \in 1 .. n :
              f[m] = IF writers[m] \in S THEN f[m - 1] ELSE Append(f[m - 1], writers[m])
<1>1. ASSUME NEW m \in 0 .. n
      PROVE  f[m] = IF m = 0 THEN << >>
                    ELSE IF writers[m] \in S THEN f[m - 1] ELSE Append(f[m - 1], writers[m])
  <2> DEFINE body(k) == IF k = 0 THEN << >>
                        ELSE IF writers[k] \in S THEN f[k - 1]
                        ELSE Append(f[k - 1], writers[k])
             F == [k \in 0 .. n |-> body(k)]
  <2>1. f = F
    BY DEF Filters
  <2> HIDE DEF body
  <2>2. F[m] = body(m)
    OBVIOUS
  <2> HIDE DEF F
  <2>3. f[m] = body(m)
    BY <2>1, <2>2
  <2> QED
    BY <2>3 DEF body
<1>2. 0 \in 0 .. n /\ \A m \in 1 .. n : m \in 0 .. n /\ m # 0
  OBVIOUS
<1> QED
  BY <1>1, <1>2

LEMMA FiltersFurther ==
  ASSUME NEW n \in Nat, n # 0, NEW S, NEW f, Filters(f, n - 1, S)
  PROVE  \E g : Filters(g, n, S)
<1> DEFINE last == IF writers[n] \in S THEN f[n - 1] ELSE Append(f[n - 1], writers[n])
           g == [m \in 0 .. n |-> IF m = n THEN last ELSE f[m]]
<1>1. /\ f[0] = << >>
      /\ \A m \in 1 .. n - 1 :
           f[m] = IF writers[m] \in S THEN f[m - 1] ELSE Append(f[m - 1], writers[m])
  BY FiltersEquations
<1> HIDE DEF last
<1>2. /\ g[0] = << >>
      /\ \A m \in 1 .. n - 1 : g[m] = f[m] /\ g[m - 1] = f[m - 1]
      /\ g[n] = last /\ g[n - 1] = f[n - 1]
  BY <1>1
<1>3. g = [m \in 0 .. n |-> g[m]]
  OBVIOUS
<1> HIDE DEF g
<1>4. \A m \in 0 .. n :
        g[m] = IF m = 0 THEN << >>
               ELSE IF writers[m] \in S THEN g[m - 1] ELSE Append(g[m - 1], writers[m])
  <2> SUFFICES ASSUME NEW m \in 0 .. n
               PROVE  g[m] = IF m = 0 THEN << >>
                             ELSE IF writers[m] \in S THEN g[m - 1]
                             ELSE Append(g[m - 1], writers[m])
    OBVIOUS
  <2>1. CASE m = 0
    BY <1>2, <2>1
  <2>2. CASE m = n
    BY <1>2, <2>2 DEF last
  <2>3. CASE m # 0 /\ m # n
    <3>1. m \in 1 .. n - 1
      BY <2>3
    <3> QED
      BY <1>1, <1>2, <2>3, <3>1
  <2> QED
    BY <2>1, <2>2, <2>3
<1>5. Filters(g, n, S)
  BY <1>3, <1>4 DEF Filters
<1> QED
  BY <1>5

\* The recursion defines something.
LEMMA WithoutFilters ==
  ASSUME writers \in Seq(Sensors), NEW S
  PROVE  \E f : Filters(f, Len(writers), S) /\ Without(S) = f[Len(writers)]
<1> DEFINE T == {k \in Nat : \E f : Filters(f, k, S)}
           f == CHOOSE f : Filters(f, Len(writers), S)
           n == Len(writers)
<1>1. 0 \in T
  <2>1. Filters([m \in 0 .. 0 |-> << >>], 0, S)
    BY DEF Filters
  <2> QED
    BY <2>1
<1>2. ASSUME NEW m \in 0 .. n - 1, m \in T PROVE m + 1 \in T
  <2>1. m + 1 \in Nat /\ m + 1 # 0 /\ (m + 1) - 1 = m
    OBVIOUS
  <2>2. PICK e : Filters(e, (m + 1) - 1, S)
    BY <1>2, <2>1
  <2> QED
    BY <2>1, <2>2, FiltersFurther
<1>3. n \in T
  <2> HIDE DEF T
  <2>1. 0 .. n \subseteq T
    BY <1>1, <1>2, UpTo
  <2> QED
    BY <2>1
<1>4. Filters(f, n, S)
  BY <1>3
<1>5. Without(S) = f[n]
  BY DEF Without, Filters
<1> QED
  BY <1>4, <1>5

\* Without keeps the others, and is shorter if it drops any.
LEMMA WithoutWorks ==
  ASSUME writers \in Seq(Sensors), NEW S
  PROVE  /\ Without(S) \in Seq(Sensors)
         /\ Len(Without(S)) <= Len(writers)
         /\ (\E i \in DOMAIN writers : writers[i] \in S) => Len(Without(S)) < Len(writers)
         /\ {Without(S)[i] : i \in DOMAIN Without(S)}
              = {writers[i] : i \in DOMAIN writers} \ S
<1> DEFINE n == Len(writers)
<1>1. PICK f : Filters(f, n, S) /\ Without(S) = f[n]
  BY WithoutFilters
<1>2. /\ f[0] = << >>
      /\ \A m \in 1 .. n :
           f[m] = IF writers[m] \in S THEN f[m - 1] ELSE Append(f[m - 1], writers[m])
  BY <1>1, FiltersEquations
<1> DEFINE Good(m) == /\ f[m] \in Seq(Sensors) /\ Len(f[m]) <= m
                      /\ (\E i \in 1 .. m : writers[i] \in S) => Len(f[m]) < m
                      /\ {f[m][i] : i \in DOMAIN f[m]} = {writers[i] : i \in 1 .. m} \ S
           T == {m \in 0 .. n : Good(m)}
<1>3. 0 \in T
  <2>1. f[0] = << >> /\ 1 .. 0 = {} /\ 0 \in 0 .. n
    BY <1>2
  <2>2. << >> \in Seq(Sensors) /\ Len(<< >>) = 0 /\ DOMAIN << >> = {}
    OBVIOUS
  <2>3. Good(0)
    BY <2>1, <2>2
  <2> QED
    BY <2>1, <2>3
<1>4. ASSUME NEW m \in 0 .. n - 1, Good(m) PROVE Good(m + 1)
  <2>1. /\ m \in Nat /\ m + 1 \in 1 .. n /\ (m + 1) - 1 = m
        /\ writers[m + 1] \in Sensors
        /\ 1 .. m + 1 = 1 .. m \cup {m + 1}
    OBVIOUS
  <2>2. {writers[i] : i \in 1 .. m + 1} = {writers[i] : i \in 1 .. m} \cup {writers[m + 1]}
    BY <2>1
  <2>3. f[m + 1] = IF writers[m + 1] \in S THEN f[m] ELSE Append(f[m], writers[m + 1])
    BY <1>2, <2>1
  <2>4. CASE writers[m + 1] \in S
    BY <1>4, <2>1, <2>2, <2>3, <2>4
  <2>5. CASE writers[m + 1] \notin S
    <3>1. f[m + 1] = Append(f[m], writers[m + 1])
      BY <2>3, <2>5
    <3>2. /\ f[m + 1] \in Seq(Sensors) /\ Len(f[m + 1]) = Len(f[m]) + 1
          /\ {f[m + 1][i] : i \in DOMAIN f[m + 1]}
               = {f[m][i] : i \in DOMAIN f[m]} \cup {writers[m + 1]}
      BY <1>4, <2>1, <3>1, AppendedTo
    <3>3. (\E i \in 1 .. m + 1 : writers[i] \in S) => \E i \in 1 .. m : writers[i] \in S
      BY <2>1, <2>5
    <3>4. Len(f[m]) \in Nat /\ Len(f[m]) <= m
      BY <1>4
    <3>5. {f[m + 1][i] : i \in DOMAIN f[m + 1]} = {writers[i] : i \in 1 .. m + 1} \ S
      BY <1>4, <2>2, <2>5, <3>2
    <3>6. /\ Len(f[m + 1]) <= m + 1
          /\ (\E i \in 1 .. m + 1 : writers[i] \in S) => Len(f[m + 1]) < m + 1
      BY <1>4, <2>1, <3>2, <3>3, <3>4
    <3> QED
      BY <3>2, <3>5, <3>6
  <2> QED
    BY <2>4, <2>5
<1>5. n \in Nat
  OBVIOUS
<1>6. Good(n)
  <2>1. ASSUME NEW m \in 0 .. n - 1, m \in T PROVE m + 1 \in T
    <3>1. Good(m) /\ m + 1 \in 0 .. n
      BY <1>5, <2>1
    <3>2. Good(m + 1)
      BY <1>4, <3>1
    <3> HIDE DEF Good
    <3> QED
      BY <3>1, <3>2
  <2> HIDE DEF T
  <2>2. 0 .. n \subseteq T
    BY <1>3, <1>5, <2>1, UpTo
  <2> HIDE DEF n
  <2>3. n \in T
    BY <1>5, <2>2
  <2> QED
    BY <2>3 DEF T
<1>7. n = Len(writers) /\ DOMAIN writers = 1 .. n
  BY DEF n
<1> QED
  BY <1>1, <1>6, <1>7

-----------------------------------------------------------------------------
(* The types, whole: how many writers there are, who has one, and how full *)
(* a chunk is.                                                             *)

Keys(q) == {q[i] : i \in DOMAIN q}

\* A sensor whose chunk is open, that is idle, or that is being written has a
\* writer; a chunk is only opened where there is none.
WriterTypes ==
  /\ writers \in Seq(Sensors) /\ Len(writers) <= MaxOpen
  /\ \A s \in Sensors : open[s] # NoChunk => s \in InUse
  /\ idle \subseteq InUse
  /\ step # "free" => sensor \in InUse
  /\ step = "open" => open[sensor] = NoChunk

\* From the begin of a write to its append there is room for the batch.
SizeTypes ==
  /\ size \in [Chunks -> 0 .. MaxSize] /\ bucket \in [Chunks -> Nat]
  /\ wire \subseteq Chunks \X (0 .. MaxSize)
  /\ cloud \in [Chunks -> -1 .. MaxSize]
  /\ \A k \in Chunks : file[k] = "free" => size[k] = 0
  /\ step = "check" /\ open[sensor] # NoChunk /\ bucket[open[sensor]] = window
       => size[open[sensor]] < MaxSize
  /\ step = "append" => size[open[sensor]] < MaxSize

RestTypes ==
  /\ cache \in {-1} \cup 0 .. Cardinality(Chunks)
  /\ step \in {"free", "check", "rotate", "open", "append"}
  /\ sensor \in Sensors \cup {NoSensor} /\ window \in Buckets \cup {0}
  /\ stage \in {"scan", "list", "send", "await"}
  /\ stage # "await" => sending = NoChunk
  /\ backoff \subseteq Chunks
  /\ answer \in {"none", "stored", "rejected", "failed", "mismatch"}
  /\ faults \in 0 .. MaxFaults

TypeInv == WriterTypes /\ SizeTypes /\ RestTypes

LEMMA InitTypes == Init => TypeInv
<1> SUFFICES ASSUME Init PROVE TypeInv
  OBVIOUS
<1> USE WavArchiveAssumption DEF Init
<1>1. WriterTypes
  <2>1. writers \in Seq(Sensors) /\ Len(writers) = 0 /\ InUse = {}
    BY DEF InUse
  <2> QED
    BY <2>1 DEF WriterTypes
<1>2. SizeTypes
  BY DEF SizeTypes
<1>3. RestTypes
  BY DEF RestTypes
<1> QED
  BY <1>1, <1>2, <1>3 DEF TypeInv

\* The sensors with a writer are the elements of the sequence.
LEMMA UsersAreKeys ==
  ASSUME NEW q \in Seq(Sensors)
  PROVE  {s \in Sensors : \E i \in 1 .. Len(q) : q[i] = s} = Keys(q)
<1>1. DOMAIN q = 1 .. Len(q) /\ \A i \in 1 .. Len(q) : q[i] \in Sensors
  OBVIOUS
<1> QED
  BY <1>1 DEF Keys

LEMMA KeysOfTail ==
  ASSUME NEW q \in Seq(Sensors), q # << >>
  PROVE  /\ Tail(q) \in Seq(Sensors) /\ Len(Tail(q)) = Len(q) - 1
         /\ Keys(q) \ {Head(q)} \subseteq Keys(Tail(q))
         /\ Keys(Tail(q)) \subseteq Keys(q)
         /\ Head(q) \in Keys(q)
<1>1. /\ Tail(q) \in Seq(Sensors) /\ Len(Tail(q)) = Len(q) - 1
      /\ \A i \in 1 .. Len(Tail(q)) : Tail(q)[i] = q[i + 1]
      /\ Head(q) = q[1] /\ Len(q) \in Nat /\ Len(q) # 0
  OBVIOUS
<1>2. DOMAIN q = 1 .. Len(q) /\ DOMAIN Tail(q) = 1 .. Len(q) - 1
  BY <1>1
<1>3. ASSUME NEW e \in Keys(q), e # Head(q) PROVE e \in Keys(Tail(q))
  <2>1. PICK i \in 1 .. Len(q) : e = q[i]
    BY <1>2 DEF Keys
  <2>2. i - 1 \in 1 .. Len(q) - 1 /\ (i - 1) + 1 = i
    BY <1>1, <1>3, <2>1
  <2>3. Tail(q)[i - 1] = e
    BY <1>1, <2>1, <2>2
  <2> QED
    BY <1>2, <2>2, <2>3 DEF Keys
<1>4. Keys(Tail(q)) \subseteq Keys(q)
  <2> SUFFICES ASSUME NEW i \in 1 .. Len(q) - 1 PROVE q[i + 1] \in Keys(q)
    BY <1>1, <1>2 DEF Keys
  <2>1. i + 1 \in 1 .. Len(q)
    BY <1>1
  <2> QED
    BY <1>2, <2>1 DEF Keys
<1>5. Head(q) \in Keys(q)
  <2>1. 1 \in 1 .. Len(q)
    BY <1>1
  <2> QED
    BY <1>1, <1>2, <2>1 DEF Keys
<1> QED
  BY <1>1, <1>3, <1>4, <1>5

\* What each way of changing the sequence does to the set of its sensors.
LEMMA WritersAfter ==
  ASSUME WriterTypes
  PROVE  /\ InUse = Keys(writers)
         /\ \A S : /\ Without(S) \in Seq(Sensors) /\ Len(Without(S)) <= Len(writers)
                   /\ Keys(Without(S)) = InUse \ S
         /\ \A s \in InUse : Len(Without({s})) < Len(writers)
         /\ writers # << >> =>
              /\ Tail(writers) \in Seq(Sensors) /\ Len(Tail(writers)) = Len(writers) - 1
              /\ InUse \ {Head(writers)} \subseteq Keys(Tail(writers))
              /\ Keys(Tail(writers)) \subseteq InUse
         /\ \A q \in Seq(Sensors), s \in Sensors :
              /\ Append(q, s) \in Seq(Sensors) /\ Len(Append(q, s)) = Len(q) + 1
              /\ Keys(Append(q, s)) = Keys(q) \cup {s}
<1>1. writers \in Seq(Sensors)
  BY DEF WriterTypes
<1>2. InUse = Keys(writers)
  BY <1>1, UsersAreKeys DEF InUse
<1>3. \A s \in InUse : Len(Without({s})) < Len(writers)
  BY <1>1, <1>2, WithoutWorks DEF Keys
<1>4. \A S : /\ Without(S) \in Seq(Sensors) /\ Len(Without(S)) <= Len(writers)
             /\ Keys(Without(S)) = InUse \ S
  BY <1>1, <1>2, WithoutWorks DEF Keys
<1>5. \A q \in Seq(Sensors), s \in Sensors :
        /\ Append(q, s) \in Seq(Sensors) /\ Len(Append(q, s)) = Len(q) + 1
        /\ Keys(Append(q, s)) = Keys(q) \cup {s}
  BY AppendedTo DEF Keys
<1> QED
  BY <1>1, <1>2, <1>3, <1>4, <1>5, KeysOfTail

\* To keep WriterTypes it is enough to speak of the new sequence.
LEMMA WriterTypesFrom ==
  ASSUME /\ writers' \in Seq(Sensors) /\ Len(writers') <= MaxOpen
         /\ \A s \in Sensors : open'[s] # NoChunk => s \in Keys(writers')
         /\ idle' \subseteq Keys(writers')
         /\ step' # "free" => sensor' \in Keys(writers')
         /\ step' = "open" => open'[sensor'] = NoChunk
  PROVE  WriterTypes'
<1>1. InUse' = Keys(writers')
  BY UsersAreKeys DEF InUse
<1> QED
  BY <1>1 DEF WriterTypes

LEMMA WriterTypesStep ==
  ASSUME IndInv, WriterTypes, Next PROVE WriterTypes'
<1> USE WavArchiveAssumption
<1>1. MapType /\ OpenIsPart
  BY DEF IndInv
<1>2. /\ InUse = Keys(writers) /\ InUse \subseteq Sensors
      /\ writers \in Seq(Sensors) /\ Len(writers) \in Nat /\ Len(writers) <= MaxOpen
      /\ \A s \in Sensors : open[s] # NoChunk => s \in InUse
      /\ idle \subseteq InUse
      /\ step # "free" => sensor \in InUse
      /\ step = "open" => open[sensor] = NoChunk
  BY WritersAfter DEF WriterTypes, InUse
<1>3. ASSUME NEW s \in Sensors, NEW b \in Buckets, Begin(s, b)
      PROVE  WriterTypes'
  <2>1. /\ writers' = Append(Without({s}), s) /\ s \in InUse
        /\ step' = "check" /\ sensor' = s /\ UNCHANGED <<open, idle>>
    BY <1>3 DEF Begin
  <2>2. /\ writers' \in Seq(Sensors) /\ Len(writers') = Len(Without({s})) + 1
        /\ Keys(writers') = (InUse \ {s}) \cup {s}
        /\ Without({s}) \in Seq(Sensors) /\ Len(Without({s})) < Len(writers)
    BY <2>1, WritersAfter
  <2>3. Len(writers') <= MaxOpen
    BY <1>2, <2>2
  <2> QED
    BY <1>2, <2>1, <2>2, <2>3, WriterTypesFrom
<1>4. ASSUME NEW s \in Sensors, NEW b \in Buckets, BeginNew(s, b)
      PROVE  WriterTypes'
  <2>1. /\ writers' = Append(writers, s) /\ Len(writers) < MaxOpen
        /\ step' = "check" /\ sensor' = s /\ open' = open /\ idle' \subseteq idle
    BY <1>4 DEF BeginNew, Admitted
  <2>2. /\ writers' \in Seq(Sensors) /\ Len(writers') = Len(writers) + 1
        /\ Keys(writers') = InUse \cup {s}
    BY <1>2, <2>1, WritersAfter
  <2>3. Len(writers') <= MaxOpen
    BY <1>2, <2>1, <2>2
  <2> QED
    BY <1>2, <2>1, <2>2, <2>3, WriterTypesFrom
<1>5. ASSUME NEW s \in Sensors, NEW b \in Buckets, BeginEvicting(s, b)
      PROVE  WriterTypes'
  <2> DEFINE rest == Tail(writers)
  <2>1. /\ writers' = Append(rest, s) /\ Len(writers) >= MaxOpen
        /\ step' = "check" /\ sensor' = s
        /\ idle' = idle \cap {rest[i] : i \in 1 .. Len(rest)}
    BY <1>5 DEF BeginEvicting, Admitted
  <2>2. open' = [r \in Sensors |-> IF r = Head(writers) THEN NoChunk ELSE open[r]]
    BY <1>5 DEF BeginEvicting, Close
  <2>3. writers # << >>
    BY <1>2, <2>1
  <2>4. /\ rest \in Seq(Sensors) /\ Len(rest) = Len(writers) - 1
        /\ InUse \ {Head(writers)} \subseteq Keys(rest)
    BY <2>3, WritersAfter
  <2>5. /\ writers' \in Seq(Sensors) /\ Len(writers') = Len(rest) + 1
        /\ Keys(writers') = Keys(rest) \cup {s}
    BY <2>1, <2>4, WritersAfter
  <2>6. Len(writers') <= MaxOpen
    BY <1>2, <2>4, <2>5
  <2> HIDE DEF rest
  <2>7. idle' \subseteq Keys(rest)
    BY <2>1, <2>4 DEF Keys
  <2>8. \A r \in Sensors : open'[r] # NoChunk => r \in Keys(writers')
    BY <1>2, <2>2, <2>4, <2>5
  <2> QED
    BY <2>1, <2>5, <2>6, <2>7, <2>8, WriterTypesFrom
<1>6. ASSUME NEW s \in Sensors, EvictionFails(s)
      PROVE  WriterTypes'
  <2>1. /\ writers' = Tail(writers) /\ Len(writers) >= MaxOpen
        /\ step = "free" /\ step' = "free"
        /\ idle' = idle \ {Head(writers)}
    BY <1>6 DEF EvictionFails
  <2>2. open' = [r \in Sensors |-> IF r = Head(writers) THEN NoChunk ELSE open[r]]
    BY <1>6 DEF EvictionFails, CloseFails
  <2>3. writers # << >>
    BY <1>2, <2>1
  <2>4. /\ writers' \in Seq(Sensors) /\ Len(writers') = Len(writers) - 1
        /\ InUse \ {Head(writers)} \subseteq Keys(writers')
    BY <2>1, <2>3, WritersAfter
  <2>5. Len(writers') <= MaxOpen
    BY <1>2, <2>4
  <2> QED
    BY <1>2, <2>1, <2>2, <2>4, <2>5, WriterTypesFrom
<1>7. CASE FinalizeIdle
  <2>1. /\ writers' = Without(idle) /\ idle' = {}
        /\ open' = [r \in Sensors |-> IF r \in idle THEN NoChunk ELSE open[r]]
        /\ step' = "free"
    BY <1>7 DEF FinalizeIdle, Close
  <2>2. /\ writers' \in Seq(Sensors) /\ Len(writers') <= Len(writers)
        /\ Keys(writers') = InUse \ idle
    BY <2>1, WritersAfter
  <2>3. Len(writers') <= MaxOpen
    BY <1>2, <2>2
  <2> QED
    BY <1>2, <2>1, <2>2, <2>3, WriterTypesFrom
<1>8. ASSUME NEW i \in DOMAIN writers, FinalizeFails(i)
      PROVE  WriterTypes'
  <2>1. PICK S : /\ CloseFails(writers[i], S) /\ writers' = Without(S) /\ idle' = idle \ S
                 /\ step' = "free"
    BY <1>8 DEF FinalizeFails
  <2>2. open' = [r \in Sensors |-> IF r \in S \cup {writers[i]} THEN NoChunk ELSE open[r]]
    BY <2>1 DEF CloseFails
  <2>3. /\ writers' \in Seq(Sensors) /\ Len(writers') <= Len(writers)
        /\ Keys(writers') = InUse \ S
    BY <2>1, WritersAfter
  <2>4. Len(writers') <= MaxOpen
    BY <1>2, <2>3
  <2> QED
    BY <1>2, <2>1, <2>2, <2>3, <2>4, WriterTypesFrom
<1>9. ASSUME writers' = << >>, open' = [s \in Sensors |-> NoChunk], idle' = {}, step' = "free"
      PROVE  WriterTypes'
  <2>1. writers' \in Seq(Sensors) /\ Len(writers') = 0
    BY <1>9
  <2> QED
    BY <1>9, <2>1, WriterTypesFrom
<1>10. ASSUME UNCHANGED writers, idle' \subseteq InUse,
              \A s \in Sensors : open'[s] # NoChunk => s \in InUse,
              step' # "free" => sensor' = sensor /\ step # "free",
              step' = "open" => open'[sensor] = NoChunk
       PROVE  WriterTypes'
  BY <1>2, <1>10, WriterTypesFrom
<1>11. CASE Crash \/ Shutdown
  BY <1>9, <1>11 DEF Crash, Restart, Shutdown, Leave
<1>12. ASSUME NEW s \in Sensors, GoesIdle(s) PROVE WriterTypes'
  BY <1>2, <1>10, <1>12 DEF GoesIdle
<1>13. CASE Check
  BY <1>2, <1>10, <1>13 DEF Check, Leave
<1>14. CASE Rotate
  BY <1>2, <1>10, <1>14 DEF Rotate, Close
<1>15. CASE RotationFails
  BY <1>2, <1>10, <1>15 DEF RotationFails, CloseFails, Leave
<1>16. CASE RefuseToOpen \/ AppendBatch \/ WriteFails
  BY <1>2, <1>10, <1>16 DEF RefuseToOpen, AppendBatch, WriteFails, Leave
<1>17. ASSUME NEW k \in Chunks, OpenNewChunk(k) PROVE WriterTypes'
  BY <1>1, <1>2, <1>10, <1>17 DEF OpenNewChunk, MapType
<1>18. ASSUME UNCHANGED <<writers, open, idle, step, sensor>> PROVE WriterTypes'
  BY <1>2, <1>10, <1>18
<1>19. CASE \/ List \/ Acknowledged \/ Refused \/ UploadFails \/ CacheExpires
            \/ (\E k \in Chunks : Send(k) \/ SendFails(k) \/ BackoffEnds(k))
            \/ \E r \in wire : CloudHandles(r) \/ CloudFails(r) \/ Vanish(r)
  BY <1>18, <1>19
     DEF List, Acknowledged, Refused, UploadFails, CacheExpires, Send, SendFails,
         BackoffEnds, CloudHandles, CloudFails, Vanish, BreakOff, writerVars
<1> QED
  BY <1>3, <1>4, <1>5, <1>6, <1>7, <1>8, <1>11, <1>12, <1>13, <1>14, <1>15, <1>16,
     <1>17, <1>19
     DEF Next, WriterStep, UploaderStep

\* No batch is added where there is no room, and the cloud holds no more than
\* a chunk does.
LEMMA SizeTypesStep ==
  ASSUME IndInv, TypeInv, Next PROVE SizeTypes'
<1> USE WavArchiveAssumption
<1>1. /\ MapType /\ OpenIsPart /\ WriteHasChunk
      /\ \A s \in Sensors : open[s] # NoChunk => s \in InUse
      /\ SizeTypes /\ window \in Nat
  BY DEF IndInv, TypeInv, WriterTypes, RestTypes
<1> USE DEF SizeTypes
<1>2. ASSUME NEW s \in Sensors, NEW b \in Buckets, Begin(s, b)
      PROVE  SizeTypes'
  BY <1>1, <1>2 DEF Begin, Room, fileVars, netVars
<1>3. ASSUME NEW s \in Sensors, NEW b \in Buckets, BeginNew(s, b)
      PROVE  SizeTypes'
  BY <1>1, <1>3 DEF BeginNew, Admitted, fileVars, netVars
<1>4. ASSUME NEW s \in Sensors, NEW b \in Buckets, BeginEvicting(s, b)
      PROVE  SizeTypes'
  <2>1. /\ UNCHANGED <<size, bucket, netVars>> /\ s \notin InUse
        /\ step' = "check" /\ sensor' = s
        /\ open'[s] \in {NoChunk, open[s]}
        /\ \A k \in Chunks : file'[k] \in {file[k], "wav"}
    BY <1>1, <1>4 DEF BeginEvicting, Admitted, Close, MapType
  <2>2. open'[s] = NoChunk
    BY <1>1, <2>1
  <2> QED
    BY <1>1, <2>1, <2>2 DEF netVars
<1>5. ASSUME UNCHANGED <<size, bucket, wire, cloud>>, step' = "free",
             \A k \in Chunks : file'[k] = "free" => file[k] = "free"
      PROVE  SizeTypes'
  BY <1>1, <1>5
<1>6. ASSUME NEW s \in Sensors, EvictionFails(s)
      PROVE  SizeTypes'
  BY <1>1, <1>5, <1>6 DEF EvictionFails, CloseFails, MapType, netVars
<1>7. CASE FinalizeIdle
  BY <1>1, <1>5, <1>7 DEF FinalizeIdle, Close, MapType, netVars
<1>8. ASSUME NEW i \in DOMAIN writers, FinalizeFails(i)
      PROVE  SizeTypes'
  BY <1>1, <1>5, <1>8 DEF FinalizeFails, CloseFails, MapType, netVars
<1>9. CASE Check
  <2>1. UNCHANGED <<fileVars, open, netVars>>
    BY <1>9 DEF Check
  <2>2. CASE step' = "append"
    BY <1>1, <1>9, <2>1, <2>2 DEF Check, Leave, fileVars, netVars
  <2>3. CASE step' # "append"
    <3>1. step' # "check"
      BY <1>9 DEF Check, Leave
    <3> QED
      BY <1>1, <2>1, <2>3, <3>1 DEF fileVars, netVars
  <2> QED
    BY <2>2, <2>3
<1>10. CASE Rotate
  BY <1>1, <1>10 DEF Rotate, Close, MapType, netVars
<1>11. CASE RotationFails
  BY <1>1, <1>5, <1>11 DEF RotationFails, CloseFails, Leave, MapType, netVars
<1>12. CASE RefuseToOpen \/ WriteFails
  BY <1>5, <1>12 DEF RefuseToOpen, WriteFails, Leave, fileVars, netVars
<1>13. ASSUME NEW k \in Chunks, OpenNewChunk(k) PROVE SizeTypes'
  <2>1. /\ file[k] = "free" /\ size[k] = 0 /\ UNCHANGED <<size, netVars, sensor>>
        /\ file' = [file EXCEPT ![k] = "part"]
        /\ bucket' = [bucket EXCEPT ![k] = window]
        /\ step' = "append" /\ open' = [open EXCEPT ![sensor] = k]
        /\ sensor \in Sensors
    BY <1>1, <1>13 DEF OpenNewChunk, WriteHasChunk
  <2>2. open'[sensor'] = k
    BY <1>1, <2>1 DEF MapType
  <2>3. bucket' \in [Chunks -> Nat]
    BY <1>1, <1>13, <2>1
  <2> QED
    BY <1>1, <2>1, <2>2, <2>3 DEF MapType, netVars
<1>14. CASE AppendBatch
  <2>1. PICK k \in Chunks : k = open[sensor] /\ file[k] = "part" /\ size[k] < MaxSize
    BY <1>1, <1>14 DEF AppendBatch, WriteHasChunk, OpenIsPart, MapType
  <2>2. size' = [size EXCEPT ![k] = @ + 1] /\ step' = "free"
        /\ UNCHANGED <<file, bucket, wire, cloud>>
    BY <1>14, <2>1 DEF AppendBatch, Leave, netVars
  <2>3. size' \in [Chunks -> 0 .. MaxSize]
    BY <1>1, <2>1, <2>2
  <2> QED
    BY <1>1, <2>1, <2>2, <2>3
<1>15. CASE Crash
  BY <1>1, <1>5, <1>15 DEF Crash, Restart, Leave, MapType
<1>16. CASE Shutdown
  BY <1>1, <1>5, <1>16 DEF Shutdown, Leave, MapType
<1>17. ASSUME UNCHANGED <<size, bucket, open, step, sensor, window>>,
              \A k \in Chunks : file'[k] = "free" => file[k] = "free",
              wire' \subseteq Chunks \X (0 .. MaxSize),
              cloud' \in [Chunks -> -1 .. MaxSize]
       PROVE  SizeTypes'
  BY <1>1, <1>17
<1>18. ASSUME NEW k \in Chunks, Send(k) PROVE SizeTypes'
  <2>1. <<k, size[k]>> \in Chunks \X (0 .. MaxSize)
    BY <1>1
  <2> QED
    BY <1>1, <1>17, <1>18, <2>1 DEF Send, fileVars, writerVars
<1>19. ASSUME NEW r \in wire, CloudHandles(r) PROVE SizeTypes'
  <2>1. r[1] \in Chunks /\ r[2] \in 0 .. MaxSize
    BY <1>1
  <2>2. cloud' \in [Chunks -> -1 .. MaxSize]
    BY <1>1, <1>19, <2>1 DEF CloudHandles
  <2> QED
    BY <1>1, <1>17, <1>19, <2>2 DEF CloudHandles, Answer, fileVars, writerVars
<1>20. CASE Acknowledged
  BY <1>1, <1>17, <1>20 DEF Acknowledged, MapType
<1>21. CASE \/ List \/ Refused \/ UploadFails \/ CacheExpires
            \/ (\E s \in Sensors : GoesIdle(s))
            \/ (\E k \in Chunks : SendFails(k) \/ BackoffEnds(k))
            \/ \E r \in wire : CloudFails(r) \/ Vanish(r)
  BY <1>1, <1>17, <1>21
     DEF List, Refused, UploadFails, CacheExpires, GoesIdle, SendFails, BackoffEnds,
         CloudFails, Vanish, Answer, BreakOff, fileVars, writerVars, netVars
<1> QED
  BY <1>2, <1>3, <1>4, <1>6, <1>7, <1>8, <1>9, <1>10, <1>11, <1>12, <1>13, <1>14,
     <1>15, <1>16, <1>18, <1>19, <1>20, <1>21
     DEF Next, WriterStep, UploaderStep

LEMMA CompletedCount ==
  ASSUME NEW f
  PROVE  Cardinality({k \in Chunks : f[k] = "wav"}) \in 0 .. Cardinality(Chunks)
BY FS_Subset, FS_CardinalityType, WavArchiveAssumption

LEMMA RestTypesStep ==
  ASSUME IndInv, TypeInv, Next PROVE RestTypes'
<1> USE WavArchiveAssumption
<1>1. /\ WorkIsFinished /\ RestTypes
      /\ PendingFiles \in 0 .. Cardinality(Chunks)
  BY CompletedCount DEF IndInv, TypeInv, RestTypes, PendingFiles, Completed
<1> USE DEF RestTypes
<1>2. ASSUME cache' \in {cache, -1, PendingFiles},
             step' \in {step, "free", "check", "rotate", "open", "append"},
             sensor' \in Sensors \cup {NoSensor},
             window' \in Buckets \cup {0},
             UNCHANGED <<stage, sending, backoff, answer, faults>>
      PROVE  RestTypes'
  BY <1>1, <1>2
<1>3. ASSUME cache' \in {cache, -1}, UNCHANGED window,
             UNCHANGED <<step, sensor>> \/ (step' = "free" /\ sensor' = NoSensor),
             stage' \in {"scan", "list", "send", "await"},
             stage' # "await" => sending' = NoChunk,
             backoff' \subseteq Chunks,
             answer' \in {"none", "stored", "rejected", "failed", "mismatch"},
             faults' \in 0 .. MaxFaults
      PROVE  RestTypes'
  BY <1>1, <1>3
<1>4. ASSUME NEW s \in Sensors, NEW b \in Buckets,
             Begin(s, b) \/ BeginNew(s, b) \/ BeginEvicting(s, b)
      PROVE  RestTypes'
  BY <1>1, <1>2, <1>4
     DEF Begin, BeginNew, BeginEvicting, Admitted, Close, uploadVars, netVars
<1>5. CASE Check \/ Rotate \/ RefuseToOpen \/ AppendBatch
  BY <1>1, <1>2, <1>5
     DEF Check, Rotate, RefuseToOpen, AppendBatch, Close, Leave, uploadVars, netVars
<1>6. ASSUME NEW k \in Chunks, OpenNewChunk(k) PROVE RestTypes'
  BY <1>1, <1>2, <1>6 DEF OpenNewChunk, uploadVars, netVars
<1>7. CASE \/ RotationFails \/ WriteFails
           \/ (\E s \in Sensors : EvictionFails(s))
           \/ \E i \in DOMAIN writers : FinalizeFails(i)
  <2> DEFINE Result ==
        /\ cache' \in {cache, -1} /\ faults' \in 0 .. MaxFaults
        /\ UNCHANGED <<window, uploadVars, netVars>>
        /\ UNCHANGED <<step, sensor>> \/ (step' = "free" /\ sensor' = NoSensor)
  <2>1. \A s, S : CloseFails(s, S) => cache' \in {cache, -1} /\ faults' \in 0 .. MaxFaults
    BY <1>1 DEF Fault, CloseFails
  <2>2. ASSUME RotationFails \/ WriteFails PROVE Result
    BY <1>1, <2>1, <2>2 DEF Fault, RotationFails, WriteFails, Leave
  <2>3. ASSUME NEW s \in Sensors, EvictionFails(s) PROVE Result
    BY <2>1, <2>3 DEF EvictionFails
  <2>4. ASSUME NEW i \in DOMAIN writers, FinalizeFails(i) PROVE Result
    BY <2>1, <2>4 DEF FinalizeFails
  <2>5. Result
    BY <1>7, <2>2, <2>3, <2>4
  <2> QED
    BY <1>1, <1>3, <2>5 DEF uploadVars, netVars
<1>15. CASE CacheExpires \/ \E s \in Sensors : GoesIdle(s)
  BY <1>1, <1>3, <1>15 DEF CacheExpires, GoesIdle, uploadVars, netVars
<1>8. CASE FinalizeIdle
  BY <1>1, <1>3, <1>8 DEF FinalizeIdle, Close, netVars
<1>9. CASE List
  <2>1. /\ stage' \in {"scan", "send"} /\ UNCHANGED <<writerVars, sending, netVars, faults>>
        /\ stage = "list" /\ backoff' \subseteq backoff
    BY <1>9 DEF List
  <2> QED
    BY <1>1, <1>3, <2>1 DEF writerVars, netVars
<1>10. CASE Acknowledged
  BY <1>1, <1>3, <1>10 DEF Acknowledged
<1>11. CASE Refused \/ UploadFails
  <2>1. sending \in Chunks
    BY <1>1, <1>11 DEF Refused, UploadFails, WorkIsFinished, Completed
  <2>2. BreakOff(sending) /\ faults' \in 0 .. MaxFaults
    BY <1>1, <1>11 DEF Fault, Refused, UploadFails
  <2> QED
    BY <1>1, <1>3, <2>1, <2>2 DEF BreakOff, writerVars
<1>12. ASSUME NEW k \in Chunks, Send(k) \/ SendFails(k) \/ BackoffEnds(k)
       PROVE  RestTypes'
  <2>1. CASE Send(k)
    BY <1>1, <1>3, <2>1 DEF Send, writerVars
  <2>2. CASE SendFails(k)
    BY <1>1, <1>3, <2>2 DEF Fault, SendFails, BreakOff, writerVars
  <2>3. CASE BackoffEnds(k)
    BY <1>1, <1>3, <2>3 DEF BackoffEnds, writerVars, netVars
  <2> QED
    BY <1>12, <2>1, <2>2, <2>3
<1>13. ASSUME NEW r \in wire, CloudHandles(r) \/ CloudFails(r) \/ Vanish(r)
       PROVE  RestTypes'
  <2>1. /\ UNCHANGED <<writerVars, uploadVars>> /\ faults' \in 0 .. MaxFaults
        /\ answer' \in {answer, "stored", "rejected", "failed", "mismatch"}
    BY <1>1, <1>13 DEF Fault, CloudHandles, CloudFails, Vanish, Answer
  <2> QED
    BY <1>1, <1>3, <2>1 DEF writerVars, uploadVars
<1>14. CASE Crash \/ Shutdown
  BY <1>1, <1>3, <1>14 DEF Fault, Crash, Restart, Shutdown, Leave
<1> QED
  BY <1>4, <1>5, <1>6, <1>7, <1>8, <1>9, <1>10, <1>11, <1>12, <1>13, <1>14,
     <1>15 DEF Next, WriterStep, UploaderStep

LEMMA TypeInvStep == IndInv /\ TypeInv /\ [Next]_vars => TypeInv'
<1>1. ASSUME IndInv, TypeInv, Next PROVE TypeInv'
  BY <1>1, WriterTypesStep, SizeTypesStep, RestTypesStep DEF TypeInv
<1>2. ASSUME TypeInv, UNCHANGED vars PROVE TypeInv'
  BY <1>2
     DEF TypeInv, WriterTypes, SizeTypes, RestTypes, InUse, vars, fileVars,
         writerVars, uploadVars, netVars
<1> QED
  BY <1>1, <1>2

LEMMA TypeInvHolds == Spec => []TypeInv
BY InvariantHolds, InitTypes, TypeInvStep, PTL DEF Spec

\* Types, and with them: at most MaxOpen writers, no chunk above its bound, and
\* the uploader works only on finished files.
THEOREM TypeCorrect == Spec => []TypeOK
<1>1. IndInv /\ TypeInv => TypeOK
  BY DEF IndInv, TypeInv, MapType, OpenIsPart, WorkIsFinished, WriterTypes,
         SizeTypes, RestTypes, TypeOK, Completed
<1> QED
  BY InvariantHolds, TypeInvHolds, <1>1, PTL

-----------------------------------------------------------------------------
(* The backlog.  Files that no writer will finish come from failed closes, *)
(* and each of these is a fault; a stale count differs from the real one   *)
(* by the files whose directory entry could not be made durable, each a    *)
(* fault again.  So whenever a chunk is opened, the files without a writer *)
(* are fewer than MaxPending + faults, and the others fewer than writers.  *)

Unsent  == {k \in Chunks : file[k] \in {"part", "wav"}}
Orphans == {k \in Chunks : file[k] = "part"} \ OpenChunk

FaultsPaid ==
  /\ Cardinality(Orphans) <= faults
  /\ cache # -1 => Cardinality(Orphans) + Cardinality(Completed) <= cache + faults

Backlog == Cardinality(Unsent) < MaxPending + MaxOpen + faults

LEMMA CountSubset ==
  ASSUME NEW S \in SUBSET Chunks, NEW R \in SUBSET S
  PROVE  /\ Cardinality(S) \in Nat /\ Cardinality(R) \in Nat
         /\ Cardinality(R) <= Cardinality(S)
<1>1. IsFiniteSet(S) /\ IsFiniteSet(R)
  BY FS_Subset, WavArchiveAssumption
<1> QED
  BY <1>1, FS_Subset, FS_CardinalityType

LEMMA CountAdd ==
  ASSUME NEW S \in SUBSET Chunks, NEW k, NEW R \in SUBSET (S \cup {k})
  PROVE  /\ Cardinality(S) \in Nat /\ Cardinality(R) \in Nat
         /\ Cardinality(R) <= Cardinality(S) + 1
<1>1. IsFiniteSet(S)
  BY FS_Subset, WavArchiveAssumption
<1>2. IsFiniteSet(S \cup {k}) /\ IsFiniteSet(R)
  BY <1>1, FS_AddElement, FS_Subset
<1>3. Cardinality(S \cup {k}) \in {Cardinality(S), Cardinality(S) + 1}
  BY <1>1, FS_AddElement
<1>4. Cardinality(R) <= Cardinality(S \cup {k})
  BY <1>2, FS_Subset
<1>5. Cardinality(S) \in Nat /\ Cardinality(R) \in Nat
  BY <1>1, <1>2, FS_CardinalityType
<1> QED
  BY <1>3, <1>4, <1>5

LEMMA CountUnion ==
  ASSUME NEW S \in SUBSET Chunks, NEW R \in SUBSET Chunks
  PROVE  /\ Cardinality(S) \in Nat /\ Cardinality(R) \in Nat
         /\ Cardinality(S \cup R) \in Nat
         /\ Cardinality(S \cup R) <= Cardinality(S) + Cardinality(R)
         /\ S \cap R = {} => Cardinality(S \cup R) = Cardinality(S) + Cardinality(R)
<1>1. IsFiniteSet(S) /\ IsFiniteSet(R) /\ IsFiniteSet(S \cap R) /\ IsFiniteSet(S \cup R)
  BY FS_Subset, WavArchiveAssumption
<1>2. Cardinality(S \cup R) = Cardinality(S) + Cardinality(R) - Cardinality(S \cap R)
  BY <1>1, FS_Union
<1>3. /\ Cardinality(S) \in Nat /\ Cardinality(R) \in Nat
      /\ Cardinality(S \cap R) \in Nat /\ Cardinality(S \cup R) \in Nat
  BY <1>1, FS_CardinalityType
<1>4. S \cap R = {} => Cardinality(S \cap R) = 0
  BY FS_EmptySet
<1> QED
  BY <1>2, <1>3, <1>4

\* No more chunks are open than there are writers.
LEMMA OpenAreFew ==
  ASSUME NEW q \in Seq(Sensors), NEW o \in [Sensors -> Chunks \cup {NoChunk}],
         \A s \in Sensors : o[s] # NoChunk => s \in Keys(q)
  PROVE  Cardinality({o[s] : s \in Sensors} \ {NoChunk}) <= Len(q)
<1> DEFINE T == {o[s] : s \in Sensors} \ {NoChunk}
           I == {i \in 1 .. Len(q) : o[q[i]] # NoChunk}
           f == [i \in I |-> o[q[i]]]
<1>1. /\ Len(q) \in Nat /\ DOMAIN q = 1 .. Len(q)
      /\ \A i \in 1 .. Len(q) : q[i] \in Sensors
  OBVIOUS
<1>2. f \in Surjection(I, T)
  <2>1. f \in [I -> T]
    BY <1>1
  <2>2. ASSUME NEW t \in T PROVE \E i \in I : f[i] = t
    <3>1. PICK s \in Sensors : t = o[s] /\ o[s] # NoChunk
      OBVIOUS
    <3>2. PICK i \in 1 .. Len(q) : s = q[i]
      BY <1>1, <3>1 DEF Keys
    <3> QED
      BY <3>1, <3>2
  <2> QED
    BY <2>1, <2>2 DEF Surjection
<1>3. IsFiniteSet(1 .. Len(q)) /\ Cardinality(1 .. Len(q)) = Len(q)
  BY <1>1, FS_Interval
<1>4. IsFiniteSet(I) /\ Cardinality(I) <= Len(q)
  BY <1>3, FS_Subset
<1> HIDE DEF T, I, f
<1>5. IsFiniteSet(T) /\ Cardinality(T) <= Cardinality(I)
  BY <1>2, <1>4, FS_Surjection
<1>6. Cardinality(T) \in Nat /\ Cardinality(I) \in Nat
  BY <1>4, <1>5, FS_CardinalityType
<1>7. Cardinality(T) <= Len(q)
  BY <1>1, <1>4, <1>5, <1>6
<1> QED
  BY <1>7 DEF T

\* What there is in storage, from the three kinds of it.
LEMMA Storage ==
  ASSUME MapType, OpenIsPart
  PROVE  /\ Unsent = (Completed \cup Orphans) \cup OpenChunk
         /\ Completed \cap Orphans = {} /\ (Completed \cup Orphans) \cap OpenChunk = {}
         /\ Completed \in SUBSET Chunks /\ Orphans \in SUBSET Chunks
         /\ OpenChunk \in SUBSET Chunks /\ Unsent \in SUBSET Chunks
BY DEF MapType, OpenIsPart, Unsent, Completed, Orphans, OpenChunk

\* What closing the writers of S does to it, and a failed close of s after that.
LEMMA CloseCounts ==
  ASSUME IndInv, NEW S \in SUBSET Sensors, Close(S)
  PROVE  /\ Unsent' = Unsent /\ Orphans' = Orphans
         /\ cache' = -1 \/ (cache' = cache /\ Completed' = Completed)
<1> DEFINE closed == {open[s] : s \in S} \ {NoChunk}
<1>1. MapType /\ OpenIsPart
  BY DEF IndInv
<1>2. /\ closed \subseteq OpenChunk
      /\ \A k \in closed : k \in Chunks /\ file[k] = "part"
      /\ \A s \in Sensors : open[s] \in closed <=> s \in S /\ open[s] # NoChunk
  BY <1>1 DEF MapType, OpenIsPart, OpenChunk
<1>3. /\ file' = [k \in Chunks |-> IF k \in closed THEN "wav" ELSE file[k]]
      /\ open' = [s \in Sensors |-> IF s \in S THEN NoChunk ELSE open[s]]
      /\ cache' = IF closed = {} THEN cache ELSE -1
  BY DEF Close
<1>4. OpenChunk' = OpenChunk \ closed
  BY <1>1, <1>2, <1>3 DEF OpenChunk, MapType
<1> HIDE DEF closed
<1>5. Unsent' = Unsent
  BY <1>1, <1>2, <1>3 DEF Unsent, MapType
<1>6. Orphans' = Orphans
  BY <1>1, <1>2, <1>3, <1>4 DEF Orphans, MapType
<1>7. closed = {} => Completed' = Completed
  BY <1>1, <1>3 DEF Completed, MapType
<1> QED
  BY <1>3, <1>5, <1>6, <1>7

LEMMA CloseFailsCounts ==
  ASSUME IndInv, NEW S \in SUBSET Sensors, NEW s \in Sensors, CloseFails(s, S)
  PROVE  /\ Unsent' = Unsent /\ faults' = faults + 1
         /\ Orphans' \subseteq Orphans \cup {open[s]}
         /\ \/ cache' = -1
            \/ /\ cache' = cache
               /\ \/ Orphans' = Orphans /\ Completed' \subseteq Completed \cup {open[s]}
                  \/ Completed' = Completed
<1> DEFINE closed == {open[r] : r \in S} \ {NoChunk}
<1>1. MapType /\ OpenIsPart
  BY DEF IndInv
<1>2. PICK renamed \in BOOLEAN :
        file' = [k \in Chunks |->
          IF k \in closed \/ (renamed /\ k = open[s]) THEN "wav" ELSE file[k]]
  BY DEF CloseFails
<1>3. /\ open' = [r \in Sensors |-> IF r \in S \cup {s} THEN NoChunk ELSE open[r]]
      /\ cache' = IF closed = {} THEN cache ELSE -1
      /\ faults' = faults + 1 /\ open[s] # NoChunk
  BY DEF CloseFails, Fault
<1>4. /\ \A k \in closed \cup {open[s]} : k \in Chunks /\ file[k] = "part"
      /\ \A r \in Sensors : open[r] \in closed \cup {open[s]}
                              <=> r \in S \cup {s} /\ open[r] # NoChunk
  BY <1>1, <1>3 DEF MapType, OpenIsPart
<1>5. OpenChunk' = OpenChunk \ (closed \cup {open[s]})
  BY <1>1, <1>3, <1>4 DEF OpenChunk, MapType
<1>6. closed \cup {open[s]} \subseteq OpenChunk
  BY <1>3 DEF OpenChunk
<1> HIDE DEF closed
<1>7. Unsent' = Unsent
  BY <1>1, <1>2, <1>4 DEF Unsent, MapType
<1>8. Orphans' \subseteq Orphans \cup {open[s]}
  BY <1>1, <1>2, <1>4, <1>5 DEF Orphans, MapType
<1>9. renamed => Orphans' = Orphans
  BY <1>1, <1>2, <1>4, <1>5, <1>6 DEF Orphans, MapType
<1>10. closed = {} => Completed' \subseteq Completed \cup {open[s]}
  BY <1>1, <1>2 DEF Completed, MapType
<1>11. closed = {} /\ ~ renamed => Completed' = Completed
  BY <1>1, <1>2 DEF Completed, MapType
<1> QED
  BY <1>3, <1>7, <1>8, <1>9, <1>10, <1>11

\* Every step is of one of six kinds, as far as files are concerned.
StillStep ==
  /\ UNCHANGED <<file, open>> /\ cache' \in {cache, -1, PendingFiles}
  /\ faults' \in {faults, faults + 1}

RestartStep ==
  /\ cache' = -1 /\ Orphans' = {} /\ Unsent' \subseteq Unsent
  /\ faults' = faults + 1

LEMMA StepKinds ==
  ASSUME IndInv, TypeInv, Next
  PROVE  \/ StillStep \/ Acknowledged \/ RestartStep
         \/ \E k \in Chunks : OpenNewChunk(k)
         \/ \E S \in SUBSET Sensors : Close(S) /\ UNCHANGED faults
         \/ \E S \in SUBSET Sensors, s \in Sensors : CloseFails(s, S)
<1>1. MapType /\ OpenIsPart /\ WriteHasChunk /\ InUse \subseteq Sensors
  BY DEF IndInv, InUse
<1> USE DEF fileVars, writerVars, uploadVars, netVars
<1>2. ASSUME NEW s \in Sensors, NEW b \in Buckets, Begin(s, b) \/ BeginNew(s, b)
      PROVE  StillStep
  BY <1>2 DEF Begin, BeginNew, Admitted, StillStep
<1>3. ASSUME NEW s \in Sensors, NEW b \in Buckets, BeginEvicting(s, b)
      PROVE  \E S \in SUBSET Sensors : Close(S) /\ UNCHANGED faults
  <2>1. PICK evicted \in InUse : Close({evicted}) /\ UNCHANGED faults
    BY <1>3 DEF BeginEvicting
  <2> QED
    BY <1>1, <2>1
<1>4. ASSUME NEW s \in Sensors, EvictionFails(s)
      PROVE  \E S \in SUBSET Sensors, r \in Sensors : CloseFails(r, S)
  <2>1. PICK evicted \in InUse : CloseFails(evicted, {})
    BY <1>4 DEF EvictionFails
  <2> QED
    BY <1>1, <2>1
<1>5. ASSUME NEW i \in DOMAIN writers, FinalizeFails(i)
      PROVE  \E S \in SUBSET Sensors, r \in Sensors : CloseFails(r, S)
  <2>1. PICK S \in SUBSET idle : CloseFails(writers[i], S) /\ writers[i] \in idle
    BY <1>5 DEF FinalizeFails
  <2> QED
    BY <1>1, <2>1 DEF MapType
<1>6. CASE Rotate
  BY <1>1, <1>6 DEF Rotate, WriteHasChunk
<1>7. CASE FinalizeIdle
  BY <1>1, <1>7 DEF FinalizeIdle, MapType
<1>8. CASE RotationFails
  <2>1. CloseFails(sensor, {}) /\ sensor \in Sensors
    BY <1>1, <1>8 DEF RotationFails, WriteHasChunk
  <2> QED
    BY <2>1
<1>9. CASE \/ Check \/ RefuseToOpen \/ AppendBatch \/ WriteFails \/ CacheExpires
           \/ (\E s \in Sensors : GoesIdle(s))
  BY <1>9
     DEF Check, RefuseToOpen, AppendBatch, WriteFails, CacheExpires, GoesIdle, Fault,
         StillStep
<1>10. CASE \/ List \/ Refused \/ UploadFails
            \/ (\E k \in Chunks : Send(k) \/ SendFails(k) \/ BackoffEnds(k))
            \/ \E r \in wire : CloudHandles(r) \/ CloudFails(r) \/ Vanish(r)
  BY <1>10
     DEF List, Refused, UploadFails, Send, SendFails, BackoffEnds, CloudHandles,
         CloudFails, Vanish, BreakOff, Fault, StillStep
<1>11. CASE Crash
  <2>1. /\ cache' = -1 /\ faults' = faults + 1
        /\ \A k \in Chunks : /\ file'[k] # "part"
                             /\ file'[k] = "wav" => file[k] \in {"part", "wav"}
    BY <1>1, <1>11 DEF Crash, Restart, Fault, MapType
  <2> QED
    BY <2>1 DEF RestartStep, Orphans, Unsent
<1>12. CASE Shutdown
  <2>1. /\ cache' = -1 /\ faults' = faults + 1
        /\ \A k \in Chunks : /\ file'[k] # "part"
                             /\ file'[k] = "wav" => file[k] \in {"part", "wav"}
    BY <1>1, <1>12 DEF Shutdown, Fault, OpenChunk, OpenIsPart, MapType
  <2> QED
    BY <2>1 DEF RestartStep, Orphans, Unsent
<1> QED
  BY <1>2, <1>3, <1>4, <1>5, <1>6, <1>7, <1>8, <1>9, <1>10, <1>11, <1>12
     DEF Next, WriterStep, UploaderStep

\* Opening a chunk neither orphans nor finishes one.
LEMMA OpenCounts ==
  ASSUME IndInv, TypeInv, NEW k \in Chunks, OpenNewChunk(k)
  PROVE  Orphans' = Orphans /\ Completed' = Completed
<1>1. /\ MapType /\ OpenIsPart /\ k # NoChunk
      /\ sensor \in Sensors /\ open[sensor] = NoChunk
  BY WavArchiveAssumption
     DEF IndInv, WriteHasChunk, TypeInv, WriterTypes, OpenNewChunk
<1>2. /\ file[k] = "free" /\ file' = [file EXCEPT ![k] = "part"]
      /\ open' = [open EXCEPT ![sensor] = k]
  BY DEF OpenNewChunk
<1>3. OpenChunk' = OpenChunk \cup {k}
  BY <1>1, <1>2 DEF OpenChunk, MapType
<1>4. Orphans' = Orphans
  BY <1>1, <1>2, <1>3 DEF Orphans, MapType
<1>5. Completed' = Completed
  BY <1>1, <1>2 DEF Completed, MapType
<1> QED
  BY <1>4, <1>5

\* The counts are numbers, now and after the step.
LEMMA Counts ==
  ASSUME IndInv, TypeInv
  PROVE  /\ Cardinality(Orphans) \in Nat /\ Cardinality(Completed) \in Nat
         /\ Cardinality(Unsent) \in Nat /\ Cardinality(OpenChunk) \in Nat
         /\ faults \in Nat /\ cache \in Int /\ (cache # -1 => cache \in Nat)
         /\ MaxPending \in Nat /\ MaxOpen \in Nat
<1>1. /\ Cardinality(Orphans) \in Nat /\ Cardinality(Completed) \in Nat
      /\ Cardinality(Unsent) \in Nat /\ Cardinality(OpenChunk) \in Nat
  BY Storage, CountSubset DEF IndInv
<1>2. Cardinality(Chunks) \in Nat
  BY FS_CardinalityType, WavArchiveAssumption
<1> QED
  BY <1>1, <1>2, WavArchiveAssumption DEF TypeInv, RestTypes

LEMMA FaultsPaidStep ==
  ASSUME IndInv, TypeInv, FaultsPaid, Next PROVE FaultsPaid'
<1>1. /\ Cardinality(Orphans) \in Nat /\ Cardinality(Completed) \in Nat
      /\ faults \in Nat /\ cache \in Int /\ (cache # -1 => cache \in Nat)
  BY Counts
<1>2. /\ Cardinality(Orphans) <= faults
      /\ cache # -1 => Cardinality(Orphans) + Cardinality(Completed) <= cache + faults
  BY DEF FaultsPaid
<1>3. Orphans \in SUBSET Chunks /\ Completed \in SUBSET Chunks
  BY DEF Orphans, Completed
<1>4. ASSUME Orphans' = Orphans, cache' = -1, UNCHANGED faults
      PROVE  FaultsPaid'
  BY <1>2, <1>4 DEF FaultsPaid
<1>5. ASSUME Orphans' = Orphans, Completed' = Completed, faults' \in {faults, faults + 1},
             cache' \in {cache, -1, PendingFiles}
      PROVE  FaultsPaid'
  <2>1. Cardinality(Orphans') <= faults'
    BY <1>1, <1>2, <1>5
  <2>2. CASE cache' = -1
    BY <2>1, <2>2 DEF FaultsPaid
  <2>3. CASE cache' # -1
    <3>1. (cache' = cache /\ cache # -1) \/ cache' = Cardinality(Completed)
      BY <1>5, <2>3 DEF PendingFiles
    <3>2. Cardinality(Orphans') + Cardinality(Completed') <= cache' + faults'
      BY <1>1, <1>2, <1>5, <2>1, <3>1
    <3> QED
      BY <2>1, <3>2 DEF FaultsPaid
  <2> QED
    BY <2>2, <2>3
<1>6. CASE StillStep
  BY <1>5, <1>6 DEF StillStep, Orphans, Completed, OpenChunk
<1>7. CASE Acknowledged
  <2>1. file[sending] = "wav" /\ sending \in Chunks /\ MapType
    BY <1>7 DEF Acknowledged, IndInv, WorkIsFinished, Completed
  <2>2. Orphans' = Orphans /\ cache' = -1 /\ UNCHANGED faults
    BY <1>7, <2>1 DEF Acknowledged, Orphans, OpenChunk, MapType
  <2> QED
    BY <1>4, <2>2
<1>8. CASE RestartStep
  <2>1. Cardinality(Orphans') = 0
    BY <1>8, FS_EmptySet DEF RestartStep
  <2> QED
    BY <1>1, <1>8, <2>1 DEF RestartStep, FaultsPaid
<1>9. ASSUME NEW k \in Chunks, OpenNewChunk(k) PROVE FaultsPaid'
  BY <1>5, <1>9, OpenCounts DEF OpenNewChunk
<1>10. ASSUME NEW S \in SUBSET Sensors, Close(S), UNCHANGED faults PROVE FaultsPaid'
  <2>1. /\ Orphans' = Orphans
        /\ cache' = -1 \/ (cache' = cache /\ Completed' = Completed)
    BY <1>10, CloseCounts
  <2> QED
    BY <1>4, <1>5, <1>10, <2>1
<1>11. ASSUME NEW S \in SUBSET Sensors, NEW s \in Sensors, CloseFails(s, S)
       PROVE  FaultsPaid'
  <2>1. /\ faults' = faults + 1
        /\ Orphans' \subseteq Orphans \cup {open[s]}
        /\ \/ cache' = -1
           \/ /\ cache' = cache
              /\ \/ Orphans' = Orphans /\ Completed' \subseteq Completed \cup {open[s]}
                 \/ Completed' = Completed
    BY <1>11, CloseFailsCounts
  <2>2. Cardinality(Orphans') \in Nat /\ Cardinality(Orphans') <= Cardinality(Orphans) + 1
    BY <1>3, <2>1, CountAdd
  <2>3. Cardinality(Orphans') <= faults'
    BY <1>1, <1>2, <2>1, <2>2
  <2>4. CASE cache' = -1
    BY <2>3, <2>4 DEF FaultsPaid
  <2>5. CASE cache' # -1 /\ Orphans' = Orphans /\ Completed' \subseteq Completed \cup {open[s]}
    <3>1. /\ Cardinality(Completed') \in Nat
          /\ Cardinality(Completed') <= Cardinality(Completed) + 1
      BY <1>3, <2>5, CountAdd
    <3>2. Cardinality(Orphans') + Cardinality(Completed') <= cache' + faults'
      BY <1>1, <1>2, <2>1, <2>5, <3>1
    <3> QED
      BY <2>3, <3>2 DEF FaultsPaid
  <2>6. CASE cache' # -1 /\ Completed' = Completed
    <3>1. Cardinality(Orphans') + Cardinality(Completed') <= cache' + faults'
      BY <1>1, <1>2, <2>1, <2>2, <2>6
    <3> QED
      BY <2>3, <3>1 DEF FaultsPaid
  <2> QED
    BY <2>1, <2>4, <2>5, <2>6
<1> QED
  BY <1>6, <1>7, <1>8, <1>9, <1>10, <1>11, StepKinds

LEMMA Sum ==
  ASSUME NEW c \in Nat, NEW o \in Nat, NEW w \in Nat, NEW u, u = (c + o) + w,
         NEW p \in Nat, NEW m \in Nat, NEW e \in Nat, w <= m, c + o < p + e
  PROVE  u < p + m + e
OBVIOUS

\* A chunk is opened only while the count shows room.
LEMMA BacklogStep ==
  ASSUME IndInv, IndInv', TypeInv, TypeInv', FaultsPaid, Backlog, Next
  PROVE  Backlog'
<1>1. /\ Cardinality(Unsent) \in Nat /\ faults \in Nat
      /\ MaxPending \in Nat /\ MaxOpen \in Nat
  BY Counts
<1>2. Cardinality(Unsent) < MaxPending + MaxOpen + faults
  BY DEF Backlog
<1>3. ASSUME Unsent' \subseteq Unsent, faults' \in {faults, faults + 1} PROVE Backlog'
  <2>1. Cardinality(Unsent') \in Nat /\ Cardinality(Unsent') <= Cardinality(Unsent)
    BY <1>3, CountSubset DEF Unsent
  <2> QED
    BY <1>1, <1>2, <1>3, <2>1 DEF Backlog
<1>4. CASE StillStep
  BY <1>3, <1>4 DEF StillStep, Unsent
<1>5. CASE Acknowledged
  BY <1>3, <1>5 DEF Acknowledged, Unsent, IndInv, MapType
<1>6. CASE RestartStep
  BY <1>3, <1>6 DEF RestartStep
<1>7. ASSUME NEW S \in SUBSET Sensors, Close(S), UNCHANGED faults PROVE Backlog'
  BY <1>3, <1>7, CloseCounts
<1>8. ASSUME NEW S \in SUBSET Sensors, NEW s \in Sensors, CloseFails(s, S) PROVE Backlog'
  BY <1>3, <1>8, CloseFailsCounts
<1>9. ASSUME NEW k \in Chunks, OpenNewChunk(k) PROVE Backlog'
  <2>1. PendingFiles < MaxPending /\ UNCHANGED faults
    BY <1>9 DEF OpenNewChunk, HasCapacity
  <2>2. Cardinality(Completed) + Cardinality(Orphans) < MaxPending + faults
    <3>1. /\ Cardinality(Orphans) \in Nat /\ Cardinality(Completed) \in Nat
          /\ cache \in Int
      BY Counts
    <3>2. CASE cache = -1
      BY <1>1, <2>1, <3>1, <3>2 DEF PendingFiles, FaultsPaid
    <3>3. CASE cache # -1
      BY <1>1, <2>1, <3>1, <3>3 DEF PendingFiles, FaultsPaid
    <3> QED
      BY <3>2, <3>3
  <2>3. Orphans' = Orphans /\ Completed' = Completed
    BY <1>9, OpenCounts
  <2>4. /\ Unsent' = (Completed \cup Orphans) \cup OpenChunk'
        /\ Completed \cap Orphans = {} /\ (Completed \cup Orphans) \cap OpenChunk' = {}
        /\ Completed \in SUBSET Chunks /\ Orphans \in SUBSET Chunks
        /\ OpenChunk' \in SUBSET Chunks
    <3>1. MapType' /\ OpenIsPart'
      BY DEF IndInv
    <3>2. \A k2 \in OpenChunk' : k2 \in Chunks /\ file'[k2] = "part"
      BY <3>1 DEF MapType, OpenIsPart, OpenChunk
    <3>3. /\ Completed' \in SUBSET Chunks /\ Orphans' \in SUBSET Chunks
          /\ Unsent' = (Completed' \cup Orphans') \cup OpenChunk'
          /\ Completed' \cap Orphans' = {} /\ (Completed' \cup Orphans') \cap OpenChunk' = {}
      BY <3>2 DEF Unsent, Completed, Orphans
    <3> QED
      BY <2>3, <3>2, <3>3
  <2>5. /\ Cardinality(Unsent')
             = (Cardinality(Completed) + Cardinality(Orphans)) + Cardinality(OpenChunk')
        /\ Cardinality(Completed) \in Nat /\ Cardinality(Orphans) \in Nat
        /\ Cardinality(OpenChunk') \in Nat
    <3>1. Cardinality(Completed \cup Orphans) = Cardinality(Completed) + Cardinality(Orphans)
      BY <2>4, CountUnion
    <3>2. Cardinality(Unsent') = Cardinality(Completed \cup Orphans) + Cardinality(OpenChunk')
      BY <2>4, CountUnion
    <3> QED
      BY <2>4, <3>1, <3>2, CountSubset
  <2>6. Cardinality(OpenChunk') <= MaxOpen
    <3>1. /\ writers' \in Seq(Sensors) /\ Len(writers') <= MaxOpen
          /\ \A s \in Sensors : open'[s] # NoChunk => s \in Keys(writers')
      BY UsersAreKeys DEF TypeInv, WriterTypes, InUse
    <3>2. Cardinality(OpenChunk') <= Len(writers')
      BY <3>1, OpenAreFew DEF OpenChunk, IndInv, MapType
    <3>3. Len(writers') \in Nat
      BY <3>1
    <3> QED
      BY <1>1, <2>5, <3>1, <3>2, <3>3
  <2>7. Cardinality(Unsent') < MaxPending + MaxOpen + faults
    BY <1>1, <2>2, <2>5, <2>6, Sum
  <2> QED
    BY <2>1, <2>7 DEF Backlog
<1> QED
  BY <1>4, <1>5, <1>6, <1>7, <1>8, <1>9, StepKinds

LEMMA InitBacklog == Init => FaultsPaid /\ Backlog
<1> SUFFICES ASSUME Init PROVE FaultsPaid /\ Backlog
  OBVIOUS
<1>1. Orphans = {} /\ Unsent = {} /\ faults = 0 /\ cache = -1
  BY DEF Init, Orphans, Unsent
<1>2. Cardinality(Orphans) = 0 /\ Cardinality(Unsent) = 0
  BY <1>1, FS_EmptySet
<1> QED
  BY <1>1, <1>2, WavArchiveAssumption DEF FaultsPaid, Backlog

LEMMA BacklogInvHolds == Spec => [](FaultsPaid /\ Backlog)
<1>1. IndInv /\ IndInv' /\ TypeInv /\ TypeInv' /\ FaultsPaid /\ Backlog /\ [Next]_vars
        => FaultsPaid' /\ Backlog'
  <2>1. FaultsPaid /\ Backlog /\ UNCHANGED vars => FaultsPaid' /\ Backlog'
    BY DEF FaultsPaid, Backlog, Orphans, Unsent, Completed, OpenChunk, vars, fileVars,
           writerVars
  <2> QED
    BY <2>1, FaultsPaidStep, BacklogStep
<1> QED
  BY InvariantHolds, TypeInvHolds, InitBacklog, <1>1, PTL DEF Spec

\* The limit on unacknowledged files holds up to the writers that were open
\* when it was reached and the faults met, however stale the cached count.
\* (wav_writer.py:146-187)
THEOREM BacklogIsBounded == Spec => []BacklogBounded
<1>1. IndInv /\ TypeInv /\ Backlog => BacklogBounded
  <2> SUFFICES ASSUME IndInv, TypeInv, Backlog PROVE BacklogBounded
    OBVIOUS
  <2>1. /\ Completed \cup OpenChunk \in SUBSET Unsent /\ Completed \cap OpenChunk = {}
        /\ Completed \in SUBSET Chunks /\ OpenChunk \in SUBSET Chunks
        /\ Unsent \in SUBSET Chunks
    BY Storage DEF IndInv
  <2>2. /\ Cardinality(Completed \cup OpenChunk)
             = Cardinality(Completed) + Cardinality(OpenChunk)
        /\ Cardinality(Completed \cup OpenChunk) \in Nat
    BY <2>1, CountUnion
  <2>3. Cardinality(Completed \cup OpenChunk) <= Cardinality(Unsent)
    BY <2>1, CountSubset
  <2> QED
    BY <2>2, <2>3, Counts DEF Backlog, BacklogBounded
<1> QED
  BY InvariantHolds, TypeInvHolds, BacklogInvHolds, <1>1, PTL
=============================================================================
