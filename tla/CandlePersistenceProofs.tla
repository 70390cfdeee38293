----------------------- MODULE CandlePersistenceProofs -----------------------
(***************************************************************************)
(* Proofs about the candle persistence layer, for every set of keys, every *)
(* batch size and every number of failures and kills.                      *)
(***************************************************************************)
EXTENDS CandlePersistence, TLAPS, FiniteSetTheorems, WellFoundedInduction

\* A batch that waits for its acknowledgement is in the database.
AckedBatchStored == flush = "ack" => batch \subseteq db

\* Once the flusher has stopped, nothing starts a batch again.
NoBatchAfterStop == closing = "enqueues" => flush = "no"

\* Everything an action relies on.
IInv == TypeOK /\ NeverLost /\ NoUseAfterClose /\ AckedBatchStored /\ NoBatchAfterStop

\* The first state, with nothing enqueued, satisfies the invariant.
LEMMA InitIInv == Init => IInv
<1> SUFFICES ASSUME Init PROVE IInv
  OBVIOUS
<1>1. enqueuedSinceFlush \in 0..(BatchSize - 1)
  BY PersistenceAssumption DEF Init
<1>2. enqueued \in 0..MaxEnqueues /\ failures \in 0..MaxFailures /\ crashes \in 0..MaxCrashes
  BY PersistenceAssumption DEF Init
<1>3. TypeOK
  BY <1>1, <1>2, Zenon DEF Init, TypeOK
<1> QED BY <1>3 DEF Init, IInv, NeverLost, NoUseAfterClose, AckedBatchStored, NoBatchAfterStop

\* peek returns something if there is anything: the smallest key is in the batch.
LEMMA FirstKeysNonempty ==
    ASSUME NEW S \in SUBSET Keys, S # {}
    PROVE  FirstKeys(S) # {}
<1>1. S \subseteq Nat
  BY PersistenceAssumption
<1> DEFINE Less == {ss \in Nat \X Nat : ss[1] < ss[2]}
<1>5. IsWellFoundedOn(Less, Nat)
  BY NatLessThanWellFounded, Zenon DEF OpToRel
<1>6. \E k \in S : \A j \in S : <<j, k>> \notin Less
  <2> HIDE DEF Less
  <2> QED BY <1>1, <1>5, WFMin, Zenon
<1>2. PICK k \in S : \A j \in S : <<j, k>> \notin Less
  BY <1>6
<1>3. {j \in S : j < k} = {}
  BY <1>1, <1>2
<1>4. Cardinality({j \in S : j < k}) = 0
  BY <1>3, FS_EmptySet
<1> QED BY <1>4, PersistenceAssumption DEF FirstKeys

\* Every step keeps the types; that a start finds no batch needs the other half.
LEMMA NextType == ASSUME TypeOK, NoUseAfterClose, [Next]_vars PROVE TypeOK'
<1> USE PersistenceAssumption DEF TypeOK, counters
<1>1. CASE StartPersistence
  <2>1. enqueuedSinceFlush' \in 0..(BatchSize - 1)
    BY <1>1 DEF StartPersistence
  <2>2. batch = {}
    BY <1>1 DEF StartPersistence, NoUseAfterClose
  <2> QED BY <1>1, <2>1, <2>2 DEF StartPersistence
<1>2. CASE CloseBegins
  BY <1>2 DEF CloseBegins
<1>3. CASE IntervalFires
  BY <1>3 DEF IntervalFires, Flush
<1>4. CASE Peek
  <2>1. pending # {} => FirstKeys(pending) # {}
    BY FirstKeysNonempty
  <2>2. FirstKeys(pending) \subseteq pending
    BY DEF FirstKeys
  <2>3. pending = {} => FirstKeys(pending) = {}
    BY <2>2
  <2> QED BY <1>4, <2>1, <2>2, <2>3 DEF Peek
<1>5. CASE Write
  BY <1>5 DEF Write
<1>6. CASE Ack
  BY <1>6 DEF Ack
<1>7. CASE Closer
  BY <1>7 DEF Closer, FlusherStopped, StoreClosed
<1>8. CASE PeekFails \/ WriteFails \/ AckFails
  <2>1. failures' \in 0..MaxFailures
    BY <1>8 DEF PeekFails, WriteFails, AckFails, Failure
  <2>2. pending' \subseteq Keys /\ db' \subseteq Keys
    BY <1>8 DEF PeekFails, WriteFails, AckFails
  <2> QED BY <1>8, <2>1, <2>2 DEF PeekFails, WriteFails, AckFails
<1>9. CASE Crash
  <2>1. crashes' \in 0..MaxCrashes
    BY <1>9 DEF Crash
  <2>2. enqueuedSinceFlush' \in 0..(BatchSize - 1)
    BY <1>9 DEF Crash
  <2>3. pending' \subseteq Keys
    <3>1. PICK S \in SUBSET enqueues :
             pending' \in {pending \cup S} \cup
                          (IF flush = "ack" THEN {(pending \ batch) \cup S} ELSE {})
      BY <1>9 DEF Crash
    <3> QED BY <3>1
  <2>4. db' \subseteq Keys
    BY <1>9 DEF Crash
  <2>5. /\ durable' = durable /\ enqueued' = enqueued /\ failures' = failures
        /\ runtime' = FALSE /\ isClosing' = FALSE /\ closing' = "no"
        /\ enqueues' = {} /\ stopped' = FALSE /\ flush' = "no" /\ batch' = {}
    BY <1>9 DEF Crash
  <2> QED BY <2>1, <2>2, <2>3, <2>4, <2>5, Zenon
<1>10. ASSUME NEW k \in Keys, EnqueueRejects(k) PROVE TypeOK'
  BY <1>10 DEF EnqueueRejects, Failure
<1>11. ASSUME NEW k \in Keys, Enqueue(k) PROVE TypeOK'
  BY <1>11 DEF Enqueue
<1>12. ASSUME NEW k \in Keys, EnqueueResolves(k) PROVE TypeOK'
  <2>1. (enqueuedSinceFlush + 1) % BatchSize \in 0..(BatchSize - 1)
    OBVIOUS
  <2> QED BY <1>12, <2>1 DEF EnqueueResolves, Flush
<1>13. CASE UNCHANGED vars
  BY <1>13 DEF vars
<1> QED BY <1>1, <1>2, <1>3, <1>4, <1>5, <1>6, <1>7, <1>8, <1>9, <1>10, <1>11, <1>12, <1>13
        DEF Next, Flusher, Failures

\* Every step keeps the inductive invariant, action by action.
LEMMA NextIInv == IInv /\ [Next]_vars => IInv'
<1> SUFFICES ASSUME IInv, [Next]_vars PROVE IInv'
  OBVIOUS
<1>0. TypeOK /\ TypeOK'
  BY NextType DEF IInv
<1> SUFFICES (NeverLost /\ NoUseAfterClose /\ AckedBatchStored /\ NoBatchAfterStop)'
  BY <1>0 DEF IInv
<1> USE DEF IInv, NeverLost, NoUseAfterClose, AckedBatchStored, NoBatchAfterStop
<1>1. CASE StartPersistence
  BY <1>0, <1>1 DEF StartPersistence, TypeOK
<1>2. CASE CloseBegins
  BY <1>2 DEF CloseBegins
<1>3. CASE IntervalFires
  BY <1>0, <1>3 DEF IntervalFires, Flush, TypeOK
<1>4. CASE Peek
  BY <1>4 DEF Peek
<1>5. CASE Write
  BY <1>5 DEF Write
<1>6. CASE Ack
  BY <1>6 DEF Ack
<1>7. CASE Closer
  BY <1>7 DEF Closer, FlusherStopped, StoreClosed
<1>8. CASE PeekFails \/ WriteFails \/ AckFails
  BY <1>8 DEF PeekFails, WriteFails, AckFails, Failure
<1>9. CASE Crash
  BY <1>9 DEF Crash
<1>10. ASSUME NEW k \in Keys, EnqueueRejects(k)
       PROVE  (NeverLost /\ NoUseAfterClose /\ AckedBatchStored /\ NoBatchAfterStop)'
  BY <1>10 DEF EnqueueRejects
<1>11. ASSUME NEW k \in Keys, Enqueue(k)
       PROVE  (NeverLost /\ NoUseAfterClose /\ AckedBatchStored /\ NoBatchAfterStop)'
  BY <1>11 DEF Enqueue
<1>12. ASSUME NEW k \in Keys, EnqueueResolves(k)
       PROVE  (NeverLost /\ NoUseAfterClose /\ AckedBatchStored /\ NoBatchAfterStop)'
  BY <1>0, <1>12 DEF EnqueueResolves, Flush, TypeOK
<1>13. CASE UNCHANGED vars
  BY <1>13 DEF vars
<1> QED BY <1>1, <1>2, <1>3, <1>4, <1>5, <1>6, <1>7, <1>8, <1>9, <1>10, <1>11, <1>12, <1>13
        DEF Next, Flusher, Failures

\* The inductive invariant holds in every state of every behaviour.
LEMMA Invariance == Spec => []IInv
BY InitIInv, NextIInv, PTL DEF Spec

\* The layer's state stays coherent: a batch exists exactly while it is written or
\* acknowledged, and a close in progress has its runtime and a stopped flusher.
THEOREM TypeCorrect == Spec => []TypeOK
<1>1. IInv => TypeOK
  BY DEF IInv
<1> QED BY Invariance, <1>1, PTL

\* A candle whose enqueue resolved is never lost between RocksDB and PostgreSQL
\* (candle.persistence.ts, candle.flusher.ts).
THEOREM DurableNeverLost == Spec => []NeverLost
<1>1. IInv => NeverLost
  BY DEF IInv
<1> QED BY Invariance, <1>1, PTL

\* The store is never closed under a put, a peek or an ack.
THEOREM CloseIsQuiet == Spec => []NoUseAfterClose
<1>1. IInv => NoUseAfterClose
  BY DEF IInv
<1> QED BY Invariance, <1>1, PTL

\* Every step is a step of the contract or changes nothing it speaks of.  Only the
\* acknowledgement takes keys out of the store, and its batch is in the database.
LEMMA NextOutbox == IInv /\ IInv' /\ [Next]_vars => [Outbox!Next]_Outbox!vars
<1> SUFFICES ASSUME IInv, IInv', [Next]_vars PROVE [Outbox!Next]_Outbox!vars
  OBVIOUS
<1> DEFINE Waiting == (durable \cap pending) \ db
<1>1. Waiting = durable \ db /\ Waiting' = durable' \ db'
  BY DEF IInv, NeverLost
<1>2. CASE durable' = durable /\ db' = db
  BY <1>1, <1>2 DEF Outbox!vars
<1>3. ASSUME NEW S \in SUBSET Keys, durable' = durable, db' = db \cup S
      PROVE  [Outbox!Next]_Outbox!vars
  <2>1. Outbox!Deliver(S)
    BY <1>1, <1>3 DEF Outbox!Deliver
  <2> QED BY <2>1 DEF Outbox!Next
<1>4. ASSUME NEW k \in Keys, EnqueueResolves(k)
      PROVE  [Outbox!Next]_Outbox!vars
  <2>1. durable' = durable \cup {k} /\ db' = db
    BY <1>4 DEF EnqueueResolves
  <2>2. Outbox!Accept(k)
    BY <1>1, <2>1 DEF Outbox!Accept
  <2> QED BY <2>2 DEF Outbox!Next
<1>5. batch \in SUBSET Keys
  BY DEF IInv, TypeOK
<1>6. CASE Write \/ WriteFails \/ Crash
  BY <1>2, <1>3, <1>5, <1>6 DEF Write, WriteFails, Crash
<1>7. CASE StartPersistence \/ CloseBegins \/ IntervalFires \/ Peek \/ Ack \/ Closer
           \/ PeekFails \/ AckFails \/ UNCHANGED vars
  BY <1>2, <1>7 DEF StartPersistence, CloseBegins, IntervalFires, Peek, Ack, Closer,
                    FlusherStopped, StoreClosed, PeekFails, AckFails, vars
<1>8. ASSUME NEW k \in Keys, Enqueue(k) \/ EnqueueRejects(k)
      PROVE  [Outbox!Next]_Outbox!vars
  BY <1>2, <1>8 DEF Enqueue, EnqueueRejects
<1> QED BY <1>4, <1>6, <1>7, <1>8 DEF Next, Flusher, Failures

\* The persistence layer implements its contract: a candle it accepted stops waiting
\* only by being stored, across every failure, close and kill.
THEOREM OutboxRefinement == Spec => ImplementsOutbox
<1>1. Init => Outbox!Init
  BY DEF Init, Outbox!Init
<1>2. IInv /\ IInv' /\ [Next]_vars => [Outbox!Next]_Outbox!vars
  BY NextOutbox
<1> QED BY Invariance, <1>1, <1>2, PTL DEF Spec, ImplementsOutbox, Outbox!Spec

=============================================================================
