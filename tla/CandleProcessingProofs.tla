----------------------- MODULE CandleProcessingProofs -----------------------
(***************************************************************************)
(* Proofs about the Candle Processor, for every set of symbols, timestamps *)
(* and prices, every log and every number of failures.                     *)
(***************************************************************************)
EXTENDS CandleProcessing, TLAPS

-----------------------------------------------------------------------------
(* Facts about the operators *)

\* CandleMaker.update returns candles.
LEMMA MakerCandle ==
    ASSUME NEW r \in Tick
    PROVE  /\ OpenCandle(r) \in Candle
           /\ \A c \in Candle : /\ ExtendCandle(c, r) \in Candle
                                /\ ExtendCandle(c, r).symbol = c.symbol
                                /\ ExtendCandle(c, r).startTime = c.startTime
<1>1. /\ r.symbol \in TopicSymbols /\ r.price \in Prices /\ r.ts \in Timestamps
  BY DEF Tick
<1>2. StartTime(r.ts) \in StartTimes
  BY <1>1 DEF StartTimes
<1>3. OpenCandle(r) \in Candle
  BY <1>1, <1>2 DEF OpenCandle, Candle
<1>4. ASSUME NEW c \in Candle PROVE /\ ExtendCandle(c, r) \in Candle
                                     /\ ExtendCandle(c, r).symbol = c.symbol
                                     /\ ExtendCandle(c, r).startTime = c.startTime
  BY <1>1 DEF ExtendCandle, Candle
<1> QED BY <1>3, <1>4

\* An insert keeps the rows that are there, and afterwards the key has a row.
LEMMA BulkSaveTable ==
    ASSUME NEW table, table \in [DOMAIN table -> Candle], NEW c \in Candle
    PROVE  /\ BulkSave(table, c) \in [DOMAIN table \cup {Key(c)} -> Candle]
           /\ DOMAIN BulkSave(table, c) = DOMAIN table \cup {Key(c)}
           /\ \A k \in DOMAIN table : BulkSave(table, c)[k] = table[k]
           /\ Key(c) \notin DOMAIN table => BulkSave(table, c)[Key(c)] = c
<1>1. CASE Key(c) \in DOMAIN table
  BY <1>1 DEF BulkSave
<1>2. CASE Key(c) \notin DOMAIN table
  BY <1>2 DEF BulkSave, Put
<1> QED BY <1>1, <1>2

-----------------------------------------------------------------------------
(* Type correctness *)

\* The message in hand is a tick of a configured symbol.
LEMMA MessageIsTick ==
    ASSUME TypeOK, HasMessage, Processable(log[pos])
    PROVE  pos \in DOMAIN log /\ log[pos] \in Tick /\ log[pos].symbol \in Symbols
<1>1. pos \in 1..Len(log)
  BY DEF TypeOK, HasMessage
<1>2. log[pos] \in Tick \cup {Malformed}
  BY <1>1 DEF TypeOK
<1> QED BY <1>1, <1>2 DEF Processable, TypeOK

\* An exit leaves a well-typed, empty memory.
LEMMA ExitType ==
    ASSUME TypeOK, Exit, log' \in Seq(Tick \cup {Malformed}), committed' \in Nat \ {0},
           db' \in [DOMAIN db' -> Candle], late' \subseteq Candle, published' \subseteq Candle,
           faults' \in 0..MaxFaults, rebalances' \in 0..MaxRebalances
    PROVE  TypeOK'
BY DEF Exit, EmptyMap, TypeOK

\* The safe replay offset is an offset.
LEMMA SafeOffsetType ==
    ASSUME TypeOK, NEW o \in SafeReplayOffset
    PROVE  o \in Nat \ {0}
BY DEF TypeOK, SafeReplayOffset

\* The first state, before any process runs, is well typed.
LEMMA InitType == Init => TypeOK
BY ConstantAssumption DEF Init, TypeOK, EmptyMap

\* Every step of the processor and its surroundings keeps the types.
LEMMA NextType == TypeOK /\ [Next]_vars => TypeOK'
<1> SUFFICES ASSUME TypeOK, [Next]_vars PROVE TypeOK'
  OBVIOUS
<1> USE ConstantAssumption
<1>1. ASSUME NEW r \in Tick \cup {Malformed}, Append1(r) PROVE TypeOK'
  BY <1>1 DEF Append1, TypeOK, memory
<1>2. CASE Start
  BY <1>2 DEF Start, TypeOK, external
<1>3. CASE BuildCandle
  <2> DEFINE s == log[pos].symbol
  <2>1. log[pos] \in Tick /\ s \in Symbols
    BY <1>3, MessageIsTick DEF BuildCandle
  <2>2. PICK c \in Candle : current' = Put(current, s, c) /\ c.symbol = s
    <3>1. CASE SameMinute(log[pos])
      BY <1>3, <2>1, <3>1, MakerCandle, SMTT(30) DEF BuildCandle, SameMinute, TypeOK
    <3>2. CASE ~SameMinute(log[pos])
      BY <1>3, <2>1, <3>2, MakerCandle DEF BuildCandle, OpenCandle
    <3> QED BY <3>1, <3>2
  <2>3. /\ current' \in [DOMAIN current' -> Candle]
        /\ DOMAIN current' = DOMAIN current \cup {s}
        /\ \A x \in DOMAIN current' : current'[x].symbol = x
    BY <2>2 DEF TypeOK, Put
  <2>4. /\ replay' \in [DOMAIN replay' -> Nat \ {0}]
        /\ DOMAIN replay' = DOMAIN replay \cup {s}
    BY <1>3 DEF BuildCandle, NoteReplayStart, Put, TypeOK
  <2> QED
    BY <1>3, <2>1, <2>3, <2>4 DEF BuildCandle, TypeOK, external
<1>4. CASE CompleteCandle
  <2> DEFINE s == log[pos].symbol
  <2>1. log[pos] \in Tick /\ s \in Symbols /\ s \in DOMAIN current
    BY <1>4, MessageIsTick DEF CompleteCandle, Closes
  <2>2. OpenCandle(log[pos]) \in Candle /\ OpenCandle(log[pos]).symbol = s
    BY <2>1, MakerCandle DEF OpenCandle
  <2>3. /\ current' \in [DOMAIN current' -> Candle]
        /\ DOMAIN current' = DOMAIN current
        /\ \A x \in DOMAIN current' : current'[x].symbol = x
    BY <1>4, <2>1, <2>2 DEF CompleteCandle, TypeOK, Put
  <2>4. completed' \in Candle /\ completed'.symbol = s
    BY <1>4, <2>1 DEF CompleteCandle, TypeOK
  <2> QED
    BY <1>4, <2>1, <2>3, <2>4 DEF CompleteCandle, TypeOK, external
<1>5. CASE SaveSucceeds
  <2>1. completed \in Candle /\ completed.symbol \in DOMAIN current
    BY <1>5 DEF SaveSucceeds, TypeOK
  <2>2. db' \in [DOMAIN db' -> Candle]
    BY <1>5, <2>1, BulkSaveTable DEF SaveSucceeds, TypeOK
  <2>3. replay' \in [DOMAIN replay' -> Nat \ {0}] /\ DOMAIN replay' = DOMAIN current
    BY <1>5, <2>1 DEF SaveSucceeds, Put, TypeOK
  <2> QED
    BY <1>5, <2>2, <2>3 DEF SaveSucceeds, TypeOK
<1>6. CASE CommitSucceeds
  <2>1. committed' \in Nat \ {0}
    BY <1>6, SafeOffsetType DEF CommitSucceeds
  <2> QED BY <1>6, <2>1 DEF CommitSucceeds, TypeOK
<1>7. CASE PublishCompleted
  BY <1>7 DEF PublishCompleted, TypeOK
<1>8. CASE RejectRecord
  BY <1>8, ExitType DEF RejectRecord, TypeOK, external
<1>9. CASE SaveFails
  BY <1>9, ExitType DEF SaveFails, TypeOK
<1>10. CASE CommitFails
  <2>1. committed' \in Nat \ {0}
    BY <1>10, SafeOffsetType DEF CommitFails, TypeOK
  <2> QED BY <1>10, <2>1, ExitType DEF CommitFails, TypeOK
<1>11. CASE Crash
  BY <1>11, ExitType DEF Crash, TypeOK
<1>12. CASE BeginShutdown
  BY <1>12 DEF BeginShutdown, TypeOK, external, memory
<1>13. CASE FinishShutdown
  <2>1. committed' \in Nat \ {0}
    BY <1>13, SafeOffsetType DEF FinishShutdown, TypeOK
  <2>2. late' \subseteq Candle
    BY <1>13 DEF FinishShutdown, TypeOK
  <2> QED BY <1>13, <2>1, <2>2, ExitType DEF FinishShutdown, TypeOK
<1>14. ASSUME NEW c \in late, LateSave(c) PROVE TypeOK'
  <2>1. db' \in [DOMAIN db' -> Candle]
    BY <1>14, BulkSaveTable DEF LateSave, TypeOK
  <2> QED BY <1>14, <2>1 DEF LateSave, TypeOK, memory
<1>15. CASE UNCHANGED vars
  BY <1>15 DEF vars, TypeOK
<1> QED
  BY <1>1, <1>2, <1>3, <1>4, <1>5, <1>6, <1>7, <1>8, <1>9, <1>10, <1>11, <1>12,
     <1>13, <1>14, <1>15 DEF Next, Producer, Handler, Faults

\* Every variable of the processor, the database and the broker keeps its type,
\* and the memory is coherent: the same symbols have a candle and a replay start.
THEOREM TypeCorrect == Spec => []TypeOK
<1>1. TypeOK /\ [Next]_vars => TypeOK'
  BY NextType
<1> QED BY InitType, <1>1, PTL DEF Spec

-----------------------------------------------------------------------------
(* The inductive invariant *)

\* The last offset whose tick is part of the memory.
Folded == IF pc = "idle" THEN pos - 1 ELSE pos

\* Where the stay of symbol s in its current minute begins, as this process saw
\* it.  While the insert is pending, replay still names the stay before.
StayStart(s) == IF pc = "saving" /\ s = completed.symbol THEN pos ELSE replay[s]

\* The process read only processable records.
ReadOk == \A o \in 1..Folded : o \in DOMAIN log /\ Processable(log[o])

\* A CandleMaker holds exactly the ticks of the stay it has seen.
MakersOk == \A s \in DOMAIN current :
                Folds(log, current[s], s, StayStart(s), Folded + 1)

\* A tick this process has passed is stored, or its symbol's replay covers it.
ReplayOk == \A o \in 1..Folded :
                StoredAt(o) \/ (/\ log[o].symbol \in DOMAIN replay
                               /\ replay[log[o].symbol] <= o)

\* The committed offset is behind everything the process works on.
CommitOk == /\ life # "down" => committed <= pos
            /\ \A s \in DOMAIN replay : committed <= replay[s]

\* The candle being inserted is made of the stay that the message in hand closed.
CompletedOk ==
    pc = "saving" =>
        /\ IsTickOf(log, pos, completed.symbol)
        /\ Minute(log, pos) # completed.startTime
        /\ Folds(log, completed, completed.symbol, replay[completed.symbol], pos)

\* Past the insert, the candle in hand has a row.
AckedOk == pc \in {"committing", "publishing"} => Key(completed) \in DOMAIN db

\* A late insert finds a row, or carries a complete candle.
LateOk == \A c \in late : Key(c) \in DOMAIN db \/ IsComplete(log, c)

\* A process that is down has no memory.
DownOk == life = "down" => pc = "idle" /\ pos = 1 /\ DOMAIN replay = {}

Safe == StoredCandleComplete /\ CommittedTicksStored /\ PublishedAfterSave

IInv == /\ TypeOK /\ Safe
        /\ ReadOk /\ MakersOk /\ ReplayOk /\ CommitOk
        /\ CompletedOk /\ AckedOk /\ LateOk /\ DownOk

-----------------------------------------------------------------------------
(* What CandleMaker.update computes, one tick at a time *)

Log == Seq(Tick \cup {Malformed})

\* A tick of a log is a record with a number for a price.
LEMMA LogTick ==
    ASSUME NEW lg \in Log, NEW o \in DOMAIN lg, lg[o] # Malformed
    PROVE  lg[o] \in Tick /\ lg[o].price \in Int /\ lg[o].price \in Prices /\ o \in Nat \ {0}
<1>1. lg[o] \in Tick /\ o \in Nat \ {0}
  BY DEF Log
<1>2. lg[o].price \in Prices
  BY <1>1 DEF Tick
<1> QED BY <1>1, <1>2, ConstantAssumption

\* The branch that starts a minute yields the candle of one tick.
LEMMA FoldOpen ==
    ASSUME NEW lg \in Log, NEW o \in DOMAIN lg, lg[o] # Malformed
    PROVE  Folds(lg, OpenCandle(lg[o]), lg[o].symbol, o, o + 1)
<1> DEFINE c == OpenCandle(lg[o])
           S == Run(lg, lg[o].symbol, o, o + 1)
<1>1. lg[o].price \in Int /\ o \in Nat \ {0}
  BY LogTick
<1>2. S = {o}
  BY <1>1 DEF Run, IsTickOf
<1>3. IsOhlc(lg, c, S)
  BY <1>1, <1>2 DEF IsOhlc, OpenCandle
<1>4. \A p \in S : Minute(lg, p) = c.startTime
  BY <1>2 DEF Minute, OpenCandle
<1> QED BY <1>1, <1>3, <1>4 DEF Folds, IsTickOf

\* The branch that stays in the minute adds one tick to the candle.
LEMMA FoldExtend ==
    ASSUME NEW lg \in Log, NEW b \in DOMAIN lg, NEW c \in Candle, NEW s, NEW a \in Nat \ {0},
           Folds(lg, c, s, a, b), IsTickOf(lg, b, s), Minute(lg, b) = c.startTime
    PROVE  Folds(lg, ExtendCandle(c, lg[b]), s, a, b + 1)
<1> DEFINE d == ExtendCandle(c, lg[b])
           S == Run(lg, s, a, b)
           T == Run(lg, s, a, b + 1)
<1>1. lg[b].price \in Int /\ b \in Nat \ {0} /\ lg[b] \in Tick
  BY LogTick DEF IsTickOf
<1>2. a < b
  BY DEF Folds
<1>3. T = S \cup {b} /\ (\A o \in S : o \in DOMAIN lg /\ o < b /\ lg[o] # Malformed)
  BY <1>1, <1>2 DEF Run, IsTickOf, Log
<1>4. \A o \in S : lg[o].price \in Int
  BY <1>3, LogTick
<1>5. /\ d.open = c.open /\ d.startTime = c.startTime /\ d.close = lg[b].price
      /\ d.high = (IF lg[b].price > c.high THEN lg[b].price ELSE c.high)
      /\ d.low = (IF lg[b].price < c.low THEN lg[b].price ELSE c.low)
  BY DEF ExtendCandle, Candle
<1>6. c.high \in Int /\ c.low \in Int
  BY ConstantAssumption DEF Candle
<1>7. IsOhlc(lg, c, S)
  BY DEF Folds
<1>8. IsOhlc(lg, d, T)
  <2>1. \E o \in T : lg[o].price = d.open /\ \A p \in T : o <= p
    <3>1. PICK o \in S : lg[o].price = c.open /\ \A p \in S : o <= p
      BY <1>7 DEF IsOhlc
    <3>2. o \in Nat /\ o < b
      BY <1>3, LogTick
    <3>3. o <= b
      BY <1>1, <3>2
    <3>4. \A p \in T : o <= p
      BY <1>3, <3>1, <3>3
    <3> QED BY <1>3, <1>5, <3>1, <3>4
  <2>2. \E o \in T : lg[o].price = d.close /\ \A p \in T : p <= o
    <3>1. \A o \in S : o \in Nat /\ o < b
      BY <1>3, LogTick
    <3> QED BY <1>1, <1>3, <1>5, <3>1
  <2>3. \E o \in T : lg[o].price = d.high
    BY <1>3, <1>5, <1>7 DEF IsOhlc
  <2>4. \E o \in T : lg[o].price = d.low
    BY <1>3, <1>5, <1>7 DEF IsOhlc
  <2>5. \A o \in T : d.low <= lg[o].price /\ lg[o].price <= d.high
    BY <1>1, <1>3, <1>4, <1>5, <1>6, <1>7 DEF IsOhlc
  <2> QED BY <2>1, <2>2, <2>3, <2>4, <2>5 DEF IsOhlc
<1>9. \A o \in T : Minute(lg, o) = d.startTime
  BY <1>3, <1>5 DEF Folds
<1> QED BY <1>1, <1>2, <1>8, <1>9 DEF Folds

\* A tick of another symbol leaves the candle of symbol s as it is.
LEMMA FoldSkip ==
    ASSUME NEW lg \in Log, NEW b \in Nat \ {0}, NEW c, NEW s, NEW a \in Nat \ {0},
           Folds(lg, c, s, a, b), ~IsTickOf(lg, b, s)
    PROVE  Folds(lg, c, s, a, b + 1)
<1>1. Run(lg, s, a, b + 1) = Run(lg, s, a, b)
  BY DEF Run
<1> QED BY <1>1 DEF Folds

\* A candle does not depend on records behind its own.
LEMMA FoldAppend ==
    ASSUME NEW lg \in Log, NEW r \in Tick \cup {Malformed}, NEW c, NEW s,
           NEW a \in Nat \ {0}, NEW b \in Nat, b <= Len(lg) + 1, Folds(lg, c, s, a, b)
    PROVE  Folds(Append(lg, r), c, s, a, b)
<1> DEFINE lh == Append(lg, r)
           S == Run(lg, s, a, b)
<1>1. \A o \in a..(b - 1) : o \in DOMAIN lg /\ lh[o] = lg[o]
  BY DEF Log
<1>2. Run(lh, s, a, b) = S
  BY <1>1 DEF Run, IsTickOf
<1>3. \A o \in S : lh[o] = lg[o]
  BY <1>1 DEF Run
<1>4. IsOhlc(lh, c, S)
  BY <1>3 DEF Folds, IsOhlc
<1>5. \A o \in S : Minute(lh, o) = c.startTime
  BY <1>3 DEF Folds, Minute
<1>6. IsTickOf(lh, a, s) /\ a < b
  BY <1>1 DEF Folds, IsTickOf
<1> QED BY <1>2, <1>4, <1>5, <1>6 DEF Folds

\* A complete candle stays complete when the log grows.
LEMMA CompleteAppend ==
    ASSUME NEW lg \in Log, NEW r \in Tick \cup {Malformed}, NEW c, IsComplete(lg, c)
    PROVE  IsComplete(Append(lg, r), c)
<1> DEFINE lh == Append(lg, r)
<1>1. PICK a, b \in DOMAIN lg :
        /\ Folds(lg, c, c.symbol, a, b)
        /\ IsTickOf(lg, b, c.symbol) /\ Minute(lg, b) # c.startTime
        /\ \A o \in Run(lg, c.symbol, 1, a) : Minute(lg, o) # c.startTime
  BY DEF IsComplete
<1>2. /\ a \in Nat \ {0} /\ b \in Nat /\ b <= Len(lg) + 1
      /\ a \in DOMAIN lh /\ b \in DOMAIN lh
      /\ \A o \in DOMAIN lg : lh[o] = lg[o]
      /\ \A o \in 1..(a - 1) : o \in DOMAIN lg
  BY DEF Log
<1>3. Folds(lh, c, c.symbol, a, b)
  BY <1>1, <1>2, FoldAppend
<1>4. IsTickOf(lh, b, c.symbol) /\ Minute(lh, b) # c.startTime
  BY <1>1, <1>2 DEF IsTickOf, Minute
<1>5. \A o \in Run(lh, c.symbol, 1, a) : Minute(lh, o) # c.startTime
  BY <1>1, <1>2 DEF Run, IsTickOf, Minute
<1> QED BY <1>2, <1>3, <1>4, <1>5 DEF IsComplete

-----------------------------------------------------------------------------
(* What the invariant gives at the steps that touch the database or the broker *)

\* An offset this process folded is in the log, and a tick.
LEMMA FoldedBound ==
    ASSUME IInv
    PROVE  /\ Folded \in Nat /\ Folded <= Len(log)
           /\ log \in Log
           /\ \A s \in DOMAIN current : StayStart(s) \in Nat \ {0}
<1>1. Folded \in Nat /\ (\A s \in DOMAIN current : StayStart(s) \in Nat \ {0})
  BY DEF IInv, TypeOK, Folded, StayStart
<1>2. log \in Log
  BY DEF IInv, TypeOK, Log
<1>3. Folded # 0 => Folded \in DOMAIN log
  BY <1>1 DEF IInv, ReadOk
<1> QED BY <1>1, <1>2, <1>3 DEF Log

\* The candle being inserted is complete, or the database has its row already:
\* a partial candle comes only from a replay that began inside a stored minute.
LEMMA CompletedSavable ==
    ASSUME IInv, pc = "saving"
    PROVE  Key(completed) \in DOMAIN db \/ IsComplete(log, completed)
<1> DEFINE s == completed.symbol
           m == completed.startTime
           a == replay[s]
<1>1. /\ completed \in Candle /\ s \in DOMAIN replay /\ a \in Nat \ {0} /\ pos \in Nat \ {0}
  BY DEF IInv, TypeOK
<1>2. /\ IsTickOf(log, pos, s) /\ Minute(log, pos) # m /\ Folds(log, completed, s, a, pos)
  BY DEF IInv, CompletedOk
<1>3. a < pos
  BY <1>2 DEF Folds
<1>4. \A o \in 1..pos : /\ o \in DOMAIN log /\ Processable(log[o])
                        /\ StoredAt(o) \/ replay[log[o].symbol] <= o
  BY DEF IInv, ReadOk, ReplayOk, Folded
<1>5. CASE \E o \in Run(log, s, 1, a) : Minute(log, o) = m
  <2>1. PICK o \in Run(log, s, 1, a) : Minute(log, o) = m
    BY <1>5
  <2>2. o \in 1..pos /\ log[o].symbol = s /\ ~(a <= o)
    BY <1>1, <1>3 DEF Run, IsTickOf
  <2>3. StoredAt(o)
    BY <1>4, <2>2
  <2> QED BY <2>1, <2>2, <2>3 DEF StoredAt, Key
<1>6. CASE \A o \in Run(log, s, 1, a) : Minute(log, o) # m
  <2>1. a \in DOMAIN log /\ pos \in DOMAIN log
    BY <1>1, <1>3, <1>4
  <2> QED BY <1>2, <1>6, <2>1 DEF IsComplete
<1> QED BY <1>5, <1>6

\* Everything below the safe replay offset is stored, and the offset is between
\* the committed one and the message in hand.
LEMMA SafeOffsetStored ==
    ASSUME IInv, pc = "committing", NEW o \in SafeReplayOffset
    PROVE  /\ o \in Nat \ {0} /\ committed <= o /\ o <= pos
           /\ \A s \in DOMAIN replay : o <= replay[s]
           /\ \A x \in 1..(o - 1) : x \in DOMAIN log /\ Processable(log[x]) /\ StoredAt(x)
<1>1. PICK t \in DOMAIN replay : o = replay[t]
  BY DEF SafeReplayOffset
<1>2. \A s \in DOMAIN replay : o <= replay[s]
  BY DEF SafeReplayOffset
<1>3. o \in Nat \ {0} /\ pos \in Nat \ {0} /\ committed <= o
  BY <1>1 DEF IInv, TypeOK, CommitOk
<1>4. o <= pos
  <2>1. Folds(log, current[t], t, o, pos + 1)
    BY <1>1 DEF IInv, MakersOk, StayStart, Folded, TypeOK
  <2> QED BY <1>3, <2>1 DEF Folds
<1>5. ASSUME NEW x \in 1..(o - 1)
      PROVE  x \in DOMAIN log /\ Processable(log[x]) /\ StoredAt(x)
  <2>1. x \in 1..Folded
    BY <1>3, <1>4 DEF Folded
  <2>2. log[x].symbol \in DOMAIN replay => ~(replay[log[x].symbol] <= x)
    BY <1>2, <1>3 DEF IInv, TypeOK
  <2> QED BY <2>1, <2>2 DEF IInv, ReadOk, ReplayOk
<1> QED BY <1>2, <1>3, <1>4, <1>5

\* Inserting a candle that is complete, or whose key is taken, keeps the table right.
LEMMA InsertKeepsComplete ==
    ASSUME IInv, NEW c \in Candle, Key(c) \in DOMAIN db \/ IsComplete(log, c),
           db' = BulkSave(db, c), log' = log
    PROVE  /\ StoredCandleComplete'
           /\ DOMAIN db \subseteq DOMAIN db' /\ Key(c) \in DOMAIN db'
<1>1. db \in [DOMAIN db -> Candle] /\ \A k \in DOMAIN db : Key(db[k]) = k /\ IsComplete(log, db[k])
  BY DEF IInv, TypeOK, Safe, StoredCandleComplete
<1>2. /\ DOMAIN db' = DOMAIN db \cup {Key(c)}
      /\ \A k \in DOMAIN db : db'[k] = db[k]
      /\ Key(c) \notin DOMAIN db => db'[Key(c)] = c
  BY <1>1, BulkSaveTable
<1>3. \A k \in DOMAIN db' : Key(db'[k]) = k /\ IsComplete(log, db'[k])
  BY <1>1, <1>2
<1> QED BY <1>2, <1>3 DEF StoredCandleComplete, Key

-----------------------------------------------------------------------------
(* One lemma per kind of step *)

\* Before any process runs nothing is stored, committed or in memory.
LEMMA InitIInv == Init => IInv
<1> SUFFICES ASSUME Init PROVE IInv
  OBVIOUS
<1>1. TypeOK
  BY InitType
<1>2. /\ DOMAIN db = {} /\ DOMAIN current = {} /\ DOMAIN replay = {} /\ late = {}
      /\ published = {} /\ committed = 1 /\ pos = 1 /\ pc = "idle" /\ life = "down"
  BY DEF Init, EmptyMap
<1>3. Folded = 0
  BY <1>2 DEF Folded
<1>4. Safe
  BY <1>2 DEF Safe, StoredCandleComplete, CommittedTicksStored, PublishedAfterSave
<1>5. ReadOk /\ ReplayOk
  BY <1>3 DEF ReadOk, ReplayOk
<1> QED
  BY <1>1, <1>2, <1>4, <1>5
     DEF IInv, MakersOk, CommitOk, CompletedOk, AckedOk, LateOk, DownOk

\* The end of the process, whatever happened to the request it waited for.
LEMMA ExitIInv ==
    ASSUME IInv, Exit, TypeOK', log' = log, db' = db,
           CommittedTicksStored', LateOk', PublishedAfterSave'
    PROVE  IInv'
<1>1. /\ life' = "down" /\ pc' = "idle" /\ pos' = 1 /\ DOMAIN current' = {} /\ DOMAIN replay' = {}
  BY DEF Exit, EmptyMap
<1>2. Folded' = 0
  BY <1>1 DEF Folded
<1>3. StoredCandleComplete'
  BY DEF IInv, Safe, StoredCandleComplete, Key
<1>4. ReadOk' /\ ReplayOk'
  BY <1>2 DEF ReadOk, ReplayOk
<1> QED
  BY <1>1, <1>3, <1>4
     DEF IInv, Safe, MakersOk, CommitOk, CompletedOk, AckedOk, DownOk

\* The log grows under a running process.
LEMMA AppendIInv ==
    ASSUME IInv, TypeOK', NEW r \in Tick \cup {Malformed}, Append1(r)
    PROVE  IInv'
<1>1. /\ log' = Append(log, r)
      /\ UNCHANGED <<committed, db, late, published, life, pc, pos, current, replay, completed>>
  BY DEF Append1, memory
<1>2. log \in Log /\ Folded \in Nat /\ Folded <= Len(log)
  BY FoldedBound
<1>3. \A o \in DOMAIN log : o \in DOMAIN log' /\ log'[o] = log[o]
  BY <1>1, <1>2 DEF Log
<1>4. StoredCandleComplete' /\ LateOk'
  BY <1>1, <1>2, CompleteAppend DEF IInv, Safe, StoredCandleComplete, LateOk, Key
<1>5. CommittedTicksStored'
  BY <1>1, <1>3 DEF IInv, Safe, CommittedTicksStored, StoredAt, Minute, Processable
<1>6. Folded' = Folded /\ \A s : StayStart(s)' = StayStart(s)
  BY <1>1 DEF Folded, StayStart
<1>7. ReadOk' /\ ReplayOk'
  BY <1>1, <1>3, <1>6 DEF IInv, ReadOk, ReplayOk, StoredAt, Minute, Processable
<1>8. MakersOk'
  <2>1. \A s \in DOMAIN current : StayStart(s) \in Nat \ {0}
    BY FoldedBound
  <2>2. \A s \in DOMAIN current : Folds(log', current[s], s, StayStart(s), Folded + 1)
    BY <1>1, <1>2, <2>1, FoldAppend DEF IInv, MakersOk
  <2> QED BY <1>1, <1>6, <2>2 DEF MakersOk
<1>9. CompletedOk'
  <2> SUFFICES ASSUME pc = "saving" PROVE CompletedOk'
    BY <1>1 DEF CompletedOk
  <2>1. /\ pos \in Nat \ {0} /\ replay[completed.symbol] \in Nat \ {0} /\ Folded = pos
        /\ pos \in DOMAIN log
    BY DEF IInv, TypeOK, Folded, ReadOk
  <2>2. Folds(log', completed, completed.symbol, replay[completed.symbol], pos)
    BY <1>1, <1>2, <2>1, FoldAppend DEF IInv, CompletedOk
  <2>3. IsTickOf(log', pos, completed.symbol) /\ Minute(log', pos) # completed.startTime
    BY <1>3, <2>1 DEF IInv, CompletedOk, IsTickOf, Minute
  <2> QED BY <1>1, <2>2, <2>3 DEF CompletedOk
<1> QED
  BY <1>1, <1>4, <1>5, <1>7, <1>8, <1>9
     DEF IInv, Safe, PublishedAfterSave, CommitOk, AckedOk, DownOk

\* A fresh process resumes at the committed offset.
LEMMA StartIInv == ASSUME IInv, TypeOK', Start PROVE IInv'
<1>1. /\ UNCHANGED <<log, committed, db, late, published, pc, current, replay, completed>>
      /\ life = "down" /\ life' = "up" /\ pos' = committed
      /\ pc = "idle" /\ DOMAIN replay = {} /\ DOMAIN current = {}
  BY DEF Start, external, IInv, DownOk, TypeOK
<1>2. Folded' = committed - 1 /\ committed \in Nat \ {0}
  BY <1>1 DEF Folded, IInv, TypeOK
<1>3. Safe'
  BY <1>1 DEF IInv, Safe, StoredCandleComplete, CommittedTicksStored, PublishedAfterSave,
              StoredAt, Key, Processable
<1>4. ReadOk' /\ ReplayOk'
  BY <1>1, <1>2, <1>3 DEF Safe, CommittedTicksStored, ReadOk, ReplayOk
<1> QED
  BY <1>1, <1>2, <1>3, <1>4
     DEF IInv, MakersOk, CommitOk, CompletedOk, AckedOk, LateOk, DownOk

\* A tick that stays in the minute, or the first one of its symbol.
LEMMA BuildIInv == ASSUME IInv, TypeOK', BuildCandle PROVE IInv'
<1> DEFINE s0 == log[pos].symbol
<1>1. /\ UNCHANGED <<log, committed, db, late, published, life, pc, completed>>
      /\ life = "up" /\ pc = "idle" /\ pos' = pos + 1 /\ Processable(log[pos]) /\ HasMessage
  BY DEF BuildCandle, HasMessage, external
<1>2. /\ pos \in DOMAIN log /\ log[pos] \in Tick /\ s0 \in Symbols /\ pos \in Nat \ {0}
      /\ log \in Log /\ IsTickOf(log, pos, s0)
  BY <1>1, MessageIsTick, FoldedBound DEF IInv, TypeOK, IsTickOf, Processable
<1>3. Folded = pos - 1 /\ Folded' = pos
  BY <1>1, <1>2 DEF Folded
<1>4. /\ replay' = NoteReplayStart(s0)
      /\ DOMAIN replay = DOMAIN current
      /\ \A s \in DOMAIN replay : replay[s] \in Nat \ {0} /\ committed <= replay[s]
      /\ committed <= pos
  BY <1>1 DEF BuildCandle, IInv, TypeOK, CommitOk
<1>5. /\ DOMAIN replay' = DOMAIN replay \cup {s0}
      /\ \A s \in DOMAIN replay : replay'[s] = replay[s]
      /\ s0 \notin DOMAIN replay => replay'[s0] = pos
  BY <1>4 DEF NoteReplayStart, Put
<1>6. Safe' /\ LateOk'
  BY <1>1 DEF IInv, Safe, StoredCandleComplete, CommittedTicksStored, PublishedAfterSave,
              StoredAt, Key, Processable, LateOk
<1>7. ReadOk'
  BY <1>1, <1>2, <1>3 DEF IInv, ReadOk
<1>8. ReplayOk'
  <2>1. ASSUME NEW o \in 1..(pos - 1)
        PROVE  StoredAt(o)' \/ (log[o].symbol \in DOMAIN replay' /\ replay'[log[o].symbol] <= o)
    BY <1>1, <1>3, <1>5 DEF IInv, ReplayOk, StoredAt
  <2>2. replay'[s0] <= pos
    <3>1. CASE s0 \in DOMAIN replay
      <4>1. Folds(log, current[s0], s0, replay[s0], pos)
        BY <1>1, <1>3, <1>4, <3>1, <1>2 DEF IInv, MakersOk, StayStart
      <4> QED BY <1>2, <1>4, <1>5, <3>1, <4>1 DEF Folds
    <3>2. CASE s0 \notin DOMAIN replay
      BY <1>2, <1>5, <3>2
    <3> QED BY <3>1, <3>2
  <2> QED BY <1>1, <1>2, <1>3, <1>5, <2>1, <2>2 DEF ReplayOk
<1>9. MakersOk'
  <2> SUFFICES ASSUME NEW s \in DOMAIN current'
               PROVE  Folds(log, current'[s], s, replay'[s], pos + 1)
    BY <1>1, <1>3 DEF MakersOk, StayStart
  <2>1. \A x \in DOMAIN current : Folds(log, current[x], x, replay[x], pos) /\ current[x] \in Candle
    BY <1>1, <1>2, <1>3 DEF IInv, MakersOk, StayStart, TypeOK
  <2>2. CASE s # s0
    <3>1. s \in DOMAIN current /\ current'[s] = current[s] /\ replay'[s] = replay[s]
      BY <1>4, <1>5, <2>2 DEF BuildCandle, Put
    <3>2. ~IsTickOf(log, pos, s)
      BY <2>2 DEF IsTickOf
    <3> QED BY <1>2, <1>4, <2>1, <3>1, <3>2, FoldSkip
  <2>3. CASE s = s0 /\ s0 \in DOMAIN current
    <3>1. SameMinute(log[pos])
      BY <2>3 DEF BuildCandle, Closes, SameMinute
    <3>2. current'[s] = ExtendCandle(current[s], log[pos]) /\ replay'[s] = replay[s]
      BY <1>4, <1>5, <2>3, <3>1 DEF BuildCandle, Put
    <3>3. Minute(log, pos) = current[s].startTime
      BY <2>3, <3>1 DEF SameMinute, Minute
    <3> QED BY <1>2, <1>4, <2>1, <2>3, <3>2, <3>3, FoldExtend
  <2>4. CASE s = s0 /\ s0 \notin DOMAIN current
    <3>1. current'[s] = OpenCandle(log[pos]) /\ replay'[s] = pos
      BY <1>4, <1>5, <2>4 DEF BuildCandle, Put, SameMinute
    <3> QED BY <1>2, <2>4, <3>1, FoldOpen DEF IsTickOf
  <2> QED BY <2>2, <2>3, <2>4
<1>10. CommitOk'
  BY <1>1, <1>2, <1>4, <1>5 DEF CommitOk, IInv, TypeOK
<1> QED
  BY <1>1, <1>6, <1>7, <1>8, <1>9, <1>10 DEF IInv, CompletedOk, AckedOk, DownOk

\* A tick of another minute: the stay is closed, the next one begins.
LEMMA CompleteIInv == ASSUME IInv, TypeOK', CompleteCandle PROVE IInv'
<1> DEFINE s0 == log[pos].symbol
<1>1. /\ UNCHANGED <<log, committed, db, late, published, life, pos, replay>>
      /\ life = "up" /\ pc = "idle" /\ pc' = "saving" /\ Processable(log[pos]) /\ HasMessage
      /\ s0 \in DOMAIN current /\ current[s0].startTime # StartTime(log[pos].ts)
      /\ completed' = current[s0]
  BY DEF CompleteCandle, HasMessage, external, Closes
<1>2. /\ pos \in DOMAIN log /\ log[pos] \in Tick /\ s0 \in Symbols /\ pos \in Nat \ {0}
      /\ log \in Log /\ IsTickOf(log, pos, s0)
  BY <1>1, MessageIsTick, FoldedBound DEF IInv, TypeOK, IsTickOf, Processable
<1>3. Folded = pos - 1 /\ Folded' = pos
  BY <1>1, <1>2 DEF Folded
<1>4. /\ DOMAIN replay = DOMAIN current /\ completed'.symbol = s0
      /\ \A s \in DOMAIN current : replay[s] \in Nat \ {0}
  BY <1>1 DEF IInv, TypeOK
<1>5. \A x \in DOMAIN current : Folds(log, current[x], x, replay[x], pos)
  BY <1>1, <1>2, <1>3 DEF IInv, MakersOk, StayStart
<1>6. Safe' /\ LateOk'
  BY <1>1 DEF IInv, Safe, StoredCandleComplete, CommittedTicksStored, PublishedAfterSave,
              StoredAt, Key, Processable, LateOk
<1>7. ReadOk'
  BY <1>1, <1>2, <1>3 DEF IInv, ReadOk
<1>8. ReplayOk'
  <2>1. ASSUME NEW o \in 1..(pos - 1)
        PROVE  StoredAt(o)' \/ (log[o].symbol \in DOMAIN replay /\ replay[log[o].symbol] <= o)
    BY <1>1, <1>3 DEF IInv, ReplayOk, StoredAt
  <2>2. replay[s0] <= pos
    BY <1>1, <1>2, <1>4, <1>5 DEF Folds
  <2> QED BY <1>1, <1>2, <1>3, <1>4, <2>1, <2>2 DEF ReplayOk
<1>9. MakersOk'
  <2> SUFFICES ASSUME NEW s \in DOMAIN current'
               PROVE  Folds(log, current'[s], s, StayStart(s)', pos + 1)
    BY <1>1, <1>3 DEF MakersOk
  <2>1. CASE s # s0
    <3>1. s \in DOMAIN current /\ current'[s] = current[s] /\ StayStart(s)' = replay[s]
      BY <1>1, <1>4, <2>1 DEF CompleteCandle, Put, StayStart
    <3>2. ~IsTickOf(log, pos, s)
      BY <2>1 DEF IsTickOf
    <3> QED BY <1>2, <1>4, <1>5, <3>1, <3>2, FoldSkip
  <2>2. CASE s = s0
    <3>1. current'[s] = OpenCandle(log[pos]) /\ StayStart(s)' = pos
      BY <1>1, <1>4, <2>2 DEF CompleteCandle, Put, StayStart
    <3> QED BY <1>2, <2>2, <3>1, FoldOpen DEF IsTickOf
  <2> QED BY <2>1, <2>2
<1>10. CompletedOk'
  BY <1>1, <1>2, <1>4, <1>5 DEF CompletedOk, Minute
<1>11. CommitOk' /\ DownOk' /\ AckedOk'
  BY <1>1 DEF IInv, CommitOk, DownOk, AckedOk
<1> QED BY <1>6, <1>7, <1>8, <1>9, <1>10, <1>11 DEF IInv

\* The insert succeeds, and the boundary tick becomes the replay start.
LEMMA SaveIInv == ASSUME IInv, TypeOK', SaveSucceeds PROVE IInv'
<1> DEFINE s0 == completed.symbol
<1>1. /\ UNCHANGED <<log, committed, late, published, life, pos, current, completed>>
      /\ pc = "saving" /\ pc' = "committing"
      /\ db' = BulkSave(db, completed) /\ replay' = Put(replay, s0, pos)
  BY DEF SaveSucceeds
<1>2. /\ completed \in Candle /\ s0 \in DOMAIN replay /\ pos \in Nat \ {0}
      /\ DOMAIN replay = DOMAIN current
      /\ IsTickOf(log, pos, s0)
      /\ Folds(log, completed, s0, replay[s0], pos)
      /\ \A s \in DOMAIN replay : replay[s] \in Nat \ {0}
  BY <1>1 DEF IInv, TypeOK, CompletedOk
<1>3. /\ DOMAIN replay' = DOMAIN replay /\ replay'[s0] = pos
      /\ \A s \in DOMAIN replay : s # s0 => replay'[s] = replay[s]
  BY <1>1, <1>2 DEF Put
<1>4. /\ StoredCandleComplete' /\ DOMAIN db \subseteq DOMAIN db' /\ Key(completed) \in DOMAIN db'
  BY <1>1, <1>2, CompletedSavable, InsertKeepsComplete
<1>5. Folded = pos /\ Folded' = pos
  BY <1>1 DEF Folded
<1>6. CommittedTicksStored' /\ PublishedAfterSave' /\ LateOk'
  BY <1>1, <1>4 DEF IInv, Safe, CommittedTicksStored, PublishedAfterSave, StoredAt, Key,
                    Processable, LateOk
<1>7. ReadOk'
  BY <1>1, <1>5 DEF IInv, ReadOk
<1>8. ReplayOk'
  <2> SUFFICES ASSUME NEW o \in 1..pos
               PROVE  \/ StoredAt(o)'
                      \/ log[o].symbol \in DOMAIN replay' /\ replay'[log[o].symbol] <= o
    BY <1>1, <1>5 DEF ReplayOk
  <2>1. /\ StoredAt(o) \/ (log[o].symbol \in DOMAIN replay /\ replay[log[o].symbol] <= o)
        /\ Processable(log[o])
    BY <1>5 DEF IInv, ReplayOk, ReadOk
  <2>2. CASE StoredAt(o)
    BY <1>1, <1>4, <2>2 DEF StoredAt
  <2>3. CASE ~StoredAt(o) /\ log[o].symbol # s0
    BY <1>3, <2>1, <2>3
  <2>4. CASE log[o].symbol = s0 /\ o = pos
    BY <1>2, <1>3, <2>4
  <2>5. CASE ~StoredAt(o) /\ log[o].symbol = s0 /\ o # pos
    <3>1. o \in Run(log, s0, replay[s0], pos)
      BY <1>2, <2>1, <2>5 DEF Run, IsTickOf, Processable
    <3>2. Minute(log, o) = completed.startTime
      BY <1>2, <3>1 DEF Folds
    <3> QED BY <1>1, <1>4, <2>5, <3>2 DEF StoredAt, Key
  <2> QED BY <2>2, <2>3, <2>4, <2>5
<1>9. MakersOk'
  <2>1. \A s \in DOMAIN current : StayStart(s)' = StayStart(s)
    BY <1>1, <1>2, <1>3 DEF StayStart
  <2> QED BY <1>1, <1>5, <2>1 DEF IInv, MakersOk
<1>10. CommitOk'
  <2>1. committed <= pos
    BY <1>1 DEF IInv, CommitOk, DownOk
  <2> QED BY <1>1, <1>3, <2>1 DEF IInv, CommitOk
<1>11. CompletedOk' /\ AckedOk' /\ DownOk'
  BY <1>1, <1>4 DEF IInv, CompletedOk, AckedOk, DownOk, Key
<1> QED BY <1>4, <1>6, <1>7, <1>8, <1>9, <1>10, <1>11 DEF IInv, Safe

\* The insert of a dead process lands.
LEMMA LateSaveIInv == ASSUME IInv, TypeOK', NEW c \in late, LateSave(c) PROVE IInv'
<1>1. /\ UNCHANGED <<log, committed, published, life, pc, pos, current, replay, completed>>
      /\ db' = BulkSave(db, c) /\ late' = late \ {c}
  BY DEF LateSave, memory
<1>2. c \in Candle /\ (Key(c) \in DOMAIN db \/ IsComplete(log, c))
  BY DEF IInv, TypeOK, LateOk
<1>3. StoredCandleComplete' /\ DOMAIN db \subseteq DOMAIN db'
  BY <1>1, <1>2, InsertKeepsComplete
<1>4. Folded' = Folded /\ \A s : StayStart(s)' = StayStart(s)
  BY <1>1 DEF Folded, StayStart
<1>5. CommittedTicksStored' /\ PublishedAfterSave' /\ LateOk'
  BY <1>1, <1>3 DEF IInv, Safe, CommittedTicksStored, PublishedAfterSave, StoredAt, Key,
                    Processable, LateOk
<1>6. ReadOk' /\ ReplayOk' /\ MakersOk'
  BY <1>1, <1>3, <1>4 DEF IInv, ReadOk, ReplayOk, MakersOk, StoredAt
<1>7. CommitOk' /\ CompletedOk' /\ AckedOk' /\ DownOk'
  BY <1>1, <1>3 DEF IInv, CommitOk, CompletedOk, AckedOk, DownOk, Key
<1> QED BY <1>3, <1>5, <1>6, <1>7 DEF IInv, Safe

\* The broker takes the safe replay offset.
LEMMA CommitIInv == ASSUME IInv, TypeOK', CommitSucceeds PROVE IInv'
<1>1. /\ UNCHANGED <<log, db, late, published, life, pos, current, replay, completed>>
      /\ pc = "committing" /\ pc' = "publishing" /\ committed' \in SafeReplayOffset
  BY DEF CommitSucceeds
<1>2. CommittedTicksStored' /\ CommitOk'
  BY <1>1, SafeOffsetStored DEF CommittedTicksStored, CommitOk, StoredAt, Processable
<1>3. Folded' = Folded /\ \A s : StayStart(s)' = StayStart(s)
  BY <1>1 DEF Folded, StayStart
<1>4. ReadOk' /\ ReplayOk' /\ MakersOk'
  BY <1>1, <1>3 DEF IInv, ReadOk, ReplayOk, MakersOk, StoredAt
<1> QED
  BY <1>1, <1>2, <1>4
     DEF IInv, Safe, StoredCandleComplete, PublishedAfterSave, CompletedOk, AckedOk, LateOk,
         DownOk, Key

\* The candle is published and the consumer moves on.
LEMMA PublishIInv == ASSUME IInv, TypeOK', PublishCompleted PROVE IInv'
<1>1. /\ UNCHANGED <<log, committed, db, late, life, current, replay>>
      /\ pc = "publishing" /\ pc' = "idle" /\ pos' = pos + 1
      /\ published' \subseteq published \cup {completed}
  BY DEF PublishCompleted
<1>2. Folded' = Folded /\ pos \in Nat \ {0} /\ committed \in Nat
  BY <1>1 DEF Folded, IInv, TypeOK
<1>3. \A s : StayStart(s)' = StayStart(s)
  BY <1>1 DEF StayStart
<1>4. ReadOk' /\ ReplayOk' /\ MakersOk'
  BY <1>1, <1>2, <1>3 DEF IInv, ReadOk, ReplayOk, MakersOk, StoredAt
<1>5. PublishedAfterSave'
  BY <1>1 DEF IInv, Safe, PublishedAfterSave, AckedOk, Key
<1>6. CommitOk'
  BY <1>1, <1>2 DEF IInv, CommitOk, DownOk
<1> QED
  BY <1>1, <1>4, <1>5, <1>6
     DEF IInv, Safe, StoredCandleComplete, CommittedTicksStored, StoredAt, Processable,
         CompletedOk, AckedOk, LateOk, DownOk, Key

\* Failed or uncertain requests, kills and shutdowns.
LEMMA FaultIInv ==
    ASSUME IInv, TypeOK', RejectRecord \/ SaveFails \/ CommitFails \/ Crash \/ FinishShutdown
    PROVE  IInv'
<1>1. Exit /\ log' = log /\ db' = db
  BY DEF RejectRecord, SaveFails, CommitFails, Crash, FinishShutdown, external
<1>2. CommittedTicksStored'
  <2>1. CASE committed' = committed
    BY <1>1, <2>1 DEF IInv, Safe, CommittedTicksStored, StoredAt, Processable
  <2>2. CASE pc = "committing" /\ committed' \in SafeReplayOffset
    BY <1>1, <2>2, SafeOffsetStored DEF CommittedTicksStored, StoredAt, Processable
  <2> QED
    BY <2>1, <2>2 DEF RejectRecord, SaveFails, CommitFails, Crash, FinishShutdown, external
<1>3. LateOk'
  <2>1. CASE late' = late
    BY <1>1, <2>1 DEF IInv, LateOk, Key
  <2>2. CASE pc = "saving" /\ late' = late \cup {completed}
    BY <1>1, <2>2, CompletedSavable DEF IInv, LateOk, Key
  <2> QED
    BY <2>1, <2>2 DEF RejectRecord, SaveFails, CommitFails, Crash, FinishShutdown, external
<1>4. PublishedAfterSave'
  <2>1. CASE published' = published
    BY <1>1, <2>1 DEF IInv, Safe, PublishedAfterSave, Key
  <2>2. CASE Crash
    <3>1. \A c \in published' \ published : c = completed /\ completed # Null
      BY <2>2 DEF Crash
    <3>2. completed # Null => pc = "publishing"
      BY <2>2 DEF Crash, IInv, TypeOK
    <3> QED BY <1>1, <3>1, <3>2 DEF IInv, Safe, PublishedAfterSave, AckedOk, Key
  <2> QED
    BY <2>1, <2>2 DEF RejectRecord, SaveFails, CommitFails, FinishShutdown, external
<1> QED BY <1>1, <1>2, <1>3, <1>4, ExitIInv

\* A SIGTERM alone, or a stuttering step, touches nothing the invariant speaks of.
LEMMA QuietIInv ==
    ASSUME IInv, TypeOK', BeginShutdown \/ UNCHANGED vars
    PROVE  IInv'
<1>1. /\ UNCHANGED <<log, committed, db, late, published, pc, pos, current, replay, completed>>
      /\ life' # "down" => life # "down"
      /\ life' = "down" => life = "down"
  BY DEF BeginShutdown, vars, external, memory
<1>2. Folded' = Folded /\ \A s : StayStart(s)' = StayStart(s)
  BY <1>1 DEF Folded, StayStart
<1>3. ReadOk' /\ ReplayOk' /\ MakersOk'
  BY <1>1, <1>2 DEF IInv, ReadOk, ReplayOk, MakersOk, StoredAt
<1> QED
  BY <1>1, <1>3
     DEF IInv, Safe, StoredCandleComplete, CommittedTicksStored, PublishedAfterSave, StoredAt,
         Processable, CommitOk, CompletedOk, AckedOk, LateOk, DownOk, Key

\* Every step keeps the inductive invariant, action by action.
LEMMA NextIInv == IInv /\ [Next]_vars => IInv'
<1> SUFFICES ASSUME IInv, [Next]_vars PROVE IInv'
  OBVIOUS
<1>1. TypeOK'
  BY NextType DEF IInv
<1> QED
  BY <1>1, AppendIInv, StartIInv, BuildIInv, CompleteIInv, SaveIInv, CommitIInv, PublishIInv,
     LateSaveIInv, FaultIInv, QuietIInv DEF Next, Producer, Handler, Faults

-----------------------------------------------------------------------------
(* The theorems *)

\* The inductive invariant holds in every state of every behaviour.
LEMMA Invariance == Spec => []IInv
<1>1. IInv /\ [Next]_vars => IInv'
  BY NextIInv
<1> QED BY InitIInv, <1>1, PTL DEF Spec

\* No crash, retry or replay makes candle_1m hold anything but the exact candle
\* of the log's ticks (candle-processor.ts, candle.maker.ts).
THEOREM StoredCandlesAreComplete == Spec => []StoredCandleComplete
<1>1. IInv => StoredCandleComplete
  BY DEF IInv, Safe
<1> QED BY Invariance, <1>1, PTL

\* The offset the processor commits never passes a tick that is not stored, so a
\* restart loses nothing.
THEOREM CommitLosesNothing == Spec => []CommittedTicksStored
<1>1. IInv => CommittedTicksStored
  BY DEF IInv, Safe
<1> QED BY Invariance, <1>1, PTL

\* A completed candle is announced on Redis only when the database has its row.
THEOREM PublishFollowsSave == Spec => []PublishedAfterSave
<1>1. IInv => PublishedAfterSave
  BY DEF IInv, Safe
<1> QED BY Invariance, <1>1, PTL

\* The committed offset never moves back, across any number of restarts.
THEOREM CommitMonotone == Spec => CommitNeverRegresses
<1>1. IInv /\ [Next]_vars => [committed' >= committed]_vars
  <2> SUFFICES ASSUME IInv, [Next]_vars PROVE committed' >= committed
    OBVIOUS
  <2>1. committed \in Nat
    BY DEF IInv, TypeOK
  <2>2. CASE committed' = committed
    BY <2>1, <2>2
  <2>3. CASE pc = "committing" /\ committed' \in SafeReplayOffset
    BY <2>1, <2>3, SafeOffsetStored
  <2> QED
    BY <2>2, <2>3
       DEF Next, Producer, Handler, Faults, Append1, Start, BuildCandle, CompleteCandle,
           SaveSucceeds, CommitSucceeds, PublishCompleted, RejectRecord, SaveFails,
           CommitFails, Crash, BeginShutdown, FinishShutdown, LateSave, external, vars
<1> QED BY Invariance, <1>1, PTL DEF Spec, CommitNeverRegresses

-----------------------------------------------------------------------------
(* The processor implements the contract of the candle table *)

\* The contract speaks of the same candles.
LEMMA SameTerms ==
    /\ Table!Tick = Tick /\ Table!Candle = Candle
    /\ \A c : Table!Key(c) = Key(c)
    /\ \A f, k, v : Table!Put(f, k, v) = Put(f, k, v)
    /\ \A lg, c : Table!IsComplete(lg, c) <=> IsComplete(lg, c)
<1>1. \A t : Table!StartTime(t) = StartTime(t)
  BY DEF Table!StartTime, StartTime
<1>2. Table!Tick = Tick /\ Table!Candle = Candle
  BY <1>1 DEF Table!Tick, Tick, Table!Candle, Candle, Table!StartTimes, StartTimes
<1>3. \A c : Table!Key(c) = Key(c)
  BY DEF Table!Key, Key
<1>4. \A f, k, v : Table!Put(f, k, v) = Put(f, k, v)
  BY DEF Table!Put, Put
<1>5. \A lg, o, s : Table!IsTickOf(lg, o, s) <=> IsTickOf(lg, o, s)
  BY DEF Table!IsTickOf, IsTickOf
<1>6. \A lg, s, a, b : Table!Run(lg, s, a, b) = Run(lg, s, a, b)
  BY <1>5 DEF Table!Run, Run
<1>7. \A lg, o : Table!Minute(lg, o) = Minute(lg, o)
  BY <1>1 DEF Table!Minute, Minute
<1>8. \A lg, c, S : Table!IsOhlc(lg, c, S) <=> IsOhlc(lg, c, S)
  BY DEF Table!IsOhlc, IsOhlc
<1>9. \A lg, c, s, a, b : Table!Folds(lg, c, s, a, b) <=> Folds(lg, c, s, a, b)
  BY <1>5, <1>6, <1>7, <1>8 DEF Table!Folds, Folds
<1>10. \A lg, c : Table!IsComplete(lg, c) <=> IsComplete(lg, c)
  BY <1>5, <1>6, <1>7, <1>9 DEF Table!IsComplete, IsComplete
<1> QED BY <1>2, <1>3, <1>4, <1>10

\* An insert settles a minute, or finds its row.
LEMMA InsertSettles ==
    ASSUME NEW c \in Candle, Key(c) \in DOMAIN db \/ IsComplete(log, c),
           db' = BulkSave(db, c), log' = log
    PROVE  [Table!Next]_Table!vars
<1>1. CASE Key(c) \in DOMAIN db
  BY <1>1 DEF BulkSave, Table!vars
<1>2. CASE Key(c) \notin DOMAIN db
  <2>1. Table!Settle(c)
    BY <1>2, SameTerms DEF BulkSave, Table!Settle
  <2> QED BY <2>1, SameTerms DEF Table!Next
<1> QED BY <1>1, <1>2

\* Every step records a tick, settles a minute, or leaves log and table alone.
LEMMA NextTable == IInv /\ [Next]_vars => [Table!Next]_Table!vars
<1> SUFFICES ASSUME IInv, [Next]_vars PROVE [Table!Next]_Table!vars
  OBVIOUS
<1>1. ASSUME NEW r \in Tick \cup {Malformed}, Append1(r) PROVE [Table!Next]_Table!vars
  <2>1. Table!Record(r)
    BY <1>1 DEF Append1, Table!Record
  <2> QED BY <1>1, <2>1, SameTerms DEF Table!Next
<1>2. CASE SaveSucceeds
  <2>1. pc = "saving" /\ completed \in Candle /\ db' = BulkSave(db, completed) /\ log' = log
    BY <1>2 DEF SaveSucceeds, IInv, TypeOK
  <2> QED BY <2>1, CompletedSavable, InsertSettles
<1>3. ASSUME NEW c \in late, LateSave(c) PROVE [Table!Next]_Table!vars
  <2>1. c \in Candle /\ (Key(c) \in DOMAIN db \/ IsComplete(log, c))
    BY <1>3 DEF IInv, TypeOK, LateOk
  <2>2. db' = BulkSave(db, c) /\ log' = log
    BY <1>3 DEF LateSave
  <2> QED BY <2>1, <2>2, InsertSettles
<1>4. CASE log' = log /\ db' = db
  BY <1>4 DEF Table!vars
<1> QED
  BY <1>1, <1>2, <1>3, <1>4
     DEF Next, Producer, Handler, Faults, Start, BuildCandle, CompleteCandle, CommitSucceeds,
         PublishCompleted, RejectRecord, SaveFails, CommitFails, Crash, BeginShutdown,
         FinishShutdown, external, vars

\* With kills, replays, failed requests and late inserts, the processor implements the
\* contract of candle_1m: rows appear complete, once, and stay as they are.
THEOREM CandleTableRefinement == Spec => ImplementsCandleTable
<1>1. Init => Table!Init
  BY DEF Init, Table!Init, EmptyMap
<1>2. IInv /\ [Next]_vars => [Table!Next]_Table!vars
  BY NextTable
<1> QED BY Invariance, <1>1, <1>2, PTL DEF Spec, ImplementsCandleTable, Table!Spec

=============================================================================
