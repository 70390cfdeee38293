----------------------- MODULE HistoricalBackfillProofs -----------------------
(***************************************************************************)
(* Proofs about the historical backfill, for every set of symbols, number  *)
(* of slots, length of time and content of the table and of the provider.  *)
(***************************************************************************)
EXTENDS HistoricalBackfill, TLAPS, FiniteSetTheorems, WellFoundedInduction

-----------------------------------------------------------------------------
(* The inductive invariant *)

Origins == {"none", "live", "rest"}
Places == {"queued", "reading", "checking", "requesting", "saving", "done"}
Times == Minutes \cup {Null}
Statuses == {"none", "skipped", "failed", "backfilled", "no_gap"}
Results == [status : Statuses, minUpdatedEpoch : Times]

\* What the variables of syncSymbol hold.
SyncTypeOK ==
    /\ pc \in [SYMBOLS -> Places]
    /\ gap \in [SYMBOLS -> {1, 2}]
    /\ last \in [SYMBOLS -> Seq(Minutes)]
    /\ readAt \in [SYMBOLS -> Minutes]
    /\ window \in [SYMBOLS -> Seq(Int)]
    /\ fetched \in [SYMBOLS -> SUBSET Minutes]
    /\ syncFailed \in [SYMBOLS -> BOOLEAN]
    /\ minUpdated \in [SYMBOLS -> Times]
    /\ results \in [SYMBOLS -> Results]

TypeOK ==
    /\ SyncTypeOK
    /\ now \in Minutes
    /\ rows \in [SYMBOLS -> [Minutes -> Origins]]
    /\ phase \in {"syncing", "refreshing", "completed"}
    /\ refreshFrom \in Times
    /\ refreshed \in [DOMAIN Views -> {"no", "ok", "failed"}]

\* The gap before the latest candle is looked at.
Wide(s) == Len(last[s]) = 2 /\ last[s][1] - last[s][2] > 2

Busy(s) == pc[s] \in {"checking", "requesting", "saving"}

\* What was read before the await is still what the gap is about: nothing in the table
\* is younger than now, so the window of the request is the whole gap.
Reading(s) ==
    /\ pc[s] \in {"queued", "reading"} => gap[s] = 1 /\ ~syncFailed[s] /\ minUpdated[s] = Null
    /\ Busy(s) => /\ Len(last[s]) \in 1..2
                  /\ last[s][1] <= now /\ readAt[s] <= now
                  /\ gap[s] = 2 => Wide(s)
                  /\ gap[s] = 1 => ~syncFailed[s]
    /\ pc[s] \in {"requesting", "saving"} => /\ window[s] = <<GapStart(s) + 1, GapEnd(s)>>
                                             /\ GapStart(s) + 1 < GapEnd(s)
    /\ pc[s] = "saving" => fetched[s] = Answer(s)
    /\ \A m \in Minutes : rows[s][m] # "none" => m <= now

\* The first gap is recovered before the second is looked at, and both before success
\* is reported.
Recovering(s) ==
    /\ Busy(s) /\ gap[s] = 2 /\ ~syncFailed[s] => Recovered(s, last[s][1], readAt[s])
    /\ Succeeded(s) => /\ Len(last[s]) \in 1..2
                       /\ Recovered(s, last[s][1], readAt[s])
                       /\ Wide(s) => Recovered(s, last[s][2], last[s][1])

\* Every inserted row of s is at or after t.
InsertedSince(s, t) == \A m \in Minutes : rows[s][m] = "rest" => t # Null /\ t <= m

\* minUpdatedTime, and then the result, is no later than any row that was inserted.
Reporting(s) ==
    /\ pc[s] = "done" <=> results[s].status # "none"
    /\ pc[s] # "done" => InsertedSince(s, minUpdated[s])
    /\ pc[s] = "done" /\ ~Threw(s) => InsertedSince(s, results[s].minUpdatedEpoch)

\* Once Promise.all has resolved, the refresh starts at or before every report.
Collected ==
    phase # "syncing" => \A s \in SYMBOLS :
        /\ pc[s] = "done"
        /\ results[s].minUpdatedEpoch # Null =>
               refreshFrom # Null /\ refreshFrom <= results[s].minUpdatedEpoch

\* A refresh that was begun ends with the last view, after all the others.
Viewed == phase = "completed" /\ refreshFrom # Null => \A v \in DOMAIN Views : refreshed[v] # "no"

SymbolInv(s) == Reading(s) /\ Recovering(s) /\ Reporting(s)

IInv == TypeOK /\ Collected /\ Viewed /\ \A s \in SYMBOLS : SymbolInv(s)

-----------------------------------------------------------------------------
(* Facts about the operators *)

\* A minute is a natural number, and Null is none.
LEMMA MinutesAreNat ==
    /\ Minutes \subseteq Nat /\ Null \notin Minutes
    /\ OutputSize \in Nat /\ Available \subseteq Minutes /\ MaxMinute \in Nat
  BY BackfillAssumption DEF Minutes, Null

\* The minutes the provider has are integers.
LEMMA AvailableAreInt == \A n \in Available : n \in Int
  <1> SUFFICES ASSUME NEW n \in Available PROVE n \in Int
    OBVIOUS
  <1>1. n \in Minutes
    BY MinutesAreNat, Zenon
  <1>2. n \in Nat
    BY <1>1, MinutesAreNat, Zenon
  <1> QED
    BY <1>2

\* Math.min of a set of minutes.
LEMMA MinOf ==
    ASSUME NEW S, S \subseteq Nat, S # {}
    PROVE  Min(S) \in S /\ \A y \in S : Min(S) <= y
  <1>1. PICK x \in S : \A y \in S : ~(<<y, x>> \in OpToRel(<, Nat))
    BY NatLessThanWellFounded, WFMin
  <1>2. \A y \in Nat : y < x => <<y, x>> \in OpToRel(<, Nat)
    BY Zenon DEF OpToRel
  <1>3. \A y \in S : ~(y < x)
    BY <1>1, <1>2, Zenon
  <1>4. \A y \in S : x <= y
    BY <1>3
  <1> QED
    BY <1>4 DEF Min

\* The newest of a set of minutes.
LEMMA MaxOf ==
    ASSUME NEW S, S \subseteq Minutes, S # {}
    PROVE  Max(S) \in S /\ \A y \in S : y <= Max(S)
  <1> DEFINE T == {MaxMinute - x : x \in S}
  <1>1. T \subseteq Nat /\ T # {}
    <2>1. \A x \in S : MaxMinute - x \in Nat
      BY MinutesAreNat DEF Minutes
    <2> QED
      BY <2>1
  <1>2. PICK z \in T : \A y \in T : z <= y
    BY <1>1, MinOf
  <1>3. PICK x \in S : z = MaxMinute - x
    BY <1>2
  <1>4. \A y \in S : MaxMinute - x <= MaxMinute - y
    BY <1>2, <1>3
  <1>5. \A y \in S : y <= x
    BY <1>4, MinutesAreNat DEF Minutes
  <1> QED
    BY <1>5 DEF Max

\* Math.min of two minutes.
LEMMA MinOfTwo ==
    ASSUME NEW a \in Nat, NEW b \in Nat
    PROVE  Min({a, b}) = IF a <= b THEN a ELSE b
  <1>1. Min({a, b}) \in {a, b} /\ Min({a, b}) <= a /\ Min({a, b}) <= b
    BY MinOf
  <1> QED
    BY <1>1

\* minUpdatedTime never moves to a younger minute.
LEMMA MinUpdateFacts ==
    ASSUME NEW a \in Times, NEW b \in Minutes
    PROVE  /\ MinUpdate(a, b) \in Minutes
           /\ MinUpdate(a, b) <= b
           /\ a # Null => MinUpdate(a, b) <= a
  BY MinutesAreNat, MinOfTwo DEF MinUpdate, Times

\* getLastCandles returns stored minutes, if there are any.
LEMMA LastCandlesFacts ==
    ASSUME TypeOK, NEW s \in SYMBOLS
    PROVE  /\ LastCandles(s) \in Seq(Minutes)
           /\ StoredMinutes(s) # {} => /\ Len(LastCandles(s)) \in 1..2
                                       /\ LastCandles(s)[1] \in StoredMinutes(s)
  <1> DEFINE S == StoredMinutes(s)
             newest == Max(S)
  <1>1. S \subseteq Minutes
    BY DEF StoredMinutes
  <1> HIDE DEF S
  <1>2. CASE S = {}
    BY <1>2 DEF LastCandles, S
  <1>3. CASE S # {} /\ S = {newest}
    <2>1. newest \in S /\ newest \in Minutes
      BY <1>1, <1>3, MaxOf
    <2>2. LastCandles(s) = <<newest>>
      BY <1>3 DEF LastCandles, S
    <2> HIDE DEF newest
    <2> QED
      BY <2>1, <2>2 DEF S
  <1>4. CASE S # {} /\ S # {newest}
    <2> DEFINE second == Max(S \ {newest})
    <2>1. newest \in S /\ newest \in Minutes
      BY <1>1, <1>4, MaxOf
    <2>2. second \in Minutes
      <3>1. S \ {newest} # {} /\ S \ {newest} \subseteq Minutes
        BY <1>1, <1>4, <2>1
      <3> QED
        BY <3>1, MaxOf
    <2>3. LastCandles(s) = <<newest, second>>
      BY <1>4 DEF LastCandles, S
    <2> HIDE DEF newest, second
    <2> QED
      BY <2>1, <2>2, <2>3 DEF S
  <1> QED
    BY <1>2, <1>3, <1>4

\* The answer to a request lies in its window, and what it leaves out comes after as many
\* minutes as it can hold.
LEMMA AnswerFacts ==
    ASSUME NEW s \in SYMBOLS, NEW a \in Int, NEW b \in Int, window[s] = <<a + 1, b>>
    PROVE  /\ Answer(s) \subseteq Minutes
           /\ \A m \in Answer(s) : a + 1 <= m /\ m <= b
           /\ \A m \in Available : a < m /\ m < b => m \in Answer(s) \/ BehindAnAnswer(a, m)
  <1> DEFINE W == (a + 1)..b \cap Available
  <1>1. Answer(s) = {m \in W : Cardinality({n \in W : n < m}) < OutputSize}
    BY DEF Answer
  <1>2. ASSUME NEW m \in Available, a < m, m < b, m \notin Answer(s)
        PROVE  BehindAnAnswer(a, m)
    <2> DEFINE B == {n \in W : n < m}
    <2>1. m \in W /\ m \in Int
      BY <1>2, AvailableAreInt
    <2>2. B = {n \in Available : a < n /\ n < m}
      <3>1. \A n \in Available : n \in (a + 1)..b /\ n < m <=> a < n /\ n < m
        BY <1>2, <2>1, AvailableAreInt
      <3> QED
        BY <3>1
    <2>3. B \in SUBSET ((a + 1)..b) /\ IsFiniteSet((a + 1)..b)
      <3>1. a + 1 \in Int
        OBVIOUS
      <3> QED
        BY <3>1, FS_Interval
    <2>4. Cardinality(B) \in Nat
      BY <2>3, FS_Subset, FS_CardinalityType
    <2>5. ~(Cardinality(B) < OutputSize)
      BY <1>1, <1>2, <2>1
    <2> HIDE DEF B
    <2>6. Cardinality(B) >= OutputSize
      BY <2>4, <2>5, MinutesAreNat
    <2> QED
      BY <2>2, <2>6 DEF BehindAnAnswer
  <1>3. Answer(s) \subseteq W
    BY <1>1
  <1>4. W \subseteq Minutes /\ \A m \in W : a + 1 <= m /\ m <= b
    BY MinutesAreNat
  <1> QED
    BY <1>2, <1>3, <1>4

\* Date parses a time of the provider's clock to the minute it names.
LEMMA ParsedSame == ASSUME NEW S, S \subseteq Minutes PROVE Parsed(S) = S
  <1>1. \A m \in S : m + ZoneOffset = m
    BY ZoneAssumption, MinutesAreNat
  <1> QED
    BY <1>1 DEF Parsed

-----------------------------------------------------------------------------
(* One symbol *)

\* The step does nothing to syncSymbol of t.
SyncSame(t) ==
    /\ pc'[t] = pc[t] /\ gap'[t] = gap[t] /\ last'[t] = last[t] /\ readAt'[t] = readAt[t]
    /\ window'[t] = window[t] /\ fetched'[t] = fetched[t] /\ syncFailed'[t] = syncFailed[t]
    /\ minUpdated'[t] = minUpdated[t] /\ results'[t] = results[t]

\* The step adds rows to the table of t, up to now, or none.
RowsGrow(t) ==
    \A m \in Minutes : /\ rows[t][m] # "none" => rows'[t][m] # "none"
                       /\ rows'[t][m] # "none" => m <= now'

\* What the invariant says about one symbol, by type.
LEMMA Types ==
    ASSUME IInv, NEW s \in SYMBOLS
    PROVE  /\ now \in Nat /\ now \in Minutes
           /\ rows[s] \in [Minutes -> Origins]
           /\ pc[s] \in Places /\ gap[s] \in {1, 2}
           /\ last[s] \in Seq(Minutes) /\ readAt[s] \in Minutes
           /\ syncFailed[s] \in BOOLEAN /\ minUpdated[s] \in Times
           /\ results[s].status \in Statuses /\ results[s].minUpdatedEpoch \in Times
           /\ Reading(s) /\ Recovering(s) /\ Reporting(s)
  <1>1. TypeOK /\ SymbolInv(s)
    BY DEF IInv
  <1>2. now \in Nat
    BY <1>1, MinutesAreNat DEF TypeOK
  <1>3. results[s] \in Results
    BY <1>1 DEF TypeOK, SyncTypeOK
  <1>4. results[s].status \in Statuses /\ results[s].minUpdatedEpoch \in Times
    BY <1>3 DEF Results
  <1> QED
    BY <1>1, <1>2, <1>4 DEF TypeOK, SyncTypeOK, SymbolInv

\* A symbol whose rows only grow, without a row from the REST API, keeps its invariant.
LEMMA Frame ==
    ASSUME IInv, NEW t \in SYMBOLS, SyncSame(t), RowsGrow(t),
           now' \in Nat, now <= now',
           \A m \in Minutes : rows'[t][m] = "rest" => rows[t][m] = "rest"
    PROVE  SymbolInv(t)'
  <1>1. /\ Reading(t) /\ Recovering(t) /\ Reporting(t)
        /\ last[t] \in Seq(Minutes) /\ readAt[t] \in Minutes /\ now \in Nat
    BY Types
  <1>2. Busy(t) => last[t][1] \in Nat /\ readAt[t] \in Nat
    <2>1. Busy(t) => 1 \in 1..Len(last[t])
      BY <1>1 DEF Reading
    <2> QED
      BY <1>1, <2>1, MinutesAreNat
  <1>3. Reading(t)'
    <2>1. Answer(t)' = Answer(t) /\ GapStart(t)' = GapStart(t) /\ GapEnd(t)' = GapEnd(t)
      BY DEF SyncSame, Answer, GapStart, GapEnd
    <2>2. (\A m \in Minutes : rows[t][m] # "none" => m <= now)'
      BY DEF RowsGrow
    <2> HIDE DEF Answer, GapStart, GapEnd
    <2> QED
      BY <1>1, <1>2, <2>1, <2>2 DEF Reading, Busy, Wide, SyncSame
  <1>4. StoredMinutes(t) \subseteq StoredMinutes(t)'
    BY DEF StoredMinutes, RowsGrow
  <1>5. Recovering(t)'
    <2>1. \A a, b : Recovered(t, a, b) => Recovered(t, a, b)'
      BY <1>4 DEF Recovered
    <2> QED
      BY <1>1, <2>1 DEF Recovering, Busy, Succeeded, Wide, SyncSame, Recovered
  <1>6. Reporting(t)'
    BY <1>1 DEF Reporting, InsertedSince, Threw, SyncSame
  <1> QED
    BY <1>3, <1>5, <1>6 DEF SymbolInv

\* syncSymbol of s returned: its result stands for what it inserted and recovered.
LEMMA Returned ==
    ASSUME IInv, NEW s \in SYMBOLS, NEW status \in Statuses \ {"none"}, NEW min \in Times,
           Return(s, status, min), RowsGrow(s),
           ~(status = "failed" /\ min = Null) => InsertedSince(s, min)',
           status \in {"no_gap", "backfilled"} =>
               /\ Len(last'[s]) \in 1..2
               /\ Recovered(s, last[s][1], readAt[s])'
               /\ Wide(s)' => Recovered(s, last[s][2], last[s][1])'
    PROVE  SymbolInv(s)'
  <1>1. /\ pc'[s] = "done"
        /\ results'[s].status = status /\ results'[s].minUpdatedEpoch = min
    BY DEF Return, IInv, TypeOK, SyncTypeOK
  <1>2. Reading(s)'
    BY <1>1 DEF Reading, Busy, RowsGrow
  <1>3. Recovering(s)'
    BY <1>1 DEF Recovering, Busy, Succeeded
  <1>4. Reporting(s)'
    BY <1>1 DEF Reporting, Threw
  <1> QED
    BY <1>2, <1>3, <1>4 DEF SymbolInv

\* checkAndFillGap of s returned: a gap that did not fail is recovered.
LEMMA GapReturned ==
    ASSUME IInv, NEW s \in SYMBOLS, NEW failed \in BOOLEAN, NEW min \in Times,
           Busy(s), GapDone(s, failed, min), RowsGrow(s),
           UNCHANGED <<now, last, readAt>>,
           InsertedSince(s, min)',
           NEW a, NEW b, a = GapStart(s), b = GapEnd(s),
           ~failed => ~syncFailed[s] /\ Recovered(s, a, b)'
    PROVE  SymbolInv(s)'
  <1>1. /\ Reading(s) /\ Recovering(s) /\ Reporting(s)
        /\ gap[s] \in {1, 2}
    BY Types
  <1>2. StoredMinutes(s) \subseteq StoredMinutes(s)'
    BY DEF StoredMinutes, RowsGrow
  <1>3. PriorGap(s) <=> gap[s] = 1 /\ Wide(s)
    BY DEF PriorGap, Wide
  <1>4. CASE PriorGap(s)
    <2>1. /\ pc'[s] = "checking" /\ gap'[s] = 2
          /\ syncFailed'[s] = failed /\ minUpdated'[s] = min
          /\ results'[s] = results[s]
      BY <1>4 DEF GapDone, IInv, TypeOK, SyncTypeOK
    <2>2. Reading(s)'
      BY <1>1, <1>3, <1>4, <2>1 DEF Reading, Busy, Wide, RowsGrow
    <2>3. results[s].status = "none"
      BY <1>1 DEF Reporting, Busy
    <2>4. ~failed => Recovered(s, last[s][1], readAt[s])'
      <3>1. gap[s] = 1
        BY <1>3, <1>4
      <3>2. GapStart(s) = last[s][1] /\ GapEnd(s) = readAt[s]
        BY <3>1 DEF GapStart, GapEnd
      <3> QED
        BY <3>2 DEF Recovered
    <2>5. Recovering(s)'
      BY <2>1, <2>3, <2>4 DEF Recovering, Succeeded
    <2>6. Reporting(s)'
      BY <2>1, <2>3 DEF Reporting
    <2> QED
      BY <2>2, <2>5, <2>6 DEF SymbolInv
  <1>5. CASE ~PriorGap(s)
    <2> DEFINE status == IF failed THEN "failed" ELSE IF min # Null THEN "backfilled" ELSE "no_gap"
    <2>1. Return(s, status, min) /\ gap' = gap
      BY <1>5 DEF GapDone, Return
    <2>2. status \in Statuses \ {"none"}
      BY DEF Statuses
    <2>3. status \in {"no_gap", "backfilled"} =>
              /\ Recovered(s, last[s][1], readAt[s])'
              /\ Wide(s)' => Recovered(s, last[s][2], last[s][1])'
      <3> HAVE ~failed
      <3>1. Recovered(s, a, b)' /\ ~syncFailed[s]
        OBVIOUS
      <3>2. CASE gap[s] = 1
        <4>1. ~Wide(s)'
          BY <1>3, <1>5, <3>2 DEF Wide
        <4>2. Recovered(s, last[s][1], readAt[s])'
          BY <2>1, <3>1, <3>2 DEF GapStart, GapEnd, Recovered
        <4> QED
          BY <4>1, <4>2
      <3>3. CASE gap[s] = 2
        <4>1. Recovered(s, last[s][2], last[s][1])'
          BY <2>1, <3>1, <3>3 DEF GapStart, GapEnd, Recovered
        <4>2. Recovered(s, last[s][1], readAt[s])
          BY <1>1, <3>1, <3>3 DEF Recovering
        <4>3. Recovered(s, last[s][1], readAt[s])'
          BY <1>2, <4>2 DEF Recovered
        <4> QED
          BY <4>1, <4>3
      <3> QED
        BY <1>1, <3>2, <3>3
    <2>4. Len(last'[s]) \in 1..2
      BY <1>1 DEF Reading
    <2> HIDE DEF status
    <2> QED
      BY <2>1, <2>2, <2>3, <2>4, Returned
  <1> QED
    BY <1>4, <1>5

\* Return changes nothing but the variables of s, and those by their type.
LEMMA ReturnTypes ==
    ASSUME SyncTypeOK, NEW s \in SYMBOLS, NEW status \in Statuses, NEW min \in Times,
           Return(s, status, min),
           last' \in [SYMBOLS -> Seq(Minutes)], readAt' \in [SYMBOLS -> Minutes],
           \A t \in SYMBOLS : t # s => last'[t] = last[t] /\ readAt'[t] = readAt[t]
    PROVE  SyncTypeOK' /\ \A t \in SYMBOLS : t # s => SyncSame(t)
  <1>1. pc' \in [SYMBOLS -> Places]
    BY DEF SyncTypeOK, Return, Places
  <1>2. [status |-> status, minUpdatedEpoch |-> min] \in Results
    BY DEF Results
  <1>3. results' \in [SYMBOLS -> Results]
    BY <1>2 DEF SyncTypeOK, Return
  <1>4. fetched' \in [SYMBOLS -> SUBSET Minutes]
    BY DEF SyncTypeOK, Return
  <1>5. SyncTypeOK'
    BY <1>1, <1>3, <1>4 DEF SyncTypeOK, Return
  <1>6. \A t \in SYMBOLS : t # s => SyncSame(t)
    BY DEF SyncTypeOK, Return, SyncSame
  <1> QED
    BY <1>5, <1>6

\* The same of GapDone.
LEMMA GapTypes ==
    ASSUME SyncTypeOK, NEW s \in SYMBOLS, NEW failed \in BOOLEAN, NEW min \in Times,
           GapDone(s, failed, min), UNCHANGED <<last, readAt>>
    PROVE  SyncTypeOK' /\ \A t \in SYMBOLS : t # s => SyncSame(t)
  <1>1. CASE PriorGap(s)
    <2>1. /\ pc' \in [SYMBOLS -> Places] /\ gap' \in [SYMBOLS -> {1, 2}]
          /\ minUpdated' \in [SYMBOLS -> Times] /\ fetched' \in [SYMBOLS -> SUBSET Minutes]
      BY <1>1 DEF SyncTypeOK, GapDone, Places
    <2>2. syncFailed' \in [SYMBOLS -> BOOLEAN]
      BY <1>1, Zenon DEF SyncTypeOK, GapDone
    <2>3. UNCHANGED <<results, window>>
      BY <1>1 DEF GapDone
    <2>4. \A t \in SYMBOLS : t # s => SyncSame(t)
      BY <1>1 DEF SyncTypeOK, GapDone, SyncSame
    <2> QED
      BY <2>1, <2>2, <2>3, <2>4 DEF SyncTypeOK
  <1>2. CASE ~PriorGap(s)
    <2> DEFINE status == IF failed THEN "failed" ELSE IF min # Null THEN "backfilled" ELSE "no_gap"
    <2>1. Return(s, status, min) /\ status \in Statuses
      BY <1>2 DEF GapDone, Statuses
    <2> HIDE DEF status
    <2> QED
      BY <2>1, ReturnTypes DEF SyncTypeOK
  <1> QED
    BY <1>1, <1>2

-----------------------------------------------------------------------------
(* The steps of syncSymbol *)

\* A step of s keeps the types and touches no other symbol; what it inserts is s's.
StepOf(s) ==
    /\ SyncTypeOK' /\ SymbolInv(s)'
    /\ \A t \in SYMBOLS : t # s => SyncSame(t) /\ rows'[t] = rows[t]
    /\ rows' \in [SYMBOLS -> [Minutes -> Origins]]
    /\ pc[s] # "done"

\* The table does not change: it holds nothing younger than now.
LEMMA SameRows ==
    ASSUME IInv, NEW s \in SYMBOLS, UNCHANGED <<now, rows>>
    PROVE  RowsGrow(s)
  <1>1. Reading(s)
    BY Types
  <1> QED
    BY <1>1 DEF Reading, RowsGrow

\* pLimit starts syncSymbol.
LEMMA StartStep ==
    ASSUME IInv, NEW s \in SYMBOLS, Start(s)
    PROVE  StepOf(s)
  <1>1. /\ SyncTypeOK /\ rows \in [SYMBOLS -> [Minutes -> Origins]]
        /\ Reading(s) /\ Recovering(s) /\ Reporting(s)
    BY Types DEF IInv, TypeOK
  <1>2. /\ pc' \in [SYMBOLS -> Places] /\ pc'[s] = "reading" /\ pc[s] = "queued"
        /\ \A t \in SYMBOLS : t # s => pc'[t] = pc[t]
    BY <1>1 DEF Start, SyncTypeOK, Places
  <1>3. UNCHANGED <<now, rows, gap, last, readAt, window, fetched, syncFailed, minUpdated, results>>
    BY DEF Start
  <1>4. SyncTypeOK' /\ \A t \in SYMBOLS : t # s => SyncSame(t)
    BY <1>1, <1>2, <1>3 DEF SyncTypeOK, SyncSame
  <1>5. SymbolInv(s)'
    BY <1>1, <1>2, <1>3 DEF SymbolInv, Reading, Recovering, Reporting, Busy, Succeeded, Threw,
           InsertedSince, Recovered, StoredMinutes, Wide
  <1> QED
    BY <1>1, <1>2, <1>3, <1>4, <1>5 DEF StepOf

\* getLastCandles: the newest stored minute is not in the future.
LEMMA ReadStep ==
    ASSUME IInv, NEW s \in SYMBOLS, ReadLast(s)
    PROVE  StepOf(s)
  <1>1. /\ TypeOK /\ SyncTypeOK /\ rows \in [SYMBOLS -> [Minutes -> Origins]]
        /\ Reading(s) /\ Recovering(s) /\ Reporting(s) /\ now \in Minutes
    BY Types DEF IInv, TypeOK
  <1>2. UNCHANGED <<now, rows>> /\ pc[s] = "reading"
    BY DEF ReadLast
  <1>3. /\ LastCandles(s) \in Seq(Minutes)
        /\ StoredMinutes(s) # {} => /\ Len(LastCandles(s)) \in 1..2
                                    /\ LastCandles(s)[1] \in StoredMinutes(s)
    BY <1>1, LastCandlesFacts
  <1> HIDE DEF LastCandles
  <1>4. /\ last' \in [SYMBOLS -> Seq(Minutes)] /\ readAt' \in [SYMBOLS -> Minutes]
        /\ last'[s] = LastCandles(s) /\ readAt'[s] = now
        /\ \A t \in SYMBOLS : t # s => last'[t] = last[t] /\ readAt'[t] = readAt[t]
    BY <1>1, <1>3 DEF ReadLast, SyncTypeOK
  <1>5. CASE StoredMinutes(s) = {}
    <2>1. Return(s, "skipped", Null) /\ "skipped" \in Statuses \ {"none"} /\ Null \in Times
      BY <1>5 DEF ReadLast, Statuses, Times
    <2>2. InsertedSince(s, Null)'
      BY <1>2, <1>5 DEF InsertedSince, StoredMinutes
    <2>3. SymbolInv(s)'
      BY <1>2, <2>1, <2>2, SameRows, Returned
    <2>4. SyncTypeOK' /\ \A t \in SYMBOLS : t # s => SyncSame(t)
      BY <1>1, <1>4, <2>1, ReturnTypes
    <2> QED
      BY <1>1, <1>2, <2>3, <2>4 DEF StepOf
  <1>6. CASE StoredMinutes(s) # {}
    <2>1. /\ pc' = [pc EXCEPT ![s] = "checking"]
          /\ UNCHANGED <<gap, window, fetched, syncFailed, minUpdated, results>>
      BY <1>6 DEF ReadLast
    <2>2. /\ pc' \in [SYMBOLS -> Places] /\ pc'[s] = "checking"
          /\ \A t \in SYMBOLS : t # s => pc'[t] = pc[t]
      BY <1>1, <2>1 DEF SyncTypeOK, Places
    <2>3. SyncTypeOK' /\ \A t \in SYMBOLS : t # s => SyncSame(t)
      BY <1>1, <1>4, <2>1, <2>2 DEF SyncTypeOK, SyncSame
    <2>4. last'[s][1] <= now
      BY <1>1, <1>3, <1>4, <1>6 DEF Reading, StoredMinutes
    <2>5. Reading(s)'
      BY <1>1, <1>2, <1>3, <1>4, <1>6, <2>1, <2>2, <2>4, MinutesAreNat DEF Reading, Busy
    <2>6. Recovering(s)'
      BY <1>1, <1>2, <2>1, <2>2 DEF Recovering, Reporting, Succeeded, Reading
    <2>7. Reporting(s)'
      BY <1>1, <1>2, <2>1, <2>2 DEF Reporting, InsertedSince
    <2> QED
      BY <1>1, <1>2, <2>3, <2>5, <2>6, <2>7 DEF StepOf, SymbolInv
  <1> QED
    BY <1>5, <1>6

\* The gap that is looked at lies in the past, although time passed since it was read.
LEMMA GapBounds ==
    ASSUME IInv, NEW s \in SYMBOLS, Busy(s)
    PROVE  /\ GapStart(s) \in Minutes /\ GapEnd(s) \in Minutes
           /\ GapEnd(s) <= now
           /\ Min({GapEnd(s), now}) = GapEnd(s)
  <1>1. /\ Reading(s) /\ gap[s] \in {1, 2} /\ now \in Nat
        /\ last[s] \in Seq(Minutes) /\ readAt[s] \in Minutes
    BY Types
  <1>2. /\ Len(last[s]) \in 1..2 /\ last[s][1] <= now /\ readAt[s] <= now
        /\ gap[s] = 2 => Len(last[s]) = 2
    BY <1>1 DEF Reading, Wide
  <1>3. gap[s] \in 1..Len(last[s]) /\ 1 \in 1..Len(last[s])
    <2>1. Len(last[s]) \in Nat /\ Len(last[s]) >= 1
      BY <1>2
    <2>2. CASE gap[s] = 1
      BY <2>1, <2>2
    <2>3. CASE gap[s] = 2
      <3>1. Len(last[s]) = 2
        BY <1>2, <2>3
      <3>2. gap[s] \in 1..2 /\ 1 \in 1..2
        BY <2>3
      <3> QED
        BY <3>1, <3>2
    <2> QED
      BY <1>1, <2>2, <2>3
  <1>4. GapStart(s) \in Minutes /\ GapEnd(s) \in Minutes /\ GapEnd(s) <= now
    BY <1>1, <1>2, <1>3 DEF GapStart, GapEnd
  <1>5. GapEnd(s) \in Nat
    BY <1>4, MinutesAreNat
  <1> QED
    BY <1>1, <1>4, <1>5, MinOfTwo

\* A step of checkAndFillGap that inserts nothing and ends it.
LEMMA GapEndsStep ==
    ASSUME IInv, NEW s \in SYMBOLS, NEW failed \in BOOLEAN, Busy(s),
           GapDone(s, failed, minUpdated[s]), UNCHANGED <<now, rows, last, readAt>>,
           ~failed => /\ ~syncFailed[s]
                      /\ Recovered(s, GapStart(s), GapEnd(s))
    PROVE  StepOf(s)
  <1>1. /\ SyncTypeOK /\ rows \in [SYMBOLS -> [Minutes -> Origins]]
        /\ Reporting(s) /\ minUpdated[s] \in Times
    BY Types DEF IInv, TypeOK
  <1>2. RowsGrow(s) /\ pc[s] # "done"
    BY SameRows DEF Busy
  <1>3. SyncTypeOK' /\ \A t \in SYMBOLS : t # s => SyncSame(t)
    BY <1>1, GapTypes
  <1>4. \A u \in Times : InsertedSince(s, u) => InsertedSince(s, u)'
    BY DEF InsertedSince
  <1>5. \A u, v : Recovered(s, u, v) => Recovered(s, u, v)'
    BY DEF Recovered, StoredMinutes
  <1>6. PICK u \in Times : u = minUpdated[s]
    BY <1>1
  <1>7. InsertedSince(s, u)' /\ GapDone(s, failed, u)
    BY <1>1, <1>2, <1>4, <1>6 DEF Reporting
  <1>8. PICK a : a = GapStart(s)
    OBVIOUS
  <1>9. PICK b : b = GapEnd(s)
    OBVIOUS
  <1>10. ~failed => ~syncFailed[s] /\ Recovered(s, a, b)'
    BY <1>5, <1>8, <1>9
  <1>11. SymbolInv(s)'
    BY <1>2, <1>7, <1>8, <1>9, <1>10, GapReturned
  <1> QED
    BY <1>1, <1>2, <1>3, <1>11 DEF StepOf

\* checkAndFillGap: nothing to fetch, or a request for the whole gap.
LEMMA CheckStep ==
    ASSUME IInv, NEW s \in SYMBOLS, CheckGap(s)
    PROVE  StepOf(s)
  <1>1. /\ SyncTypeOK /\ rows \in [SYMBOLS -> [Minutes -> Origins]]
        /\ Reading(s) /\ Recovering(s) /\ Reporting(s) /\ syncFailed[s] \in BOOLEAN
    BY Types DEF IInv, TypeOK
  <1>2. UNCHANGED <<now, rows, last, readAt>> /\ pc[s] = "checking" /\ Busy(s)
    BY DEF CheckGap, Busy
  <1>3. /\ GapStart(s) \in Nat /\ GapEnd(s) \in Nat
        /\ Min({GapEnd(s), now}) = GapEnd(s)
    BY <1>2, GapBounds, MinutesAreNat
  <1> HIDE DEF GapStart, GapEnd
  <1>4. CASE GapEnd(s) - GapStart(s) < 2 \/ ApiStart(s) >= GapEnd(s)
    <2>1. GapDone(s, syncFailed[s], minUpdated[s])
      BY <1>3, <1>4 DEF CheckGap
    <2>2. {m \in Available : GapStart(s) < m /\ m < GapEnd(s)} = {}
      <3>1. \A m \in Nat : ~(GapStart(s) < m /\ m < GapEnd(s))
        BY <1>3, <1>4 DEF ApiStart
      <3> QED
        BY <3>1, MinutesAreNat
    <2>3. Recovered(s, GapStart(s), GapEnd(s))
      BY <2>2 DEF Recovered
    <2> QED
      BY <1>1, <1>2, <2>1, <2>3, GapEndsStep
  <1>5. CASE ~(GapEnd(s) - GapStart(s) < 2 \/ ApiStart(s) >= GapEnd(s))
    <2>1. /\ pc' = [pc EXCEPT ![s] = "requesting"]
          /\ window' = [window EXCEPT ![s] = <<GapStart(s) + 1, GapEnd(s)>>]
          /\ UNCHANGED <<gap, fetched, syncFailed, minUpdated, results>>
      BY <1>3, <1>5 DEF CheckGap, ApiStart
    <2>2. /\ pc' \in [SYMBOLS -> Places] /\ pc'[s] = "requesting"
          /\ \A t \in SYMBOLS : t # s => pc'[t] = pc[t]
      BY <1>1, <2>1 DEF SyncTypeOK, Places
    <2>3. <<GapStart(s) + 1, GapEnd(s)>> \in Seq(Int)
      BY <1>3
    <2>4. /\ window' \in [SYMBOLS -> Seq(Int)] /\ window'[s] = <<GapStart(s) + 1, GapEnd(s)>>
          /\ \A t \in SYMBOLS : t # s => window'[t] = window[t]
      BY <1>1, <2>1, <2>3 DEF SyncTypeOK
    <2>5. SyncTypeOK' /\ \A t \in SYMBOLS : t # s => SyncSame(t)
      BY <1>1, <1>2, <2>1, <2>2, <2>4 DEF SyncTypeOK, SyncSame
    <2>6. GapStart(s)' = GapStart(s) /\ GapEnd(s)' = GapEnd(s)
      BY <1>2, <2>1 DEF GapStart, GapEnd
    <2>7. Reading(s)'
      <3>1. GapStart(s) + 1 < GapEnd(s)
        BY <1>3, <1>5 DEF ApiStart
      <3> QED
        BY <1>1, <1>2, <2>1, <2>2, <2>4, <2>6, <3>1 DEF Reading, Busy, Wide
    <2>8. Recovering(s)'
      BY <1>1, <1>2, <2>1, <2>2 DEF Recovering, Busy, Succeeded, Recovered, StoredMinutes, Wide
    <2>9. Reporting(s)'
      BY <1>1, <1>2, <2>1, <2>2 DEF Reporting, InsertedSince
    <2> QED
      BY <1>1, <1>2, <2>5, <2>7, <2>8, <2>9 DEF StepOf, SymbolInv
  <1> QED
    BY <1>4, <1>5

\* The answer: nothing in the gap, or candles to save.
LEMMA ResolveStep ==
    ASSUME IInv, NEW s \in SYMBOLS, RequestResolves(s)
    PROVE  StepOf(s)
  <1>1. /\ SyncTypeOK /\ rows \in [SYMBOLS -> [Minutes -> Origins]]
        /\ Reading(s) /\ Recovering(s) /\ Reporting(s) /\ syncFailed[s] \in BOOLEAN
    BY Types DEF IInv, TypeOK
  <1>2. UNCHANGED <<now, rows, last, readAt>> /\ pc[s] = "requesting" /\ Busy(s)
    BY DEF RequestResolves, Busy
  <1>3. /\ GapStart(s) \in Int /\ GapEnd(s) \in Int
        /\ window[s] = <<GapStart(s) + 1, GapEnd(s)>>
    <2>1. GapStart(s) \in Nat /\ GapEnd(s) \in Nat
      BY <1>2, GapBounds, MinutesAreNat
    <2> QED
      BY <1>1, <1>2, <2>1 DEF Reading
  <1> HIDE DEF GapStart, GapEnd
  <1>4. /\ Answer(s) \subseteq Minutes
        /\ \A m \in Available : GapStart(s) < m /\ m < GapEnd(s) =>
               m \in Answer(s) \/ BehindAnAnswer(GapStart(s), m)
    BY <1>3, AnswerFacts
  <1>5. CASE Answer(s) = {}
    <2>1. GapDone(s, syncFailed[s], minUpdated[s])
      BY <1>5 DEF RequestResolves
    <2>2. Recovered(s, GapStart(s), GapEnd(s))
      BY <1>4, <1>5 DEF Recovered
    <2> QED
      BY <1>1, <1>2, <2>1, <2>2, GapEndsStep
  <1>6. CASE Answer(s) # {}
    <2>1. /\ pc' = [pc EXCEPT ![s] = "saving"]
          /\ fetched' = [fetched EXCEPT ![s] = Answer(s)]
          /\ UNCHANGED <<gap, window, syncFailed, minUpdated, results>>
      BY <1>6 DEF RequestResolves
    <2>2. Answer(s)' = Answer(s) /\ GapStart(s)' = GapStart(s) /\ GapEnd(s)' = GapEnd(s)
      BY <1>2, <2>1 DEF Answer, GapStart, GapEnd
    <2> HIDE DEF Answer
    <2>3. /\ pc' \in [SYMBOLS -> Places] /\ pc'[s] = "saving"
          /\ \A t \in SYMBOLS : t # s => pc'[t] = pc[t]
      BY <1>1, <2>1 DEF SyncTypeOK, Places
    <2>4. /\ fetched' \in [SYMBOLS -> SUBSET Minutes] /\ fetched'[s] = Answer(s)
          /\ \A t \in SYMBOLS : t # s => fetched'[t] = fetched[t]
      BY <1>1, <1>4, <2>1 DEF SyncTypeOK
    <2>5. SyncTypeOK' /\ \A t \in SYMBOLS : t # s => SyncSame(t)
      BY <1>1, <1>2, <2>1, <2>3, <2>4 DEF SyncTypeOK, SyncSame
    <2>6. Reading(s)'
      BY <1>1, <1>2, <2>1, <2>2, <2>3, <2>4 DEF Reading, Busy, Wide
    <2>7. Recovering(s)'
      BY <1>1, <1>2, <2>1, <2>3 DEF Recovering, Busy, Succeeded, Recovered, StoredMinutes, Wide
    <2>8. Reporting(s)'
      BY <1>1, <1>2, <2>1, <2>3 DEF Reporting, InsertedSince
    <2> QED
      BY <1>1, <1>2, <2>5, <2>6, <2>7, <2>8 DEF StepOf, SymbolInv
  <1> QED
    BY <1>5, <1>6

\* The provider refuses: the gap failed.
LEMMA RefusedStep ==
    ASSUME IInv, NEW s \in SYMBOLS, RequestRefused(s)
    PROVE  StepOf(s)
  BY GapEndsStep DEF RequestRefused, Busy

\* The catch block after a query or a request that threw.
LEMMA ThrowsStep ==
    ASSUME IInv, NEW s \in SYMBOLS, Throws(s)
    PROVE  StepOf(s)
  <1>1. SyncTypeOK /\ rows \in [SYMBOLS -> [Minutes -> Origins]]
    BY DEF IInv, TypeOK
  <1>2. UNCHANGED <<now, rows, last, readAt>> /\ pc[s] # "done" /\ Return(s, "failed", Null)
    BY DEF Throws, Caught
  <1>3. "failed" \in Statuses \ {"none"} /\ Null \in Times
    BY DEF Statuses, Times
  <1>4. SymbolInv(s)'
    BY <1>2, <1>3, SameRows, Returned
  <1>5. SyncTypeOK' /\ \A t \in SYMBOLS : t # s => SyncSame(t)
    BY <1>1, <1>2, <1>3, ReturnTypes DEF SyncTypeOK
  <1> QED
    BY <1>1, <1>2, <1>4, <1>5 DEF StepOf

\* bulkSave1mCandles: the fetched minutes are stored, all of them in the window.
LEMMA BulkSaved ==
    ASSUME IInv, NEW s \in SYMBOLS, pc[s] = "saving", now' = now,
           rows' = [rows EXCEPT ![s] = BulkSave(rows[s], Parsed(fetched[s]))]
    PROVE  /\ rows' \in [SYMBOLS -> [Minutes -> Origins]]
           /\ RowsGrow(s)
           /\ \A t \in SYMBOLS : t # s => rows'[t] = rows[t]
           /\ window[s][1] \in Minutes
           /\ \A m \in Minutes : rows'[s][m] = "rest" => rows[s][m] = "rest" \/ window[s][1] <= m
           /\ fetched[s] \subseteq StoredMinutes(s)'
           /\ \A m \in Available : GapStart(s) < m /\ m < GapEnd(s) =>
                  m \in fetched[s] \/ BehindAnAnswer(GapStart(s), m)
  <1>1. /\ rows \in [SYMBOLS -> [Minutes -> Origins]]
        /\ Reading(s) /\ now \in Nat /\ Busy(s)
    BY Types DEF IInv, TypeOK, Busy
  <1>2. /\ GapStart(s) \in Nat /\ GapEnd(s) \in Nat /\ GapEnd(s) <= now
        /\ GapEnd(s) \in Minutes
    BY <1>1, GapBounds, MinutesAreNat
  <1>3. /\ window[s] = <<GapStart(s) + 1, GapEnd(s)>> /\ fetched[s] = Answer(s)
        /\ GapStart(s) + 1 < GapEnd(s)
    BY <1>1 DEF Reading
  <1> HIDE DEF GapStart, GapEnd, Answer
  <1>4. /\ fetched[s] \subseteq Minutes
        /\ \A m \in fetched[s] : GapStart(s) + 1 <= m /\ m <= GapEnd(s)
        /\ \A m \in Available : GapStart(s) < m /\ m < GapEnd(s) =>
               m \in fetched[s] \/ BehindAnAnswer(GapStart(s), m)
    BY <1>2, <1>3, AnswerFacts
  <1>5. BulkSave(rows[s], Parsed(fetched[s])) \in [Minutes -> Origins]
    BY <1>1 DEF BulkSave, Origins
  <1>6. /\ rows' \in [SYMBOLS -> [Minutes -> Origins]]
        /\ rows'[s] = BulkSave(rows[s], Parsed(fetched[s]))
        /\ \A t \in SYMBOLS : t # s => rows'[t] = rows[t]
    BY <1>1, <1>5
  <1>7. \A m \in Minutes :
            rows'[s][m] = IF m \in fetched[s] /\ rows[s][m] = "none" THEN "rest" ELSE rows[s][m]
    <2>1. Parsed(fetched[s]) = fetched[s]
      BY <1>4, ParsedSame
    <2>2. rows'[s] = BulkSave(rows[s], fetched[s])
      BY <1>6, <2>1
    <2> QED
      BY <2>2 DEF BulkSave
  <1>8. \A m \in fetched[s] : m <= now
    <2> TAKE m \in fetched[s]
    <2>1. m \in Nat
      BY <1>4, MinutesAreNat, Zenon
    <2>2. m <= GapEnd(s)
      BY <1>4, Zenon
    <2> QED
      BY <1>1, <1>2, <2>1, <2>2
  <1>9. RowsGrow(s)
    BY <1>1, <1>7, <1>8 DEF RowsGrow, Reading
  <1>10. window[s][1] = GapStart(s) + 1
    BY <1>3
  <1>11. window[s][1] \in Minutes
    BY <1>2, <1>3, <1>10, MinutesAreNat DEF Minutes
  <1> QED
    BY <1>4, <1>6, <1>7, <1>9, <1>10, <1>11 DEF StoredMinutes

\* The gap is filled, and reported from the beginning of its window.
LEMMA SaveStep ==
    ASSUME IInv, NEW s \in SYMBOLS, Save(s)
    PROVE  StepOf(s)
  <1>1. /\ SyncTypeOK /\ syncFailed[s] \in BOOLEAN /\ minUpdated[s] \in Times /\ Reporting(s)
    BY Types DEF IInv, TypeOK
  <1>2. /\ UNCHANGED <<now, last, readAt>> /\ pc[s] = "saving" /\ Busy(s)
        /\ rows' = [rows EXCEPT ![s] = BulkSave(rows[s], Parsed(fetched[s]))]
        /\ GapDone(s, syncFailed[s], Updated(s))
    BY DEF Save, Busy
  <1>3. /\ rows' \in [SYMBOLS -> [Minutes -> Origins]]
        /\ RowsGrow(s)
        /\ \A t \in SYMBOLS : t # s => rows'[t] = rows[t]
        /\ window[s][1] \in Minutes
        /\ \A m \in Minutes : rows'[s][m] = "rest" => rows[s][m] = "rest" \/ window[s][1] <= m
        /\ fetched[s] \subseteq StoredMinutes(s)'
        /\ \A m \in Available : GapStart(s) < m /\ m < GapEnd(s) =>
               m \in fetched[s] \/ BehindAnAnswer(GapStart(s), m)
    BY <1>2, BulkSaved
  <1>4. PICK u : u = Updated(s)
    OBVIOUS
  <1>5. /\ u \in Minutes /\ u <= window[s][1]
        /\ minUpdated[s] # Null => u <= minUpdated[s]
    BY <1>1, <1>3, <1>4, MinUpdateFacts DEF Updated
  <1>6. InsertedSince(s, u)'
    <2>1. ASSUME NEW m \in Minutes, rows'[s][m] = "rest"
          PROVE  u # Null /\ u <= m
      <3>1. u \in Nat /\ u # Null /\ m \in Nat /\ window[s][1] \in Nat
        BY <1>3, <1>5, MinutesAreNat
      <3>2. CASE window[s][1] <= m
        BY <1>5, <3>1, <3>2
      <3>3. CASE rows[s][m] = "rest"
        <4>1. minUpdated[s] # Null /\ minUpdated[s] <= m
          BY <1>1, <1>2, <3>3 DEF Reporting, InsertedSince
        <4>2. minUpdated[s] \in Nat
          BY <1>1, <4>1, MinutesAreNat DEF Times
        <4> QED
          BY <1>5, <3>1, <4>1, <4>2
      <3> QED
        BY <1>3, <2>1, <3>2, <3>3
    <2> QED
      BY <2>1 DEF InsertedSince
  <1>7. PICK a : a = GapStart(s)
    OBVIOUS
  <1>8. PICK b : b = GapEnd(s)
    OBVIOUS
  <1>9. Recovered(s, a, b)'
    BY <1>3, <1>7, <1>8 DEF Recovered
  <1>10. u \in Times /\ GapDone(s, syncFailed[s], u)
    BY <1>2, <1>4, <1>5 DEF Times
  <1>11. SymbolInv(s)'
    BY <1>1, <1>2, <1>3, <1>6, <1>7, <1>8, <1>9, <1>10, GapReturned
  <1>12. SyncTypeOK' /\ \A t \in SYMBOLS : t # s => SyncSame(t)
    BY <1>1, <1>2, <1>10, GapTypes
  <1> QED
    BY <1>2, <1>3, <1>11, <1>12 DEF StepOf

\* The catch block after an insert that threw, done or not.
LEMMA SaveThrowsStep ==
    ASSUME IInv, NEW s \in SYMBOLS, SaveThrows(s)
    PROVE  StepOf(s)
  <1>1. SyncTypeOK /\ rows \in [SYMBOLS -> [Minutes -> Origins]]
    BY DEF IInv, TypeOK
  <1>2. UNCHANGED <<now, last, readAt>> /\ pc[s] = "saving" /\ Return(s, "failed", Null)
    BY DEF SaveThrows, Caught
  <1>3. /\ rows' \in [SYMBOLS -> [Minutes -> Origins]]
        /\ RowsGrow(s)
        /\ \A t \in SYMBOLS : t # s => rows'[t] = rows[t]
    <2>1. CASE UNCHANGED rows
      BY <1>1, <1>2, <2>1, SameRows
    <2>2. CASE rows' = [rows EXCEPT ![s] = BulkSave(rows[s], Parsed(fetched[s]))]
      BY <1>2, <2>2, BulkSaved
    <2> QED
      BY <2>1, <2>2 DEF SaveThrows
  <1>4. "failed" \in Statuses \ {"none"} /\ Null \in Times
    BY DEF Statuses, Times
  <1>5. SymbolInv(s)'
    BY <1>2, <1>3, <1>4, Returned
  <1>6. SyncTypeOK' /\ \A t \in SYMBOLS : t # s => SyncSame(t)
    BY <1>1, <1>2, <1>4, ReturnTypes DEF SyncTypeOK
  <1> QED
    BY <1>2, <1>3, <1>5, <1>6 DEF StepOf

-----------------------------------------------------------------------------
(* The theorems *)

\* A step of one symbol keeps the invariant of all.
LEMMA SymbolStep ==
    ASSUME IInv, NEW s \in SYMBOLS,
           Sync(s) \/ RequestRefused(s) \/ Throws(s) \/ SaveThrows(s)
    PROVE  IInv'
  <1>1. StepOf(s)
    BY StartStep, ReadStep, CheckStep, ResolveStep, SaveStep, RefusedStep, ThrowsStep,
       SaveThrowsStep DEF Sync
  <1>2. UNCHANGED <<now, phase, refreshFrom, refreshed>>
    BY DEF Sync, Start, ReadLast, CheckGap, RequestResolves, Save, RequestRefused, Throws,
           SaveThrows
  <1>3. phase = "syncing"
    BY <1>1 DEF StepOf, IInv, Collected
  <1>4. TypeOK'
    BY <1>1, <1>2 DEF StepOf, IInv, TypeOK
  <1>5. ASSUME NEW t \in SYMBOLS, t # s
        PROVE  SymbolInv(t)'
    <2>1. SyncSame(t) /\ rows'[t] = rows[t]
      BY <1>1, <1>5 DEF StepOf
    <2>2. Reading(t) /\ now \in Nat
      BY Types
    <2>3. RowsGrow(t)
      BY <1>2, <2>1, <2>2 DEF Reading, RowsGrow
    <2> QED
      BY <1>2, <2>1, <2>2, <2>3, Frame
  <1> QED
    BY <1>1, <1>2, <1>3, <1>4, <1>5 DEF StepOf, IInv, Collected, Viewed

\* Promise.all: the refresh starts at the oldest minute any symbol reported.
LEMMA CollectStep ==
    ASSUME IInv, Collect
    PROVE  IInv'
  <1> DEFINE mins == {results[s].minUpdatedEpoch : s \in SYMBOLS} \ {Null}
  <1>1. /\ \A s \in SYMBOLS : results[s].status # "none"
        /\ refreshFrom' = IF mins = {} THEN Null ELSE Min(mins)
        /\ phase' = IF mins = {} THEN "completed" ELSE "refreshing"
        /\ UNCHANGED <<now, rows, sync, refreshed>>
    BY DEF Collect
  <1>2. mins \subseteq Minutes
    BY Types DEF Times
  <1>3. mins # {} => Min(mins) \in mins /\ \A m \in mins : Min(mins) <= m
    BY <1>2, MinOf, MinutesAreNat
  <1>4. \A s \in SYMBOLS : results[s].minUpdatedEpoch # Null => results[s].minUpdatedEpoch \in mins
    OBVIOUS
  <1> HIDE DEF mins
  <1>5. \A s \in SYMBOLS : pc[s] = "done"
    BY <1>1, Types DEF Reporting
  <1>6. Collected'
    BY <1>1, <1>2, <1>3, <1>4, <1>5, MinutesAreNat DEF Collected, sync
  <1>7. TypeOK'
    BY <1>1, <1>2, <1>3 DEF IInv, TypeOK, SyncTypeOK, sync, Times
  <1>8. ASSUME NEW s \in SYMBOLS
        PROVE  SymbolInv(s)'
    <2>1. SyncSame(s) /\ rows'[s] = rows[s] /\ now \in Nat
      BY <1>1, Types DEF SyncSame, sync
    <2> QED
      BY <1>1, <2>1, SameRows, Frame
  <1>9. Viewed'
    BY <1>1 DEF Viewed
  <1> QED
    BY <1>6, <1>7, <1>8, <1>9 DEF IInv

\* The refresh, the clock and the live pipeline.
LEMMA OtherStep ==
    ASSUME IInv,
           \/ \E v \in DOMAIN Views : \E outcome \in {"ok", "failed"} : RefreshView(v, outcome)
           \/ Tick
           \/ \E s \in SYMBOLS, m \in Minutes : LiveInsert(s, m)
           \/ UNCHANGED vars
    PROVE  IInv'
  <1>1. /\ UNCHANGED <<sync, refreshFrom>>
        /\ phase' = phase \/ (phase = "refreshing" /\ phase' = "completed")
    BY DEF RefreshView, Tick, LiveInsert, vars
  <1>2. now \in Minutes /\ now \in Nat /\ rows \in [SYMBOLS -> [Minutes -> Origins]]
    BY MinutesAreNat DEF IInv, TypeOK
  <1>3. now' \in Minutes /\ now' \in Nat /\ now <= now'
    <2>1. now' = now \/ (now < MaxMinute /\ now' = now + 1)
      BY DEF RefreshView, Tick, LiveInsert, vars
    <2> QED
      BY <1>2, <2>1, MinutesAreNat DEF Minutes
  <1>4. /\ rows' \in [SYMBOLS -> [Minutes -> Origins]]
        /\ \A t \in SYMBOLS, m \in Minutes :
               \/ rows'[t][m] = rows[t][m]
               \/ rows[t][m] = "none" /\ rows'[t][m] = "live" /\ m <= now'
    <2>1. CASE UNCHANGED rows
      BY <1>2, <2>1
    <2>2. CASE \E s \in SYMBOLS, m \in Minutes : LiveInsert(s, m)
      <3>1. PICK s \in SYMBOLS, m \in Minutes : LiveInsert(s, m)
        BY <2>2
      <3>2. [rows[s] EXCEPT ![m] = "live"] \in [Minutes -> Origins]
        BY <1>2 DEF Origins
      <3>3. rows' = [rows EXCEPT ![s] = [rows[s] EXCEPT ![m] = "live"]]
        BY <3>1 DEF LiveInsert
      <3>4. m <= now' /\ rows[s][m] = "none"
        BY <1>2, <1>3, <3>1, MinutesAreNat DEF LiveInsert
      <3> QED
        BY <1>2, <3>2, <3>3, <3>4
    <2> QED
      BY <2>1, <2>2 DEF RefreshView, Tick, vars
  <1>5. ASSUME NEW t \in SYMBOLS
        PROVE  SymbolInv(t)'
    <2>1. SyncSame(t)
      BY <1>1 DEF SyncSame, sync
    <2>2. Reading(t)
      BY Types
    <2>3. \A m \in Minutes : rows[t][m] # "none" => m <= now'
      BY <1>2, <1>3, <2>2, MinutesAreNat DEF Reading
    <2>4. RowsGrow(t)
      BY <1>4, <2>3 DEF RowsGrow
    <2> QED
      BY <1>3, <1>4, <2>1, <2>4, Frame
  <1>6. Collected'
    BY <1>1 DEF IInv, Collected, sync
  <1>7. /\ refreshed' \in [DOMAIN Views -> {"no", "ok", "failed"}]
        /\ Viewed'
    <2>1. refreshed \in [DOMAIN Views -> {"no", "ok", "failed"}] /\ Viewed
      BY DEF IInv, TypeOK
    <2>2. CASE UNCHANGED <<refreshed, phase>>
      BY <1>1, <2>1, <2>2 DEF Viewed
    <2>3. CASE \E v \in DOMAIN Views : \E outcome \in {"ok", "failed"} : RefreshView(v, outcome)
      <3>1. PICK v \in DOMAIN Views, outcome \in {"ok", "failed"} : RefreshView(v, outcome)
        BY <2>3
      <3>2. /\ refreshed' = [refreshed EXCEPT ![v] = outcome]
            /\ \A u \in DOMAIN Views : u < v => refreshed[u] # "no"
            /\ phase' = IF v = Len(Views) THEN "completed" ELSE phase
            /\ phase = "refreshing"
        BY <3>1 DEF RefreshView
      <3>3. \A u \in DOMAIN Views : v = Len(Views) => u < v \/ u = v
        <4>1. \A n \in Nat : \A u \in 1..n : u < n \/ u = n
          OBVIOUS
        <4>2. DOMAIN Views = 1..Len(Views) /\ Len(Views) \in Nat
          BY BackfillAssumption
        <4> QED
          BY <4>1, <4>2
      <3>4. \A u \in DOMAIN Views : phase' = "completed" => refreshed'[u] # "no"
        BY <2>1, <3>2, <3>3, BackfillAssumption
      <3> QED
        BY <2>1, <3>2, <3>4 DEF Viewed
    <2> QED
      BY <2>2, <2>3 DEF Tick, LiveInsert, vars
  <1>8. TypeOK'
    BY <1>1, <1>3, <1>4, <1>7 DEF IInv, TypeOK, SyncTypeOK, sync
  <1> QED
    BY <1>5, <1>6, <1>7, <1>8 DEF IInv

\* The initial states satisfy the invariant.
LEMMA InitIInv ==
    ASSUME Init
    PROVE  IInv
  <1>1. PICK S \in Stored :
            rows = [s \in SYMBOLS |-> [m \in Minutes |-> IF m \in S[s] THEN "live" ELSE "none"]]
    BY DEF Init
  <1>2. rows \in [SYMBOLS -> [Minutes -> Origins]]
    BY <1>1 DEF Origins
  <1>3. /\ pc \in [SYMBOLS -> Places] /\ gap \in [SYMBOLS -> {1, 2}]
        /\ readAt \in [SYMBOLS -> Minutes]
        /\ fetched \in [SYMBOLS -> SUBSET Minutes] /\ minUpdated \in [SYMBOLS -> Times]
    BY BackfillAssumption DEF Init, Places, Times, Minutes
  <1>4. last \in [SYMBOLS -> Seq(Minutes)] /\ window \in [SYMBOLS -> Seq(Int)]
    BY DEF Init
  <1>5. syncFailed \in [SYMBOLS -> BOOLEAN]
    BY DEF Init
  <1>6. results \in [SYMBOLS -> Results]
    BY DEF Init, NoResult, Results, Statuses, Times
  <1>7. TypeOK
    BY <1>2, <1>3, <1>4, <1>5, <1>6, BackfillAssumption DEF Init, TypeOK, SyncTypeOK, Times
  <1>8. ASSUME NEW s \in SYMBOLS
        PROVE  SymbolInv(s)
    <2>1. /\ pc[s] = "queued" /\ gap[s] = 1 /\ syncFailed[s] = FALSE /\ minUpdated[s] = Null
          /\ results[s].status = "none" /\ now = Started
      BY DEF Init, NoResult
    <2>2. \A m \in Minutes : /\ rows[s][m] # "rest"
                             /\ rows[s][m] # "none" => m <= now
      <3>1. S[s] \subseteq 0..(Started - 1) /\ Started \in Nat
        <4>1. S \in [SYMBOLS -> SUBSET (0..(Started - 1))]
          BY BackfillAssumption
        <4> QED
          BY <4>1, BackfillAssumption, MinutesAreNat
      <3>2. \A m \in S[s] : m <= Started
        BY <3>1
      <3> QED
        BY <1>1, <2>1, <3>2
    <2> QED
      BY <2>1, <2>2 DEF SymbolInv, Reading, Recovering, Reporting, Busy, Succeeded, InsertedSince
  <1>9. Collected /\ Viewed
    BY DEF Init, Collected, Viewed
  <1> QED
    BY <1>7, <1>8, <1>9 DEF IInv

\* Every step keeps the invariant.
LEMMA NextIInv ==
    ASSUME IInv, [Next]_vars
    PROVE  IInv'
  BY SymbolStep, CollectStep, OtherStep DEF Next, Refresh

\* The inductive invariant holds in every reachable state.
THEOREM Invariance == Spec => []IInv
  BY InitIInv, NextIInv, PTL DEF Spec

\* When the backfill is over, every row it inserted for a symbol whose sync did not throw
\* lies in the window, from globalMinEpoch on, with which every view was refreshed or
\* failed to be.
THEOREM ReportedIsRefreshed == Spec => []ReportedRowsRefreshed
  <1>1. IInv => ReportedRowsRefreshed
    <2> SUFFICES ASSUME IInv, phase = "completed", NEW s \in SYMBOLS, ~Threw(s),
                        NEW m \in Minutes, rows[s][m] = "rest"
                 PROVE  /\ refreshFrom # Null /\ refreshFrom <= m
                        /\ \A v \in DOMAIN Views : refreshed[v] # "no"
      BY DEF ReportedRowsRefreshed
    <2> DEFINE t == results[s].minUpdatedEpoch
    <2>1. pc[s] = "done" /\ (t # Null => refreshFrom # Null /\ refreshFrom <= t)
      BY DEF IInv, Collected
    <2>2. t # Null /\ t <= m /\ t \in Times
      BY <2>1, Types DEF Reporting, InsertedSince
    <2>3. refreshFrom \in Times /\ Viewed
      BY DEF IInv, TypeOK
    <2> HIDE DEF t
    <2>4. t \in Nat /\ refreshFrom \in Nat /\ m \in Nat
      BY <2>1, <2>2, <2>3, MinutesAreNat DEF Times
    <2> QED
      BY <2>1, <2>2, <2>3, <2>4 DEF Viewed
  <1> QED
    BY <1>1, Invariance, PTL

\* However long a downtime and whatever the live pipeline inserts meanwhile: success is
\* reported only when checkAndFillGap has recovered both gaps as far as its one request
\* reaches.  A single minute between the last two candles is not looked at.
THEOREM GapsAreRecovered == Spec => []GapsRecovered
  <1>1. IInv => GapsRecovered
    <2> SUFFICES ASSUME IInv, NEW s \in SYMBOLS, Succeeded(s)
                 PROVE  /\ Recovered(s, last[s][1], readAt[s])
                        /\ Len(last[s]) = 2 /\ last[s][1] # last[s][2] + 2 =>
                               Recovered(s, last[s][2], last[s][1])
      BY DEF GapsRecovered
    <2>1. /\ Recovered(s, last[s][1], readAt[s])
          /\ Wide(s) => Recovered(s, last[s][2], last[s][1])
          /\ last[s] \in Seq(Minutes)
      BY Types DEF Recovering
    <2>2. ASSUME Len(last[s]) = 2, last[s][1] # last[s][2] + 2
          PROVE  Recovered(s, last[s][2], last[s][1])
      <3>1. last[s][1] \in Nat /\ last[s][2] \in Nat
        <4>1. \A q \in Seq(Minutes) : Len(q) = 2 => q[1] \in Minutes /\ q[2] \in Minutes
          OBVIOUS
        <4>2. last[s][1] \in Minutes /\ last[s][2] \in Minutes
          BY <2>1, <2>2, <4>1
        <4> QED
          BY <4>2, MinutesAreNat
      <3>2. CASE Wide(s)
        BY <2>1, <3>2
      <3>3. CASE ~Wide(s)
        <4>1. \A m \in Nat : ~(last[s][2] < m /\ m < last[s][1])
          BY <2>2, <3>1, <3>3 DEF Wide
        <4> QED
          BY <4>1, MinutesAreNat DEF Recovered
      <3> QED
        BY <3>2, <3>3
    <2> QED
      BY <2>1, <2>2
  <1> QED
    BY <1>1, Invariance, PTL

=============================================================================
