-------------------------- MODULE CandleProcessing --------------------------
(***************************************************************************)
(* The Candle Processor process: it consumes the raw-tick log of one Kafka *)
(* partition, folds the ticks of every symbol into a one-minute candle in  *)
(* memory, inserts a completed candle into PostgreSQL, commits the oldest  *)
(* offset that any symbol still needs, and announces the candle on Redis.  *)
(* It keeps no local checkpoint: after any failure the process exits, and  *)
(* a fresh one replays the log from the committed offset.                  *)
(*                                                                         *)
(* Each await of CandleProcessor.process and of the runtime around it is   *)
(* the end of one action; the process may die, and the request it waits    *)
(* for may fail with or without having taken effect, at every one of them. *)
(*                                                                         *)
(* Offsets count from 1 (Kafka's from 0), so that an offset is an index of *)
(* the sequence log.  The candle volume is left out: process() always      *)
(* passes 0.  Metrics and log lines are left out.                          *)
(***************************************************************************)
EXTENDS Candles, FiniteSets

CONSTANTS
    Symbols,       \* the symbols the processor is configured with
    Null,
    MaxLog,        \* bound: records appended to the topic
    MaxFaults,     \* bound: kills, shutdowns and failed requests
    MaxRebalances  \* bound: partition reassignments to a living process

ASSUME ConstantAssumption ==
    /\ Symbols \subseteq TopicSymbols
    /\ Timestamps \subseteq Nat
    /\ Prices \subseteq Int
    /\ Malformed \notin Tick
    /\ Null \notin Candle
    /\ MaxLog \in Nat
    /\ MaxFaults \in Nat
    /\ MaxRebalances \in Nat

VARIABLES
    log,        \* the records of the topic's only partition
    committed,  \* the consumer group's offset, kept by the broker
    db,         \* table candle_1m: <<symbol, startTime>> -> candle
    late,       \* inserts of dead processes that the database may still run
    published,  \* completed candles that reached Redis
    life,       \* "up", "stopping" (SIGTERM received) or "down"
    pc,         \* where the message handler waits
    pos,        \* offset of the message in hand, or of the next one
    current,    \* symbol -> the CandleMaker's current candle
    replay,     \* symbol -> replayStartOffsets
    completed,  \* the candle in the hands of process()
    faults, rebalances

external == <<log, committed, db, late, published>>
memory == <<pc, pos, current, replay, completed>>
vars == <<log, committed, db, late, published, life, pc, pos, current,
          replay, completed, faults, rebalances>>

TypeOK ==
    /\ log \in Seq(Tick \cup {Malformed})
    /\ committed \in Nat \ {0}
    /\ db \in [DOMAIN db -> Candle]
    /\ late \subseteq Candle
    /\ published \subseteq Candle
    /\ life \in {"up", "stopping", "down"}
    /\ pc \in {"idle", "saving", "committing", "publishing"}
    /\ pos \in Nat \ {0}
    /\ current \in [DOMAIN current -> Candle]
    /\ replay \in [DOMAIN replay -> Nat \ {0}]
    /\ DOMAIN current = DOMAIN replay
    /\ DOMAIN current \subseteq Symbols
    /\ \A s \in DOMAIN current : current[s].symbol = s
    /\ completed \in Candle \cup {Null}
    /\ pc # "idle" <=> completed # Null
    /\ completed # Null => completed.symbol \in DOMAIN current
    /\ faults \in 0..MaxFaults
    /\ rebalances \in 0..MaxRebalances

-----------------------------------------------------------------------------
(* Helpers *)

EmptyMap == [x \in {} |-> Null]

\* Faulty variant: an upsert, the last insert wins.
BulkUpsert(table, c) == Put(table, Key(c), c)

\* createMany with skipDuplicates: INSERT ... ON CONFLICT DO NOTHING.
BulkSave(table, c) == IF Key(c) \in DOMAIN table THEN table ELSE Put(table, Key(c), c)

\* CandleMaker.update, the branch that starts a minute.
OpenCandle(r) == [symbol |-> r.symbol, startTime |-> StartTime(r.ts),
                  open |-> r.price, high |-> r.price, low |-> r.price, close |-> r.price]

\* CandleMaker.update, the branch that stays in the minute.
ExtendCandle(c, r) == [c EXCEPT !.high = IF r.price > @ THEN r.price ELSE @,
                                !.low = IF r.price < @ THEN r.price ELSE @,
                                !.close = r.price]

\* Does tick r stay in the minute of the symbol's current candle?
SameMinute(r) == /\ r.symbol \in DOMAIN current
                 /\ current[r.symbol].startTime = StartTime(r.ts)

\* Does tick r close the symbol's current candle?  Any other minute does, a
\* minute that lies in the past too.
Closes(r) == /\ r.symbol \in DOMAIN current
             /\ current[r.symbol].startTime # StartTime(r.ts)

\* Faulty variant: the newest replay start.
NewestReplayOffset == {o \in {replay[s] : s \in DOMAIN replay} :
                          \A s \in DOMAIN replay : o >= replay[s]}

\* getSafeReplayOffset: the oldest replay start, as a set of one offset.
SafeReplayOffset == {o \in {replay[s] : s \in DOMAIN replay} :
                        \A s \in DOMAIN replay : o <= replay[s]}

-----------------------------------------------------------------------------
Init ==
    /\ log = <<>>
    /\ committed = 1        \* no offset yet, and fromBeginning: true
    /\ db = EmptyMap
    /\ late = {}
    /\ published = {}
    /\ life = "down"
    /\ pc = "idle"
    /\ pos = 1
    /\ current = EmptyMap
    /\ replay = EmptyMap
    /\ completed = Null
    /\ faults = 0
    /\ rebalances = 0

\* Some producer appends a record.
Append1(r) ==
    /\ Len(log) < MaxLog
    /\ log' = Append(log, r)
    /\ UNCHANGED <<committed, db, late, published, life, memory, faults, rebalances>>

\* Faulty variant: the consumer ignores the group's offset.
StartFromBeginning ==
    /\ life = "down"
    /\ life' = "up"
    /\ pos' = 1
    /\ UNCHANGED <<external, pc, current, replay, completed, faults, rebalances>>

\* startCandleProcessor: fresh CandleMakers, and the consumer group resumes at
\* the committed offset.
Start ==
    /\ life = "down"
    /\ life' = "up"
    /\ pos' = committed
    /\ UNCHANGED <<external, pc, current, replay, completed, faults, rebalances>>

\* The end of the process: the memory is gone.
Exit ==
    /\ life' = "down"
    /\ pc' = "idle"
    /\ pos' = 1
    /\ current' = EmptyMap
    /\ replay' = EmptyMap
    /\ completed' = Null

\* The message in hand, if the partition has one and the consumer still runs.
HasMessage == life = "up" /\ pc = "idle" /\ pos <= Len(log)

\* The record parses, and its symbol is one the processor was configured with.
Processable(r) == r # Malformed /\ r.symbol \in Symbols

\* parseRawMarketTick throws, or process() meets an unconfigured symbol: the
\* runtime calls onFatalError, which is process.exit(1).
RejectRecord ==
    /\ HasMessage
    /\ ~Processable(log[pos])
    /\ Exit
    /\ UNCHANGED <<external, faults, rebalances>>

\* The replay start of a symbol is set once, by the first tick of the symbol.
NoteReplayStart(s) == IF s \in DOMAIN replay THEN replay ELSE Put(replay, s, pos)

\* A tick that completes nothing: no write and no checkpoint.
BuildCandle ==
    /\ HasMessage
    /\ Processable(log[pos])
    /\ ~Closes(log[pos])
    /\ replay' = NoteReplayStart(log[pos].symbol)
    /\ current' = Put(current, log[pos].symbol,
                      IF SameMinute(log[pos])
                      THEN ExtendCandle(current[log[pos].symbol], log[pos])
                      ELSE OpenCandle(log[pos]))
    /\ pos' = pos + 1
    /\ UNCHANGED <<external, life, pc, completed, faults, rebalances>>

\* Faulty variant: the candle is announced before it is inserted.
AnnounceFirst ==
    /\ HasMessage
    /\ Processable(log[pos])
    /\ Closes(log[pos])
    /\ completed' = current[log[pos].symbol]
    /\ current' = Put(current, log[pos].symbol, OpenCandle(log[pos]))
    /\ pc' = "publishing"
    /\ UNCHANGED <<external, life, pos, replay, faults, rebalances>>

\* A tick of another minute: the maker already holds the new candle while the
\* completed one is being inserted.
CompleteCandle ==
    /\ HasMessage
    /\ Processable(log[pos])
    /\ Closes(log[pos])
    /\ completed' = current[log[pos].symbol]
    /\ current' = Put(current, log[pos].symbol, OpenCandle(log[pos]))
    /\ pc' = "saving"
    /\ UNCHANGED <<external, life, pos, replay, faults, rebalances>>

\* bulkSave1mCandles resolves; the boundary tick becomes the replay start.
SaveSucceeds ==
    /\ pc = "saving"
    /\ db' = BulkSave(db, completed)
    /\ replay' = Put(replay, completed.symbol, pos)
    /\ pc' = "committing"
    /\ UNCHANGED <<log, committed, late, published, life, pos, current, completed,
                   faults, rebalances>>

\* bulkSave1mCandles rejects, or the process dies while it waits; the insert may
\* have been sent, and then the database may run it at any later time.
SaveFails ==
    /\ pc = "saving"
    /\ faults < MaxFaults
    /\ faults' = faults + 1
    /\ late' \in {late, late \cup {completed}}
    /\ Exit
    /\ UNCHANGED <<log, committed, db, published, rebalances>>

\* The database runs the insert of a process that is gone.
LateSave(c) ==
    /\ c \in late
    /\ db' = BulkSave(db, c)
    /\ late' = late \ {c}
    /\ UNCHANGED <<log, committed, published, life, memory, faults, rebalances>>

CommitSucceeds ==
    /\ pc = "committing"
    /\ committed' \in SafeReplayOffset
    /\ pc' = "publishing"
    /\ UNCHANGED <<log, db, late, published, life, pos, current, replay, completed,
                   faults, rebalances>>

\* commitOffsets rejects, or the process dies while it waits: the broker may
\* have taken the offset.
CommitFails ==
    /\ pc = "committing"
    /\ faults < MaxFaults
    /\ faults' = faults + 1
    /\ committed' \in {committed} \cup SafeReplayOffset
    /\ Exit
    /\ UNCHANGED <<log, db, late, published, rebalances>>

\* publishCompletedCandleSafely: a Redis error is swallowed.  The handler
\* returns and the consumer moves on.
PublishCompleted ==
    /\ pc = "publishing"
    /\ published' \in {published, published \cup {completed}}
    /\ pc' = "idle"
    /\ pos' = pos + 1
    /\ completed' = Null
    /\ UNCHANGED <<log, committed, db, late, life, current, replay, faults, rebalances>>

\* The process is killed between two awaits of the handler.
Crash ==
    /\ life # "down"
    /\ pc \in {"idle", "publishing"}
    /\ faults < MaxFaults
    /\ faults' = faults + 1
    /\ published' \in {published} \cup {published \cup {c} : c \in {completed} \ {Null}}
    /\ Exit
    /\ UNCHANGED <<log, committed, db, late, rebalances>>

\* SIGTERM: the consumer is told to stop; a handler that runs may go on.
BeginShutdown ==
    /\ life = "up"
    /\ faults < MaxFaults
    /\ faults' = faults + 1
    /\ life' = "stopping"
    /\ UNCHANGED <<external, memory, rebalances>>

\* The shutdown sequence ends in process.exit; the consumer and the database
\* client were disconnected, under a handler that still waited as well.
FinishShutdown ==
    /\ life = "stopping"
    /\ late' \in {late} \cup (IF pc = "saving" THEN {late \cup {completed}} ELSE {})
    /\ committed' \in {committed} \cup (IF pc = "committing" THEN SafeReplayOffset ELSE {})
    /\ Exit
    /\ UNCHANGED <<log, db, published, faults, rebalances>>

\* The consumer group takes the partition away and gives it back: the consumer
\* resumes at the committed offset, in a process whose CandleMakers and replay
\* starts are untouched, since nothing listens to rebalance events.
Rebalance ==
    /\ life = "up"
    /\ pc = "idle"
    /\ rebalances < MaxRebalances
    /\ rebalances' = rebalances + 1
    /\ pos' = committed
    /\ UNCHANGED <<external, life, pc, current, replay, completed, faults>>

Producer == \E r \in Tick \cup {Malformed} : Append1(r)

Handler == \/ BuildCandle \/ CompleteCandle \/ SaveSucceeds \/ CommitSucceeds
           \/ PublishCompleted

Faults == \/ RejectRecord \/ SaveFails \/ CommitFails \/ Crash
          \/ BeginShutdown \/ FinishShutdown
          \/ \E c \in late : LateSave(c)

Next == Producer \/ Start \/ Handler \/ Faults

\* The event loop runs a ready handler, the database and the broker answer, and
\* docker-compose restarts the process (restart: unless-stopped).
Fairness == WF_vars(Start) /\ WF_vars(Handler) /\ WF_vars(FinishShutdown)
            /\ WF_vars(RejectRecord)

Spec == Init /\ [][Next]_vars /\ Fairness

SpecWithRebalance == Init /\ [][Next \/ Rebalance]_vars /\ Fairness

-----------------------------------------------------------------------------
(* Properties *)

\* Whatever was killed, failed, retried or replayed, a row of candle_1m is the
\* exact open, high, low and close of the log's ticks for its symbol and minute
\* (of its first stay in that minute, should the provider go back in time).  A
\* replay that starts in the middle of a minute must never win the insert.
StoredCandleComplete ==
    \A k \in DOMAIN db : Key(db[k]) = k /\ IsComplete(log, db[k])

\* The tick at offset o has its candle in the database.
StoredAt(o) == <<log[o].symbol, Minute(log, o)>> \in DOMAIN db

\* The commit never passes a tick whose candle is not in the database: what a
\* restart skips is stored.  No malformed or unconfigured record is skipped.
CommittedTicksStored ==
    \A o \in 1..(committed - 1) : o \in DOMAIN log /\ Processable(log[o]) /\ StoredAt(o)

\* A client hears of a completed candle only once the database holds a row for
\* that minute (save, then commit, then publish).
PublishedAfterSave == \A c \in published : Key(c) \in DOMAIN db

\* The group's offset never moves back, whichever process instance commits.
CommitNeverRegresses == [][committed' >= committed]_vars

\* Offset b closes a stay of symbol s in minute m, and everything up to it can
\* be processed.
ClosedAt(s, m, b) ==
    /\ \A o \in 1..b : Processable(log[o])
    /\ IsTickOf(log, b, s) /\ Minute(log, b) # m
    /\ \E a \in Run(log, s, 1, b) : Minute(log, a) = m

\* A minute that a later tick of its symbol closed, with nothing malformed or
\* unconfigured before it, reaches the database however the process fails.
ClosedMinuteEventuallyStored ==
    \A s \in Symbols, m \in StartTimes :
        (\E b \in DOMAIN log : ClosedAt(s, m, b)) ~> (<<s, m>> \in DOMAIN db)

\* The contract of candle_1m, with the processor's database as the table.
Table == INSTANCE CandleTable WITH table <- db

\* The processor, with all its kills, replays, retries and late inserts, implements
\* the contract: a row appears once, complete, and is never replaced or removed.
ImplementsCandleTable == Table!Spec

=============================================================================
