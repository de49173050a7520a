-------------------------- MODULE CandleIngestion --------------------------
(* Ingestion of daily candles: the pipeline that validates, cleans and       *)
(* aggregates a response (app/pipeline/candles.py), and the transaction that *)
(* stores it (services/ingestion.py, repositories/sqlalchemy.py).  The       *)
(* scheduler's job for a symbol and administrators' requests overlap.  The   *)
(* database is PostgreSQL at READ COMMITTED: a row that is written stays     *)
(* locked until its transaction ends; SQLAlchemy updates only the columns    *)
(* that differ from those it loaded.  All candles are of one symbol; days    *)
(* count from a Monday.                                                      *)
EXTENDS Integers, SequencesExt

CONSTANTS
  Ingestors,
  Candles,       \* what a provider may report: [day, open, high, low, close, volume, basis]
  Earlier,       \* responses of which an earlier run may have stored one
  Basis,         \* expected_basis of the provider's policy
  MaxLength,     \* bound: candles of a response
  MaxResponses   \* bound: responses

CONSTANT NoRow    \* no row under a key

\* The columns of a stored candle; an update may take them from several candles.
CandleRow ==
  [day : Nat, open : Int, high : Int, low : Int, close : Int, volume : Int,
   basis : {c.basis : c \in Candles}]
StockInfo == [metadata |-> "stock"]

IngestionAssumption ==
  /\ Candles \subseteq CandleRow /\ NoRow \notin CandleRow \cup {StockInfo}
  /\ MaxLength \in Nat /\ MaxResponses \in Nat
  /\ Earlier \subseteq SeqOf(Candles, MaxLength)
  /\ \A batch \in Earlier : \A i, j \in DOMAIN batch : batch[i].day = batch[j].day => i = j

VARIABLES
  rows,        \* what is committed of tables stocks and stock_candles
  logs,        \* how many rows table data_quality_logs has
  ingestion,   \* each ingestor: where it is, its response and what it has still to save
  loaded,      \* its session: the rows it has read, as it knows them
  written,     \* its transaction: the rows it has written, and holds the locks of
  responses,   \* how many responses there were
  committed,   \* history: the responses whose transaction is committed, in that order
  overtaken    \* history: the keys of rows updated by a session that had read them as they were
               \* before another transaction

session == <<ingestion, loaded, written>>
ingestionVars == <<rows, logs, session, responses, committed, overtaken>>

-----------------------------------------------------------------------------
(* The pipeline                                                              *)

ValidOHLCV(c) ==
  /\ c.low <= c.open /\ c.low <= c.close
  /\ c.high >= c.open /\ c.high >= c.close
  /\ c.volume >= 0

Days(batch) == {batch[i].day : i \in DOMAIN batch}
Bases(batch) == {batch[i].basis : i \in DOMAIN batch}

\* validate_candles: the errors, each with the candle it is about (0 for the batch)
Errors(batch) ==
  LET about(rule, Wrong(_)) == {[rule |-> rule, at |-> i] : i \in {j \in DOMAIN batch : Wrong(j)}}
      Repeats(i) == \E j \in 1 .. (i - 1) : batch[j].day = batch[i].day
      BadPrices(i) == ~ValidOHLCV([batch[i] EXCEPT !.volume = 0])
      Negative(i) == batch[i].volume < 0
      Disordered(i) == i > 1 /\ batch[i].day <= batch[i - 1].day
  IN {[rule |-> "mixed_price_basis", at |-> 0] : k \in {Cardinality(Bases(batch))} \ {0, 1}}
     \cup about("duplicate_timestamp", Repeats) \cup about("invalid_ohlc", BadPrices)
     \cup about("negative_volume", Negative) \cup about("out_of_order", Disordered)

\* _detect_suspicious_daily_gaps: the days after at least five business days without a candle
BusinessDaysBetween(a, b) == Cardinality({d \in (a + 1) .. (b - 1) : d % 7 < 5})
Gaps(batch) ==
  {b \in Days(batch) : \E a \in Days(batch) :
     /\ a < b /\ ~\E c \in Days(batch) : a < c /\ c < b
     /\ BusinessDaysBetween(a, b) >= 5}

LogCount(batch) == Cardinality(Errors(batch)) + Cardinality(Gaps(batch))

\* What sorting makes of a set of numbers
Sorted(numbers) ==
  CHOOSE q \in SetToSeqs(numbers) : \A i, j \in DOMAIN q : i < j => q[i] < q[j]

\* clean_candles: in the order of days, the first valid candle of each
FirstValid(batch, day) == batch[Min({i \in DOMAIN batch : batch[i].day = day /\ ValidOHLCV(batch[i])})]

\* Mutant: a day counts as seen with its first candle, valid or not.
CleanFirstsOnly(batch) ==
  LET First(i) == \A j \in 1 .. (i - 1) : batch[j].day # batch[i].day
      days == {batch[i].day : i \in {j \in DOMAIN batch : First(j) /\ ValidOHLCV(batch[j])}}
      order == Sorted(days)
  IN [k \in DOMAIN order |-> FirstValid(batch, order[k])]

Clean(batch) ==
  LET days == {batch[i].day : i \in {j \in DOMAIN batch : ValidOHLCV(batch[j])}}
      order == Sorted(days)
  IN [k \in DOMAIN order |-> FirstValid(batch, order[k])]

\* aggregate_candles: one candle for every week or month that has one
Volume(candles, group) == FoldSet(LAMBDA i, sum : sum + candles[i].volume, 0, group)
Aggregated(candles, group) ==
  LET first == candles[Min(group)]
  IN [day |-> first.day, open |-> first.open, close |-> candles[Max(group)].close,
      high |-> Max({candles[i].high : i \in group}), low |-> Min({candles[i].low : i \in group}),
      volume |-> Volume(candles, group), basis |-> first.basis]
Aggregate(candles, length) ==
  LET Period(i) == candles[i].day \div length
      periods == Sorted({Period(i) : i \in DOMAIN candles})
  IN [k \in DOMAIN periods |->
        Aggregated(candles, {i \in DOMAIN candles : Period(i) = periods[k]})]

\* CandlePipeline.process, before aggregation
Cleaned(batch) == IF Cardinality(Bases(batch)) > 1 THEN <<>> ELSE Clean(batch)

-----------------------------------------------------------------------------
(* The transaction                                                           *)

Stock == [stage |-> "stock", day |-> 0]
StoredKeys == {Stock} \cup [stage : {"raw", "cleaned"}, day : {c.day : c \in Candles}]

Saves(candles, stage) ==
  [i \in DOMAIN candles |-> [key |-> [stage |-> stage, day |-> candles[i].day], row |-> candles[i]]]

\* What SqlAlchemyCandleIngestionRepository.save saves, one after the other
Writes(batch) ==
  <<[key |-> Stock, row |-> StockInfo]>> \o Saves(batch, "raw") \o Saves(Cleaned(batch), "cleaned")

IdleIngestor == [pc |-> "idle", batch |-> <<>>, todo |-> <<>>]
Nothing == [k \in {} |-> NoRow]

\* Some rows with a new one, and with those that a transaction has written
With(found, key, row) == [k \in DOMAIN found \cup {key} |-> IF k = key THEN row ELSE found[k]]
Over(new, old) == [k \in DOMAIN old |-> IF k \in DOMAIN new THEN new[k] ELSE old[k]]

\* What a response saves under a key, among them the row that stays
Saved(batch, key) == {w.row : w \in {v \in ToSet(Writes(batch)) : v.key = key}}

\* The tables after a response without two candles of a day
TablesAfter(batch) ==
  [k \in StoredKeys |->
     IF Saved(batch, k) = {} THEN NoRow ELSE CHOOSE row \in Saved(batch, k) : TRUE]

IngestionInit ==
  /\ \/ rows = [k \in StoredKeys |-> NoRow] /\ logs = 0 /\ committed = <<>>
     \/ \E batch \in Earlier :
          rows = TablesAfter(batch) /\ logs = LogCount(batch) /\ committed = <<batch>>
  /\ ingestion = [i \in Ingestors |-> IdleIngestor]
  /\ loaded = [i \in Ingestors |-> Nothing] /\ written = [i \in Ingestors |-> Nothing]
  /\ responses = 0 /\ overtaken = {}

FetchCandles(i, batch) ==
  /\ ingestion[i].pc = "idle" /\ responses < MaxResponses
  /\ responses' = responses + 1
  /\ ingestion' = [ingestion EXCEPT ![i] = [pc |-> "fetched", batch |-> batch, todo |-> <<>>]]
  /\ UNCHANGED <<rows, logs, loaded, written, committed, overtaken>>

\* BrokerAdapter.candles raises on another basis; so does ingest_daily on another symbol.
Refuse(i) ==
  /\ ingestion[i].pc = "fetched"
  /\ ingestion' = [ingestion EXCEPT ![i] = IdleIngestor]
  /\ UNCHANGED <<rows, logs, loaded, written, responses, committed, overtaken>>

BeginIngestion(i) ==
  /\ ingestion[i].pc = "fetched" /\ Bases(ingestion[i].batch) \subseteq {Basis}
  /\ ingestion' = [ingestion EXCEPT ![i].pc = "select", ![i].todo = Writes(ingestion[i].batch)]
  /\ UNCHANGED <<rows, logs, loaded, written, responses, committed, overtaken>>

\* The lookup of the next row; a session keeps a row as it first read it.
Select(i) ==
  LET key == Head(ingestion[i].todo).key IN
  /\ ingestion[i].pc = "select" /\ ingestion[i].todo # <<>>
  /\ loaded' = [loaded EXCEPT ![i] = IF key \in DOMAIN @ THEN @ ELSE With(@, key, rows[key])]
  /\ ingestion' = [ingestion EXCEPT ![i].pc = "write"]
  /\ UNCHANGED <<rows, logs, written, responses, committed, overtaken>>

Due(i) == Head(ingestion[i].todo)
Known(i) == loaded[i][Due(i).key]
Changed(i) == {c \in DOMAIN Due(i).row : Known(i)[c] # Due(i).row[c]}
NeedsWrite(i) == IF Known(i) = NoRow THEN TRUE ELSE Changed(i) # {}
BlockedBy(i, j) ==
  /\ ingestion[i].pc = "write" /\ NeedsWrite(i)
  /\ i # j /\ Due(i).key \in DOMAIN written[j]

Current(i) == IF Due(i).key \in DOMAIN written[i] THEN written[i][Due(i).key] ELSE rows[Due(i).key]

\* Mutant: what was flushed before a failure stays.
RollbackLeavingRows(i) ==
  /\ ingestion' = [ingestion EXCEPT ![i] = IdleIngestor]
  /\ loaded' = [loaded EXCEPT ![i] = Nothing] /\ written' = [written EXCEPT ![i] = Nothing]
  /\ rows' = Over(written[i], rows)
  /\ UNCHANGED <<logs, overtaken>>

Rollback(i) ==
  /\ ingestion' = [ingestion EXCEPT ![i] = IdleIngestor]
  /\ loaded' = [loaded EXCEPT ![i] = Nothing] /\ written' = [written EXCEPT ![i] = Nothing]
  /\ UNCHANGED <<rows, logs, overtaken>>

\* What a flush makes of the row: the new one, or the current one with the changed columns
Flushed(i) ==
  IF Known(i) = NoRow THEN Due(i).row
  ELSE [c \in DOMAIN Due(i).row |-> IF c \in Changed(i) THEN Due(i).row[c] ELSE Current(i)[c]]

\* The row is no longer what the session read.
Overtakes(i) == NeedsWrite(i) /\ Known(i) \notin {NoRow, Current(i)}

Flush(i) ==
  /\ written' = [written EXCEPT ![i] = IF NeedsWrite(i) THEN With(@, Due(i).key, Flushed(i)) ELSE @]
  /\ loaded' = [loaded EXCEPT ![i][Due(i).key] = Due(i).row]
  /\ ingestion' = [ingestion EXCEPT ![i].pc = "select", ![i].todo = Tail(@)]
  /\ overtaken' = IF Overtakes(i) THEN overtaken \cup {Due(i).key} ELSE overtaken
  /\ UNCHANGED <<rows, logs>>

\* The next lookup flushes the row; an INSERT fails on a row that has come in between.
WriteRow(i) ==
  /\ ingestion[i].pc = "write" /\ ~\E j \in Ingestors : BlockedBy(i, j)
  /\ IF Known(i) = NoRow /\ Current(i) # NoRow THEN Rollback(i) ELSE Flush(i)
  /\ UNCHANGED <<responses, committed>>

Commit(i) ==
  /\ ingestion[i].pc = "select" /\ ingestion[i].todo = <<>>
  /\ rows' = Over(written[i], rows)
  /\ logs' = logs + LogCount(ingestion[i].batch)
  /\ committed' = Append(committed, ingestion[i].batch)
  /\ ingestion' = [ingestion EXCEPT ![i] = IdleIngestor]
  /\ loaded' = [loaded EXCEPT ![i] = Nothing] /\ written' = [written EXCEPT ![i] = Nothing]
  /\ UNCHANGED <<responses, overtaken>>

\* The connection is lost, or the database breaks a deadlock.
LoseTransaction(i) ==
  /\ ingestion[i].pc \in {"select", "write"}
  /\ Rollback(i)
  /\ UNCHANGED <<responses, committed>>

Responses == SeqOf(Candles, MaxLength)

\* An ingestor runs one ingestion at a time: the scheduler's job of a symbol (max_instances=1),
\* or a request of an administrator beside it.
Ingest(i) ==
  \/ \E batch \in Responses : FetchCandles(i, batch)
  \/ Refuse(i) \/ BeginIngestion(i) \/ Select(i) \/ WriteRow(i) \/ Commit(i) \/ LoseTransaction(i)

IngestionNext == \E i \in Ingestors : Ingest(i)

IngestionSpec == IngestionInit /\ [][IngestionNext]_ingestionVars

-----------------------------------------------------------------------------
IngestionTypeOK ==
  /\ DOMAIN rows = StoredKeys /\ \A k \in StoredKeys \ {Stock} : rows[k] = NoRow \/ rows[k].day = k.day
  /\ logs \in Nat /\ responses \in 0 .. MaxResponses
  /\ ingestion \in [Ingestors -> [pc : {"idle", "fetched", "select", "write"}, batch : Responses,
                                  todo : Seq([key : StoredKeys, row : Candles \cup {StockInfo}])]]
  /\ \A i \in Ingestors : DOMAIN written[i] \subseteq DOMAIN loaded[i] /\ DOMAIN loaded[i] \subseteq StoredKeys
  /\ \A i, j \in Ingestors : i # j => DOMAIN written[i] \cap DOMAIN written[j] = {}

\* How many logs some responses leave
LogsOf(batches) == FoldSeq(LAMBDA batch, sum : sum + LogCount(batch), 0, batches)

\* An ingestion leaves all its rows and logs or none, however ingestions overlap and fail: of a
\* committed response every row is there and every log, and a session that fails leaves nothing
\* (docs/architecture/database.md:58-61). Every stored candle is, as a whole, one that a committed
\* response saves there, unless a session has updated the row after another had changed what it
\* read: of such a row, of which only the columns that differ are written, each column on its own
\* comes from a committed response.
OnlyWholeBatches ==
  /\ logs = LogsOf(committed)
  /\ \A n \in DOMAIN committed : \A w \in ToSet(Writes(committed[n])) : rows[w.key] # NoRow
  /\ \A k \in StoredKeys \ {Stock} : rows[k] # NoRow =>
       /\ k \notin overtaken => \E n \in DOMAIN committed : rows[k] \in Saved(committed[n], k)
       /\ \A c \in DOMAIN rows[k] : \E n \in DOMAIN committed :
            \E row \in Saved(committed[n], k) : row[c] = rows[k][c]

\* Cleaning never changes the source without a log that says so, and keeps every day that can
\* be kept: without an error the cleaned candles are the raw ones, with one they are not; unless
\* price bases are mixed every day with a valid candle keeps one, an invalid twin before it or
\* not, and what is kept was reported so; weeks and months made of it are valid candles again and
\* lose no volume and no extreme (pipeline/candles.py:81-184).
CleaningIsExplained ==
  \A i \in Ingestors : ingestion[i].pc = "fetched" =>
    LET batch == ingestion[i].batch
        cleaned == Cleaned(batch)
    IN /\ (Errors(batch) = {}) <=> (cleaned = batch)
       /\ \A k \in DOMAIN cleaned : k > 1 => cleaned[k - 1].day < cleaned[k].day
       /\ \A k \in DOMAIN cleaned : \E n \in DOMAIN batch : cleaned[k] = batch[n]
       /\ Cardinality(Bases(batch)) <= 1 =>
            \A n \in DOMAIN batch : ValidOHLCV(batch[n]) =>
              \E k \in DOMAIN cleaned : cleaned[k].day = batch[n].day
       /\ \A length \in {7, 28} : LET coarse == Aggregate(cleaned, length) IN
            /\ \A k \in DOMAIN coarse : ValidOHLCV(coarse[k])
            /\ \A n \in DOMAIN cleaned : \E k \in DOMAIN coarse :
                 /\ coarse[k].day <= cleaned[n].day /\ cleaned[n].day < coarse[k].day + length
                 /\ coarse[k].low <= cleaned[n].low /\ cleaned[n].high <= coarse[k].high
            /\ Len(coarse) > 0 => Last(coarse).close = Last(cleaned).close
            /\ Volume(coarse, DOMAIN coarse) = Volume(cleaned, DOMAIN cleaned)
=============================================================================
