-------------------------- MODULE TelemetryStorage --------------------------
(***************************************************************************)
(* The storage layer (internal/storage) with the goroutines that feed it   *)
(* (internal/uplink) and the wrapper that stops it (internal/app).         *)
(*                                                                         *)
(* One goroutine per uplink builds messages and sends them on a bounded    *)
(* channel.  The main loop of the storage receives them: attributes and    *)
(* events are written at once, telemetry goes into a buffer.  The buffer   *)
(* is flushed by the main loop when it is full and by a ticker goroutine,  *)
(* so two batches can be on their way to the database at the same time.    *)
(*                                                                         *)
(* A series is a "device_id|key".  The value of a point is the id of the   *)
(* message that carried it.                                                *)
(***************************************************************************)
EXTENDS Naturals, Sequences, FiniteSets

CONSTANTS
    DataTypes,    \* the data types in use, out of AllTypes
    Series,       \* the device_id|key pairs
    MsgPoints,    \* the sets of series one message may carry values for
    ChanCap,      \* Config.ChannelBufferSize
    BatchSize,    \* Config.TelemetryBatchSize
    TickerOn,     \* TelemetryFlushInterval > 0
    MayStop,      \* Application.Shutdown may be called
    MaxMsgs,      \* bound: messages the uplinks build
    MaxDbErrors   \* bound: database statements that fail

AllTypes == {"telemetry", "attribute", "event"}

ASSUME StorageAssumption ==
    /\ DataTypes \subseteq AllTypes
    /\ MsgPoints \subseteq SUBSET Series
    /\ ChanCap \in Nat \ {0}
    /\ BatchSize \in Nat \ {0}
    /\ TickerOn \in BOOLEAN
    /\ MayStop \in BOOLEAN
    /\ MaxMsgs \in Nat
    /\ MaxDbErrors \in Nat

VARIABLES
    clock,        \* time.Now().UnixMilli()
    sent,         \* how many messages the uplinks have built
    held,         \* held[t]: the message uplink t is about to send, or <<>>
    exited,       \* the uplinks whose goroutine has returned
    inputChan,    \* the storage input channel
    buffer,       \* telemetryWriter.buffer
    pc,           \* where the main loop and the ticker goroutine are
    final,        \* the ticker goroutine is in flushRemaining
    pending,      \* pending[f]: history rows flusher f has not dealt with yet
    latest,       \* latest[f]: current rows flusher f has not dealt with yet
    history,      \* table telemetry_datas
    current,      \* table telemetry_current_datas
    attributes,   \* table attribute_datas
    events,       \* table event_datas, by message id
    failed,       \* rows reported by RecordStorageFailed
    accepted,     \* <<series, ts>> of every telemetry point ever buffered
    dbErrors,     \* database errors so far
    stopPc,       \* progress of StorageServiceWrapper.Stop
    timedOut,     \* a wait of Stop ended by its timeout
    panic         \* why the process died, or "none"

env     == <<clock, sent, held, exited, inputChan>>
flush   == <<buffer, pc, final, pending, latest>>
tables  == <<history, current, attributes, events, failed>>
stop    == <<stopPc, timedOut>>
vars    == <<env, flush, tables, accepted, dbErrors, stop, panic>>

Flushers == {"main", "ticker"}
Message  == [id: Nat, type: DataTypes, ts: Nat, points: SUBSET Series]
Row      == [series: Series, ts: Nat, val: Nat]
PointKey == Series \X Nat

-----------------------------------------------------------------------------
(* The rows a batch turns into: deduplicateAndConvert.                     *)

Points(m)  == {[series |-> s, ts |-> m.ts, val |-> m.id] : s \in m.points}
BatchPoints(batch) == UNION {Points(batch[i]) : i \in DOMAIN batch}

SameKey(r, q) == r.series = q.series /\ r.ts = q.ts
Key(r)        == <<r.series, r.ts>>
Keys(rows)    == {Key(r) : r \in rows}

(* Mutant: the batch is deduplicated by device and key alone.              *)
HistoryRowsBySeries(batch) ==
    {r \in BatchPoints(batch) :
        \A q \in BatchPoints(batch) : r.series = q.series => r.val <= q.val}

(* The first point of the batch with its device, key and timestamp.        *)
HistoryRows(batch) ==
    {r \in BatchPoints(batch) :
        \A q \in BatchPoints(batch) : SameKey(r, q) => r.val <= q.val}

(* Of those, the one with the latest timestamp of its device and key.      *)
CurrentRows(batch) ==
    {r \in HistoryRows(batch) :
        \A q \in HistoryRows(batch) : q.series = r.series => q.ts <= r.ts}

(* Mutant: the conflict columns lack the timestamp.                        *)
InsertIgnoreSeries(table, rows) ==
    table \cup {r \in rows : \A q \in table : r.series # q.series}

(* Mutant: DO UPDATE in place of DO NOTHING.                               *)
InsertReplace(table, rows) ==
    {q \in table : \A r \in rows : ~SameKey(r, q)} \cup rows

(* ON CONFLICT (device_id, key, ts) DO NOTHING.                            *)
InsertIgnore(table, rows) ==
    table \cup {r \in rows : \A q \in table : ~SameKey(r, q)}

(* ON CONFLICT (device_id, key) DO UPDATE.                                 *)
Upsert(table, rows) ==
    {q \in table : \A r \in rows : r.series # q.series} \cup rows

-----------------------------------------------------------------------------
(* Shutdown: what has been closed or cancelled so far.                     *)

InputClosed  == stopPc \notin {"running", "uplinksStopped"}
CtxCancelled == stopPc \notin {"running", "uplinksStopped", "inputClosed"}
LoopStop     == stopPc \in {"waitMain", "waitWriter", "stopped"}
WriterStop   == stopPc \in {"waitWriter", "stopped"}

Init ==
    /\ clock = 0
    /\ sent = 0
    /\ held = [t \in DataTypes |-> <<>>]
    /\ exited = {}
    /\ inputChan = <<>>
    /\ buffer = <<>>
    /\ pc = [f \in Flushers |-> IF f = "ticker" /\ ~TickerOn THEN "off" ELSE "select"]
    /\ final = FALSE
    /\ pending = [f \in Flushers |-> {}]
    /\ latest = [f \in Flushers |-> {}]
    /\ history = {} /\ current = {} /\ attributes = {} /\ events = {} /\ failed = {}
    /\ accepted = {}
    /\ dbErrors = 0
    /\ stopPc = "running"
    /\ timedOut = FALSE
    /\ panic = "none"

-----------------------------------------------------------------------------
(* The uplinks.  Each is one goroutine: it stamps a message with the wall  *)
(* clock, then blocks until the channel takes it.                          *)

UplinkBuild(t) ==
    /\ t \notin exited
    /\ held[t] = <<>>
    /\ sent < MaxMsgs
    /\ \E tick \in {0, 1}, P \in IF t = "event" THEN {{}} ELSE MsgPoints :
          /\ clock' = clock + tick
          /\ held' = [held EXCEPT ![t] =
                        <<[id |-> sent + 1, type |-> t, ts |-> clock + tick, points |-> P]>>]
    /\ sent' = sent + 1
    /\ UNCHANGED <<exited, inputChan, flush, tables, accepted, dbErrors, stop, panic>>

(* Mutant: a message overtakes those already in the channel.               *)
UplinkOvertake(t) ==
    /\ held[t] # <<>>
    /\ ~InputClosed
    /\ Len(inputChan) < ChanCap
    /\ inputChan' = held[t] \o inputChan
    /\ held' = [held EXCEPT ![t] = <<>>]
    /\ UNCHANGED <<clock, sent, exited, flush, tables, accepted, dbErrors, stop, panic>>

UplinkSend(t) ==
    /\ held[t] # <<>>
    /\ ~InputClosed
    /\ Len(inputChan) < ChanCap
    /\ inputChan' = Append(inputChan, Head(held[t]))
    /\ held' = [held EXCEPT ![t] = <<>>]
    /\ UNCHANGED <<clock, sent, exited, flush, tables, accepted, dbErrors, stop, panic>>

(* Go: a send on a closed channel panics, also one that is blocked already. *)
UplinkSendClosed(t) ==
    /\ held[t] # <<>>
    /\ InputClosed
    /\ panic' = "send on closed channel"
    /\ UNCHANGED <<env, flush, tables, accepted, dbErrors, stop>>

(* Nothing waits for this: the select may take further messages first.     *)
UplinkExit(t) ==
    /\ stopPc # "running"
    /\ t \notin exited
    /\ held[t] = <<>>
    /\ exited' = exited \cup {t}
    /\ UNCHANGED <<clock, sent, held, inputChan, flush, tables, accepted, dbErrors, stop, panic>>

-----------------------------------------------------------------------------
(* The main loop of the storage.                                           *)

ShouldFlush(n) == n >= BatchSize

ReceiveTelemetry(m) ==
    /\ m.type = "telemetry"
    /\ buffer' = Append(buffer, m)
    /\ accepted' = accepted \cup Keys(Points(m))
    /\ pc' = [pc EXCEPT !["main"] = IF ShouldFlush(Len(buffer) + 1) THEN "flush" ELSE "select"]
    /\ UNCHANGED <<final, pending, latest, tables, dbErrors>>

(* One statement per point; a failed one is logged and counted only.       *)
ReceiveAttribute(m) ==
    /\ m.type = "attribute"
    /\ \E bad \in SUBSET Points(m) :
          /\ dbErrors + Cardinality(bad) \in 0..MaxDbErrors
          /\ dbErrors' = dbErrors + Cardinality(bad)
          /\ attributes' = Upsert(attributes, Points(m) \ bad)
    /\ UNCHANGED <<flush, history, current, events, failed, accepted>>

ReceiveEvent(m) ==
    /\ m.type = "event"
    /\ \/ events' = events \cup {m.id} /\ UNCHANGED dbErrors
       \/ dbErrors < MaxDbErrors /\ dbErrors' = dbErrors + 1 /\ UNCHANGED events
    /\ UNCHANGED <<flush, history, current, attributes, failed, accepted>>

MainReceive ==
    /\ pc["main"] = "select"
    /\ inputChan # <<>>
    /\ inputChan' = Tail(inputChan)
    /\ \/ ReceiveTelemetry(Head(inputChan))
       \/ ReceiveAttribute(Head(inputChan))
       \/ ReceiveEvent(Head(inputChan))
    /\ UNCHANGED <<clock, sent, held, exited, stop, panic>>

(* Go's select picks any ready case, so the loop may leave messages behind. *)
MainExit ==
    /\ pc["main"] = "select"
    /\ CtxCancelled \/ LoopStop \/ (InputClosed /\ inputChan = <<>>)
    /\ pc' = [pc EXCEPT !["main"] = "done"]
    /\ UNCHANGED <<env, buffer, final, pending, latest, tables, accepted, dbErrors, stop, panic>>

-----------------------------------------------------------------------------
(* Flushing.                                                               *)

(* Mutant: after a batch both flushers go round for another flush.         *)
FlushAgain(f) == IF f = "ticker" /\ final THEN "done" ELSE "flush"

(* Where a flusher goes on when its batch is dealt with.                   *)
Resume(f) == IF f = "ticker" /\ final THEN "done" ELSE "select"

(* Mutant: the buffer keeps what was taken.                                *)
KeepBuffer(batch) == batch

NewBuffer(batch) == <<>>

(* Swap the buffer under its lock and convert the batch.                   *)
TakeBatch(f, idle) ==
    LET rows == HistoryRows(buffer) IN
    /\ buffer' = NewBuffer(buffer)
    /\ pending' = [pending EXCEPT ![f] = rows]
    /\ latest' = [latest EXCEPT ![f] = CurrentRows(buffer)]
    /\ pc' = [pc EXCEPT ![f] = IF rows = {} THEN idle ELSE "insert"]
    /\ UNCHANGED <<env, tables, accepted, dbErrors, stop, panic>>

MainFlush ==
    /\ pc["main"] = "flush"
    /\ TakeBatch("main", "select")
    /\ UNCHANGED final

(* Mutant: the ticker takes full batches only.                             *)
TickerFlushFull ==
    /\ pc["ticker"] = "select"
    /\ Len(buffer) >= BatchSize
    /\ TakeBatch("ticker", "select")
    /\ UNCHANGED final

TickerFlush ==
    /\ pc["ticker"] = "select"
    /\ buffer # <<>>
    /\ TakeBatch("ticker", "select")
    /\ UNCHANGED final

FlushRemaining ==
    /\ pc["ticker"] = "select"
    /\ WriterStop
    /\ final' = TRUE
    /\ TakeBatch("ticker", "done")

(* The context is cancelled: the goroutine returns as it is.               *)
TickerCancel ==
    /\ pc["ticker"] = "select"
    /\ CtxCancelled
    /\ pc' = [pc EXCEPT !["ticker"] = "done"]
    /\ UNCHANGED <<env, buffer, final, pending, latest, tables, accepted, dbErrors, stop, panic>>

(* batchInsert: both tables in one transaction.                            *)
BatchCommit(f) ==
    /\ pc[f] = "insert"
    /\ history' = InsertIgnore(history, pending[f])
    /\ current' = Upsert(current, latest[f])
    /\ pending' = [pending EXCEPT ![f] = {}]
    /\ latest' = [latest EXCEPT ![f] = {}]
    /\ pc' = [pc EXCEPT ![f] = Resume(f)]
    /\ UNCHANGED <<env, buffer, final, attributes, events, failed, accepted, dbErrors, stop, panic>>

BatchError(f) ==
    /\ pc[f] = "insert"
    /\ dbErrors < MaxDbErrors
    /\ dbErrors' = dbErrors + 1
    /\ pc' = [pc EXCEPT ![f] = "fallback"]
    /\ UNCHANGED <<env, buffer, final, pending, latest, tables, accepted, stop, panic>>

(* fallbackInsert writes historyData[i] together with currentData[i]; the  *)
(* history is in batch order, the current rows in the order of a Go map.   *)
NextRow(f) == {h \in pending[f] : \A q \in pending[f] : h.val <= q.val}

FallbackRow(f, h, c) ==
    /\ pc[f] = "fallback"
    /\ history' = InsertIgnore(history, {h})
    /\ current' = Upsert(current, {c})
    /\ pending' = [pending EXCEPT ![f] = @ \ {h}]
    /\ latest' = [latest EXCEPT ![f] = @ \ {c}]
    /\ UNCHANGED <<env, buffer, pc, final, attributes, events, failed, accepted, dbErrors, stop, panic>>

(* The row is reported, and the index moves on in both slices; the history *)
(* statement comes first, so it can fail where currentData[i] is no more.  *)
FallbackError(f, h) ==
    /\ pc[f] = "fallback"
    /\ dbErrors < MaxDbErrors
    /\ dbErrors' = dbErrors + 1
    /\ failed' = failed \cup {h}
    /\ pending' = [pending EXCEPT ![f] = @ \ {h}]
    /\ \/ \E c \in latest[f] : latest' = [latest EXCEPT ![f] = @ \ {c}]
       \/ latest[f] = {} /\ UNCHANGED latest
    /\ UNCHANGED <<env, buffer, pc, final, history, current, attributes, events, accepted, stop, panic>>

FallbackDone(f) ==
    /\ pc[f] = "fallback"
    /\ pending[f] = {}
    /\ latest' = [latest EXCEPT ![f] = {}]
    /\ pc' = [pc EXCEPT ![f] = Resume(f)]
    /\ UNCHANGED <<env, buffer, final, pending, tables, accepted, dbErrors, stop, panic>>

(* currentData[i] with i >= len(currentData).                              *)
FallbackPanic(f) ==
    /\ pc[f] = "fallback"
    /\ pending[f] # {}
    /\ latest[f] = {}
    /\ panic' = "index out of range"
    /\ UNCHANGED <<env, flush, tables, accepted, dbErrors, stop>>

Flush(f) ==
    \/ BatchCommit(f)
    \/ BatchError(f)
    \/ \E h \in NextRow(f) :
          \/ \E c \in latest[f] : FallbackRow(f, h, c)
          \/ FallbackError(f, h)
    \/ FallbackDone(f)
    \/ FallbackPanic(f)

-----------------------------------------------------------------------------
(* StorageServiceWrapper.Stop and storage.Stop, after UplinkManager.Stop.  *)

StopStep(from, to) ==
    /\ stopPc = from
    /\ stopPc' = to
    /\ UNCHANGED <<env, flush, tables, accepted, dbErrors, panic>>

StopUplinks == MayStop /\ StopStep("running", "uplinksStopped") /\ UNCHANGED timedOut
CloseInput  == StopStep("uplinksStopped", "inputClosed") /\ UNCHANGED timedOut
CancelCtx   == StopStep("inputClosed", "ctxCancelled") /\ UNCHANGED timedOut
CloseStopCh == StopStep("ctxCancelled", "waitMain") /\ UNCHANGED timedOut

WaitMain ==
    /\ StopStep("waitMain", "waitWriter")
    /\ timedOut' = (timedOut \/ pc["main"] # "done")

(* Mutant: does not wait at all.                                           *)
WaitWriterNot == StopStep("waitWriter", "stopped") /\ UNCHANGED timedOut

WaitWriter ==
    /\ StopStep("waitWriter", "stopped")
    /\ timedOut' = (timedOut \/ pc["ticker"] # "done")

Stop == StopUplinks \/ CloseInput \/ CancelCtx \/ CloseStopCh \/ WaitMain \/ WaitWriter

Uplink(t) == UplinkBuild(t) \/ UplinkSend(t) \/ UplinkSendClosed(t) \/ UplinkExit(t)
Main      == MainReceive \/ MainExit \/ MainFlush \/ Flush("main")
Ticker    == TickerFlush \/ FlushRemaining \/ TickerCancel \/ Flush("ticker")

(* A panic in any goroutine ends the process: no goroutine recovers.       *)
Next ==
    /\ panic = "none"
    /\ \/ \E t \in DataTypes : Uplink(t)
       \/ Main
       \/ Ticker
       \/ Stop

Spec == Init /\ [][Next]_vars

(* The goroutines of the storage and a call of Stop keep running.          *)
FairSpec ==
    /\ Spec
    /\ WF_vars(panic = "none" /\ Main)
    /\ WF_vars(panic = "none" /\ Ticker)
    /\ WF_vars(panic = "none" /\ Stop /\ stopPc # "running")

-----------------------------------------------------------------------------
(* Properties.                                                             *)

(* Every variable keeps to its type; rows carry message ids and clock      *)
(* values that have been issued.                                           *)
TypeOK ==
    /\ clock \in Nat
    /\ sent \in Nat
    /\ held \in [DataTypes -> Seq(Message)]
    /\ exited \subseteq DataTypes
    /\ inputChan \in Seq(Message)
    /\ buffer \in Seq(Message)
    /\ pc \in [Flushers -> {"off", "select", "flush", "insert", "fallback", "done"}]
    /\ pc["main"] # "off" /\ pc["ticker"] # "flush"
    /\ final \in BOOLEAN
    /\ pending \in [Flushers -> SUBSET Row]
    /\ latest \in [Flushers -> SUBSET Row]
    /\ history \subseteq Row /\ current \subseteq Row
    /\ attributes \subseteq Row /\ failed \subseteq Row
    /\ events \subseteq Nat
    /\ accepted \subseteq PointKey
    /\ dbErrors \in Nat
    /\ stopPc \in {"running", "uplinksStopped", "inputClosed", "ctxCancelled",
                   "waitMain", "waitWriter", "stopped"}
    /\ timedOut \in BOOLEAN
    /\ panic \in {"none", "send on closed channel", "index out of range"}

(* A flusher that is not writing a batch holds no rows of one.             *)
IdleEmpty ==
    \A f \in Flushers :
        pc[f] \notin {"insert", "fallback"} => pending[f] = {} /\ latest[f] = {}

(* The buffer never outgrows one batch: it is full only while the main     *)
(* loop is on its way into flush, whatever the ticker does meanwhile.      *)
BufferBound ==
    /\ Len(buffer) <= BatchSize
    /\ Len(buffer) = BatchSize => pc["main"] = "flush"

(* No point the writer took over disappears without a trace: it is still   *)
(* buffered, in a batch, in the history table, or was reported as failed.  *)
(* Holds across both flushers, failing batches, shutdown and panics.       *)
Conservation ==
    accepted \subseteq
        Keys(history) \cup Keys(failed) \cup Keys(BatchPoints(buffer))
            \cup UNION {Keys(pending[f]) : f \in Flushers}

(* Swapping the buffer hands each message to exactly one flusher.          *)
HandedOffOnce ==
    /\ pending["main"] \cap pending["ticker"] = {}
    /\ \A f \in Flushers : pending[f] \cap BatchPoints(buffer) = {}

(* When Stop returns without having run into a timeout, nobody is writing  *)
(* a batch any more and both goroutines have ended for good.               *)
GracefulStopQuiescent ==
    stopPc = "stopped" /\ ~timedOut =>
        \A f \in Flushers : pc[f] = "done" /\ pending[f] = {}

(* What each wait of Stop has established when it did not time out.        *)
StopWaited ==
    ~timedOut =>
        /\ stopPc \in {"waitWriter", "stopped"} => pc["main"] = "done"
        /\ stopPc = "stopped" => pc["ticker"] = "done"

(* Attributes are written by the main loop alone, in the order they were   *)
(* stamped: the stored value of a series is never replaced by an older one.*)
AttributeMonotone ==
    [][\A r \in attributes : \E q \in attributes' :
          q.series = r.series /\ q.ts >= r.ts]_attributes

(* A row of the current table tells of a point the history table has.      *)
CurrentCovered == Keys(current) \subseteq Keys(history)

(* While no statement fails, no flusher is in the fallback and the current *)
(* rows of a batch are among its history rows.                             *)
BatchCovered ==
    \A f \in Flushers : pc[f] # "fallback" /\ Keys(latest[f]) \subseteq Keys(pending[f])

(* The current table shows the latest value: no history row is newer.      *)
CurrentIsLatest ==
    \A h \in history : \E c \in current : c.series = h.series /\ c.ts >= h.ts

(* A graceful stop leaves nothing behind in the buffer: flushRemaining.    *)
StopFlushesBuffer == stopPc = "stopped" /\ ~timedOut => buffer = <<>>

(* Closing the input channel does not meet an uplink that still sends.     *)
NoSendOnClosed == panic # "send on closed channel"

(* Falling back to single inserts is safe for every batch.                 *)
FallbackSafe == panic # "index out of range"

(* Every point the writer took over reaches the history table, as long as  *)
(* the database works and nobody stops the service.                        *)
EventuallyStored ==
    \A s \in Series, t \in 0..MaxMsgs :
        <<s, t>> \in accepted ~> <<s, t>> \in Keys(history)

Store == INSTANCE LatestValueStore WITH history <- history, current <- current

(* One flusher and a working database: the two tables are a store of       *)
(* latest values.                                                          *)
ImplementsStore == Store!Spec
=============================================================================
