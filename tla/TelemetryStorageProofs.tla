----------------------- MODULE TelemetryStorageProofs -----------------------
(***************************************************************************)
(* Theorems about TelemetryStorage, for every value of its constants.      *)
(***************************************************************************)
EXTENDS TelemetryStorage, TLAPS, SequenceTheorems, WellFoundedInduction

-----------------------------------------------------------------------------
(* A non-empty set of naturals has a least element.                        *)

LessNat == {p \in Nat \X Nat : p[1] < p[2]}

(* The order of the naturals is well-founded, as the library states it.    *)
LEMMA LessNatWF == IsWellFoundedOn(LessNat, Nat)
BY NatLessThanWellFounded DEF OpToRel, LessNat

(* The message that came first is the least of the ids it is compared to.  *)
LEMMA NatMinimum ==
    ASSUME NEW T \in SUBSET Nat, T # {}
    PROVE  \E x \in T : \A y \in T : x <= y
<1>1. \E x \in T : \A y \in T : <<y, x>> \notin LessNat
  BY LessNatWF, WFMin
<1>2. \A x, y \in T : <<y, x>> \notin LessNat => x <= y
  BY DEF LessNat
<1>. QED BY <1>1, <1>2

-----------------------------------------------------------------------------
(* What the conversion of a batch and the two kinds of insert do.          *)

(* The points of a batch are rows.                                         *)
LEMMA BatchPointsType ==
    ASSUME NEW b \in Seq(Message)
    PROVE  BatchPoints(b) \subseteq Row
<1>1. ASSUME NEW i \in DOMAIN b PROVE Points(b[i]) \subseteq Row
  <2>1. b[i] \in Message
    OBVIOUS
  <2>. QED BY <2>1 DEF Message, Points, Row
<1>. QED BY <1>1 DEF BatchPoints

(* So are the rows the writer sends to the database.                       *)
LEMMA BatchRowsType ==
    ASSUME NEW b \in Seq(Message)
    PROVE  HistoryRows(b) \subseteq Row /\ CurrentRows(b) \subseteq HistoryRows(b)
BY BatchPointsType DEF HistoryRows, CurrentRows

(* Appending a message adds its points and no others.                      *)
LEMMA AppendPoints ==
    ASSUME NEW b \in Seq(Message), NEW m \in Message
    PROVE  BatchPoints(Append(b, m)) = BatchPoints(b) \cup Points(m)
<1>. DEFINE a == Append(b, m)
<1>1. /\ DOMAIN a = DOMAIN b \cup {Len(b) + 1}
      /\ a[Len(b) + 1] = m
      /\ \A i \in DOMAIN b : a[i] = b[i]
  OBVIOUS
<1>. HIDE DEF a
<1>2. BatchPoints(a) = BatchPoints(b) \cup Points(m)
  BY <1>1 DEF BatchPoints
<1>. QED BY <1>2 DEF a

(* Deduplication drops rows but no device, key and timestamp.              *)
LEMMA HistoryRowsKeys ==
    ASSUME NEW b \in Seq(Message)
    PROVE  Keys(BatchPoints(b)) \subseteq Keys(HistoryRows(b))
<1>1. SUFFICES ASSUME NEW r \in BatchPoints(b)
               PROVE  Key(r) \in Keys(HistoryRows(b))
  BY DEF Keys
<1>. DEFINE same == {q \in BatchPoints(b) : SameKey(r, q)}
            T    == {q.val : q \in same}
<1>2. same \subseteq Row /\ r \in same
  BY BatchPointsType DEF SameKey
<1>3. T \in SUBSET Nat /\ T # {}
  BY <1>2 DEF Row
<1>4. PICK x \in T : \A y \in T : x <= y
  BY <1>3, NatMinimum
<1>5. PICK q \in same : q.val = x
  OBVIOUS
<1>6. \A p \in BatchPoints(b) : SameKey(q, p) => p \in same
  BY DEF SameKey
<1>7. q \in HistoryRows(b)
  BY <1>4, <1>5, <1>6 DEF HistoryRows
<1>8. Key(q) = Key(r)
  BY DEF Key, SameKey
<1>. QED BY <1>7, <1>8 DEF Keys

(* DO NOTHING leaves every row in place and gives every new row a key.     *)
LEMMA InsertIgnoreKeys ==
    ASSUME NEW table, NEW rows
    PROVE  /\ table \subseteq InsertIgnore(table, rows)
           /\ InsertIgnore(table, rows) \subseteq table \cup rows
           /\ Keys(rows) \subseteq Keys(InsertIgnore(table, rows))
BY DEF InsertIgnore, Keys, Key, SameKey

-----------------------------------------------------------------------------
(* Types.                                                                  *)

USE DEF Flushers

(* Taking a batch keeps the types.                                         *)
LEMMA TakeBatchType ==
    ASSUME TypeOK, NEW f \in Flushers, NEW idle, TakeBatch(f, idle),
           f = "main" => idle = "select",
           f = "ticker" => idle \in {"select", "done"},
           pc[f] # "off", final' \in BOOLEAN
    PROVE  TypeOK'
<1>1. HistoryRows(buffer) \subseteq Row /\ CurrentRows(buffer) \subseteq Row
  BY BatchRowsType DEF TypeOK
<1>2. pending' \in [Flushers -> SUBSET Row] /\ latest' \in [Flushers -> SUBSET Row]
  BY <1>1 DEF TakeBatch, TypeOK
<1>3. /\ pc' \in [Flushers -> {"off", "select", "flush", "insert", "fallback", "done"}]
      /\ pc'["main"] # "off" /\ pc'["ticker"] # "flush"
  BY DEF TakeBatch, TypeOK
<1>4. buffer' \in Seq(Message)
  BY DEF TakeBatch, NewBuffer
<1>. QED BY <1>2, <1>3, <1>4 DEF TakeBatch, TypeOK, env, tables, stop

(* So does every step of a batch on its way to the database.               *)
LEMMA FlushType ==
    ASSUME TypeOK, NEW f \in Flushers, Flush(f)
    PROVE  TypeOK'
<1>0. dbErrors \in Nat
  BY DEF TypeOK
<1>1. CASE BatchCommit(f)
  BY <1>1 DEF BatchCommit, Resume, InsertIgnore, Upsert, TypeOK, env, stop
<1>2. CASE BatchError(f)
  <2>1. dbErrors' \in Nat
    BY <1>0, <1>2 DEF BatchError
  <2>. QED BY <1>2, <2>1 DEF BatchError, TypeOK, env, tables, stop
<1>3. CASE \E h \in NextRow(f), c \in latest[f] : FallbackRow(f, h, c)
  <2>1. PICK h \in NextRow(f), c \in latest[f] : FallbackRow(f, h, c)
    BY <1>3
  <2>2. h \in Row /\ c \in Row
    BY DEF NextRow, TypeOK
  <2>3. history' \subseteq Row /\ current' \subseteq Row
    BY <2>1, <2>2 DEF FallbackRow, InsertIgnore, Upsert, TypeOK
  <2>. QED BY <2>1, <2>2, <2>3 DEF FallbackRow, TypeOK, env, stop
<1>4. CASE \E h \in NextRow(f) : FallbackError(f, h)
  <2>1. PICK h \in NextRow(f) : FallbackError(f, h)
    BY <1>4
  <2>2. h \in Row
    BY DEF NextRow, TypeOK
  <2>3. dbErrors' \in Nat
    BY <1>0, <2>1 DEF FallbackError
  <2>4. failed' \subseteq Row /\ pending' \in [Flushers -> SUBSET Row]
    BY <2>1, <2>2 DEF FallbackError, TypeOK
  <2>5. latest' \in [Flushers -> SUBSET Row]
    BY <2>1 DEF FallbackError, TypeOK
  <2>. QED BY <2>1, <2>3, <2>4, <2>5 DEF FallbackError, TypeOK, env, stop
<1>5. CASE FallbackDone(f)
  BY <1>5 DEF FallbackDone, Resume, TypeOK, env, tables, stop
<1>6. CASE FallbackPanic(f)
  BY <1>6 DEF FallbackPanic, TypeOK, env, flush, tables, stop
<1>. QED BY <1>1, <1>2, <1>3, <1>4, <1>5, <1>6 DEF Flush

(* And every step of an uplink.                                            *)
LEMMA UplinkType ==
    ASSUME TypeOK, NEW t \in DataTypes, Uplink(t)
    PROVE  TypeOK'
<1>0. /\ clock \in Nat /\ sent \in Nat
      /\ held \in [DataTypes -> Seq(Message)] /\ inputChan \in Seq(Message)
  BY DEF TypeOK
<1>1. CASE UplinkBuild(t)
  <2>1. PICK tick \in {0, 1}, P \in IF t = "event" THEN {{}} ELSE MsgPoints :
          /\ clock' = clock + tick
          /\ held' = [held EXCEPT ![t] =
               <<[id |-> sent + 1, type |-> t, ts |-> clock + tick, points |-> P]>>]
    BY <1>1 DEF UplinkBuild
  <2>. DEFINE m == [id |-> sent + 1, type |-> t, ts |-> clock + tick, points |-> P]
  <2>2. P \in SUBSET Series
    BY StorageAssumption
  <2>3. sent + 1 \in Nat /\ clock + tick \in Nat
    BY <1>0
  <2>4. m \in Message
    BY <2>2, <2>3 DEF Message
  <2>. HIDE DEF m
  <2>5. <<m>> \in Seq(Message)
    BY <2>4
  <2>6. held' \in [DataTypes -> Seq(Message)]
    BY <1>0, <2>1, <2>5 DEF m
  <2>7. sent' \in Nat /\ clock' \in Nat
    BY <1>1, <2>1, <2>3 DEF UplinkBuild
  <2>. QED BY <1>1, <2>6, <2>7 DEF UplinkBuild, TypeOK, flush, tables, stop
<1>2. CASE UplinkSend(t)
  <2>1. Head(held[t]) \in Message
    BY <1>0, <1>2 DEF UplinkSend
  <2>2. inputChan' \in Seq(Message)
    BY <1>0, <1>2, <2>1 DEF UplinkSend
  <2>3. held' \in [DataTypes -> Seq(Message)]
    BY <1>0, <1>2 DEF UplinkSend
  <2>. QED BY <1>2, <2>2, <2>3 DEF UplinkSend, TypeOK, flush, tables, stop
<1>3. CASE UplinkSendClosed(t)
  BY <1>3 DEF UplinkSendClosed, TypeOK, env, flush, tables, stop
<1>4. CASE UplinkExit(t)
  BY <1>4 DEF UplinkExit, TypeOK, flush, tables, stop
<1>. QED BY <1>1, <1>2, <1>3, <1>4 DEF Uplink

(* A message received by the main loop.                                    *)
LEMMA ReceiveType ==
    ASSUME TypeOK, MainReceive
    PROVE  TypeOK'
<1>. DEFINE m == Head(inputChan)
<1>0. /\ dbErrors \in Nat /\ events \subseteq Nat
      /\ inputChan \in Seq(Message) /\ buffer \in Seq(Message)
  BY DEF TypeOK
<1>1. m \in Message /\ inputChan' \in Seq(Message)
  BY <1>0 DEF MainReceive
<1>2. Points(m) \subseteq Row /\ Keys(Points(m)) \subseteq PointKey
  BY <1>1 DEF Points, Message, Row, Keys, Key, PointKey
<1>. HIDE DEF m
<1>3. CASE ReceiveTelemetry(m)
  <2>1. buffer' \in Seq(Message)
    BY <1>0, <1>1, <1>3 DEF ReceiveTelemetry
  <2>2. accepted' \subseteq PointKey
    BY <1>2, <1>3 DEF ReceiveTelemetry, TypeOK
  <2>. QED BY <1>1, <1>3, <2>1, <2>2
           DEF ReceiveTelemetry, MainReceive, TypeOK, tables, stop
<1>4. CASE ReceiveAttribute(m)
  <2>1. PICK bad \in SUBSET Points(m) :
          /\ dbErrors + Cardinality(bad) \in 0..MaxDbErrors
          /\ dbErrors' = dbErrors + Cardinality(bad)
          /\ attributes' = Upsert(attributes, Points(m) \ bad)
    BY <1>4 DEF ReceiveAttribute
  <2>2. attributes' \subseteq Row
    BY <1>2, <2>1 DEF Upsert, TypeOK
  <2>3. dbErrors' \in Nat
    BY <2>1
  <2>. QED BY <1>1, <1>4, <2>2, <2>3 DEF ReceiveAttribute, MainReceive, TypeOK, flush, stop
<1>5. CASE ReceiveEvent(m)
  <2>1. m.id \in Nat
    BY <1>1 DEF Message
  <2>2. events' \subseteq Nat
    BY <1>0, <1>5, <2>1 DEF ReceiveEvent
  <2>3. dbErrors' = dbErrors \/ dbErrors' = dbErrors + 1
    BY <1>5 DEF ReceiveEvent
  <2>4. dbErrors' \in Nat
    BY <1>0, <2>3
  <2>. QED BY <1>1, <1>5, <2>2, <2>4 DEF ReceiveEvent, MainReceive, TypeOK, flush, stop
<1>. QED BY <1>3, <1>4, <1>5 DEF MainReceive, m

(* And every step of a shutdown.                                           *)
LEMMA StopType ==
    ASSUME TypeOK, Stop
    PROVE  TypeOK'
BY DEF Stop, StopUplinks, CloseInput, CancelCtx, CloseStopCh, WaitMain, WaitWriter, StopStep,
       TypeOK, env, flush, tables

(* Every variable keeps to its type.                                       *)
THEOREM TypeCorrect == Spec => []TypeOK
<1>1. Init => TypeOK
  <2>. SUFFICES ASSUME Init PROVE TypeOK
    OBVIOUS
  <2>1. clock \in Nat /\ sent \in Nat /\ dbErrors \in Nat
    BY DEF Init
  <2>2. <<>> \in Seq(Message)
    OBVIOUS
  <2>3. /\ held \in [DataTypes -> Seq(Message)]
        /\ inputChan \in Seq(Message) /\ buffer \in Seq(Message)
    BY <2>2 DEF Init
  <2>. QED BY <2>1, <2>3 DEF Init, TypeOK
<1>2. TypeOK /\ [Next]_vars => TypeOK'
  <2>. SUFFICES ASSUME TypeOK, [Next]_vars PROVE TypeOK'
    OBVIOUS
  <2>1. CASE \E t \in DataTypes : Uplink(t)
    BY <2>1, UplinkType
  <2>2. CASE MainReceive
    BY <2>2, ReceiveType
  <2>3. CASE MainExit
    BY <2>3 DEF MainExit, TypeOK, env, tables, stop
  <2>4. CASE MainFlush
    <3>1. TakeBatch("main", "select") /\ pc["main"] # "off" /\ final' \in BOOLEAN
      BY <2>4 DEF MainFlush, TypeOK
    <3>. QED BY <3>1, TakeBatchType
  <2>5. CASE TickerFlush
    <3>1. TakeBatch("ticker", "select") /\ pc["ticker"] # "off" /\ final' \in BOOLEAN
      BY <2>5 DEF TickerFlush, TypeOK
    <3>. QED BY <3>1, TakeBatchType
  <2>6. CASE FlushRemaining
    <3>1. TakeBatch("ticker", "done") /\ pc["ticker"] # "off" /\ final' \in BOOLEAN
      BY <2>6 DEF FlushRemaining, TypeOK
    <3>. QED BY <3>1, TakeBatchType
  <2>7. CASE TickerCancel
    BY <2>7 DEF TickerCancel, TypeOK, env, tables, stop
  <2>8. CASE \E f \in Flushers : Flush(f)
    BY <2>8, FlushType
  <2>9. CASE Stop
    BY <2>9, StopType
  <2>10. CASE UNCHANGED vars
    BY <2>10 DEF vars, TypeOK, env, flush, tables, stop
  <2>. QED BY <2>1, <2>2, <2>3, <2>4, <2>5, <2>6, <2>7, <2>8, <2>9, <2>10
           DEF Next, Main, Ticker
<1>. QED BY <1>1, <1>2, PTL DEF Spec

-----------------------------------------------------------------------------
(* What the steps do to the rows on their way into the tables.             *)

rows == <<buffer, pc, pending, latest, history, current, failed, accepted>>

(* Every step leaves the rows alone or is one of these.                    *)
LEMMA StepCases ==
    ASSUME [Next]_vars
    PROVE  \/ UNCHANGED rows
           \/ /\ MainReceive /\ pc["main"] = "select" /\ inputChan # <<>>
              /\ ReceiveTelemetry(Head(inputChan)) /\ UNCHANGED <<history, current, failed>>
           \/ MainExit \/ TickerCancel
           \/ MainFlush \/ TickerFlush \/ FlushRemaining
           \/ \E f \in Flushers : Flush(f)
<1>. USE DEF rows, flush, tables
<1>1. CASE \E t \in DataTypes : Uplink(t)
  BY <1>1 DEF Uplink, UplinkBuild, UplinkSend, UplinkSendClosed, UplinkExit
<1>2. CASE MainReceive
  BY <1>2 DEF MainReceive, ReceiveTelemetry, ReceiveAttribute, ReceiveEvent
<1>3. CASE Stop
  BY <1>3 DEF Stop, StopStep, StopUplinks, CloseInput, CancelCtx, CloseStopCh, WaitMain, WaitWriter
<1>4. CASE UNCHANGED vars
  BY <1>4 DEF vars
<1>. QED BY <1>1, <1>2, <1>3, <1>4 DEF Next, Main, Ticker

(* No flusher leaves rows behind when it is done with a batch.             *)
LEMMA IdleEmptyStep ==
    ASSUME TypeOK, IdleEmpty, [Next]_vars
    PROVE  IdleEmpty'
<1>0. pc \in [Flushers -> {"off", "select", "flush", "insert", "fallback", "done"}]
      /\ pending \in [Flushers -> SUBSET Row] /\ latest \in [Flushers -> SUBSET Row]
      /\ CurrentRows(buffer) \subseteq HistoryRows(buffer)
  BY BatchRowsType DEF TypeOK
<1>1. CASE UNCHANGED rows
  BY <1>1 DEF rows, IdleEmpty
<1>2. CASE ReceiveTelemetry(Head(inputChan)) /\ pc["main"] = "select"
  BY <1>0, <1>2 DEF ReceiveTelemetry, IdleEmpty
<1>3. CASE MainExit \/ TickerCancel
  BY <1>0, <1>3 DEF MainExit, TickerCancel, IdleEmpty
<1>4. ASSUME NEW f \in Flushers, NEW idle, TakeBatch(f, idle)
      PROVE  IdleEmpty'
  BY <1>0, <1>4 DEF TakeBatch, IdleEmpty
<1>5. CASE MainFlush \/ TickerFlush \/ FlushRemaining
  BY <1>4, <1>5 DEF MainFlush, TickerFlush, FlushRemaining
<1>6. ASSUME NEW f \in Flushers, Flush(f)
      PROVE  IdleEmpty'
  BY <1>0, <1>6 DEF Flush, BatchCommit, BatchError, FallbackRow, FallbackError, FallbackDone,
                    FallbackPanic, flush, IdleEmpty
<1>. QED BY <1>1, <1>2, <1>3, <1>5, <1>6, StepCases

(* A batch on its way keeps the keys of its rows accounted for.            *)
LEMMA FlushConserves ==
    ASSUME TypeOK, Conservation, NEW f \in Flushers, Flush(f)
    PROVE  Conservation'
<1>. DEFINE Rest == UNION {Keys(pending[g]) : g \in Flushers \ {f}}
<1>0. /\ pending \in [Flushers -> SUBSET Row]
      /\ accepted \subseteq Keys(history) \cup Keys(failed) \cup Keys(BatchPoints(buffer))
                          \cup Keys(pending[f]) \cup Rest
  BY DEF TypeOK, Conservation
<1>1. SUFFICES ASSUME UNCHANGED <<accepted, buffer>>,
                      \A g \in Flushers \ {f} : pending'[g] = pending[g],
                      Keys(history) \cup Keys(failed) \cup Keys(pending[f])
                        \subseteq Keys(history') \cup Keys(failed') \cup Keys(pending'[f])
               PROVE  Conservation'
  <2>1. UNCHANGED <<accepted, buffer>> /\ \A g \in Flushers \ {f} : pending'[g] = pending[g]
    BY <1>0 DEF Flush, BatchCommit, BatchError, FallbackRow, FallbackError, FallbackDone,
                FallbackPanic, flush
  <2>2. CASE BatchCommit(f)
    BY <1>0, <2>2, InsertIgnoreKeys DEF BatchCommit, Keys
  <2>3. CASE BatchError(f) \/ FallbackPanic(f)
    BY <2>3 DEF BatchError, FallbackPanic, flush, tables
  <2>4. CASE FallbackDone(f)
    BY <2>4 DEF FallbackDone, tables
  <2>5. CASE \E h \in NextRow(f), c \in latest[f] : FallbackRow(f, h, c)
    <3>1. PICK h \in NextRow(f), c \in latest[f] : FallbackRow(f, h, c)
      BY <2>5
    <3>2. /\ history' = InsertIgnore(history, {h}) /\ UNCHANGED failed
          /\ pending'[f] = pending[f] \ {h}
      BY <1>0, <3>1 DEF FallbackRow
    <3>. QED BY <2>1, <3>2, InsertIgnoreKeys DEF Keys
  <2>6. CASE \E h \in NextRow(f) : FallbackError(f, h)
    <3>1. PICK h \in NextRow(f) : FallbackError(f, h)
      BY <2>6
    <3>2. /\ failed' = failed \cup {h} /\ UNCHANGED history
          /\ pending'[f] = pending[f] \ {h}
      BY <1>0, <3>1 DEF FallbackError
    <3>. QED BY <2>1, <3>2 DEF Keys
  <2>. QED BY <2>1, <2>2, <2>3, <2>4, <2>5, <2>6 DEF Flush
<1>. QED BY <1>0, <1>1 DEF Conservation

(* Every other step does so as well.                                       *)
LEMMA ConservationStep ==
    ASSUME TypeOK, IdleEmpty, Conservation, [Next]_vars
    PROVE  Conservation'
<1>0. /\ pending \in [Flushers -> SUBSET Row]
      /\ buffer \in Seq(Message) /\ inputChan \in Seq(Message)
      /\ pc \in [Flushers -> {"off", "select", "flush", "insert", "fallback", "done"}]
  BY DEF TypeOK
<1>1. CASE UNCHANGED rows
  BY <1>1 DEF rows, Conservation
<1>2. CASE /\ inputChan # <<>> /\ ReceiveTelemetry(Head(inputChan))
           /\ UNCHANGED <<history, current, failed>>
  <2>1. Head(inputChan) \in Message
    BY <1>0, <1>2
  <2>2. Keys(BatchPoints(buffer')) = Keys(BatchPoints(buffer)) \cup Keys(Points(Head(inputChan)))
    BY <1>0, <1>2, <2>1, AppendPoints DEF ReceiveTelemetry, Keys
  <2>. QED BY <1>2, <2>2 DEF ReceiveTelemetry, Conservation
<1>3. CASE MainExit \/ TickerCancel
  BY <1>3 DEF MainExit, TickerCancel, Conservation, tables
<1>4. ASSUME NEW f \in Flushers, NEW idle, TakeBatch(f, idle), pc[f] \in {"select", "flush"}
      PROVE  Conservation'
  <2>1. pending[f] = {}
    BY <1>4 DEF IdleEmpty
  <2>2. /\ pending'[f] = HistoryRows(buffer)
        /\ \A g \in Flushers \ {f} : pending'[g] = pending[g]
    BY <1>0, <1>4 DEF TakeBatch
  <2>3. Keys(BatchPoints(buffer)) \subseteq Keys(pending'[f])
    BY <1>0, <2>2, HistoryRowsKeys
  <2>. QED BY <1>4, <2>1, <2>2, <2>3 DEF TakeBatch, Conservation, Keys, tables
<1>5. CASE MainFlush \/ TickerFlush \/ FlushRemaining
  BY <1>4, <1>5 DEF MainFlush, TickerFlush, FlushRemaining
<1>. QED BY <1>1, <1>2, <1>3, <1>5, FlushConserves, StepCases

(* No accepted point disappears: both flushers, failing statements, the    *)
(* fallback, shutdown and panics included.                                 *)
THEOREM NothingDisappears == Spec => []Conservation
<1>1. Init => IdleEmpty /\ Conservation
  BY DEF Init, IdleEmpty, Conservation
<1>2. TypeOK /\ IdleEmpty /\ Conservation /\ [Next]_vars => IdleEmpty' /\ Conservation'
  BY IdleEmptyStep, ConservationStep
<1>. QED BY <1>1, <1>2, TypeCorrect, PTL DEF Spec

-----------------------------------------------------------------------------
(* The buffer stays within one batch.                                      *)

LEMMA BufferBoundStep ==
    ASSUME TypeOK, BufferBound, [Next]_vars
    PROVE  BufferBound'
<1>0. /\ buffer \in Seq(Message) /\ BatchSize \in Nat \ {0}
      /\ pc \in [Flushers -> {"off", "select", "flush", "insert", "fallback", "done"}]
  BY StorageAssumption DEF TypeOK
<1>1. CASE UNCHANGED rows
  BY <1>1 DEF rows, BufferBound
<1>2. CASE pc["main"] = "select" /\ ReceiveTelemetry(Head(inputChan))
  <2>1. Len(buffer) < BatchSize
    BY <1>0, <1>2 DEF BufferBound
  <2>2. Len(buffer') = Len(buffer) + 1
    BY <1>0, <1>2 DEF ReceiveTelemetry
  <2>3. Len(buffer') = BatchSize => pc'["main"] = "flush"
    BY <1>0, <1>2, <2>2 DEF ReceiveTelemetry, ShouldFlush
  <2>. QED BY <1>0, <2>1, <2>2, <2>3 DEF BufferBound
<1>3. CASE MainExit \/ TickerCancel
  BY <1>0, <1>3 DEF MainExit, TickerCancel, BufferBound
<1>4. ASSUME NEW f \in Flushers, NEW idle, TakeBatch(f, idle)
      PROVE  BufferBound'
  BY <1>0, <1>4 DEF TakeBatch, NewBuffer, BufferBound
<1>5. CASE MainFlush \/ TickerFlush \/ FlushRemaining
  BY <1>4, <1>5 DEF MainFlush, TickerFlush, FlushRemaining
<1>6. ASSUME NEW f \in Flushers, Flush(f)
      PROVE  BufferBound'
  <2>1. UNCHANGED buffer /\ (pc["main"] = "flush" => pc'["main"] = "flush")
    BY <1>0, <1>6 DEF Flush, BatchCommit, BatchError, FallbackRow, FallbackError, FallbackDone,
                      FallbackPanic, flush
  <2>. QED BY <2>1 DEF BufferBound
<1>. QED BY <1>1, <1>2, <1>3, <1>5, <1>6, StepCases

(* The buffer never outgrows the batch size, and is full only while the    *)
(* main loop is about to flush it.                                         *)
THEOREM BufferStaysBounded == Spec => []BufferBound
<1>1. Init => BufferBound
  BY StorageAssumption DEF Init, BufferBound
<1>2. TypeOK /\ BufferBound /\ [Next]_vars => BufferBound'
  BY BufferBoundStep
<1>. QED BY <1>1, <1>2, TypeCorrect, PTL DEF Spec

-----------------------------------------------------------------------------
(* A stop without timeouts.                                                *)

(* A goroutine that has ended stays so.                                    *)
LEMMA DoneIsFinal ==
    ASSUME TypeOK, [Next]_vars, NEW f \in Flushers, pc[f] = "done"
    PROVE  pc'[f] = "done"
<1>0. pc \in [Flushers -> {"off", "select", "flush", "insert", "fallback", "done"}]
  BY DEF TypeOK
<1>1. CASE UNCHANGED rows
  BY <1>1 DEF rows
<1>2. CASE pc["main"] = "select" /\ ReceiveTelemetry(Head(inputChan))
  BY <1>0, <1>2 DEF ReceiveTelemetry
<1>3. CASE MainExit \/ TickerCancel
  BY <1>0, <1>3 DEF MainExit, TickerCancel
<1>4. ASSUME NEW g \in Flushers, NEW idle, TakeBatch(g, idle), pc[g] # "done"
      PROVE  pc'[f] = "done"
  BY <1>0, <1>4 DEF TakeBatch
<1>5. CASE MainFlush \/ TickerFlush \/ FlushRemaining
  BY <1>4, <1>5 DEF MainFlush, TickerFlush, FlushRemaining
<1>6. ASSUME NEW g \in Flushers, Flush(g)
      PROVE  pc'[f] = "done"
  BY <1>0, <1>6 DEF Flush, BatchCommit, BatchError, FallbackRow, FallbackError, FallbackDone,
                    FallbackPanic, flush
<1>. QED BY <1>1, <1>2, <1>3, <1>5, <1>6, StepCases

(* Stop moves on only by its own steps, which record a timeout.            *)
LEMMA StopWaitedStep ==
    ASSUME TypeOK, StopWaited, [Next]_vars
    PROVE  StopWaited'
<1>1. CASE UNCHANGED stop
  BY <1>1, DoneIsFinal DEF stop, StopWaited
<1>2. CASE Stop
  BY <1>2, DoneIsFinal DEF Stop, StopStep, StopUplinks, CloseInput, CancelCtx, CloseStopCh,
                           WaitMain, WaitWriter, StopWaited
<1>3. UNCHANGED stop \/ Stop
  BY DEF Next, Uplink, UplinkBuild, UplinkSend, UplinkSendClosed, UplinkExit,
         Main, MainReceive, MainExit, MainFlush, Ticker, TickerFlush, FlushRemaining, TickerCancel,
         TakeBatch, Flush, BatchCommit, BatchError, FallbackRow, FallbackError, FallbackDone,
         FallbackPanic, vars
<1>. QED BY <1>1, <1>2, <1>3

(* When Stop returns without a timeout, nobody is writing a batch.         *)
THEOREM StopIsQuiescent == Spec => []GracefulStopQuiescent
<1>1. Init => IdleEmpty /\ StopWaited
  BY DEF Init, IdleEmpty, StopWaited
<1>2. TypeOK /\ IdleEmpty /\ StopWaited /\ [Next]_vars => IdleEmpty' /\ StopWaited'
  BY IdleEmptyStep, StopWaitedStep
<1>3. IdleEmpty /\ StopWaited => GracefulStopQuiescent
  BY DEF IdleEmpty, StopWaited, GracefulStopQuiescent
<1>. QED BY <1>1, <1>2, <1>3, TypeCorrect, PTL DEF Spec

-----------------------------------------------------------------------------
(* With a working database, the current table follows the history.         *)

(* A database that may not fail has not failed.                            *)
LEMMA NoErrors ==
    ASSUME MaxDbErrors = 0, dbErrors = 0, [Next]_vars
    PROVE  /\ dbErrors' = 0
           /\ \A f \in Flushers : ~BatchError(f)
<1>1. ASSUME NEW m, ReceiveAttribute(m)
      PROVE  dbErrors' = 0
  <2>1. PICK bad \in SUBSET Points(m) :
          /\ dbErrors + Cardinality(bad) \in 0..MaxDbErrors
          /\ dbErrors' = dbErrors + Cardinality(bad)
    BY <1>1 DEF ReceiveAttribute
  <2>. QED BY <2>1
<1>2. CASE dbErrors < MaxDbErrors
  BY <1>2
<1>3. CASE ~(dbErrors < MaxDbErrors)
  BY <1>1, <1>3
     DEF Next, Uplink, UplinkBuild, UplinkSend, UplinkSendClosed, UplinkExit,
         Main, MainReceive, ReceiveTelemetry, ReceiveEvent, MainExit, MainFlush,
         Ticker, TickerFlush, FlushRemaining, TickerCancel,
         TakeBatch, Flush, BatchCommit, BatchError, FallbackRow, FallbackError, FallbackDone,
         FallbackPanic, vars, Stop, StopStep, StopUplinks, CloseInput, CancelCtx, CloseStopCh,
         WaitMain, WaitWriter
<1>. QED BY <1>2, <1>3

(* A transaction that commits both tables keeps the current one covered.   *)
LEMMA CoveredStep ==
    ASSUME TypeOK, BatchCovered, CurrentCovered, [Next]_vars,
           \A f \in Flushers : ~BatchError(f)
    PROVE  BatchCovered' /\ CurrentCovered'
<1>0. pc \in [Flushers -> {"off", "select", "flush", "insert", "fallback", "done"}]
      /\ pending \in [Flushers -> SUBSET Row] /\ latest \in [Flushers -> SUBSET Row]
      /\ CurrentRows(buffer) \subseteq HistoryRows(buffer)
  BY BatchRowsType DEF TypeOK
<1>. USE DEF BatchCovered, CurrentCovered
<1>1. CASE UNCHANGED rows
  BY <1>1 DEF rows
<1>2. CASE ReceiveTelemetry(Head(inputChan)) /\ UNCHANGED <<history, current, failed>>
  BY <1>0, <1>2 DEF ReceiveTelemetry
<1>3. CASE MainExit \/ TickerCancel
  BY <1>0, <1>3 DEF MainExit, TickerCancel, tables
<1>4. ASSUME NEW f \in Flushers, NEW idle \in {"select", "done"}, TakeBatch(f, idle)
      PROVE  BatchCovered' /\ CurrentCovered'
  <2>1. UNCHANGED <<history, current>>
    BY <1>4 DEF TakeBatch, tables
  <2>2. \A g \in Flushers : pc'[g] # "fallback"
    BY <1>0, <1>4 DEF TakeBatch
  <2>3. Keys(CurrentRows(buffer)) \subseteq Keys(HistoryRows(buffer))
    BY <1>0 DEF Keys
  <2>4. \A g \in Flushers : Keys(latest'[g]) \subseteq Keys(pending'[g])
    BY <1>0, <1>4, <2>3 DEF TakeBatch
  <2>. QED BY <2>1, <2>2, <2>4
<1>5. CASE MainFlush \/ TickerFlush \/ FlushRemaining
  BY <1>4, <1>5 DEF MainFlush, TickerFlush, FlushRemaining
<1>6. ASSUME NEW f \in Flushers, BatchCommit(f)
      PROVE  BatchCovered' /\ CurrentCovered'
  <2>1. Keys(current') \subseteq Keys(current) \cup Keys(latest[f])
    BY <1>6 DEF BatchCommit, Upsert, Keys
  <2>2. Keys(history) \cup Keys(pending[f]) \subseteq Keys(history')
    BY <1>6, InsertIgnoreKeys DEF BatchCommit, Keys
  <2>3. BatchCovered'
    BY <1>0, <1>6 DEF BatchCommit, Resume, Keys
  <2>. QED BY <2>1, <2>2, <2>3
<1>7. \A f \in Flushers : Flush(f) => BatchCommit(f)
  BY DEF Flush, BatchError, FallbackRow, FallbackError, FallbackDone, FallbackPanic
<1>. QED BY <1>1, <1>2, <1>3, <1>5, <1>6, <1>7, StepCases

(* With a database that does not fail, both flushers included, every row   *)
(* of the current table has its row in the history.                        *)
THEOREM CurrentFollowsHistory == MaxDbErrors = 0 => (Spec => []CurrentCovered)
<1>. SUFFICES ASSUME MaxDbErrors = 0 PROVE Spec => []CurrentCovered
  OBVIOUS
<1>. DEFINE Inv == dbErrors = 0 /\ BatchCovered /\ CurrentCovered
<1>1. Init => Inv
  BY DEF Init, BatchCovered, CurrentCovered, Keys
<1>2. TypeOK /\ Inv /\ [Next]_vars => Inv'
  BY NoErrors, CoveredStep
<1>3. Inv => CurrentCovered
  OBVIOUS
<1>. QED BY <1>1, <1>2, <1>3, TypeCorrect, PTL DEF Spec

-----------------------------------------------------------------------------
(* The order in which messages pass from the uplinks to the tables.        *)

Later(m, n) == m.id < n.id /\ m.ts <= n.ts

(* The messages of one type that the main loop has still to receive.       *)
Waiting(t) ==
    {m \in Message :
        /\ m.type = t
        /\ \/ \E i \in 1..Len(inputChan) : inputChan[i] = m
           \/ \E u \in DataTypes : held[u] = <<m>>}

(* Each uplink holds one message at most, newer than those of its type in  *)
(* the channel, which takes them in the order they were built.             *)
QueueInv ==
    /\ \A t \in DataTypes : held[t] = <<>> \/ \E m \in Message : held[t] = <<m>> /\ m.type = t
    /\ \A i, j \in 1..Len(inputChan) :
          i < j /\ inputChan[i].type = inputChan[j].type => Later(inputChan[i], inputChan[j])
    /\ \A t \in DataTypes, m \in Message, i \in 1..Len(inputChan) :
          held[t] = <<m>> /\ inputChan[i].type = t => Later(inputChan[i], m)
    /\ \A t \in DataTypes : \A m \in Waiting(t) : m.id <= sent /\ m.ts <= clock

LEMMA QueueInit == Init => QueueInv
<1>. SUFFICES ASSUME Init PROVE QueueInv
  OBVIOUS
<1>1. /\ \A t \in DataTypes : held[t] = <<>>
      /\ 1..Len(inputChan) = {}
  BY DEF Init
<1>2. \A m \in Message : <<m>> # <<>>
  OBVIOUS
<1>3. \A t : Waiting(t) = {}
  BY <1>1, <1>2 DEF Waiting
<1>. QED BY <1>1, <1>2, <1>3 DEF QueueInv

(* What is waiting after a step was waiting before or has just been built. *)
LEMMA WaitingStep ==
    ASSUME TypeOK, QueueInv, [Next]_vars
    PROVE  /\ sent' \in Nat /\ clock' \in Nat /\ sent <= sent' /\ clock <= clock'
           /\ \A t \in DataTypes : \A m \in Waiting(t)' :
                 m \in Waiting(t) \/ (sent < m.id /\ m.id <= sent' /\ m.ts = clock')
           /\ QueueInv'
           /\ MainReceive => \A m : m = Head(inputChan) =>
                 m \in Waiting(m.type) /\ \A n \in Waiting(m.type)' : Later(m, n)
<1>0. /\ clock \in Nat /\ sent \in Nat
      /\ held \in [DataTypes -> Seq(Message)] /\ inputChan \in Seq(Message)
  BY DEF TypeOK
<1>1. ASSUME UNCHANGED <<clock, sent, held, inputChan>>
      PROVE  /\ sent' \in Nat /\ clock' \in Nat /\ sent <= sent' /\ clock <= clock'
             /\ \A t : Waiting(t)' = Waiting(t)
             /\ QueueInv'
  <2>1. \A t : Waiting(t)' = Waiting(t)
    BY <1>1 DEF Waiting
  <2>2. QueueInv'
    BY <1>1, <2>1 DEF QueueInv
  <2>. QED BY <1>0, <1>1, <2>1, <2>2
<1>2. ASSUME NEW t \in DataTypes, UplinkBuild(t)
      PROVE  /\ sent' \in Nat /\ clock' \in Nat /\ sent <= sent' /\ clock <= clock'
             /\ \A u \in DataTypes : \A m \in Waiting(u)' :
                   m \in Waiting(u) \/ (sent < m.id /\ m.id <= sent' /\ m.ts = clock')
             /\ QueueInv'
  <2>1. PICK tick \in {0, 1}, P \in IF t = "event" THEN {{}} ELSE MsgPoints :
          /\ clock' = clock + tick
          /\ held' = [held EXCEPT ![t] =
               <<[id |-> sent + 1, type |-> t, ts |-> clock + tick, points |-> P]>>]
    BY <1>2 DEF UplinkBuild
  <2>. DEFINE new == [id |-> sent + 1, type |-> t, ts |-> clock + tick, points |-> P]
  <2>2. new \in Message
    BY <1>0, StorageAssumption DEF Message
  <2>3. new.id = sent + 1 /\ new.type = t /\ new.ts = clock'
    BY <2>1
  <2>4. held' = [held EXCEPT ![t] = <<new>>]
    BY <2>1
  <2>. HIDE DEF new
  <2>5. /\ sent' = sent + 1 /\ inputChan' = inputChan
        /\ sent' \in Nat /\ clock' \in Nat /\ sent <= sent' /\ clock <= clock'
    BY <1>0, <1>2, <2>1 DEF UplinkBuild
  <2>6. ASSUME NEW u \in DataTypes, NEW m \in Waiting(u)'
        PROVE  m \in Waiting(u) \/ m = new
    <3>1. m \in Message /\ m.type = u
      BY DEF Waiting
    <3>2. CASE \E i \in 1..Len(inputChan) : inputChan[i] = m
      BY <3>1, <3>2 DEF Waiting
    <3>3. ASSUME NEW v \in DataTypes, held'[v] = <<m>>
          PROVE  m \in Waiting(u) \/ m = new
      <4>1. CASE v = t
        BY <1>0, <2>4, <3>3, <4>1
      <4>2. CASE v # t
        BY <1>0, <2>4, <3>1, <3>3, <4>2 DEF Waiting
      <4>. QED BY <4>1, <4>2
    <3>. QED BY <2>5, <3>2, <3>3 DEF Waiting
  <2>7. \A u \in DataTypes : \A m \in Waiting(u)' :
           m \in Waiting(u) \/ (sent < m.id /\ m.id <= sent' /\ m.ts = clock')
    BY <1>0, <2>3, <2>5, <2>6
  <2>8. \A u \in DataTypes : \A m \in Waiting(u)' : m.id <= sent' /\ m.ts <= clock'
    <3>1. ASSUME NEW u \in DataTypes, NEW m \in Waiting(u)'
          PROVE  m.id <= sent' /\ m.ts <= clock'
      <4>1. m.id \in Nat /\ m.ts \in Nat
        BY DEF Waiting, Message
      <4>2. m \in Waiting(u) => m.id <= sent /\ m.ts <= clock
        BY DEF QueueInv
      <4>. QED BY <1>0, <2>5, <2>7, <4>1, <4>2
    <3>. QED BY <3>1
  <2>9. \A u \in DataTypes :
           held'[u] = <<>> \/ \E m \in Message : held'[u] = <<m>> /\ m.type = u
    BY <1>0, <2>2, <2>3, <2>4 DEF QueueInv
  <2>10. ASSUME NEW u \in DataTypes, NEW m \in Message, NEW i \in 1..Len(inputChan),
                held'[u] = <<m>>, inputChan[i].type = u
         PROVE  Later(inputChan[i], m)
    <3>1. CASE u # t
      BY <1>0, <2>4, <2>10, <3>1 DEF QueueInv
    <3>2. CASE u = t
      <4>1. m = new
        BY <1>0, <2>4, <2>10, <3>2
      <4>2. inputChan[i] \in Waiting(u) /\ inputChan[i] \in Message
        BY <1>0, <2>10 DEF Waiting
      <4>3. inputChan[i].id <= sent /\ inputChan[i].ts <= clock
        BY <4>2 DEF QueueInv
      <4>4. inputChan[i].id \in Nat /\ inputChan[i].ts \in Nat
        BY <4>2 DEF Message
      <4>. QED BY <1>0, <2>3, <2>5, <4>1, <4>3, <4>4 DEF Later
    <3>. QED BY <3>1, <3>2
  <2>11. QueueInv'
    <3>1. \A i, j \in 1..Len(inputChan') :
            i < j /\ inputChan'[i].type = inputChan'[j].type => Later(inputChan'[i], inputChan'[j])
      BY <2>5 DEF QueueInv
    <3>2. \A u \in DataTypes, m \in Message, i \in 1..Len(inputChan') :
            held'[u] = <<m>> /\ inputChan'[i].type = u => Later(inputChan'[i], m)
      BY <2>5, <2>10
    <3>. QED BY <2>8, <2>9, <3>1, <3>2 DEF QueueInv, Later
  <2>. QED BY <2>5, <2>7, <2>11
<1>3. ASSUME NEW t \in DataTypes, UplinkSend(t)
      PROVE  /\ UNCHANGED <<clock, sent>>
             /\ \A u \in DataTypes : Waiting(u)' \subseteq Waiting(u)
             /\ QueueInv'
  <2>1. PICK m \in Message : held[t] = <<m>> /\ m.type = t
    BY <1>3 DEF UplinkSend, QueueInv
  <2>2. inputChan' = Append(inputChan, m) /\ held' = [held EXCEPT ![t] = <<>>]
        /\ UNCHANGED <<clock, sent>>
    BY <1>3, <2>1 DEF UplinkSend
  <2>3. /\ inputChan' \in Seq(Message)
        /\ Len(inputChan') = Len(inputChan) + 1
        /\ inputChan'[Len(inputChan) + 1] = m
        /\ \A i \in 1..Len(inputChan) : inputChan'[i] = inputChan[i]
        /\ Len(inputChan) \in Nat
    BY <1>0, <2>2
  <2>4. \A u \in DataTypes : Waiting(u)' \subseteq Waiting(u)
    <3>1. ASSUME NEW u \in DataTypes, NEW n \in Waiting(u)'
          PROVE  n \in Waiting(u)
      <4>1. n \in Message /\ n.type = u
        BY DEF Waiting
      <4>2. CASE \E i \in 1..Len(inputChan') : inputChan'[i] = n
        <5>1. PICK i \in 1..Len(inputChan') : inputChan'[i] = n
          BY <4>2
        <5>2. i \in 1..Len(inputChan) \/ i = Len(inputChan) + 1
          BY <2>3
        <5>3. CASE i \in 1..Len(inputChan)
          BY <2>3, <4>1, <5>1, <5>3 DEF Waiting
        <5>4. CASE i = Len(inputChan) + 1
          BY <2>1, <2>3, <4>1, <5>1, <5>4 DEF Waiting
        <5>. QED BY <5>2, <5>3, <5>4
      <4>3. ASSUME NEW v \in DataTypes, held'[v] = <<n>>
            PROVE  n \in Waiting(u)
        <5>1. v # t
          BY <1>0, <2>2, <4>3
        <5>2. held[v] = <<n>>
          BY <1>0, <2>2, <4>3, <5>1
        <5>. QED BY <4>1, <5>2 DEF Waiting
      <4>. QED BY <4>2, <4>3 DEF Waiting
    <3>. QED BY <3>1
  <2>5. \A u \in DataTypes : held'[u] = <<>> \/ (u # t /\ held'[u] = held[u])
    BY <1>0, <2>2
  <2>6. \A u \in DataTypes :
           held'[u] = <<>> \/ \E n \in Message : held'[u] = <<n>> /\ n.type = u
    BY <2>5 DEF QueueInv
  <2>7. ASSUME NEW i \in 1..Len(inputChan'), NEW j \in 1..Len(inputChan'),
               i < j, inputChan'[i].type = inputChan'[j].type
        PROVE  Later(inputChan'[i], inputChan'[j])
    <3>1. i \in 1..Len(inputChan) /\ (j \in 1..Len(inputChan) \/ j = Len(inputChan) + 1)
      BY <2>3, <2>7
    <3>2. CASE j \in 1..Len(inputChan)
      BY <2>3, <2>7, <3>1, <3>2 DEF QueueInv
    <3>3. CASE j = Len(inputChan) + 1
      BY <2>1, <2>3, <2>7, <3>1, <3>3 DEF QueueInv
    <3>. QED BY <3>1, <3>2, <3>3
  <2>8. ASSUME NEW u \in DataTypes, NEW n \in Message, NEW i \in 1..Len(inputChan'),
               held'[u] = <<n>>, inputChan'[i].type = u
        PROVE  Later(inputChan'[i], n)
    <3>0. <<n>> # <<>>
      OBVIOUS
    <3>1. u # t /\ held[u] = <<n>>
      BY <2>5, <2>8, <3>0
    <3>2. i \in 1..Len(inputChan)
      BY <2>1, <2>3, <2>8, <3>1
    <3>. QED BY <2>3, <2>8, <3>1, <3>2 DEF QueueInv
  <2>9. \A u \in DataTypes : \A n \in Waiting(u)' : n.id <= sent' /\ n.ts <= clock'
    BY <2>2, <2>4 DEF QueueInv
  <2>10. QueueInv'
    BY <2>6, <2>7, <2>8, <2>9 DEF QueueInv, Later
  <2>. QED BY <2>2, <2>4, <2>10
<1>4. ASSUME MainReceive
      PROVE  /\ UNCHANGED <<clock, sent>>
             /\ \A u \in DataTypes : Waiting(u)' \subseteq Waiting(u)
             /\ QueueInv'
             /\ \A m : m = Head(inputChan) =>
                   m \in Waiting(m.type) /\ \A n \in Waiting(m.type)' : Later(m, n)
  <2>1. UNCHANGED <<clock, sent, held>> /\ inputChan # <<>> /\ inputChan' = Tail(inputChan)
    BY <1>4 DEF MainReceive
  <2>m. PICK m \in Message : m = Head(inputChan)
    BY <1>0, <2>1
  <2>2. /\ m \in Message /\ m = inputChan[1] /\ 1 \in 1..Len(inputChan)
        /\ inputChan' \in Seq(Message)
        /\ Len(inputChan') = Len(inputChan) - 1
        /\ \A i \in 1..Len(inputChan') : inputChan'[i] = inputChan[i + 1] /\ i + 1 \in 1..Len(inputChan)
        /\ Len(inputChan) \in Nat
    BY <1>0, <2>1, <2>m
  <2>3. m \in Waiting(m.type)
    BY <2>2 DEF Waiting
  <2>4. \A u \in DataTypes : Waiting(u)' \subseteq Waiting(u)
    BY <2>1, <2>2 DEF Waiting
  <2>5. ASSUME NEW n \in Waiting(m.type)'
        PROVE  Later(m, n)
    <3>1. n \in Message /\ n.type = m.type
      BY DEF Waiting
    <3>2. CASE \E i \in 1..Len(inputChan') : inputChan'[i] = n
      <4>1. PICK i \in 1..Len(inputChan') : inputChan'[i] = n
        BY <3>2
      <4>2. i + 1 \in 1..Len(inputChan) /\ inputChan[i + 1] = n /\ 1 < i + 1
        BY <2>2, <4>1
      <4>. QED BY <2>2, <3>1, <4>2 DEF QueueInv
    <3>3. ASSUME NEW u \in DataTypes, held[u] = <<n>>
          PROVE  Later(m, n)
      <4>1. PICK k \in Message : held[u] = <<k>> /\ k.type = u
        BY <3>3 DEF QueueInv
      <4>2. k = n
        BY <3>3, <4>1
      <4>. QED BY <2>2, <3>1, <3>3, <4>1, <4>2 DEF QueueInv
    <3>. QED BY <2>1, <3>2, <3>3 DEF Waiting
  <2>6. ASSUME NEW i \in 1..Len(inputChan'), NEW j \in 1..Len(inputChan'),
               i < j, inputChan'[i].type = inputChan'[j].type
        PROVE  Later(inputChan'[i], inputChan'[j])
    <3>1. /\ inputChan'[i] = inputChan[i + 1] /\ i + 1 \in 1..Len(inputChan)
          /\ inputChan'[j] = inputChan[j + 1] /\ j + 1 \in 1..Len(inputChan)
          /\ i + 1 < j + 1
      BY <2>2, <2>6
    <3>. QED BY <2>6, <3>1 DEF QueueInv
  <2>7. ASSUME NEW u \in DataTypes, NEW n \in Message, NEW i \in 1..Len(inputChan'),
               held'[u] = <<n>>, inputChan'[i].type = u
        PROVE  Later(inputChan'[i], n)
    <3>1. inputChan'[i] = inputChan[i + 1] /\ i + 1 \in 1..Len(inputChan)
      BY <2>2
    <3>. QED BY <2>1, <2>7, <3>1 DEF QueueInv
  <2>8. \A u \in DataTypes :
           held'[u] = <<>> \/ \E n \in Message : held'[u] = <<n>> /\ n.type = u
    BY <2>1 DEF QueueInv
  <2>9. \A u \in DataTypes : \A n \in Waiting(u)' : n.id <= sent' /\ n.ts <= clock'
    BY <2>1, <2>4 DEF QueueInv
  <2>10. QueueInv'
    BY <2>6, <2>7, <2>8, <2>9 DEF QueueInv, Later
  <2>. QED BY <2>1, <2>3, <2>4, <2>5, <2>10, <2>m
<1>5. \/ UNCHANGED <<clock, sent, held, inputChan>>
      \/ \E t \in DataTypes : UplinkBuild(t)
      \/ \E t \in DataTypes : UplinkSend(t)
      \/ MainReceive
  BY DEF Next, Uplink, UplinkSendClosed, UplinkExit,
         Main, MainExit, MainFlush, Ticker, TickerFlush, FlushRemaining, TickerCancel,
         TakeBatch, Flush, BatchCommit, BatchError, FallbackRow, FallbackError, FallbackDone,
         FallbackPanic, vars, env, Stop, StopStep, StopUplinks, CloseInput, CancelCtx, CloseStopCh,
         WaitMain, WaitWriter
<1>6. clock <= clock /\ sent <= sent
  BY <1>0
<1>. QED BY <1>0, <1>1, <1>2, <1>3, <1>4, <1>5, <1>6

-----------------------------------------------------------------------------
(* The order in which rows reach the tables.                               *)

(* A row came from a message older than those of a type still to come.     *)
Ahead(r, t) ==
    /\ r.val <= sent /\ r.ts <= clock
    /\ \A m \in Waiting(t) : r.val < m.id /\ r.ts <= m.ts

(* The telemetry rows that a flusher has taken out of the buffer.          *)
Taken ==
    history \cup current \cup failed \cup UNION {pending[f] \cup latest[f] : f \in Flushers}

OrderInv ==
    /\ \A r \in attributes : Ahead(r, "attribute")
    /\ \A r \in Taken \cup BatchPoints(buffer) : Ahead(r, "telemetry")
    /\ \A r \in Taken, q \in BatchPoints(buffer) : r.val < q.val /\ r.ts <= q.ts

(* The values of a message are its own.                                    *)
LEMMA PointOf ==
    ASSUME NEW m \in Message, NEW r \in Points(m)
    PROVE  r \in Row /\ r.val = m.id /\ r.ts = m.ts
BY DEF Points, Message, Row

(* A step brings no message that is older than a row already on its way.   *)
LEMMA AheadKept ==
    ASSUME TypeOK, QueueInv, [Next]_vars, NEW t, NEW r \in Row, Ahead(r, t)
    PROVE  Ahead(r, t)'
<1>0. r.val \in Nat /\ r.ts \in Nat /\ sent \in Nat /\ clock \in Nat
  BY DEF Row, TypeOK
<1>1. /\ sent' \in Nat /\ clock' \in Nat /\ sent <= sent' /\ clock <= clock'
      /\ \A m \in Waiting(t)' :
            m \in Waiting(t) \/ (sent < m.id /\ m.id <= sent' /\ m.ts = clock')
  <2>1. t \notin DataTypes => Waiting(t)' = {}
    BY DEF Waiting, Message
  <2>. QED BY <2>1, WaitingStep
<1>2. r.val <= sent /\ r.ts <= clock /\ \A m \in Waiting(t) : r.val < m.id /\ r.ts <= m.ts
  BY DEF Ahead
<1>3. ASSUME NEW m \in Waiting(t)'
      PROVE  r.val < m.id /\ r.ts <= m.ts
  <2>1. m.id \in Nat /\ m.ts \in Nat
    BY DEF Waiting, Message
  <2>2. CASE m \in Waiting(t)
    BY <1>2, <2>2
  <2>3. CASE sent < m.id /\ m.id <= sent' /\ m.ts = clock'
    BY <1>0, <1>1, <1>2, <2>1, <2>3
  <2>. QED BY <1>1, <2>2, <2>3
<1>4. r.val <= sent' /\ r.ts <= clock'
  BY <1>0, <1>1, <1>2
<1>. QED BY <1>3, <1>4 DEF Ahead

(* The values of a received message are ahead of what is yet to come.      *)
LEMMA AheadNew ==
    ASSUME TypeOK, QueueInv, [Next]_vars, MainReceive,
           NEW m \in Message, m = Head(inputChan), NEW r \in Points(m)
    PROVE  Ahead(r, m.type)'
<1>0. r.val = m.id /\ r.ts = m.ts /\ m.id \in Nat /\ m.ts \in Nat
  BY PointOf DEF Message
<1>1. m \in Waiting(m.type) /\ m.type \in DataTypes /\ \A n \in Waiting(m.type)' : Later(m, n)
  BY WaitingStep DEF Message
<1>2. m.id <= sent /\ m.ts <= clock
  BY <1>1 DEF QueueInv
<1>3. UNCHANGED <<sent, clock>>
  BY DEF MainReceive
<1>. QED BY <1>0, <1>1, <1>2, <1>3 DEF Ahead, Later

(* A telemetry row is on its way only once it has been received.           *)
LEMMA TakenStep ==
    ASSUME TypeOK, [Next]_vars
    PROVE  \/ /\ Taken' \subseteq Taken \cup BatchPoints(buffer)
              /\ BatchPoints(buffer') = {}
           \/ /\ Taken' \subseteq Taken
              /\ \/ buffer' = buffer
                 \/ /\ MainReceive
                    /\ Head(inputChan) \in Message
                    /\ Head(inputChan).type = "telemetry"
                    /\ BatchPoints(buffer') = BatchPoints(buffer) \cup Points(Head(inputChan))
<1>0. /\ pending \in [Flushers -> SUBSET Row] /\ latest \in [Flushers -> SUBSET Row]
      /\ buffer \in Seq(Message) /\ inputChan \in Seq(Message)
      /\ CurrentRows(buffer) \subseteq HistoryRows(buffer)
      /\ HistoryRows(buffer) \subseteq BatchPoints(buffer)
  BY BatchRowsType DEF TypeOK, HistoryRows
<1>1. CASE UNCHANGED rows
  BY <1>1 DEF rows, Taken
<1>2. CASE MainReceive
  <2>1. Head(inputChan) \in Message
    BY <1>0, <1>2 DEF MainReceive
  <2>2. CASE ReceiveTelemetry(Head(inputChan))
    BY <1>0, <2>1, <2>2, <1>2, AppendPoints DEF ReceiveTelemetry, Taken, tables
  <2>3. CASE ReceiveAttribute(Head(inputChan)) \/ ReceiveEvent(Head(inputChan))
    BY <2>3 DEF ReceiveAttribute, ReceiveEvent, flush, Taken
  <2>. QED BY <1>2, <2>2, <2>3 DEF MainReceive
<1>3. CASE MainExit \/ TickerCancel
  BY <1>3 DEF MainExit, TickerCancel, tables, Taken
<1>4. ASSUME NEW f \in Flushers, NEW idle, TakeBatch(f, idle)
      PROVE  Taken' \subseteq Taken \cup BatchPoints(buffer) /\ BatchPoints(buffer') = {}
  <2>1. BatchPoints(buffer') = {}
    BY <1>4 DEF TakeBatch, NewBuffer, BatchPoints
  <2>2. Taken' \subseteq Taken \cup BatchPoints(buffer)
    BY <1>0, <1>4 DEF TakeBatch, tables, Taken
  <2>. QED BY <2>1, <2>2
<1>5. CASE MainFlush \/ TickerFlush \/ FlushRemaining
  BY <1>4, <1>5 DEF MainFlush, TickerFlush, FlushRemaining
<1>6. ASSUME NEW f \in Flushers, Flush(f)
      PROVE  Taken' \subseteq Taken /\ buffer' = buffer
  <2>1. buffer' = buffer
    BY <1>6 DEF Flush, BatchCommit, BatchError, FallbackRow, FallbackError, FallbackDone,
                FallbackPanic, flush
  <2>2. CASE BatchCommit(f)
    BY <1>0, <2>2 DEF BatchCommit, InsertIgnore, Upsert, Taken
  <2>3. CASE BatchError(f) \/ FallbackPanic(f)
    BY <2>3 DEF BatchError, FallbackPanic, tables, flush, Taken
  <2>4. CASE \E h \in NextRow(f), c \in latest[f] : FallbackRow(f, h, c)
    BY <1>0, <2>4 DEF NextRow, FallbackRow, InsertIgnore, Upsert, Taken
  <2>5. CASE \E h \in NextRow(f) : FallbackError(f, h)
    BY <1>0, <2>5 DEF NextRow, FallbackError, Taken
  <2>6. CASE FallbackDone(f)
    BY <1>0, <2>6 DEF FallbackDone, tables, Taken
  <2>. QED BY <1>6, <2>1, <2>2, <2>3, <2>4, <2>5, <2>6 DEF Flush
<1>. QED BY <1>1, <1>2, <1>3, <1>5, <1>6, StepCases

LEMMA OrderInit == Init => OrderInv
BY DEF Init, OrderInv, Taken, BatchPoints

(* Rows keep their place in the order, wherever a step puts them.          *)
LEMMA OrderNext ==
    ASSUME TypeOK, QueueInv, OrderInv, [Next]_vars
    PROVE  OrderInv'
<1>0. /\ inputChan \in Seq(Message) /\ attributes \subseteq Row
      /\ Taken \subseteq Row /\ BatchPoints(buffer) \subseteq Row
  BY BatchPointsType DEF TypeOK, Taken
<1>1. ASSUME NEW r \in attributes'
      PROVE  Ahead(r, "attribute")'
  <2>1. CASE r \in attributes
    BY <1>0, <1>1, <2>1, AheadKept DEF OrderInv
  <2>2. CASE r \notin attributes
    <3>1. /\ MainReceive /\ Head(inputChan) \in Message
          /\ Head(inputChan).type = "attribute" /\ r \in Points(Head(inputChan))
      <4>1. ASSUME NEW m \in Message, ReceiveAttribute(m)
            PROVE  m.type = "attribute" /\ r \in Points(m)
        BY <1>1, <2>2, <4>1 DEF ReceiveAttribute, Upsert
      <4>2. MainReceive /\ Head(inputChan) \in Message /\ ReceiveAttribute(Head(inputChan))
        <5>1. CASE MainReceive
          BY <1>0, <1>1, <2>2, <5>1 DEF MainReceive, ReceiveTelemetry, ReceiveEvent, tables
        <5>2. CASE ~MainReceive
          BY <1>1, <2>2, <5>2
             DEF Next, Uplink, UplinkBuild, UplinkSend, UplinkSendClosed, UplinkExit, Main,
                 MainExit, MainFlush, Ticker, TickerFlush, FlushRemaining, TickerCancel,
                 TakeBatch, Flush, BatchCommit, BatchError, FallbackRow, FallbackError,
                 FallbackDone, FallbackPanic, vars, tables, Stop, StopStep, StopUplinks,
                 CloseInput, CancelCtx, CloseStopCh, WaitMain, WaitWriter
        <5>. QED BY <5>1, <5>2
      <4>. QED BY <4>1, <4>2
    <3>2. PICK m \in Message : m = Head(inputChan)
      BY <3>1
    <3>. QED BY <3>1, <3>2, AheadNew
  <2>. QED BY <2>1, <2>2
<1>2. ASSUME NEW r \in Taken' \cup BatchPoints(buffer')
      PROVE  Ahead(r, "telemetry")'
  <2>1. CASE r \in Taken \cup BatchPoints(buffer)
    BY <1>0, <1>2, <2>1, AheadKept DEF OrderInv
  <2>2. CASE r \notin Taken \cup BatchPoints(buffer)
    <3>1. /\ MainReceive /\ Head(inputChan) \in Message
          /\ Head(inputChan).type = "telemetry" /\ r \in Points(Head(inputChan))
      BY <1>2, <2>2, TakenStep
    <3>2. PICK m \in Message : m = Head(inputChan)
      BY <3>1
    <3>. QED BY <3>1, <3>2, AheadNew
  <2>. QED BY <2>1, <2>2
<1>3. ASSUME NEW r \in Taken', NEW q \in BatchPoints(buffer')
      PROVE  r.val < q.val /\ r.ts <= q.ts
  <2>1. r \in Taken
    BY <1>3, TakenStep
  <2>2. CASE q \in BatchPoints(buffer)
    BY <2>1, <2>2 DEF OrderInv
  <2>3. CASE q \notin BatchPoints(buffer)
    <3>1. /\ MainReceive /\ Head(inputChan) \in Message
          /\ Head(inputChan).type = "telemetry" /\ q \in Points(Head(inputChan))
      BY <1>3, <2>3, TakenStep
    <3>2. PICK m \in Message : m = Head(inputChan)
      BY <3>1
    <3>3. m \in Waiting("telemetry")
      BY <3>1, <3>2, WaitingStep
    <3>4. r.val < m.id /\ r.ts <= m.ts
      BY <2>1, <3>3 DEF OrderInv, Ahead
    <3>5. q.val = m.id /\ q.ts = m.ts
      BY <3>1, <3>2, PointOf
    <3>. QED BY <3>4, <3>5
  <2>. QED BY <2>2, <2>3
<1>. QED BY <1>1, <1>2, <1>3 DEF OrderInv

(* Whatever a batch contains is newer than every row of the other one.     *)
LEMMA HandedOffStep ==
    ASSUME TypeOK, IdleEmpty, OrderInv, HandedOffOnce, [Next]_vars, OrderInv'
    PROVE  HandedOffOnce'
<1>0. /\ pending \in [Flushers -> SUBSET Row]
      /\ BatchPoints(buffer) \subseteq Row /\ HistoryRows(buffer) \subseteq BatchPoints(buffer)
      /\ pending["main"] \cap pending["ticker"] = {}
  BY BatchPointsType DEF TypeOK, HandedOffOnce, HistoryRows
<1>1. ASSUME NEW f \in Flushers, NEW r \in pending[f]', r \in BatchPoints(buffer)'
      PROVE  FALSE
  <2>1. r \in Taken' /\ BatchPoints(buffer)' \subseteq Row
    <3>1. r \in Taken'
      BY <1>1 DEF Taken
    <3>2. BatchPoints(buffer) \subseteq Row /\ \A m \in Message : Points(m) \subseteq Row
      BY <1>0, PointOf
    <3>. QED BY <3>1, <3>2, TakenStep
  <2>2. r.val \in Nat /\ r.val < r.val
    BY <1>1, <2>1 DEF OrderInv, Row
  <2>. QED BY <2>2
<1>2. ASSUME NEW f \in Flushers, NEW idle, TakeBatch(f, idle)
      PROVE  pending'["main"] \cap pending'["ticker"] = {}
  <2>1. \A g \in Flushers : pending[g] \cap BatchPoints(buffer) = {}
    BY DEF HandedOffOnce
  <2>2. pending' = [pending EXCEPT ![f] = HistoryRows(buffer)]
    BY <1>2 DEF TakeBatch
  <2>. QED BY <1>0, <2>1, <2>2
<1>3. ASSUME \A f \in Flushers : pending'[f] \subseteq pending[f]
      PROVE  pending'["main"] \cap pending'["ticker"] = {}
  BY <1>0, <1>3
<1>4. ASSUME NEW f \in Flushers, Flush(f)
      PROVE  \A g \in Flushers : pending'[g] \subseteq pending[g]
  BY <1>0, <1>4 DEF Flush, BatchCommit, BatchError, FallbackRow, FallbackError, FallbackDone,
                    FallbackPanic, flush
<1>5. \/ \A f \in Flushers : pending'[f] \subseteq pending[f]
      \/ \E f \in Flushers, idle \in {"select", "done"} : TakeBatch(f, idle)
  <2>1. CASE UNCHANGED rows
    BY <2>1 DEF rows
  <2>2. CASE ReceiveTelemetry(Head(inputChan))
    BY <2>2 DEF ReceiveTelemetry
  <2>3. CASE MainExit \/ TickerCancel
    BY <2>3 DEF MainExit, TickerCancel
  <2>4. CASE MainFlush \/ TickerFlush \/ FlushRemaining
    BY <2>4 DEF MainFlush, TickerFlush, FlushRemaining
  <2>. QED BY <1>4, <2>1, <2>2, <2>3, <2>4, StepCases
<1>6. pending'["main"] \cap pending'["ticker"] = {}
  BY <1>2, <1>3, <1>5
<1>. QED BY <1>1, <1>6 DEF HandedOffOnce

(* However the main loop and the ticker interleave, no point is in two     *)
(* batches, nor in a batch and still in the buffer.                        *)
THEOREM BatchesAreDisjoint == Spec => []HandedOffOnce
<1>. DEFINE Inv == QueueInv /\ IdleEmpty /\ OrderInv /\ HandedOffOnce
<1>1. Init => Inv
  BY QueueInit, OrderInit DEF Init, IdleEmpty, HandedOffOnce
<1>2. TypeOK /\ Inv /\ [Next]_vars => Inv'
  BY WaitingStep, IdleEmptyStep, OrderNext, HandedOffStep
<1>3. Inv => HandedOffOnce
  OBVIOUS
<1>. QED BY <1>1, <1>2, <1>3, TypeCorrect, PTL DEF Spec

(* A stored attribute gives way only to one that is as new.                *)
LEMMA AttributeStep ==
    ASSUME TypeOK, QueueInv, OrderInv, [Next]_vars, NEW r \in attributes
    PROVE  \E q \in attributes' : q.series = r.series /\ q.ts >= r.ts
<1>0. r \in Row /\ r.ts \in Nat /\ r.ts >= r.ts /\ inputChan \in Seq(Message)
  <2>1. r \in Row /\ inputChan \in Seq(Message)
    BY DEF TypeOK
  <2>2. r.ts \in Nat
    BY <2>1 DEF Row
  <2>. QED BY <2>1, <2>2
<1>1. CASE attributes' = attributes
  BY <1>0, <1>1
<1>2. ASSUME MainReceive, NEW m \in Message, m = Head(inputChan), ReceiveAttribute(m)
      PROVE  \E q \in attributes' : q.series = r.series /\ q.ts >= r.ts
  <2>1. PICK bad \in SUBSET Points(m) : attributes' = Upsert(attributes, Points(m) \ bad)
    BY <1>2 DEF ReceiveAttribute
  <2>2. CASE \E q \in Points(m) \ bad : q.series = r.series
    <3>1. PICK q \in Points(m) \ bad : q.series = r.series
      BY <2>2
    <3>2. m \in Waiting("attribute")
      BY <1>2, WaitingStep DEF ReceiveAttribute
    <3>3. r.ts <= m.ts /\ m.ts \in Nat
      BY <3>2 DEF OrderInv, Ahead, Message
    <3>4. q.ts >= r.ts
      BY <1>0, <3>1, <3>3, PointOf
    <3>5. q \in attributes'
      BY <2>1, <3>1 DEF Upsert
    <3>. QED BY <3>1, <3>4, <3>5
  <2>3. CASE \A q \in Points(m) \ bad : q.series # r.series
    <3>1. r \in attributes'
      BY <2>1, <2>3 DEF Upsert
    <3>. QED BY <1>0, <3>1
  <2>. QED BY <2>2, <2>3
<1>3. \/ attributes' = attributes
      \/ MainReceive /\ Head(inputChan) \in Message /\ ReceiveAttribute(Head(inputChan))
  <2>1. CASE MainReceive
    BY <1>0, <2>1 DEF MainReceive, ReceiveTelemetry, ReceiveEvent, tables
  <2>2. CASE ~MainReceive
    BY <2>2
       DEF Next, Uplink, UplinkBuild, UplinkSend, UplinkSendClosed, UplinkExit, Main,
           MainExit, MainFlush, Ticker, TickerFlush, FlushRemaining, TickerCancel,
           TakeBatch, Flush, BatchCommit, BatchError, FallbackRow, FallbackError,
           FallbackDone, FallbackPanic, vars, tables, Stop, StopStep, StopUplinks,
           CloseInput, CancelCtx, CloseStopCh, WaitMain, WaitWriter
  <2>. QED BY <2>1, <2>2
<1>. QED BY <1>1, <1>2, <1>3

(* The stored value of an attribute never goes back in time.               *)
THEOREM AttributesMoveForward == Spec => AttributeMonotone
<1>. DEFINE Inv == QueueInv /\ OrderInv
<1>1. Init => Inv
  BY QueueInit, OrderInit
<1>2. TypeOK /\ Inv /\ [Next]_vars => Inv'
  BY WaitingStep, OrderNext
<1>3. TypeOK /\ Inv /\ [Next]_vars =>
        [\A r \in attributes : \E q \in attributes' :
            q.series = r.series /\ q.ts >= r.ts]_attributes
  BY AttributeStep
<1>. QED BY <1>1, <1>2, <1>3, TypeCorrect, PTL DEF Spec, AttributeMonotone

-----------------------------------------------------------------------------
(* One flusher and a working database: the tables are a LatestValueStore.  *)

(* A non-empty set of naturals with an upper bound has a greatest element. *)
LEMMA NatMaximum ==
    ASSUME NEW T \in SUBSET Nat, T # {}, NEW n \in Nat, \A x \in T : x <= n
    PROVE  \E x \in T : \A y \in T : y <= x
<1>. DEFINE U == {n - x : x \in T}
<1>1. U \in SUBSET Nat /\ U # {}
  <2>1. \A x \in T : n - x \in Nat
    OBVIOUS
  <2>2. \E x \in T : n - x \in U
    OBVIOUS
  <2>. QED BY <2>1, <2>2
<1>2. PICK u \in U : \A v \in U : u <= v
  BY <1>1, NatMinimum
<1>3. PICK x \in T : u = n - x
  BY <1>2
<1>4. ASSUME NEW y \in T PROVE y <= x
  <2>1. u <= n - y /\ x \in Nat /\ y \in Nat
    BY <1>2
  <2>. QED BY <1>3, <2>1
<1>. QED BY <1>4

(* Deduplication leaves one row for each device, key and timestamp.        *)
LEMMA HistoryRowsUnique ==
    ASSUME NEW b \in Seq(Message)
    PROVE  Store!UniqueHistory(HistoryRows(b))
<1>1. ASSUME NEW r \in HistoryRows(b), NEW q \in HistoryRows(b),
             r.series = q.series, r.ts = q.ts
      PROVE  r = q
  <2>1. r \in BatchPoints(b) /\ q \in BatchPoints(b) /\ r \in Row /\ q \in Row
    BY BatchPointsType DEF HistoryRows
  <2>2. r.val <= q.val /\ q.val <= r.val
    BY <1>1, <2>1 DEF HistoryRows, SameKey
  <2>3. r.val \in Nat /\ q.val \in Nat
    BY <2>1 DEF Row
  <2>4. r.val = q.val
    BY <2>2, <2>3
  <2>. QED BY <1>1, <2>1, <2>4 DEF Row
<1>. QED BY <1>1 DEF Store!UniqueHistory

(* The current rows of a batch: one for each series it has values of, and  *)
(* as new as any of them.                                                  *)
LEMMA CurrentRowsLatest ==
    ASSUME NEW b \in Seq(Message), NEW n \in Nat, \A r \in BatchPoints(b) : r.ts <= n
    PROVE  /\ Store!UniqueCurrent(CurrentRows(b))
           /\ \A h \in HistoryRows(b) : \E c \in CurrentRows(b) :
                 c.series = h.series /\ c.ts >= h.ts
<1>0. HistoryRows(b) \subseteq Row /\ \A r \in HistoryRows(b) : r.ts <= n
  BY BatchPointsType DEF HistoryRows
<1>1. ASSUME NEW r \in CurrentRows(b), NEW q \in CurrentRows(b), r.series = q.series
      PROVE  r = q
  <2>1. r \in HistoryRows(b) /\ q \in HistoryRows(b) /\ q.ts <= r.ts /\ r.ts <= q.ts
    BY <1>1 DEF CurrentRows
  <2>2. r.ts \in Nat /\ q.ts \in Nat
    BY <1>0, <2>1 DEF Row
  <2>3. r.ts = q.ts
    BY <2>1, <2>2
  <2>. QED BY <1>1, <2>1, <2>3, HistoryRowsUnique DEF Store!UniqueHistory
<1>2. ASSUME NEW h \in HistoryRows(b)
      PROVE  \E c \in CurrentRows(b) : c.series = h.series /\ c.ts >= h.ts
  <2>. DEFINE S == {q \in HistoryRows(b) : q.series = h.series}
              T == {q.ts : q \in S}
  <2>0. S \subseteq Row /\ h \in S /\ \A q \in S : q.ts <= n
    BY <1>0
  <2>1. T \in SUBSET Nat /\ T # {} /\ \A x \in T : x <= n
    BY <2>0 DEF Row
  <2>2. PICK x \in T : \A y \in T : y <= x
    BY <2>1, NatMaximum
  <2>3. PICK c \in S : c.ts = x
    OBVIOUS
  <2>4. \A q \in HistoryRows(b) : q.series = c.series => q.ts <= c.ts
    BY <2>2, <2>3
  <2>5. c \in CurrentRows(b)
    BY <2>4 DEF CurrentRows
  <2>6. h.ts <= c.ts /\ h.ts \in Nat /\ c.ts \in Nat
    BY <2>1, <2>4 DEF CurrentRows
  <2>. QED BY <2>5, <2>6
<1>. QED BY <1>1, <1>2 DEF Store!UniqueCurrent

(* A batch on its way is itself consistent, and newer than the tables.     *)
BatchInv ==
    /\ pc["ticker"] = "off" /\ pending["ticker"] = {} /\ latest["ticker"] = {}
    /\ pc["main"] # "fallback"
    /\ latest["main"] \subseteq pending["main"]
    /\ Store!UniqueHistory(pending["main"]) /\ Store!UniqueCurrent(latest["main"])
    /\ \A h \in pending["main"] : \E c \in latest["main"] : c.series = h.series /\ c.ts >= h.ts
    /\ \A r \in history \cup current, q \in pending["main"] : r.ts <= q.ts

TableInv ==
    /\ Store!UniqueHistory(history) /\ Store!UniqueCurrent(current)
    /\ Store!Consistent(history, current)

(* A step of one flusher: it takes the buffer, commits it, or neither.     *)
LEMMA OneFlusherCases ==
    ASSUME TypeOK, BatchInv, [Next]_vars, \A f \in Flushers : ~BatchError(f)
    PROVE  \/ /\ UNCHANGED <<pending, latest, history, current>>
              /\ pc'["ticker"] = "off" /\ pc'["main"] # "fallback"
           \/ \E idle \in {"select", "done"} : TakeBatch("main", idle)
           \/ BatchCommit("main")
<1>0. pc \in [Flushers -> {"off", "select", "flush", "insert", "fallback", "done"}]
      /\ pc["ticker"] = "off" /\ pc["main"] # "fallback"
  BY DEF TypeOK, BatchInv
<1>1. CASE UNCHANGED rows
  BY <1>0, <1>1 DEF rows
<1>2. CASE ReceiveTelemetry(Head(inputChan)) /\ UNCHANGED <<history, current, failed>>
  BY <1>0, <1>2 DEF ReceiveTelemetry
<1>3. CASE MainExit \/ TickerCancel
  BY <1>0, <1>3 DEF MainExit, TickerCancel, tables
<1>4. CASE MainFlush \/ TickerFlush \/ FlushRemaining
  BY <1>0, <1>4 DEF MainFlush, TickerFlush, FlushRemaining
<1>5. ASSUME NEW f \in Flushers, Flush(f)
      PROVE  BatchCommit("main")
  BY <1>0, <1>5 DEF Flush, BatchCommit, BatchError, FallbackRow, FallbackError, FallbackDone,
                    FallbackPanic
<1>. QED BY <1>1, <1>2, <1>3, <1>4, <1>5, StepCases

(* Committing a batch is a step of the store.                              *)
LEMMA CommitIsStore ==
    ASSUME TypeOK, BatchInv, TableInv, BatchCommit("main")
    PROVE  Store!Next /\ TableInv'
<1>. DEFINE P == pending["main"]
            L == latest["main"]
<1>0. /\ history \subseteq Row /\ current \subseteq Row /\ P \subseteq Row /\ L \subseteq P
      /\ Store!UniqueHistory(P) /\ Store!UniqueCurrent(L)
      /\ Store!UniqueHistory(history) /\ Store!UniqueCurrent(current)
      /\ \A h \in P : \E c \in L : c.series = h.series /\ c.ts >= h.ts
      /\ \A r \in current, q \in P : r.ts <= q.ts
      /\ \A h \in history : \E c \in current : c.series = h.series /\ c.ts >= h.ts
      /\ \A c \in current : \E h \in history : h.series = c.series /\ h.ts = c.ts
  BY DEF TypeOK, BatchInv, TableInv, Store!Consistent
<1>1. history' = InsertIgnore(history, P) /\ current' = Upsert(current, L)
  BY DEF BatchCommit
<1>. HIDE DEF P, L
<1>2. /\ history \subseteq history' /\ history' \subseteq history \cup P
      /\ Keys(P) \subseteq Keys(history')
  BY <1>1, InsertIgnoreKeys
<1>3. Store!UniqueHistory(history')
  BY <1>0, <1>1 DEF InsertIgnore, SameKey, Store!UniqueHistory
<1>4. Store!UniqueCurrent(current')
  BY <1>0, <1>1 DEF Upsert, Store!UniqueCurrent
<1>5. ASSUME NEW c \in current
      PROVE  \E d \in current' : d.series = c.series /\ d.ts >= c.ts
  <2>1. CASE \E q \in L : c.series = q.series
    <3>1. PICK q \in L : c.series = q.series
      BY <2>1
    <3>2. q \in P /\ q \in Row /\ c \in Row /\ c.ts <= q.ts
      BY <1>0
    <3>3. q.ts >= c.ts
      BY <3>2 DEF Row
    <3>4. q \in current'
      BY <1>1 DEF Upsert
    <3>. QED BY <3>1, <3>3, <3>4
  <2>2. CASE \A q \in L : c.series # q.series
    <3>1. c \in current'
      BY <1>1, <2>2 DEF Upsert
    <3>2. c.ts \in Nat /\ c.ts >= c.ts
      <4>1. c.ts \in Nat
        BY <1>0 DEF Row
      <4>. QED BY <4>1
    <3>. QED BY <3>1, <3>2
  <2>. QED BY <2>1, <2>2
<1>6. ASSUME NEW h \in history'
      PROVE  \E c \in current' : c.series = h.series /\ c.ts >= h.ts
  <2>1. CASE h \in history
    <3>1. PICK c \in current : c.series = h.series /\ c.ts >= h.ts
      BY <1>0, <2>1
    <3>2. PICK d \in current' : d.series = c.series /\ d.ts >= c.ts
      BY <1>5
    <3>3. h.ts \in Nat /\ c.ts \in Nat /\ d.ts \in Nat
      <4>1. h \in Row /\ c \in Row /\ d \in Row
        BY <1>0, <1>1, <2>1 DEF Upsert
      <4>. QED BY <4>1 DEF Row
    <3>. QED BY <3>1, <3>2, <3>3
  <2>2. CASE h \in P
    <3>1. PICK c \in L : c.series = h.series /\ c.ts >= h.ts
      BY <1>0, <2>2
    <3>2. c \in current'
      BY <1>1 DEF Upsert
    <3>. QED BY <3>1, <3>2
  <2>. QED BY <1>2, <2>1, <2>2
<1>7. ASSUME NEW c \in current'
      PROVE  \E h \in history' : h.series = c.series /\ h.ts = c.ts
  <2>1. CASE c \in current
    BY <1>0, <1>2, <2>1
  <2>2. CASE c \in L
    <3>1. Key(c) \in Keys(history')
      BY <1>0, <1>2, <2>2 DEF Keys
    <3>. QED BY <3>1 DEF Keys, Key
  <2>. QED BY <1>1, <2>1, <2>2 DEF Upsert
<1>8. Store!Consistent(history', current')
  BY <1>6, <1>7 DEF Store!Consistent
<1>9. Store!Next
  BY <1>2, <1>3, <1>4, <1>5, <1>8 DEF Store!Next
<1>10. TableInv'
  BY <1>3, <1>4, <1>8 DEF TableInv, Store!UniqueHistory, Store!UniqueCurrent, Store!Consistent
<1>. QED BY <1>9, <1>10

(* Every step of one flusher with a working database is a step of the      *)
(* store or leaves its tables alone.                                       *)
LEMMA StepIsStore ==
    ASSUME TypeOK, IdleEmpty, OrderInv, BatchInv, TableInv, [Next]_vars,
           \A f \in Flushers : ~BatchError(f)
    PROVE  BatchInv' /\ TableInv' /\ [Store!Next]_<<history, current>>
<1>0. /\ pc \in [Flushers -> {"off", "select", "flush", "insert", "fallback", "done"}]
      /\ pending \in [Flushers -> SUBSET Row] /\ latest \in [Flushers -> SUBSET Row]
      /\ buffer \in Seq(Message) /\ clock \in Nat
  BY DEF TypeOK
<1>1. CASE /\ UNCHANGED <<pending, latest, history, current>>
           /\ pc'["ticker"] = "off" /\ pc'["main"] # "fallback"
  <2>1. BatchInv'
    BY <1>1 DEF BatchInv, Store!UniqueHistory, Store!UniqueCurrent
  <2>2. TableInv'
    BY <1>1 DEF TableInv, Store!UniqueHistory, Store!UniqueCurrent, Store!Consistent
  <2>. QED BY <1>1, <2>1, <2>2
<1>2. ASSUME NEW idle \in {"select", "done"}, TakeBatch("main", idle)
      PROVE  BatchInv' /\ TableInv' /\ [Store!Next]_<<history, current>>
  <2>1. UNCHANGED <<history, current>>
    BY <1>2 DEF TakeBatch, tables
  <2>2. TableInv'
    BY <2>1 DEF TableInv, Store!UniqueHistory, Store!UniqueCurrent, Store!Consistent
  <2>3. /\ pending'["main"] = HistoryRows(buffer) /\ latest'["main"] = CurrentRows(buffer)
        /\ pending'["ticker"] = {} /\ latest'["ticker"] = {}
        /\ pc'["ticker"] = "off" /\ pc'["main"] # "fallback"
    BY <1>0, <1>2 DEF TakeBatch, BatchInv
  <2>4. HistoryRows(buffer) \subseteq BatchPoints(buffer)
    BY DEF HistoryRows
  <2>5. \A r \in BatchPoints(buffer) : r.ts <= clock
    BY <1>0 DEF OrderInv, Ahead
  <2>6. \A r \in history \cup current, q \in BatchPoints(buffer) : r.ts <= q.ts
    BY DEF OrderInv, Taken
  <2>7. /\ CurrentRows(buffer) \subseteq HistoryRows(buffer)
        /\ Store!UniqueHistory(HistoryRows(buffer)) /\ Store!UniqueCurrent(CurrentRows(buffer))
        /\ \A h \in HistoryRows(buffer) : \E c \in CurrentRows(buffer) :
              c.series = h.series /\ c.ts >= h.ts
    BY <1>0, <2>5, BatchRowsType, HistoryRowsUnique, CurrentRowsLatest
  <2>8. BatchInv'
    BY <2>1, <2>3, <2>4, <2>6, <2>7 DEF BatchInv, Store!UniqueHistory, Store!UniqueCurrent
  <2>. QED BY <2>1, <2>2, <2>8
<1>3. CASE BatchCommit("main")
  <2>1. pending'["main"] = {} /\ latest'["main"] = {} /\ pending'["ticker"] = {} /\ latest'["ticker"] = {}
        /\ pc'["ticker"] = "off" /\ pc'["main"] # "fallback"
    BY <1>0, <1>3 DEF BatchCommit, BatchInv, Resume
  <2>2. BatchInv'
    BY <2>1 DEF BatchInv, Store!UniqueHistory, Store!UniqueCurrent
  <2>. QED BY <1>3, <2>2, CommitIsStore
<1>. QED BY <1>1, <1>2, <1>3, OneFlusherCases

(* The ticker is the only other goroutine that writes telemetry, and the   *)
(* tables are one store as long as it is off and no statement fails.       *)
OneFlusher == TickerOn = FALSE /\ MaxDbErrors = 0

(* With one flusher and a working database the history and the current     *)
(* table behave as a store of latest values: the abstract specification    *)
(* is implemented, step by step, for any number of series and messages.    *)
THEOREM TablesAreStore == ASSUME OneFlusher PROVE Spec => ImplementsStore
<1>. DEFINE Inv == QueueInv /\ IdleEmpty /\ OrderInv /\ BatchInv /\ TableInv /\ dbErrors = 0
<1>1. Init => Inv /\ Store!Init
  <2>. SUFFICES ASSUME Init PROVE Inv /\ Store!Init
    OBVIOUS
  <2>1. IdleEmpty
    BY DEF Init, IdleEmpty
  <2>2. BatchInv
    BY DEF Init, BatchInv, OneFlusher, Store!UniqueHistory, Store!UniqueCurrent
  <2>3. TableInv /\ Store!Init
    BY DEF Init, TableInv, Store!UniqueHistory, Store!UniqueCurrent, Store!Consistent, Store!Init
  <2>4. dbErrors = 0
    BY DEF Init
  <2>. QED BY <2>1, <2>2, <2>3, <2>4, QueueInit, OrderInit
<1>2. TypeOK /\ Inv /\ [Next]_vars => Inv' /\ [Store!Next]_<<history, current>>
  BY WaitingStep, IdleEmptyStep, OrderNext, NoErrors, StepIsStore DEF OneFlusher
<1>. QED BY <1>1, <1>2, TypeCorrect, PTL DEF Spec, ImplementsStore, Store!Spec
=============================================================================
