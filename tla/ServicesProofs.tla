---------------------------- MODULE ServicesProofs ----------------------------
(***************************************************************************)
(* Theorems about the life cycle of the services, the cache of the         *)
(* scripts, upgrades, expected data and the clients that watch a device,   *)
(* for every value of their constants; and the types of all parts of       *)
(* MCServices together.                                                    *)
(***************************************************************************)
EXTENDS MCServices, SceneProofs, BundleProofs, GatewayTreeProofs,
        TLAPS, FunctionTheorems, SequenceTheorems, FiniteSetTheorems

-----------------------------------------------------------------------------
(* The life cycle: messages on the bus are numbered without a gap.         *)

LcNumbered ==
    /\ lcBus \in [LcTypes -> Seq(Nat)]
    /\ lcSent \in [LcTypes -> Nat] /\ lcHandled \in [LcTypes -> Nat]
    /\ lcCallback \in [LcCallbacks -> [step : {"idle", "send", "blocked"}, type : LcTypes]]
    /\ LcBackpressure

LEMMA LcSendNumbered ==
    ASSUME LcNumbered, NEW b \in LcCallbacks, PublishSend(b)
    PROVE  LcNumbered'
<1>. DEFINE t == lcCallback[b].type
<1>0. /\ t \in LcTypes /\ lcCallback[b] \in [step : {"idle", "send", "blocked"}, type : LcTypes]
      /\ lcBus[t] \in Seq(Nat) /\ lcSent[t] \in Nat /\ lcHandled[t] \in Nat
      /\ LcBusSize \in Nat
  BY LcAssumption DEF LcNumbered
<1>1. lcCallback' \in [LcCallbacks -> [step : {"idle", "send", "blocked"}, type : LcTypes]]
  <2>1. \/ lcCallback' = lcCallback
        \/ lcCallback' = [lcCallback EXCEPT ![b] = [lcCallback[b] EXCEPT !.step = "idle"]]
        \/ lcCallback' = [lcCallback EXCEPT ![b] = [lcCallback[b] EXCEPT !.step = "blocked"]]
    BY DEF PublishSend, LcNumbered
  <2>2. /\ [lcCallback[b] EXCEPT !.step = "idle"] \in [step : {"idle", "send", "blocked"}, type : LcTypes]
        /\ [lcCallback[b] EXCEPT !.step = "blocked"] \in [step : {"idle", "send", "blocked"}, type : LcTypes]
    BY <1>0
  <2>. QED BY <2>1, <2>2 DEF LcNumbered
<1>2. CASE UNCHANGED <<lcBus, lcSent>>
  BY <1>1, <1>2 DEF PublishSend, LcNumbered, LcBackpressure
<1>3. CASE ~UNCHANGED <<lcBus, lcSent>>
  <2>1. /\ Len(lcBus[t]) < LcBusSize /\ lcHandled' = lcHandled
        /\ lcBus' = [lcBus EXCEPT ![t] = Append(lcBus[t], lcSent[t] + 1)]
        /\ lcSent' = [lcSent EXCEPT ![t] = lcSent[t] + 1]
    BY <1>3 DEF PublishSend
  <2>2. lcBus' \in [LcTypes -> Seq(Nat)] /\ lcSent' \in [LcTypes -> Nat]
    <3>1. Append(lcBus[t], lcSent[t] + 1) \in Seq(Nat) /\ lcSent[t] + 1 \in Nat
      BY <1>0
    <3>. QED BY <2>1, <3>1 DEF LcNumbered
  <2>3. ASSUME NEW u \in LcTypes
        PROVE  /\ lcHandled'[u] + Len(lcBus'[u]) = lcSent'[u]
               /\ \A i \in 1..Len(lcBus'[u]) : lcBus'[u][i] = lcHandled'[u] + i
               /\ Len(lcBus'[u]) <= LcBusSize
    <3>1. CASE u # t
      <4>1. lcBus'[u] = lcBus[u] /\ lcSent'[u] = lcSent[u]
        BY <2>1, <3>1 DEF LcNumbered
      <4>. QED BY <2>1, <4>1 DEF LcNumbered, LcBackpressure
    <3>2. CASE u = t
      <4>1. lcBus'[u] = Append(lcBus[t], lcSent[t] + 1) /\ lcSent'[u] = lcSent[t] + 1
        BY <1>0, <2>1, <3>2 DEF LcNumbered
      <4>2. /\ lcHandled[t] + Len(lcBus[t]) = lcSent[t]
            /\ \A i \in 1..Len(lcBus[t]) : lcBus[t][i] = lcHandled[t] + i
        BY <1>0 DEF LcNumbered, LcBackpressure
      <4>. HIDE DEF t
      <4>. QED BY <1>0, <2>1, <3>2, <4>1, <4>2
    <3>. QED BY <3>1, <3>2
  <2>. QED BY <1>1, <2>1, <2>2, <2>3 DEF LcNumbered, LcBackpressure
<1>. QED BY <1>2, <1>3

LEMMA LcHandleNumbered ==
    ASSUME LcNumbered, NEW t \in LcTypes, Handle(t)
    PROVE  LcNumbered'
<1>0. /\ lcBus[t] \in Seq(Nat) /\ lcBus[t] # <<>> /\ lcHandled[t] \in Nat /\ lcSent[t] \in Nat
      /\ LcBusSize \in Nat
      /\ lcHandled[t] + Len(lcBus[t]) = lcSent[t] /\ Len(lcBus[t]) <= LcBusSize
      /\ \A i \in 1..Len(lcBus[t]) : lcBus[t][i] = lcHandled[t] + i
  BY LcAssumption DEF LcNumbered, LcBackpressure, Handle
<1>1. /\ lcBus' = [lcBus EXCEPT ![t] = Tail(lcBus[t])]
      /\ lcHandled' = [lcHandled EXCEPT ![t] = Head(lcBus[t])]
      /\ UNCHANGED <<lcSent, lcCallback>>
  BY DEF Handle
<1>2. Tail(lcBus[t]) \in Seq(Nat) /\ Head(lcBus[t]) = lcHandled[t] + 1
  BY <1>0
<1>3. lcBus' \in [LcTypes -> Seq(Nat)] /\ lcHandled' \in [LcTypes -> Nat]
  BY <1>0, <1>1, <1>2 DEF LcNumbered
<1>4. ASSUME NEW u \in LcTypes
      PROVE  /\ lcHandled'[u] + Len(lcBus'[u]) = lcSent'[u]
             /\ \A i \in 1..Len(lcBus'[u]) : lcBus'[u][i] = lcHandled'[u] + i
             /\ Len(lcBus'[u]) <= LcBusSize
  <2>1. CASE u # t
    <3>1. lcBus'[u] = lcBus[u] /\ lcHandled'[u] = lcHandled[u]
      BY <1>1, <2>1 DEF LcNumbered
    <3>. QED BY <1>1, <3>1 DEF LcNumbered, LcBackpressure
  <2>2. CASE u = t
    <3>1. lcBus'[u] = Tail(lcBus[t]) /\ lcHandled'[u] = lcHandled[t] + 1
      BY <1>1, <1>2, <2>2 DEF LcNumbered
    <3>2. /\ Len(Tail(lcBus[t])) = Len(lcBus[t]) - 1
          /\ \A i \in 1..Len(Tail(lcBus[t])) :
                i + 1 \in 1..Len(lcBus[t]) /\ Tail(lcBus[t])[i] = lcBus[t][i + 1]
      BY <1>0
    <3>3. \A i \in 1..Len(Tail(lcBus[t])) : i \in Nat /\ Tail(lcBus[t])[i] = lcHandled[t] + 1 + i
      BY <1>0, <3>2
    <3>4. Len(lcBus[t]) \in Nat
      BY <1>0
    <3>5. lcHandled'[u] + Len(lcBus'[u]) = lcSent'[u] /\ Len(lcBus'[u]) <= LcBusSize
      <4>1. /\ Len(lcBus'[u]) = Len(lcBus[t]) - 1 /\ lcSent'[u] = lcSent[t]
            /\ lcHandled'[u] = lcHandled[t] + 1
        BY <1>1, <2>2, <3>1, <3>2
      <4>2. lcHandled[t] + 1 + (Len(lcBus[t]) - 1) = lcSent[t] /\ Len(lcBus[t]) - 1 <= LcBusSize
        BY <1>0, <3>4
      <4>. QED BY <4>1, <4>2
    <3>6. \A i \in 1..Len(lcBus'[u]) : lcBus'[u][i] = lcHandled'[u] + i
      BY <3>1, <3>3
    <3>. QED BY <3>5, <3>6
  <2>. QED BY <2>1, <2>2
<1>. QED BY <1>1, <1>3, <1>4 DEF LcNumbered, LcBackpressure

LEMMA LcNumberedHolds == LcSpec => []LcNumbered
<1>1. LcInit => LcNumbered
  BY LcAssumption DEF LcInit, LcInitAt, LcNumbered, LcBackpressure, LcTypes
<1>2. LcNumbered /\ [LcNext]_lcVars => LcNumbered'
  <2>. SUFFICES ASSUME LcNumbered, [LcNext]_lcVars PROVE LcNumbered'
    OBVIOUS
  <2>1. ASSUME UNCHANGED <<lcBus, lcSent, lcHandled, lcCallback>> PROVE LcNumbered'
    BY <2>1 DEF LcNumbered, LcBackpressure
  <2>2. ASSUME NEW b \in LcCallbacks, NEW t \in LcTypes, PublishCheck(b, t) PROVE LcNumbered'
    <3>1. lcCallback' \in [LcCallbacks -> [step : {"idle", "send", "blocked"}, type : LcTypes]]
      BY <2>2 DEF PublishCheck, LcNumbered
    <3>. QED BY <2>2, <3>1 DEF PublishCheck, LcNumbered, LcBackpressure
  <2>3. ASSUME NEW b \in LcCallbacks, PublishSend(b) PROVE LcNumbered'
    BY <2>3, LcSendNumbered
  <2>4. ASSUME NEW t \in LcTypes, Handle(t) PROVE LcNumbered'
    BY <2>4, LcHandleNumbered
  <2>5. ASSUME NEW t \in LcTypes, LoopEnds(t) PROVE LcNumbered'
    BY <2>1, <2>5 DEF LoopEnds
  <2>6. ASSUME NEW s \in LcServices, StopReturns(s) PROVE LcNumbered'
    BY <2>1, <2>6 DEF StopReturns, lcTraffic
  <2>7. CASE StartService \/ Wait \/ LcStopStep
    BY <2>1, <2>7 DEF StartService, Wait, LcStopStep, StopNext, TimeUp, Shutdown, CancelUplinks,
       CloseBus, UplinkStopped, lcTraffic
  <2>8. CASE UNCHANGED lcVars
    BY <2>1, <2>8 DEF lcVars, lcTraffic
  <2>. QED BY <2>2, <2>3, <2>4, <2>5, <2>6, <2>7, <2>8 DEF LcNext
<1>. QED BY <1>1, <1>2, PTL DEF LcSpec

(* What Publish has accepted is handled in order and without a gap, and a  *)
(* channel never holds more than its capacity: for any number of services, *)
(* callbacks and messages, also while the bus is being closed.             *)
THEOREM NothingAcceptedIsLost == LcSpec => []LcBackpressure
<1>1. LcNumbered => LcBackpressure
  BY DEF LcNumbered
<1>. QED BY <1>1, LcNumberedHolds, PTL

(* How far the services are: main starts those that are new, and stops     *)
(* those that run; the WaitGroup counts those that have not stopped yet.   *)
LcWorking == {s \in LcServices : lcService[s] \in {"started", "stopping"}}
LcCounted ==
    /\ lcMain \in {"starting", "stopping", "ended", "failed"}
    /\ lcNext \in 0..Len(LcOrder) + 1
    /\ lcService \in [LcServices -> {"new", "started", "stopping", "stopped"}]
    /\ {lcTimeUp, lcClosed, lcPanic} \subseteq BOOLEAN
    /\ lcLoop \in [LcTypes -> {"off", "on", "cancelled", "spinning"}]
    /\ lcWg = Cardinality(LcWorking)
    /\ lcMain = "starting" =>
          /\ lcNext >= 1
          /\ \A i \in 1..Len(LcOrder) :
                lcService[LcOrder[i]] = IF i < lcNext THEN "started" ELSE "new"
    /\ lcMain = "stopping" => \A i \in 1..lcNext : lcService[LcOrder[i]] = "started"
    /\ lcMain = "stopping" => lcNext <= Len(LcOrder)

(* The messages that are sent and those that are about to be.              *)
LcGoing == {o \in LcCallbacks : lcCallback[o].step # "idle"}
LcWithinMax ==
    /\ IsFiniteSet(LcGoing)
    /\ lcSent["telemetry"] + lcSent["status"] + Cardinality(LcGoing) <= LcMaxMessages

LEMMA LcServicesIs ==
    /\ Len(LcOrder) \in Nat /\ IsFiniteSet(LcServices) /\ Cardinality(LcServices) <= Len(LcOrder)
    /\ \A i \in 1..Len(LcOrder) : LcOrder[i] \in LcServices
    /\ \A i, j \in 1..Len(LcOrder) : LcOrder[i] = LcOrder[j] => i = j
<1>1. Len(LcOrder) \in Nat /\ LcOrder \in [1..Len(LcOrder) -> LcServices]
  BY LcOrderAssumption
<1>2. LcOrder \in Surjection(1..Len(LcOrder), LcServices)
  BY <1>1 DEF Surjection, LcServices
<1>3. IsFiniteSet(1..Len(LcOrder)) /\ Cardinality(1..Len(LcOrder)) = Len(LcOrder)
  BY <1>1, FS_Interval
<1>4. IsFiniteSet(LcServices) /\ Cardinality(LcServices) <= Len(LcOrder)
  BY <1>2, <1>3, FS_Surjection
<1>. QED BY <1>1, <1>4, LcAssumption

LEMMA LcWorkingIs ==
    /\ IsFiniteSet(LcWorking) /\ Cardinality(LcWorking) \in 0..Len(LcOrder)
    /\ IsFiniteSet(LcWorking')
<1>1. LcWorking \in SUBSET LcServices /\ LcWorking' \in SUBSET LcServices
  BY DEF LcWorking
<1>2. IsFiniteSet(LcWorking) /\ Cardinality(LcWorking) <= Cardinality(LcServices)
  BY <1>1, LcServicesIs, FS_Subset
<1>3. IsFiniteSet(LcWorking')
  BY <1>1, LcServicesIs, FS_Subset
<1>4. Cardinality(LcWorking) \in Nat /\ Cardinality(LcServices) \in Nat
  BY <1>2, LcServicesIs, FS_CardinalityType
<1>. QED BY <1>2, <1>3, <1>4, LcServicesIs

LEMMA LcStartCounted ==
    ASSUME LcCounted, StartService
    PROVE  LcCounted'
<1>. DEFINE n == lcNext
            s == LcOrder[n]
<1>1. lcMain = "starting" /\ n \in 1..Len(LcOrder) /\ s \in LcServices /\ lcService[s] = "new"
  BY LcServicesIs DEF StartService, LcCounted
<1>2. lcLoop' \in [LcTypes -> {"off", "on", "cancelled", "spinning"}]
  BY DEF StartService, LcCounted
<1>3. CASE lcMain' = "failed" /\ UNCHANGED <<lcService, lcLoop, lcWg, lcNext>>
  BY <1>2, <1>3 DEF StartService, LcCounted, LcWorking
<1>4. CASE /\ lcService' = [lcService EXCEPT ![s] = "started"]
           /\ lcWg' = lcWg + 1 /\ lcNext' = n + 1 /\ lcMain' = lcMain
  <2>1. /\ lcService' \in [LcServices -> {"new", "started", "stopping", "stopped"}]
        /\ \A x \in LcServices : lcService'[x] = IF x = s THEN "started" ELSE lcService[x]
    BY <1>1, <1>4 DEF LcCounted
  <2>2. LcWorking' = LcWorking \cup {s} /\ s \notin LcWorking
    BY <1>1, <2>1 DEF LcWorking
  <2>3. Cardinality(LcWorking') = Cardinality(LcWorking) + 1
    BY <2>2, LcWorkingIs, FS_AddElement
  <2>4. \A i \in 1..Len(LcOrder) :
           lcService'[LcOrder[i]] = IF i < n + 1 THEN "started" ELSE "new"
    <3>. SUFFICES ASSUME NEW i \in 1..Len(LcOrder)
                  PROVE  lcService'[LcOrder[i]] = IF i < n + 1 THEN "started" ELSE "new"
      OBVIOUS
    <3>1. LcOrder[i] \in LcServices /\ (LcOrder[i] = s <=> i = n)
      BY <1>1, LcServicesIs
    <3>2. lcService[LcOrder[i]] = IF i < n THEN "started" ELSE "new"
      BY <1>1 DEF LcCounted
    <3>3. i \in Nat /\ n \in Nat
      BY <1>1, LcServicesIs
    <3>. QED BY <2>1, <3>1, <3>2, <3>3
  <2>5. n + 1 \in 0..Len(LcOrder) + 1 /\ n + 1 >= 1
    BY <1>1, LcServicesIs
  <2>6. lcWg' = Cardinality(LcWorking')
    BY <1>4, <2>3 DEF LcCounted
  <2>7. lcMain' = "starting" /\ lcNext' = n + 1 /\ UNCHANGED <<lcTimeUp, lcClosed, lcPanic>>
    BY <1>1, <1>4 DEF StartService
  <2>. HIDE DEF n, s
  <2>. QED BY <1>2, <2>1, <2>4, <2>5, <2>6, <2>7 DEF LcCounted
<1>. QED BY <1>3, <1>4 DEF StartService

(* A service that is stopped has been started.                             *)
LEMMA LcStopCounted ==
    ASSUME LcCounted, Wait \/ StopNext
    PROVE  LcCounted'
<1>1. CASE Wait
  <2>1. \A i \in 1..Len(LcOrder) : lcService[LcOrder[i]] = "started"
    <3>. SUFFICES ASSUME NEW i \in 1..Len(LcOrder) PROVE lcService[LcOrder[i]] = "started"
      OBVIOUS
    <3>1. i < lcNext
      BY <1>1, LcServicesIs DEF Wait, LcCounted
    <3>. QED BY <1>1, <3>1 DEF Wait, LcCounted
  <2>2. lcMain' = "stopping" /\ lcNext' = Len(LcOrder) /\ Len(LcOrder) \in 0..Len(LcOrder) + 1
    BY <1>1, LcServicesIs DEF Wait
  <2>3. UNCHANGED <<lcService, lcTimeUp, lcWg, lcLoop, lcClosed, lcPanic, LcWorking>>
    BY <1>1 DEF Wait, lcTraffic, LcWorking
  <2>4. Len(LcOrder) <= Len(LcOrder)
    BY LcServicesIs
  <2>. QED BY <2>1, <2>2, <2>3, <2>4 DEF LcCounted
<1>2. CASE StopNext
  <2>. DEFINE n == lcNext
              s == LcOrder[n]
  <2>1. /\ lcMain = "stopping" /\ n \in 1..Len(LcOrder) /\ n \in Nat
        /\ s \in LcServices /\ lcService[s] = "started"
    BY <1>2, LcServicesIs DEF StopNext, LcCounted
  <2>2. /\ lcService' = [lcService EXCEPT ![s] = "stopping"] /\ lcNext' = n - 1
        /\ UNCHANGED <<lcMain, lcTimeUp, lcWg, lcLoop, lcClosed, lcPanic>>
    BY <1>2 DEF StopNext, lcTraffic
  <2>3. /\ lcService' \in [LcServices -> {"new", "started", "stopping", "stopped"}]
        /\ \A x \in LcServices : lcService'[x] = IF x = s THEN "stopping" ELSE lcService[x]
    BY <2>1, <2>2 DEF LcCounted
  <2>4. LcWorking' = LcWorking
    BY <2>1, <2>3 DEF LcWorking
  <2>5. \A i \in 1..(n - 1) : lcService'[LcOrder[i]] = "started"
    <3>. SUFFICES ASSUME NEW i \in 1..(n - 1) PROVE lcService'[LcOrder[i]] = "started"
      OBVIOUS
    <3>1. i \in 1..Len(LcOrder) /\ i \in 1..n /\ i # n
      BY <2>1, LcServicesIs
    <3>2. LcOrder[i] \in LcServices /\ LcOrder[i] # s /\ lcService[LcOrder[i]] = "started"
      BY <2>1, <3>1, LcServicesIs DEF LcCounted
    <3>. QED BY <2>3, <3>2
  <2>6. n - 1 \in 0..Len(LcOrder) + 1 /\ n - 1 <= Len(LcOrder)
    BY <2>1, LcServicesIs
  <2>. HIDE DEF n, s
  <2>. QED BY <2>1, <2>2, <2>3, <2>4, <2>5, <2>6 DEF LcCounted
<1>. QED BY <1>1, <1>2

LEMMA LcReturnCounted ==
    ASSUME LcCounted, NEW s \in LcServices, lcService[s] = "stopping",
           lcService' = [lcService EXCEPT ![s] = "stopped"], lcWg' = lcWg - 1,
           UNCHANGED <<lcMain, lcNext, lcTimeUp, lcLoop, lcClosed, lcPanic>>
    PROVE  LcCounted'
<1>1. /\ lcService' \in [LcServices -> {"new", "started", "stopping", "stopped"}]
      /\ \A x \in LcServices : lcService'[x] = IF x = s THEN "stopped" ELSE lcService[x]
  BY DEF LcCounted
<1>2. LcWorking' = LcWorking \ {s} /\ s \in LcWorking
  BY <1>1 DEF LcWorking
<1>3. Cardinality(LcWorking') = Cardinality(LcWorking) - 1
  BY <1>2, LcWorkingIs, FS_RemoveElement
<1>4. lcMain # "starting"
  <2>. SUFFICES ASSUME lcMain = "starting" PROVE FALSE
    OBVIOUS
  <2>1. PICK i \in 1..Len(LcOrder) : s = LcOrder[i]
    BY DEF LcServices
  <2>. QED BY <2>1 DEF LcCounted
<1>5. ASSUME lcMain = "stopping", NEW i \in 1..lcNext PROVE lcService'[LcOrder[i]] = "started"
  <2>1. i \in 1..Len(LcOrder)
    BY <1>5, LcServicesIs DEF LcCounted
  <2>2. LcOrder[i] \in LcServices /\ lcService[LcOrder[i]] = "started"
    BY <1>5, <2>1, LcServicesIs DEF LcCounted
  <2>. QED BY <1>1, <2>2
<1>. QED BY <1>1, <1>3, <1>4, <1>5 DEF LcCounted

LEMMA LcNextCounted == LcCounted /\ [LcNext]_lcVars => LcCounted'
<1>. SUFFICES ASSUME LcCounted, [LcNext]_lcVars PROVE LcCounted'
  OBVIOUS
<1>1. CASE StartService \/ Wait \/ StopNext
  BY <1>1, LcStartCounted, LcStopCounted
<1>2. ASSUME NEW s \in LcServices, StopReturns(s) PROVE LcCounted'
  BY <1>2, LcReturnCounted DEF StopReturns, lcTraffic
<1>3. CASE UplinkStopped
  BY <1>3, LcReturnCounted, LcAssumption DEF UplinkStopped, lcTraffic
<1>4. ASSUME UNCHANGED <<lcNext, lcService, lcWg>>,
             lcMain' = lcMain \/ lcMain' = "ended",
             {lcTimeUp', lcClosed', lcPanic'} \subseteq BOOLEAN,
             lcLoop' \in [LcTypes -> {"off", "on", "cancelled", "spinning"}]
      PROVE  LcCounted'
  <2>1. LcWorking' = LcWorking
    BY <1>4 DEF LcWorking
  <2>. QED BY <1>4, <2>1 DEF LcCounted
<1>5. CASE TimeUp \/ Shutdown \/ CloseBus \/ UNCHANGED lcVars
  BY <1>4, <1>5 DEF TimeUp, Shutdown, CloseBus, lcVars, lcStopping, lcTraffic, LcCounted
<1>6. CASE CancelUplinks \/ \E t \in LcTypes : Handle(t) \/ LoopEnds(t)
  <2>1. lcLoop' \in [LcTypes -> {"off", "on", "cancelled", "spinning"}]
    BY <1>6 DEF CancelUplinks, Handle, LoopEnds, LcCounted
  <2>. QED BY <1>4, <1>6, <2>1 DEF CancelUplinks, Handle, LoopEnds, lcStopping, LcCounted
<1>7. CASE \E b \in LcCallbacks : (\E t \in LcTypes : PublishCheck(b, t)) \/ PublishSend(b)
  BY <1>4, <1>7 DEF PublishCheck, PublishSend, lcStopping, LcCounted
<1>. QED BY <1>1, <1>2, <1>3, <1>5, <1>6, <1>7 DEF LcNext, LcStopStep

LEMMA LcGoingIs ==
    ASSUME LcNumbered, LcWithinMax
    PROVE  /\ IsFiniteSet(LcGoing) /\ Cardinality(LcGoing) \in Nat
           /\ lcSent["telemetry"] \in Nat /\ lcSent["status"] \in Nat /\ LcMaxMessages \in Nat
BY FS_CardinalityType, LcAssumption DEF LcNumbered, LcWithinMax, LcTypes

LEMMA LcNextWithinMax ==
    ASSUME LcNumbered, LcWithinMax, [LcNext]_lcVars
    PROVE  LcWithinMax'
<1>1. CASE UNCHANGED <<lcSent, lcCallback>>
  BY <1>1 DEF LcWithinMax, LcGoing
<1>2. ASSUME NEW b \in LcCallbacks, NEW t \in LcTypes, PublishCheck(b, t) PROVE LcWithinMax'
  <2>1. lcCallback' = [lcCallback EXCEPT ![b] = [step |-> "send", type |-> t]] /\ lcSent' = lcSent
    BY <1>2 DEF PublishCheck
  <2>2. LcGoing' = LcGoing \cup {b}
    BY <2>1 DEF LcGoing, LcNumbered
  <2>3. b \notin LcGoing
    BY <1>2 DEF PublishCheck, LcGoing
  <2>4. IsFiniteSet(LcGoing') /\ Cardinality(LcGoing') = Cardinality(LcGoing) + 1
    BY <2>2, <2>3, LcGoingIs, FS_AddElement
  <2>5. lcSent["telemetry"] + lcSent["status"] + Cardinality(LcGoing) < LcMaxMessages
    BY <1>2 DEF PublishCheck, LcGoing
  <2>6. lcSent["telemetry"] + lcSent["status"] + (Cardinality(LcGoing) + 1) <= LcMaxMessages
    BY <2>5, LcGoingIs
  <2>. QED BY <2>1, <2>4, <2>6 DEF LcWithinMax
<1>3. ASSUME NEW b \in LcCallbacks, PublishSend(b) PROVE LcWithinMax'
  <2>. DEFINE t == lcCallback[b].type
  <2>1. t \in LcTypes /\ b \in LcGoing
    BY <1>3 DEF PublishSend, LcNumbered, LcGoing
  <2>2. CASE UNCHANGED <<lcSent, lcCallback>>
    BY <1>1, <2>2
  <2>3. CASE lcSent' = lcSent /\ lcCallback' = [lcCallback EXCEPT ![b].step = "blocked"]
    <3>1. LcGoing' = LcGoing
      BY <2>1, <2>3 DEF LcGoing, LcNumbered
    <3>. QED BY <2>3, <3>1 DEF LcWithinMax
  <2>4. CASE /\ lcSent' = [lcSent EXCEPT ![t] = @ + 1]
             /\ lcCallback' = [lcCallback EXCEPT ![b].step = "idle"]
    <3>1. LcGoing' = LcGoing \ {b}
      BY <2>1, <2>4 DEF LcGoing, LcNumbered
    <3>2. IsFiniteSet(LcGoing') /\ Cardinality(LcGoing') = Cardinality(LcGoing) - 1
      BY <2>1, <3>1, LcGoingIs, FS_RemoveElement
    <3>3. \/ lcSent'["telemetry"] = lcSent["telemetry"] + 1 /\ lcSent'["status"] = lcSent["status"]
          \/ lcSent'["telemetry"] = lcSent["telemetry"] /\ lcSent'["status"] = lcSent["status"] + 1
      <4>1. t = "telemetry" \/ t = "status"
        BY <2>1 DEF LcTypes
      <4>2. lcSent \in [LcTypes -> Nat] /\ "telemetry" \in LcTypes /\ "status" \in LcTypes
        BY DEF LcNumbered, LcTypes
      <4>. HIDE DEF t
      <4>. QED BY <2>4, <4>1, <4>2
    <3>4. lcSent'["telemetry"] + lcSent'["status"] + (Cardinality(LcGoing) - 1) <= LcMaxMessages
      BY <3>3, LcGoingIs DEF LcWithinMax
    <3>. QED BY <3>2, <3>4 DEF LcWithinMax
  <2>. QED BY <1>3, <2>2, <2>3, <2>4 DEF PublishSend
<1>4. CASE \/ StartService \/ Wait \/ LcStopStep \/ UNCHANGED lcVars
           \/ \E s \in LcServices : StopReturns(s)
           \/ \E t \in LcTypes : Handle(t) \/ LoopEnds(t)
  BY <1>1, <1>4 DEF StartService, Wait, LcStopStep, StopNext, TimeUp, Shutdown, CancelUplinks,
     CloseBus, UplinkStopped, StopReturns, Handle, LoopEnds, lcVars, lcTraffic
<1>. QED BY <1>2, <1>3, <1>4 DEF LcNext

(* Every variable of the life cycle keeps its kind; the WaitGroup counts   *)
(* the services that have not stopped, and so is never negative.           *)
THEOREM LcTypeCorrect == LcSpec => []LcTypeOK
<1>1. LcInit => LcCounted /\ LcWithinMax
  <2>. SUFFICES ASSUME LcInit PROVE LcCounted /\ LcWithinMax
    OBVIOUS
  <2>1. LcWorking = {} /\ LcGoing = {}
    BY DEF LcInit, LcInitAt, LcWorking, LcGoing
  <2>2. lcWg = Cardinality(LcWorking)
    BY <2>1, FS_EmptySet DEF LcInit, LcInitAt
  <2>3. \A i \in 1..Len(LcOrder) : lcService[LcOrder[i]] = "new" /\ ~(i < 1)
    BY LcServicesIs DEF LcInit, LcInitAt
  <2>4. /\ lcNext \in 0..Len(LcOrder) + 1 /\ lcNext >= 1
        /\ lcLoop \in [LcTypes -> {"off", "on", "cancelled", "spinning"}]
        /\ lcService \in [LcServices -> {"new", "started", "stopping", "stopped"}]
    BY LcServicesIs DEF LcInit, LcInitAt
  <2>5. lcMain = "starting" /\ {lcTimeUp, lcClosed, lcPanic} \subseteq BOOLEAN /\ lcNext = 1
    BY DEF LcInit, LcInitAt
  <2>6. LcCounted
    BY <2>2, <2>3, <2>4, <2>5 DEF LcCounted
  <2>7. LcWithinMax
    BY <2>1, FS_EmptySet, LcAssumption DEF LcInit, LcInitAt, LcWithinMax, LcTypes
  <2>. QED BY <2>6, <2>7
<1>2. LcNumbered /\ LcWithinMax /\ [LcNext]_lcVars => LcWithinMax'
  BY LcNextWithinMax
<1>3. LcNumbered /\ LcCounted /\ LcWithinMax => LcTypeOK
  <2>. SUFFICES ASSUME LcNumbered, LcCounted, LcWithinMax PROVE LcTypeOK
    OBVIOUS
  <2>1. lcWg \in 0..Len(LcOrder)
    BY LcWorkingIs DEF LcCounted
  <2>2. \A t \in LcTypes : lcSent[t] \in 0..LcMaxMessages
    BY LcGoingIs DEF LcWithinMax, LcTypes
  <2>3. \A t \in LcTypes : lcHandled[t] \in 0..LcMaxMessages /\ lcBus[t] \in Seq(1..LcMaxMessages)
    <3>. SUFFICES ASSUME NEW t \in LcTypes
                  PROVE  lcHandled[t] \in 0..LcMaxMessages /\ lcBus[t] \in Seq(1..LcMaxMessages)
      OBVIOUS
    <3>1. PICK b \in Seq(Nat) : b = lcBus[t]
      BY DEF LcNumbered
    <3>2. PICK h \in Nat : h = lcHandled[t]
      BY DEF LcNumbered
    <3>3. /\ Len(b) \in Nat /\ h + Len(b) <= LcMaxMessages /\ LcMaxMessages \in Nat
          /\ \A i \in 1..Len(b) : b[i] = h + i
      <4>1. h + Len(b) = lcSent[t] /\ \A i \in 1..Len(b) : b[i] = h + i
        BY <3>1, <3>2 DEF LcNumbered, LcBackpressure
      <4>2. lcSent[t] \in 0..LcMaxMessages /\ LcMaxMessages \in Nat
        BY <2>2, LcGoingIs
      <4>. QED BY <4>1, <4>2
    <3>4. \A i \in 1..Len(b) : b[i] \in 1..LcMaxMessages
      BY <3>3
    <3>5. b \in Seq(1..LcMaxMessages)
      <4>. DEFINE S == 1..LcMaxMessages
      <4>1. b \in [1..Len(b) -> Nat] /\ \A i \in 1..Len(b) : b[i] \in S
        BY <3>4
      <4>. HIDE DEF S
      <4>2. b \in [1..Len(b) -> S]
        BY <4>1
      <4>3. b \in Seq(S)
        BY <3>3, <4>2, SeqDef
      <4>. QED BY <4>3 DEF S
    <3>. QED BY <3>1, <3>2, <3>3, <3>5
  <2>4. /\ lcSent \in [LcTypes -> 0..LcMaxMessages] /\ lcHandled \in [LcTypes -> 0..LcMaxMessages]
        /\ lcBus \in [LcTypes -> Seq(1..LcMaxMessages)]
    BY <2>2, <2>3 DEF LcNumbered
  <2>. QED BY <2>1, <2>4 DEF LcTypeOK, LcCounted, LcNumbered
<1>. QED BY <1>1, <1>2, <1>3, LcNumberedHolds, LcNextCounted, PTL DEF LcSpec

-----------------------------------------------------------------------------
(* The copies of the scripts, one call at a time that changes a script, if *)
(* no load is under way meanwhile and no deletion keeps its copy.          *)

DsStamps == [script : DsScripts \cup {"nothing", "none"}, text : Nat]
DsRows   == [state : {"new", "there", "gone"}, on : BOOLEAN, type : DsTypes, text : Nat]
DsOlds   == [type : DsTypes, is : DsStamps]
DsJobs   == [at : {"idle", "enable", "delete", "deleteOff", "del", "delGone"},
             script : DsScripts \cup {DsAny}, type : DsTypes, old : SUBSET DsOlds]
DsTurns  == [at : {"idle", "get", "load", "set"}, type : DsTypes, got : DsStamps,
             may : SUBSET DsStamps]

DsCalm ==
    /\ DsMayMove = FALSE /\ DsMayOverlap = FALSE /\ "delete" \notin DsBreaks
    /\ \A e, f \in DsEdits : e = f

(* x is what an enabled row of type t says; x is a version of type t that  *)
(* a call under way, or one that has failed, has replaced.                 *)
DsLive(row, t, x) == \E s \in DsScripts : /\ row[s].state = "there" /\ row[s].on /\ row[s].type = t
                                          /\ x = [script |-> s, text |-> row[s].text]
DsHeld(t, x) == \E v \in DsOlds : /\ v.type = t /\ v.is = x
                                  /\ v \in dsUnsure \/ \E e \in DsEdits : v \in dsEdit[e].old

DsCopiesKnown == \A t \in DsTypes :
    dsCopy[t] \in {DsNothing, DsMarker} \/ DsLive(dsRow, t, dsCopy[t]) \/ DsHeld(t, dsCopy[t])
DsMayRun == \A m \in DsMessages : dsMsg[m].at # "idle" =>
    \A x \in DsStamps : DsLive(dsRow, dsMsg[m].type, x) \/ DsHeld(dsMsg[m].type, x)
                           => x \in dsMsg[m].may
DsLoaded == \A m \in DsMessages : dsMsg[m].at = "set" =>
    dsMsg[m].got = DsMarker \/ DsLive(dsRow, dsMsg[m].type, dsMsg[m].got)
(* What a call has read of its script is so until it writes.               *)
DsJobFits(e) ==
    /\ dsEdit[e].at \in {"idle", "enable", "delete", "deleteOff"} => dsEdit[e].old = {}
    /\ dsEdit[e].at # "idle" => dsEdit[e].script \in DsScripts
    /\ dsEdit[e].at \in {"delete", "deleteOff"} =>
          /\ dsRow[dsEdit[e].script].state = "there"
          /\ dsRow[dsEdit[e].script].type = dsEdit[e].type
    /\ dsEdit[e].at = "deleteOff" => ~dsRow[dsEdit[e].script].on
    /\ dsEdit[e].at = "del" =>
          /\ dsRow[dsEdit[e].script].state = "there"
          /\ \A v \in dsEdit[e].old : v.type = dsRow[dsEdit[e].script].type
    /\ dsEdit[e].at = "delGone" => \A v \in dsEdit[e].old : v.type = dsEdit[e].type

DsTyped ==
    /\ dsRow \in [DsScripts -> DsRows] /\ dsCopy \in [DsTypes -> DsStamps]
    /\ dsEdit \in [DsEdits -> DsJobs] /\ dsMsg \in [DsMessages -> DsTurns]
    /\ dsUnsure \subseteq DsOlds

DsInv ==
    /\ DsTyped /\ DsCopiesKnown /\ DsMayRun /\ DsLoaded
    /\ \A e \in DsEdits : DsJobFits(e)
    /\ DsRunsCurrent

LEMMA DsStampTypes ==
    /\ DsNothing \in DsStamps /\ DsMarker \in DsStamps
    /\ DsIdleEdit \in DsJobs /\ DsIdleEdit.at = "idle" /\ DsIdleEdit.old = {}
    /\ DsIdleMsg \in DsTurns /\ DsIdleMsg.at = "idle"
<1>1. DsNothing \in DsStamps /\ DsMarker \in DsStamps
  BY DEF DsNothing, DsMarker, DsStamps
<1>. DEFINE t == CHOOSE x \in DsTypes : TRUE
<1>2. t \in DsTypes
  BY DsAssumption
<1>. HIDE DEF t
<1>3. DsIdleEdit = [at |-> "idle", script |-> DsAny, type |-> t, old |-> {}]
  BY DEF DsIdleEdit, t
<1>4. DsIdleMsg = [at |-> "idle", type |-> t, got |-> DsNothing, may |-> {}]
  BY DEF DsIdleMsg, t
<1>5. DsIdleEdit \in DsJobs
  BY <1>2, <1>3 DEF DsJobs
<1>6. DsIdleMsg \in DsTurns
  BY <1>1, <1>2, <1>4 DEF DsTurns
<1>. QED BY <1>1, <1>3, <1>4, <1>5, <1>6

(* What the rows say of a type is what is enabled, or that there is none.  *)
LEMMA DsTruthIs ==
    ASSUME NEW row \in [DsScripts -> DsRows], NEW t \in DsTypes
    PROVE  /\ DsTruth(row, t) \subseteq DsStamps
           /\ \A x : DsLive(row, t, x) => x \in DsTruth(row, t)
           /\ \A x \in DsTruth(row, t) : x = DsMarker \/ DsLive(row, t, x)
<1>1. DsMarker \in DsStamps
  BY DsStampTypes
<1>2. ASSUME NEW x \in DsTruth(row, t) PROVE x \in DsStamps /\ (x = DsMarker \/ DsLive(row, t, x))
  <2>1. CASE x = DsMarker
    BY <1>1, <2>1
  <2>2. CASE x # DsMarker
    <3>1. PICK s \in DsOn(row, t) : x = [script |-> s, text |-> row[s].text]
      BY <1>2, <2>2 DEF DsTruth
    <3>2. s \in DsScripts /\ row[s].state = "there" /\ row[s].on /\ row[s].type = t
      BY DEF DsOn
    <3>3. row[s].text \in Nat
      BY <3>2 DEF DsRows
    <3>4. x \in DsStamps
      BY <3>1, <3>2, <3>3 DEF DsStamps
    <3>. QED BY <3>1, <3>2, <3>4 DEF DsLive
  <2>. QED BY <2>1, <2>2
<1>3. ASSUME NEW x, DsLive(row, t, x) PROVE x \in DsTruth(row, t)
  <2>1. PICK s \in DsScripts : /\ row[s].state = "there" /\ row[s].on /\ row[s].type = t
                               /\ x = [script |-> s, text |-> row[s].text]
    BY <1>3 DEF DsLive
  <2>2. s \in DsOn(row, t)
    BY <2>1 DEF DsOn
  <2>. QED BY <2>1, <2>2 DEF DsTruth
<1>. QED BY <1>2, <1>3

LEMMA DsLiveType ==
    ASSUME NEW row \in [DsScripts -> DsRows], NEW t \in DsTypes, NEW x, DsLive(row, t, x)
    PROVE  x \in DsStamps
BY DsTruthIs

LEMMA DsLeftIs ==
    ASSUME DsTyped, NEW t \in DsTypes
    PROVE  /\ DsLeft(t) \subseteq DsStamps
           /\ \A x : x \in DsLeft(t) <=> DsHeld(t, x)
<1>1. UNION {dsEdit[e].old : e \in DsEdits} \subseteq DsOlds /\ dsUnsure \subseteq DsOlds
  BY DEF DsTyped, DsJobs
<1>2. ASSUME NEW x \in DsLeft(t) PROVE x \in DsStamps /\ DsHeld(t, x)
  <2>1. PICK v \in dsUnsure \cup UNION {dsEdit[e].old : e \in DsEdits} : v.type = t /\ x = v.is
    BY <1>2 DEF DsLeft
  <2>2. v \in DsOlds
    BY <1>1, <2>1
  <2>3. v \in dsUnsure \/ \E e \in DsEdits : v \in dsEdit[e].old
    BY <2>1
  <2>4. x \in DsStamps
    BY <2>1, <2>2 DEF DsOlds
  <2>. QED BY <2>1, <2>2, <2>3, <2>4 DEF DsHeld
<1>3. ASSUME NEW x, DsHeld(t, x) PROVE x \in DsLeft(t)
  <2>1. PICK v \in DsOlds : /\ v.type = t /\ v.is = x
                            /\ v \in dsUnsure \/ \E e \in DsEdits : v \in dsEdit[e].old
    BY <1>3 DEF DsHeld
  <2>2. v \in dsUnsure \cup UNION {dsEdit[e].old : e \in DsEdits}
    BY <2>1
  <2>. QED BY <2>1, <2>2 DEF DsLeft
<1>. QED BY <1>2, <1>3

(* What may be run stays what the rows and the calls say when a row        *)
(* changes and what it said is held by the call.                           *)
LEMMA DsRowChanges ==
    ASSUME DsInv, DsCalm, NEW s \in DsScripts, NEW new \in DsRows, ChangeRow(s, new),
           dsCopy' = dsCopy,
           \A t \in DsTypes : \A x \in DsStamps :
              /\ DsLive(dsRow, t, x) => DsLive(dsRow', t, x) \/ DsHeld(t, x)'
              /\ DsHeld(t, x)' => DsHeld(t, x) \/ DsLive(dsRow, t, x)
              /\ DsHeld(t, x) => DsHeld(t, x)'
    PROVE  /\ dsRow' \in [DsScripts -> DsRows] /\ dsMsg' \in [DsMessages -> DsTurns]
           /\ DsCopiesKnown' /\ DsMayRun' /\ DsLoaded'
<1>0. /\ dsRow \in [DsScripts -> DsRows] /\ dsMsg \in [DsMessages -> DsTurns]
      /\ dsCopy \in [DsTypes -> DsStamps]
  BY DEF DsInv, DsTyped
<1>1. /\ dsRow' = [dsRow EXCEPT ![s] = new]
      /\ \A m \in DsMessages : dsMsg[m].at # "set"
      /\ dsMsg' = [m \in DsMessages |->
            IF dsMsg[m].at = "idle" THEN dsMsg[m]
            ELSE [dsMsg[m] EXCEPT !.may = dsMsg[m].may \cup DsTruth(dsRow', dsMsg[m].type)]]
  BY DEF ChangeRow, DsCalm
<1>2. dsRow' \in [DsScripts -> DsRows]
  BY <1>0, <1>1
<1>3. ASSUME NEW m \in DsMessages
      PROVE  /\ dsMsg'[m] \in DsTurns
             /\ dsMsg'[m].at = dsMsg[m].at /\ dsMsg'[m].type = dsMsg[m].type
             /\ dsMsg[m].at # "idle" =>
                   dsMsg'[m].may = dsMsg[m].may \cup DsTruth(dsRow', dsMsg[m].type)
  <2>1. dsMsg[m] \in DsTurns /\ dsMsg[m].type \in DsTypes
    BY <1>0 DEF DsTurns
  <2>2. DsTruth(dsRow', dsMsg[m].type) \subseteq DsStamps
    BY <1>2, <2>1, DsTruthIs
  <2>3. CASE dsMsg[m].at = "idle"
    BY <1>1, <2>1, <2>3
  <2>4. CASE dsMsg[m].at # "idle"
    <3>1. dsMsg'[m] = [dsMsg[m] EXCEPT !.may = dsMsg[m].may \cup DsTruth(dsRow', dsMsg[m].type)]
      BY <1>1, <2>4
    <3>. QED BY <2>1, <2>2, <3>1 DEF DsTurns
  <2>. QED BY <2>3, <2>4
<1>4. dsMsg' \in [DsMessages -> DsTurns]
  <2>1. dsMsg' = [m \in DsMessages |-> dsMsg'[m]]
    BY <1>1
  <2>. QED BY <1>3, <2>1
<1>5. DsCopiesKnown'
  <2>. SUFFICES ASSUME NEW t \in DsTypes
       PROVE  \/ dsCopy'[t] \in {DsNothing, DsMarker}
              \/ DsLive(dsRow', t, dsCopy'[t])
              \/ \E v \in DsOlds : /\ v.type = t /\ v.is = dsCopy'[t]
                                   /\ v \in dsUnsure' \/ \E e \in DsEdits : v \in dsEdit'[e].old
    BY DEF DsCopiesKnown, DsHeld, DsLive
  <2>. PICK x \in DsStamps : x = dsCopy[t]
    BY <1>0
  <2>1. x \in {DsNothing, DsMarker} \/ DsLive(dsRow, t, x) \/ DsHeld(t, x)
    BY DEF DsInv, DsCopiesKnown
  <2>2. x \in {DsNothing, DsMarker} \/ DsLive(dsRow', t, x) \/ DsHeld(t, x)'
    BY <2>1
  <2>3. dsCopy'[t] = x
    OBVIOUS
  <2>. QED BY <2>2, <2>3 DEF DsHeld, DsLive
<1>6. DsMayRun'
  <2>. SUFFICES ASSUME NEW m \in DsMessages, dsMsg'[m].at # "idle", NEW x \in DsStamps,
                       NEW t \in DsTypes, t = dsMsg'[m].type,
                       DsLive(dsRow', t, x) \/ DsHeld(t, x)'
       PROVE  x \in dsMsg'[m].may
    <3>1. ASSUME NEW m \in DsMessages PROVE dsMsg'[m].type \in DsTypes
      BY <1>3 DEF DsTurns
    <3>. QED BY <3>1 DEF DsMayRun, DsHeld, DsLive
  <2>1. dsMsg'[m].may = dsMsg[m].may \cup DsTruth(dsRow', t) /\ t = dsMsg[m].type
        /\ dsMsg[m].at # "idle"
    BY <1>3
  <2>2. CASE DsLive(dsRow', t, x)
    BY <1>2, <2>1, <2>2, DsTruthIs
  <2>3. CASE DsHeld(t, x)'
    <3>1. DsHeld(t, x) \/ DsLive(dsRow, t, x)
      BY <2>3
    <3>. QED BY <2>1, <3>1 DEF DsInv, DsMayRun
  <2>. QED BY <2>2, <2>3
<1>7. DsLoaded'
  BY <1>1, <1>3 DEF DsLoaded
<1>. QED BY <1>2, <1>4, <1>5, <1>6, <1>7

(* What a call of the API puts in its place, when there is no other call.  *)
LEMMA DsJobMoves ==
    ASSUME DsInv, DsCalm, NEW e \in DsEdits, NEW job \in DsJobs,
           dsEdit' = [dsEdit EXCEPT ![e] = job]
    PROVE  /\ dsEdit' \in [DsEdits -> DsJobs] /\ dsEdit'[e] = job
           /\ DsJobFits(e)' => \A f \in DsEdits : DsJobFits(f)'
<1>1. dsEdit' \in [DsEdits -> DsJobs] /\ dsEdit'[e] = job
  BY DEF DsInv, DsTyped
<1>2. \A f \in DsEdits : f = e
  BY DEF DsCalm
<1>3. ASSUME DsJobFits(e)', NEW f \in DsEdits PROVE DsJobFits(f)'
  <2>1. f = e
    BY <1>2
  <2>. QED BY <1>3, <2>1
<1>. QED BY <1>1, <1>2, <1>3

(* A call changes its script; what the row said before is held by the call *)
(* or said by the row still.                                               *)
LEMMA DsCallInv ==
    ASSUME DsInv, DsCalm, NEW e \in DsEdits, NEW s \in DsScripts, NEW new \in DsRows,
           NEW job \in DsJobs,
           ChangeRow(s, new), dsEdit' = [dsEdit EXCEPT ![e] = job], dsEdit[e].old = {},
           UNCHANGED <<dsCopy, dsUnsure, dsWrong>>,
           \/ job.old = DsReplaced(s)
           \/ /\ job.old = {}
              /\ dsRow[s].state = "there" /\ dsRow[s].on =>
                    /\ new.state = "there" /\ new.on
                    /\ new.type = dsRow[s].type /\ new.text = dsRow[s].text,
           DsJobFits(e)'
    PROVE  DsInv'
<1>0. dsRow \in [DsScripts -> DsRows] /\ dsRow' = [dsRow EXCEPT ![s] = new]
  BY DEF DsInv, DsTyped, ChangeRow
<1>1. ASSUME NEW t \in DsTypes, NEW x \in DsStamps
      PROVE  /\ DsLive(dsRow, t, x) => DsLive(dsRow', t, x) \/ DsHeld(t, x)'
             /\ DsHeld(t, x)' => DsHeld(t, x) \/ DsLive(dsRow, t, x)
             /\ DsHeld(t, x) => DsHeld(t, x)'
  <2>1. /\ DsHeld(t, x)' <=>
              \E v \in DsOlds : v.type = t /\ v.is = x /\ (v \in dsUnsure \/ v \in job.old)
        /\ DsHeld(t, x) <=> \E v \in DsOlds : v.type = t /\ v.is = x /\ v \in dsUnsure
    <3>0. dsEdit'[e] = job /\ \A f \in DsEdits : f = e
      BY DsJobMoves DEF DsCalm
    <3>1. /\ DsHeld(t, x)' <=>
                \E v \in DsOlds : v.type = t /\ v.is = x /\ (v \in dsUnsure' \/ v \in job.old)
          /\ DsHeld(t, x) <=>
                \E v \in DsOlds : v.type = t /\ v.is = x /\ (v \in dsUnsure \/ v \in dsEdit[e].old)
      BY <3>0 DEF DsHeld
    <3>2. dsUnsure' = dsUnsure /\ \A v : v \notin dsEdit[e].old
      OBVIOUS
    <3>. QED BY ONLY <3>1, <3>2
  <2>2. DsHeld(t, x) => DsHeld(t, x)'
    BY <2>1
  <2>3. ASSUME DsHeld(t, x)' PROVE DsHeld(t, x) \/ DsLive(dsRow, t, x)
    <3>1. PICK v \in DsOlds : v.type = t /\ v.is = x /\ (v \in dsUnsure \/ v \in job.old)
      BY <2>1, <2>3
    <3>2. CASE v \in dsUnsure
      BY <2>1, <3>1, <3>2
    <3>3. CASE v \in job.old
      <4>1. s \in DsOn(dsRow, dsRow[s].type) /\ v = DsVersion(s)
        BY <3>3 DEF DsReplaced
      <4>. QED BY <3>1, <4>1 DEF DsOn, DsVersion, DsLive
    <3>. QED BY <3>1, <3>2, <3>3
  <2>4. ASSUME DsLive(dsRow, t, x) PROVE DsLive(dsRow', t, x) \/ DsHeld(t, x)'
    <3>1. PICK z \in DsScripts : /\ dsRow[z].state = "there" /\ dsRow[z].on /\ dsRow[z].type = t
                                 /\ x = [script |-> z, text |-> dsRow[z].text]
      BY <2>4 DEF DsLive
    <3>2. CASE z # s
      <4>1. dsRow'[z] = dsRow[z]
        BY <1>0, <3>2
      <4>. QED BY <3>1, <4>1 DEF DsLive
    <3>3. CASE z = s /\ job.old = DsReplaced(s)
      <4>1. DsVersion(s) \in job.old /\ DsVersion(s).type = t /\ DsVersion(s).is = x
        BY <3>1, <3>3 DEF DsReplaced, DsOn, DsVersion
      <4>2. DsVersion(s) \in DsOlds
        BY <4>1 DEF DsJobs
      <4>. QED BY <2>1, <4>1, <4>2
    <3>4. CASE z = s /\ job.old # DsReplaced(s)
      <4>1. dsRow'[s] = new
        BY <1>0
      <4>2. /\ new.state = "there" /\ new.on /\ new.type = t
            /\ x = [script |-> s, text |-> new.text]
        BY <3>1, <3>4
      <4>. QED BY <4>1, <4>2 DEF DsLive
    <3>. QED BY <3>2, <3>3, <3>4
  <2>. QED BY <2>2, <2>3, <2>4
<1>2. /\ dsRow' \in [DsScripts -> DsRows] /\ dsMsg' \in [DsMessages -> DsTurns]
      /\ DsCopiesKnown' /\ DsMayRun' /\ DsLoaded'
  BY <1>1, DsRowChanges
<1>3. dsEdit' \in [DsEdits -> DsJobs] /\ \A f \in DsEdits : DsJobFits(f)'
  BY DsJobMoves
<1>. QED BY <1>2, <1>3 DEF DsInv, DsTyped, DsRunsCurrent

(* A call goes on, and may delete the copy of the type that its old        *)
(* versions have, or leave them as versions whose replacement failed.      *)
LEMMA DsCallGoesOn ==
    ASSUME DsInv, DsCalm, NEW e \in DsEdits, NEW job \in DsJobs, NEW t \in DsTypes,
           dsEdit' = [dsEdit EXCEPT ![e] = job], job.old = {},
           UNCHANGED <<dsRow, dsMsg, dsWrong>>,
           \/ dsCopy' = dsCopy /\ dsUnsure' = dsUnsure \cup dsEdit[e].old
           \/ /\ dsCopy' = [dsCopy EXCEPT ![t] = DsNothing] /\ dsUnsure' = dsUnsure
              /\ \A v \in dsEdit[e].old : v.type = t,
           DsJobFits(e)'
    PROVE  DsInv'
<1>0. /\ dsCopy \in [DsTypes -> DsStamps] /\ dsEdit[e].old \subseteq DsOlds
      /\ dsUnsure \subseteq DsOlds /\ dsRow \in [DsScripts -> DsRows]
      /\ dsMsg \in [DsMessages -> DsTurns]
  BY DEF DsInv, DsTyped, DsJobs
<1>1. dsEdit' \in [DsEdits -> DsJobs] /\ \A f \in DsEdits : DsJobFits(f)'
  BY DsJobMoves
<1>2. dsCopy' \in [DsTypes -> DsStamps] /\ dsUnsure' \subseteq DsOlds
  BY <1>0, DsStampTypes
<1>3. ASSUME NEW u, NEW x
      PROVE  /\ DsHeld(u, x)' => DsHeld(u, x)
             /\ DsHeld(u, x) => DsHeld(u, x)' \/ (u = t /\ dsCopy'[t] = DsNothing)
  <2>1. /\ DsHeld(u, x)' <=> \E v \in DsOlds : v.type = u /\ v.is = x /\ v \in dsUnsure'
        /\ DsHeld(u, x) <=> \E v \in DsOlds : v.type = u /\ v.is = x
                                              /\ (v \in dsUnsure \/ v \in dsEdit[e].old)
    <3>0. dsEdit'[e] = job /\ \A f \in DsEdits : f = e
      BY DsJobMoves DEF DsCalm
    <3>1. /\ DsHeld(u, x)' <=>
                \E v \in DsOlds : v.type = u /\ v.is = x /\ (v \in dsUnsure' \/ v \in job.old)
          /\ DsHeld(u, x) <=>
                \E v \in DsOlds : v.type = u /\ v.is = x /\ (v \in dsUnsure \/ v \in dsEdit[e].old)
      BY <3>0 DEF DsHeld
    <3>2. \A v : v \notin job.old
      OBVIOUS
    <3>. QED BY ONLY <3>1, <3>2
  <2>2. DsHeld(u, x)' => DsHeld(u, x)
    BY <2>1
  <2>3. ASSUME DsHeld(u, x), ~DsHeld(u, x)' PROVE u = t /\ dsCopy'[t] = DsNothing
    <3>1. PICK v \in DsOlds : v.type = u /\ v.is = x /\ v \in dsEdit[e].old /\ v \notin dsUnsure'
      BY <2>1, <2>3
    <3>. QED BY <1>0, <3>1
  <2>. QED BY <2>2, <2>3
<1>4. DsCopiesKnown'
  <2>. SUFFICES ASSUME NEW u \in DsTypes
       PROVE  \/ dsCopy'[u] \in {DsNothing, DsMarker}
              \/ DsLive(dsRow, u, dsCopy'[u])
              \/ \E v \in DsOlds : /\ v.type = u /\ v.is = dsCopy'[u]
                                   /\ v \in dsUnsure' \/ \E f \in DsEdits : v \in dsEdit'[f].old
    BY DEF DsCopiesKnown, DsHeld, DsLive
  <2>1. CASE dsCopy'[u] = DsNothing
    BY <2>1
  <2>2. CASE dsCopy'[u] # DsNothing
    <3>. PICK x \in DsStamps : x = dsCopy'[u]
      BY <1>2
    <3>1. dsCopy[u] = x
      BY <1>0, <2>2
    <3>2. x \in {DsNothing, DsMarker} \/ DsLive(dsRow, u, x) \/ DsHeld(u, x)
      BY <3>1 DEF DsInv, DsCopiesKnown
    <3>3. x \in {DsNothing, DsMarker} \/ DsLive(dsRow, u, x) \/ DsHeld(u, x)'
      BY <1>3, <2>2, <3>2
    <3>. QED BY <3>3 DEF DsHeld
  <2>. QED BY <2>1, <2>2
<1>5. DsMayRun'
  <2>1. ASSUME NEW m \in DsMessages, dsMsg[m].at # "idle", NEW x \in DsStamps,
               NEW u, u = dsMsg[m].type, DsLive(dsRow, u, x) \/ DsHeld(u, x)'
        PROVE  x \in dsMsg[m].may
    <3>1. DsLive(dsRow, u, x) \/ DsHeld(u, x)
      BY <1>3, <2>1
    <3>. QED BY <2>1, <3>1 DEF DsInv, DsMayRun
  <2>. QED BY <2>1 DEF DsMayRun, DsHeld, DsLive
<1>6. DsLoaded'
  BY DEF DsInv, DsLoaded, DsLive
<1>. QED BY <1>0, <1>1, <1>2, <1>4, <1>5, <1>6 DEF DsInv, DsTyped, DsRunsCurrent

LEMMA DsReplacedIs ==
    ASSUME DsInv, NEW s \in DsScripts
    PROVE  /\ DsReplaced(s) \subseteq DsOlds /\ \A v \in DsReplaced(s) : v.type = dsRow[s].type
           /\ ~dsRow[s].on => DsReplaced(s) = {}
           /\ dsRow[s] \in DsRows
<1>1. dsRow[s] \in DsRows
  BY DEF DsInv, DsTyped
<1>2. [script |-> s, text |-> dsRow[s].text] \in DsStamps
  BY <1>1 DEF DsRows, DsStamps
<1>3. DsVersion(s) \in DsOlds /\ DsVersion(s).type = dsRow[s].type
  BY <1>1, <1>2 DEF DsVersion, DsOlds, DsRows
<1>. QED BY <1>1, <1>3 DEF DsReplaced, DsOn

LEMMA DsCallBegins ==
    ASSUME DsInv, DsCalm, NEW e \in DsEdits, NEW s \in DsScripts,
           (\E t \in DsTypes : UpdateDataScript(e, s, t)) \/ DisableDataScript(e, s)
    PROVE  DsInv'
<1>. DEFINE job == [at |-> "del", script |-> s, type |-> dsRow[s].type, old |-> DsReplaced(s)]
<1>0. /\ dsRow[s] \in DsRows /\ DsReplaced(s) \subseteq DsOlds
      /\ \A v \in DsReplaced(s) : v.type = dsRow[s].type
      /\ dsEdit[e] \in DsJobs /\ DsJobFits(e)
  BY DsReplacedIs DEF DsInv, DsTyped
<1>1. PICK new \in DsRows :
         /\ ChangeRow(s, new) /\ new.type = dsRow[s].type /\ new.state = "there"
         /\ dsEdit[e].at = "idle" /\ dsEdit' = [dsEdit EXCEPT ![e] = job]
         /\ UNCHANGED <<dsCopy, dsUnsure, dsWrong>>
  <2>1. ASSUME NEW t \in DsTypes, UpdateDataScript(e, s, t)
        PROVE  /\ ChangeRow(s, [dsRow[s] EXCEPT !.type = t, !.text = dsRow[s].text + 1])
               /\ t = dsRow[s].type /\ dsRow[s].state = "there"
               /\ dsEdit[e].at = "idle" /\ dsEdit' = [dsEdit EXCEPT ![e] = job]
               /\ UNCHANGED <<dsCopy, dsUnsure, dsWrong>>
    <3>1. t = dsRow[s].type
      BY <2>1 DEF UpdateDataScript, DsCalm
    <3>. QED BY <2>1, <3>1 DEF UpdateDataScript
  <2>2. ASSUME DisableDataScript(e, s)
        PROVE  /\ ChangeRow(s, [dsRow[s] EXCEPT !.on = FALSE]) /\ dsRow[s].state = "there"
               /\ dsEdit[e].at = "idle" /\ dsEdit' = [dsEdit EXCEPT ![e] = job]
               /\ UNCHANGED <<dsCopy, dsUnsure, dsWrong>>
    BY <2>2 DEF DisableDataScript
  <2>. HIDE DEF job
  <2>3. ASSUME NEW t \in DsTypes, UpdateDataScript(e, s, t)
        PROVE  \E new \in DsRows :
                  /\ ChangeRow(s, new) /\ new.type = dsRow[s].type /\ new.state = "there"
                  /\ dsEdit[e].at = "idle" /\ dsEdit' = [dsEdit EXCEPT ![e] = job]
                  /\ UNCHANGED <<dsCopy, dsUnsure, dsWrong>>
    <3>. DEFINE new == [dsRow[s] EXCEPT !.type = t, !.text = dsRow[s].text + 1]
    <3>1. new \in DsRows /\ new.type = dsRow[s].type /\ new.state = "there"
      <4>1. PICK n \in Nat : n = dsRow[s].text + 1
        <5>1. dsRow[s].text \in Nat
          BY <1>0 DEF DsRows
        <5>. QED BY <5>1
      <4>2. t = dsRow[s].type /\ dsRow[s].state = "there"
        BY <2>1, <2>3
      <4>3. new = [dsRow[s] EXCEPT !.type = t, !.text = n]
        BY <4>1
      <4>. HIDE DEF new
      <4>. QED BY <1>0, <4>2, <4>3 DEF DsRows
    <3>2. /\ ChangeRow(s, new)
          /\ dsEdit[e].at = "idle" /\ dsEdit' = [dsEdit EXCEPT ![e] = job]
          /\ UNCHANGED <<dsCopy, dsUnsure, dsWrong>>
      BY <2>1, <2>3
    <3>. HIDE DEF new
    <3>. QED BY <3>1, <3>2
  <2>4. ASSUME DisableDataScript(e, s)
        PROVE  \E new \in DsRows :
                  /\ ChangeRow(s, new) /\ new.type = dsRow[s].type /\ new.state = "there"
                  /\ dsEdit[e].at = "idle" /\ dsEdit' = [dsEdit EXCEPT ![e] = job]
                  /\ UNCHANGED <<dsCopy, dsUnsure, dsWrong>>
    <3>. DEFINE new == [dsRow[s] EXCEPT !.on = FALSE]
    <3>1. new \in DsRows /\ new.type = dsRow[s].type /\ new.state = "there"
      <4>1. dsRow[s].state = "there"
        BY <2>2, <2>4
      <4>. QED BY <1>0, <4>1 DEF DsRows
    <3>. HIDE DEF new
    <3>. QED BY <2>2, <2>4, <3>1 DEF new
  <2>. QED BY <2>3, <2>4
<1>2. job \in DsJobs /\ job.old = DsReplaced(s)
  BY <1>0 DEF DsJobs, DsRows
<1>3. dsEdit[e].old = {}
  BY <1>0, <1>1 DEF DsJobFits
<1>4. DsJobFits(e)'
  <2>1. dsEdit'[e] = job
    BY <1>1, <1>2 DEF DsInv, DsTyped
  <2>2. dsRow'[s] = new
    BY <1>1 DEF DsInv, DsTyped, ChangeRow
  <2>. QED BY <1>0, <1>1, <2>1, <2>2 DEF DsJobFits
<1>. HIDE DEF job
<1>. QED BY <1>1, <1>2, <1>3, <1>4, DsCallInv

LEMMA DsEnableInv ==
    ASSUME DsInv, DsCalm, NEW e \in DsEdits, EnableDataScript(e)
    PROVE  DsInv'
<1>0. /\ dsEdit[e].at = "enable" /\ dsEdit[e].old = {} /\ dsEdit[e].script \in DsScripts
      /\ dsEdit' = [dsEdit EXCEPT ![e] = DsIdleEdit] /\ UNCHANGED <<dsCopy, dsUnsure, dsWrong>>
      /\ DsIdleEdit \in DsJobs /\ DsIdleEdit.at = "idle" /\ DsIdleEdit.old = {}
  BY DsStampTypes DEF EnableDataScript, DsInv, DsJobFits
<1>1. PICK s \in DsScripts : s = dsEdit[e].script
  BY <1>0
<1>2. DsJobFits(e)'
  <2>1. dsEdit'[e] = DsIdleEdit
    BY <1>0 DEF DsInv, DsTyped
  <2>. QED BY <1>0, <2>1 DEF DsJobFits
<1>3. CASE dsRow[s].state = "there"
  <2>. DEFINE new == [dsRow[s] EXCEPT !.on = TRUE]
  <2>1. ChangeRow(s, new)
    BY <1>1, <1>3 DEF EnableDataScript
  <2>2. /\ new \in DsRows /\ new.on /\ new.state = dsRow[s].state /\ new.type = dsRow[s].type
        /\ new.text = dsRow[s].text
    BY DsReplacedIs DEF DsRows
  <2>. HIDE DEF new
  <2>. QED BY <1>0, <1>2, <2>1, <2>2, DsCallInv
<1>4. CASE dsRow[s].state # "there"
  <2>1. UNCHANGED <<dsRow, dsMsg>>
    BY <1>1, <1>4 DEF EnableDataScript
  <2>2. dsUnsure' = dsUnsure \cup dsEdit[e].old
    BY <1>0
  <2>3. PICK t \in DsTypes : TRUE
    BY DsAssumption
  <2>. QED BY <1>0, <1>2, <2>1, <2>2, <2>3, DsCallGoesOn
<1>. QED BY <1>3, <1>4

LEMMA DsDeleteInv ==
    ASSUME DsInv, DsCalm, NEW e \in DsEdits, DeleteDataScript(e)
    PROVE  DsInv'
<1>. PICK s : s = dsEdit[e].script
  OBVIOUS
<1>. DEFINE new == [dsRow[s] EXCEPT !.state = "gone", !.on = FALSE]
            job == IF dsEdit[e].at = "deleteOff" THEN DsIdleEdit
                   ELSE [dsEdit[e] EXCEPT !.at = "delGone", !.old = DsReplaced(s)]
<1>0. /\ dsEdit[e].at \in {"delete", "deleteOff"} /\ dsEdit[e] \in DsJobs /\ DsJobFits(e)
      /\ ChangeRow(s, new) /\ dsEdit' = [dsEdit EXCEPT ![e] = job]
      /\ UNCHANGED <<dsCopy, dsUnsure, dsWrong>>
  BY DEF DeleteDataScript, DsInv, DsTyped
<1>1. /\ s \in DsScripts /\ dsEdit[e].old = {} /\ dsRow[s].type = dsEdit[e].type
      /\ dsEdit[e].at = "deleteOff" => ~dsRow[s].on
  BY <1>0 DEF DsJobFits
<1>2. /\ dsRow[s] \in DsRows /\ DsReplaced(s) \subseteq DsOlds
      /\ \A v \in DsReplaced(s) : v.type = dsEdit[e].type
      /\ ~dsRow[s].on => DsReplaced(s) = {}
  BY <1>1, DsReplacedIs
<1>3. new \in DsRows
  BY <1>2 DEF DsRows
<1>4. /\ job \in DsJobs /\ job.old = DsReplaced(s)
      /\ \/ job.at = "idle" /\ job.old = {}
         \/ job.at = "delGone" /\ job.type = dsEdit[e].type /\ job.script = s
  <2>1. CASE dsEdit[e].at = "deleteOff"
    BY <1>1, <1>2, <2>1, DsStampTypes
  <2>2. CASE dsEdit[e].at # "deleteOff"
    <3>1. job = [dsEdit[e] EXCEPT !.at = "delGone", !.old = DsReplaced(s)]
      BY <2>2
    <3>. HIDE DEF job
    <3>. QED BY <1>0, <1>2, <3>1 DEF DsJobs
  <2>. QED BY <2>1, <2>2
<1>. HIDE DEF new, job
<1>5. DsJobFits(e)'
  <2>1. dsEdit'[e] = job
    BY <1>0, <1>4 DEF DsInv, DsTyped
  <2>. QED BY <1>1, <1>2, <1>4, <2>1 DEF DsJobFits
<1>. QED BY <1>0, <1>1, <1>3, <1>4, <1>5, DsCallInv

LEMMA DsOtherCallsInv ==
    ASSUME DsInv, DsCalm, NEW e \in DsEdits,
           \/ \E s \in DsScripts : CheckEnable(e, s) \/ ReadForDelete(e, s)
           \/ DelDataScriptCache(e) \/ DelPanics(e) \/ DelFails(e) \/ DelOfGoneFails(e)
    PROVE  DsInv'
<1>0. dsEdit[e] \in DsJobs /\ DsJobFits(e) /\ dsEdit \in [DsEdits -> DsJobs]
  BY DEF DsInv, DsTyped
<1>1. CASE \E s \in DsScripts : CheckEnable(e, s) \/ ReadForDelete(e, s)
  <2>1. PICK s \in DsScripts : CheckEnable(e, s) \/ ReadForDelete(e, s)
    BY <1>1
  <2>2. /\ UNCHANGED <<dsRow, dsCopy, dsMsg, dsUnsure, dsWrong>>
        /\ dsEdit[e].at = "idle" /\ dsRow[s].state = "there"
    BY <2>1 DEF CheckEnable, ReadForDelete
  <2>3. dsEdit[e].old = {} /\ dsRow[s] \in DsRows
    BY <1>0, <2>2, DsReplacedIs DEF DsJobFits
  <2>4. PICK job \in DsJobs :
           /\ dsEdit' = [dsEdit EXCEPT ![e] = job] /\ job.old = {} /\ job.script = s
           /\ \/ job.at = "enable"
              \/ /\ job.at \in {"delete", "deleteOff"} /\ job.type = dsRow[s].type
                 /\ job.at = "deleteOff" => ~dsRow[s].on
    <3>1. CASE CheckEnable(e, s)
      <4>1. dsEdit' = [dsEdit EXCEPT ![e] = [DsIdleEdit EXCEPT !.at = "enable", !.script = s]]
        BY <3>1 DEF CheckEnable
      <4>2. LET job == [DsIdleEdit EXCEPT !.at = "enable", !.script = s]
            IN  job \in DsJobs /\ job.old = {} /\ job.script = s /\ job.at = "enable"
        BY DsStampTypes DEF DsJobs
      <4>. QED BY <4>1, <4>2
    <3>2. CASE ReadForDelete(e, s)
      <4>. DEFINE job == [at |-> IF dsRow[s].on THEN "delete" ELSE "deleteOff", script |-> s,
                          type |-> dsRow[s].type, old |-> {}]
      <4>1. dsEdit' = [dsEdit EXCEPT ![e] = job]
        BY <3>2 DEF ReadForDelete
      <4>2. /\ job \in DsJobs /\ job.old = {} /\ job.script = s /\ job.type = dsRow[s].type
            /\ job.at \in {"delete", "deleteOff"} /\ (job.at = "deleteOff" => ~dsRow[s].on)
        BY <2>3 DEF DsJobs, DsRows
      <4>. HIDE DEF job
      <4>. QED BY <4>1, <4>2
    <3>. QED BY <2>1, <3>1, <3>2
  <2>5. DsJobFits(e)'
    <3>1. dsEdit'[e] = job
      BY <1>0, <2>4
    <3>. QED BY <2>2, <2>4, <3>1 DEF DsJobFits
  <2>6. dsUnsure' = dsUnsure \cup dsEdit[e].old /\ \E t \in DsTypes : TRUE
    BY <2>2, <2>3, DsAssumption
  <2>. QED BY <2>2, <2>4, <2>5, <2>6, DsCallGoesOn
<1>2. CASE DelDataScriptCache(e) \/ DelPanics(e) \/ DelFails(e) \/ DelOfGoneFails(e)
  <2>1. /\ UNCHANGED <<dsRow, dsMsg, dsWrong>> /\ dsEdit' = [dsEdit EXCEPT ![e] = DsIdleEdit]
        /\ DsIdleEdit \in DsJobs /\ DsIdleEdit.old = {} /\ DsIdleEdit.at = "idle"
    BY <1>2, DsStampTypes DEF DelDataScriptCache, DelPanics, DelFails, DelOfGoneFails, GiveUp
  <2>2. DsJobFits(e)'
    <3>1. dsEdit'[e] = DsIdleEdit
      BY <1>0, <2>1
    <3>. QED BY <2>1, <3>1 DEF DsJobFits
  <2>3. PICK t \in DsTypes :
           \/ dsCopy' = dsCopy /\ dsUnsure' = dsUnsure \cup dsEdit[e].old
           \/ /\ dsCopy' = [dsCopy EXCEPT ![t] = DsNothing] /\ dsUnsure' = dsUnsure
              /\ \A v \in dsEdit[e].old : v.type = t
    <3>1. CASE DelPanics(e) \/ DelFails(e)
      BY <3>1, DsAssumption DEF DelPanics, DelFails, GiveUp
    <3>2. CASE DelOfGoneFails(e)
      BY <3>2 DEF DelOfGoneFails, DsCalm
    <3>3. CASE DelDataScriptCache(e) /\ dsEdit[e].at = "delGone"
      <4>1. dsEdit[e].type \in DsTypes /\ \A v \in dsEdit[e].old : v.type = dsEdit[e].type
        BY <1>0, <3>3 DEF DsJobFits, DsJobs
      <4>. QED BY <3>3, <4>1 DEF DelDataScriptCache
    <3>4. CASE DelDataScriptCache(e) /\ dsEdit[e].at = "del"
      <4>. DEFINE t == dsRow[dsEdit[e].script].type
      <4>1. dsEdit[e].script \in DsScripts /\ \A v \in dsEdit[e].old : v.type = t
        BY <1>0, <3>4 DEF DsJobFits
      <4>2. t \in DsTypes
        BY <4>1 DEF DsInv, DsTyped, DsRows
      <4>3. dsCopy' = [dsCopy EXCEPT ![t] = DsNothing] /\ dsUnsure' = dsUnsure
        BY <3>4 DEF DelDataScriptCache
      <4>. HIDE DEF t
      <4>. QED BY <4>1, <4>2, <4>3
    <3>. QED BY <1>2, <3>1, <3>2, <3>3, <3>4 DEF DelDataScriptCache
  <2>. QED BY <2>1, <2>2, <2>3, DsCallGoesOn
<1>. QED BY <1>1, <1>2

(* A message goes on while rows and calls stay; what it puts into Redis is *)
(* what the rows say.                                                      *)
LEMMA DsMessageGoesOn ==
    ASSUME DsInv, NEW m \in DsMessages, NEW turn \in DsTurns,
           dsMsg' = [dsMsg EXCEPT ![m] = turn], UNCHANGED <<dsRow, dsEdit, dsUnsure>>,
           turn.at # "idle" => \A x \in DsStamps : DsLive(dsRow, turn.type, x) \/ DsHeld(turn.type, x)
                                                      => x \in turn.may,
           turn.at = "set" => turn.got = DsMarker \/ DsLive(dsRow, turn.type, turn.got),
           \/ dsCopy' = dsCopy
           \/ \E t \in DsTypes, x \in DsStamps :
                 /\ dsCopy' = [dsCopy EXCEPT ![t] = x]
                 /\ x = DsMarker \/ DsLive(dsRow, t, x),
           DsRunsCurrent'
    PROVE  DsInv'
<1>1. /\ dsMsg' \in [DsMessages -> DsTurns] /\ dsMsg'[m] = turn
      /\ \A o \in DsMessages : o # m => dsMsg'[o] = dsMsg[o]
      /\ dsCopy \in [DsTypes -> DsStamps]
  BY DEF DsInv, DsTyped
<1>2. /\ dsCopy' \in [DsTypes -> DsStamps]
      /\ \A t \in DsTypes : dsCopy'[t] = dsCopy[t] \/ dsCopy'[t] = DsMarker
                            \/ DsLive(dsRow, t, dsCopy'[t])
  <2>1. CASE dsCopy' = dsCopy
    BY <1>1, <2>1
  <2>2. CASE dsCopy' # dsCopy
    <3>1. PICK u \in DsTypes, y \in DsStamps :
             dsCopy' = [dsCopy EXCEPT ![u] = y] /\ (y = DsMarker \/ DsLive(dsRow, u, y))
      BY <2>2
    <3>2. ASSUME NEW t \in DsTypes
          PROVE  \/ dsCopy'[t] = dsCopy[t] \/ dsCopy'[t] = DsMarker
                 \/ DsLive(dsRow, t, dsCopy'[t])
      BY <1>1, <3>1 DEF DsLive
    <3>. QED BY <1>1, <3>1, <3>2
  <2>. QED BY <2>1, <2>2
<1>3. DsCopiesKnown'
  <2>. SUFFICES ASSUME NEW t \in DsTypes
       PROVE  \/ dsCopy'[t] \in {DsNothing, DsMarker}
              \/ DsLive(dsRow', t, dsCopy'[t])
              \/ \E v \in DsOlds : /\ v.type = t /\ v.is = dsCopy'[t]
                                   /\ v \in dsUnsure' \/ \E e \in DsEdits : v \in dsEdit'[e].old
    BY DEF DsCopiesKnown, DsHeld, DsLive
  <2>1. CASE dsCopy'[t] = DsMarker \/ DsLive(dsRow, t, dsCopy'[t])
    BY <2>1
  <2>2. CASE dsCopy'[t] = dsCopy[t]
    <3>. PICK x : x = dsCopy[t]
      OBVIOUS
    <3>1. x \in {DsNothing, DsMarker} \/ DsLive(dsRow, t, x) \/ DsHeld(t, x)
      BY DEF DsInv, DsCopiesKnown
    <3>2. dsCopy'[t] = x
      BY <2>2
    <3>. QED BY <3>1, <3>2 DEF DsHeld, DsLive
  <2>. QED BY <1>2, <2>1, <2>2
<1>4. DsMayRun'
  <2>1. ASSUME NEW o \in DsMessages, dsMsg'[o].at # "idle", NEW x \in DsStamps,
               DsLive(dsRow, dsMsg'[o].type, x) \/ DsHeld(dsMsg'[o].type, x)
        PROVE  x \in dsMsg'[o].may
    <3>1. CASE o = m
      <4>1. DsLive(dsRow, turn.type, x) \/ DsHeld(turn.type, x)
        BY <1>1, <2>1, <3>1 DEF DsLive, DsHeld
      <4>. QED BY <1>1, <2>1, <3>1, <4>1
    <3>2. CASE o # m
      <4>1. DsLive(dsRow, dsMsg[o].type, x) \/ DsHeld(dsMsg[o].type, x)
        BY <1>1, <2>1, <3>2 DEF DsLive, DsHeld
      <4>. QED BY <1>1, <2>1, <3>2, <4>1 DEF DsInv, DsMayRun
    <3>. QED BY <3>1, <3>2
  <2>. QED BY <2>1 DEF DsMayRun, DsHeld, DsLive
<1>5. DsLoaded'
  <2>1. ASSUME NEW o \in DsMessages, dsMsg'[o].at = "set"
        PROVE  dsMsg'[o].got = DsMarker \/ DsLive(dsRow, dsMsg'[o].type, dsMsg'[o].got)
    <3>1. CASE o = m
      BY <1>1, <2>1, <3>1
    <3>2. CASE o # m
      BY <1>1, <2>1, <3>2 DEF DsInv, DsLoaded
    <3>. QED BY <3>1, <3>2
  <2>. QED BY <2>1 DEF DsLoaded, DsLive
<1>6. \A e \in DsEdits : DsJobFits(e)'
  BY DEF DsInv, DsJobFits
<1>. QED BY <1>1, <1>2, <1>3, <1>4, <1>5, <1>6 DEF DsInv, DsTyped

(* A message never runs an old version: what it has is what it may run, or *)
(* that there is no script.                                                *)
LEMMA DsRuns ==
    ASSUME DsInv, NEW m \in DsMessages, NEW x \in DsStamps, RunScript(m, x),
           dsMsg[m].at # "idle",
           x = DsMarker \/ DsLive(dsRow, dsMsg[m].type, x) \/ DsHeld(dsMsg[m].type, x)
    PROVE  /\ dsMsg' = [dsMsg EXCEPT ![m] = DsIdleMsg] /\ DsRunsCurrent'
           /\ DsIdleMsg \in DsTurns /\ DsIdleMsg.at = "idle"
<1>1. x = DsMarker \/ x \in dsMsg[m].may
  BY DEF DsInv, DsMayRun
<1>2. DsRunsCurrent'
  BY <1>1 DEF RunScript, DsInv, DsRunsCurrent
<1>. QED BY <1>2, DsStampTypes DEF RunScript

LEMMA DsTakeInv ==
    ASSUME DsInv, NEW m \in DsMessages, NEW t \in DsTypes, TakeMessage(m, t)
    PROVE  DsInv'
<1>. DEFINE turn == [at |-> "get", type |-> t, got |-> DsNothing,
                     may |-> DsTruth(dsRow, t) \cup DsLeft(t)]
<1>1. /\ dsMsg' = [dsMsg EXCEPT ![m] = turn]
      /\ UNCHANGED <<dsRow, dsCopy, dsEdit, dsUnsure, dsWrong>>
  BY DEF TakeMessage
<1>2. dsRow \in [DsScripts -> DsRows] /\ DsTyped
  BY DEF DsInv, DsTyped
<1>3. DsTruth(dsRow, t) \subseteq DsStamps /\ DsLeft(t) \subseteq DsStamps
  BY <1>2, DsTruthIs, DsLeftIs
<1>4. turn \in DsTurns /\ turn.at = "get" /\ turn.type = t
      /\ turn.may = DsTruth(dsRow, t) \cup DsLeft(t)
  BY <1>3, DsStampTypes DEF DsTurns
<1>5. ASSUME NEW x \in DsStamps, DsLive(dsRow, t, x) \/ DsHeld(t, x)
      PROVE  x \in DsTruth(dsRow, t) \cup DsLeft(t)
  BY <1>2, <1>5, DsTruthIs, DsLeftIs
<1>6. DsRunsCurrent'
  BY <1>1 DEF DsInv, DsRunsCurrent
<1>. HIDE DEF turn
<1>7. \A x \in DsStamps : DsLive(dsRow, turn.type, x) \/ DsHeld(turn.type, x) => x \in turn.may
  BY <1>4, <1>5 DEF DsLive, DsHeld
<1>. QED BY <1>1, <1>4, <1>6, <1>7, DsMessageGoesOn

(* A message that goes on to read the row, or has read it.                 *)
LEMMA DsReadInv ==
    ASSUME DsInv, DsCalm, NEW m \in DsMessages, dsMsg[m].at # "idle",
           \/ dsMsg' = [dsMsg EXCEPT ![m].at = "load"]
           \/ \E v \in DsTruth(dsRow, dsMsg[m].type) :
                 dsMsg' = [dsMsg EXCEPT ![m] = [dsMsg[m] EXCEPT !.at = "set", !.got = v]],
           UNCHANGED <<dsRow, dsCopy, dsEdit, dsUnsure, dsWrong>>
    PROVE  DsInv'
<1>1. dsMsg[m] \in DsTurns /\ dsMsg[m].type \in DsTypes /\ dsRow \in [DsScripts -> DsRows]
  BY DEF DsInv, DsTyped, DsTurns
<1>2. PICK turn \in DsTurns :
         /\ dsMsg' = [dsMsg EXCEPT ![m] = turn]
         /\ turn.type = dsMsg[m].type /\ turn.may = dsMsg[m].may
         /\ turn.at = "set" => turn.got = DsMarker \/ DsLive(dsRow, dsMsg[m].type, turn.got)
  <2>1. CASE dsMsg' = [dsMsg EXCEPT ![m].at = "load"]
    <3>. DEFINE turn == [dsMsg[m] EXCEPT !.at = "load"]
    <3>1. dsMsg' = [dsMsg EXCEPT ![m] = turn]
      BY <2>1
    <3>2. turn \in DsTurns /\ turn.at = "load" /\ turn.type = dsMsg[m].type
          /\ turn.may = dsMsg[m].may
      BY <1>1 DEF DsTurns
    <3>. HIDE DEF turn
    <3>. QED BY <3>1, <3>2
  <2>2. ASSUME NEW v \in DsTruth(dsRow, dsMsg[m].type),
               dsMsg' = [dsMsg EXCEPT ![m] = [dsMsg[m] EXCEPT !.at = "set", !.got = v]]
        PROVE  \E turn \in DsTurns :
                  /\ dsMsg' = [dsMsg EXCEPT ![m] = turn]
                  /\ turn.type = dsMsg[m].type /\ turn.may = dsMsg[m].may
                  /\ turn.at = "set" => turn.got = DsMarker \/ DsLive(dsRow, dsMsg[m].type, turn.got)
    <3>. DEFINE turn == [dsMsg[m] EXCEPT !.at = "set", !.got = v]
    <3>1. v \in DsStamps /\ (v = DsMarker \/ DsLive(dsRow, dsMsg[m].type, v))
      BY <1>1, DsTruthIs
    <3>2. turn \in DsTurns /\ turn.got = v /\ turn.type = dsMsg[m].type /\ turn.may = dsMsg[m].may
      BY <1>1, <3>1 DEF DsTurns
    <3>3. dsMsg' = [dsMsg EXCEPT ![m] = turn]
      BY <2>2
    <3>. HIDE DEF turn
    <3>. QED BY <3>1, <3>2, <3>3
  <2>. QED BY <2>1, <2>2
<1>3. \A x \in DsStamps : DsLive(dsRow, turn.type, x) \/ DsHeld(turn.type, x) => x \in turn.may
  <2>1. \A x \in DsStamps : DsLive(dsRow, dsMsg[m].type, x) \/ DsHeld(dsMsg[m].type, x)
                               => x \in dsMsg[m].may
    BY DEF DsInv, DsMayRun
  <2>. QED BY <1>2, <2>1 DEF DsLive, DsHeld
<1>4. turn.at = "set" => turn.got = DsMarker \/ DsLive(dsRow, turn.type, turn.got)
  BY <1>2
<1>5. DsRunsCurrent'
  BY DEF DsInv, DsRunsCurrent
<1>. QED BY <1>2, <1>3, <1>4, <1>5, DsMessageGoesOn

LEMMA DsMessageInv ==
    ASSUME DsInv, DsCalm, NEW m \in DsMessages,
           \/ GetScript(m) \/ GetFails(m) \/ LoadFromDatabase(m) \/ LoadFails(m)
           \/ SetToCache(m) \/ SetFails(m)
    PROVE  DsInv'
<1>0. /\ dsMsg[m] \in DsTurns /\ dsMsg[m].type \in DsTypes /\ dsMsg[m].got \in DsStamps
      /\ dsCopy \in [DsTypes -> DsStamps]
  BY DEF DsInv, DsTyped, DsTurns
<1>1. CASE GetFails(m) \/ LoadFromDatabase(m)
  <2>1. /\ dsMsg[m].at # "idle"
        /\ \/ dsMsg' = [dsMsg EXCEPT ![m].at = "load"]
           \/ \E v \in DsTruth(dsRow, dsMsg[m].type) :
                 dsMsg' = [dsMsg EXCEPT ![m] = [dsMsg[m] EXCEPT !.at = "set", !.got = v]]
        /\ UNCHANGED <<dsRow, dsCopy, dsEdit, dsUnsure, dsWrong>>
    BY <1>1 DEF GetFails, LoadFromDatabase
  <2>. QED BY <2>1, DsReadInv
<1>2. CASE GetScript(m)
  <2>. PICK x \in DsStamps : x = dsCopy[dsMsg[m].type]
    BY <1>0
  <2>1. dsMsg[m].at = "get" /\ UNCHANGED <<dsRow, dsCopy, dsEdit, dsUnsure>>
    BY <1>2 DEF GetScript
  <2>2. CASE x = DsNothing
    <3>1. dsMsg' = [dsMsg EXCEPT ![m].at = "load"] /\ UNCHANGED dsWrong
      BY <1>2, <2>2 DEF GetScript
    <3>. QED BY <2>1, <3>1, DsReadInv
  <2>3. CASE x # DsNothing
    <3>1. RunScript(m, x)
      BY <1>2, <2>3 DEF GetScript
    <3>2. x = DsMarker \/ DsLive(dsRow, dsMsg[m].type, x) \/ DsHeld(dsMsg[m].type, x)
      <4>. PICK t \in DsTypes : t = dsMsg[m].type
        BY <1>0
      <4>1. x = DsMarker \/ DsLive(dsRow, t, x) \/ DsHeld(t, x)
        <5>1. dsCopy[t] \in {DsNothing, DsMarker} \/ DsLive(dsRow, t, dsCopy[t]) \/ DsHeld(t, dsCopy[t])
          BY DEF DsInv, DsCopiesKnown
        <5>. QED BY <2>3, <5>1
      <4>. QED BY <4>1 DEF DsLive, DsHeld
    <3>3. /\ dsMsg' = [dsMsg EXCEPT ![m] = DsIdleMsg] /\ DsRunsCurrent'
          /\ DsIdleMsg \in DsTurns /\ DsIdleMsg.at = "idle"
      BY <2>1, <3>1, <3>2, DsRuns
    <3>. QED BY <2>1, <3>3, DsMessageGoesOn
  <2>. QED BY <2>2, <2>3
<1>3. CASE LoadFails(m)
  <2>1. /\ dsMsg' = [dsMsg EXCEPT ![m] = DsIdleMsg]
        /\ UNCHANGED <<dsRow, dsCopy, dsEdit, dsUnsure, dsWrong>>
    BY <1>3 DEF LoadFails
  <2>2. DsRunsCurrent' /\ DsIdleMsg \in DsTurns /\ DsIdleMsg.at = "idle"
    BY <2>1, DsStampTypes DEF DsInv, DsRunsCurrent
  <2>. QED BY <2>1, <2>2, DsMessageGoesOn
<1>4. CASE SetToCache(m) \/ SetFails(m)
  <2>. PICK x \in DsStamps, t \in DsTypes : x = dsMsg[m].got /\ t = dsMsg[m].type
    BY <1>0
  <2>1. /\ dsMsg[m].at = "set" /\ RunScript(m, x) /\ UNCHANGED <<dsRow, dsEdit, dsUnsure>>
        /\ dsCopy' = dsCopy \/ dsCopy' = [dsCopy EXCEPT ![t] = x]
    BY <1>4 DEF SetToCache, SetFails
  <2>2. x = DsMarker \/ DsLive(dsRow, t, x)
    BY <2>1 DEF DsInv, DsLoaded
  <2>3. /\ dsMsg' = [dsMsg EXCEPT ![m] = DsIdleMsg] /\ DsRunsCurrent'
        /\ DsIdleMsg \in DsTurns /\ DsIdleMsg.at = "idle"
    BY <2>1, <2>2, DsRuns
  <2>. QED BY <2>1, <2>2, <2>3, DsMessageGoesOn
<1>. QED BY <1>1, <1>2, <1>3, <1>4

LEMMA DsInitInv == DsInit => DsInv
<1>. SUFFICES ASSUME DsInit PROVE DsInv
  OBVIOUS
<1>1. PICK t0 \in DsTypes : t0 = CHOOSE t \in DsTypes : TRUE
  BY DsAssumption
<1>2. dsRow = [s \in DsScripts |-> [state |-> "new", on |-> FALSE, type |-> t0, text |-> 0]]
  BY <1>1 DEF DsInit
<1>3. dsRow \in [DsScripts -> DsRows] /\ \A s \in DsScripts : dsRow[s].state = "new"
  BY <1>1, <1>2 DEF DsRows
<1>4. dsCopy = [t \in DsTypes |-> DsNothing] /\ dsCopy \in [DsTypes -> DsStamps]
  BY DsStampTypes DEF DsInit
<1>5. dsEdit \in [DsEdits -> DsJobs] /\ \A e \in DsEdits : DsJobFits(e) /\ dsEdit[e].old = {}
  BY DsStampTypes DEF DsInit, DsJobFits
<1>6. dsMsg \in [DsMessages -> DsTurns] /\ \A m \in DsMessages : dsMsg[m].at = "idle"
  BY DsStampTypes DEF DsInit
<1>7. dsUnsure = {} /\ dsWrong = {}
  BY DEF DsInit
<1>. QED BY <1>3, <1>4, <1>5, <1>6, <1>7
     DEF DsInv, DsTyped, DsCopiesKnown, DsMayRun, DsLoaded, DsRunsCurrent

LEMMA DsCreateInv ==
    ASSUME DsInv, DsCalm, NEW s \in DsScripts, NEW t \in DsTypes, CreateDataScript(s, t)
    PROVE  DsInv'
<1>. DEFINE new == [state |-> "there", on |-> FALSE, type |-> t, text |-> 0]
<1>1. /\ ChangeRow(s, new) /\ dsRow[s].state = "new"
      /\ UNCHANGED <<dsCopy, dsEdit, dsUnsure, dsWrong>>
  BY DEF CreateDataScript
<1>2. new \in DsRows /\ ~new.on
  BY DEF DsRows
<1>. HIDE DEF new
<1>3. /\ dsRow \in [DsScripts -> DsRows] /\ dsRow' = [dsRow EXCEPT ![s] = new]
      /\ dsEdit \in [DsEdits -> DsJobs] /\ dsCopy \in [DsTypes -> DsStamps]
  BY <1>1 DEF ChangeRow, DsInv, DsTyped
<1>4. \A z \in DsScripts : dsRow[z].state = "there" => z # s /\ dsRow'[z] = dsRow[z]
  BY <1>1, <1>3
<1>5. ASSUME NEW u \in DsTypes, NEW x \in DsStamps
      PROVE  /\ DsLive(dsRow, u, x) => DsLive(dsRow', u, x) \/ DsHeld(u, x)'
             /\ DsHeld(u, x)' => DsHeld(u, x) \/ DsLive(dsRow, u, x)
             /\ DsHeld(u, x) => DsHeld(u, x)'
  BY <1>1, <1>4 DEF DsLive, DsHeld
<1>6. /\ dsRow' \in [DsScripts -> DsRows] /\ dsMsg' \in [DsMessages -> DsTurns]
      /\ DsCopiesKnown' /\ DsMayRun' /\ DsLoaded'
  BY <1>1, <1>2, <1>5, DsRowChanges
<1>7. ASSUME NEW e \in DsEdits PROVE DsJobFits(e)'
  <2>1. DsJobFits(e) /\ dsEdit'[e] = dsEdit[e]
    BY <1>1 DEF DsInv
  <2>. QED BY <1>4, <2>1 DEF DsJobFits
<1>. QED BY <1>1, <1>3, <1>6, <1>7 DEF DsInv, DsTyped, DsRunsCurrent

LEMMA DsStopInv ==
    ASSUME DsInv, DsStop
    PROVE  DsInv'
<1>1. /\ UNCHANGED <<dsRow, dsCopy, dsWrong>>
      /\ dsUnsure' = dsUnsure \cup UNION {dsEdit[e].old : e \in DsEdits}
      /\ dsEdit' = [e \in DsEdits |-> DsIdleEdit] /\ dsMsg' = [m \in DsMessages |-> DsIdleMsg]
  BY DEF DsStop
<1>2. /\ dsEdit' \in [DsEdits -> DsJobs] /\ \A e \in DsEdits : DsJobFits(e)'
      /\ dsMsg' \in [DsMessages -> DsTurns] /\ \A m \in DsMessages : dsMsg'[m].at = "idle"
  BY <1>1, DsStampTypes DEF DsJobFits
<1>3. dsUnsure' \subseteq DsOlds
  BY <1>1 DEF DsInv, DsTyped, DsJobs
<1>4. ASSUME NEW t \in DsTypes, NEW x, DsHeld(t, x) PROVE DsHeld(t, x)'
  BY <1>1, <1>4 DEF DsHeld
<1>5. DsCopiesKnown'
  <2>. SUFFICES ASSUME NEW t \in DsTypes
       PROVE  \/ dsCopy'[t] \in {DsNothing, DsMarker}
              \/ DsLive(dsRow', t, dsCopy'[t])
              \/ \E v \in DsOlds : /\ v.type = t /\ v.is = dsCopy'[t]
                                   /\ v \in dsUnsure' \/ \E e \in DsEdits : v \in dsEdit'[e].old
    BY DEF DsCopiesKnown, DsHeld, DsLive
  <2>. PICK x : x = dsCopy[t]
    OBVIOUS
  <2>1. x \in {DsNothing, DsMarker} \/ DsLive(dsRow, t, x) \/ DsHeld(t, x)
    BY DEF DsInv, DsCopiesKnown
  <2>2. x \in {DsNothing, DsMarker} \/ DsLive(dsRow, t, x) \/ DsHeld(t, x)'
    BY <1>4, <2>1
  <2>. QED BY <1>1, <2>2 DEF DsHeld, DsLive
<1>. QED BY <1>1, <1>2, <1>3, <1>5 DEF DsInv, DsTyped, DsRunsCurrent, DsMayRun, DsLoaded

LEMMA DsNextInv ==
    ASSUME DsInv, DsCalm, [DsNext]_dsVars
    PROVE  DsInv'
<1>1. ASSUME NEW s \in DsScripts, NEW t \in DsTypes, CreateDataScript(s, t) PROVE DsInv'
  BY <1>1, DsCreateInv
<1>2. ASSUME NEW e \in DsEdits, NEW s \in DsScripts,
             (\E t \in DsTypes : UpdateDataScript(e, s, t)) \/ DisableDataScript(e, s)
      PROVE  DsInv'
  BY <1>2, DsCallBegins
<1>3. ASSUME NEW e \in DsEdits, EnableDataScript(e) \/ DeleteDataScript(e) PROVE DsInv'
  BY <1>3, DsEnableInv, DsDeleteInv
<1>4. ASSUME NEW e \in DsEdits,
             \/ \E s \in DsScripts : CheckEnable(e, s) \/ ReadForDelete(e, s)
             \/ DelDataScriptCache(e) \/ DelPanics(e) \/ DelFails(e) \/ DelOfGoneFails(e)
      PROVE  DsInv'
  BY <1>4, DsOtherCallsInv
<1>5. ASSUME NEW m \in DsMessages, NEW t \in DsTypes, TakeMessage(m, t) PROVE DsInv'
  BY <1>5, DsTakeInv
<1>6. ASSUME NEW m \in DsMessages,
             \/ GetScript(m) \/ GetFails(m) \/ LoadFromDatabase(m) \/ LoadFails(m)
             \/ SetToCache(m) \/ SetFails(m)
      PROVE  DsInv'
  BY <1>6, DsMessageInv
<1>7. CASE DsStop
  BY <1>7, DsStopInv
<1>8. CASE UNCHANGED dsVars
  BY <1>8 DEF dsVars, DsInv, DsTyped, DsCopiesKnown, DsMayRun, DsLoaded, DsLive, DsHeld, DsJobFits,
     DsRunsCurrent
<1>. QED BY <1>1, <1>2, <1>3, <1>4, <1>5, <1>6, <1>7, <1>8 DEF DsNext

(* For any number of scripts, types and messages at a time: if the calls   *)
(* that change scripts come one by one, none of them moves a script to     *)
(* another type, no load is under way while one of them works and none that*)
(* deletes a script fails to delete its copy, no message is run with a     *)
(* version that a call had replaced before the message came.               *)
THEOREM OldScriptsAreNotRun ==
    ASSUME DsCalm
    PROVE  DsSpec => []DsRunsCurrent
<1>1. DsInit => DsInv
  BY DsInitInv
<1>2. DsInv /\ [DsNext]_dsVars => DsInv'
  BY DsNextInv
<1>3. DsInv => DsRunsCurrent
  BY DEF DsInv
<1>. QED BY <1>1, <1>2, <1>3, PTL DEF DsSpec

(* Types, whichever calls overlap: a call under way has a script, and the  *)
(* text of a script has changed at most as often as calls have come.       *)
DsTypeInv ==
    /\ DsTyped
    /\ \A e \in DsEdits : dsEdit[e].at # "idle" => dsEdit[e].script \in DsScripts
    /\ \A s \in DsScripts : dsRow[s].text <= dsEdits
    /\ dsWrong \subseteq {"stale", "without"}
    /\ dsEdits \in 0..DsMaxEdits /\ dsFaults \in 0..DsMaxFaults

LEMMA DsRowType ==
    ASSUME DsTyped, NEW s \in DsScripts, NEW new \in DsRows, ChangeRow(s, new)
    PROVE  dsRow' \in [DsScripts -> DsRows] /\ dsMsg' \in [DsMessages -> DsTurns]
<1>1. dsRow' \in [DsScripts -> DsRows]
  BY DEF ChangeRow, DsTyped
<1>2. PICK row \in [DsScripts -> DsRows] : row = dsRow'
  BY <1>1
<1>3. dsMsg' = [m \in DsMessages |->
           IF dsMsg[m].at = "idle" THEN dsMsg[m]
           ELSE [dsMsg[m] EXCEPT !.may = @ \cup DsTruth(row, dsMsg[m].type)]]
  BY <1>2 DEF ChangeRow
<1>4. ASSUME NEW m \in DsMessages
      PROVE  (IF dsMsg[m].at = "idle" THEN dsMsg[m]
              ELSE [dsMsg[m] EXCEPT !.may = @ \cup DsTruth(row, dsMsg[m].type)]) \in DsTurns
  <2>1. dsMsg[m] \in DsTurns /\ dsMsg[m].type \in DsTypes
    BY DEF DsTyped, DsTurns
  <2>2. PICK t \in DsTypes : t = dsMsg[m].type
    BY <2>1
  <2>3. DsTruth(row, t) \subseteq DsStamps
    BY DsTruthIs
  <2>. QED BY <2>1, <2>2, <2>3 DEF DsTurns
<1>. QED BY <1>1, <1>3, <1>4

LEMMA DsRowIs ==
    ASSUME DsTypeInv, NEW s \in DsScripts
    PROVE  /\ dsRow[s] \in DsRows /\ dsRow[s].type \in DsTypes
           /\ dsRow[s].text \in Nat /\ dsRow[s].text <= dsEdits /\ dsEdits \in Nat
           /\ DsReplaced(s) \subseteq DsOlds
<1>1. dsRow[s] \in DsRows /\ dsRow[s].type \in DsTypes /\ dsRow[s].text \in Nat
  BY DEF DsTypeInv, DsTyped, DsRows
<1>2. DsVersion(s) \in DsOlds
  BY <1>1 DEF DsVersion, DsOlds, DsStamps
<1>. QED BY <1>1, <1>2 DEF DsTypeInv, DsReplaced

(* The fields of the call that change a row.                               *)
LEMMA DsEditType ==
    ASSUME DsTypeInv, NEW e \in DsEdits, NEW job \in DsJobs,
           job.at # "idle" => job.script \in DsScripts,
           dsEdit' = [dsEdit EXCEPT ![e] = job]
    PROVE  /\ dsEdit' \in [DsEdits -> DsJobs]
           /\ \A d \in DsEdits : dsEdit'[d].at # "idle" => dsEdit'[d].script \in DsScripts
BY DEF DsTypeInv, DsTyped

LEMMA DsCallCounts ==
    ASSUME DsTypeInv, DsCall
    PROVE  /\ dsEdits' = dsEdits + 1 /\ dsEdits' \in 0..DsMaxEdits
           /\ \A s \in DsScripts : dsRow[s].text + 1 <= dsEdits' /\ dsRow[s].text <= dsEdits'
<1>1. dsEdits \in Nat /\ dsEdits' = dsEdits + 1 /\ dsEdits' \in 0..DsMaxEdits
  BY DsAssumption DEF DsTypeInv, DsCall
<1>2. \A s \in DsScripts : dsRow[s].text \in Nat /\ dsRow[s].text <= dsEdits
  BY DsRowIs
<1>. QED BY <1>1, <1>2

(* A step that leaves the rows, or changes one to a text that is counted.  *)
LEMMA DsTypeStep ==
    ASSUME DsTypeInv,
           dsRow' \in [DsScripts -> DsRows], dsCopy' \in [DsTypes -> DsStamps],
           dsEdit' \in [DsEdits -> DsJobs], dsMsg' \in [DsMessages -> DsTurns],
           dsUnsure' \subseteq DsOlds,
           \A e \in DsEdits : dsEdit'[e].at # "idle" => dsEdit'[e].script \in DsScripts,
           dsWrong' \subseteq {"stale", "without"},
           \/ dsEdits' = dsEdits /\ \A s \in DsScripts : dsRow'[s].text <= dsEdits
           \/ DsCall /\ \A s \in DsScripts : dsRow'[s].text <= dsEdits',
           dsFaults' = dsFaults \/ DsFault
    PROVE  DsTypeInv'
<1>1. dsFaults' \in 0..DsMaxFaults
  BY DsAssumption DEF DsTypeInv, DsFault
<1>2. dsEdits' \in 0..DsMaxEdits
  BY DsCallCounts DEF DsTypeInv
<1>. QED BY <1>1, <1>2 DEF DsTypeInv, DsTyped

(* A row changes and with it perhaps a call that is counted.               *)
LEMMA DsChangeType ==
    ASSUME DsTypeInv, NEW s \in DsScripts, NEW new \in DsRows, ChangeRow(s, new),
           dsEdit' \in [DsEdits -> DsJobs],
           \A e \in DsEdits : dsEdit'[e].at # "idle" => dsEdit'[e].script \in DsScripts,
           \/ dsEdits' = dsEdits /\ new.text <= dsEdits
           \/ DsCall /\ new.text <= dsEdits + 1,
           UNCHANGED <<dsCopy, dsUnsure, dsWrong, dsFaults>>
    PROVE  DsTypeInv'
<1>1. dsRow' \in [DsScripts -> DsRows] /\ dsMsg' \in [DsMessages -> DsTurns]
  BY DsRowType DEF DsTypeInv
<1>2. \A x \in DsScripts : dsRow'[x] = IF x = s THEN new ELSE dsRow[x]
  BY DEF ChangeRow, DsTypeInv, DsTyped
<1>3. \A x \in DsScripts : dsRow[x].text <= dsEdits
  BY DEF DsTypeInv
<1>4. CASE dsEdits' = dsEdits /\ new.text <= dsEdits
  BY <1>1, <1>2, <1>3, <1>4, DsTypeStep DEF DsTypeInv, DsTyped
<1>5. CASE DsCall /\ new.text <= dsEdits + 1
  <2>1. \A x \in DsScripts : dsRow'[x].text <= dsEdits'
    BY <1>2, <1>5, DsCallCounts
  <2>. QED BY <1>1, <1>5, <2>1, DsTypeStep DEF DsTypeInv, DsTyped
<1>. QED BY <1>4, <1>5

LEMMA DsNewRows ==
    ASSUME NEW row \in DsRows, NEW t \in DsTypes
    PROVE  /\ [row EXCEPT !.type = t, !.text = @ + 1] \in DsRows
           /\ [row EXCEPT !.type = t, !.text = @ + 1].text = row.text + 1
           /\ [row EXCEPT !.on = TRUE] \in DsRows /\ [row EXCEPT !.on = TRUE].text = row.text
           /\ [row EXCEPT !.on = FALSE] \in DsRows /\ [row EXCEPT !.on = FALSE].text = row.text
           /\ [row EXCEPT !.state = "gone", !.on = FALSE] \in DsRows
           /\ [row EXCEPT !.state = "gone", !.on = FALSE].text = row.text
<1>1. row.text + 1 \in Nat /\ row.text \in Nat
  BY DEF DsRows
<1>2. /\ [row EXCEPT !.type = t, !.text = @ + 1] \in DsRows
      /\ [row EXCEPT !.type = t, !.text = @ + 1].text = row.text + 1
  BY <1>1 DEF DsRows
<1>3. [row EXCEPT !.on = TRUE] \in DsRows /\ [row EXCEPT !.on = TRUE].text = row.text
  BY DEF DsRows
<1>4. [row EXCEPT !.on = FALSE] \in DsRows /\ [row EXCEPT !.on = FALSE].text = row.text
  BY DEF DsRows
<1>5. /\ [row EXCEPT !.state = "gone", !.on = FALSE] \in DsRows
      /\ [row EXCEPT !.state = "gone", !.on = FALSE].text = row.text
  BY DEF DsRows
<1>. QED BY <1>2, <1>3, <1>4, <1>5

LEMMA DsEditsType ==
    ASSUME DsTypeInv,
           \/ \E s \in DsScripts, t \in DsTypes : CreateDataScript(s, t)
           \/ \E e \in DsEdits, s \in DsScripts :
                 \/ \E t \in DsTypes : UpdateDataScript(e, s, t)
                 \/ DisableDataScript(e, s)
           \/ \E e \in DsEdits : EnableDataScript(e) \/ DeleteDataScript(e)
    PROVE  DsTypeInv'
<1>1. ASSUME NEW s \in DsScripts, NEW t \in DsTypes, CreateDataScript(s, t) PROVE DsTypeInv'
  <2>. DEFINE new == [state |-> "there", on |-> FALSE, type |-> t, text |-> 0]
  <2>1. new \in DsRows /\ new.text = 0 /\ 0 <= dsEdits
    BY DEF DsRows, DsTypeInv
  <2>2. ChangeRow(s, new) /\ UNCHANGED <<dsCopy, dsEdit, dsUnsure, dsWrong, dsEdits, dsFaults>>
    BY <1>1 DEF CreateDataScript
  <2>. HIDE DEF new
  <2>. QED BY <2>1, <2>2, DsChangeType DEF DsTypeInv, DsTyped
<1>2. ASSUME NEW e \in DsEdits, NEW s \in DsScripts, NEW t \in DsTypes, UpdateDataScript(e, s, t)
      PROVE  DsTypeInv'
  <2>. DEFINE new == [dsRow[s] EXCEPT !.type = t, !.text = @ + 1]
              job == [at |-> "del", script |-> s, type |-> t, old |-> DsReplaced(s)]
  <2>1. new \in DsRows /\ new.text = dsRow[s].text + 1
    BY DsNewRows, DsRowIs
  <2>2. new.text <= dsEdits + 1
    BY <2>1, DsRowIs
  <2>3. job \in DsJobs /\ job.script \in DsScripts
    BY DsRowIs DEF DsJobs
  <2>4. /\ ChangeRow(s, new) /\ DsCall /\ dsEdit' = [dsEdit EXCEPT ![e] = job]
        /\ UNCHANGED <<dsCopy, dsUnsure, dsWrong, dsFaults>>
    BY <1>2 DEF UpdateDataScript
  <2>. HIDE DEF new, job
  <2>5. /\ dsEdit' \in [DsEdits -> DsJobs]
        /\ \A d \in DsEdits : dsEdit'[d].at # "idle" => dsEdit'[d].script \in DsScripts
    BY <2>3, <2>4, DsEditType
  <2>. QED BY <2>1, <2>2, <2>4, <2>5, DsChangeType
<1>3. ASSUME NEW e \in DsEdits, NEW s \in DsScripts, DisableDataScript(e, s) PROVE DsTypeInv'
  <2>. DEFINE new == [dsRow[s] EXCEPT !.on = FALSE]
              job == [at |-> "del", script |-> s, type |-> dsRow[s].type, old |-> DsReplaced(s)]
  <2>1. new \in DsRows /\ new.text = dsRow[s].text
    BY DsNewRows, DsRowIs, DsAssumption
  <2>2. new.text <= dsEdits + 1
    BY <2>1, DsRowIs
  <2>3. job \in DsJobs /\ job.script \in DsScripts
    BY DsRowIs DEF DsJobs
  <2>4. /\ ChangeRow(s, new) /\ DsCall /\ dsEdit' = [dsEdit EXCEPT ![e] = job]
        /\ UNCHANGED <<dsCopy, dsUnsure, dsWrong, dsFaults>>
    BY <1>3 DEF DisableDataScript
  <2>. HIDE DEF new, job
  <2>5. /\ dsEdit' \in [DsEdits -> DsJobs]
        /\ \A d \in DsEdits : dsEdit'[d].at # "idle" => dsEdit'[d].script \in DsScripts
    BY <2>3, <2>4, DsEditType
  <2>. QED BY <2>1, <2>2, <2>4, <2>5, DsChangeType
<1>4. ASSUME NEW e \in DsEdits, EnableDataScript(e) PROVE DsTypeInv'
  <2>1. PICK s \in DsScripts : s = dsEdit[e].script
    BY <1>4 DEF EnableDataScript, DsTypeInv
  <2>2. /\ dsEdit' = [dsEdit EXCEPT ![e] = DsIdleEdit]
        /\ UNCHANGED <<dsCopy, dsUnsure, dsWrong, dsEdits, dsFaults>>
    BY <1>4 DEF EnableDataScript
  <2>3. /\ dsEdit' \in [DsEdits -> DsJobs]
        /\ \A d \in DsEdits : dsEdit'[d].at # "idle" => dsEdit'[d].script \in DsScripts
    BY <2>2, DsStampTypes, DsEditType
  <2>4. CASE UNCHANGED <<dsRow, dsMsg>>
    BY <2>2, <2>3, <2>4, DsTypeStep DEF DsTypeInv, DsTyped
  <2>5. CASE ChangeRow(s, [dsRow[s] EXCEPT !.on = TRUE])
    <3>1. PICK new : new = [dsRow[s] EXCEPT !.on = TRUE]
      OBVIOUS
    <3>2. new \in DsRows /\ new.text = dsRow[s].text
      BY <3>1, DsNewRows, DsRowIs, DsAssumption
    <3>3. new.text <= dsEdits /\ ChangeRow(s, new)
      BY <2>5, <3>1, <3>2, DsRowIs
    <3>. QED BY <2>2, <2>3, <3>2, <3>3, DsChangeType
  <2>. QED BY <1>4, <2>1, <2>4, <2>5 DEF EnableDataScript
<1>5. ASSUME NEW e \in DsEdits, DeleteDataScript(e) PROVE DsTypeInv'
  <2>1. PICK s \in DsScripts : s = dsEdit[e].script
    BY <1>5 DEF DeleteDataScript, DsTypeInv
  <2>2. PICK new : new = [dsRow[s] EXCEPT !.state = "gone", !.on = FALSE]
    OBVIOUS
  <2>3. PICK job : job = IF dsEdit[e].at = "deleteOff" THEN DsIdleEdit
                         ELSE [dsEdit[e] EXCEPT !.at = "delGone", !.old = DsReplaced(s)]
    OBVIOUS
  <2>4. /\ ChangeRow(s, new) /\ dsEdit' = [dsEdit EXCEPT ![e] = job]
        /\ UNCHANGED <<dsCopy, dsUnsure, dsWrong, dsEdits, dsFaults>>
    <3>1. e \in DsEdits /\ dsEdit \in [DsEdits -> DsJobs]
      BY DEF DsTypeInv, DsTyped
    <3>. QED BY <1>5, <2>1, <2>2, <2>3, <3>1 DEF DeleteDataScript
  <2>5. new \in DsRows /\ new.text = dsRow[s].text
    BY <2>2, DsNewRows, DsRowIs, DsAssumption
  <2>6. new.text <= dsEdits
    BY <2>5, DsRowIs
  <2>7. job \in DsJobs /\ (job.at # "idle" => job.script \in DsScripts)
    <3>1. dsEdit[e] \in DsJobs
      BY DEF DsTypeInv, DsTyped
    <3>2. CASE dsEdit[e].at = "deleteOff"
      BY <2>3, <3>2, DsStampTypes
    <3>3. CASE dsEdit[e].at # "deleteOff"
      <4>1. job = [dsEdit[e] EXCEPT !.at = "delGone", !.old = DsReplaced(s)]
        BY <2>3, <3>3
      <4>2. job \in DsJobs /\ job.script = s
        BY <2>1, <3>1, <4>1, DsRowIs DEF DsJobs
      <4>. QED BY <4>2
    <3>. QED BY <3>2, <3>3
  <2>8. /\ dsEdit' \in [DsEdits -> DsJobs]
        /\ \A d \in DsEdits : dsEdit'[d].at # "idle" => dsEdit'[d].script \in DsScripts
    BY <2>4, <2>7, DsEditType
  <2>. QED BY <2>4, <2>5, <2>6, <2>8, DsChangeType
<1>. QED BY <1>1, <1>2, <1>3, <1>4, <1>5

(* Calls that change no row.                                               *)
LEMMA DsOtherType ==
    ASSUME DsTypeInv, NEW e \in DsEdits,
           \/ \E s \in DsScripts : CheckEnable(e, s) \/ ReadForDelete(e, s)
           \/ DelDataScriptCache(e) \/ DelPanics(e) \/ DelFails(e) \/ DelOfGoneFails(e)
    PROVE  DsTypeInv'
<1>0. /\ dsEdit[e] \in DsJobs /\ dsEdit[e].old \subseteq DsOlds /\ dsEdit[e].type \in DsTypes
      /\ dsEdit[e].at # "idle" => dsEdit[e].script \in DsScripts
  BY DEF DsTypeInv, DsTyped, DsJobs
<1>1. PICK job \in DsJobs : /\ dsEdit' = [dsEdit EXCEPT ![e] = job]
                            /\ job.at # "idle" => job.script \in DsScripts
  <2>1. ASSUME NEW s \in DsScripts, CheckEnable(e, s)
        PROVE  \E job \in DsJobs : /\ dsEdit' = [dsEdit EXCEPT ![e] = job]
                                   /\ job.at # "idle" => job.script \in DsScripts
    <3>1. PICK job : job = [DsIdleEdit EXCEPT !.at = "enable", !.script = s]
      OBVIOUS
    <3>2. job \in DsJobs /\ job.script = s
      BY <3>1, DsStampTypes DEF DsJobs
    <3>. QED BY <2>1, <3>1, <3>2 DEF CheckEnable
  <2>2. ASSUME NEW s \in DsScripts, ReadForDelete(e, s)
        PROVE  \E job \in DsJobs : /\ dsEdit' = [dsEdit EXCEPT ![e] = job]
                                   /\ job.at # "idle" => job.script \in DsScripts
    <3>1. PICK job : job = [at |-> IF dsRow[s].on THEN "delete" ELSE "deleteOff", script |-> s,
                            type |-> dsRow[s].type, old |-> {}]
      OBVIOUS
    <3>2. job \in DsJobs /\ job.script = s
      BY <3>1, DsRowIs DEF DsJobs
    <3>. QED BY <2>2, <3>1, <3>2 DEF ReadForDelete
  <2>3. CASE DelDataScriptCache(e) \/ DelPanics(e) \/ DelFails(e) \/ DelOfGoneFails(e)
    BY <2>3, DsStampTypes DEF DelDataScriptCache, DelPanics, DelFails, DelOfGoneFails, GiveUp
  <2>. QED BY <2>1, <2>2, <2>3
<1>2. /\ dsEdit' \in [DsEdits -> DsJobs]
      /\ \A d \in DsEdits : dsEdit'[d].at # "idle" => dsEdit'[d].script \in DsScripts
  BY <1>1, DsEditType
<1>3. dsCopy' \in [DsTypes -> DsStamps] /\ dsUnsure' \subseteq DsOlds
  BY <1>0, DsStampTypes DEF CheckEnable, ReadForDelete, DelDataScriptCache, DelPanics, DelFails,
     DelOfGoneFails, GiveUp, DsTypeInv, DsTyped
<1>4. /\ UNCHANGED <<dsRow, dsMsg, dsWrong>> /\ (dsEdits' = dsEdits \/ DsCall)
      /\ (dsFaults' = dsFaults \/ DsFault)
  BY DEF CheckEnable, ReadForDelete, DelDataScriptCache, DelPanics, DelFails, DelOfGoneFails, GiveUp
<1>5. \/ dsEdits' = dsEdits /\ \A s \in DsScripts : dsRow'[s].text <= dsEdits
      \/ DsCall /\ \A s \in DsScripts : dsRow'[s].text <= dsEdits'
  BY <1>4, DsCallCounts DEF DsTypeInv
<1>. QED BY <1>2, <1>3, <1>4, <1>5, DsTypeStep DEF DsTypeInv, DsTyped

LEMMA DsMessageType ==
    ASSUME DsTypeInv, NEW m \in DsMessages,
           \/ \E t \in DsTypes : TakeMessage(m, t)
           \/ GetScript(m) \/ GetFails(m) \/ LoadFromDatabase(m) \/ LoadFails(m)
           \/ SetToCache(m) \/ SetFails(m)
    PROVE  DsTypeInv'
<1>0. /\ dsMsg[m] \in DsTurns /\ dsMsg[m].type \in DsTypes /\ dsMsg[m].got \in DsStamps
      /\ dsMsg \in [DsMessages -> DsTurns] /\ dsRow \in [DsScripts -> DsRows]
  BY DEF DsTypeInv, DsTyped, DsTurns
<1>1. dsMsg' \in [DsMessages -> DsTurns]
  <2>1. ASSUME NEW t \in DsTypes, TakeMessage(m, t) PROVE dsMsg' \in [DsMessages -> DsTurns]
    <3>1. DsTruth(dsRow, t) \subseteq DsStamps /\ DsLeft(t) \subseteq DsStamps
      <4>1. PICK row \in [DsScripts -> DsRows] : row = dsRow
        BY <1>0
      <4>. QED BY <4>1, DsTruthIs, DsLeftIs DEF DsTypeInv
    <3>. QED BY <1>0, <2>1, <3>1, DsStampTypes DEF TakeMessage, DsTurns
  <2>2. CASE dsMsg' = [dsMsg EXCEPT ![m].at = "load"] \/ dsMsg' = [dsMsg EXCEPT ![m] = DsIdleMsg]
    BY <1>0, <2>2, DsStampTypes DEF DsTurns
  <2>3. ASSUME NEW v \in DsTruth(dsRow, dsMsg[m].type),
               dsMsg' = [dsMsg EXCEPT ![m] = [@ EXCEPT !.at = "set", !.got = v]]
        PROVE  dsMsg' \in [DsMessages -> DsTurns]
    <3>1. v \in DsStamps
      <4>1. PICK row \in [DsScripts -> DsRows], t \in DsTypes : row = dsRow /\ t = dsMsg[m].type
        BY <1>0
      <4>2. DsTruth(row, t) \subseteq DsStamps
        BY DsTruthIs
      <4>. QED BY <4>1, <4>2
    <3>. QED BY <1>0, <2>3, <3>1 DEF DsTurns
  <2>. QED BY <2>1, <2>2, <2>3 DEF GetScript, GetFails, LoadFromDatabase, LoadFails, SetToCache,
           SetFails, RunScript
<1>2. dsCopy' \in [DsTypes -> DsStamps]
  BY <1>0 DEF TakeMessage, GetScript, GetFails, LoadFromDatabase, LoadFails, SetToCache, SetFails,
     DsTypeInv, DsTyped
<1>3. dsWrong' \subseteq {"stale", "without"}
  BY DEF TakeMessage, GetScript, GetFails, LoadFromDatabase, LoadFails, SetToCache, SetFails,
     RunScript, DsTypeInv
<1>4. UNCHANGED <<dsRow, dsEdit, dsUnsure, dsEdits>> /\ (dsFaults' = dsFaults \/ DsFault)
  BY DEF TakeMessage, GetScript, GetFails, LoadFromDatabase, LoadFails, SetToCache, SetFails
<1>. QED BY <1>1, <1>2, <1>3, <1>4, DsTypeStep DEF DsTypeInv, DsTyped

(* The scripts, their copies, calls and messages keep their types,         *)
(* whichever calls overlap, move scripts and fail.                         *)
THEOREM DsTypeCorrect == DsSpec => []DsTypeOK
<1>1. DsInit => DsTypeInv
  <2>. SUFFICES ASSUME DsInit PROVE DsTypeInv
    OBVIOUS
  <2>1. PICK t0 \in DsTypes : t0 = CHOOSE t \in DsTypes : TRUE
    BY DsAssumption
  <2>2. dsRow = [s \in DsScripts |-> [state |-> "new", on |-> FALSE, type |-> t0, text |-> 0]]
    BY <2>1 DEF DsInit
  <2>3. dsRow \in [DsScripts -> DsRows] /\ \A s \in DsScripts : dsRow[s].text <= 0
    BY <2>1, <2>2 DEF DsRows
  <2>4. /\ dsCopy \in [DsTypes -> DsStamps] /\ dsEdit \in [DsEdits -> DsJobs]
        /\ dsMsg \in [DsMessages -> DsTurns] /\ \A e \in DsEdits : dsEdit[e].at = "idle"
    BY DsStampTypes DEF DsInit
  <2>5. dsUnsure = {} /\ dsWrong = {} /\ dsEdits = 0 /\ dsFaults = 0
    BY DEF DsInit
  <2>. QED BY <2>3, <2>4, <2>5, DsAssumption DEF DsTypeInv, DsTyped
<1>2. DsTypeInv /\ [DsNext]_dsVars => DsTypeInv'
  <2>. SUFFICES ASSUME DsTypeInv, [DsNext]_dsVars PROVE DsTypeInv'
    OBVIOUS
  <2>1. CASE DsStop
    <3>1. UNION {dsEdit[e].old : e \in DsEdits} \subseteq DsOlds
      BY DEF DsTypeInv, DsTyped, DsJobs
    <3>. QED BY <2>1, <3>1, DsStampTypes, DsTypeStep DEF DsStop, DsTypeInv, DsTyped
  <2>2. CASE UNCHANGED dsVars
    BY <2>2 DEF dsVars, DsTypeInv, DsTyped
  <2>. QED BY <2>1, <2>2, DsEditsType, DsOtherType, DsMessageType DEF DsNext
<1>3. DsTypeInv => DsTypeOK
  <2>. SUFFICES ASSUME DsTypeInv PROVE DsTypeOK
    OBVIOUS
  <2>1. ASSUME NEW s \in DsScripts
        PROVE  /\ dsRow[s].state \in {"new", "there", "gone"} /\ dsRow[s].on \in BOOLEAN
               /\ dsRow[s].type \in DsTypes /\ dsRow[s].text \in 0..DsMaxEdits
    <3>1. dsRow[s] \in DsRows /\ dsEdits \in 0..DsMaxEdits
      BY DEF DsTypeInv, DsTyped
    <3>2. dsRow[s].text \in 0..DsMaxEdits
      BY <3>1, DsRowIs, DsAssumption
    <3>. QED BY <3>1, <3>2 DEF DsRows
  <2>. QED BY <2>1 DEF DsTypeOK, DsTypeInv, DsTyped, DsStamps, DsJobs, DsTurns
<1>. QED BY <1>1, <1>2, <1>3, PTL DEF DsSpec

-----------------------------------------------------------------------------
(* Upgrades, of any number of rows and calls: types, and that nobody       *)
(* forgets a row that waits.                                               *)

USE DEF OtaGoto, OtaFault, OtaProcs, OtaPlaces, OtaRows,
        None, Waiting, Notified, Upgrading, Succeeded, Failed, Cancelled

-----------------------------------------------------------------------------
(* The creator's queue.                                                    *)

OtaOrders ==
    {q \in [1..Cardinality(OtaDetails) -> OtaDetails] :
        \A i, j \in DOMAIN q : q[i] = q[j] => i = j}

(* As many different rows as the task has are all of its rows.             *)
LEMMA OtaOrderIsComplete ==
    ASSUME NEW q \in OtaOrders
    PROVE  /\ q \in Seq(OtaDetails)
           /\ \A d \in OtaDetails : \E i \in 1..Len(q) : q[i] = d
<1>. DEFINE n == Cardinality(OtaDetails)
<1>1. IsFiniteSet(OtaDetails) /\ n \in Nat
  BY OtaDetailsAssumption, FS_CardinalityType
<1>2. q \in [1..n -> OtaDetails]
  BY DEF OtaOrders
<1>3. q \in Seq(OtaDetails) /\ Len(q) = n
  BY <1>1, <1>2
<1>4. q \in Injection(1..n, OtaDetails)
  BY <1>2, Fun_IsInj DEF OtaOrders
<1>5. Cardinality(1..n) = n
  BY <1>1, FS_Interval
<1>6. q \in Surjection(1..n, OtaDetails)
  BY <1>1, <1>4, <1>5, FS_Injection
<1>7. \A d \in OtaDetails : \E i \in 1..n : q[i] = d
  BY <1>6 DEF Surjection
<1>. QED BY <1>3, <1>7

-----------------------------------------------------------------------------
(* Types.                                                                  *)

LEMMA OtaInitTypes == OtaInit => OtaTypeOK
<1>. SUFFICES ASSUME OtaInit PROVE OtaTypeOK
  OBVIOUS
<1>1. (CHOOSE d \in OtaDetails : TRUE) \in OtaDetails
  BY OtaDetailsAssumption
<1>2. 0 \in 0..6 /\ 0 \in 0..OtaMaxCalls /\ 0 \in 0..OtaMaxFaults /\ <<>> \in Seq(OtaDetails)
  BY OtaAssumption
<1>. QED BY <1>1, <1>2 DEF OtaInit, OtaTypeOK

(* Saving a row changes the table and the copy in memory, or fails.        *)
LEMMA OtaSaveType ==
    ASSUME OtaTypeOK, NEW p \in OtaProcs, NEW status \in 0..6, NEW place \in OtaPlaces,
           OtaSave(p, status, place)
    PROVE  OtaTypeOK'
<1>0. /\ otaFaults \in 0..OtaMaxFaults /\ OtaMaxFaults \in Nat
      /\ otaRow[p] \in OtaRows /\ OtaDone(p) \in OtaPlaces
  BY OtaAssumption DEF OtaTypeOK, OtaDone
<1>1. [otaRow[p] EXCEPT !.status = status] \in OtaRows /\ otaRow[p].id \in OtaDetails
  BY <1>0
<1>2. /\ otaStatus' = otaStatus \/ otaStatus' = [otaStatus EXCEPT ![otaRow[p].id] = status]
      /\ otaRow' = otaRow \/ otaRow' = [otaRow EXCEPT ![p] = [otaRow[p] EXCEPT !.status = status]]
      /\ otaPc' = [otaPc EXCEPT ![p] = place] \/ otaPc' = [otaPc EXCEPT ![p] = OtaDone(p)]
      /\ otaFaults' = otaFaults \/ (otaFaults < OtaMaxFaults /\ otaFaults' = otaFaults + 1)
      /\ UNCHANGED <<otaOnline, otaQueue, otaCalls, otaUp>>
  BY DEF OtaSave, OtaTypeOK
<1>3. /\ otaStatus' \in [OtaDetails -> 0..6] /\ otaRow' \in [OtaProcs -> OtaRows]
      /\ otaPc' \in [OtaProcs -> OtaPlaces]
  BY <1>0, <1>1, <1>2 DEF OtaTypeOK
<1>4. otaFaults' \in 0..OtaMaxFaults
  BY <1>0, <1>2
<1>. QED BY <1>2, <1>3, <1>4 DEF OtaTypeOK

(* Every variable has its kind.                                            *)
THEOREM OtaTypeCorrect == OtaSpec => []OtaTypeOK
<1>1. OtaTypeOK /\ [OtaNext]_otaVars => OtaTypeOK'
  <2>. SUFFICES ASSUME OtaTypeOK, [OtaNext]_otaVars PROVE OtaTypeOK'
    OBVIOUS
  <2>0. /\ otaFaults \in 0..OtaMaxFaults /\ OtaMaxFaults \in Nat
        /\ otaCalls \in 0..OtaMaxCalls /\ OtaMaxCalls \in Nat
        /\ otaQueue \in Seq(OtaDetails)
        /\ \A p \in OtaProcs : OtaDone(p) \in OtaPlaces
    BY OtaAssumption DEF OtaTypeOK, OtaDone
  <2>a. /\ otaFaults < OtaMaxFaults => otaFaults + 1 \in 0..OtaMaxFaults
        /\ otaCalls < OtaMaxCalls => otaCalls + 1 \in 0..OtaMaxCalls
    BY <2>0
  <2>1. CASE CreateTask
    <3>1. otaQueue' \in Seq(OtaDetails)
      BY <2>1, OtaOrderIsComplete DEF CreateTask, OtaOrders
    <3>2. otaStatus' \in [OtaDetails -> 0..6] /\ otaPc' \in [OtaProcs -> OtaPlaces]
      BY <2>1 DEF CreateTask, OtaTypeOK
    <3>. QED BY <2>1, <3>1, <3>2 DEF CreateTask, OtaTypeOK
  <2>2. CASE NextDetail
    <3>1. /\ otaQueue' \in Seq(OtaDetails) /\ otaRow' \in [OtaProcs -> OtaRows]
      <4>1. CASE otaQueue = <<>>
        BY <2>2, <4>1 DEF NextDetail, OtaTypeOK
      <4>2. CASE otaQueue # <<>>
        <5>1. Head(otaQueue) \in OtaDetails /\ Tail(otaQueue) \in Seq(OtaDetails)
          BY <2>0, <4>2
        <5>2. [id |-> Head(otaQueue), status |-> 1] \in OtaRows
          BY <5>1
        <5>. QED BY <2>2, <4>2, <5>1, <5>2 DEF NextDetail, OtaTypeOK
      <4>. QED BY <4>1, <4>2
    <3>2. otaPc' \in [OtaProcs -> OtaPlaces]
      BY <2>2 DEF NextDetail, OtaTypeOK
    <3>. QED BY <2>2, <3>1, <3>2 DEF NextDetail, OtaTypeOK
  <2>3. ASSUME NEW p \in OtaCalls, NEW d \in OtaDetails, ReadDetail(p, d)
        PROVE  OtaTypeOK'
    <3>1. [id |-> d, status |-> otaStatus[d]] \in OtaRows
      BY DEF OtaTypeOK
    <3>2. otaRow' \in [OtaProcs -> OtaRows] /\ otaPc' \in [OtaProcs -> OtaPlaces]
      BY <2>3, <3>1 DEF ReadDetail, OtaTypeOK
    <3>3. otaCalls' \in 0..OtaMaxCalls
      BY <2>3, <2>0, <2>a DEF ReadDetail
    <3>. QED BY <2>3, <3>2, <3>3 DEF ReadDetail, OtaTypeOK
  <2>4. ASSUME NEW p \in OtaProcs, SaveCancel(p) \/ SaveRepeat(p) \/ SaveFailed(p)
        PROVE  OtaTypeOK'
    <3>1. 6 \in 0..6 /\ 1 \in 0..6 /\ 5 \in 0..6 /\ OtaDone(p) \in OtaPlaces
      BY <2>0
    <3>. QED BY <2>4, <3>1, OtaSaveType DEF SaveCancel, SaveRepeat, SaveFailed
  <2>5. ASSUME NEW p \in OtaProcs, CheckOnline(p) \/ CountOpen(p) \/ FindPackage(p)
        PROVE  OtaTypeOK'
    <3>1. otaPc' \in [OtaProcs -> OtaPlaces]
      BY <2>0, <2>5 DEF CheckOnline, CountOpen, FindPackage, OtaTypeOK
    <3>2. otaFaults' \in 0..OtaMaxFaults
      BY <2>0, <2>a, <2>5 DEF CheckOnline, CountOpen, FindPackage
    <3>. QED BY <2>5, <3>1, <3>2 DEF CheckOnline, CountOpen, FindPackage, OtaTypeOK
  <2>6. ASSUME NEW v \in OtaDevices, ReportProgress(v) \/ ToggleOnline(v)
        PROVE  OtaTypeOK'
    BY <2>6 DEF ReportProgress, ToggleOnline, otaWork, OtaTypeOK
  <2>7. CASE UNCHANGED otaVars
    BY <2>7 DEF otaVars, otaWork, OtaTypeOK
  <2>. QED BY <2>1, <2>2, <2>3, <2>4, <2>5, <2>6, <2>7 DEF OtaNext, OtaStep
<1>. QED BY <1>1, OtaInitTypes, PTL DEF OtaSpec

-----------------------------------------------------------------------------
(* Nobody forgets a row that waits.                                        *)

LEMMA OtaWaitingNext ==
    ASSUME OtaTypeOK, OtaWaitingIsPushed, [OtaNext]_otaVars
    PROVE  OtaWaitingIsPushed'
<1>0. /\ otaStatus \in [OtaDetails -> 0..6] /\ otaPc \in [OtaProcs -> OtaPlaces]
      /\ otaRow \in [OtaProcs -> OtaRows] /\ otaQueue \in Seq(OtaDetails) /\ otaFaults \in Nat
      /\ "creator" \in OtaProcs /\ OtaCalls \subseteq OtaProcs
  BY DEF OtaTypeOK
<1>1. SUFFICES ASSUME otaFaults' = 0, NEW d \in OtaDetails, otaStatus'[d] = 1
               PROVE  \/ \E i \in 1..Len(otaQueue') : otaQueue'[i] = d
                      \/ \E p \in OtaProcs : Pushing(p, d)'
  BY DEF OtaWaitingIsPushed
<1>2. otaFaults = 0 /\ otaFaults' = otaFaults
  <2>1. otaFaults' = otaFaults \/ otaFaults' = otaFaults + 1
    BY DEF OtaNext, CreateTask, NextDetail, ReadDetail, OtaStep, OtaSave, SaveCancel, SaveRepeat,
           SaveFailed, CheckOnline, CountOpen, FindPackage, ReportProgress, ToggleOnline, otaVars,
           otaWork
  <2>. QED BY <1>0, <1>1, <2>1
<1>3. otaStatus[d] = 1 =>
        \/ \E i \in 1..Len(otaQueue) : otaQueue[i] = d
        \/ \E p \in OtaProcs : Pushing(p, d)
  BY <1>2 DEF OtaWaitingIsPushed
<1>4. CASE CreateTask
  <2>1. otaQueue' \in OtaOrders
    BY <1>4 DEF CreateTask, OtaOrders
  <2>. QED BY <2>1, OtaOrderIsComplete
<1>5. CASE NextDetail
  <2>0. otaStatus[d] = 1 /\ otaPc["creator"] = "next"
    BY <1>1, <1>5 DEF NextDetail
  <2>1. CASE otaQueue = <<>>
    BY <1>0, <1>3, <1>5, <2>0, <2>1 DEF NextDetail, Pushing
  <2>2. CASE otaQueue # <<>>
    <3>1. /\ otaQueue' = Tail(otaQueue) /\ otaPc' = [otaPc EXCEPT !["creator"] = "online"]
          /\ otaRow' = [otaRow EXCEPT !["creator"] = [id |-> Head(otaQueue), status |-> 1]]
      BY <1>5, <2>2 DEF NextDetail
    <3>2. \A i \in 1..Len(otaQueue) :
             otaQueue[i] = Head(otaQueue)
               \/ (i - 1 \in 1..Len(otaQueue') /\ otaQueue'[i - 1] = otaQueue[i])
      BY <1>0, <2>2, <3>1
    <3>3. d = Head(otaQueue) => Pushing("creator", d)'
      BY <1>0, <3>1 DEF Pushing
    <3>4. \A p \in OtaProcs : Pushing(p, d) => Pushing(p, d)'
      BY <1>0, <2>0, <3>1 DEF Pushing
    <3>. QED BY <1>0, <1>3, <2>0, <3>2, <3>3, <3>4
  <2>. QED BY <2>1, <2>2
<1>6. ASSUME otaQueue' = otaQueue, otaStatus'[d] = otaStatus[d],
             \A p \in OtaProcs : Pushing(p, d) => Pushing(p, d)'
      PROVE  \/ \E i \in 1..Len(otaQueue') : otaQueue'[i] = d
             \/ \E p \in OtaProcs : Pushing(p, d)'
  BY <1>1, <1>3, <1>6
<1>7. ASSUME NEW p \in OtaCalls, NEW e \in OtaDetails, ReadDetail(p, e)
      PROVE  /\ otaQueue' = otaQueue /\ otaStatus'[d] = otaStatus[d]
             /\ \A q \in OtaProcs : Pushing(q, d) => Pushing(q, d)'
  BY <1>0, <1>7 DEF ReadDetail, Pushing
<1>8. ASSUME NEW p \in OtaProcs, SaveRepeat(p) \/ SaveCancel(p) \/ SaveFailed(p)
      PROVE  \/ \E i \in 1..Len(otaQueue') : otaQueue'[i] = d
             \/ \E q \in OtaProcs : Pushing(q, d)'
  <2>. DEFINE status == IF otaPc[p] = "repeat" THEN 1 ELSE IF otaPc[p] = "cancel" THEN 6 ELSE 5
  <2>1. /\ otaPc[p] \in {"repeat", "cancel", "fail"} /\ otaQueue' = otaQueue
        /\ otaStatus' = [otaStatus EXCEPT ![otaRow[p].id] = status]
        /\ otaRow' = [otaRow EXCEPT ![p] = [otaRow[p] EXCEPT !.status = status]]
        /\ \A q \in OtaProcs : q # p => otaPc'[q] = otaPc[q]
        /\ otaPc[p] = "repeat" => otaPc'[p] = "online"
    BY <1>0, <1>2, <1>8 DEF SaveRepeat, SaveCancel, SaveFailed, OtaSave
  <2>2. otaRow[p] \in OtaRows /\ status \in {1, 5, 6}
    BY <1>0
  <2>3. \A q \in OtaProcs : otaRow'[q].id = otaRow[q].id
    BY <1>0, <2>1, <2>2
  <2>4. CASE d # otaRow[p].id
    <3>1. otaStatus'[d] = otaStatus[d]
      BY <1>0, <2>1, <2>4
    <3>2. \A q \in OtaProcs : Pushing(q, d) => Pushing(q, d)'
      BY <2>1, <2>3, <2>4 DEF Pushing
    <3>. QED BY <1>6, <2>1, <3>1, <3>2
  <2>5. CASE d = otaRow[p].id
    <3>1. status = 1
      BY <1>0, <1>1, <2>1, <2>5
    <3>2. otaPc'[p] = "online"
      BY <2>1, <3>1
    <3>. QED BY <2>3, <2>5, <3>2 DEF Pushing
  <2>. QED BY <2>4, <2>5
<1>9. ASSUME NEW p \in OtaProcs, CheckOnline(p) \/ CountOpen(p) \/ FindPackage(p)
      PROVE  /\ otaQueue' = otaQueue /\ otaStatus'[d] = otaStatus[d]
             /\ \A q \in OtaProcs : Pushing(q, d) => Pushing(q, d)'
  <2>1. /\ UNCHANGED <<otaQueue, otaStatus, otaRow>>
        /\ \A q \in OtaProcs : q # p => otaPc'[q] = otaPc[q]
    BY <1>0, <1>9 DEF CheckOnline, CountOpen, FindPackage
  <2>2. Pushing(p, d) => Pushing(p, d)'
    <3>1. CASE CheckOnline(p)
      BY <1>0, <1>2, <3>1 DEF CheckOnline, Pushing
    <3>2. CASE CountOpen(p)
      <4>1. otaRow[p].id = d => d \in OtaOpen(OtaDevice[otaRow[p].id])
        BY <1>0, <1>1, <2>1 DEF OtaOpen
      <4>2. otaRow[p].id = d => otaPc'[p] = "fail"
        BY <1>0, <1>2, <3>2, <4>1 DEF CountOpen
      <4>. QED BY <2>1, <4>2 DEF Pushing
    <3>3. CASE FindPackage(p)
      BY <3>3 DEF FindPackage, Pushing
    <3>. QED BY <1>9, <3>1, <3>2, <3>3
  <2>. QED BY <2>1, <2>2 DEF Pushing
<1>10. CASE UNCHANGED <<otaStatus, otaWork>>
  BY <1>1, <1>3, <1>10 DEF otaWork, Pushing
<1>11. (\E v \in OtaDevices : ReportProgress(v) \/ ToggleOnline(v)) \/ UNCHANGED otaVars
         => UNCHANGED <<otaStatus, otaWork>>
  BY DEF ReportProgress, ToggleOnline, otaVars
<1>. QED BY <1>4, <1>5, <1>6, <1>7, <1>8, <1>9, <1>10, <1>11 DEF OtaNext, OtaStep

(* Cancellations, repetitions and the creator save over each other, but    *)
(* until a statement fails a row that waits is still in the creator's      *)
(* queue or in the hands of somebody who pushes it.                        *)
THEOREM WaitingIsPushed == OtaSpec => []OtaWaitingIsPushed
<1>1. OtaInit => OtaWaitingIsPushed
  BY DEF OtaInit, OtaWaitingIsPushed
<1>2. OtaTypeOK /\ OtaWaitingIsPushed /\ [OtaNext]_otaVars => OtaWaitingIsPushed'
  BY OtaWaitingNext
<1>. QED BY <1>1, <1>2, OtaTypeCorrect, PTL DEF OtaSpec

-----------------------------------------------------------------------------
(* Expected data: pending values are not forgotten, and the rows tell what *)
(* was delivered.                                                          *)

USE DEF EdGoto, EdFault, EdSending

EdRowKinds == {"none", "pending", "sent", "expired", "deleted"}
EdPlaces   == {"idle", "status", "read", "row", "mark"}

-----------------------------------------------------------------------------
(* Every variable has its kind.                                            *)
THEOREM EdTypeCorrect == EdSpec => []EdTypeOK
<1>1. EdInit => EdTypeOK
  <2>. SUFFICES ASSUME EdInit PROVE EdTypeOK
    OBVIOUS
  <2>1. (CHOOSE v \in EdValues : TRUE) \in EdValues
    BY EdValuesAssumption
  <2>2. 0 \in 0..EdMaxOnline /\ 0 \in 0..EdMaxFaults /\ 0 \in 0..EdMaxCrashes
    BY EdAssumption
  <2>. QED BY <2>1, <2>2 DEF EdInit, EdTypeOK
<1>2. EdTypeOK /\ [EdNext]_edVars => EdTypeOK'
  <2>. SUFFICES ASSUME EdTypeOK, [EdNext]_edVars PROVE EdTypeOK'
    OBVIOUS
  <2>0. /\ edOnlines \in 0..EdMaxOnline /\ edFaults \in 0..EdMaxFaults /\ edCrashes \in 0..EdMaxCrashes
        /\ EdMaxOnline \in Nat /\ EdMaxFaults \in Nat /\ EdMaxCrashes \in Nat
        /\ EdCalls \subseteq EdSenders /\ EdNotices \subseteq EdSenders
    BY EdAssumption DEF EdTypeOK, EdSenders
  <2>a. /\ edFaults < EdMaxFaults => edFaults + 1 \in 0..EdMaxFaults
        /\ edOnlines < EdMaxOnline => edOnlines + 1 \in 0..EdMaxOnline
        /\ edCrashes < EdMaxCrashes => edCrashes + 1 \in 0..EdMaxCrashes
    BY <2>0
  <2>1. ASSUME NEW p \in EdSenders, AskOnline(p) \/ ComeOnline(p)
        PROVE  EdTypeOK'
    BY <2>0, <2>a, <2>1 DEF AskOnline, ComeOnline, EdTypeOK, edBounds
  <2>2. ASSUME NEW p \in EdSenders, ReadPending(p)
        PROVE  EdTypeOK'
    BY <2>0, <2>a, <2>2 DEF ReadPending, EdPending, EdTypeOK
  <2>3. ASSUME NEW p \in EdSenders, Deliver(p)
        PROVE  EdTypeOK'
    <3>1. PICK v \in edTodo[p] :
            /\ edTodo' = [edTodo EXCEPT ![p] = @ \ {v}]
            /\ edValue' = [edValue EXCEPT ![p] = v]
            /\ \/ /\ edVerdict' = [edVerdict EXCEPT ![p] = "sent"]
                  /\ edSends' = [edSends EXCEPT ![v] = @ + 1]
                  /\ edFaults' = edFaults
               \/ /\ edFaults' = edFaults \/ EdFault
                  /\ edVerdict' = [edVerdict EXCEPT ![p] = "expired"]
                  /\ edSends' = edSends
      BY <2>3 DEF Deliver
    <3>2. v \in EdValues /\ edSends[v] + 1 \in Nat
      BY DEF EdTypeOK
    <3>3. /\ edTodo' \in [EdSenders -> SUBSET EdValues] /\ edValue' \in [EdSenders -> EdValues]
          /\ edVerdict' \in [EdSenders -> {"sent", "expired"}] /\ edSends' \in [EdValues -> Nat]
      BY <3>1, <3>2 DEF EdTypeOK
    <3>4. edFaults' \in 0..EdMaxFaults
      BY <2>0, <2>a, <3>1
    <3>. QED BY <2>3, <3>3, <3>4 DEF Deliver, EdTypeOK
  <2>4. ASSUME NEW p \in EdSenders, AllDelivered(p)
        PROVE  EdTypeOK'
    BY <2>4 DEF AllDelivered, EdTypeOK, edBounds
  <2>5. ASSUME NEW p \in EdSenders, Mark(p)
        PROVE  EdTypeOK'
    <3>1. edValue[p] \in EdValues /\ edVerdict[p] \in {"sent", "expired"}
      BY DEF EdTypeOK
    <3>2. edRow' \in [EdValues -> {"none", "pending", "sent", "expired", "deleted"}]
      BY <2>5, <3>1 DEF Mark, EdTypeOK
    <3>4. /\ edTodo' \in [EdSenders -> SUBSET EdValues]
          /\ edPc' \in [EdSenders -> {"idle", "status", "read", "row", "mark"}]
      BY <2>5 DEF Mark, EdTypeOK
    <3>5. edUnclear' \in BOOLEAN
      BY <2>5 DEF Mark, EdTypeOK
    <3>3. edFaults' \in 0..EdMaxFaults
      BY <2>0, <2>a, <2>5 DEF Mark
    <3>. QED BY <2>5, <3>2, <3>3, <3>4, <3>5 DEF Mark, EdTypeOK
  <2>6. ASSUME NEW p \in EdCalls, NEW v \in EdValues, CreateValue(p, v)
        PROVE  EdTypeOK'
    BY <2>0, <2>a, <2>6 DEF CreateValue, EdTypeOK
  <2>7. ASSUME NEW v \in EdValues, DeleteValue(v) \/ PassExpiry(v)
        PROVE  EdTypeOK'
    BY <2>7 DEF DeleteValue, PassExpiry, EdTypeOK, edLocals, edBounds
  <2>8. CASE GoOffline \/ EdCrash \/ UNCHANGED edVars
    BY <2>0, <2>a, <2>8 DEF GoOffline, EdCrash, edVars, EdTypeOK, edLocals, edBounds
  <2>. QED BY <2>1, <2>2, <2>3, <2>4, <2>5, <2>6, <2>7, <2>8 DEF EdNext, EdSend
<1>. QED BY <1>1, <1>2, PTL DEF EdSpec

-----------------------------------------------------------------------------
(* What a sender knows of the values in its hands.                         *)

(* Whatever overlaps, fails or crashes: a value in somebody's hands has a  *)
(* row, and only what was delivered is going to be marked as sent.         *)
EdHandsInv ==
    /\ \A v \in EdValues : edRow[v] = "none" => edSends[v] = 0
    /\ \A v \in EdValues : edRow[v] = "sent" => edSends[v] > 0
    /\ \A p \in EdSenders : \A v \in edTodo[p] : edRow[v] # "none"
    /\ \A p \in EdSenders : edTodo[p] # {} => EdSending(p)
    /\ \A p \in EdSenders : edPc[p] = "mark" =>
          /\ edRow[edValue[p]] # "none"
          /\ edVerdict[p] = "sent" => edSends[edValue[p]] > 0

(* One Send at a time: what it has still to deliver was never delivered,   *)
(* and what it has given up was not either.                                *)
EdOneSendInv ==
    EdSmooth =>
        /\ \A p, q \in EdSenders : EdSending(p) /\ EdSending(q) => p = q
        /\ \A p \in EdSenders : \A v \in edTodo[p] : edSends[v] = 0
        /\ \A p \in EdSenders : edPc[p] = "mark" =>
              /\ edValue[p] \notin edTodo[p]
              /\ edVerdict[p] = "expired" => edSends[edValue[p]] = 0

LEMMA EdHandsNext ==
    ASSUME EdTypeOK, EdHandsInv, [EdNext]_edVars
    PROVE  EdHandsInv'
<1>0. /\ edRow \in [EdValues -> EdRowKinds] /\ edPc \in [EdSenders -> EdPlaces]
      /\ edValue \in [EdSenders -> EdValues] /\ edTodo \in [EdSenders -> SUBSET EdValues]
      /\ edVerdict \in [EdSenders -> {"sent", "expired"}] /\ edSends \in [EdValues -> Nat]
      /\ EdCalls \subseteq EdSenders
  BY DEF EdTypeOK, EdRowKinds, EdPlaces, EdSenders
<1>. USE DEF EdHandsInv
<1>1. ASSUME NEW p \in EdSenders, AskOnline(p) \/ ComeOnline(p) \/ AllDelivered(p)
      PROVE  EdHandsInv'
  BY <1>0, <1>1 DEF AskOnline, ComeOnline, AllDelivered
<1>2. ASSUME NEW p \in EdSenders, ReadPending(p)
      PROVE  EdHandsInv'
  BY <1>0, <1>2 DEF ReadPending, EdPending
<1>3. ASSUME NEW p \in EdSenders, Deliver(p)
      PROVE  EdHandsInv'
  <2>1. PICK v \in edTodo[p] :
          /\ edTodo' = [edTodo EXCEPT ![p] = @ \ {v}]
          /\ edValue' = [edValue EXCEPT ![p] = v]
          /\ \/ /\ edVerdict' = [edVerdict EXCEPT ![p] = "sent"]
                /\ edSends' = [edSends EXCEPT ![v] = @ + 1]
             \/ /\ edVerdict' = [edVerdict EXCEPT ![p] = "expired"]
                /\ edSends' = edSends
    BY <1>3 DEF Deliver
  <2>2. v \in EdValues /\ edRow[v] # "none" /\ edRow' = edRow
        /\ edPc' = [edPc EXCEPT ![p] = "mark"]
    BY <1>0, <1>3 DEF Deliver
  <2>3. \A w \in EdValues : edSends'[w] = edSends[w] \/ (w = v /\ edSends'[w] > 0)
    BY <1>0, <2>1, <2>2
  <2>4. \A w \in EdValues : edSends[w] > 0 => edSends'[w] > 0
    BY <2>3
  <2>5. edVerdict'[p] = "sent" => edSends'[v] > 0
    BY <1>0, <2>1, <2>2
  <2>6. \A w \in EdValues : edRow'[w] = "none" => edSends'[w] = 0
    BY <2>2, <2>3
  <2>7. \A q \in EdSenders : edPc'[q] = "mark" =>
          /\ edRow'[edValue'[q]] # "none"
          /\ edVerdict'[q] = "sent" => edSends'[edValue'[q]] > 0
    <3>1. ASSUME NEW q \in EdSenders, q # p, edPc'[q] = "mark"
          PROVE  /\ edRow'[edValue'[q]] # "none"
                 /\ edVerdict'[q] = "sent" => edSends'[edValue'[q]] > 0
      <4>1. edPc[q] = "mark" /\ edValue'[q] = edValue[q] /\ edVerdict'[q] = edVerdict[q]
            /\ edValue[q] \in EdValues
        BY <1>0, <2>1, <2>2, <3>1
      <4>. QED BY <2>2, <2>4, <4>1
    <3>2. edValue'[p] = v
      BY <1>0, <2>1
    <3>. QED BY <2>2, <2>5, <3>1, <3>2
  <2>8. \A q \in EdSenders : edTodo'[q] \subseteq edTodo[q] /\ (edTodo'[q] # {} => EdSending(q)')
    BY <1>0, <2>1, <2>2
  <2>. QED BY <2>2, <2>4, <2>6, <2>7, <2>8
<1>4. ASSUME NEW p \in EdSenders, Mark(p)
      PROVE  EdHandsInv'
  BY <1>0, <1>4 DEF Mark, EdRowKinds
<1>5. ASSUME NEW p \in EdCalls, NEW v \in EdValues, CreateValue(p, v)
      PROVE  EdHandsInv'
  BY <1>0, <1>5 DEF CreateValue
<1>6. ASSUME NEW v \in EdValues, DeleteValue(v)
      PROVE  EdHandsInv'
  BY <1>0, <1>6 DEF DeleteValue, edLocals
<1>7. CASE EdCrash
  BY <1>0, <1>7 DEF EdCrash
<1>8. CASE UNCHANGED <<edRow, edPc, edValue, edTodo, edVerdict, edSends>>
  BY <1>8
<1>9. \/ \E p \in EdSenders : AskOnline(p) \/ ComeOnline(p) \/ AllDelivered(p)
                              \/ ReadPending(p) \/ Deliver(p) \/ Mark(p)
      \/ \E p \in EdCalls, v \in EdValues : CreateValue(p, v)
      \/ \E v \in EdValues : DeleteValue(v)
      \/ EdCrash \/ UNCHANGED <<edRow, edPc, edValue, edTodo, edVerdict, edSends>>
  BY DEF EdNext, EdSend, PassExpiry, GoOffline, edVars, edLocals
<1>. QED BY <1>1, <1>2, <1>3, <1>4, <1>5, <1>6, <1>7, <1>8, <1>9

(* A step of a smooth history has a smooth history behind it.              *)
LEMMA EdSmoothBefore ==
    ASSUME EdTypeOK, [EdNext]_edVars, EdSmooth'
    PROVE  EdSmooth
<1>0. edUnclear \in BOOLEAN /\ edFaults \in Nat /\ edCrashes \in Nat
  BY DEF EdTypeOK
<1>1. edFaults' = edFaults \/ edFaults' = edFaults + 1
  BY DEF EdNext, EdSend, AskOnline, ComeOnline, ReadPending, Deliver, AllDelivered, Mark,
         CreateValue, DeleteValue, PassExpiry, GoOffline, EdCrash, edVars, edBounds
<1>2. edCrashes' = edCrashes \/ edCrashes' = edCrashes + 1
  BY DEF EdNext, EdSend, AskOnline, ComeOnline, ReadPending, Deliver, AllDelivered, Mark,
         CreateValue, DeleteValue, PassExpiry, GoOffline, EdCrash, edVars, edBounds
<1>3. edUnclear => edUnclear'
  BY DEF EdNext, EdSend, AskOnline, ComeOnline, ReadPending, Deliver, AllDelivered, Mark,
         CreateValue, DeleteValue, PassExpiry, GoOffline, EdCrash, edVars, edBounds
<1>. QED BY <1>0, <1>1, <1>2, <1>3 DEF EdSmooth

(* While everything goes smoothly these are the steps.                     *)
LEMMA EdSmoothCases ==
    ASSUME EdTypeOK, [EdNext]_edVars, EdSmooth'
    PROVE  \/ \E p \in EdSenders : AskOnline(p) \/ ComeOnline(p) \/ AllDelivered(p)
                                   \/ ReadPending(p) \/ Deliver(p) \/ Mark(p)
           \/ \E p \in EdCalls, v \in EdValues : CreateValue(p, v)
           \/ \E v \in EdValues : DeleteValue(v)
           \/ GoOffline
           \/ UNCHANGED <<edRow, edOnline, edPc, edValue, edTodo, edVerdict, edSends>>
<1>1. ~EdCrash
  <2>1. edCrashes \in Nat
    BY DEF EdTypeOK
  <2>2. EdCrash => edCrashes' # 0
    BY <2>1 DEF EdCrash
  <2>. QED BY <2>2 DEF EdSmooth
<1>. QED BY <1>1 DEF EdNext, EdSend, PassExpiry, edVars, edLocals

LEMMA EdOneSendNext ==
    ASSUME EdTypeOK, EdHandsInv, EdOneSendInv, EdRowsTellTheTruth, [EdNext]_edVars
    PROVE  EdOneSendInv' /\ EdRowsTellTheTruth'
<1>0. /\ edRow \in [EdValues -> EdRowKinds] /\ edPc \in [EdSenders -> EdPlaces]
      /\ edValue \in [EdSenders -> EdValues] /\ edTodo \in [EdSenders -> SUBSET EdValues]
      /\ edVerdict \in [EdSenders -> {"sent", "expired"}] /\ edSends \in [EdValues -> Nat]
      /\ EdCalls \subseteq EdSenders
  BY DEF EdTypeOK, EdRowKinds, EdPlaces, EdSenders
<1>h. EdHandsInv'
  BY EdHandsNext
<1>s. SUFFICES ASSUME EdSmooth'
               PROVE  /\ EdOneSendInv'
                      /\ \A v \in EdValues :
                            /\ edSends'[v] <= 1
                            /\ edRow'[v] \in {"pending", "expired"} /\ edSends'[v] > 0
                                 => \E p \in EdSenders : edPc'[p] = "mark" /\ edValue'[p] = v
  BY <1>h DEF EdOneSendInv, EdRowsTellTheTruth, EdHandsInv
<1>t. /\ EdSmooth
      /\ \A p, q \in EdSenders : EdSending(p) /\ EdSending(q) => p = q
      /\ \A p \in EdSenders : \A v \in edTodo[p] : edSends[v] = 0
      /\ \A p \in EdSenders : edPc[p] = "mark" =>
            /\ edValue[p] \notin edTodo[p]
            /\ edVerdict[p] = "expired" => edSends[edValue[p]] = 0
      /\ \A v \in EdValues : edSends[v] <= 1
      /\ \A v \in EdValues : edRow[v] \in {"pending", "expired"} /\ edSends[v] > 0
            => \E p \in EdSenders : edPc[p] = "mark" /\ edValue[p] = v
  BY <1>s, EdSmoothBefore DEF EdOneSendInv, EdRowsTellTheTruth
<1>. DEFINE Goal ==
       /\ \A p, q \in EdSenders : EdSending(p)' /\ EdSending(q)' => p = q
       /\ \A p \in EdSenders : \A v \in edTodo'[p] : edSends'[v] = 0
       /\ \A p \in EdSenders : edPc'[p] = "mark" =>
             /\ edValue'[p] \notin edTodo'[p]
             /\ edVerdict'[p] = "expired" => edSends'[edValue'[p]] = 0
       /\ \A v \in EdValues : edSends'[v] <= 1
       /\ \A v \in EdValues : edRow'[v] \in {"pending", "expired"} /\ edSends'[v] > 0
             => \E p \in EdSenders : edPc'[p] = "mark" /\ edValue'[p] = v
<1>g. SUFFICES Goal
  BY DEF EdOneSendInv
<1>1. ASSUME NEW p \in EdSenders, AskOnline(p) \/ ComeOnline(p) \/ AllDelivered(p)
      PROVE  Goal
  <2>1. /\ UNCHANGED <<edRow, edValue, edTodo, edVerdict, edSends>>
        /\ edPc[p] \in {"status", "idle", "row"} /\ edPc'[p] \in {"read", "idle"}
        /\ \A q \in EdSenders : q # p => edPc'[q] = edPc[q]
    BY <1>0, <1>1 DEF AskOnline, ComeOnline, AllDelivered
  <2>. QED BY <1>t, <2>1
<1>2. ASSUME NEW p \in EdSenders, ReadPending(p)
      PROVE  Goal
  <2>1. /\ edPc[p] = "read" /\ UNCHANGED <<edRow, edValue, edVerdict, edSends>>
        /\ \A q \in EdSenders : q # p => edPc'[q] = edPc[q] /\ edTodo'[q] = edTodo[q]
    BY <1>0, <1>2 DEF ReadPending
  <2>2. CASE edPc'[p] = "idle"
    <3>1. edTodo' = edTodo
      BY <1>0, <1>2, <2>2 DEF ReadPending
    <3>. QED BY <1>t, <2>1, <2>2, <3>1
  <2>3. CASE edPc'[p] = "row"
    <3>1. edTodo'[p] = EdPending /\ \A q \in EdSenders \ {p} : ~EdSending(q)
      BY <1>0, <1>2, <1>s, <2>3 DEF ReadPending, EdSmooth
    <3>2. \A v \in EdPending : edSends[v] = 0
      BY <1>0, <1>t, <2>1, <3>1 DEF EdPending
    <3>3. \A q \in EdSenders : edPc'[q] # "mark" /\ edPc[q] # "mark"
      BY <2>1, <2>3, <3>1
    <3>4. \A q \in EdSenders : EdSending(q)' => q = p
      BY <2>1, <3>1
    <3>. QED BY <1>t, <2>1, <3>1, <3>2, <3>3, <3>4
  <2>. QED BY <1>0, <1>2, <2>2, <2>3 DEF ReadPending
<1>3. ASSUME NEW p \in EdSenders, Deliver(p)
      PROVE  Goal
  <2>1. PICK v \in edTodo[p] :
          /\ edTodo' = [edTodo EXCEPT ![p] = @ \ {v}]
          /\ edValue' = [edValue EXCEPT ![p] = v]
          /\ \/ /\ edVerdict' = [edVerdict EXCEPT ![p] = "sent"]
                /\ edSends' = [edSends EXCEPT ![v] = @ + 1]
             \/ /\ edVerdict' = [edVerdict EXCEPT ![p] = "expired"]
                /\ edSends' = edSends
    BY <1>3 DEF Deliver
  <2>2. /\ v \in EdValues /\ edRow' = edRow /\ edPc[p] = "row"
        /\ edPc' = [edPc EXCEPT ![p] = "mark"] /\ edSends[v] = 0
    BY <1>0, <1>3, <1>t DEF Deliver
  <2>3. \A q \in EdSenders : q # p => ~EdSending(q) /\ ~EdSending(q)' /\ edTodo[q] = {} /\ edTodo'[q] = {}
    BY <1>0, <1>t, <2>1, <2>2 DEF EdHandsInv
  <2>4. /\ edTodo'[p] = edTodo[p] \ {v} /\ edValue'[p] = v /\ edPc'[p] = "mark"
        /\ \A w \in EdValues : w # v => edSends'[w] = edSends[w]
        /\ edSends'[v] \in {0, 1}
        /\ edVerdict'[p] = "expired" => edSends'[v] = 0
    BY <1>0, <2>1, <2>2
  <2>5. \A q \in EdSenders : edPc[q] # "mark"
    BY <2>2, <2>3
  <2>6. \A w \in EdValues : w # v => ~(edRow'[w] \in {"pending", "expired"} /\ edSends'[w] > 0)
    BY <1>t, <2>2, <2>4, <2>5
  <2>7. \A q \in EdSenders : \A w \in edTodo'[q] : edSends'[w] = 0
    BY <1>0, <1>t, <2>3, <2>4
  <2>. QED BY <1>t, <2>3, <2>4, <2>6, <2>7
<1>4. ASSUME NEW p \in EdSenders, Mark(p)
      PROVE  Goal
  <2>1. /\ edPc[p] = "mark" /\ UNCHANGED <<edValue, edVerdict, edSends>>
        /\ edRow' = [edRow EXCEPT ![edValue[p]] = edVerdict[p]]
        /\ edPc' = [edPc EXCEPT ![p] = "row"] /\ edTodo' = edTodo
    BY <1>0, <1>4, <1>s DEF Mark, EdSmooth
  <2>2. \A q \in EdSenders : edPc[q] = "mark" => q = p
    BY <1>t, <2>1
  <2>3. \A w \in EdValues : edRow'[w] \in {"pending", "expired"} => edSends[w] = 0
    <3>1. ASSUME NEW w \in EdValues, edRow'[w] \in {"pending", "expired"}, edSends[w] > 0
          PROVE  FALSE
      <4>1. CASE w = edValue[p]
        BY <1>0, <1>t, <2>1, <3>1, <4>1
      <4>2. CASE w # edValue[p]
        BY <1>0, <1>t, <2>1, <2>2, <3>1, <4>2
      <4>. QED BY <4>1, <4>2
    <3>. QED BY <1>0, <3>1
  <2>4. \A q \in EdSenders : edPc'[q] # "mark"
    BY <1>0, <2>1, <2>2
  <2>5. \A q \in EdSenders : EdSending(q)' => EdSending(q)
    BY <1>0, <2>1
  <2>. QED BY <1>t, <2>1, <2>3, <2>4, <2>5
<1>5. ASSUME NEW p \in EdCalls, NEW v \in EdValues, CreateValue(p, v)
      PROVE  Goal
  <2>1. /\ UNCHANGED <<edValue, edTodo, edVerdict, edSends>> /\ edSends[v] = 0
        /\ \A w \in EdValues : w # v => edRow'[w] = edRow[w]
        /\ edPc[p] = "idle" /\ edPc'[p] \in {"status", "idle"}
        /\ \A q \in EdSenders : q # p => edPc'[q] = edPc[q]
    BY <1>0, <1>5 DEF CreateValue, EdHandsInv
  <2>. QED BY <1>0, <1>t, <2>1
<1>6. ASSUME NEW v \in EdValues, DeleteValue(v)
      PROVE  Goal
  <2>1. /\ UNCHANGED <<edPc, edValue, edTodo, edVerdict, edSends>>
        /\ \A w \in EdValues : edRow'[w] = edRow[w] \/ edRow'[w] = "deleted"
    BY <1>0, <1>6 DEF DeleteValue, edLocals
  <2>. QED BY <1>t, <2>1
<1>7. CASE GoOffline \/ UNCHANGED <<edRow, edOnline, edPc, edValue, edTodo, edVerdict, edSends>>
  <2>1. UNCHANGED <<edRow, edPc, edValue, edTodo, edVerdict, edSends>>
    BY <1>7 DEF GoOffline, edLocals
  <2>. QED BY <1>t, <2>1
<1>. HIDE DEF Goal
<1>. QED BY <1>1, <1>2, <1>3, <1>4, <1>5, <1>6, <1>7, <1>s, EdSmoothCases

LEMMA EdSeenNext ==
    ASSUME EdTypeOK, EdHandsInv, EdPendingIsSeen, [EdNext]_edVars
    PROVE  EdPendingIsSeen'
<1>0. /\ edRow \in [EdValues -> EdRowKinds] /\ edPc \in [EdSenders -> EdPlaces]
      /\ edValue \in [EdSenders -> EdValues] /\ edTodo \in [EdSenders -> SUBSET EdValues]
      /\ EdCalls \subseteq EdSenders /\ edVerdict \in [EdSenders -> {"sent", "expired"}]
  BY DEF EdTypeOK, EdRowKinds, EdPlaces, EdSenders
<1>s. SUFFICES ASSUME EdSmooth', edOnline', NEW v \in EdValues, edRow'[v] = "pending"
               PROVE  \E p \in EdSenders :
                        edPc'[p] \in {"status", "read"} \/ v \in edTodo'[p]
                          \/ (edPc'[p] = "mark" /\ edValue'[p] = v)
  BY DEF EdPendingIsSeen, EdPending
<1>t. edOnline /\ edRow[v] = "pending" =>
        \E p \in EdSenders : edPc[p] \in {"status", "read"} \/ v \in edTodo[p]
                               \/ (edPc[p] = "mark" /\ edValue[p] = v)
  BY <1>s, EdSmoothBefore DEF EdPendingIsSeen, EdPending
<1>1. ASSUME NEW p \in EdSenders, AskOnline(p)
      PROVE  \E q \in EdSenders : edPc'[q] \in {"status", "read"} \/ v \in edTodo'[q]
                                    \/ (edPc'[q] = "mark" /\ edValue'[q] = v)
  <2>1. edPc'[p] = "read"
    <3>1. edFaults' # edFaults + 1 \/ edFaults # 0
      BY <1>s DEF EdSmooth
    <3>2. edFaults = 0
      BY EdSmoothBefore, <1>s DEF EdSmooth
    <3>. QED BY <1>0, <1>1, <1>s, <3>1, <3>2 DEF AskOnline
  <2>. QED BY <2>1
<1>2. ASSUME NEW p \in EdSenders, ComeOnline(p)
      PROVE  edPc'[p] = "read"
  BY <1>0, <1>2 DEF ComeOnline
<1>3. ASSUME NEW p \in EdSenders, AllDelivered(p), NEW q \in EdSenders,
             edPc[q] \in {"status", "read"} \/ v \in edTodo[q] \/ (edPc[q] = "mark" /\ edValue[q] = v)
      PROVE  edPc'[q] \in {"status", "read"} \/ v \in edTodo'[q] \/ (edPc'[q] = "mark" /\ edValue'[q] = v)
  BY <1>0, <1>3 DEF AllDelivered
<1>4. ASSUME NEW p \in EdSenders, ReadPending(p)
      PROVE  v \in edTodo'[p]
  <2>1. edFaults = 0 /\ edFaults' = 0
    BY EdSmoothBefore, <1>s DEF EdSmooth
  <2>. QED BY <1>0, <1>4, <1>s, <2>1 DEF ReadPending, EdPending
<1>5. ASSUME NEW p \in EdSenders, Deliver(p), NEW q \in EdSenders,
             edPc[q] \in {"status", "read"} \/ v \in edTodo[q] \/ (edPc[q] = "mark" /\ edValue[q] = v)
      PROVE  edPc'[q] \in {"status", "read"} \/ v \in edTodo'[q] \/ (edPc'[q] = "mark" /\ edValue'[q] = v)
  <2>1. PICK w \in edTodo[p] :
          edTodo' = [edTodo EXCEPT ![p] = @ \ {w}] /\ edValue' = [edValue EXCEPT ![p] = w]
    BY <1>5 DEF Deliver
  <2>2. edPc[p] = "row" /\ edPc' = [edPc EXCEPT ![p] = "mark"]
    BY <1>5 DEF Deliver
  <2>3. CASE q = p
    BY <1>0, <1>5, <2>1, <2>2, <2>3
  <2>4. CASE q # p
    BY <1>0, <1>5, <2>1, <2>2, <2>4
  <2>. QED BY <2>3, <2>4
<1>6. ASSUME NEW p \in EdSenders, Mark(p), NEW q \in EdSenders,
             edPc[q] \in {"status", "read"} \/ v \in edTodo[q] \/ (edPc[q] = "mark" /\ edValue[q] = v)
      PROVE  edPc'[q] \in {"status", "read"} \/ v \in edTodo'[q] \/ (edPc'[q] = "mark" /\ edValue'[q] = v)
  <2>1. /\ edPc[p] = "mark" /\ edValue' = edValue /\ edTodo' = edTodo
        /\ edRow' = [edRow EXCEPT ![edValue[p]] = edVerdict[p]]
        /\ edPc' = [edPc EXCEPT ![p] = "row"]
    BY <1>0, <1>6, <1>s DEF Mark, EdSmooth
  <2>2. v # edValue[p]
    BY <1>0, <1>s, <2>1
  <2>. QED BY <1>0, <1>6, <2>1, <2>2
<1>7. ASSUME NEW p \in EdCalls, NEW w \in EdValues, CreateValue(p, w)
      PROVE  edPc'[p] = "status"
  <2>1. edFaults = 0 /\ edFaults' = 0
    BY EdSmoothBefore, <1>s DEF EdSmooth
  <2>. QED BY <1>0, <1>7, <2>1 DEF CreateValue
<1>8. ASSUME NEW w \in EdValues, DeleteValue(w)
      PROVE  edRow[v] = "pending" /\ UNCHANGED <<edPc, edValue, edTodo>>
  BY <1>0, <1>8, <1>s DEF DeleteValue, edLocals
<1>9. edOnline
      \/ \E p \in EdSenders : ComeOnline(p)
  BY <1>s DEF EdNext, EdSend, AskOnline, ReadPending, Deliver, AllDelivered, Mark,
              CreateValue, DeleteValue, PassExpiry, GoOffline, EdCrash, edVars
<1>10. \/ edRow[v] = "pending"
       \/ \E p \in EdCalls, w \in EdValues : CreateValue(p, w)
  <2>1. ASSUME NEW p \in EdSenders, Mark(p)
        PROVE  edRow[v] = "pending"
    BY <1>0, <1>s, <2>1 DEF Mark, EdSmooth
  <2>. QED BY <1>0, <1>s, <1>8, <2>1
           DEF EdNext, EdSend, AskOnline, ComeOnline, ReadPending, Deliver, AllDelivered,
               PassExpiry, GoOffline, EdCrash, edVars
<1>11. GoOffline => ~edOnline'
  BY DEF GoOffline
<1>. QED BY <1>0, <1>1, <1>2, <1>3, <1>4, <1>5, <1>6, <1>7, <1>8, <1>9, <1>10, <1>11, <1>s, <1>t,
            EdSmoothCases

(* Unless statements fail, a server restarts or two Sends overlap, no      *)
(* value of an online device is forgotten and each is delivered once; and  *)
(* in every case what is marked as sent has been delivered.                *)
THEOREM EdRowsTrue == EdSpec => []EdRowsAreTrue
<1>. DEFINE Inv == EdHandsInv /\ EdOneSendInv /\ EdRowsTellTheTruth /\ EdPendingIsSeen
<1>1. EdInit => Inv
  BY DEF EdInit, EdHandsInv, EdOneSendInv, EdRowsTellTheTruth, EdPendingIsSeen, EdPending
<1>2. EdTypeOK /\ Inv /\ [EdNext]_edVars => Inv'
  BY EdHandsNext, EdOneSendNext, EdSeenNext
<1>3. Inv => EdRowsAreTrue
  BY DEF EdRowsAreTrue
<1>. QED BY <1>1, <1>2, <1>3, EdTypeCorrect, PTL DEF EdSpec

-----------------------------------------------------------------------------
(* Types.                                                                  *)

USE DEF WsServer, WsGoto, WsLock, WsUnlock, WsFault, WsHandler, WsWriter, WsProcs, WsRoles, WsPlaces

(* The parts of the type invariant, one for each group of variables.       *)
WsKeyTypes  == wsKey \in [exists : BOOLEAN, count : Int, ttl : BOOLEAN]
WsMapTypes  == wsMap \subseteq WsClients /\ wsClosed \subseteq WsClients
WsPcTypes   == wsMutex \in [WsServers -> {<<>>} \cup WsProcs] /\ wsPc \in [WsProcs -> WsPlaces]
WsNumbers   == 0..WsMaxUpdates
WsViewTypes ==
    /\ wsFirst \in [WsClients -> WsNumbers] /\ wsShown \in [WsClients -> WsNumbers]
    /\ wsUpdates \in WsNumbers /\ wsStored \in 0..wsUpdates
    /\ wsUplink \in {"idle", "check", "publish"}
WsQueueTypes ==
    /\ wsQueue \in [WsClients -> Seq(WsNumbers)]
    /\ \A c \in WsClients : Len(wsQueue[c]) <= WsQueueSize
    /\ wsChannel \in [WsServers -> Seq(WsNumbers)]
WsBoundTypes ==
    wsCut \in BOOLEAN /\ wsFaults \in 0..WsMaxFaults /\ wsCrashes \in 0..WsMaxCrashes

LEMMA WsTypeParts ==
    WsTypeOK <=> WsKeyTypes /\ WsMapTypes /\ WsPcTypes /\ WsViewTypes /\ WsQueueTypes /\ WsBoundTypes
BY DEF WsTypeOK, WsKeyTypes, WsMapTypes, WsPcTypes, WsNumbers, WsViewTypes, WsQueueTypes, WsBoundTypes

(* The handler and the writer of a client are processes of its server.     *)
LEMMA WsProcTypes ==
    /\ \A c \in WsClients :
          <<c, "handler">> \in WsProcs /\ <<c, "writer">> \in WsProcs /\ WsHome[c] \in WsServers
    /\ \A p \in WsProcs : /\ p[1] \in WsClients /\ WsHome[p[1]] \in WsServers
                          /\ p = <<p[1], "handler">> \/ p = <<p[1], "writer">>
    /\ \A p \in WsProcs : p # <<>>
BY WsAssumption

(* A send that does not block keeps a queue within its capacity.           *)
LEMMA WsOfferFits ==
    ASSUME NEW q \in Seq(WsNumbers), Len(q) <= WsQueueSize, NEW m \in WsNumbers
    PROVE  WsOffer(q, m) \in Seq(WsNumbers) /\ Len(WsOffer(q, m)) <= WsQueueSize
<1>1. CASE Len(q) < WsQueueSize
  <2>1. Append(q, m) \in Seq(WsNumbers) /\ Len(Append(q, m)) = Len(q) + 1
    OBVIOUS
  <2>2. Len(q) + 1 <= WsQueueSize
    BY <1>1, WsAssumption
  <2>. QED BY <1>1, <2>1, <2>2 DEF WsOffer
<1>2. CASE ~(Len(q) < WsQueueSize)
  BY <1>2 DEF WsOffer
<1>. QED BY <1>1, <1>2

(* The numbers that are passed around are numbers of updates.              *)
LEMMA WsNumberFacts ==
    ASSUME WsViewTypes
    PROVE  0 \in WsNumbers /\ wsStored \in WsNumbers /\ 0..wsStored \subseteq WsNumbers
BY WsAssumption DEF WsViewTypes, WsNumbers

LEMMA WsInitTypes == WsInit => WsTypeOK
<1>. SUFFICES ASSUME WsInit PROVE WsTypeOK
  OBVIOUS
<1>1. 0 \in WsNumbers /\ <<>> \in Seq(WsNumbers) /\ Len(<<>>) <= WsQueueSize
  BY WsAssumption DEF WsNumbers
<1>2. WsKeyTypes /\ WsMapTypes /\ WsPcTypes
  BY DEF WsInit, WsAbsent, WsKeyTypes, WsMapTypes, WsPcTypes
<1>3. WsViewTypes /\ WsBoundTypes
  <2>1. 0 \in 0..0 /\ 0 \in 0..WsMaxFaults /\ 0 \in 0..WsMaxCrashes
    BY WsAssumption
  <2>2. WsViewTypes
    BY <1>1, <2>1 DEF WsInit, WsViewTypes
  <2>. QED BY <2>1, <2>2 DEF WsInit, WsBoundTypes
<1>4. WsQueueTypes
  BY <1>1 DEF WsInit, WsQueueTypes
<1>. QED BY <1>2, <1>3, <1>4, WsTypeParts

(* The key and the counts of failures.                                     *)
LEMMA WsKeyStep ==
    ASSUME WsKeyTypes, WsBoundTypes, [WsNext]_wsVars
    PROVE  WsKeyTypes' /\ WsBoundTypes'
<1>0. /\ wsKey \in [exists : BOOLEAN, count : Int, ttl : BOOLEAN]
      /\ wsCut \in BOOLEAN /\ wsFaults \in 0..WsMaxFaults /\ wsCrashes \in 0..WsMaxCrashes
      /\ WsMaxFaults \in Nat /\ WsMaxCrashes \in Nat
  BY WsAssumption DEF WsKeyTypes, WsBoundTypes
<1>1. \/ wsKey' = wsKey \/ wsKey' = WsAbsent \/ wsKey' = WsExpireKey
      \/ wsKey' = [wsKey EXCEPT !.exists = TRUE, !.count = @ + 1]
      \/ wsKey' = [wsKey EXCEPT !.exists = TRUE, !.count = @ - 1]
  BY DEF WsNext, Subscribe, WsEntering, Incr, SetTtl, SendFirst, Ping, Write, WriterEnds,
         Unsubscribe, WsCounting, Decr, DelKey, Update, Store, CheckKey, PublishUpdate,
         KeyExpires, Push, ServerDown, wsVars
<1>2. wsKey' \in [exists : BOOLEAN, count : Int, ttl : BOOLEAN]
  <2>1. wsKey.count \in Int /\ wsKey.count + 1 \in Int /\ wsKey.count - 1 \in Int
    BY <1>0
  <2>2. WsAbsent \in [exists : BOOLEAN, count : Int, ttl : BOOLEAN]
    BY DEF WsAbsent
  <2>3. WsExpireKey \in [exists : BOOLEAN, count : Int, ttl : BOOLEAN]
    BY <1>0 DEF WsExpireKey
  <2>4. \A n \in Int :
           [wsKey EXCEPT !.exists = TRUE, !.count = n] \in [exists : BOOLEAN, count : Int, ttl : BOOLEAN]
    BY <1>0
  <2>. QED BY <1>0, <1>1, <2>1, <2>2, <2>3, <2>4
<1>3. wsFaults' = wsFaults \/ (wsFaults < WsMaxFaults /\ wsFaults' = wsFaults + 1)
  BY DEF WsNext, Subscribe, WsEntering, Incr, SetTtl, SendFirst, Ping, Write, WriterEnds,
         Unsubscribe, WsCounting, Decr, DelKey, Update, Store, CheckKey, PublishUpdate,
         KeyExpires, Push, ServerDown, wsVars, wsBounds
<1>6. wsCrashes' = wsCrashes \/ (wsCrashes < WsMaxCrashes /\ wsCrashes' = wsCrashes + 1)
  BY DEF WsNext, Subscribe, WsEntering, Incr, SetTtl, SendFirst, Ping, Write, WriterEnds,
         Unsubscribe, WsCounting, Decr, DelKey, Update, Store, CheckKey, PublishUpdate,
         KeyExpires, Push, ServerDown, wsVars, wsBounds
<1>5. wsCut' \in BOOLEAN
  <2>1. wsCut' = wsCut \/ \E s \in WsServers : ServerDown(s)
    BY DEF WsNext, Subscribe, WsEntering, Incr, SetTtl, SendFirst, Ping, Write, WriterEnds,
           Unsubscribe, WsCounting, Decr, DelKey, Update, Store, CheckKey, PublishUpdate,
           KeyExpires, Push, wsVars, wsBounds
  <2>2. ASSUME NEW s \in WsServers, ServerDown(s) PROVE wsCut' \in BOOLEAN
    BY <2>2 DEF ServerDown
  <2>. QED BY <1>0, <2>1, <2>2
<1>4. wsFaults' \in 0..WsMaxFaults /\ wsCrashes' \in 0..WsMaxCrashes
  BY <1>0, <1>3, <1>6
<1>. QED BY <1>2, <1>4, <1>5 DEF WsKeyTypes, WsBoundTypes

(* The map, the mutex and the places.                                      *)
LEMMA WsMapStep ==
    ASSUME WsMapTypes, WsPcTypes, [WsNext]_wsVars
    PROVE  WsMapTypes' /\ WsPcTypes'
<1>. USE DEF WsMapTypes, WsPcTypes
<1>1. ASSUME NEW c \in WsClients,
             Subscribe(c) \/ WsEntering(c) \/ Ping(c) \/ Write(c) \/ WriterEnds(c)
      PROVE  WsMapTypes' /\ WsPcTypes'
  BY <1>1, WsProcTypes DEF Subscribe, WsEntering, Incr, SetTtl, SendFirst, Ping, Write, WriterEnds,
                           wsBrowser
<1>2. ASSUME NEW p \in WsProcs, Unsubscribe(p) \/ WsCounting(p)
      PROVE  WsMapTypes' /\ WsPcTypes'
  BY <1>2, WsProcTypes DEF Unsubscribe, WsCounting, Decr, DelKey, WsClose, wsBrowser
<1>3. CASE Update \/ Store \/ CheckKey \/ PublishUpdate \/ KeyExpires
  BY <1>3 DEF Update, Store, CheckKey, PublishUpdate, KeyExpires, wsBrowser
<1>4. ASSUME NEW s \in WsServers, Push(s)
      PROVE  WsMapTypes' /\ WsPcTypes'
  BY <1>4 DEF Push
<1>5. ASSUME NEW s \in WsServers, ServerDown(s)
      PROVE  WsMapTypes' /\ WsPcTypes'
  BY <1>5 DEF ServerDown, wsBrowser
<1>6. CASE UNCHANGED wsVars
  BY <1>6 DEF wsVars, wsBrowser
<1>. QED BY <1>1, <1>2, <1>3, <1>4, <1>5, <1>6 DEF WsNext

(* What the browsers are shown, and what is on its way to them.            *)
LEMMA WsFeedStep ==
    ASSUME WsPcTypes, WsViewTypes, WsQueueTypes, [WsNext]_wsVars
    PROVE  WsViewTypes' /\ WsQueueTypes'
<1>0. /\ wsFirst \in [WsClients -> WsNumbers] /\ wsShown \in [WsClients -> WsNumbers]
      /\ wsUpdates \in WsNumbers /\ wsStored \in 0..wsUpdates
      /\ wsUplink \in {"idle", "check", "publish"}
      /\ wsQueue \in [WsClients -> Seq(WsNumbers)]
      /\ \A c \in WsClients : Len(wsQueue[c]) <= WsQueueSize
      /\ wsChannel \in [WsServers -> Seq(WsNumbers)]
      /\ 0 \in WsNumbers /\ wsStored \in WsNumbers /\ 0..wsStored \subseteq WsNumbers
  BY WsNumberFacts DEF WsViewTypes, WsQueueTypes
<1>a. ASSUME NEW c \in WsClients, NEW m \in WsNumbers
      PROVE  WsOffer(wsQueue[c], m) \in Seq(WsNumbers) /\ Len(WsOffer(wsQueue[c], m)) <= WsQueueSize
  BY <1>0, WsOfferFits
<1>b. ASSUME wsUpdates' = wsUpdates, wsStored' = wsStored, wsUplink' = wsUplink,
             wsFirst' \in [WsClients -> WsNumbers], wsShown' \in [WsClients -> WsNumbers]
      PROVE  WsViewTypes'
  BY <1>0, <1>b DEF WsViewTypes, WsNumbers
<1>c. ASSUME wsChannel' = wsChannel, wsQueue' \in [WsClients -> Seq(WsNumbers)],
             \A c \in WsClients : Len(wsQueue'[c]) <= WsQueueSize
      PROVE  WsQueueTypes'
  BY <1>0, <1>c DEF WsQueueTypes
<1>1. ASSUME NEW c \in WsClients, Subscribe(c)
      PROVE  WsViewTypes' /\ WsQueueTypes'
  <2>1. PICK v \in 0..wsStored :
          wsFirst' = [wsFirst EXCEPT ![c] = IF c \in WsByKey THEN v ELSE @]
    BY <1>1 DEF Subscribe
  <2>2. wsFirst' \in [WsClients -> WsNumbers]
    BY <1>0, <2>1
  <2>3. UNCHANGED <<wsQueue, wsShown, wsUpdates, wsStored, wsUplink, wsChannel>>
    BY <1>1 DEF Subscribe, wsFeed
  <2>. QED BY <1>0, <1>b, <1>c, <2>2, <2>3
<1>2. ASSUME NEW c \in WsClients, SendFirst(c)
      PROVE  WsViewTypes' /\ WsQueueTypes'
  <2>1. UNCHANGED <<wsShown, wsUpdates, wsStored, wsUplink, wsChannel>>
    BY <1>2 DEF SendFirst, wsFeed
  <2>2. wsFirst' \in [WsClients -> WsNumbers]
    BY <1>0, <1>2 DEF SendFirst
  <2>3. wsQueue' = wsQueue \/ wsQueue' = [wsQueue EXCEPT ![c] = WsOffer(wsQueue[c], wsFirst'[c])]
    BY <1>0, <1>2 DEF SendFirst
  <2>4. wsFirst'[c] \in WsNumbers
    BY <2>2
  <2>5. /\ wsQueue' \in [WsClients -> Seq(WsNumbers)]
        /\ \A d \in WsClients : Len(wsQueue'[d]) <= WsQueueSize
    BY <1>0, <1>a, <2>3, <2>4
  <2>. QED BY <1>0, <1>b, <1>c, <2>1, <2>2, <2>5
<1>3. ASSUME NEW c \in WsClients, Ping(c)
      PROVE  WsViewTypes' /\ WsQueueTypes'
  <2>1. UNCHANGED <<wsFirst, wsShown, wsUpdates, wsStored, wsUplink, wsChannel>>
    BY <1>3 DEF Ping, wsFeed
  <2>2. wsQueue' = wsQueue \/ wsQueue' = [wsQueue EXCEPT ![c] = WsOffer(wsQueue[c], 0)]
    BY <1>0, <1>3 DEF Ping
  <2>3. /\ wsQueue' \in [WsClients -> Seq(WsNumbers)]
        /\ \A d \in WsClients : Len(wsQueue'[d]) <= WsQueueSize
    BY <1>0, <1>a, <2>2
  <2>. QED BY <1>0, <1>b, <1>c, <2>1, <2>3
<1>4. ASSUME NEW c \in WsClients, Write(c)
      PROVE  WsViewTypes' /\ WsQueueTypes'
  <2>1. UNCHANGED <<wsFirst, wsUpdates, wsStored, wsUplink, wsChannel>>
    BY <1>4 DEF Write, wsFeed
  <2>2. PICK q \in Seq(WsNumbers) : q = wsQueue[c] /\ q # <<>> /\ Len(q) <= WsQueueSize
    BY <1>0, <1>4 DEF Write
  <2>3. Head(q) \in WsNumbers /\ Tail(q) \in Seq(WsNumbers) /\ Len(Tail(q)) <= WsQueueSize
    <3>1. Len(q) \in Nat /\ Len(Tail(q)) = Len(q) - 1 /\ WsQueueSize \in Nat
      BY <2>2, WsAssumption
    <3>. QED BY <2>2, <3>1
  <2>4. wsShown' = [wsShown EXCEPT ![c] = IF Head(q) = 0 THEN @ ELSE Head(q)]
        /\ wsQueue' = [wsQueue EXCEPT ![c] = Tail(q)]
    BY <1>0, <1>4, <2>2 DEF Write
  <2>5. wsShown' \in [WsClients -> WsNumbers]
    BY <1>0, <2>3, <2>4
  <2>6. /\ wsQueue' \in [WsClients -> Seq(WsNumbers)]
        /\ \A d \in WsClients : Len(wsQueue'[d]) <= WsQueueSize
    BY <1>0, <2>3, <2>4
  <2>. QED BY <1>0, <1>b, <1>c, <2>1, <2>5, <2>6
<1>5. CASE Update \/ Store \/ CheckKey
  <2>1. UNCHANGED <<wsFirst, wsShown, wsQueue, wsChannel>>
    BY <1>5 DEF Update, Store, CheckKey, wsBrowser
  <2>2. \/ wsUpdates < WsMaxUpdates /\ wsUpdates' = wsUpdates + 1 /\ wsStored' = wsStored
        \/ wsStored < wsUpdates /\ wsStored' = wsStored + 1 /\ wsUpdates' = wsUpdates
        \/ wsUpdates' = wsUpdates /\ wsStored' = wsStored
    BY <1>5 DEF Update, Store, CheckKey
  <2>3. wsUpdates' \in WsNumbers /\ wsStored' \in 0..wsUpdates'
    <3>1. wsUpdates \in 0..WsMaxUpdates /\ wsStored \in 0..wsUpdates /\ WsMaxUpdates \in Nat
      BY <1>0, WsAssumption DEF WsNumbers
    <3>2. wsUpdates' \in 0..WsMaxUpdates /\ wsStored' \in 0..wsUpdates'
      BY <2>2, <3>1
    <3>. QED BY <3>2 DEF WsNumbers
  <2>4. wsUplink' \in {"idle", "check", "publish"}
    BY <1>0, <1>5 DEF Update, Store, CheckKey
  <2>. QED BY <1>0, <1>c, <2>1, <2>3, <2>4 DEF WsViewTypes
<1>6. CASE PublishUpdate
  <2>1. UNCHANGED <<wsFirst, wsShown, wsQueue, wsUpdates, wsStored>> /\ wsUplink' = "idle"
    BY <1>6 DEF PublishUpdate, wsBrowser
  <2>2. wsChannel' \in [WsServers -> Seq(WsNumbers)]
    <3>1. \A s \in WsServers : Append(wsChannel[s], wsUpdates) \in Seq(WsNumbers)
      BY <1>0
    <3>2. wsChannel' = wsChannel \/ wsChannel' = [s \in WsServers |-> Append(wsChannel[s], wsUpdates)]
      BY <1>6 DEF PublishUpdate
    <3>. QED BY <1>0, <3>1, <3>2
  <2>. QED BY <1>0, <2>1, <2>2 DEF WsViewTypes, WsQueueTypes
<1>7. ASSUME NEW s \in WsServers, Push(s)
      PROVE  WsViewTypes' /\ WsQueueTypes'
  <2>1. UNCHANGED <<wsFirst, wsShown, wsUpdates, wsStored, wsUplink>>
    BY <1>7 DEF Push
  <2>2. Head(wsChannel[s]) \in WsNumbers /\ Tail(wsChannel[s]) \in Seq(WsNumbers)
    BY <1>0, <1>7 DEF Push
  <2>3. wsChannel' \in [WsServers -> Seq(WsNumbers)]
    BY <1>0, <1>7, <2>2 DEF Push
  <2>4. wsQueue' = [c \in WsClients |->
                      IF c \in wsMap /\ WsHome[c] = s
                        THEN WsOffer(wsQueue[c], Head(wsChannel[s])) ELSE wsQueue[c]]
    BY <1>7 DEF Push
  <2>5. \A c \in WsClients : wsQueue'[c] \in Seq(WsNumbers) /\ Len(wsQueue'[c]) <= WsQueueSize
    BY <1>0, <1>a, <2>2, <2>4
  <2>6. wsQueue' \in [WsClients -> Seq(WsNumbers)]
    BY <2>4, <2>5
  <2>. QED BY <1>0, <1>b, <2>1, <2>3, <2>5, <2>6 DEF WsQueueTypes
<1>8. ASSUME NEW s \in WsServers, ServerDown(s)
      PROVE  WsViewTypes' /\ WsQueueTypes'
  <2>1. UNCHANGED <<wsQueue, wsFirst, wsShown, wsUpdates, wsStored, wsUplink>>
    BY <1>8 DEF ServerDown, wsBrowser
  <2>2. wsChannel' \in [WsServers -> Seq(WsNumbers)]
    BY <1>0, <1>8 DEF ServerDown
  <2>. QED BY <1>0, <1>b, <2>1, <2>2 DEF WsQueueTypes
<1>9. CASE UNCHANGED <<wsQueue, wsFirst, wsShown, wsUpdates, wsStored, wsUplink, wsChannel>>
  BY <1>0, <1>b, <1>c, <1>9
<1>10. ASSUME NEW c \in WsClients, Incr(c) \/ SetTtl(c) \/ WriterEnds(c)
       PROVE  UNCHANGED <<wsQueue, wsFirst, wsShown, wsUpdates, wsStored, wsUplink, wsChannel>>
  BY <1>10 DEF Incr, SetTtl, WriterEnds, wsBrowser, wsFeed
<1>11. ASSUME NEW p \in WsProcs, Unsubscribe(p) \/ WsCounting(p)
       PROVE  UNCHANGED <<wsQueue, wsFirst, wsShown, wsUpdates, wsStored, wsUplink, wsChannel>>
  BY <1>11 DEF Unsubscribe, WsCounting, Decr, DelKey, wsBrowser, wsFeed
<1>12. CASE KeyExpires \/ UNCHANGED wsVars
  <2>1. UNCHANGED <<wsQueue, wsFirst, wsShown, wsUpdates, wsStored, wsUplink, wsChannel>>
    BY <1>12 DEF KeyExpires, wsVars, wsBrowser, wsFeed
  <2>. QED BY <1>9, <2>1
<1>. QED BY <1>1, <1>2, <1>3, <1>4, <1>5, <1>6, <1>7, <1>8, <1>9, <1>10, <1>11, <1>12
         DEF WsNext, WsEntering

(* Every variable has its kind, and no queue of a browser outgrows its     *)
(* capacity, however fast updates and pongs come.                          *)
THEOREM WsTypeCorrect == WsSpec => []WsTypeOK
<1>1. WsTypeOK /\ [WsNext]_wsVars => WsTypeOK'
  <2>. SUFFICES ASSUME WsTypeOK, [WsNext]_wsVars PROVE WsTypeOK'
    OBVIOUS
  <2>1. WsKeyTypes' /\ WsMapTypes' /\ WsPcTypes' /\ WsViewTypes' /\ WsQueueTypes' /\ WsBoundTypes'
    BY WsTypeParts, WsKeyStep, WsMapStep, WsFeedStep
  <2>. QED BY <2>1
       DEF WsTypeOK, WsKeyTypes, WsMapTypes, WsPcTypes, WsNumbers, WsViewTypes, WsQueueTypes,
           WsBoundTypes
<1>. QED BY <1>1, WsInitTypes, PTL DEF WsSpec

-----------------------------------------------------------------------------
(* A push never meets a closed queue.                                      *)

(* A client that has not subscribed is in no map and has no open queue to  *)
(* close; who counts it down has taken it out of the map.                  *)
WsMapInv ==
    /\ \A c \in WsClients : wsPc[WsHandler(c)] = "new" =>
          c \notin wsMap /\ c \notin wsClosed /\ wsPc[WsWriter(c)] = "new"
    /\ \A p \in WsProcs : wsPc[p] \in {"decr", "del"} => p[1] \notin wsMap
    /\ WsPushSafe

LEMMA WsMapNext ==
    ASSUME WsPcTypes, WsMapTypes, WsMapInv, [WsNext]_wsVars
    PROVE  WsMapInv'
<1>. USE DEF WsMapInv, WsPushSafe, WsPcTypes, WsMapTypes
<1>1. ASSUME NEW c \in WsClients, Subscribe(c) \/ WsEntering(c) \/ Ping(c)
      PROVE  WsMapInv'
  BY <1>1, WsProcTypes DEF Subscribe, WsEntering, Incr, SetTtl, SendFirst, Ping, wsBrowser
<1>2. ASSUME NEW c \in WsClients, Write(c) \/ WriterEnds(c)
      PROVE  WsMapInv'
  BY <1>2, WsProcTypes DEF Write, WriterEnds, wsBrowser
<1>3. ASSUME NEW p \in WsProcs, Unsubscribe(p)
      PROVE  WsMapInv'
  BY <1>3, WsProcTypes DEF Unsubscribe, wsBrowser
<1>4. ASSUME NEW p \in WsProcs, WsCounting(p)
      PROVE  WsMapInv'
  BY <1>4, WsProcTypes DEF WsCounting, Decr, DelKey, WsClose
<1>5. CASE Update \/ Store \/ CheckKey \/ PublishUpdate \/ KeyExpires
  BY <1>5 DEF Update, Store, CheckKey, PublishUpdate, KeyExpires, wsBrowser
<1>6. ASSUME NEW s \in WsServers, Push(s) \/ ServerDown(s)
      PROVE  WsMapInv'
  BY <1>6, WsProcTypes DEF Push, ServerDown, wsBrowser
<1>7. CASE UNCHANGED wsVars
  BY <1>7 DEF wsVars, wsBrowser
<1>. QED BY <1>1, <1>2, <1>3, <1>4, <1>5, <1>6, <1>7 DEF WsNext

(* PushToDevice never writes to a closed queue: whoever closes it has      *)
(* taken the client out of the map before, and nobody enters it again.     *)
THEOREM PushMeetsOpenQueue == WsSpec => []WsPushSafe
<1>1. WsInit => WsMapInv
  BY DEF WsInit, WsMapInv, WsPushSafe
<1>2. WsTypeOK /\ WsMapInv /\ [WsNext]_wsVars => WsMapInv'
  BY WsMapNext, WsTypeParts
<1>3. WsMapInv => WsPushSafe
  BY DEF WsMapInv
<1>. QED BY <1>1, <1>2, <1>3, WsTypeCorrect, PTL DEF WsSpec

-----------------------------------------------------------------------------
(* A client that watches has its key.                                      *)

(* The clients with an INCR that no DECR has undone yet.                   *)
WsCounted ==
    {c \in WsClients :
        \/ c \in wsMap /\ wsPc[WsHandler(c)] # "incr"
        \/ wsPc[WsHandler(c)] = "decr" \/ wsPc[WsWriter(c)] = "decr"}

(* Counting happens under the mutex; the writer begins after it.           *)
WsLockInv ==
    /\ \A p \in WsProcs :
          wsPc[p] \in {"incr", "ttl", "decr", "del"} => wsMutex[WsServer(p)] = p
    /\ \A c \in WsClients : wsPc[WsWriter(c)] \notin {"incr", "ttl", "read"}
    /\ \A c \in WsClients :
          wsPc[WsHandler(c)] \in {"new", "incr", "ttl"} => wsPc[WsWriter(c)] = "new"
    /\ \A c \in WsClients : wsPc[WsHandler(c)] = "new" => c \notin wsMap

WsCountInv ==
    wsFaults = 0 =>
        /\ Cardinality(WsCounted) <= wsKey.count
        /\ WsCounted # {} => wsKey.exists
        /\ \A p \in WsProcs : wsPc[p] = "del" => WsCounted = {}

(* All clients are on one server, whose mutex they share, and the key of a *)
(* device outlives the fifteen seconds between two pings.                  *)
WsOneServer == /\ \A c, d \in WsClients : WsHome[c] = WsHome[d]
               /\ WsMayExpire = FALSE

LEMMA WsLockNext ==
    ASSUME WsPcTypes, WsMapTypes, WsMapInv, WsLockInv, [WsNext]_wsVars
    PROVE  WsLockInv'
<1>. USE DEF WsLockInv, WsPcTypes, WsMapTypes
<1>1. ASSUME NEW c \in WsClients, Subscribe(c)
      PROVE  WsLockInv'
  BY <1>1, WsProcTypes DEF Subscribe
<1>2. ASSUME NEW c \in WsClients, Incr(c)
      PROVE  WsLockInv'
  BY <1>2, WsProcTypes DEF Incr
<1>9. ASSUME NEW c \in WsClients, SetTtl(c)
      PROVE  WsLockInv'
  <2>1. /\ wsPc[WsHandler(c)] = "ttl" /\ wsMap' = wsMap
        /\ wsPc' = [wsPc EXCEPT ![WsHandler(c)] = "read", ![WsWriter(c)] = "open"]
        /\ wsMutex' = [wsMutex EXCEPT ![WsHome[c]] = <<>>]
    BY <1>9 DEF SetTtl
  <2>2. /\ \A q \in WsProcs : wsPc'[q] \in {"incr", "ttl", "decr", "del"} =>
              wsPc[q] = wsPc'[q] /\ q # WsHandler(c)
        /\ \A d \in WsClients : d # c =>
              wsPc'[WsHandler(d)] = wsPc[WsHandler(d)] /\ wsPc'[WsWriter(d)] = wsPc[WsWriter(d)]
        /\ wsPc'[WsHandler(c)] = "read" /\ wsPc'[WsWriter(c)] = "open"
    BY <2>1, WsProcTypes
  <2>3. \A q \in WsProcs :
           wsPc'[q] \in {"incr", "ttl", "decr", "del"} => wsMutex'[WsServer(q)] = q
    BY <2>1, <2>2, WsProcTypes
  <2>. QED BY <2>1, <2>2, <2>3
<1>3. ASSUME NEW c \in WsClients, SendFirst(c) \/ Ping(c) \/ WriterEnds(c)
      PROVE  WsLockInv'
  BY <1>3, WsProcTypes DEF SendFirst, Ping, WriterEnds
<1>4. ASSUME NEW p \in WsProcs, Unsubscribe(p)
      PROVE  WsLockInv'
  BY <1>4, WsProcTypes DEF Unsubscribe
<1>5. ASSUME NEW p \in WsProcs, WsCounting(p)
      PROVE  WsLockInv'
  BY <1>5, WsProcTypes DEF WsCounting, Decr, DelKey, WsClose
<1>6. ASSUME NEW s \in WsServers, ServerDown(s)
      PROVE  WsLockInv'
  BY <1>6, WsProcTypes DEF ServerDown
<1>7. CASE UNCHANGED <<wsMap, wsMutex, wsPc>>
  BY <1>7
<1>8. \/ \E c \in WsClients : Subscribe(c) \/ Incr(c) \/ SetTtl(c) \/ SendFirst(c) \/ Ping(c) \/ WriterEnds(c)
      \/ \E p \in WsProcs : Unsubscribe(p) \/ WsCounting(p)
      \/ \E s \in WsServers : ServerDown(s)
      \/ UNCHANGED <<wsMap, wsMutex, wsPc>>
  BY DEF WsNext, WsEntering, Write, Update, Store, CheckKey, PublishUpdate, KeyExpires, Push, wsVars
<1>. QED BY <1>1, <1>2, <1>3, <1>4, <1>5, <1>6, <1>7, <1>8, <1>9

(* Fewer clients to count need no more of the key.                         *)
LEMMA WsCountFewer ==
    ASSUME WsKeyTypes, WsCountInv, wsFaults = 0, NEW D, D \subseteq WsCounted
    PROVE  /\ Cardinality(D) <= wsKey.count
           /\ D # {} => wsKey.exists
<1>1. IsFiniteSet(WsCounted)
  BY WsClientsAssumption, FS_Subset DEF WsCounted
<1>2. /\ Cardinality(D) <= Cardinality(WsCounted)
      /\ Cardinality(D) \in Nat /\ Cardinality(WsCounted) \in Nat
  BY <1>1, FS_Subset, FS_CardinalityType
<1>3. Cardinality(WsCounted) <= wsKey.count /\ wsKey.count \in Int
  BY DEF WsCountInv, WsKeyTypes
<1>4. Cardinality(D) <= wsKey.count
  BY <1>2, <1>3
<1>. QED BY <1>4 DEF WsCountInv

LEMMA WsCountNext ==
    ASSUME WsOneServer, WsTypeOK, WsLockInv, WsMapInv, WsCountInv, [WsNext]_wsVars
    PROVE  WsCountInv'
<1>. SUFFICES ASSUME wsFaults' = 0 PROVE WsCountInv'
  BY DEF WsCountInv
<1>0. WsKeyTypes /\ WsMapTypes /\ WsPcTypes /\ wsFaults \in Nat /\ wsKey.count \in Int
  BY WsTypeParts DEF WsKeyTypes, WsBoundTypes
<1>. USE DEF WsPcTypes, WsMapTypes
<1>f. wsFaults = 0
  <2>1. wsFaults' = wsFaults \/ wsFaults' = wsFaults + 1
    BY DEF WsNext, Subscribe, WsEntering, Incr, SetTtl, SendFirst, Ping, Write, WriterEnds,
           Unsubscribe, WsCounting, Decr, DelKey, Update, Store, CheckKey, PublishUpdate,
           KeyExpires, Push, ServerDown, wsVars, wsBounds
  <2>. QED BY <1>0, <2>1
<1>l. \A p, q \in WsProcs :
         wsPc[p] \in {"incr", "ttl", "decr", "del"} /\ wsPc[q] \in {"incr", "ttl", "decr", "del"} => p = q
  BY WsProcTypes DEF WsLockInv, WsOneServer
<1>k. ASSUME wsKey'.count = wsKey.count, wsKey'.exists = wsKey.exists, WsCounted' \subseteq WsCounted,
             \A p \in WsProcs : wsPc'[p] = "del" => wsPc[p] = "del"
      PROVE  WsCountInv'
  <2>1. /\ Cardinality(WsCounted') <= wsKey.count
        /\ WsCounted' # {} => wsKey.exists
    BY <1>0, <1>f, <1>k, WsCountFewer
  <2>2. \A p \in WsProcs : wsPc'[p] = "del" => WsCounted' = {}
    BY <1>f, <1>k DEF WsCountInv
  <2>. QED BY <1>k, <2>1, <2>2 DEF WsCountInv
<1>1. ASSUME NEW c \in WsClients, Subscribe(c)
      PROVE  WsCountInv'
  <2>1. WsCounted' \subseteq WsCounted
    BY <1>0, <1>1, WsProcTypes DEF Subscribe, WsCounted, WsLockInv
  <2>2. wsKey' = wsKey /\ \A p \in WsProcs : wsPc'[p] = "del" => wsPc[p] = "del"
    BY <1>0, <1>1 DEF Subscribe
  <2>. QED BY <1>k, <2>1, <2>2
<1>2. ASSUME NEW c \in WsClients, Incr(c)
      PROVE  WsCountInv'
  <2>1. /\ wsPc[WsHandler(c)] = "incr" /\ wsPc' = [wsPc EXCEPT ![WsHandler(c)] = "ttl"]
        /\ wsKey' = [wsKey EXCEPT !.exists = TRUE, !.count = @ + 1] /\ wsMap' = wsMap
    BY <1>0, <1>2, <1>f DEF Incr
  <2>2. wsKey'.exists = TRUE /\ wsKey'.count = wsKey.count + 1
    BY <1>0, <2>1 DEF WsKeyTypes
  <2>3. WsCounted' \subseteq WsCounted \cup {c}
    BY <1>0, <2>1, WsProcTypes DEF WsCounted
  <2>4. IsFiniteSet(WsCounted)
    BY WsClientsAssumption, FS_Subset DEF WsCounted
  <2>5. /\ Cardinality(WsCounted') <= Cardinality(WsCounted \cup {c})
        /\ Cardinality(WsCounted') \in Nat /\ Cardinality(WsCounted \cup {c}) \in Nat
    BY <2>3, <2>4, FS_AddElement, FS_Subset, FS_CardinalityType
  <2>6. Cardinality(WsCounted \cup {c}) <= Cardinality(WsCounted) + 1 /\ Cardinality(WsCounted) \in Nat
    <3>1. Cardinality(WsCounted) \in Nat
      BY <2>4, FS_CardinalityType
    <3>2. Cardinality(WsCounted \cup {c}) = Cardinality(WsCounted)
          \/ Cardinality(WsCounted \cup {c}) = Cardinality(WsCounted) + 1
      BY <2>4, FS_AddElement
    <3>. QED BY <3>1, <3>2
  <2>7. Cardinality(WsCounted) <= wsKey.count
    BY <1>f DEF WsCountInv
  <2>8. Cardinality(WsCounted') <= wsKey'.count
    BY <1>0, <2>2, <2>5, <2>6, <2>7
  <2>9. \A p \in WsProcs : wsPc'[p] # "del"
    BY <1>0, <1>l, <2>1, WsProcTypes
  <2>. QED BY <2>2, <2>8, <2>9 DEF WsCountInv
<1>3. ASSUME NEW c \in WsClients, SetTtl(c) \/ SendFirst(c) \/ Ping(c) \/ WriterEnds(c)
      PROVE  WsCountInv'
  <2>1. WsCounted' \subseteq WsCounted
    BY <1>0, <1>3, WsProcTypes DEF SetTtl, SendFirst, Ping, WriterEnds, WsCounted
  <2>2. wsKey'.exists = wsKey.exists /\ wsKey'.count = wsKey.count
    BY <1>0, <1>3 DEF SetTtl, SendFirst, Ping, WriterEnds, WsExpireKey, WsKeyTypes
  <2>3. \A p \in WsProcs : wsPc'[p] = "del" => wsPc[p] = "del"
    BY <1>0, <1>3 DEF SetTtl, SendFirst, Ping, WriterEnds
  <2>. QED BY <1>k, <2>1, <2>2, <2>3
<1>4. ASSUME NEW p \in WsProcs, Unsubscribe(p)
      PROVE  WsCountInv'
  <2>1. WsCounted' \subseteq WsCounted
    <3>1. p[1] \in WsClients /\ (p = WsHandler(p[1]) \/ p = WsWriter(p[1]))
      BY WsProcTypes
    <3>2. wsPc[WsHandler(p[1])] # "incr"
      BY <1>0, <1>4, <3>1, WsProcTypes DEF Unsubscribe, WsLockInv
    <3>3. CASE p[1] \in wsMap
      BY <1>0, <1>4, <3>1, <3>2, <3>3, WsProcTypes DEF Unsubscribe, WsCounted
    <3>4. CASE p[1] \notin wsMap
      BY <1>0, <1>4, <3>1, <3>4, WsProcTypes DEF Unsubscribe, WsCounted
    <3>. QED BY <3>3, <3>4
  <2>2. wsKey' = wsKey /\ \A q \in WsProcs : wsPc'[q] = "del" => wsPc[q] = "del"
    BY <1>0, <1>4 DEF Unsubscribe
  <2>. QED BY <1>k, <2>1, <2>2
<1>5. ASSUME NEW p \in WsProcs, Decr(p)
      PROVE  WsCountInv'
  <2>. DEFINE c == p[1]
              D == WsCounted \ {c}
  <2>1. /\ c \in WsClients /\ (p = WsHandler(c) \/ p = WsWriter(c))
        /\ wsPc[p] = "decr" /\ c \notin wsMap /\ wsMap' = wsMap
    BY <1>5, WsProcTypes DEF Decr, WsMapInv
  <2>2. /\ wsKey' = [wsKey EXCEPT !.exists = TRUE, !.count = @ - 1]
        /\ wsPc' = [wsPc EXCEPT ![p] = IF wsKey.count - 1 <= 0 THEN "del" ELSE "gone"]
    BY <1>0, <1>5, <1>f DEF Decr, WsClose
  <2>3. wsKey'.exists = TRUE /\ wsKey'.count = wsKey.count - 1
    BY <1>0, <2>2 DEF WsKeyTypes
  <2>4. c \in WsCounted
    BY <2>1 DEF WsCounted
  <2>5. WsCounted' \subseteq D
    <3>1. \A q \in WsProcs : wsPc'[q] = "decr" => wsPc[q] = "decr" /\ q # p
      BY <1>0, <2>2
    <3>2. \A q \in WsProcs : wsPc'[q] # "decr"
      BY <1>l, <2>1, <3>1
    <3>3. \A d \in WsClients : d \in WsCounted' => d \in wsMap /\ wsPc'[WsHandler(d)] # "incr"
      BY <2>1, <3>2, WsProcTypes DEF WsCounted
    <3>4. \A d \in WsClients : d # c => wsPc'[WsHandler(d)] = wsPc[WsHandler(d)]
      BY <1>0, <2>1, <2>2, WsProcTypes
    <3>. QED BY <2>1, <3>3, <3>4 DEF WsCounted
  <2>6. IsFiniteSet(WsCounted)
    BY WsClientsAssumption, FS_Subset DEF WsCounted
  <2>7. /\ Cardinality(D) = Cardinality(WsCounted) - 1 /\ Cardinality(WsCounted) \in Nat
        /\ IsFiniteSet(D) /\ Cardinality(D) \in Nat
    BY <2>4, <2>6, FS_RemoveElement, FS_CardinalityType
  <2>. HIDE DEF D
  <2>8. /\ Cardinality(WsCounted') <= Cardinality(D) /\ Cardinality(WsCounted') \in Nat
        /\ IsFiniteSet(WsCounted')
    BY <2>5, <2>7, FS_Subset, FS_CardinalityType
  <2>9. Cardinality(WsCounted) <= wsKey.count
    BY <1>f DEF WsCountInv
  <2>10. Cardinality(WsCounted') <= wsKey'.count
    BY <1>0, <2>3, <2>7, <2>8, <2>9
  <2>11. wsKey.count - 1 <= 0 => WsCounted' = {}
    <3>1. wsKey.count - 1 <= 0 => Cardinality(WsCounted') = 0
      BY <1>0, <2>3, <2>8, <2>10
    <3>. QED BY <2>8, <3>1, FS_EmptySet
  <2>12. \A q \in WsProcs : wsPc'[q] = "del" => WsCounted' = {}
    <3>1. ASSUME NEW q \in WsProcs, wsPc'[q] = "del"
          PROVE  WsCounted' = {}
      <4>1. CASE q = p
        BY <1>0, <2>2, <2>11, <3>1, <4>1
      <4>2. CASE q # p
        BY <1>0, <1>l, <2>1, <2>2, <3>1, <4>2
      <4>. QED BY <4>1, <4>2
    <3>. QED BY <3>1
  <2>. QED BY <2>3, <2>10, <2>12 DEF WsCountInv
<1>6. ASSUME NEW p \in WsProcs, DelKey(p)
      PROVE  WsCountInv'
  <2>1. /\ wsPc[p] = "del" /\ wsMap' = wsMap /\ wsPc' = [wsPc EXCEPT ![p] = "gone"]
        /\ wsKey' = WsAbsent
    BY <1>0, <1>6, <1>f DEF DelKey, WsClose
  <2>2. WsCounted = {}
    BY <1>f, <2>1 DEF WsCountInv
  <2>3. WsCounted' = {}
    <3>1. ASSUME NEW d \in WsClients, d \in WsCounted'
          PROVE  FALSE
      <4>1. d \notin WsCounted
        BY <2>2
      <4>2. \A q \in WsProcs : wsPc'[q] = wsPc[q] \/ q = p
        BY <1>0, <2>1
      <4>3. d \in wsMap /\ wsPc[WsHandler(d)] = "incr" /\ wsPc'[WsHandler(d)] # "incr"
        BY <1>0, <2>1, <3>1, <4>1, <4>2, WsProcTypes DEF WsCounted
      <4>4. p = WsHandler(d)
        BY <4>2, <4>3, WsProcTypes
      <4>. QED BY <2>1, <4>3, <4>4
    <3>. QED BY <3>1 DEF WsCounted
  <2>4. Cardinality({}) = 0
    BY FS_EmptySet
  <2>5. \A q \in WsProcs : wsPc'[q] = "del" => WsCounted' = {}
    BY <2>3
  <2>. QED BY <2>1, <2>3, <2>4, <2>5 DEF WsAbsent, WsCountInv
<1>7. CASE KeyExpires
  <2>1. /\ wsMap = {} /\ \A p \in WsProcs : wsPc[p] \notin {"decr", "del"}
        /\ wsKey' = WsAbsent /\ UNCHANGED <<wsMap, wsPc>>
    BY <1>7 DEF KeyExpires, WsOneServer
  <2>2. WsCounted' = {}
    BY <2>1, WsProcTypes DEF WsCounted
  <2>3. Cardinality({}) = 0
    BY FS_EmptySet
  <2>. QED BY <2>1, <2>2, <2>3 DEF WsAbsent, WsCountInv
<1>8. ASSUME NEW s \in WsServers, ServerDown(s)
      PROVE  WsCountInv'
  <2>1. WsCounted' \subseteq WsCounted
    BY <1>0, <1>8, WsProcTypes DEF ServerDown, WsCounted
  <2>2. wsKey' = wsKey /\ \A p \in WsProcs : wsPc'[p] = "del" => wsPc[p] = "del"
    BY <1>0, <1>8 DEF ServerDown
  <2>. QED BY <1>k, <2>1, <2>2
<1>9. CASE UNCHANGED <<wsKey, wsMap, wsPc>>
  <2>1. WsCounted' = WsCounted
    BY <1>9 DEF WsCounted
  <2>. QED BY <1>9, <1>k, <2>1
<1>10. \/ \E c \in WsClients : Subscribe(c) \/ Incr(c) \/ SetTtl(c) \/ SendFirst(c) \/ Ping(c) \/ WriterEnds(c)
       \/ \E p \in WsProcs : Unsubscribe(p) \/ Decr(p) \/ DelKey(p)
       \/ KeyExpires
       \/ \E s \in WsServers : ServerDown(s)
       \/ UNCHANGED <<wsKey, wsMap, wsPc>>
  BY DEF WsNext, WsEntering, WsCounting, Write, Update, Store, CheckKey, PublishUpdate, Push, wsVars
<1>. QED BY <1>1, <1>2, <1>3, <1>4, <1>5, <1>6, <1>7, <1>8, <1>9, <1>10

(* With the clients of a device on one server and Redis answering, a       *)
(* client that watches has its key, so the uplink publishes what it gets,  *)
(* through every subscription, disconnection and restart around it.        *)
THEOREM WatcherHasKey == ASSUME WsOneServer PROVE WsSpec => []WsFed
<1>. DEFINE Inv == WsMapInv /\ WsLockInv /\ WsCountInv
<1>1. WsInit => Inv
  <2>. SUFFICES ASSUME WsInit PROVE Inv
    OBVIOUS
  <2>1. WsMapInv /\ WsLockInv
    BY WsProcTypes DEF WsInit, WsMapInv, WsPushSafe, WsLockInv
  <2>2. WsCounted = {} /\ \A p \in WsProcs : wsPc[p] = "new"
    BY WsProcTypes DEF WsInit, WsCounted
  <2>3. Cardinality({}) = 0 /\ wsKey.count = 0
    BY FS_EmptySet DEF WsInit, WsAbsent
  <2>4. WsCountInv
    BY <2>2, <2>3 DEF WsCountInv
  <2>. QED BY <2>1, <2>4
<1>2. WsTypeOK /\ Inv /\ [WsNext]_wsVars => Inv'
  BY WsTypeParts, WsMapNext, WsLockNext, WsCountNext
<1>3. Inv => WsFed
  BY DEF WsCountInv, WsCounted, WsFed, WsWatching
<1>. QED BY <1>1, <1>2, <1>3, WsTypeCorrect, PTL DEF WsSpec

-----------------------------------------------------------------------------
(* All parts: a behaviour of MCServices is one of the part at work.        *)

LEMMA ServicesBegin ==
    ServicesInit =>
        /\ OtaInit /\ WsInit /\ EdInit /\ ScInit /\ AlInit /\ DsInit /\ BiInit /\ GtInit
        /\ part = "lifecycle" => LcInit
        /\ part \in {"ota", "ws", "lifecycle", "expected", "scenes", "alarms", "scripts", "bundles",
                     "gateways"}
BY DEF ServicesInit, LcInit

LEMMA ServicesStep ==
    [ServicesNext]_servicesVars =>
        /\ part' = part
        /\ part = "ota" => [OtaNext]_otaVars
        /\ part = "ws" => [WsNext]_wsVars
        /\ part = "lifecycle" => [LcNext]_lcVars
        /\ part = "expected" => [EdNext]_edVars
        /\ part = "scenes" => [ScNext]_scVars
        /\ part = "alarms" => [AlNext]_alVars
        /\ part = "scripts" => [DsNext]_dsVars
        /\ part = "bundles" => [BiNext]_biVars
        /\ part = "gateways" => [GtNext]_gtVars
<1>1. CASE ServicesNext
  BY <1>1, Zenon DEF ServicesNext
<1>2. CASE UNCHANGED servicesVars
  BY <1>2, Zenon DEF servicesVars
<1>. QED BY <1>1, <1>2

(* The variables of the part at work keep their kinds, whichever it is.    *)
THEOREM ServicesTypeCorrect == ServicesSafety => []ServicesTypeOK
<1>1. ServicesSafety => [](part = "ota" => OtaTypeOK)
  <2>1. ServicesInit /\ part = "ota" => OtaInit
    BY ServicesBegin
  <2>2. [ServicesNext]_servicesVars => ((part = "ota")' <=> part = "ota")
    BY ServicesStep
  <2>3. [ServicesNext]_servicesVars /\ part = "ota" => [OtaNext]_otaVars
    BY ServicesStep
  <2>. QED BY <2>1, <2>2, <2>3, OtaTypeCorrect, PTL DEF ServicesSafety, OtaSpec
<1>2. ServicesSafety => [](part = "ws" => WsTypeOK)
  <2>1. ServicesInit /\ part = "ws" => WsInit
    BY ServicesBegin
  <2>2. [ServicesNext]_servicesVars => ((part = "ws")' <=> part = "ws")
    BY ServicesStep
  <2>3. [ServicesNext]_servicesVars /\ part = "ws" => [WsNext]_wsVars
    BY ServicesStep
  <2>. QED BY <2>1, <2>2, <2>3, WsTypeCorrect, PTL DEF ServicesSafety, WsSpec
<1>3. ServicesSafety => [](part = "lifecycle" => LcTypeOK)
  <2>1. ServicesInit /\ part = "lifecycle" => LcInit
    BY ServicesBegin
  <2>2. [ServicesNext]_servicesVars => ((part = "lifecycle")' <=> part = "lifecycle")
    BY ServicesStep
  <2>3. [ServicesNext]_servicesVars /\ part = "lifecycle" => [LcNext]_lcVars
    BY ServicesStep
  <2>. QED BY <2>1, <2>2, <2>3, LcTypeCorrect, PTL DEF ServicesSafety, LcSpec
<1>4. ServicesSafety => [](part = "expected" => EdTypeOK)
  <2>1. ServicesInit /\ part = "expected" => EdInit
    BY ServicesBegin
  <2>2. [ServicesNext]_servicesVars => ((part = "expected")' <=> part = "expected")
    BY ServicesStep
  <2>3. [ServicesNext]_servicesVars /\ part = "expected" => [EdNext]_edVars
    BY ServicesStep
  <2>. QED BY <2>1, <2>2, <2>3, EdTypeCorrect, PTL DEF ServicesSafety, EdSpec
<1>5. ServicesSafety => [](part = "scenes" => ScTypeOK)
  <2>1. ServicesInit /\ part = "scenes" => ScInit
    BY ServicesBegin
  <2>2. [ServicesNext]_servicesVars => ((part = "scenes")' <=> part = "scenes")
    BY ServicesStep
  <2>3. [ServicesNext]_servicesVars /\ part = "scenes" => [ScNext]_scVars
    BY ServicesStep
  <2>. QED BY <2>1, <2>2, <2>3, ScTypeCorrect, PTL DEF ServicesSafety, ScSpec
<1>6. ServicesSafety => [](part = "alarms" => AlTypeOK)
  <2>1. ServicesInit /\ part = "alarms" => AlInit
    BY ServicesBegin
  <2>2. [ServicesNext]_servicesVars => ((part = "alarms")' <=> part = "alarms")
    BY ServicesStep
  <2>3. [ServicesNext]_servicesVars /\ part = "alarms" => [AlNext]_alVars
    BY ServicesStep
  <2>. QED BY <2>1, <2>2, <2>3, AlTypeCorrect, PTL DEF ServicesSafety, AlSpec
<1>7. ServicesSafety => [](part = "scripts" => DsTypeOK)
  <2>1. ServicesInit /\ part = "scripts" => DsInit
    BY ServicesBegin
  <2>2. [ServicesNext]_servicesVars => ((part = "scripts")' <=> part = "scripts")
    BY ServicesStep
  <2>3. [ServicesNext]_servicesVars /\ part = "scripts" => [DsNext]_dsVars
    BY ServicesStep
  <2>. QED BY <2>1, <2>2, <2>3, DsTypeCorrect, PTL DEF ServicesSafety, DsSpec
<1>8. ServicesSafety => [](part = "bundles" => BiTypeOK)
  <2>1. ServicesInit /\ part = "bundles" => BiInit
    BY ServicesBegin
  <2>2. [ServicesNext]_servicesVars => ((part = "bundles")' <=> part = "bundles")
    BY ServicesStep
  <2>3. [ServicesNext]_servicesVars /\ part = "bundles" => [BiNext]_biVars
    BY ServicesStep
  <2>. QED BY <2>1, <2>2, <2>3, BundleTypeCorrect, PTL DEF ServicesSafety, BiSpec
<1>9. ServicesSafety => [](part = "gateways" => GtTypeOK)
  <2>1. ServicesInit /\ part = "gateways" => GtInit
    BY ServicesBegin
  <2>2. [ServicesNext]_servicesVars => ((part = "gateways")' <=> part = "gateways")
    BY ServicesStep
  <2>3. [ServicesNext]_servicesVars /\ part = "gateways" => [GtNext]_gtVars
    BY ServicesStep
  <2>. QED BY <2>1, <2>2, <2>3, GtTypeCorrect, PTL DEF ServicesSafety, GtSpec
<1>10. /\ part = "ota" => OtaTypeOK
       /\ part = "ws" => WsTypeOK
       /\ part = "lifecycle" => LcTypeOK
       /\ part = "expected" => EdTypeOK
       /\ part = "scenes" => ScTypeOK
       /\ part = "alarms" => AlTypeOK
       /\ part = "scripts" => DsTypeOK
       /\ part = "bundles" => BiTypeOK
       /\ part = "gateways" => GtTypeOK
       => ServicesTypeOK
  BY DEF ServicesTypeOK
<1>. QED BY <1>1, <1>2, <1>3, <1>4, <1>5, <1>6, <1>7, <1>8, <1>9, <1>10, PTL
=============================================================================
