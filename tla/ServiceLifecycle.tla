-------------------------- MODULE ServiceLifecycle --------------------------
(***************************************************************************)
(* Start and stop of the process: main, the ServiceManager with its        *)
(* WaitGroup, and the uplink bus, which the MQTT callbacks go on using     *)
(* while it is closed.                                                     *)
(*                                                                         *)
(* main waits for the WaitGroup before it calls Shutdown, and only         *)
(* Shutdown decrements it.  LcWaitFirst = FALSE is the program that calls  *)
(* Application.Shutdown without waiting: the stop itself is checked there. *)
(***************************************************************************)
EXTENDS Integers, Sequences, FiniteSets

CONSTANTS
    LcOrder,        \* the services in the order of their registration
    LcHanging,      \* services whose Stop may not return
    LcCallbacks,    \* MQTT callbacks that may run at the same time
    LcBusSize,      \* capacity of a channel of the bus
    LcMaxMessages,  \* bound: messages of the devices
    LcWaitFirst     \* does main wait for the services before it shuts down?

LcServices == {LcOrder[i] : i \in 1..Len(LcOrder)}
LcTypes    == {"telemetry", "status"}

(* The services are a slice, in the order of their registration.           *)
ASSUME LcOrderAssumption == LcOrder \in Seq(LcServices)

ASSUME LcAssumption ==
    /\ \A i, j \in 1..Len(LcOrder) : LcOrder[i] = LcOrder[j] => i = j
    /\ {"uplink", "mqtt"} \subseteq LcServices /\ LcHanging \subseteq LcServices
    /\ LcBusSize \in Nat \ {0} /\ LcMaxMessages \in Nat
    /\ LcWaitFirst \in BOOLEAN

VARIABLES
    lcMain,      \* where main is
    lcWg,        \* counter of the WaitGroup
    lcNext,      \* index of the service that is started or stopped next
    lcService,   \* what has become of each service
    lcTimeUp,    \* the thirty seconds of StopAll are over
    lcBus,       \* the channels of the bus
    lcClosed,    \* the bus is closed
    lcLoop,      \* the goroutine of each uplink
    lcCallback,  \* what each MQTT callback does
    lcSent, lcHandled,  \* messages published and handled so far
    lcPanic      \* the process has ended by a panic

lcStopping == <<lcNext, lcService, lcTimeUp, lcWg>>
lcTraffic  == <<lcBus, lcLoop, lcCallback, lcSent, lcHandled>>
lcVars     == <<lcMain, lcStopping, lcTraffic, lcClosed, lcPanic>>

(* main is at its start; `ended' is for who has no use for the services.   *)
LcInitAt(main) ==
    /\ lcMain = main /\ lcWg = 0 /\ lcNext = 1 /\ lcTimeUp = FALSE
    /\ lcService = [s \in LcServices |-> "new"]
    /\ lcBus = [t \in LcTypes |-> <<>>] /\ lcClosed = FALSE
    /\ lcLoop = [t \in LcTypes |-> "off"]
    /\ lcCallback = [b \in LcCallbacks |-> [step |-> "idle", type |-> "status"]]
    /\ lcSent = [t \in LcTypes |-> 0] /\ lcHandled = [t \in LcTypes |-> 0]
    /\ lcPanic = FALSE
LcInit == LcInitAt("starting")

-----------------------------------------------------------------------------
(* ServiceManager.                                                         *)

(* StartAll, one service; UplinkManager.Start starts the loops.  A failing *)
(* Start ends the process (logrus.Fatalf).                                 *)
StartService ==
    /\ lcMain = "starting" /\ lcNext <= Len(LcOrder)
    /\ \/ /\ lcService' = [lcService EXCEPT ![LcOrder[lcNext]] = "started"]
          /\ lcLoop' = IF LcOrder[lcNext] = "uplink" THEN [t \in LcTypes |-> "on"] ELSE lcLoop
          /\ lcWg' = lcWg + 1 /\ lcNext' = lcNext + 1
          /\ UNCHANGED lcMain
       \/ lcMain' = "failed" /\ UNCHANGED <<lcService, lcLoop, lcWg, lcNext>>
    /\ UNCHANGED <<lcTimeUp, lcBus, lcCallback, lcSent, lcHandled, lcClosed, lcPanic>>

(* main: Application.Wait, then the deferred Shutdown.                     *)
Wait ==
    /\ lcMain = "starting" /\ lcNext > Len(LcOrder)
    /\ LcWaitFirst => lcWg = 0
    /\ lcMain' = "stopping" /\ lcNext' = Len(LcOrder)
    /\ UNCHANGED <<lcService, lcTimeUp, lcWg, lcTraffic, lcClosed, lcPanic>>

LcReturned == \A s \in LcServices : lcService[s] # "stopping"

(* Mutant: StopAll waits for each service without a timeout.               *)
StopNextPatient ==
    /\ lcMain = "stopping" /\ lcNext >= 1
    /\ LcReturned
    /\ lcService' = [lcService EXCEPT ![LcOrder[lcNext]] = "stopping"]
    /\ lcNext' = lcNext - 1
    /\ UNCHANGED <<lcMain, lcTimeUp, lcWg, lcTraffic, lcClosed, lcPanic>>

(* StopAll, last service first: the one before has returned, or the time   *)
(* for all of them together is up.                                         *)
StopNext ==
    /\ lcMain = "stopping" /\ lcNext >= 1
    /\ LcReturned \/ lcTimeUp
    /\ lcService' = [lcService EXCEPT ![LcOrder[lcNext]] = "stopping"]
    /\ lcNext' = lcNext - 1
    /\ UNCHANGED <<lcMain, lcTimeUp, lcWg, lcTraffic, lcClosed, lcPanic>>

(* Mutant: a service is counted as stopped more than once.                 *)
StopReturnsTwice(s) ==
    /\ lcService[s] \in {"stopping", "stopped"} /\ s # "uplink"
    /\ lcService' = [lcService EXCEPT ![s] = "stopped"]
    /\ lcWg' = lcWg - 1
    /\ UNCHANGED <<lcMain, lcNext, lcTimeUp, lcTraffic, lcClosed, lcPanic>>

(* Stop of a service returns, and the WaitGroup counts it.  What the stop  *)
(* of the storage does is in TelemetryStorage; the one of the MQTT service *)
(* leaves the client connected.                                            *)
StopReturns(s) ==
    /\ lcService[s] = "stopping" /\ s # "uplink"
    /\ lcService' = [lcService EXCEPT ![s] = "stopped"]
    /\ lcWg' = lcWg - 1
    /\ UNCHANGED <<lcMain, lcNext, lcTimeUp, lcTraffic, lcClosed, lcPanic>>

TimeUp ==
    /\ lcMain = "stopping" /\ ~lcTimeUp
    /\ lcTimeUp' = TRUE
    /\ UNCHANGED <<lcMain, lcNext, lcService, lcWg, lcTraffic, lcClosed, lcPanic>>

(* StopAll is done: Redis is closed and main returns.                      *)
Shutdown ==
    /\ lcMain = "stopping" /\ lcNext = 0
    /\ LcReturned \/ lcTimeUp
    /\ lcMain' = "ended"
    /\ UNCHANGED <<lcStopping, lcTraffic, lcClosed, lcPanic>>

-----------------------------------------------------------------------------
(* The uplinks and their bus.                                              *)

(* UplinkManager.Stop cancels the loops of telemetry, attributes, events   *)
(* and responses, not the one of status messages (a TODO says so).         *)
CancelUplinks ==
    /\ lcService["uplink"] = "stopping" /\ lcLoop["telemetry"] = "on"
    /\ lcLoop' = [lcLoop EXCEPT !["telemetry"] = "cancelled"]
    /\ UNCHANGED <<lcMain, lcStopping, lcBus, lcCallback, lcSent, lcHandled, lcClosed, lcPanic>>

(* Bus.Close: a callback that is blocked in a send panics.                 *)
CloseBus ==
    /\ lcService["uplink"] = "stopping" /\ lcLoop["telemetry"] # "on" /\ ~lcClosed
    /\ lcClosed' = TRUE
    /\ lcPanic' = \E b \in LcCallbacks : lcCallback[b].step = "blocked"
    /\ UNCHANGED <<lcMain, lcStopping, lcTraffic>>

(* A hundred milliseconds later the manager says that it has stopped.      *)
UplinkStopped ==
    /\ lcService["uplink"] = "stopping" /\ lcClosed
    /\ lcService' = [lcService EXCEPT !["uplink"] = "stopped"]
    /\ lcWg' = lcWg - 1
    /\ UNCHANGED <<lcMain, lcNext, lcTimeUp, lcTraffic, lcClosed, lcPanic>>

(* A message of a device: Publish looks at the flag under the read lock.   *)
PublishCheck(b, t) ==
    /\ lcService["mqtt"] # "new"
    /\ lcCallback[b].step = "idle"
    /\ lcSent["telemetry"] + lcSent["status"]
         + Cardinality({o \in LcCallbacks : lcCallback[o].step # "idle"}) < LcMaxMessages
    /\ ~lcClosed
    /\ lcCallback' = [lcCallback EXCEPT ![b] = [step |-> "send", type |-> t]]
    /\ UNCHANGED <<lcMain, lcStopping, lcBus, lcLoop, lcSent, lcHandled, lcClosed, lcPanic>>

(* Mutant: a full channel drops the message, as PublishResponse does.      *)
PublishSendOrDrop(b) ==
    LET t == lcCallback[b].type IN
    /\ lcCallback[b].step = "send" /\ ~lcClosed
    /\ lcBus' = IF Len(lcBus[t]) < LcBusSize
                  THEN [lcBus EXCEPT ![t] = Append(@, lcSent[t] + 1)] ELSE lcBus
    /\ lcSent' = [lcSent EXCEPT ![t] = @ + 1]
    /\ lcCallback' = [lcCallback EXCEPT ![b].step = "idle"]
    /\ UNCHANGED <<lcMain, lcStopping, lcLoop, lcHandled, lcClosed, lcPanic>>

(* Then it sends, without the lock: at once, or blocking while the channel *)
(* is full; a send on a closed channel panics.                             *)
PublishSend(b) ==
    LET t == lcCallback[b].type IN
    /\ lcCallback[b].step \in {"send", "blocked"}
    /\ IF lcClosed
         THEN lcPanic' = TRUE /\ UNCHANGED <<lcBus, lcCallback, lcSent>>
         ELSE /\ IF Len(lcBus[t]) < LcBusSize
                   THEN /\ lcBus' = [lcBus EXCEPT ![t] = Append(@, lcSent[t] + 1)]
                        /\ lcSent' = [lcSent EXCEPT ![t] = @ + 1]
                        /\ lcCallback' = [lcCallback EXCEPT ![b].step = "idle"]
                   ELSE /\ lcCallback[b].step = "send"
                        /\ lcCallback' = [lcCallback EXCEPT ![b].step = "blocked"]
                        /\ UNCHANGED <<lcBus, lcSent>>
              /\ UNCHANGED lcPanic
    /\ UNCHANGED <<lcMain, lcStopping, lcLoop, lcHandled, lcClosed>>

(* The loop of an uplink; select takes either case when both are ready.    *)
Handle(t) ==
    /\ lcLoop[t] \in {"on", "cancelled"} /\ lcBus[t] # <<>>
    /\ lcHandled' = [lcHandled EXCEPT ![t] = Head(lcBus[t])]
    /\ lcBus' = [lcBus EXCEPT ![t] = Tail(@)]
    /\ UNCHANGED <<lcMain, lcStopping, lcLoop, lcCallback, lcSent, lcClosed, lcPanic>>

(* It ends by its context or by the closed channel; the status loop takes  *)
(* the closed channel for a nil message, skips it and never ends.          *)
LoopEnds(t) ==
    /\ \/ lcLoop[t] = "cancelled"
       \/ lcLoop[t] = "on" /\ lcClosed /\ lcBus[t] = <<>>
    /\ lcLoop' = [lcLoop EXCEPT ![t] = IF t = "status" THEN "spinning" ELSE "off"]
    /\ UNCHANGED <<lcMain, lcStopping, lcBus, lcCallback, lcSent, lcHandled, lcClosed, lcPanic>>

LcStopStep ==
    StopNext \/ TimeUp \/ Shutdown \/ CancelUplinks \/ CloseBus \/ UplinkStopped

LcNext ==
    /\ lcMain \notin {"failed", "ended"} /\ ~lcPanic
    /\ \/ StartService \/ Wait \/ LcStopStep
       \/ \E s \in LcServices : StopReturns(s)
       \/ \E b \in LcCallbacks : (\E t \in LcTypes : PublishCheck(b, t)) \/ PublishSend(b)
       \/ \E t \in LcTypes : Handle(t) \/ LoopEnds(t)

LcSpec == LcInit /\ [][LcNext]_lcVars

(* The stop goes on, and so does the Stop of each service that does not    *)
(* hang; the loops of the uplinks run.  A main that waits goes on when the *)
(* wait is over; one that does not may run as long as it likes.            *)
LcAlive(A) == lcMain \notin {"failed", "ended"} /\ ~lcPanic /\ A
LcFairness ==
    /\ WF_lcVars(LcAlive(StartService)) /\ WF_lcVars(LcAlive(LcWaitFirst /\ Wait))
    /\ WF_lcVars(LcAlive(LcStopStep))
    /\ \A s \in LcServices \ LcHanging : WF_lcVars(LcAlive(StopReturns(s)))
    /\ \A t \in LcTypes : WF_lcVars(LcAlive(Handle(t) \/ LoopEnds(t)))
    /\ \A b \in LcCallbacks : WF_lcVars(LcAlive(PublishSend(b)))

-----------------------------------------------------------------------------
(* Properties.                                                             *)

(* Every variable has its kind.                                            *)
LcTypeOK ==
    /\ lcMain \in {"starting", "stopping", "ended", "failed"}
    /\ lcWg \in 0..Len(LcOrder) /\ lcNext \in 0..Len(LcOrder) + 1
    /\ lcService \in [LcServices -> {"new", "started", "stopping", "stopped"}]
    /\ lcTimeUp \in BOOLEAN /\ lcClosed \in BOOLEAN /\ lcPanic \in BOOLEAN
    /\ lcBus \in [LcTypes -> Seq(1..LcMaxMessages)]
    /\ lcLoop \in [LcTypes -> {"off", "on", "cancelled", "spinning"}]
    /\ lcCallback \in [LcCallbacks -> [step : {"idle", "send", "blocked"}, type : LcTypes]]
    /\ lcSent \in [LcTypes -> 0..LcMaxMessages] /\ lcHandled \in [LcTypes -> 0..LcMaxMessages]

(* Nothing that Publish has accepted is lost or handled out of order while *)
(* the uplinks run, also when the channel was full: what is on the bus are *)
(* the numbers between the last one handled and the last one sent.         *)
LcBackpressure ==
    \A t \in LcTypes :
        /\ lcHandled[t] + Len(lcBus[t]) = lcSent[t]
        /\ \A i \in 1..Len(lcBus[t]) : lcBus[t][i] = lcHandled[t] + i
        /\ Len(lcBus[t]) <= LcBusSize

(* A shutdown ends, although a service hangs: the time is limited for all  *)
(* of them together.                                                       *)
LcShutdownEnds == lcMain = "stopping" ~> (lcMain = "ended" \/ lcPanic)

(* main.go: "when the application closes, Shutdown is called to clean up". *)
LcShutsDown == (lcMain = "starting" /\ lcNext > Len(LcOrder)) ~> (lcMain # "starting" \/ lcPanic)

(* A callback never sends on the closed bus.                               *)
LcNoSendOnClosed == ~lcPanic

(* When StopAll is done, no uplink goroutine is left.                      *)
LcQuiet == lcMain = "ended" /\ ~lcTimeUp => \A t \in LcTypes : lcLoop[t] # "spinning"
=============================================================================
