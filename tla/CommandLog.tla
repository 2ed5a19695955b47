----------------------------- MODULE CommandLog -----------------------------
(***************************************************************************)
(* Commands (or attribute settings: the same code with tables and channels *)
(* of its own) on their way to a device, and the log row of each one:      *)
(*                                                                         *)
(*   API call: insert a pending row, put the command on the downlink bus   *)
(*   downlink handler: take, encode, publish, read the row, save the row   *)
(*   device: receives what was published, answers                          *)
(*   MQTT callback: puts the answer on the response channel, if it fits    *)
(*   ResponseUplink: writes the answer into the row                        *)
(*                                                                         *)
(* The bus and the response channel are memory: a crash empties them.      *)
(***************************************************************************)
EXTENDS Integers, Sequences, SequencesExt

CONSTANTS
    Commands,    \* message_ids of the commands to send
    BusCap,      \* capacity of the channel of the downlink bus
    RespCap,     \* capacity of the response channel of the uplink bus
    MaxAnswers,  \* bound: answers of the device to each command
    MaxFaults,   \* bound: database statements that fail
    MaxCrashes   \* bound: crashes of the server

ASSUME CommandAssumption ==
    /\ {BusCap, RespCap} \subseteq Nat \ {0}
    /\ {MaxAnswers, MaxFaults, MaxCrashes} \subseteq Nat

VARIABLES
    log,        \* the row of each command
    caller,     \* where the API call of each command is
    bus,        \* commandChan of the downlink bus
    handler,    \* where the downlink handler is
    current,    \* the command it handles
    verdict,    \* the status it is about to save
    row,        \* the row it has read
    wire,       \* commands the MQTT client was given to send
    answers,    \* answers the device has given, for each command
    responses,  \* the response channel
    faults, crashes,
    accepted,   \* commands in the order they went on the bus
    published,  \* commands in the order they were given to the MQTT client
    lost        \* answers that did not fit

vars == <<log, caller, bus, handler, current, verdict, row, wire, answers, responses, faults, crashes,
          accepted, published, lost>>

apiVars     == <<caller, accepted>>
handlerVars == <<handler, current, verdict, row>>
deviceVars  == <<answers, responses, lost>>
sendVars    == <<wire, published>>
boundVars   == <<faults, crashes>>

Pending  == "0"
Sent     == "1"
Failed   == "2"
Success  == "3"
Refused  == "4"
Statuses == {Pending, Sent, Failed, Success, Refused}
Errors   == {"none", "send", "device"}
NoRow    == [status |-> "none", error |-> "none"]
Row      == [status : Statuses, error : Errors]
Answer   == [id : Commands, success : BOOLEAN]

Init ==
    /\ log = [c \in Commands |-> NoRow]
    /\ caller = [c \in Commands |-> "start"]
    /\ bus = <<>> /\ handler = "idle" /\ current \in Commands /\ verdict = Sent /\ row = NoRow
    /\ wire = {} /\ answers = [c \in Commands |-> <<>>] /\ responses = <<>>
    /\ faults = 0 /\ crashes = 0
    /\ accepted = <<>> /\ published = <<>> /\ lost = {}

Fault == faults < MaxFaults /\ faults' = faults + 1

-----------------------------------------------------------------------------
(* CommandPutMessage.                                                      *)

(* The pending row; when the insert fails the command is sent all the same. *)
CreateLog(c) ==
    /\ caller[c] = "start"
    /\ caller' = [caller EXCEPT ![c] = "put"]
    /\ \/ log' = [log EXCEPT ![c] = [status |-> Pending, error |-> "none"]] /\ UNCHANGED faults
       \/ Fault /\ UNCHANGED log
    /\ UNCHANGED <<bus, handlerVars, deviceVars, sendVars, crashes, accepted>>

(* Mutant: a full channel is not waited for.                               *)
PutOnBusOrDrop(c) ==
    /\ caller[c] = "put"
    /\ caller' = [caller EXCEPT ![c] = "done"]
    /\ IF Len(bus) < BusCap
         THEN bus' = Append(bus, c) /\ accepted' = Append(accepted, c)
         ELSE UNCHANGED <<bus, accepted>>
    /\ UNCHANGED <<log, handlerVars, deviceVars, sendVars, boundVars>>

(* Mutant: the channel has no capacity.                                    *)
PutOnBusAnyway(c) ==
    /\ caller[c] = "put"
    /\ bus' = Append(bus, c)
    /\ accepted' = Append(accepted, c)
    /\ caller' = [caller EXCEPT ![c] = "done"]
    /\ UNCHANGED <<log, handlerVars, deviceVars, sendVars, boundVars>>

(* PublishCommand waits while the channel is full.                         *)
PutOnBus(c) ==
    /\ caller[c] = "put"
    /\ Len(bus) < BusCap
    /\ bus' = Append(bus, c)
    /\ accepted' = Append(accepted, c)
    /\ caller' = [caller EXCEPT ![c] = "done"]
    /\ UNCHANGED <<log, handlerVars, deviceVars, sendVars, boundVars>>

-----------------------------------------------------------------------------
(* Handler.handle, by the one goroutine that reads the channel.            *)

Take ==
    /\ handler = "idle"
    /\ bus # <<>>
    /\ current' = Head(bus)
    /\ bus' = Tail(bus)
    /\ handler' = "encode"
    /\ UNCHANGED <<log, apiVars, verdict, row, deviceVars, sendVars, boundVars>>

Decide(status) == handler' = "read" /\ verdict' = status

(* The script of the device configuration, if there is one.                *)
Encode ==
    /\ handler = "encode"
    /\ \/ handler' = "publish" /\ UNCHANGED verdict
       \/ Decide(Failed)
    /\ UNCHANGED <<log, apiVars, bus, current, row, deviceVars, sendVars, boundVars>>

(* Mutant: a refused message is tried again, also one that was taken.      *)
PublishRetry ==
    /\ handler = "publish"
    /\ published' = Append(published, current)
    /\ wire' = wire \cup {current}
    /\ \/ handler' = "wait"
       \/ handler' = "publish" /\ current \notin wire
    /\ UNCHANGED <<log, apiVars, bus, current, verdict, row, deviceVars, boundVars>>

(* The MQTT client takes the message, or refuses it (not connected).       *)
Publish ==
    /\ handler = "publish"
    /\ \/ /\ published' = Append(published, current)
          /\ wire' = wire \cup {current}
          /\ handler' = "wait" /\ UNCHANGED verdict
       \/ Decide(Failed) /\ UNCHANGED sendVars
    /\ UNCHANGED <<log, apiVars, bus, current, row, deviceVars, boundVars>>

(* The token: acknowledged by the broker, or not within five seconds; the  *)
(* client keeps a message that was not acknowledged.                       *)
AwaitToken ==
    /\ handler = "wait"
    /\ Decide(Sent) \/ Decide(Failed)
    /\ UNCHANGED <<log, apiVars, bus, current, row, deviceVars, sendVars, boundVars>>

(* GetCommandSetLogByMessageID; without a row the update ends.             *)
ReadLog ==
    /\ handler = "read"
    /\ \/ log[current] # NoRow /\ row' = log[current] /\ handler' = "save" /\ UNCHANGED faults
       \/ log[current] = NoRow /\ handler' = "idle" /\ UNCHANGED <<row, faults>>
       \/ Fault /\ handler' = "idle" /\ UNCHANGED row
    /\ UNCHANGED <<log, apiVars, bus, current, verdict, deviceVars, sendVars, crashes>>

(* Mutant: the row of the command at the head of the channel is saved.     *)
SaveNextLog ==
    LET id == IF bus = <<>> THEN current ELSE Head(bus) IN
    /\ handler = "save"
    /\ handler' = "idle"
    /\ log' = [log EXCEPT ![id] = [status |-> verdict,
                                   error  |-> IF verdict = Failed THEN "send" ELSE row.error]]
    /\ UNCHANGED <<apiVars, bus, current, verdict, row, deviceVars, sendVars, boundVars>>

(* UpdateCommandSetLog saves the whole row as it was read.                 *)
SaveLog ==
    /\ handler = "save"
    /\ handler' = "idle"
    /\ \/ /\ log' = [log EXCEPT ![current] =
                [status |-> verdict, error |-> IF verdict = Failed THEN "send" ELSE row.error]]
          /\ UNCHANGED faults
       \/ Fault /\ UNCHANGED log
    /\ UNCHANGED <<apiVars, bus, current, verdict, row, deviceVars, sendVars, crashes>>

-----------------------------------------------------------------------------
(* The answer of the device.                                               *)

(* The device answers what it received, maybe more than once (QoS 1); the  *)
(* MQTT callback does not wait for room in the response channel.           *)
DeviceAnswer(c, success) ==
    LET answer == [id |-> c, success |-> success] IN
    /\ c \in wire
    /\ Len(answers[c]) < MaxAnswers
    /\ answers' = [answers EXCEPT ![c] = Append(@, success)]
    /\ IF Len(responses) < RespCap
         THEN responses' = Append(responses, answer) /\ UNCHANGED lost
         ELSE lost' = lost \cup {answer} /\ UNCHANGED responses
    /\ UNCHANGED <<log, apiVars, bus, handlerVars, sendVars, boundVars>>

(* Mutant: what cannot be parsed counts as a success.                      *)
OutcomeAlways(success) == [status |-> Success, error |-> "none"]

(* parseResponse and the two columns updateCommandLog writes.              *)
Outcome(success) ==
    IF success THEN [status |-> Success, error |-> "none"]
               ELSE [status |-> Refused, error |-> "device"]

(* One UPDATE ... WHERE message_id; no row is no error.                    *)
WriteAnswer ==
    LET answer == Head(responses) IN
    /\ responses # <<>>
    /\ responses' = Tail(responses)
    /\ \/ /\ log[answer.id] # NoRow
          /\ log' = [log EXCEPT ![answer.id] = Outcome(answer.success)]
          /\ UNCHANGED faults
       \/ log[answer.id] = NoRow /\ UNCHANGED <<log, faults>>
       \/ Fault /\ UNCHANGED log
    /\ UNCHANGED <<apiVars, bus, handlerVars, answers, lost, sendVars, crashes>>

-----------------------------------------------------------------------------

(* The server restarts; rows and what the broker has remain.               *)
Crash ==
    /\ crashes < MaxCrashes
    /\ crashes' = crashes + 1
    /\ caller' = [c \in Commands |-> IF caller[c] = "put" THEN "done" ELSE caller[c]]
    /\ bus' = <<>>
    /\ handler' = "idle"
    /\ responses' = <<>>
    /\ lost' = lost \cup ToSet(responses)
    /\ UNCHANGED <<log, current, verdict, row, answers, sendVars, faults, accepted>>

ApiCall(c) == CreateLog(c) \/ PutOnBus(c)

Handle == Take \/ Encode \/ Publish \/ AwaitToken \/ ReadLog \/ SaveLog

Next ==
    \/ \E c \in Commands : ApiCall(c)
    \/ Handle
    \/ \E c \in Commands, success \in BOOLEAN : DeviceAnswer(c, success)
    \/ WriteAnswer
    \/ Crash

Spec == Init /\ [][Next]_vars

(* API calls, the handler and ResponseUplink go on with their work; the    *)
(* device need not answer.                                                 *)
FairSpec ==
    /\ Spec
    /\ \A c \in Commands : WF_vars(ApiCall(c))
    /\ WF_vars(Handle)
    /\ WF_vars(WriteAnswer)

-----------------------------------------------------------------------------
(* Properties.                                                             *)

(* Rows, answers and places are of their kinds and the channels within     *)
(* their capacity.                                                         *)
TypeOK ==
    /\ log \in [Commands -> Row \cup {NoRow}]
    /\ caller \in [Commands -> {"start", "put", "done"}]
    /\ bus \in Seq(Commands) /\ Len(bus) <= BusCap
    /\ handler \in {"idle", "encode", "publish", "wait", "read", "save"}
    /\ current \in Commands
    /\ verdict \in {Sent, Failed}
    /\ row \in Row \cup {NoRow}
    /\ wire \subseteq Commands
    /\ answers \in [Commands -> Seq(BOOLEAN)]
    /\ responses \in Seq(Answer) /\ Len(responses) <= RespCap
    /\ faults \in 0..MaxFaults /\ crashes \in 0..MaxCrashes
    /\ accepted \in Seq(Commands) /\ published \in Seq(Commands)
    /\ lost \subseteq Answer

Answered(c, success) == \E i \in 1..Len(answers[c]) : answers[c][i] = success

(* The log speaks the truth about the device: success is logged only if    *)
(* the device reported success for this command, failure only if it        *)
(* reported failure, and sent only if the MQTT client was given it.        *)
LogIsTrue ==
    \A c \in Commands :
        /\ log[c].status = Success => Answered(c, TRUE)
        /\ log[c].status = Refused => Answered(c, FALSE)
        /\ log[c].status = Sent => c \in wire

(* A command is given to the MQTT client at most once, and commands go out *)
(* in the order in which the calls put them on the bus.                    *)
PublishedInOrder ==
    /\ \A i, j \in 1..Len(published) : published[i] = published[j] => i = j
    /\ \A i, j \in 1..Len(published) : i < j =>
          \E k, l \in 1..Len(accepted) :
             k < l /\ accepted[k] = published[i] /\ accepted[l] = published[j]

(* Somebody still has to deal with the command.                            *)
UnderWay(c) ==
    \/ caller[c] = "put"
    \/ \E i \in 1..Len(bus) : bus[i] = c
    \/ handler # "idle" /\ current = c

Calm == faults = 0 /\ crashes = 0

(* No pending row is forgotten, whatever fails.                            *)
NoneForgotten == \A c \in Commands : log[c].status = Pending => UnderWay(c)

(* As long as no statement has failed and nothing has crashed, a pending   *)
(* row has its command on the way: waiting in an API call, on the bus or   *)
(* with the handler.                                                       *)
PendingIsUnderWay == Calm => NoneForgotten

(* No command stays pending, unless a statement fails or the server        *)
(* crashes.                                                                *)
EventuallyDecided ==
    \A c \in Commands : (log[c].status = Pending) ~> (log[c].status # Pending \/ ~Calm)

(* The answer of the device is the last word: once it is in the log the    *)
(* row does not go back to sent or failed.                                 *)
AnswerStays ==
    [][\A c \in Commands :
         log[c].status \in {Success, Refused} => log'[c].status \in {Success, Refused}]_vars

(* Every answer of a device reaches ResponseUplink.                        *)
NoAnswerLost == lost = {}
=============================================================================
