---------------------------- MODULE DeviceStatus ----------------------------
(***************************************************************************)
(* The online state of one device: the row in the database, the copy of it *)
(* in Redis, the Redis key whose expiry stands for silence, and the        *)
(* goroutines that read and write them.                                    *)
(*                                                                         *)
(*   uplinks   handle business messages: one goroutine for each kind       *)
(*   handlers  MQTT callbacks that take the device's own status messages;  *)
(*             the client runs each in a goroutine (SetOrderMatters(false)) *)
(*   "status"  the StatusUplink goroutine, which applies status messages   *)
(*   monitor   turns expired keys into offline messages                    *)
(*                                                                         *)
(* Every access to the database or to Redis is a step of its own.          *)
(***************************************************************************)
EXTENDS Integers, Sequences, FiniteSets

CONSTANTS
    Uplinks,      \* of "telemetry", "attribute", "event": those in use
    Handlers,     \* MQTT callbacks that may run at the same time
    Modes,        \* the modes the device configuration may start in
    MayMiss,      \* the monitor may be away when a key expires
    MaxBusiness,  \* bound: business messages
    MaxStatus,    \* bound: status messages of the device
    MaxMessages,  \* bound: messages of both kinds together
    MaxFaults,    \* bound: database and Redis calls that fail
    MaxConfigs    \* bound: changes of the device configuration

AllModes == {"message", "heartbeat", "timeout"}

ASSUME StatusAssumption ==
    /\ Modes \subseteq AllModes
    /\ Handlers \cap Uplinks = {}
    /\ "status" \notin Handlers \cup Uplinks
    /\ MayMiss \in BOOLEAN
    /\ {MaxBusiness, MaxStatus, MaxMessages, MaxFaults, MaxConfigs} \subseteq Nat

(* At most three kinds of messages have an uplink.                         *)
ASSUME UplinksAssumption == IsFiniteSet(Uplinks)

VARIABLES
    mode,       \* other_config of the device configuration
    online,     \* devices.is_online
    cache,      \* is_online of the copy in Redis, or None
    keys,       \* the keys device:{id}:heartbeat and device:{id}:timeout that exist
    expired,    \* expiry events on their way to the monitor
    statusChan, \* the status channel of the bus
    pc,         \* where each goroutine is
    snap,       \* is_online as each goroutine has read it
    conf,       \* the mode as each goroutine has read it
    msg,        \* the status message a handler or the StatusUplink holds
    business, statuses, faults, configs,   \* counters of the bounds
    ups,        \* how often the row went from offline to online
    notices,    \* how often clients were told that the device is online
    lastSent,   \* the last status the device sent
    lastPut,    \* the last status put on the bus
    raced       \* uplinks whose message met another goroutine at work

proc   == <<pc, snap, conf, msg>>
redis  == <<cache, keys, expired>>
bounds == <<business, statuses, faults, configs>>
ghosts == <<ups, notices, lastSent, lastPut, raced>>
vars   == <<mode, online, redis, statusChan, proc, bounds, ghosts>>

None     == -1
Status   == {0, 1}
Kinds    == {"heartbeat", "timeout"}
Procs    == Uplinks \cup Handlers \cup {"status"}
Sources  == {"status_message", "heartbeat", "timeout"}
Message  == [status: Status, source: Sources]
Places   == {"idle", "fill", "check", "publish", "setTimeout", "update", "invalidate", "again",
             "reload", "refill", "refresh"}

NoMessage == [status |-> 0, source |-> "status_message"]

Init ==
    /\ mode \in Modes
    /\ online = 0 /\ cache = None /\ keys = {} /\ expired = <<>> /\ statusChan = <<>>
    /\ pc = [p \in Procs |-> "idle"]
    /\ snap = [p \in Procs |-> 0]
    /\ conf = [p \in Procs |-> "message"]
    /\ msg = [p \in Procs |-> NoMessage]
    /\ business = 0 /\ statuses = 0 /\ faults = 0 /\ configs = 0
    /\ ups = 0 /\ notices = 0 /\ lastSent = None /\ lastPut = None /\ raced = {}

-----------------------------------------------------------------------------
(* Steps shared by the goroutines.                                         *)

Goto(p, place) == pc' = [pc EXCEPT ![p] = place]

Fault == faults < MaxFaults /\ faults' = faults + 1

Other == <<business, statuses, configs>>

(* Mutant: a miss is not noticed.                                          *)
FetchUnchecked(p, hit, miss) ==
    /\ snap' = [snap EXCEPT ![p] = cache]
    /\ Goto(p, hit)

(* GetDeviceCacheById: a hit, or a read of the database that is stored in  *)
(* Redis without an expiry by a later step.                                *)
Fetch(p, hit, miss) ==
    \/ /\ cache # None
       /\ snap' = [snap EXCEPT ![p] = cache]
       /\ Goto(p, hit)
    \/ /\ cache = None
       /\ snap' = [snap EXCEPT ![p] = online]
       /\ Goto(p, miss)

Fetched(p) == IF p \in Handlers THEN "publish" ELSE "check"

(* The second half of a miss; when SET fails the message is dropped.       *)
Fill(p) ==
    /\ pc[p] = "fill"
    /\ \/ cache' = snap[p] /\ Goto(p, Fetched(p)) /\ UNCHANGED faults
       \/ Fault /\ Goto(p, "idle") /\ UNCHANGED cache
    /\ UNCHANGED <<mode, online, keys, expired, statusChan, snap, conf, msg, Other, ghosts>>

(* UpdateDeviceStatus deletes the copy; a failure is only logged.          *)
Invalidate(p) ==
    /\ pc[p] = "invalidate"
    /\ Goto(p, "again")
    /\ \/ cache' = None /\ UNCHANGED faults
       \/ Fault /\ UNCHANGED cache
    /\ UNCHANGED <<mode, online, keys, expired, statusChan, snap, conf, msg, Other, ghosts>>

(* is_online is written without a look at what it was.                     *)
SetOnline(status) ==
    /\ online' = status
    /\ ups' = IF online = 0 /\ status = 1 THEN ups + 1 ELSE ups

-----------------------------------------------------------------------------
(* A business message: processMessage and refreshHeartbeat of an uplink.   *)

Calm == /\ \A p \in Procs : pc[p] = "idle"
        /\ statusChan = <<>>

UplinkReceive(u) ==
    /\ pc[u] = "idle"
    /\ business < MaxBusiness /\ business + statuses < MaxMessages
    /\ business' = business + 1
    /\ raced' = IF Calm THEN raced \ {u} ELSE raced \cup {u}
    /\ Fetch(u, "check", "fill")
    /\ UNCHANGED <<mode, online, redis, statusChan, conf, msg, statuses, faults, configs,
                   ups, notices, lastSent, lastPut>>

(* GetConfig, then the decision on the is_online that was read before it.  *)
UplinkDecide(u) ==
    /\ pc[u] = "check"
    /\ conf' = [conf EXCEPT ![u] = mode]
    /\ \/ /\ mode = "message" /\ Goto(u, "idle") /\ UNCHANGED faults
       \/ /\ mode # "message" /\ snap[u] = 1 /\ Goto(u, "refresh") /\ UNCHANGED faults
       \/ /\ mode # "message" /\ snap[u] # 1 /\ Goto(u, "update") /\ UNCHANGED faults
       \/ /\ Fault /\ Goto(u, "idle")
    /\ UNCHANGED <<mode, online, redis, statusChan, snap, msg, Other, ghosts>>

UplinkUpdate(u) ==
    /\ pc[u] = "update"
    /\ \/ SetOnline(1) /\ Goto(u, "invalidate") /\ UNCHANGED faults
       \/ Fault /\ Goto(u, "idle") /\ UNCHANGED <<online, ups>>
    /\ UNCHANGED <<mode, redis, statusChan, snap, conf, msg, Other, notices, lastSent, lastPut, raced>>

UplinkAgain(u) ==
    /\ pc[u] = "again"
    /\ Goto(u, "reload")
    /\ \/ cache' = None /\ UNCHANGED faults
       \/ Fault /\ UNCHANGED cache
    /\ UNCHANGED <<mode, online, keys, expired, statusChan, snap, conf, msg, Other, ghosts>>

(* The updated device is fetched again; once it is there, a goroutine      *)
(* tells the clients.                                                      *)
UplinkReload(u) ==
    /\ pc[u] = "reload"
    /\ \/ /\ Fetch(u, "refresh", "refill")
          /\ notices' = IF cache # None THEN notices + 1 ELSE notices
          /\ UNCHANGED faults
       \/ Fault /\ Goto(u, "idle") /\ UNCHANGED <<snap, notices>>
    /\ UNCHANGED <<mode, online, redis, statusChan, conf, msg, Other, ups, lastSent, lastPut, raced>>

UplinkRefill(u) ==
    /\ pc[u] = "refill"
    /\ \/ /\ cache' = snap[u] /\ Goto(u, "refresh") /\ notices' = notices + 1
          /\ UNCHANGED faults
       \/ /\ Fault /\ Goto(u, "idle") /\ UNCHANGED <<cache, notices>>
    /\ UNCHANGED <<mode, online, keys, expired, statusChan, snap, conf, msg, Other,
                   ups, lastSent, lastPut, raced>>

(* Mutant: the key is not set when the device is seen online.              *)
UplinkRefreshOnline(u) ==
    /\ pc[u] = "refresh"
    /\ Goto(u, "idle")
    /\ keys' = IF snap[u] = 1 /\ cache = 1 THEN keys ELSE keys \cup {conf[u]}
    /\ UNCHANGED <<mode, online, cache, expired, statusChan, snap, conf, msg, bounds, ghosts>>

(* RefreshHeartbeat: the key of the mode lives for another interval.       *)
UplinkRefresh(u) ==
    /\ pc[u] = "refresh"
    /\ Goto(u, "idle")
    /\ \/ keys' = keys \cup {conf[u]} /\ UNCHANGED faults
       \/ Fault /\ UNCHANGED keys
    /\ UNCHANGED <<mode, online, cache, expired, statusChan, snap, conf, msg, Other, ghosts>>

-----------------------------------------------------------------------------
(* Expiry and the device's own status messages.                            *)

(* Redis publishes the expiry of a key to whoever listens at that moment.  *)
Expire(k) ==
    /\ k \in keys
    /\ keys' = keys \ {k}
    /\ \/ expired' = Append(expired, k)
       \/ MayMiss /\ UNCHANGED expired
    /\ UNCHANGED <<mode, online, cache, statusChan, proc, bounds, ghosts>>

(* Mutant: only heartbeat keys are handled.                                *)
MonitorHeartbeat ==
    /\ expired # <<>>
    /\ expired' = Tail(expired)
    /\ IF Head(expired) = "heartbeat"
         THEN /\ statusChan' = Append(statusChan, [status |-> 0, source |-> "heartbeat"])
              /\ lastPut' = 0
         ELSE UNCHANGED <<statusChan, lastPut>>
    /\ UNCHANGED <<mode, online, cache, keys, proc, bounds, ups, notices, lastSent, raced>>

(* handleExpiredKey: an offline message with its source goes on the bus.   *)
Monitor ==
    /\ expired # <<>>
    /\ expired' = Tail(expired)
    /\ statusChan' = Append(statusChan, [status |-> 0, source |-> Head(expired)])
    /\ lastPut' = 0
    /\ UNCHANGED <<mode, online, cache, keys, proc, bounds, ups, notices, lastSent, raced>>

HandlerReceive(h) ==
    /\ pc[h] = "idle"
    /\ statuses < MaxStatus /\ business + statuses < MaxMessages
    /\ statuses' = statuses + 1
    /\ \E s \in Status :
          /\ msg' = [msg EXCEPT ![h] = [status |-> s, source |-> "status_message"]]
          /\ lastSent' = s
    /\ Fetch(h, "publish", "fill")
    /\ UNCHANGED <<mode, online, redis, statusChan, conf, business, faults, configs,
                   ups, notices, lastPut, raced>>

HandlerPublish(h) ==
    /\ pc[h] = "publish"
    /\ statusChan' = Append(statusChan, msg[h])
    /\ lastPut' = msg[h].status
    /\ Goto(h, "idle")
    /\ UNCHANGED <<mode, online, redis, snap, conf, msg, bounds, ups, notices, lastSent, raced>>

-----------------------------------------------------------------------------
(* The StatusUplink.                                                       *)

StatusTake ==
    /\ pc["status"] = "idle"
    /\ statusChan # <<>>
    /\ statusChan' = Tail(statusChan)
    /\ msg' = [msg EXCEPT !["status"] = Head(statusChan)]
    /\ \/ Fetch("status", "check", "fill") /\ UNCHANGED faults
       \/ Fault /\ UNCHANGED <<pc, snap>>
    /\ UNCHANGED <<mode, online, redis, conf, Other, ghosts>>

(* In heartbeat mode only an expired heartbeat counts.                     *)
Applied(m) == mode = "heartbeat" => m.source = "heartbeat"

(* When the configuration cannot be read, the message is applied as if     *)
(* there were none.                                                        *)
StatusDecide ==
    LET m == msg["status"] IN
    /\ pc["status"] = "check"
    /\ \/ ~Applied(m) /\ Goto("status", "idle") /\ UNCHANGED faults
       \/ /\ Applied(m) /\ mode = "timeout" /\ m.status = 1
          /\ Goto("status", "setTimeout") /\ UNCHANGED faults
       \/ /\ Applied(m) /\ ~(mode = "timeout" /\ m.status = 1)
          /\ Goto("status", "update") /\ UNCHANGED faults
       \/ Fault /\ Goto("status", "update")
    /\ conf' = [conf EXCEPT !["status"] = mode]
    /\ UNCHANGED <<mode, online, redis, statusChan, snap, msg, Other, ghosts>>

StatusSetTimeout ==
    /\ pc["status"] = "setTimeout"
    /\ Goto("status", "update")
    /\ \/ keys' = keys \cup {"timeout"} /\ UNCHANGED faults
       \/ Fault /\ UNCHANGED keys
    /\ UNCHANGED <<mode, online, cache, expired, statusChan, snap, conf, msg, Other, ghosts>>

(* Mutant: a status the cached copy already has is not written.            *)
StatusUpdateChanged ==
    LET m == msg["status"] IN
    /\ pc["status"] = "update"
    /\ IF snap["status"] = m.status
         THEN Goto("status", "idle") /\ UNCHANGED <<online, ups>>
         ELSE SetOnline(m.status) /\ Goto("status", "invalidate")
    /\ UNCHANGED <<mode, redis, statusChan, snap, conf, msg, bounds, notices, lastSent, lastPut, raced>>

(* UpdateDeviceStatus writes whatever is_online was, and reports a change. *)
StatusUpdate ==
    LET m == msg["status"] IN
    /\ pc["status"] = "update"
    /\ \/ /\ SetOnline(m.status)
          /\ raced' = IF m.status = 0 THEN {u \in Uplinks : pc[u] # "idle"} \cup raced ELSE raced
          /\ Goto("status", "invalidate") /\ UNCHANGED faults
       \/ /\ Fault /\ Goto("status", "idle") /\ UNCHANGED <<online, ups, raced>>
    /\ UNCHANGED <<mode, redis, statusChan, snap, conf, msg, Other, notices, lastSent, lastPut>>

(* Mutant: nobody is told.                                                 *)
StatusSilent ==
    /\ pc["status"] = "again"
    /\ Goto("status", "idle")
    /\ cache' = None
    /\ UNCHANGED <<mode, online, keys, expired, statusChan, snap, conf, msg, bounds, ghosts>>

StatusNotify ==
    /\ pc["status"] = "again"
    /\ Goto("status", "idle")
    /\ notices' = notices + msg["status"].status
    /\ \/ cache' = None /\ UNCHANGED faults
       \/ Fault /\ UNCHANGED cache
    /\ UNCHANGED <<mode, online, keys, expired, statusChan, snap, conf, msg, Other,
                   ups, lastSent, lastPut, raced>>

-----------------------------------------------------------------------------

(* An administrator edits the heartbeat settings of the configuration.     *)
ChangeConfig ==
    /\ configs < MaxConfigs
    /\ configs' = configs + 1
    /\ mode' \in AllModes \ {mode}
    /\ UNCHANGED <<online, redis, statusChan, proc, business, statuses, faults, ghosts>>

Uplink(u) ==
    \/ Fill(u) \/ UplinkDecide(u) \/ UplinkUpdate(u) \/ Invalidate(u) \/ UplinkAgain(u)
    \/ UplinkReload(u) \/ UplinkRefill(u) \/ UplinkRefresh(u)

Handler(h) == Fill(h) \/ HandlerPublish(h)

StatusUplink ==
    \/ StatusTake \/ Fill("status") \/ StatusDecide \/ StatusSetTimeout \/ StatusUpdate
    \/ Invalidate("status") \/ StatusNotify

Next ==
    \/ \E u \in Uplinks : UplinkReceive(u) \/ Uplink(u)
    \/ \E h \in Handlers : HandlerReceive(h) \/ Handler(h)
    \/ \E k \in Kinds : Expire(k)
    \/ Monitor
    \/ StatusUplink
    \/ ChangeConfig

Spec == Init /\ [][Next]_vars

(* Goroutines go on with what they have begun and keys expire; nobody has  *)
(* to send a message.                                                      *)
FairSpec ==
    /\ Spec
    /\ \A u \in Uplinks : WF_vars(Uplink(u))
    /\ \A h \in Handlers : WF_vars(Handler(h))
    /\ \A k \in Kinds : WF_vars(Expire(k))
    /\ WF_vars(Monitor)
    /\ WF_vars(StatusUplink)

-----------------------------------------------------------------------------
(* Properties.                                                             *)

(* Every variable holds a value of its kind: rows and copies hold 0 or 1,  *)
(* goroutines are at places of their own code.                             *)
TypeOK ==
    /\ mode \in AllModes
    /\ online \in Status
    /\ cache \in Status \cup {None}
    /\ keys \subseteq Kinds
    /\ expired \in Seq(Kinds)
    /\ statusChan \in Seq(Message)
    /\ pc \in [Procs -> Places]
    /\ snap \in [Procs -> Status]
    /\ conf \in [Procs -> AllModes]
    /\ msg \in [Procs -> Message]
    /\ business \in 0..MaxBusiness /\ statuses \in 0..MaxStatus
    /\ faults \in 0..MaxFaults /\ configs \in 0..MaxConfigs
    /\ ups \in Nat /\ notices \in Nat
    /\ lastSent \in Status \cup {None} /\ lastPut \in Status \cup {None}
    /\ raced \subseteq Uplinks

(* An offline message that StatusUplink will apply.                        *)
TakesDown(m) == m.status = 0 /\ Applied(m)

(* Something will bring the device offline if it stays silent: the key     *)
(* itself, its expiry on the way to the monitor, an offline message on the *)
(* bus or in work, or an uplink that still has the key to set.             *)
Watched ==
    \/ mode \in keys
    \/ expired # <<>>
    \/ \E i \in 1..Len(statusChan) : TakesDown(statusChan[i])
    \/ pc["status"] \in {"fill", "check", "update"} /\ TakesDown(msg["status"])
    \/ \E u \in Uplinks : pc[u] \in {"invalidate", "again", "reload", "refill", "refresh"}

(* In heartbeat and timeout mode an online device is always watched, in    *)
(* whatever order the uplinks, the expiry, the monitor and StatusUplink    *)
(* interleave their reads and writes (no lost event, no failing call, no   *)
(* change of configuration).                                               *)
OnlineIsWatched == mode # "message" /\ online = 1 => Watched

(* Goroutines that have written is_online = 1 and have not told anybody.   *)
Telling ==
    {u \in Uplinks : pc[u] \in {"invalidate", "again", "reload", "refill"}}
        \cup {p \in {"status"} : pc[p] \in {"invalidate", "again"} /\ msg[p].status = 1}

(* No transition of the row to online goes untold, although each writer    *)
(* decides on a value it read earlier and maybe from the cache; a failing  *)
(* call costs one notice at most.                                          *)
NoMissedNotice == ups <= notices + Cardinality(Telling) + faults

StatusQuiet == statusChan = <<>> /\ pc["status"] = "idle"

(* In message mode the row ends with the last status put on the bus.       *)
FollowsBusOrder ==
    mode = "message" /\ StatusQuiet /\ lastPut # None => online = lastPut

(* In message mode the row ends with the last status the device sent:      *)
(* "devices/status/{id} payload=1" brings the device online.               *)
FollowsDevice ==
    mode = "message" /\ StatusQuiet /\ (\A h \in Handlers : pc[h] = "idle") /\ lastSent # None
        => online = lastSent

(* In heartbeat mode a status message of the device changes nothing.       *)
IgnoresDeviceStatus ==
    [][(mode = "heartbeat" /\ pc["status"] = "update" /\ pc'["status"] # "update")
          => msg["status"].source = "heartbeat"]_vars

(* Without other work in progress the cached copy is absent or is the row: *)
(* after a status change the next read gets the newest data.               *)
CacheFresh == Calm => cache \in {None, online}

(* A business message brings an offline device online: one that came in    *)
(* while all else was at rest and was not overtaken by an offline update   *)
(* finds the row online when its handler refreshes the key.                *)
AutoOnline ==
    \A u \in Uplinks : pc[u] = "refresh" /\ u \notin raced => online = 1

(* Clients are told only when the row really goes from offline to online.  *)
NotifyOnlyOnChange == notices <= ups

(* A device that falls silent (the bounds end its messages) goes offline   *)
(* and stays offline, in heartbeat and timeout mode.                       *)
SilentGoesOffline == <>[](mode # "message" => online = 0)
=============================================================================
