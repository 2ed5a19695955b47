--------------------------- MODULE WsSubscription ---------------------------
(***************************************************************************)
(* Browsers that watch a device over a WebSocket.  Each server keeps the   *)
(* clients of the device in a map under a mutex; a counter in Redis, the   *)
(* key ws:sub:<device> with a time to live, tells the telemetry uplink     *)
(* whether anybody watches.  A client has two goroutines, the handler that *)
(* reads pings and the writer that empties the queue of the client; both   *)
(* unsubscribe when they end.                                              *)
(***************************************************************************)
EXTENDS Integers, Sequences, FiniteSets

CONSTANTS
    WsServers,
    WsHome,          \* client -> the server it is connected to
    WsByKey,         \* clients that watch single keys
    WsQueueSize,     \* capacity of the queue of a client
    WsMayExpire,     \* may the key expire although a client is pinging?
    WsMaxUpdates,    \* bound: telemetry messages
    WsMaxFaults,     \* bound: Redis calls that fail
    WsMaxCrashes     \* bound: servers that go down

WsClients == DOMAIN WsHome

ASSUME WsAssumption ==
    /\ \A c \in WsClients : WsHome[c] \in WsServers
    /\ WsByKey \subseteq WsClients
    /\ WsQueueSize \in Nat \ {0}
    /\ WsMayExpire \in BOOLEAN
    /\ {WsMaxUpdates, WsMaxFaults, WsMaxCrashes} \subseteq Nat

(* There are finitely many browsers.                                       *)
ASSUME WsClientsAssumption == IsFiniteSet(WsClients)

VARIABLES
    wsKey,       \* the counter in Redis
    wsMap,       \* deviceClients: the clients in the map of their server
    wsMutex,     \* mutex of each server: free, or who has it
    wsPc,        \* where the handler and the writer of each client are
    wsQueue,     \* Send: update numbers; 0 is any other message
    wsClosed,    \* clients whose Send is closed
    wsFirst,     \* the stored update each client has read to begin with
    wsShown,     \* the update each browser shows
    wsUpdates,   \* updates received so far
    wsStored,    \* updates in the database
    wsUplink,    \* the uplink: what it does with the last update
    wsChannel,   \* Redis Pub/Sub on its way to each server
    wsCut,       \* a server went down between INCR and EXPIRE (history)
    wsFaults, wsCrashes

wsBrowser == <<wsQueue, wsClosed, wsFirst, wsShown>>
wsFeed    == <<wsUpdates, wsStored, wsUplink, wsChannel>>
wsBounds  == <<wsCut, wsFaults, wsCrashes>>
wsVars    == <<wsKey, wsMap, wsMutex, wsPc, wsBrowser, wsFeed, wsBounds>>

WsRoles   == {"handler", "writer"}
WsProcs   == WsClients \X WsRoles
WsPlaces  == {"new", "incr", "ttl", "read", "open", "decr", "del", "gone"}
WsAbsent  == [exists |-> FALSE, count |-> 0, ttl |-> FALSE]

WsInit ==
    /\ wsKey = WsAbsent
    /\ wsMap = {} /\ wsClosed = {}
    /\ wsMutex = [s \in WsServers |-> <<>>]
    /\ wsPc = [p \in WsProcs |-> "new"]
    /\ wsQueue = [c \in WsClients |-> <<>>]
    /\ wsFirst = [c \in WsClients |-> 0] /\ wsShown = [c \in WsClients |-> 0]
    /\ wsUpdates = 0 /\ wsStored = 0 /\ wsUplink = "idle"
    /\ wsChannel = [s \in WsServers |-> <<>>]
    /\ wsCut = FALSE /\ wsFaults = 0 /\ wsCrashes = 0

WsServer(p)      == WsHome[p[1]]
WsGoto(p, place) == wsPc' = [wsPc EXCEPT ![p] = place]
WsLock(p)        == /\ wsMutex[WsServer(p)] = <<>>
                    /\ wsMutex' = [wsMutex EXCEPT ![WsServer(p)] = p]
WsUnlock(p)      == wsMutex' = [wsMutex EXCEPT ![WsServer(p)] = <<>>]
WsFault          == wsFaults < WsMaxFaults /\ wsFaults' = wsFaults + 1
WsHandler(c)     == <<c, "handler">>
WsWriter(c)      == <<c, "writer">>

(* A send with select and default: a full queue drops the message.         *)
WsOffer(q, message) == IF Len(q) < WsQueueSize THEN Append(q, message) ELSE q

-----------------------------------------------------------------------------
(* The life of a client.                                                   *)

(* SubscribeDevice takes the mutex and enters the client into the map.  A  *)
(* client of single keys has read the stored data before it.               *)
Subscribe(c) ==
    LET p == WsHandler(c) IN
    /\ wsPc[p] = "new" /\ c \notin wsMap
    /\ WsLock(p)
    /\ wsMap' = wsMap \cup {c}
    /\ \E v \in 0..wsStored : wsFirst' = [wsFirst EXCEPT ![c] = IF c \in WsByKey THEN v ELSE @]
    /\ WsGoto(p, "incr")
    /\ UNCHANGED <<wsKey, wsQueue, wsClosed, wsShown, wsFeed, wsBounds>>

(* INCR; if it fails the client stays in the map and nobody removes it.    *)
Incr(c) ==
    LET p == WsHandler(c) IN
    /\ wsPc[p] = "incr"
    /\ \/ /\ wsKey' = [wsKey EXCEPT !.exists = TRUE, !.count = @ + 1]
          /\ WsGoto(p, "ttl")
          /\ UNCHANGED <<wsMutex, wsFaults>>
       \/ WsFault /\ WsGoto(p, "gone") /\ WsUnlock(p) /\ UNCHANGED wsKey
    /\ UNCHANGED <<wsMap, wsBrowser, wsFeed, wsCut, wsCrashes>>

(* Mutant: the key is counted but gets no time to live.                    *)
WsExpireNever == wsKey

WsExpireKey == [wsKey EXCEPT !.ttl = wsKey.exists]

(* EXPIRE, whose failure is only logged; then the writer is started.       *)
SetTtl(c) ==
    LET p == WsHandler(c) IN
    /\ wsPc[p] = "ttl"
    /\ WsUnlock(p)
    /\ wsPc' = [wsPc EXCEPT ![p] = "read", ![WsWriter(c)] = "open"]
    /\ \/ wsKey' = WsExpireKey /\ UNCHANGED wsFaults
       \/ WsFault /\ UNCHANGED wsKey
    /\ UNCHANGED <<wsMap, wsBrowser, wsFeed, wsCut, wsCrashes>>

(* A client of all fields reads the stored data now; both put them into    *)
(* the queue.  (A send to a closed queue ends the handler by a panic.)     *)
SendFirst(c) ==
    LET p == WsHandler(c) IN
    /\ wsPc[p] = "read"
    /\ IF c \in wsClosed
         THEN WsGoto(p, "gone") /\ UNCHANGED <<wsQueue, wsFirst>>
         ELSE /\ wsFirst' = [wsFirst EXCEPT ![c] = IF c \in WsByKey THEN @ ELSE wsStored]
              /\ wsQueue' = [wsQueue EXCEPT ![c] = WsOffer(@, wsFirst'[c])]
              /\ WsGoto(p, "open")
    /\ UNCHANGED <<wsKey, wsMap, wsMutex, wsClosed, wsShown, wsFeed, wsBounds>>

(* A ping: RefreshSubscription extends the key if there is one; a pong is  *)
(* queued.                                                                 *)
Ping(c) ==
    LET p == WsHandler(c) IN
    /\ wsPc[p] = "open"
    /\ \/ wsKey' = WsExpireKey /\ UNCHANGED wsFaults
       \/ WsFault /\ UNCHANGED wsKey
    /\ IF c \in wsClosed
         THEN WsGoto(p, "gone") /\ UNCHANGED wsQueue
         ELSE wsQueue' = [wsQueue EXCEPT ![c] = WsOffer(@, 0)] /\ UNCHANGED wsPc
    /\ UNCHANGED <<wsMap, wsMutex, wsClosed, wsFirst, wsShown, wsFeed, wsCut, wsCrashes>>

(* Mutant: the counter is decremented whether or not the client was there. *)
UnsubscribeTwice(p) ==
    /\ wsPc[p] \in {"read", "open"}
    /\ WsLock(p)
    /\ wsMap' = wsMap \ {p[1]} /\ WsGoto(p, "decr")
    /\ UNCHANGED <<wsKey, wsBrowser, wsFeed, wsBounds>>

(* Mutant: the client is not removed from the map.                         *)
UnsubscribeStays(p) ==
    /\ wsPc[p] \in {"read", "open"}
    /\ IF p[1] \in wsMap
         THEN WsLock(p) /\ WsGoto(p, "decr")
         ELSE wsMutex[WsServer(p)] = <<>> /\ WsGoto(p, "gone") /\ UNCHANGED wsMutex
    /\ UNCHANGED <<wsKey, wsMap, wsBrowser, wsFeed, wsBounds>>

(* UnsubscribeDevice: who finds the client in the map removes it and goes  *)
(* on to the counter; the other one is done.                               *)
Unsubscribe(p) ==
    /\ wsPc[p] \in {"read", "open"}
    /\ IF p[1] \in wsMap
         THEN WsLock(p) /\ wsMap' = wsMap \ {p[1]} /\ WsGoto(p, "decr")
         ELSE wsMutex[WsServer(p)] = <<>> /\ WsGoto(p, "gone") /\ UNCHANGED <<wsMap, wsMutex>>
    /\ UNCHANGED <<wsKey, wsBrowser, wsFeed, wsBounds>>

WsClose(p) == wsClosed' = wsClosed \cup {p[1]} /\ WsUnlock(p) /\ WsGoto(p, "gone")

(* DECR; if it fails the queue is never closed.  At zero the key has to be *)
(* deleted.                                                                *)
Decr(p) ==
    /\ wsPc[p] = "decr"
    /\ \/ /\ wsKey' = [wsKey EXCEPT !.exists = TRUE, !.count = @ - 1]
          /\ IF wsKey.count - 1 <= 0
               THEN WsGoto(p, "del") /\ UNCHANGED <<wsMutex, wsClosed>>
               ELSE WsClose(p)
          /\ UNCHANGED wsFaults
       \/ WsFault /\ WsGoto(p, "gone") /\ WsUnlock(p) /\ UNCHANGED <<wsKey, wsClosed>>
    /\ UNCHANGED <<wsMap, wsQueue, wsFirst, wsShown, wsFeed, wsCut, wsCrashes>>

(* DEL, whose result nobody looks at; then the queue is closed.            *)
DelKey(p) ==
    /\ wsPc[p] = "del"
    /\ \/ wsKey' = WsAbsent /\ UNCHANGED wsFaults
       \/ WsFault /\ UNCHANGED wsKey
    /\ WsClose(p)
    /\ UNCHANGED <<wsMap, wsQueue, wsFirst, wsShown, wsFeed, wsCut, wsCrashes>>

(* The writer goroutine: one message to the browser, or a failing write;   *)
(* it ends when the queue is closed and empty.                             *)
Write(c) ==
    LET p == WsWriter(c) IN
    /\ wsPc[p] = "open"
    /\ wsQueue[c] # <<>>
    /\ wsQueue' = [wsQueue EXCEPT ![c] = Tail(@)]
    /\ wsShown' = [wsShown EXCEPT ![c] = IF Head(wsQueue[c]) = 0 THEN @ ELSE Head(wsQueue[c])]
    /\ UNCHANGED <<wsKey, wsMap, wsMutex, wsPc, wsClosed, wsFirst, wsFeed, wsBounds>>

WriterEnds(c) ==
    LET p == WsWriter(c) IN
    /\ wsPc[p] = "open"
    /\ wsQueue[c] = <<>> /\ c \in wsClosed
    /\ WsGoto(p, "gone")
    /\ UNCHANGED <<wsKey, wsMap, wsMutex, wsBrowser, wsFeed, wsBounds>>

-----------------------------------------------------------------------------
(* The updates.                                                            *)

(* A telemetry message: stored by and by, and pushed if anybody watches.   *)
Update ==
    /\ wsUplink = "idle" /\ wsUpdates < WsMaxUpdates
    /\ wsUpdates' = wsUpdates + 1
    /\ wsUplink' = "check"
    /\ UNCHANGED <<wsKey, wsMap, wsMutex, wsPc, wsBrowser, wsStored, wsChannel, wsBounds>>

Store ==
    /\ wsStored < wsUpdates /\ wsStored' = wsStored + 1
    /\ UNCHANGED <<wsKey, wsMap, wsMutex, wsPc, wsBrowser, wsUpdates, wsUplink, wsChannel, wsBounds>>

(* checkAndPublishToWS: EXISTS, then PUBLISH to every server.              *)
CheckKey ==
    /\ wsUplink = "check"
    /\ \/ /\ wsUplink' = IF wsKey.exists THEN "publish" ELSE "idle"
          /\ UNCHANGED wsFaults
       \/ WsFault /\ wsUplink' = "idle"
    /\ UNCHANGED <<wsKey, wsMap, wsMutex, wsPc, wsBrowser, wsUpdates, wsStored, wsChannel, wsCut, wsCrashes>>

PublishUpdate ==
    /\ wsUplink = "publish" /\ wsUplink' = "idle"
    /\ \/ wsChannel' = [s \in WsServers |-> Append(wsChannel[s], wsUpdates)] /\ UNCHANGED wsFaults
       \/ WsFault /\ UNCHANGED wsChannel
    /\ UNCHANGED <<wsKey, wsMap, wsMutex, wsPc, wsBrowser, wsUpdates, wsStored, wsCut, wsCrashes>>

(* PushToDevice: under the read lock, to each client in the map.           *)
Push(s) ==
    /\ wsChannel[s] # <<>>
    /\ wsMutex[s] = <<>>
    /\ wsQueue' = [c \in WsClients |->
                     IF c \in wsMap /\ WsHome[c] = s
                       THEN WsOffer(wsQueue[c], Head(wsChannel[s])) ELSE wsQueue[c]]
    /\ wsChannel' = [wsChannel EXCEPT ![s] = Tail(@)]
    /\ UNCHANGED <<wsKey, wsMap, wsMutex, wsPc, wsClosed, wsFirst, wsShown,
                   wsUpdates, wsStored, wsUplink, wsBounds>>

WsWatching == {c \in WsClients : wsPc[WsHandler(c)] \in {"read", "open"}}

(* The key lives five minutes after the last EXPIRE; a client pings every  *)
(* fifteen seconds or is disconnected, and counting takes no minutes.      *)
KeyExpires ==
    /\ wsKey.ttl
    /\ \/ wsMap = {} /\ \A p \in WsProcs : wsPc[p] \notin {"decr", "del"}
       \/ WsMayExpire
    /\ wsKey' = WsAbsent
    /\ UNCHANGED <<wsMap, wsMutex, wsPc, wsBrowser, wsFeed, wsBounds>>

(* A server goes down with its clients.                                    *)
ServerDown(s) ==
    /\ wsCrashes < WsMaxCrashes /\ wsCrashes' = wsCrashes + 1
    /\ wsMap' = {c \in wsMap : WsHome[c] # s}
    /\ wsMutex' = [wsMutex EXCEPT ![s] = <<>>]
    /\ wsPc' = [p \in WsProcs |-> IF WsServer(p) = s /\ wsPc[p] # "new" THEN "gone" ELSE wsPc[p]]
    /\ wsChannel' = [wsChannel EXCEPT ![s] = <<>>]
    /\ wsCut' = (wsCut \/ \E c \in WsClients : WsHome[c] = s /\ wsPc[WsHandler(c)] = "ttl")
    /\ UNCHANGED <<wsKey, wsBrowser, wsUpdates, wsStored, wsUplink, wsFaults>>

WsCounting(p) == Decr(p) \/ DelKey(p)
WsEntering(c) == Incr(c) \/ SetTtl(c) \/ SendFirst(c)

WsNext ==
    \/ \E c \in WsClients : Subscribe(c) \/ WsEntering(c) \/ Ping(c) \/ Write(c) \/ WriterEnds(c)
    \/ \E p \in WsProcs : Unsubscribe(p) \/ WsCounting(p)
    \/ Update \/ Store \/ CheckKey \/ PublishUpdate
    \/ KeyExpires
    \/ \E s \in WsServers : Push(s) \/ ServerDown(s)

WsSpec == WsInit /\ [][WsNext]_wsVars

(* Goroutines finish what they have begun; a key that has a time to live   *)
(* and that nobody extends expires.                                        *)
WsFairness ==
    /\ \A c \in WsClients : WF_wsVars(WsEntering(c)) /\ WF_wsVars(Write(c) \/ WriterEnds(c))
    /\ \A p \in WsProcs : WF_wsVars(WsCounting(p))
    /\ WF_wsVars(KeyExpires)

-----------------------------------------------------------------------------
(* Properties.                                                             *)

(* Every variable has its kind, and no queue grows beyond its capacity.    *)
WsTypeOK ==
    /\ wsKey \in [exists : BOOLEAN, count : Int, ttl : BOOLEAN]
    /\ wsMap \subseteq WsClients /\ wsClosed \subseteq WsClients
    /\ wsMutex \in [WsServers -> {<<>>} \cup WsProcs]
    /\ wsPc \in [WsProcs -> WsPlaces]
    /\ wsQueue \in [WsClients -> Seq(0..WsMaxUpdates)]
    /\ wsFirst \in [WsClients -> 0..WsMaxUpdates]
    /\ wsShown \in [WsClients -> 0..WsMaxUpdates]
    /\ wsUpdates \in 0..WsMaxUpdates /\ wsStored \in 0..wsUpdates
    /\ wsUplink \in {"idle", "check", "publish"}
    /\ wsChannel \in [WsServers -> Seq(0..WsMaxUpdates)]
    /\ \A c \in WsClients : Len(wsQueue[c]) <= WsQueueSize
    /\ wsCut \in BOOLEAN /\ wsFaults \in 0..WsMaxFaults /\ wsCrashes \in 0..WsMaxCrashes

(* A client that watches is fed: its device has the key that makes the     *)
(* uplink publish, however clients come, leave and fail around it, as long *)
(* as Redis answers.                                                       *)
WsFed ==
    wsFaults = 0 /\ WsWatching \cap wsMap # {} => wsKey.exists

(* PushToDevice never sends to a queue that is closed, or the server ends: *)
(* the lock keeps Send open while the client is in the map.                *)
WsPushSafe == wsMap \cap wsClosed = {}

(* When nobody watches any more the key disappears, by the last client or, *)
(* when a server goes down with its clients, by its time to live, and the  *)
(* uplink stops publishing.  The exception is a server that goes down      *)
(* between INCR and EXPIRE: its key stays.                                 *)
WsKeyGoes == []<>(wsMap # {} \/ ~wsKey.exists \/ wsFaults > 0 \/ wsCut)

(* The key disappears in every case.                                       *)
WsKeyAlwaysGoes == []<>(wsMap # {} \/ ~wsKey.exists \/ wsFaults > 0)

(* A browser never goes back to an older value of the device.              *)
WsShowsNewest ==
    [][\A c \in WsClients : wsShown'[c] >= wsShown[c]]_wsVars
=============================================================================
