------------------------- MODULE DeviceStatusProofs -------------------------
(***************************************************************************)
(* Theorems about DeviceStatus for any set of uplinks and handlers and any *)
(* number of messages: the type invariant; that an online device in        *)
(* heartbeat or timeout mode is always watched, when no call fails, no     *)
(* expiry event is lost and the configuration does not change; that no     *)
(* change goes untold; and that in message mode the row follows the bus.   *)
(***************************************************************************)
EXTENDS DeviceStatus, FiniteSetTheorems, TLAPS

(* Taking an element off a sequence, or putting one at its end, moves or   *)
(* keeps the others.                                                       *)
LEMMA TailProperties ==
    ASSUME NEW S, NEW q \in Seq(S), q # <<>>
    PROVE  /\ Head(q) \in S
           /\ Tail(q) \in Seq(S)
           /\ Len(Tail(q)) = Len(q) - 1
           /\ \A i \in 1..Len(Tail(q)) : Tail(q)[i] = q[i + 1]
           /\ q[1] = Head(q)
           /\ Len(q) \in Nat
  OBVIOUS

LEMMA AppendProperties ==
    ASSUME NEW S, NEW q \in Seq(S), NEW e \in S
    PROVE  /\ Append(q, e) \in Seq(S)
           /\ Append(q, e) # <<>>
           /\ Len(Append(q, e)) = Len(q) + 1
           /\ Len(q) \in Nat
           /\ \A i \in 1..Len(q) : Append(q, e)[i] = q[i]
           /\ Append(q, e)[Len(q) + 1] = e
  OBVIOUS

-----------------------------------------------------------------------------

(* Past its decision an uplink holds a mode that has a key. Without it the  *)
(* type of "keys" is not inductive.                                        *)
Decided == {"update", "invalidate", "again", "reload", "refill", "refresh"}
ConfOK  == \A u \in Uplinks : pc[u] \in Decided => conf[u] \in Kinds

TypeInv == TypeOK /\ ConfOK

LEMMA TypeInit == Init => TypeInv
  BY StatusAssumption DEF StatusAssumption, Init, TypeInv, ConfOK, Decided, TypeOK, AllModes, Status, Kinds, Procs, Sources,
     Message, Places, NoMessage, None, bounds

(* The steps of the goroutines change only numbers, sets and the entries   *)
(* of their own goroutine.                                                 *)
LEMMA TypeNext == TypeInv /\ [Next]_vars => TypeOK'
<1> SUFFICES ASSUME TypeOK, ConfOK, [Next]_vars PROVE TypeOK'
  BY DEF TypeInv
<1> USE StatusAssumption DEF StatusAssumption
<1>m. \A p \in Procs : msg[p] \in Message /\ snap[p] \in Status /\ msg[p].status \in Status
  BY DEF TypeOK, Message
<1>1. CASE UNCHANGED vars
  BY <1>1 DEF TypeOK, vars, redis, proc, bounds, ghosts
<1>2. ASSUME NEW u \in Uplinks, UplinkReceive(u) PROVE TypeOK'
  <2>1. business' \in 0..MaxBusiness /\ raced' \subseteq Uplinks
    BY <1>2 DEF TypeOK, UplinkReceive
  <2>2. pc' \in [Procs -> Places] /\ snap' \in [Procs -> Status]
    BY <1>2, SMTT(60) DEF TypeOK, UplinkReceive, Fetch, Goto, Places, Procs, None
  <2> QED
    BY <1>2, <2>1, <2>2 DEF TypeOK, UplinkReceive, redis
<1>3. ASSUME NEW p \in Procs, Fill(p) PROVE TypeOK'
  <2>1. faults' \in 0..MaxFaults
    BY <1>3 DEF TypeOK, Fill, Fault
  <2>2. cache' \in Status \cup {None} /\ pc' \in [Procs -> Places]
    BY <1>3, <1>m DEF TypeOK, Fill, Fetched, Goto, Places
  <2> QED
    BY <1>3, <2>1, <2>2 DEF TypeOK, Fill, Other, ghosts
<1>4. ASSUME NEW p \in Procs, Invalidate(p) PROVE TypeOK'
  BY <1>4 DEF TypeOK, Invalidate, Goto, Fault, Other, ghosts, Places, None
<1>5. ASSUME NEW u \in Uplinks, UplinkDecide(u) PROVE TypeOK'
  BY <1>5 DEF TypeOK, UplinkDecide, Goto, Fault, Other, ghosts, redis, Places, Procs
<1>6. ASSUME NEW u \in Uplinks, UplinkUpdate(u) PROVE TypeOK'
  <2>1. faults' \in 0..MaxFaults /\ ups' \in Nat
    BY <1>6 DEF TypeOK, UplinkUpdate, SetOnline, Fault
  <2>2. pc' \in [Procs -> Places] /\ online' \in Status
    BY <1>6 DEF TypeOK, UplinkUpdate, SetOnline, Goto, Places, Procs, Status
  <2> QED
    BY <1>6, <2>1, <2>2 DEF TypeOK, UplinkUpdate, Other, redis
<1>7. ASSUME NEW u \in Uplinks, UplinkAgain(u) PROVE TypeOK'
  BY <1>7 DEF TypeOK, UplinkAgain, Goto, Fault, Other, ghosts, Places, Procs, None
<1>8. ASSUME NEW u \in Uplinks, UplinkReload(u) PROVE TypeOK'
  <2>1. faults' \in 0..MaxFaults /\ notices' \in Nat
    BY <1>8 DEF TypeOK, UplinkReload, Fault
  <2>2. pc' \in [Procs -> Places] /\ snap' \in [Procs -> Status]
    BY <1>8, SMTT(60) DEF TypeOK, UplinkReload, Fetch, Goto, Places, Procs, None
  <2> QED
    BY <1>8, <2>1, <2>2 DEF TypeOK, UplinkReload, Other, redis
<1>9. ASSUME NEW u \in Uplinks, UplinkRefill(u) PROVE TypeOK'
  <2>1. faults' \in 0..MaxFaults /\ notices' \in Nat
    BY <1>9 DEF TypeOK, UplinkRefill, Fault
  <2>2. pc' \in [Procs -> Places] /\ cache' \in Status \cup {None}
    BY <1>9, <1>m DEF TypeOK, UplinkRefill, Goto, Places, Procs
  <2> QED
    BY <1>9, <2>1, <2>2 DEF TypeOK, UplinkRefill, Other
<1>10. ASSUME NEW u \in Uplinks, UplinkRefresh(u) PROVE TypeOK'
  <2>1. conf[u] \in Kinds
    BY <1>10 DEF ConfOK, Decided, UplinkRefresh
  <2> QED
    BY <1>10, <2>1 DEF TypeOK, UplinkRefresh, Goto, Fault, Other, ghosts, Places, Procs
<1>11. ASSUME NEW k \in Kinds, Expire(k) PROVE TypeOK'
  <2>1. expired' \in Seq(Kinds)
    <3>1. expired \in Seq(Kinds)
      BY DEF TypeOK
    <3>2. expired' = expired \/ expired' = Append(expired, k)
      BY <1>11 DEF Expire
    <3> QED
      BY <3>1, <3>2, <1>11
  <2> QED
    BY <1>11, <2>1 DEF TypeOK, Expire, proc, bounds, ghosts
<1>12. CASE Monitor
  <2>1. expired' \in Seq(Kinds) /\ Head(expired) \in Kinds
    BY <1>12, TailProperties DEF TypeOK, Monitor
  <2>2. [status |-> 0, source |-> Head(expired)] \in Message
    BY <2>1 DEF Message, Status, Sources, Kinds
  <2>3. statusChan' \in Seq(Message)
    BY <1>12, <2>2, AppendProperties DEF TypeOK, Monitor
  <2> QED
    BY <1>12, <2>1, <2>3 DEF TypeOK, Monitor, proc, bounds, Status
<1>13. ASSUME NEW h \in Handlers, HandlerReceive(h) PROVE TypeOK'
  <2>1. statuses' \in 0..MaxStatus
    BY <1>13 DEF TypeOK, HandlerReceive
  <2>2. pc' \in [Procs -> Places] /\ snap' \in [Procs -> Status]
    BY <1>13, SMTT(60) DEF TypeOK, HandlerReceive, Fetch, Goto, Places, Procs, None
  <2>3. PICK s \in Status :
          /\ msg' = [msg EXCEPT ![h] = [status |-> s, source |-> "status_message"]]
          /\ lastSent' = s
    BY <1>13 DEF HandlerReceive
  <2>4. msg' \in [Procs -> Message]
    BY <2>3 DEF TypeOK, Message, Sources
  <2> QED
    BY <1>13, <2>1, <2>2, <2>3, <2>4 DEF TypeOK, HandlerReceive, redis
<1>14. ASSUME NEW h \in Handlers, HandlerPublish(h) PROVE TypeOK'
  <2>1. statusChan' \in Seq(Message) /\ msg[h].status \in Status
    BY <1>14, <1>m, AppendProperties DEF TypeOK, HandlerPublish, Procs
  <2> QED
    BY <1>14, <2>1 DEF TypeOK, HandlerPublish, Goto, bounds, redis, Places, Procs
<1>15. CASE StatusTake
  <2>1. statusChan' \in Seq(Message) /\ Head(statusChan) \in Message
    BY <1>15, TailProperties DEF TypeOK, StatusTake
  <2> QED
    BY <1>15, <2>1 DEF TypeOK, StatusTake, Fetch, Goto, Fault, Other, ghosts, redis, Places, Procs, None
<1>16. CASE StatusDecide
  BY <1>16 DEF TypeOK, StatusDecide, Goto, Fault, Other, ghosts, redis, Places, Procs
<1>17. CASE StatusSetTimeout
  <2>1. faults' \in 0..MaxFaults
    BY <1>17 DEF TypeOK, StatusSetTimeout, Fault
  <2>2. keys' \subseteq Kinds /\ pc' \in [Procs -> Places]
    BY <1>17 DEF TypeOK, StatusSetTimeout, Goto, Places, Procs, Kinds
  <2> QED
    BY <1>17, <2>1, <2>2 DEF TypeOK, StatusSetTimeout, Other, ghosts
<1>18. CASE StatusUpdate
  <2>1. msg["status"].status \in Status
    BY <1>m DEF Procs
  <2> QED
    BY <1>18, <2>1 DEF TypeOK, StatusUpdate, SetOnline, Goto, Fault, Other, redis, Places, Procs
<1>19. CASE StatusNotify
  <2>1. msg["status"].status \in Nat
    BY <1>m DEF Procs, Status
  <2>2. faults' \in 0..MaxFaults /\ notices' \in Nat
    <3>1. notices \in Nat /\ faults \in 0..MaxFaults
      BY DEF TypeOK
    <3>2. /\ notices' = notices + msg["status"].status
          /\ faults' = faults \/ (faults < MaxFaults /\ faults' = faults + 1)
      BY <1>19 DEF StatusNotify, Fault
    <3> QED
      BY <3>1, <3>2, <2>1
  <2>3. pc' \in [Procs -> Places]
    BY <1>19 DEF TypeOK, StatusNotify, Goto, Places, Procs
  <2> QED
    BY <1>19, <2>1, <2>2, <2>3 DEF TypeOK, StatusNotify, Other, None
<1>20. CASE ChangeConfig
  BY <1>20 DEF TypeOK, ChangeConfig, redis, proc, ghosts, AllModes
<1> QED
  BY <1>1, <1>2, <1>3, <1>4, <1>5, <1>6, <1>7, <1>8, <1>9, <1>10, <1>11, <1>12, <1>13, <1>14, <1>15,
     <1>16, <1>17, <1>18, <1>19, <1>20
     DEF Next, Uplink, Handler, StatusUplink, Procs

(* A goroutine that is past its decision keeps the mode it decided on.     *)
LEMMA ConfNext == TypeInv /\ [Next]_vars => ConfOK'
<1> SUFFICES ASSUME TypeOK, ConfOK, [Next]_vars, NEW u \in Uplinks, (pc[u] \in Decided)'
             PROVE  (conf[u] \in Kinds)'
  BY DEF TypeInv, ConfOK
<1> USE StatusAssumption DEF StatusAssumption
<1>1. CASE pc'[u] = pc[u] /\ conf'[u] = conf[u]
  BY <1>1 DEF ConfOK
<1>2. CASE UplinkDecide(u)
  BY <1>2 DEF TypeOK, UplinkDecide, Goto, Decided, Procs, AllModes, Kinds
<1>3. CASE UplinkReceive(u) \/ Fill(u)
  BY <1>3 DEF TypeOK, UplinkReceive, Fill, Fetch, Fetched, Goto, Decided, Procs
<1>4. CASE \/ UplinkUpdate(u) \/ Invalidate(u) \/ UplinkAgain(u) \/ UplinkReload(u)
           \/ UplinkRefill(u) \/ UplinkRefresh(u)
  <2>1. pc[u] \in Decided /\ conf' = conf
    BY <1>4 DEF Decided, UplinkUpdate, Invalidate, UplinkAgain, UplinkReload, UplinkRefill, UplinkRefresh
  <2> QED
    BY <2>1 DEF ConfOK
<1>5. CASE UNCHANGED vars \/ Monitor \/ ChangeConfig \/ \E k \in Kinds : Expire(k)
  BY <1>5, <1>1 DEF vars, proc, Monitor, ChangeConfig, Expire
<1>6. ASSUME NEW v \in Uplinks \ {u}, UplinkReceive(v) \/ Uplink(v)
      PROVE  pc'[u] = pc[u] /\ conf'[u] = conf[u]
  BY <1>6 DEF TypeOK, Procs, Goto, Fetch, Uplink, UplinkReceive, Fill, UplinkDecide, UplinkUpdate,
     Invalidate, UplinkAgain, UplinkReload, UplinkRefill, UplinkRefresh
<1>7. ASSUME NEW h \in Handlers, HandlerReceive(h) \/ Handler(h)
      PROVE  pc'[u] = pc[u] /\ conf'[u] = conf[u]
  BY <1>7 DEF TypeOK, Procs, Goto, Fetch, Handler, HandlerReceive, Fill, HandlerPublish
<1>8. CASE StatusUplink
  BY <1>8, <1>1 DEF TypeOK, Procs, Goto, Fetch, StatusUplink, StatusTake, Fill, StatusDecide,
     StatusSetTimeout, StatusUpdate, Invalidate, StatusNotify
<1> QED
  BY <1>1, <1>2, <1>3, <1>4, <1>5, <1>6, <1>7, <1>8 DEF Next, Uplink

(* Every reachable state is well typed: rows, copies and messages carry 0  *)
(* or 1, and the only keys that exist are device:{id}:heartbeat and        *)
(* device:{id}:timeout.                                                    *)
THEOREM StatusTypeCorrect == Spec => []TypeOK
<1>1. TypeInv /\ [Next]_vars => TypeInv'
  BY TypeNext, ConfNext DEF TypeInv
<1>2. TypeInv => TypeOK
  BY DEF TypeInv
<1> QED
  BY <1>1, <1>2, TypeInit, PTL DEF Spec

-----------------------------------------------------------------------------
(* The online device and what watches it.                                  *)

Reliable == MaxFaults = 0 /\ MaxConfigs = 0 /\ MayMiss = FALSE

(* Only the monitor says that a heartbeat expired, and it says offline.    *)
Honest(m) == m.source = "heartbeat" => m.status = 0

(* Keys, events and decisions all belong to the mode of the device.        *)
OneMode ==
    /\ keys \subseteq {mode}
    /\ \A i \in 1..Len(expired) : expired[i] = mode
    /\ \A u \in Uplinks : pc[u] \in Decided => conf[u] = mode
    /\ pc["status"] = "setTimeout" => mode = "timeout" /\ msg["status"].status = 1
    /\ pc["status"] = "update" => Applied(msg["status"])
    /\ \A p \in Procs : Honest(msg[p])
    /\ \A i \in 1..Len(statusChan) : Honest(statusChan[i])

(* The device is online or is about to be written online by StatusUplink,  *)
(* which has then set its key.                                             *)
ToBeWatched == online = 1 \/ (pc["status"] = "update" /\ msg["status"].status = 1)

WatchInv == mode # "message" => OneMode /\ (ToBeWatched => Watched)

LEMMA WatchInit == Init => WatchInv
  BY StatusAssumption DEF StatusAssumption, Init, WatchInv, OneMode, ToBeWatched, Honest, NoMessage,
     Decided, Procs

(* Without faults and edits of the configuration the mode is for ever.     *)
LEMMA ModeStays == Reliable /\ TypeInv /\ [Next]_vars => mode' = mode /\ ~Fault
<1> SUFFICES ASSUME Reliable, TypeOK, [Next]_vars PROVE mode' = mode /\ ~Fault
  BY DEF TypeInv
<1>1. ~Fault /\ ~ChangeConfig
  BY DEF Reliable, TypeOK, Fault, ChangeConfig
<1>2. mode' = mode
  BY <1>1 DEF vars, Next, Uplink, Handler, StatusUplink, UplinkReceive, Fill, UplinkDecide, UplinkUpdate,
     Invalidate, UplinkAgain, UplinkReload, UplinkRefill, UplinkRefresh, HandlerReceive, HandlerPublish,
     Expire, Monitor, StatusTake, StatusDecide, StatusSetTimeout, StatusUpdate, StatusNotify
<1> QED
  BY <1>1, <1>2

LEMMA OneModeNext ==
    ASSUME Reliable, TypeInv, TypeOK', mode # "message", OneMode, [Next]_vars
    PROVE  OneMode'
<1> USE StatusAssumption DEF StatusAssumption
<1>1. mode' = mode /\ ~Fault /\ TypeOK
  BY ModeStays DEF TypeInv
<1>2. CASE UNCHANGED vars
  BY <1>1, <1>2 DEF OneMode, vars, redis, proc, Applied
<1>3. ASSUME NEW u \in Uplinks, UplinkReceive(u) PROVE OneMode'
  BY <1>1, <1>3 DEF OneMode, TypeOK, UplinkReceive, Fetch, Goto, redis, Decided, Procs, Applied
<1>4. ASSUME NEW p \in Procs, Fill(p) PROVE OneMode'
  BY <1>1, <1>4 DEF OneMode, TypeOK, Fill, Fetched, Goto, Decided, Procs, Applied
<1>5. ASSUME NEW p \in Procs, Invalidate(p) PROVE OneMode'
  BY <1>1, <1>5 DEF OneMode, TypeOK, Invalidate, Goto, Decided, Procs, Applied
<1>6. ASSUME NEW u \in Uplinks, UplinkDecide(u) PROVE OneMode'
  BY <1>1, <1>6 DEF OneMode, TypeOK, UplinkDecide, Goto, redis, Decided, Procs, Applied
<1>7. ASSUME NEW u \in Uplinks, UplinkUpdate(u) PROVE OneMode'
  BY <1>1, <1>7 DEF OneMode, TypeOK, UplinkUpdate, Goto, redis, Decided, Procs, Applied
<1>8. ASSUME NEW u \in Uplinks, UplinkAgain(u) PROVE OneMode'
  BY <1>1, <1>8 DEF OneMode, TypeOK, UplinkAgain, Goto, Decided, Procs, Applied
<1>9. ASSUME NEW u \in Uplinks, UplinkReload(u) PROVE OneMode'
  BY <1>1, <1>9 DEF OneMode, TypeOK, UplinkReload, Fetch, Goto, redis, Decided, Procs, Applied
<1>10. ASSUME NEW u \in Uplinks, UplinkRefill(u) PROVE OneMode'
  BY <1>1, <1>10 DEF OneMode, TypeOK, UplinkRefill, Goto, Decided, Procs, Applied
<1>11. ASSUME NEW u \in Uplinks, UplinkRefresh(u) PROVE OneMode'
  BY <1>1, <1>11 DEF OneMode, TypeOK, UplinkRefresh, Goto, Decided, Procs, Applied
<1>12. ASSUME NEW k \in Kinds, Expire(k) PROVE OneMode'
  <2>1. k = mode /\ expired \in Seq(Kinds) /\ expired' = Append(expired, k)
    BY <1>1, <1>12 DEF OneMode, TypeOK, Expire, Reliable
  <2>2. \A i \in 1..Len(expired') : expired'[i] = mode
    BY <2>1, AppendProperties DEF OneMode
  <2> QED
    BY <1>1, <1>12, <2>2 DEF OneMode, Expire, proc, Applied
<1>13. CASE Monitor
  <2>1. /\ expired \in Seq(Kinds) /\ expired # <<>> /\ statusChan \in Seq(Message)
        /\ Head(expired) \in Kinds
    BY <1>1, <1>13, TailProperties DEF TypeOK, Monitor
  <2>2. \A i \in 1..Len(expired') : expired'[i] = mode
    BY <1>13, <2>1, TailProperties DEF OneMode, Monitor
  <2>3. [status |-> 0, source |-> Head(expired)] \in Message
    BY <2>1 DEF Message, Status, Sources, Kinds
  <2>4. \A i \in 1..Len(statusChan') : Honest(statusChan'[i])
    BY <1>13, <2>1, <2>3, AppendProperties DEF OneMode, Monitor, Honest
  <2> QED
    BY <1>1, <1>13, <2>2, <2>4 DEF OneMode, Monitor, proc, Applied
<1>14. ASSUME NEW h \in Handlers, HandlerReceive(h) PROVE OneMode'
  <2>1. \A p \in Procs : Honest(msg'[p])
    BY <1>1, <1>14 DEF OneMode, TypeOK, HandlerReceive, Honest
  <2> QED
    BY <1>1, <1>14, <2>1 DEF OneMode, TypeOK, HandlerReceive, Fetch, Goto, redis, Decided, Procs, Applied
<1>15. ASSUME NEW h \in Handlers, HandlerPublish(h) PROVE OneMode'
  <2>1. statusChan \in Seq(Message) /\ msg[h] \in Message /\ Honest(msg[h])
    BY <1>1 DEF OneMode, TypeOK, Procs
  <2>2. \A i \in 1..Len(statusChan') : Honest(statusChan'[i])
    BY <1>15, <2>1, AppendProperties DEF OneMode, HandlerPublish
  <2> QED
    BY <1>1, <1>15, <2>2 DEF OneMode, TypeOK, HandlerPublish, Goto, redis, Decided, Procs, Applied
<1>16. CASE StatusTake
  <2>1. statusChan \in Seq(Message) /\ statusChan # <<>>
    BY <1>1, <1>16 DEF TypeOK, StatusTake
  <2>2. (\A i \in 1..Len(statusChan') : Honest(statusChan'[i])) /\ Honest(Head(statusChan))
    BY <1>16, <2>1, TailProperties DEF OneMode, StatusTake
  <2> QED
    BY <1>1, <1>16, <2>2 DEF OneMode, TypeOK, StatusTake, Fetch, Goto, redis, Decided, Procs, Applied
<1>17. CASE StatusDecide
  BY <1>1, <1>17 DEF OneMode, TypeOK, StatusDecide, Goto, redis, Decided, Procs, Applied
<1>18. CASE StatusSetTimeout
  BY <1>1, <1>18 DEF OneMode, TypeOK, StatusSetTimeout, Goto, Decided, Procs, Applied
<1>19. CASE StatusUpdate
  BY <1>1, <1>19 DEF OneMode, TypeOK, StatusUpdate, Goto, redis, Decided, Procs, Applied
<1>20. CASE StatusNotify
  BY <1>1, <1>20 DEF OneMode, TypeOK, StatusNotify, Goto, Decided, Procs, Applied
<1>21. ~ChangeConfig
  BY <1>1 DEF ChangeConfig, Reliable, TypeOK
<1> QED
  BY <1>2, <1>3, <1>4, <1>5, <1>6, <1>7, <1>8, <1>9, <1>10, <1>11, <1>12, <1>13, <1>14, <1>15, <1>16,
     <1>17, <1>18, <1>19, <1>20, <1>21 DEF Next, Uplink, Handler, StatusUplink, Procs

LEMMA WatchedNext ==
    ASSUME Reliable, TypeInv, TypeOK', mode # "message", OneMode, ToBeWatched => Watched, [Next]_vars
    PROVE  (ToBeWatched => Watched)'
<1> USE StatusAssumption DEF StatusAssumption
<1>1. mode' = mode /\ ~Fault /\ TypeOK /\ mode \in Kinds
  BY ModeStays DEF TypeInv, TypeOK, AllModes, Kinds
<1>2. \A m : TakesDown(m)' <=> TakesDown(m)
  BY <1>1 DEF TakesDown, Applied
<1>3. CASE UNCHANGED vars
  BY <1>1, <1>2, <1>3 DEF ToBeWatched, Watched, vars, redis, proc
<1>4. ASSUME NEW u \in Uplinks, UplinkReceive(u) PROVE (ToBeWatched => Watched)'
  BY <1>1, <1>2, <1>4 DEF ToBeWatched, Watched, TypeOK, UplinkReceive, Fetch, Goto, redis, Procs
<1>5. ASSUME NEW p \in Procs, Fill(p) PROVE (ToBeWatched => Watched)'
  BY <1>1, <1>2, <1>5 DEF ToBeWatched, Watched, TypeOK, Fill, Fetched, Goto, Procs
<1>6. ASSUME NEW p \in Procs, Invalidate(p) PROVE (ToBeWatched => Watched)'
  BY <1>1, <1>2, <1>6 DEF ToBeWatched, Watched, TypeOK, Invalidate, Goto, Procs
<1>7. ASSUME NEW u \in Uplinks, UplinkDecide(u) PROVE (ToBeWatched => Watched)'
  BY <1>1, <1>2, <1>7 DEF ToBeWatched, Watched, TypeOK, UplinkDecide, Goto, redis, Procs
<1>8. ASSUME NEW u \in Uplinks, UplinkUpdate(u) PROVE (ToBeWatched => Watched)'
  BY <1>1, <1>8 DEF Watched, TypeOK, UplinkUpdate, Goto, Procs
<1>9. ASSUME NEW u \in Uplinks, UplinkAgain(u) PROVE (ToBeWatched => Watched)'
  BY <1>1, <1>9 DEF Watched, TypeOK, UplinkAgain, Goto, Procs
<1>10. ASSUME NEW u \in Uplinks, UplinkReload(u) PROVE (ToBeWatched => Watched)'
  BY <1>1, <1>10 DEF Watched, TypeOK, UplinkReload, Fetch, Goto, Procs
<1>11. ASSUME NEW u \in Uplinks, UplinkRefill(u) PROVE (ToBeWatched => Watched)'
  BY <1>1, <1>11 DEF Watched, TypeOK, UplinkRefill, Goto, Procs
<1>12. ASSUME NEW u \in Uplinks, UplinkRefresh(u) PROVE (ToBeWatched => Watched)'
  <2>1. conf[u] = mode
    BY <1>12 DEF OneMode, UplinkRefresh, Decided
  <2> QED
    BY <1>1, <1>12, <2>1 DEF Watched, UplinkRefresh
<1>13. ASSUME NEW k \in Kinds, Expire(k) PROVE (ToBeWatched => Watched)'
  <2>1. expired \in Seq(Kinds) /\ expired' = Append(expired, k)
    BY <1>1, <1>13 DEF TypeOK, Expire, Reliable
  <2>2. expired' # <<>>
    BY <2>1, AppendProperties
  <2> QED
    BY <2>2 DEF Watched
<1>14. CASE Monitor
  <2>1. /\ expired \in Seq(Kinds) /\ expired # <<>> /\ statusChan \in Seq(Message)
        /\ Head(expired) \in Kinds /\ Head(expired) = expired[1] /\ Len(expired) >= 1
    BY <1>1, <1>14, TailProperties DEF TypeOK, Monitor
  <2>2. Head(expired) = mode
    BY <2>1 DEF OneMode
  <2>3. [status |-> 0, source |-> Head(expired)] \in Message
    BY <2>1 DEF Message, Status, Sources, Kinds
  <2>4. /\ Len(statusChan) + 1 \in 1..Len(statusChan')
        /\ statusChan'[Len(statusChan) + 1] = [status |-> 0, source |-> mode]
    BY <1>14, <2>1, <2>2, <2>3, AppendProperties DEF Monitor
  <2>5. TakesDown(statusChan'[Len(statusChan) + 1])
    BY <1>1, <2>4 DEF TakesDown, Applied
  <2> QED
    BY <1>2, <2>4, <2>5 DEF Watched
<1>15. ASSUME NEW h \in Handlers, HandlerReceive(h) PROVE (ToBeWatched => Watched)'
  BY <1>1, <1>2, <1>15 DEF ToBeWatched, Watched, TypeOK, HandlerReceive, Fetch, Goto, redis, Procs
<1>16. ASSUME NEW h \in Handlers, HandlerPublish(h) PROVE (ToBeWatched => Watched)'
  <2>1. statusChan \in Seq(Message) /\ msg[h] \in Message
    BY <1>1 DEF TypeOK, Procs
  <2>2. \A i \in 1..Len(statusChan) :
          i \in 1..Len(statusChan') /\ statusChan'[i] = statusChan[i]
    BY <1>16, <2>1, AppendProperties DEF HandlerPublish
  <2> QED
    BY <1>1, <1>2, <1>16, <2>2 DEF ToBeWatched, Watched, TypeOK, HandlerPublish, Goto, redis, Procs
<1>17. CASE StatusTake
  <2>1. statusChan \in Seq(Message) /\ statusChan # <<>>
    BY <1>1, <1>17 DEF TypeOK, StatusTake
  <2>2. /\ Len(statusChan) \in Nat /\ Len(statusChan') = Len(statusChan) - 1
        /\ statusChan[1] = Head(statusChan)
        /\ \A i \in 1..Len(statusChan') : statusChan'[i] = statusChan[i + 1]
    BY <1>17, <2>1, TailProperties DEF StatusTake
  <2>3. /\ msg'["status"] = Head(statusChan) /\ pc'["status"] \in {"fill", "check"}
        /\ \A u \in Uplinks : pc'[u] = pc[u]
    BY <1>1, <1>17 DEF TypeOK, StatusTake, Fetch, Goto, Procs
  <2>4. ASSUME NEW i \in 1..Len(statusChan), TakesDown(statusChan[i]) PROVE Watched'
    <3>1. CASE i = 1
      BY <1>2, <2>2, <2>3, <2>4, <3>1 DEF Watched
    <3>2. CASE i # 1
      <4>1. i - 1 \in 1..Len(statusChan') /\ statusChan'[i - 1] = statusChan[i]
        BY <2>2, <3>2
      <4> QED
        BY <1>2, <2>4, <4>1 DEF Watched
    <3> QED
      BY <3>1, <3>2
  <2> QED
    BY <1>1, <1>2, <1>17, <2>3, <2>4 DEF ToBeWatched, Watched, StatusTake, redis
<1>18. CASE StatusDecide
  <2>1. msg["status"] \in Message /\ Honest(msg["status"])
    BY <1>1 DEF OneMode, TypeOK, Procs
  <2>2. /\ pc["status"] = "check" /\ \A u \in Uplinks : pc'[u] = pc[u]
        /\ UNCHANGED <<online, keys, expired, statusChan, msg>>
    BY <1>18 DEF TypeOK, StatusDecide, Goto, redis, Procs
  <2>3. pc'["status"] = "update" =>
          Applied(msg["status"]) /\ ~(mode = "timeout" /\ msg["status"].status = 1)
    BY <1>1, <1>18 DEF TypeOK, StatusDecide, Goto, Procs
  <2>4. TakesDown(msg["status"]) => pc'["status"] = "update"
    BY <1>1, <1>18 DEF TypeOK, StatusDecide, Goto, Procs, TakesDown
  <2>5. pc'["status"] = "update" => msg["status"].status # 1
    BY <1>1, <2>1, <2>3 DEF Applied, Honest, Kinds
  <2> QED
    BY <1>1, <1>2, <2>2, <2>4, <2>5 DEF ToBeWatched, Watched
<1>19. CASE StatusSetTimeout
  BY <1>1, <1>19 DEF OneMode, Watched, StatusSetTimeout
<1>20. CASE StatusUpdate
  <2>1. msg["status"].status \in Status
    BY <1>1 DEF TypeOK, Message, Procs
  <2>2. /\ pc["status"] = "update" /\ pc'["status"] = "invalidate"
        /\ \A u \in Uplinks : pc'[u] = pc[u]
        /\ UNCHANGED <<keys, expired, statusChan, msg>>
        /\ online' = msg["status"].status
    BY <1>1, <1>20 DEF TypeOK, StatusUpdate, SetOnline, Goto, redis, Procs
  <2>3. CASE msg["status"].status = 0
    BY <2>2, <2>3 DEF ToBeWatched
  <2>4. CASE msg["status"].status = 1
    BY <1>1, <1>2, <2>2, <2>4 DEF ToBeWatched, Watched, TakesDown
  <2> QED
    BY <2>1, <2>3, <2>4 DEF Status
<1>21. CASE StatusNotify
  BY <1>1, <1>2, <1>21 DEF ToBeWatched, Watched, TypeOK, StatusNotify, Goto, Procs
<1>22. ~ChangeConfig
  BY <1>1 DEF ChangeConfig, Reliable, TypeOK
<1> QED
  BY <1>3, <1>4, <1>5, <1>6, <1>7, <1>8, <1>9, <1>10, <1>11, <1>12, <1>13, <1>14, <1>15, <1>16,
     <1>17, <1>18, <1>19, <1>20, <1>21, <1>22 DEF Next, Uplink, Handler, StatusUplink, Procs

(* If no call fails, no expiry event is lost and the configuration stays,  *)
(* then in heartbeat and timeout mode something is always under way that   *)
(* will bring an online device offline: the race of the uplinks' stale     *)
(* reads with the expiry leaves no device online and forgotten.            *)
THEOREM OnlineDeviceIsWatched ==
    ASSUME Reliable
    PROVE  Spec => []OnlineIsWatched
<1>1. TypeInv /\ [Next]_vars => TypeInv'
  BY TypeNext, ConfNext DEF TypeInv
<1>2. TypeInv /\ WatchInv /\ [Next]_vars => WatchInv'
  <2> SUFFICES ASSUME TypeInv, WatchInv, [Next]_vars, (mode # "message")'
               PROVE  OneMode' /\ (ToBeWatched => Watched)'
    BY DEF WatchInv
  <2>1. TypeOK' /\ mode # "message"
    BY <1>1, ModeStays DEF TypeInv
  <2>2. OneMode /\ (ToBeWatched => Watched)
    BY <2>1 DEF WatchInv
  <2> QED
    BY <2>1, <2>2, OneModeNext, WatchedNext
<1>3. WatchInv => OnlineIsWatched
  BY DEF WatchInv, OnlineIsWatched, ToBeWatched
<1> QED
  BY <1>1, <1>2, <1>3, TypeInit, WatchInit, PTL DEF Spec

-----------------------------------------------------------------------------
(* No change to online goes untold.                                        *)

(* What a step of one goroutine does to the number of those that have      *)
(* still to tell.                                                          *)
LEMMA TellingChange ==
    ASSUME NEW p \in Procs,
           \A q \in Procs \ {p} : pc'[q] = pc[q] /\ msg'[q] = msg[q]
    PROVE  /\ Cardinality(Telling) \in Nat /\ Cardinality(Telling)' \in Nat
           /\ (p \in Telling <=> p \in Telling') => Cardinality(Telling)' = Cardinality(Telling)
           /\ p \notin Telling /\ p \in Telling' => Cardinality(Telling)' = Cardinality(Telling) + 1
           /\ p \in Telling /\ p \notin Telling' => Cardinality(Telling)' = Cardinality(Telling) - 1
<1>1. Telling \subseteq Uplinks \cup {"status"} /\ Telling' \subseteq Uplinks \cup {"status"}
  BY DEF Telling
<1>2. IsFiniteSet(Uplinks \cup {"status"})
  BY UplinksAssumption, FS_AddElement DEF UplinksAssumption
<1>3. IsFiniteSet(Telling) /\ IsFiniteSet(Telling')
  BY <1>1, <1>2, FS_Subset
<1>4. \A q \in Uplinks \cup {"status"} : q # p => (q \in Telling <=> q \in Telling')
  BY DEF Telling, Procs
<1>5. CASE p \in Telling <=> p \in Telling'
  <2>1. Telling' = Telling
    BY <1>1, <1>4, <1>5
  <2> QED
    BY <1>3, <1>5, <2>1, FS_CardinalityType
<1>6. CASE p \notin Telling /\ p \in Telling'
  <2>1. Telling' = Telling \cup {p}
    BY <1>1, <1>4, <1>6
  <2> QED
    BY <1>3, <1>6, <2>1, FS_CardinalityType, FS_AddElement
<1>7. CASE p \in Telling /\ p \notin Telling'
  <2>1. Telling' = Telling \ {p}
    BY <1>1, <1>4, <1>7
  <2> QED
    BY <1>3, <1>7, <2>1, FS_CardinalityType, FS_RemoveElement
<1> QED
  BY <1>5, <1>6, <1>7

LEMMA NoticeInit == Init => NoMissedNotice
<1> SUFFICES ASSUME Init PROVE NoMissedNotice
  OBVIOUS
<1>1. Telling = {}
  BY DEF Init, Telling, Procs
<1> QED
  BY <1>1, FS_EmptySet DEF Init, NoMissedNotice

LEMMA NoticeNext ==
    ASSUME TypeOK, NoMissedNotice, [Next]_vars
    PROVE  NoMissedNotice'
<1> USE StatusAssumption DEF StatusAssumption
<1> DEFINE Moves(p) == \A q \in Procs \ {p} : pc'[q] = pc[q] /\ msg'[q] = msg[q]
           n == Cardinality(Telling)
<1>t. /\ ups \in Nat /\ notices \in Nat /\ faults \in Nat /\ ups <= notices + n + faults
      /\ pc \in [Procs -> Places] /\ msg \in [Procs -> Message] /\ online \in Status
      /\ \A u \in Uplinks : u \in Procs /\ u # "status"
      /\ \A h \in Handlers : h \in Procs /\ h # "status" /\ h \notin Uplinks
      /\ "status" \in Procs /\ "status" \notin Uplinks
  BY DEF TypeOK, NoMissedNotice, Procs
<1>u. \A u \in Uplinks :
         /\ u \in Telling <=> pc[u] \in {"invalidate", "again", "reload", "refill"}
         /\ u \in Telling' <=> pc'[u] \in {"invalidate", "again", "reload", "refill"}
  BY <1>t DEF Telling
<1>s. /\ "status" \in Telling <=> pc["status"] \in {"invalidate", "again"} /\ msg["status"].status = 1
      /\ "status" \in Telling' <=> pc'["status"] \in {"invalidate", "again"} /\ msg'["status"].status = 1
  BY <1>t DEF Telling
<1>h. \A h \in Handlers : h \notin Telling /\ h \notin Telling'
  BY <1>t DEF Telling
<1>g. ups' <= notices' + n' + faults' => NoMissedNotice'
  BY DEF NoMissedNotice
<1>n. ASSUME NEW p \in Procs, Moves(p)
      PROVE  /\ n \in Nat /\ n' \in Nat
             /\ (p \in Telling <=> p \in Telling') => n' = n
             /\ p \notin Telling /\ p \in Telling' => n' = n + 1
             /\ p \in Telling /\ p \notin Telling' => n' = n - 1
  BY <1>n, TellingChange
<1> HIDE DEF n
<1>f. Fault \/ UNCHANGED faults => faults' \in Nat /\ faults' >= faults
  BY <1>t DEF Fault
(* Steps that begin and end no telling.                                    *)
<1>1. ASSUME NEW p \in Procs, Moves(p), p \in Telling <=> p \in Telling',
             UNCHANGED <<ups, notices>>, Fault \/ UNCHANGED faults
      PROVE  NoMissedNotice'
  BY <1>1, <1>t, <1>n, <1>f, <1>g
<1>2. ASSUME NEW u \in Uplinks, UplinkReceive(u) PROVE NoMissedNotice'
  <2>1. Moves(u) /\ UNCHANGED <<ups, notices, faults>> /\ pc[u] = "idle" /\ pc'[u] \in {"check", "fill"}
    BY <1>t, <1>2 DEF UplinkReceive, Fetch, Goto
  <2> QED
    BY <1>1, <1>t, <1>u, <2>1
<1>3. ASSUME NEW p \in Procs, Fill(p) PROVE NoMissedNotice'
  <2>1. /\ Moves(p) /\ UNCHANGED <<ups, notices>> /\ (Fault \/ UNCHANGED faults)
        /\ pc[p] = "fill" /\ pc'[p] \in {"publish", "check", "idle"}
    BY <1>t, <1>3 DEF Fill, Fetched, Goto, ghosts
  <2>2. p \notin Telling /\ p \notin Telling'
    BY <2>1 DEF Telling
  <2> QED
    BY <1>1, <2>1, <2>2
<1>4. ASSUME NEW p \in Procs, Invalidate(p) PROVE NoMissedNotice'
  <2>1. /\ Moves(p) /\ UNCHANGED <<ups, notices, msg>> /\ (Fault \/ UNCHANGED faults)
        /\ pc[p] = "invalidate" /\ pc'[p] = "again"
    BY <1>t, <1>4 DEF Invalidate, Goto, ghosts
  <2>2. p \in Telling <=> p \in Telling'
    BY <2>1 DEF Telling
  <2> QED
    BY <1>1, <2>1, <2>2
<1>5. ASSUME NEW u \in Uplinks, UplinkDecide(u) PROVE NoMissedNotice'
  <2>1. /\ Moves(u) /\ UNCHANGED <<ups, notices>> /\ (Fault \/ UNCHANGED faults)
        /\ pc[u] = "check" /\ pc'[u] \in {"idle", "refresh", "update"}
    BY <1>t, <1>5 DEF UplinkDecide, Goto, ghosts
  <2> QED
    BY <1>1, <1>t, <1>u, <2>1
(* The write of the row: one more has to tell, or the call has failed.     *)
<1>6. ASSUME NEW u \in Uplinks, UplinkUpdate(u) PROVE NoMissedNotice'
  <2>1. Moves(u) /\ notices' = notices /\ pc[u] = "update"
    BY <1>t, <1>6 DEF UplinkUpdate, Goto
  <2>2. CASE UNCHANGED ups /\ Fault /\ pc'[u] = "idle"
    BY <1>1, <1>t, <1>u, <2>1, <2>2
  <2>3. CASE ups' \in {ups, ups + 1} /\ UNCHANGED faults /\ pc'[u] = "invalidate"
    <3>1. n' = n + 1 /\ n \in Nat
      BY <1>t, <1>n, <1>u, <2>1, <2>3
    <3> QED
      BY <1>t, <1>g, <2>1, <2>3, <3>1
  <2> QED
    BY <1>t, <1>6, <2>2, <2>3 DEF UplinkUpdate, SetOnline, Goto
<1>7. ASSUME NEW u \in Uplinks, UplinkAgain(u) PROVE NoMissedNotice'
  <2>1. /\ Moves(u) /\ UNCHANGED <<ups, notices>> /\ (Fault \/ UNCHANGED faults)
        /\ pc[u] = "again" /\ pc'[u] = "reload"
    BY <1>t, <1>7 DEF UplinkAgain, Goto, ghosts
  <2> QED
    BY <1>1, <1>t, <1>u, <2>1
(* The device is there again: it tells, or the call has failed.            *)
<1>8. ASSUME NEW u \in Uplinks, UplinkReload(u) \/ UplinkRefill(u) PROVE NoMissedNotice'
  <2>1. Moves(u) /\ ups' = ups /\ pc[u] \in {"reload", "refill"}
    BY <1>t, <1>8 DEF UplinkReload, UplinkRefill, Fetch, Goto
  <2>2. CASE pc'[u] = "refill" /\ UNCHANGED <<notices, faults>>
    BY <1>1, <1>t, <1>u, <2>1, <2>2
  <2>3. CASE pc'[u] \notin {"invalidate", "again", "reload", "refill"} /\ notices' + faults' = notices + faults + 1
    <3>1. n' = n - 1 /\ n \in Nat
      BY <1>t, <1>n, <1>u, <2>1, <2>3
    <3>2. ups <= (notices + faults + 1) + (n - 1)
      BY <1>t, <3>1
    <3>3. notices' \in Nat /\ faults' \in Nat
      BY <1>8, <1>t DEF UplinkReload, UplinkRefill, Fault
    <3> QED
      BY <1>t, <1>g, <2>1, <2>3, <3>1, <3>2, <3>3
  <2> QED
    BY <1>t, <1>8, <2>2, <2>3 DEF UplinkReload, UplinkRefill, Fetch, Fault, Goto
<1>9. ASSUME NEW u \in Uplinks, UplinkRefresh(u) PROVE NoMissedNotice'
  <2>1. /\ Moves(u) /\ UNCHANGED <<ups, notices>> /\ (Fault \/ UNCHANGED faults)
        /\ pc[u] = "refresh" /\ pc'[u] = "idle"
    BY <1>t, <1>9 DEF UplinkRefresh, Goto, ghosts
  <2> QED
    BY <1>1, <1>t, <1>u, <2>1
<1>10. ASSUME NEW h \in Handlers, HandlerReceive(h) \/ HandlerPublish(h) PROVE NoMissedNotice'
  <2>1. Moves(h) /\ UNCHANGED <<ups, notices, faults>>
    BY <1>t, <1>10 DEF HandlerReceive, HandlerPublish, Fetch, Goto, bounds
  <2> QED
    BY <1>1, <1>t, <1>h, <2>1
<1>11. CASE StatusTake
  <2>1. /\ Moves("status") /\ UNCHANGED <<ups, notices>> /\ (Fault \/ UNCHANGED faults)
        /\ pc["status"] = "idle" /\ pc'["status"] \in {"idle", "check", "fill"}
    BY <1>t, <1>11 DEF StatusTake, Fetch, Goto, ghosts
  <2> QED
    BY <1>1, <1>t, <1>s, <2>1
<1>12. CASE StatusDecide \/ StatusSetTimeout
  <2>1. /\ Moves("status") /\ UNCHANGED <<ups, notices>> /\ (Fault \/ UNCHANGED faults)
        /\ pc["status"] \in {"check", "setTimeout"} /\ pc'["status"] \in {"idle", "setTimeout", "update"}
    BY <1>t, <1>12 DEF StatusDecide, StatusSetTimeout, Goto, ghosts
  <2> QED
    BY <1>1, <1>t, <1>s, <2>1
<1>13. CASE StatusUpdate
  <2>1. Moves("status") /\ UNCHANGED <<notices, msg>> /\ pc["status"] = "update"
    BY <1>t, <1>13 DEF StatusUpdate, Goto
  <2>2. CASE UNCHANGED ups /\ (Fault \/ UNCHANGED faults) /\ pc'["status"] = "idle"
    BY <1>1, <1>t, <1>s, <2>1, <2>2
  <2>3. CASE ups' \in {ups, ups + 1} /\ UNCHANGED faults /\ pc'["status"] = "invalidate" /\ msg["status"].status = 1
    <3>1. n' = n + 1 /\ n \in Nat
      BY <1>t, <1>n, <1>s, <2>1, <2>3
    <3> QED
      BY <1>t, <1>g, <2>1, <2>3, <3>1
  <2>4. CASE ups' = ups /\ UNCHANGED faults /\ pc'["status"] = "invalidate" /\ msg["status"].status # 1
    BY <1>1, <1>t, <1>s, <2>1, <2>4
  <2> QED
    BY <1>t, <1>13, <2>2, <2>3, <2>4 DEF StatusUpdate, SetOnline, Goto
<1>14. CASE StatusNotify
  <2>1. /\ Moves("status") /\ UNCHANGED <<ups, msg>> /\ pc["status"] = "again" /\ pc'["status"] = "idle"
        /\ notices' = notices + msg["status"].status /\ (Fault \/ UNCHANGED faults)
        /\ msg["status"].status \in Status
    BY <1>t, <1>14 DEF StatusNotify, Goto, Message
  <2>2. CASE msg["status"].status = 1
    <3>1. n' = n - 1 /\ n \in Nat
      BY <1>t, <1>n, <1>s, <2>1, <2>2
    <3>2. notices' = notices + 1 /\ faults' \in Nat /\ faults' >= faults
      BY <1>f, <2>1, <2>2
    <3> QED
      BY <1>t, <1>g, <2>1, <3>1, <3>2
  <2>3. CASE msg["status"].status = 0
    BY <1>1, <1>t, <1>s, <2>1, <2>3
  <2> QED
    BY <2>1, <2>2, <2>3 DEF Status
<1>15. CASE UNCHANGED vars \/ Monitor \/ ChangeConfig \/ \E k \in Kinds : Expire(k)
  <2>1. Moves("status") /\ UNCHANGED <<ups, notices, faults, pc, msg>>
    BY <1>15 DEF vars, proc, bounds, ghosts, Monitor, ChangeConfig, Expire
  <2> QED
    BY <1>1, <1>t, <1>s, <2>1
<1> QED
  BY <1>t, <1>2, <1>3, <1>4, <1>5, <1>6, <1>7, <1>8, <1>9, <1>10, <1>11, <1>12, <1>13, <1>14, <1>15
     DEF Next, Uplink, Handler, StatusUplink

(* No change of the row to online goes untold, whatever each writer has    *)
(* read before and however many there are: the only notices that can be    *)
(* missing are those still to come and one for each call that failed.      *)
THEOREM NoChangeGoesUntold == Spec => []NoMissedNotice
<1>1. TypeOK /\ NoMissedNotice /\ [Next]_vars => NoMissedNotice'
  BY NoticeNext
<1> QED
  BY <1>1, NoticeInit, StatusTypeCorrect, PTL DEF Spec

-----------------------------------------------------------------------------
(* In message mode the row follows the bus.                                *)

Steady == MaxFaults = 0 /\ MaxConfigs = 0

(* No uplink writes the row in message mode; the last status put on the    *)
(* bus is the last one there, or with StatusUplink, or in the row.         *)
BusInv ==
    mode = "message" =>
        /\ \A u \in Uplinks : pc[u] \notin Decided
        /\ \A i \in 1..Len(statusChan) : i = Len(statusChan) => statusChan[i].status = lastPut
        /\ statusChan = <<>> /\ pc["status"] \in {"fill", "check", "setTimeout", "update"}
              => msg["status"].status = lastPut
        /\ statusChan = <<>> /\ pc["status"] \notin {"fill", "check", "setTimeout", "update"}
              => lastPut \in {None, online}

LEMMA BusInit == Init => BusInv
<1>1. Len(<<>>) = 0
  OBVIOUS
<1> QED
  BY <1>1, StatusAssumption DEF StatusAssumption, Init, BusInv, Decided, Procs

LEMMA BusNext ==
    ASSUME Steady, TypeInv, BusInv, [Next]_vars
    PROVE  BusInv'
<1> USE StatusAssumption DEF StatusAssumption
<1>0. TypeOK /\ ~Fault /\ ~ChangeConfig
  BY DEF Steady, TypeInv, TypeOK, Fault, ChangeConfig
<1>m. mode' = mode
  BY <1>0 DEF vars, Next, Uplink, Handler, StatusUplink, UplinkReceive, Fill, UplinkDecide, UplinkUpdate,
     Invalidate, UplinkAgain, UplinkReload, UplinkRefill, UplinkRefresh, HandlerReceive, HandlerPublish,
     Expire, Monitor, StatusTake, StatusDecide, StatusSetTimeout, StatusUpdate, StatusNotify
<1> SUFFICES ASSUME mode = "message"
             PROVE  BusInv'
  BY <1>m DEF BusInv
<1>t. /\ pc \in [Procs -> Places] /\ msg \in [Procs -> Message] /\ statusChan \in Seq(Message)
      /\ \A u \in Uplinks : u \in Procs /\ u # "status"
      /\ \A h \in Handlers : h \in Procs /\ h # "status" /\ h \notin Uplinks
      /\ "status" \in Procs /\ "status" \notin Uplinks
  BY <1>0 DEF TypeOK, Procs
<1>i. /\ \A u \in Uplinks : pc[u] \notin Decided
      /\ \A i \in 1..Len(statusChan) : i = Len(statusChan) => statusChan[i].status = lastPut
      /\ statusChan = <<>> /\ pc["status"] \in {"fill", "check", "setTimeout", "update"}
            => msg["status"].status = lastPut
      /\ statusChan = <<>> /\ pc["status"] \notin {"fill", "check", "setTimeout", "update"}
            => lastPut \in {None, online}
  BY DEF BusInv
<1>1. ASSUME UNCHANGED <<statusChan, lastPut, online>>, pc'["status"] = pc["status"],
             msg'["status"] = msg["status"], \A u \in Uplinks : pc'[u] \notin Decided
      PROVE  BusInv'
  BY <1>1, <1>i DEF BusInv
<1>2. ASSUME NEW u \in Uplinks, UplinkReceive(u) \/ Uplink(u) PROVE BusInv'
  <2>1. UplinkReceive(u) \/ Fill(u) \/ UplinkDecide(u)
    BY <1>2, <1>i DEF Uplink, Decided, UplinkUpdate, Invalidate, UplinkAgain, UplinkReload,
       UplinkRefill, UplinkRefresh
  <2>2. /\ pc' = [pc EXCEPT ![u] = pc'[u]] /\ pc'[u] \in {"idle", "check", "fill"}
        /\ UNCHANGED <<statusChan, lastPut, online, msg>>
    BY <1>0, <1>t, <2>1 DEF UplinkReceive, Fill, UplinkDecide, Fetch, Fetched, Goto, redis, ghosts
  <2>3. pc'["status"] = pc["status"] /\ \A v \in Uplinks : pc'[v] \notin Decided
    BY <1>t, <1>i, <2>2 DEF Decided
  <2> QED
    BY <1>1, <2>2, <2>3
<1>3. ASSUME NEW h \in Handlers, HandlerReceive(h) \/ Fill(h) PROVE BusInv'
  <2>1. /\ UNCHANGED <<statusChan, lastPut, online>>
        /\ pc' = [pc EXCEPT ![h] = pc'[h]] /\ msg' = [msg EXCEPT ![h] = msg'[h]]
    BY <1>t, <1>3 DEF HandlerReceive, Fill, Fetch, Goto, redis, ghosts
  <2>2. /\ pc'["status"] = pc["status"] /\ msg'["status"] = msg["status"]
        /\ \A u \in Uplinks : pc'[u] \notin Decided
    BY <1>t, <1>i, <2>1
  <2> QED
    BY <1>1, <2>1, <2>2
(* Putting a message on the bus makes it the last one.                     *)
<1>4. ASSUME NEW m \in Message, statusChan' = Append(statusChan, m), lastPut' = m.status,
             \A u \in Uplinks : pc'[u] = pc[u]
      PROVE  BusInv'
  <2>1. /\ Len(statusChan') = Len(statusChan) + 1 /\ statusChan' # <<>>
        /\ statusChan'[Len(statusChan) + 1] = m
    BY <1>t, <1>4, AppendProperties
  <2> QED
    BY <1>4, <1>i, <2>1 DEF BusInv
<1>5. ASSUME NEW h \in Handlers, HandlerPublish(h) PROVE BusInv'
  <2>1. \A u \in Uplinks : pc'[u] = pc[u]
    BY <1>t, <1>5 DEF HandlerPublish, Goto
  <2> QED
    BY <1>t, <1>4, <1>5, <2>1 DEF HandlerPublish
<1>6. CASE Monitor
  <2>1. expired \in Seq(Kinds) /\ expired # <<>>
    BY <1>0, <1>6 DEF TypeOK, Monitor
  <2>2. [status |-> 0, source |-> Head(expired)] \in Message
    BY <2>1, TailProperties DEF Message, Status, Sources, Kinds
  <2> QED
    BY <1>4, <1>6, <2>2 DEF Monitor, proc
<1>7. CASE StatusTake
  <2>1. /\ Len(statusChan) \in Nat /\ Len(statusChan') = Len(statusChan) - 1 /\ statusChan' \in Seq(Message)
        /\ statusChan[1] = Head(statusChan)
        /\ \A i \in 1..Len(statusChan') : statusChan'[i] = statusChan[i + 1]
    BY <1>t, <1>7, TailProperties DEF StatusTake
  <2>2. statusChan' = <<>> => Len(statusChan) = 1
    BY <2>1
  <2>3. /\ pc'["status"] \in {"fill", "check"} /\ msg'["status"] = Head(statusChan)
        /\ UNCHANGED lastPut /\ \A u \in Uplinks : pc'[u] = pc[u]
    BY <1>t, <1>0, <1>7 DEF StatusTake, Fetch, Goto, ghosts
  <2>4. statusChan' = <<>> => msg'["status"].status = lastPut'
    <3>1. Len(statusChan) = 1 => 1 \in 1..Len(statusChan)
      BY <2>1
    <3>2. Len(statusChan) = 1 => statusChan[1].status = lastPut
      BY <1>i, <3>1
    <3> QED
      BY <2>1, <2>2, <2>3, <3>2
  <2>5. \A i \in 1..Len(statusChan') : i = Len(statusChan') => statusChan'[i].status = lastPut'
    BY <1>i, <2>1, <2>3
  <2> QED
    BY <1>i, <2>3, <2>4, <2>5 DEF BusInv
<1>8. CASE Fill("status") \/ StatusDecide \/ StatusSetTimeout
  <2>1. /\ pc["status"] \in {"fill", "check", "setTimeout"} /\ pc'["status"] \in {"check", "setTimeout", "update"}
        /\ UNCHANGED <<statusChan, lastPut, msg>> /\ \A u \in Uplinks : pc'[u] = pc[u]
    BY <1>t, <1>0, <1>8 DEF Fill, Fetched, StatusDecide, StatusSetTimeout, Applied, Goto, ghosts, redis
  <2> QED
    BY <1>i, <2>1 DEF BusInv
<1>9. CASE StatusUpdate
  <2>1. /\ pc["status"] = "update" /\ pc'["status"] = "invalidate" /\ online' = msg["status"].status
        /\ UNCHANGED <<statusChan, lastPut>> /\ \A u \in Uplinks : pc'[u] = pc[u]
    BY <1>t, <1>0, <1>9 DEF StatusUpdate, SetOnline, Goto, redis
  <2> QED
    BY <1>i, <2>1 DEF BusInv
<1>10. CASE Invalidate("status") \/ StatusNotify
  <2>1. /\ pc["status"] \in {"invalidate", "again"} /\ pc'["status"] \in {"again", "idle"}
        /\ UNCHANGED <<statusChan, lastPut, online>> /\ \A u \in Uplinks : pc'[u] = pc[u]
    BY <1>t, <1>10 DEF Invalidate, StatusNotify, Goto, ghosts
  <2> QED
    BY <1>i, <2>1 DEF BusInv
<1>11. CASE UNCHANGED vars \/ \E k \in Kinds : Expire(k)
  BY <1>1, <1>11, <1>i DEF vars, proc, ghosts, redis, Expire
<1> QED
  BY <1>0, <1>2, <1>3, <1>5, <1>6, <1>7, <1>8, <1>9, <1>10, <1>11
     DEF Next, Handler, StatusUplink

(* In message mode, without failing calls and edits of the configuration,  *)
(* the row ends with the last status that was put on the bus: neither the  *)
(* uplinks nor stale copies nor late deletions of the copy disturb it.     *)
THEOREM RowFollowsBus ==
    ASSUME Steady
    PROVE  Spec => []FollowsBusOrder
<1>1. TypeInv /\ BusInv /\ [Next]_vars => TypeInv' /\ BusInv'
  BY TypeNext, ConfNext, BusNext DEF TypeInv
<1>2. BusInv => FollowsBusOrder
  BY DEF BusInv, FollowsBusOrder, StatusQuiet
<1> QED
  BY <1>1, <1>2, TypeInit, BusInit, PTL DEF Spec
=============================================================================
