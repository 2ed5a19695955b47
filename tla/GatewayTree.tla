---------------------------- MODULE GatewayTree ----------------------------
(***************************************************************************)
(* Devices under gateways, and gateways under gateways: the rows (parent   *)
(* and address), the copies of the rows in Redis that the routing reads,   *)
(* the calls that bind, move, configure and delete devices, a command on   *)
(* its way down and the answer to it on its way up.  A message for a device*)
(* below a gateway goes to the topmost gateway and names the addresses it  *)
(* has to pass; what comes up names them too, and is looked up row by row. *)
(***************************************************************************)
EXTENDS Integers, Sequences, FiniteSets, SequencesExt

CONSTANTS
    GtDevices,
    GtKinds,      \* the kind of device of the configuration of each at the start
    GtAbsent,     \* devices that are not there at the start
    GtRequests,   \* what may be asked of the API
    GtCallers,    \* calls that may run at the same time
    GtDownLevels, \* maxDepth of findTopLevelGateway: 10
    GtUpLevels,   \* depth of processSubGateways: 5
    GtMaxCalls,   \* bound: calls
    GtMaxSends    \* bound: messages sent down

GtConfigs == {"none", "direct", "gateway", "sub"}
GtRequest == [op : {"bind", "remove", "delete", "config", "update", "create", "register"},
              parent : GtDevices \cup {"none"}, devices : Seq(GtDevices), kind : GtConfigs]

(* The devices are rows of a table.                                         *)
ASSUME GtDevicesAssumption == IsFiniteSet(GtDevices)

ASSUME GtAssumption ==
    /\ GtKinds \in [GtDevices -> GtConfigs] /\ "none" \notin GtDevices
    /\ GtAbsent \subseteq GtDevices
    /\ \A r \in GtRequests : r \in GtRequest /\ r.devices # <<>>
    /\ {GtDownLevels, GtUpLevels, GtMaxCalls, GtMaxSends} \subseteq Nat

VARIABLES
    gtRow,    \* the row of each device
    gtCopy,   \* its copy in Redis
    gtRead,   \* a row that another reader has read and is going to store
    gtCall,   \* what each call does
    gtSend,   \* the message that is being sent down
    gtSent,   \* the one that is with the topmost gateway
    gtHeard,  \* of the last answer: who it was for and whose it was taken to be
    gtDown,   \* the process has gone down
    gtCalls, gtSends

gtStore   == <<gtRow, gtCopy, gtRead>>
gtMessage == <<gtSend, gtSent, gtHeard, gtDown, gtSends>>
gtAdmin   == <<gtCall, gtCalls>>
gtVars    == <<gtStore, gtMessage, gtAdmin>>

GtNoRow  == [there |-> FALSE, parent |-> "none", addr |-> "none", kind |-> "none"]
GtNoRead == [device |-> "none", row |-> GtNoRow]
GtIdle   == [at |-> "idle", op |-> "none", parent |-> "none", devices |-> <<>>, kind |-> "none"]
GtNone   == [at |-> "none"]

GtInit ==
    /\ gtRow = [d \in GtDevices |->
           IF d \in GtAbsent THEN GtNoRow
           ELSE [GtNoRow EXCEPT !.there = TRUE, !.kind = GtKinds[d]]]
    /\ gtCopy = [d \in GtDevices |-> GtNoRow]
    /\ gtRead = GtNoRead
    /\ gtCall = [c \in GtCallers |-> GtIdle]
    /\ gtSend = GtNone /\ gtSent = GtNone /\ gtHeard = GtNone
    /\ gtDown = FALSE /\ gtCalls = 0 /\ gtSends = 0

GtChildren(d) == {e \in GtDevices : gtRow[e].there /\ gtRow[e].parent = d}
GtTaken(p, a) == \E e \in GtChildren(p) : gtRow[e].addr = a
GtGateway(d)  == d \in GtDevices /\ gtRow[d].there /\ gtRow[d].kind = "gateway"

-----------------------------------------------------------------------------
(* The calls.  Each one looks at rows, writes one of them and deletes its  *)
(* copy.  The forms offer the gateways that are there; binding, creating   *)
(* and updating a device do not look at its parent.                        *)
GtOf(c) == Head(gtCall[c].devices)
GtGoto(c, place) == gtCall' = [gtCall EXCEPT ![c].at = place]
GtEnd(c) == gtCall' = [gtCall EXCEPT ![c] = GtIdle]

GtBegin(c, r) ==
    /\ gtCall[c].at = "idle" /\ gtCalls < GtMaxCalls
    /\ r.op # "register" /\ r.parent # "none" => GtGateway(r.parent)
    /\ gtCalls' = gtCalls + 1
    /\ gtCall' = [gtCall EXCEPT ![c] = [at |-> "check", op |-> r.op, parent |-> r.parent,
                                        devices |-> r.devices, kind |-> r.kind]]
    /\ UNCHANGED <<gtStore, gtMessage>>

(* CreateSonDevice: only devices of a gateway kind that are not bound yet.  *)
MayBind(c) == LET row == gtRow[GtOf(c)]
              IN  row.there /\ row.parent = "none" /\ row.kind \in {"gateway", "sub"}
(* Mutant: DeleteDevice does not ask for the devices below.                *)
MayDeleteAny(c) == gtRow[GtOf(c)].there
(* DeleteDevice: not while there are devices below it.                     *)
MayDelete(c) == gtRow[GtOf(c)].there /\ GtChildren(GtOf(c)) = {}
(* UpdateDeviceConfig: no gateway with devices, no sub-device with a gateway.*)
MayConfig(c) == LET row == gtRow[GtOf(c)]
                IN  /\ row.there
                    /\ row.kind = "gateway" => GtChildren(GtOf(c)) = {}
                    /\ row.kind = "sub" => row.parent = "none"
(* CreateDevice with an id, and GatewayDeviceRegister with an address.      *)
MayCreate(c)   == ~gtRow[GtOf(c)].there
MayRegister(c) == /\ gtRow[gtCall[c].parent].there /\ ~gtRow[GtOf(c)].there
                  /\ ~GtTaken(gtCall[c].parent, GtOf(c))

GtCheck(c) ==
    /\ gtCall[c].at = "check"
    /\ LET may == CASE gtCall[c].op = "bind" -> MayBind(c)
                    [] gtCall[c].op = "delete" -> MayDelete(c)
                    [] gtCall[c].op = "config" -> MayConfig(c)
                    [] gtCall[c].op = "create" -> MayCreate(c)
                    [] gtCall[c].op = "register" -> MayRegister(c)
                    [] OTHER -> gtRow[GtOf(c)].there
       IN  IF may THEN GtGoto(c, "write") ELSE GtEnd(c)
    /\ UNCHANGED <<gtStore, gtMessage, gtCalls>>

(* From now on an answer may find other rows than the message has.         *)
GtStir(message) == IF message.at = "none" THEN message ELSE [message EXCEPT !.calm = FALSE]
GtWrite(c, row) ==
    /\ gtCall[c].at = "write"
    /\ gtRow' = [gtRow EXCEPT ![GtOf(c)] = row]
    /\ gtSend' = GtStir(gtSend) /\ gtSent' = GtStir(gtSent)
    /\ UNCHANGED <<gtCopy, gtRead, gtHeard, gtDown, gtSends, gtCalls>>

(* CreateSonDevice goes on: the son keeps its copy, and the next one of the *)
(* list is looked at.  Nothing is updated when the son is gone.            *)
WriteBind(c) ==
    /\ gtCall[c].op = "bind"
    /\ LET row == gtRow[GtOf(c)]
       IN  GtWrite(c, IF row.there THEN [row EXCEPT !.parent = gtCall[c].parent, !.addr = GtOf(c)] ELSE row)
    /\ LET call == gtCall[c]
       IN  gtCall' = [gtCall EXCEPT ![c] =
               IF Len(call.devices) = 1 THEN GtIdle
               ELSE [call EXCEPT !.at = "check", !.devices = Tail(call.devices)]]

(* UpdateDeviceByMap and the like: an update that meets no row is an error, *)
(* and the copy stays.                                                     *)
WriteRow(c, row) ==
    IF gtRow[GtOf(c)].there THEN GtWrite(c, row) /\ GtGoto(c, "clear")
                            ELSE GtWrite(c, GtNoRow) /\ GtEnd(c)

RemoveSubDevice(c) ==
    /\ gtCall[c].op = "remove"
    /\ WriteRow(c, [gtRow[GtOf(c)] EXCEPT !.parent = "none", !.addr = "none"])

UpdateDeviceConfig(c) ==
    /\ gtCall[c].op = "config"
    /\ WriteRow(c, [gtRow[GtOf(c)] EXCEPT !.kind = gtCall[c].kind])

(* UpdateDevice asks for nothing of the parent that it writes.              *)
UpdateDevice(c) ==
    /\ gtCall[c].op = "update"
    /\ WriteRow(c, [gtRow[GtOf(c)] EXCEPT !.parent = gtCall[c].parent, !.addr = GtOf(c)])

(* DeleteDevice: one transaction, which does not mind if the row is gone.   *)
WriteDelete(c) ==
    /\ gtCall[c].op = "delete"
    /\ GtWrite(c, GtNoRow)
    /\ GtGoto(c, "clear")

(* CreateDevice and GatewayDeviceRegister insert the row, or fail.          *)
WriteCreate(c) ==
    /\ gtCall[c].op \in {"create", "register"}
    /\ GtWrite(c, IF gtRow[GtOf(c)].there THEN gtRow[GtOf(c)]
                  ELSE [there |-> TRUE, parent |-> gtCall[c].parent, kind |-> gtCall[c].kind,
                        addr |-> IF gtCall[c].parent = "none" THEN "none" ELSE GtOf(c)])
    /\ GtEnd(c)

(* DelDeviceCache.                                                         *)
GtClear(c) ==
    /\ gtCall[c].at = "clear"
    /\ gtCopy' = [gtCopy EXCEPT ![GtOf(c)] = GtNoRow]
    /\ GtEnd(c)
    /\ UNCHANGED <<gtRow, gtRead, gtMessage, gtCalls>>

-----------------------------------------------------------------------------
(* GetDeviceCacheById: the copy, or else the row, which becomes the copy.   *)
(* Whoever reads for something else does so in two steps.                  *)
GtView(d)  == IF gtCopy[d].there THEN gtCopy[d] ELSE gtRow[d]
GtFill(ds) == gtCopy' = [d \in GtDevices |-> IF d \in ds THEN GtView(d) ELSE gtCopy[d]]

GtLoad(d) ==
    /\ gtRead = GtNoRead /\ ~gtCopy[d].there /\ gtRow[d].there
    /\ gtRead' = [device |-> d, row |-> gtRow[d]]
    /\ UNCHANGED <<gtRow, gtCopy, gtMessage, gtAdmin>>

GtKeep ==
    /\ gtRead # GtNoRead
    /\ gtCopy' = [gtCopy EXCEPT ![gtRead.device] = gtRead.row]
    /\ gtRead' = GtNoRead
    /\ UNCHANGED <<gtRow, gtMessage, gtAdmin>>

-----------------------------------------------------------------------------
(* From a device up, as far as there are parents; in a cycle for ever,      *)
(* which is more devices than there are.                                   *)
GtUpFrom(d) ==
    LET up[n \in 0..Cardinality(GtDevices)] ==
            IF n = 0 THEN <<d>>
            ELSE LET next == GtView(Last(up[n - 1])).parent
                 IN  IF next = "none" \/ ~GtView(next).there THEN up[n - 1]
                     ELSE Append(up[n - 1], next)
    IN  up[Cardinality(GtDevices)]
GtEndless(d) == Len(GtUpFrom(d)) > Cardinality(GtDevices)
GtTop(d)     == Last(GtUpFrom(d))

(* buildNestedSubGatewayData: the gateways that have a parent, the nearest  *)
(* one outside.                                                            *)
GtNested(g) ==
    LET up    == GtUpFrom(g)
        bound == IF GtView(Last(up)).parent = "none" THEN Len(up) - 1 ELSE Len(up)
    IN  [i \in 1..bound |-> GtView(up[i]).addr]

(* Mutant: the payload names the device, but not the gateways in between.   *)
GtFlatRoute(d) == IF GtView(d).kind \in {"sub", "gateway"} /\ GtView(d).parent # "none"
                  THEN <<GtView(d).addr>> ELSE <<>>

(* transformCommandDataForMultiLevelGateway: the addresses in the payload,  *)
(* from outside.                                                           *)
GtRoute(d) ==
    LET view == GtView(d)
    IN  IF view.kind = "sub" THEN GtNested(view.parent) \o <<view.addr>>
        ELSE IF view.kind = "gateway" /\ view.parent # "none" THEN <<view.addr>>
        ELSE <<>>

(* All copies are as the rows, also the one that is about to be stored.     *)
GtFresh ==
    /\ \A d \in GtDevices : GtView(d) = gtRow[d]
    /\ \A d \in {gtRead.device} \ {"none"} : gtRead.row = gtRow[d]

(* A command, an attribute or a value to be controlled is sent: the copy of *)
(* the device says what it is.  A sub-device has an address and a parent    *)
(* that is known, and its gateway an address, or it is an error; without a  *)
(* parent, or with a gateway further up that has no address, a null pointer *)
(* is followed, and a cycle of gateways is followed for ever.              *)
GtTransform(d) ==
    /\ gtSend = GtNone /\ gtSent = GtNone /\ gtSends < GtMaxSends
    /\ GtView(d).there
    /\ gtSends' = gtSends + 1
    /\ LET view    == GtView(d)
           sub     == view.kind = "sub"
           known   == sub /\ view.parent # "none" /\ GtView(view.parent).there
           visited == IF known THEN {d} \cup ToSet(GtUpFrom(view.parent)) ELSE {d}
           bad     == \/ sub /\ (view.addr = "none" \/ (view.parent # "none" /\ ~known))
                      \/ known /\ GtNested(view.parent) # <<>> /\ GtView(view.parent).addr = "none"
                      \/ view.kind = "gateway" /\ view.parent # "none" /\ view.addr = "none"
           falls   == \/ sub /\ view.parent = "none"
                      \/ known /\ (GtEndless(view.parent) \/ "none" \in ToSet(GtNested(view.parent)))
       IN  /\ GtFill(visited)
           /\ gtDown' = (gtDown \/ (falls /\ ~bad))
           /\ gtSend' = IF bad \/ falls THEN GtNone
                        ELSE [at |-> "resolve", for |-> d, view |-> view, route |-> GtRoute(d),
                              calm |-> GtFresh]
    /\ UNCHANGED <<gtRow, gtRead, gtSent, gtHeard, gtAdmin>>

(* resolveDeviceInfo: the topmost gateway above the device, which is not    *)
(* too far away and is a gateway, if it has a configuration.  A sub-device  *)
(* counts from its gateway.                                                *)
GtTarget(view) ==
    LET up    == GtUpFrom(view.parent)
        depth == IF view.kind = "sub" THEN Len(up) - 1 ELSE Len(up)
        top   == Last(up)
    IN  IF view.parent = "none" THEN {}
        ELSE {x \in {top} : /\ GtView(x).there /\ GtView(x).parent = "none"
                            /\ depth < GtDownLevels
                            /\ GtView(x).kind \in {"none", "gateway"}}

GtResolve ==
    /\ gtSend.at = "resolve"
    /\ LET view == gtSend.view
           to   == IF view.parent = "none" THEN {gtSend.for} ELSE GtTarget(view)
       IN  /\ GtFill(IF view.parent = "none" \/ ~GtView(view.parent).there THEN {}
                     ELSE ToSet(GtUpFrom(view.parent)))
           /\ gtSent' = IF to = {} THEN GtNone
                        ELSE [at |-> "sent", for |-> gtSend.for, to |-> CHOOSE x \in to : TRUE,
                              route |-> gtSend.route, leaf |-> view.kind, calm |-> gtSend.calm]
    /\ gtSend' = GtNone
    /\ UNCHANGED <<gtRow, gtRead, gtHeard, gtDown, gtSends, gtAdmin>>

-----------------------------------------------------------------------------
(* GetDeviceBySubDeviceAddress, address by address: processSubGateways and  *)
(* then processSubDevices.                                                 *)
GtBelow(found, a) == {e \in GtDevices : gtRow[e].there /\ gtRow[e].parent \in found /\ gtRow[e].addr = a}
GtReached(to, route) ==
    LET found[n \in 0..Len(route)] ==
            IF n = 0 THEN {to} ELSE GtBelow(found[n - 1], route[n])
    IN  found[Len(route)]

(* The gateway answers along the same addresses; below too many gateways    *)
(* nothing is looked at.                                                   *)
GtAnswer ==
    /\ gtSent # GtNone
    /\ LET levels == IF gtSent.leaf = "sub" THEN Len(gtSent.route) - 1 ELSE Len(gtSent.route)
       IN  gtHeard' = [at |-> "heard", for |-> gtSent.for, calm |-> gtSent.calm,
                       got |-> IF GtView(gtSent.to).there /\ levels <= GtUpLevels
                               THEN GtReached(gtSent.to, gtSent.route) ELSE {}]
    /\ gtSent' = GtNone
    /\ GtFill({gtSent.to})
    /\ UNCHANGED <<gtRow, gtRead, gtSend, gtDown, gtSends, gtAdmin>>

GtNext ==
    /\ ~gtDown
    /\ \/ \E c \in GtCallers :
            \/ \E r \in GtRequests : GtBegin(c, r)
            \/ GtCheck(c)
            \/ WriteBind(c)
            \/ RemoveSubDevice(c)
            \/ UpdateDeviceConfig(c)
            \/ UpdateDevice(c)
            \/ WriteDelete(c)
            \/ WriteCreate(c)
            \/ GtClear(c)
       \/ \E d \in GtDevices : GtLoad(d) \/ GtTransform(d)
       \/ GtKeep
       \/ GtResolve
       \/ GtAnswer

GtSpec == GtInit /\ [][GtNext]_gtVars

-----------------------------------------------------------------------------
GtTypeOK ==
    /\ \A d \in GtDevices : {gtRow[d], gtCopy[d]} \subseteq
           [there : BOOLEAN, parent : GtDevices \cup {"none"}, addr : GtDevices \cup {"none"}, kind : GtConfigs]
    /\ \A c \in GtCallers : gtCall[c].at \in {"idle", "check", "write", "clear"}
    /\ gtSend.at \in {"none", "resolve"} /\ gtSent.at \in {"none", "sent"} /\ gtHeard.at \in {"none", "heard"}
    /\ gtDown \in BOOLEAN /\ gtCalls \in 0..GtMaxCalls /\ gtSends \in 0..GtMaxSends

(* What has a parent has one that is there and is a gateway, whatever      *)
(* devices are bound, moved, configured and deleted, one call at a time    *)
(* (device.go; nothing in the schema says so).                             *)
GtBranchesHold ==
    \A d \in GtDevices : gtRow[d].there /\ gtRow[d].parent # "none" => GtGateway(gtRow[d].parent)

(* The answer to a message is never taken to be another device's, although *)
(* copies of rows are old for good after a device was bound and rows change*)
(* while a message is under way.  Not so if a device with a parent is made  *)
(* one that is neither gateway nor sub-device, which UpdateDeviceConfig     *)
(* refuses for sub-devices only and UpdateDevice never.                    *)
GtAnswersOwn == gtHeard # GtNone => gtHeard.got \subseteq {gtHeard.for}

(* The messages down are made like those up: when all copies are as the    *)
(* rows and nothing is written meanwhile, the answer is found to be of the *)
(* device that the message was for (command_data.go, telemetry.go).        *)
GtDownLikeUp == gtHeard # GtNone /\ gtHeard.calm => gtHeard.got = {gtHeard.for}

(* Both, and no message takes the process down on its way.                  *)
GtAnswersReturn == GtAnswersOwn /\ GtDownLikeUp /\ ~gtDown
=============================================================================
