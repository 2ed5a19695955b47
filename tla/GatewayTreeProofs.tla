--------------------------- MODULE GatewayTreeProofs ---------------------------
(***************************************************************************)
(* Theorems about the tree of the gateways: its branches, and the messages *)
(* that go down along them and come back.                                  *)
(***************************************************************************)
EXTENDS GatewayTree, TLAPS, FiniteSetTheorems, FunctionTheorems, SequenceTheorems, WellFoundedInduction

-----------------------------------------------------------------------------
(* The tree of the gateways, one call at a time.                           *)

GtRecords == [there : BOOLEAN, parent : GtDevices \cup {"none"},
              addr : GtDevices \cup {"none"}, kind : GtConfigs]
GtOps     == {"none", "bind", "remove", "delete", "config", "update", "create", "register"}
GtTasks   == [at : {"idle", "check", "write", "clear"}, op : GtOps,
              parent : GtDevices \cup {"none"}, devices : Seq(GtDevices), kind : GtConfigs]

(* Calls do not overlap, and what registers devices is a gateway for good. *)
GtOneCaller == \A c, d \in GtCallers : c = d
GtRegisters ==
    \A r \in GtRequests : r.op = "register" =>
        /\ r.parent \in GtDevices /\ GtKinds[r.parent] = "gateway"
        /\ \A q \in GtRequests :
              /\ q.op \in {"config", "create", "register"}
              /\ \E i \in DOMAIN q.devices : q.devices[i] = r.parent
              => q.kind = "gateway"

GtRegistrars == {r.parent : r \in {q \in GtRequests : q.op = "register"}}

(* A call under way is a request; when it writes, what it has looked at    *)
(* still holds.                                                            *)
GtCallFits(c) ==
    gtCall[c].at # "idle" =>
        /\ gtCall[c].devices # <<>>
        /\ gtCall[c].op = "register" => gtCall[c].parent \in GtRegistrars
        /\ gtCall[c].op \in {"config", "create", "register"} /\ GtOf(c) \in GtRegistrars
              => gtCall[c].kind = "gateway"
        /\ gtCall[c].at \in {"check", "write"} /\ gtCall[c].op # "register" /\ gtCall[c].parent # "none"
              => GtGateway(gtCall[c].parent)
        /\ gtCall[c].at = "write" =>
              /\ gtCall[c].op = "register" => GtGateway(gtCall[c].parent)
              /\ gtCall[c].op \in {"delete", "config"} => GtChildren(GtOf(c)) = {}

GtInv ==
    /\ gtRow \in [GtDevices -> GtRecords]
    /\ gtCall \in [GtCallers -> GtTasks]
    /\ \A d \in GtRegistrars : gtRow[d].there => gtRow[d].kind = "gateway"
    /\ \A c \in GtCallers : GtCallFits(c)
    /\ GtBranchesHold

LEMMA GtTaskOf ==
    ASSUME GtInv, NEW c \in GtCallers
    PROVE  /\ gtCall[c] \in GtTasks /\ GtCallFits(c)
           /\ gtCall[c].at # "idle" => GtOf(c) \in GtDevices
<1>1. gtCall[c] \in GtTasks /\ GtCallFits(c)
  BY DEF GtInv
<1>2. ASSUME gtCall[c].at # "idle" PROVE GtOf(c) \in GtDevices
  <2>1. gtCall[c].devices \in Seq(GtDevices) /\ gtCall[c].devices # <<>>
    BY <1>1, <1>2 DEF GtTasks, GtCallFits
  <2>. QED BY <2>1 DEF GtOf
<1>. QED BY <1>1, <1>2

(* What a call puts in its place, when there is no other call.             *)
LEMMA GtTaskMoves ==
    ASSUME GtInv, GtOneCaller, NEW c \in GtCallers, NEW t \in GtTasks,
           gtCall' = [gtCall EXCEPT ![c] = t]
    PROVE  /\ gtCall' \in [GtCallers -> GtTasks] /\ gtCall'[c] = t
           /\ GtCallFits(c)' => \A b \in GtCallers : GtCallFits(b)'
<1>1. gtCall' \in [GtCallers -> GtTasks] /\ gtCall'[c] = t
  BY DEF GtInv
<1>2. ASSUME GtCallFits(c)', NEW b \in GtCallers PROVE GtCallFits(b)'
  <2>1. b = c
    BY DEF GtOneCaller
  <2>. QED BY <1>2, <2>1
<1>. QED BY <1>1, <1>2

LEMMA GtTaskTypes ==
    ASSUME NEW t \in GtTasks
    PROVE  /\ GtIdle \in GtTasks /\ GtIdle.at = "idle"
           /\ \A place \in {"check", "write", "clear"} :
                 /\ [t EXCEPT !.at = place] \in GtTasks
                 /\ [t EXCEPT !.at = place].at = place
                 /\ [t EXCEPT !.at = place].op = t.op
                 /\ [t EXCEPT !.at = place].parent = t.parent
                 /\ [t EXCEPT !.at = place].devices = t.devices
                 /\ [t EXCEPT !.at = place].kind = t.kind
<1>1. <<>> \in Seq(GtDevices)
  OBVIOUS
<1>2. GtIdle \in GtTasks /\ GtIdle.at = "idle"
  BY <1>1 DEF GtIdle, GtTasks, GtOps, GtConfigs
<1>. QED BY <1>2 DEF GtTasks

(* A call that writes no row any more.                                     *)
LEMMA GtTaskEnds ==
    ASSUME GtInv, GtOneCaller, NEW c \in GtCallers, gtCall[c].at # "idle",
           GtEnd(c) \/ GtGoto(c, "clear")
    PROVE  gtCall' \in [GtCallers -> GtTasks] /\ \A b \in GtCallers : GtCallFits(b)'
<1>0. gtCall[c] \in GtTasks /\ GtCallFits(c)
  BY GtTaskOf
<1>1. CASE GtEnd(c)
  <2>1. gtCall' = [gtCall EXCEPT ![c] = GtIdle] /\ GtIdle \in GtTasks /\ GtIdle.at = "idle"
    BY <1>0, <1>1, GtTaskTypes DEF GtEnd
  <2>2. gtCall' \in [GtCallers -> GtTasks] /\ gtCall'[c] = GtIdle
    BY <2>1 DEF GtInv
  <2>3. GtCallFits(c)'
    BY <2>1, <2>2 DEF GtCallFits
  <2>. QED BY <2>1, <2>3, GtTaskMoves
<1>2. CASE GtGoto(c, "clear")
  <2>. DEFINE t == [gtCall[c] EXCEPT !.at = "clear"]
  <2>1. gtCall' = [gtCall EXCEPT ![c] = t]
    BY <1>2 DEF GtGoto, GtInv
  <2>2. /\ t \in GtTasks /\ t.at = "clear" /\ t.op = gtCall[c].op /\ t.kind = gtCall[c].kind
        /\ t.parent = gtCall[c].parent /\ t.devices = gtCall[c].devices
    BY <1>0, GtTaskTypes
  <2>. HIDE DEF t
  <2>3. gtCall'[c] = t
    BY <2>1, <2>2 DEF GtInv
  <2>4. GtCallFits(c)'
    BY <1>0, <2>2, <2>3 DEF GtCallFits, GtOf
  <2>. QED BY <2>1, <2>2, <2>4, GtTaskMoves
<1>. QED BY <1>1, <1>2

(* The rows stay what they are meant to be if the new row stands below a   *)
(* gateway, and a gateway stays one unless there is nothing below it.      *)
LEMMA GtRowChanges ==
    ASSUME GtInv, GtRegisters, NEW d \in GtDevices, NEW row \in GtRecords,
           gtRow' = [gtRow EXCEPT ![d] = row],
           row.there /\ d \in GtRegistrars => row.kind = "gateway",
           row.there /\ row.parent # "none" => GtGateway(row.parent),
           (row.there /\ row.kind = "gateway") \/ (GtChildren(d) = {} /\ row.parent # d)
               \/ ~GtGateway(d)
    PROVE  /\ gtRow' \in [GtDevices -> GtRecords]
           /\ \A x \in GtRegistrars : gtRow'[x].there => gtRow'[x].kind = "gateway"
           /\ GtBranchesHold'
<1>1. gtRow' \in [GtDevices -> GtRecords] /\ gtRow'[d] = row
      /\ \A x \in GtDevices : x # d => gtRow'[x] = gtRow[x]
  BY DEF GtInv
<1>2. GtRegistrars \subseteq GtDevices
  BY DEF GtRegisters, GtRegistrars
<1>3. \A x \in GtRegistrars : gtRow'[x].there => gtRow'[x].kind = "gateway"
  BY <1>1, <1>2 DEF GtInv
<1>4. ASSUME NEW x \in GtDevices, gtRow'[x].there, NEW p, p = gtRow'[x].parent, p # "none"
      PROVE  p \in GtDevices /\ gtRow'[p].there /\ gtRow'[p].kind = "gateway"
  <2>1. GtGateway(p)
    BY <1>1, <1>4 DEF GtInv, GtBranchesHold
  <2>2. CASE p # d
    BY <1>1, <2>1, <2>2 DEF GtGateway
  <2>3. CASE p = d
    <3>1. row.there /\ row.kind = "gateway"
      <4>1. GtGateway(d)
        BY <2>1, <2>3
      <4>2. CASE x = d
        BY <1>1, <1>4, <2>3, <4>1, <4>2
      <4>3. CASE x # d
        <5>1. x \in GtChildren(d)
          BY <1>1, <1>4, <2>3, <4>3 DEF GtChildren
        <5>. QED BY <4>1, <5>1
      <4>. QED BY <4>2, <4>3
    <3>. QED BY <1>1, <2>3, <3>1 DEF GtGateway
  <2>. QED BY <2>2, <2>3
<1>. QED BY <1>1, <1>3, <1>4 DEF GtBranchesHold, GtGateway

(* A row that is written by one of the calls but for the binding.          *)
LEMMA GtWriteInv ==
    ASSUME GtInv, GtRegisters, GtOneCaller, NEW c \in GtCallers, NEW row \in GtRecords,
           gtCall[c].at = "write", gtRow' = [gtRow EXCEPT ![GtOf(c)] = row],
           GtEnd(c) \/ GtGoto(c, "clear"),
           row.there /\ GtOf(c) \in GtRegistrars => row.kind = "gateway",
           row.there /\ row.parent # "none" => GtGateway(row.parent),
           \/ row.there /\ row.kind = "gateway"
           \/ GtChildren(GtOf(c)) = {} /\ row.parent # GtOf(c)
           \/ ~GtGateway(GtOf(c))
    PROVE  GtInv'
<1>1. GtOf(c) \in GtDevices
  BY GtTaskOf
<1>2. /\ gtRow' \in [GtDevices -> GtRecords]
      /\ \A x \in GtRegistrars : gtRow'[x].there => gtRow'[x].kind = "gateway"
      /\ GtBranchesHold'
  <2>. DEFINE d == GtOf(c)
  <2>1. d \in GtDevices
    BY <1>1
  <2>. HIDE DEF d
  <2>. QED BY <2>1, GtRowChanges DEF d
<1>3. gtCall' \in [GtCallers -> GtTasks] /\ \A b \in GtCallers : GtCallFits(b)'
  BY GtTaskEnds
<1>. QED BY <1>2, <1>3 DEF GtInv

LEMMA GtRowIs ==
    ASSUME GtInv, NEW d \in GtDevices
    PROVE  /\ gtRow[d] \in GtRecords
           /\ gtRow[d].there /\ gtRow[d].parent # "none" => GtGateway(gtRow[d].parent)
           /\ gtRow[d].there /\ d \in GtRegistrars => gtRow[d].kind = "gateway"
BY DEF GtInv, GtBranchesHold

LEMMA GtNoRowType == GtNoRow \in GtRecords /\ ~GtNoRow.there /\ GtNoRow.parent = "none"
BY DEF GtNoRow, GtRecords, GtConfigs

LEMMA GtWriteRowInv ==
    ASSUME GtInv, GtRegisters, GtOneCaller, NEW c \in GtCallers, NEW row \in GtRecords,
           WriteRow(c, row), row.there = gtRow[GtOf(c)].there,
           row.there /\ GtOf(c) \in GtRegistrars => row.kind = "gateway",
           row.there /\ row.parent # "none" => GtGateway(row.parent),
           \/ row.there /\ row.kind = "gateway"
           \/ GtChildren(GtOf(c)) = {} /\ row.parent # GtOf(c)
           \/ ~GtGateway(GtOf(c))
    PROVE  GtInv'
<1>1. CASE gtRow[GtOf(c)].there
  <2>1. gtCall[c].at = "write" /\ gtRow' = [gtRow EXCEPT ![GtOf(c)] = row] /\ GtGoto(c, "clear")
    BY <1>1 DEF WriteRow, GtWrite
  <2>. QED BY <2>1, GtWriteInv
<1>2. CASE ~gtRow[GtOf(c)].there
  <2>1. gtCall[c].at = "write" /\ gtRow' = [gtRow EXCEPT ![GtOf(c)] = GtNoRow] /\ GtEnd(c)
    BY <1>2 DEF WriteRow, GtWrite
  <2>2. ~GtGateway(GtOf(c))
    BY <1>2 DEF GtGateway
  <2>. QED BY <2>1, <2>2, GtNoRowType, GtWriteInv
<1>. QED BY <1>1, <1>2

LEMMA GtCallInv ==
    ASSUME GtInv, GtRegisters, GtOneCaller, NEW c \in GtCallers,
           \/ RemoveSubDevice(c) \/ UpdateDeviceConfig(c) \/ UpdateDevice(c)
           \/ WriteDelete(c) \/ WriteCreate(c)
    PROVE  GtInv'
<1>. DEFINE d   == GtOf(c)
            old == gtRow[d]
<1>0. /\ gtCall[c].at = "write" /\ gtCall[c] \in GtTasks /\ GtCallFits(c)
      /\ d \in GtDevices /\ old \in GtRecords
      /\ old.there /\ old.parent # "none" => GtGateway(old.parent)
      /\ old.there /\ d \in GtRegistrars => old.kind = "gateway"
  <2>1. gtCall[c].at = "write"
    BY DEF RemoveSubDevice, UpdateDeviceConfig, UpdateDevice, WriteDelete, WriteCreate, WriteRow,
       GtWrite
  <2>2. gtCall[c] \in GtTasks /\ GtCallFits(c) /\ d \in GtDevices
    BY <2>1, GtTaskOf
  <2>. HIDE DEF d
  <2>. QED BY <2>1, <2>2, GtRowIs
<1>1. /\ gtCall[c].op # "register" /\ gtCall[c].parent # "none" => GtGateway(gtCall[c].parent)
      /\ gtCall[c].op = "register" => GtGateway(gtCall[c].parent)
      /\ gtCall[c].op \in {"config", "create", "register"} /\ d \in GtRegistrars
            => gtCall[c].kind = "gateway"
      /\ gtCall[c].op \in {"delete", "config"} => GtChildren(d) = {}
      /\ gtCall[c].kind \in GtConfigs /\ gtCall[c].parent \in GtDevices \cup {"none"}
  BY <1>0 DEF GtCallFits, GtTasks
<1>2. CASE RemoveSubDevice(c)
  <2>. DEFINE row == [old EXCEPT !.parent = "none", !.addr = "none"]
  <2>1. WriteRow(c, row)
    BY <1>2 DEF RemoveSubDevice
  <2>2. /\ row \in GtRecords /\ row.there = old.there /\ row.kind = old.kind /\ row.parent = "none"
    BY <1>0 DEF GtRecords
  <2>3. (row.there /\ row.kind = "gateway") \/ ~GtGateway(d)
    BY <2>2 DEF GtGateway
  <2>. HIDE DEF row
  <2>. QED BY <1>0, <2>1, <2>2, <2>3, GtWriteRowInv
<1>3. CASE UpdateDeviceConfig(c)
  <2>. DEFINE row == [old EXCEPT !.kind = gtCall[c].kind]
  <2>1. WriteRow(c, row) /\ gtCall[c].op = "config"
    BY <1>3 DEF UpdateDeviceConfig
  <2>2. /\ row \in GtRecords /\ row.there = old.there /\ row.kind = gtCall[c].kind
        /\ row.parent = old.parent
    BY <1>0, <1>1 DEF GtRecords
  <2>3. GtChildren(d) = {} /\ (row.parent # d \/ ~GtGateway(d))
    <3>1. GtChildren(d) = {}
      BY <1>1, <2>1
    <3>2. ASSUME GtGateway(d), old.parent = d PROVE FALSE
      <4>1. d \in GtChildren(d)
        BY <1>0, <3>2 DEF GtChildren, GtGateway
      <4>. QED BY <3>1, <4>1
    <3>. QED BY <2>2, <3>1, <3>2
  <2>. HIDE DEF row
  <2>. QED BY <1>0, <1>1, <2>1, <2>2, <2>3, GtWriteRowInv
<1>4. CASE UpdateDevice(c)
  <2>. DEFINE row == [old EXCEPT !.parent = gtCall[c].parent, !.addr = d]
  <2>1. WriteRow(c, row) /\ gtCall[c].op = "update"
    BY <1>4 DEF UpdateDevice
  <2>2. /\ row \in GtRecords /\ row.there = old.there /\ row.kind = old.kind
        /\ row.parent = gtCall[c].parent
    BY <1>0, <1>1 DEF GtRecords
  <2>3. (row.there /\ row.kind = "gateway") \/ ~GtGateway(d)
    BY <2>2 DEF GtGateway
  <2>. HIDE DEF row
  <2>. QED BY <1>0, <1>1, <2>1, <2>2, <2>3, GtWriteRowInv
<1>5. CASE WriteDelete(c)
  <2>1. /\ gtRow' = [gtRow EXCEPT ![d] = GtNoRow] /\ GtGoto(c, "clear") /\ gtCall[c].op = "delete"
    BY <1>5 DEF WriteDelete, GtWrite
  <2>2. GtChildren(d) = {} /\ GtNoRow.parent # d
    BY <1>0, <1>1, <2>1, GtNoRowType, GtAssumption
  <2>. QED BY <1>0, <2>1, <2>2, GtNoRowType, GtWriteInv
<1>6. CASE WriteCreate(c)
  <2>. DEFINE new == [there |-> TRUE, parent |-> gtCall[c].parent, kind |-> gtCall[c].kind,
                      addr |-> IF gtCall[c].parent = "none" THEN "none" ELSE d]
              row == IF old.there THEN old ELSE new
  <2>1. /\ gtRow' = [gtRow EXCEPT ![d] = row] /\ GtEnd(c)
        /\ gtCall[c].op \in {"create", "register"}
    BY <1>6 DEF WriteCreate, GtWrite
  <2>2. row \in GtRecords
    BY <1>0, <1>1 DEF GtRecords
  <2>3. row.there /\ d \in GtRegistrars => row.kind = "gateway"
    BY <1>0, <1>1, <2>1
  <2>4. row.there /\ row.parent # "none" => GtGateway(row.parent)
    BY <1>0, <1>1, <2>1
  <2>5. (row.there /\ row.kind = "gateway") \/ ~GtGateway(d)
    BY DEF GtGateway
  <2>. HIDE DEF row
  <2>. QED BY <1>0, <2>1, <2>2, <2>3, <2>4, <2>5, GtWriteInv
<1>. QED BY <1>2, <1>3, <1>4, <1>5, <1>6

LEMMA GtTailIs ==
    \A s \in Seq(GtDevices) : s # <<>> /\ Len(s) # 1 => Tail(s) \in Seq(GtDevices) /\ Tail(s) # <<>>
<1>. TAKE s \in Seq(GtDevices)
<1>. SUFFICES ASSUME s # <<>>, Len(s) # 1 PROVE Tail(s) \in Seq(GtDevices) /\ Tail(s) # <<>>
  OBVIOUS
<1>1. Tail(s) \in Seq(GtDevices) /\ Len(Tail(s)) = Len(s) - 1
  OBVIOUS
<1>2. Len(Tail(s)) # 0
  BY <1>1
<1>. QED BY <1>1, <1>2

LEMMA GtBindInv ==
    ASSUME GtInv, GtRegisters, GtOneCaller, NEW c \in GtCallers,
           gtCall[c].at # "idle", WriteBind(c)
    PROVE  GtInv'
<1>. DEFINE d    == GtOf(c)
            old  == gtRow[d]
            call == gtCall[c]
            row  == IF old.there THEN [old EXCEPT !.parent = call.parent, !.addr = d] ELSE old
<1>0. /\ call \in GtTasks /\ GtCallFits(c) /\ d \in GtDevices /\ old \in GtRecords
      /\ old.there /\ old.parent # "none" => GtGateway(old.parent)
      /\ old.there /\ d \in GtRegistrars => old.kind = "gateway"
  <2>1. call \in GtTasks /\ GtCallFits(c) /\ d \in GtDevices
    BY GtTaskOf
  <2>. HIDE DEF d, call
  <2>. QED BY <2>1, GtRowIs
<1>1. /\ call.at = "write" /\ call.op = "bind" /\ gtRow' = [gtRow EXCEPT ![d] = row]
  BY DEF WriteBind, GtWrite
<1>2. /\ call.parent \in GtDevices \cup {"none"} /\ call.devices \in Seq(GtDevices)
      /\ call.devices # <<>>
      /\ call.parent # "none" => GtGateway(call.parent)
  BY <1>0, <1>1 DEF GtCallFits, GtTasks
<1>3. row \in GtRecords /\ row.there = old.there /\ row.kind = old.kind
      /\ (row.parent = call.parent \/ row.parent = old.parent)
  BY <1>0, <1>2 DEF GtRecords
<1>4. /\ gtRow' \in [GtDevices -> GtRecords]
      /\ \A x \in GtRegistrars : gtRow'[x].there => gtRow'[x].kind = "gateway"
      /\ GtBranchesHold'
  <2>1. (row.there /\ row.kind = "gateway") \/ ~GtGateway(d)
    BY <1>3 DEF GtGateway
  <2>2. row.there /\ row.parent # "none" => GtGateway(row.parent)
    <3>. HIDE DEF row, old, call
    <3>. QED BY <1>0, <1>2, <1>3 DEF GtGateway
  <2>3. row.there /\ d \in GtRegistrars => row.kind = "gateway"
    BY <1>0, <1>3
  <2>. HIDE DEF row, d
  <2>. QED BY <1>0, <1>1, <1>3, <2>1, <2>2, <2>3, GtRowChanges
<1>5. gtCall' \in [GtCallers -> GtTasks] /\ \A b \in GtCallers : GtCallFits(b)'
  <2>1. CASE gtCall' = [gtCall EXCEPT ![c] = GtIdle]
    BY <1>1, <2>1, GtTaskEnds DEF GtEnd
  <2>2. CASE Len(call.devices) # 1
    <3>. DEFINE t == [call EXCEPT !.at = "check", !.devices = Tail(call.devices)]
    <3>1. gtCall' = [gtCall EXCEPT ![c] = t]
      <4>1. gtCall' = [gtCall EXCEPT ![c] =
                IF Len(gtCall[c].devices) = 1 THEN GtIdle
                ELSE [gtCall[c] EXCEPT !.at = "check", !.devices = Tail(gtCall[c].devices)]]
        BY Zenon DEF WriteBind
      <4>2. CASE Len(gtCall[c].devices) = 1
        BY <2>2, <4>2
      <4>3. CASE Len(gtCall[c].devices) # 1
        BY <4>1, <4>3
      <4>. QED BY <4>2, <4>3
    <3>2. Tail(call.devices) \in Seq(GtDevices) /\ Tail(call.devices) # <<>>
      <4>1. call.devices \in Seq(GtDevices) /\ call.devices # <<>> /\ Len(call.devices) # 1
        BY <1>2, <2>2
      <4>. HIDE DEF call
      <4>. QED BY <4>1, GtTailIs
    <3>3. /\ t \in GtTasks /\ t.at = "check" /\ t.op = "bind" /\ t.parent = call.parent
          /\ t.devices # <<>>
      BY <1>0, <1>1, <3>2 DEF GtTasks
    <3>4. call.parent # "none" =>
              /\ call.parent \in GtDevices /\ gtRow'[call.parent].there
              /\ gtRow'[call.parent].kind = "gateway"
      <4>1. \A x \in GtDevices : gtRow[x].there /\ gtRow[x].kind = "gateway" =>
                gtRow'[x].there /\ gtRow'[x].kind = "gateway"
        <5>1. /\ d \in GtDevices /\ old = gtRow[d] /\ gtRow \in [GtDevices -> GtRecords]
              /\ gtRow' = [gtRow EXCEPT ![d] = row] /\ row.there = old.there /\ row.kind = old.kind
          BY <1>0, <1>1, <1>3 DEF GtInv
        <5>. HIDE DEF row, d, old
        <5>. QED BY <5>1
      <4>. QED BY <1>2, <4>1 DEF GtGateway
    <3>5. gtCall'[c] = t
      BY <3>1, <3>3 DEF GtInv
    <3>. HIDE DEF t
    <3>6. GtCallFits(c)'
      BY <3>3, <3>4, <3>5 DEF GtCallFits, GtGateway
    <3>. QED BY <3>1, <3>3, <3>6, GtTaskMoves
  <2>. QED BY <2>1, <2>2 DEF WriteBind
<1>. QED BY <1>4, <1>5 DEF GtInv

LEMMA GtBeginInv ==
    ASSUME GtInv, GtRegisters, GtOneCaller, NEW c \in GtCallers, NEW r \in GtRequests, GtBegin(c, r)
    PROVE  GtInv'
<1>. DEFINE t == [at |-> "check", op |-> r.op, parent |-> r.parent, devices |-> r.devices,
                  kind |-> r.kind]
<1>0. /\ r.op \in {"bind", "remove", "delete", "config", "update", "create", "register"}
      /\ r.parent \in GtDevices \cup {"none"} /\ r.devices \in Seq(GtDevices) /\ r.kind \in GtConfigs
      /\ r.devices # <<>>
  BY GtAssumption DEF GtRequest
<1>1. /\ gtCall' = [gtCall EXCEPT ![c] = t] /\ gtRow' = gtRow
      /\ r.op # "register" /\ r.parent # "none" => GtGateway(r.parent)
  BY DEF GtBegin, gtStore
<1>2. t \in GtTasks
  BY <1>0 DEF GtTasks, GtOps
<1>3. /\ t.at = "check" /\ t.op = r.op /\ t.parent = r.parent /\ t.devices = r.devices
      /\ t.kind = r.kind
  OBVIOUS
<1>. HIDE DEF t
<1>4. gtCall'[c] = t
  BY <1>1, <1>2 DEF GtInv
<1>5. r.op = "register" => r.parent \in GtRegistrars
  BY DEF GtRegistrars
<1>6. r.op \in {"config", "create", "register"} /\ Head(r.devices) \in GtRegistrars
         => r.kind = "gateway"
  <2>1. 1 \in DOMAIN r.devices /\ Head(r.devices) = r.devices[1]
    BY <1>0
  <2>. QED BY <2>1 DEF GtRegisters, GtRegistrars
<1>7. GtCallFits(c)'
  BY <1>0, <1>1, <1>3, <1>4, <1>5, <1>6 DEF GtCallFits, GtOf, GtGateway
<1>8. gtCall' \in [GtCallers -> GtTasks] /\ \A b \in GtCallers : GtCallFits(b)'
  BY <1>1, <1>2, <1>7, GtTaskMoves
<1>. QED BY <1>1, <1>8 DEF GtInv, GtBranchesHold, GtGateway

LEMMA GtRegistrarsAre == GtRegisters => GtRegistrars \subseteq GtDevices
BY DEF GtRegisters, GtRegistrars

LEMMA GtCheckInv ==
    ASSUME GtInv, GtRegisters, GtOneCaller, NEW c \in GtCallers, GtCheck(c)
    PROVE  GtInv'
<1>0. gtCall[c].at = "check" /\ gtRow' = gtRow
  BY DEF GtCheck, gtStore
<1>1. gtCall[c] \in GtTasks /\ GtCallFits(c) /\ GtOf(c) \in GtDevices
  BY <1>0, GtTaskOf
<1>2. gtCall' \in [GtCallers -> GtTasks] /\ \A b \in GtCallers : GtCallFits(b)'
  <2>1. CASE GtEnd(c)
    BY <1>0, <2>1, GtTaskEnds
  <2>2. CASE ~GtEnd(c)
    <3>. DEFINE t == [gtCall[c] EXCEPT !.at = "write"]
    <3>1. GtGoto(c, "write") /\ (gtCall[c].op = "delete" => MayDelete(c))
          /\ (gtCall[c].op = "config" => MayConfig(c)) /\ (gtCall[c].op = "register" => MayRegister(c))
      BY <2>2 DEF GtCheck
    <3>2. gtCall' = [gtCall EXCEPT ![c] = t]
      BY <3>1 DEF GtGoto, GtInv
    <3>3. /\ t \in GtTasks /\ t.at = "write" /\ t.op = gtCall[c].op /\ t.kind = gtCall[c].kind
          /\ t.parent = gtCall[c].parent /\ t.devices = gtCall[c].devices
      BY <1>1, GtTaskTypes
    <3>. HIDE DEF t
    <3>4. gtCall'[c] = t
      BY <3>2, <3>3 DEF GtInv
    <3>5. gtCall[c].op \in {"delete", "config"} => GtChildren(GtOf(c)) = {}
      <4>1. ASSUME gtCall[c].op = "config" PROVE GtChildren(GtOf(c)) = {}
        <5>1. gtRow[GtOf(c)].there /\ (gtRow[GtOf(c)].kind = "gateway" => GtChildren(GtOf(c)) = {})
          BY <3>1, <4>1 DEF MayConfig
        <5>2. ASSUME NEW x \in GtChildren(GtOf(c)) PROVE GtGateway(GtOf(c))
          BY <1>1, <5>2, GtAssumption DEF GtChildren, GtInv, GtBranchesHold
        <5>. QED BY <5>1, <5>2 DEF GtGateway
      <4>. QED BY <3>1, <4>1 DEF MayDelete
    <3>6. gtCall[c].op = "register" => GtGateway(gtCall[c].parent)
      BY <1>0, <1>1, <3>1, GtRegistrarsAre DEF MayRegister, GtCallFits, GtInv, GtGateway
    <3>7. GtCallFits(c)'
      BY <1>0, <1>1, <3>3, <3>4, <3>5, <3>6 DEF GtCallFits, GtOf, GtGateway, GtChildren
    <3>. QED BY <3>2, <3>3, <3>7, GtTaskMoves
  <2>. QED BY <2>1, <2>2
<1>. QED BY <1>0, <1>2 DEF GtInv, GtBranchesHold, GtGateway

LEMMA GtInitInv == GtRegisters /\ GtInit => GtInv
<1>. SUFFICES ASSUME GtRegisters, GtInit PROVE GtInv
  OBVIOUS
<1>1. ASSUME NEW d \in GtDevices
      PROVE  /\ gtRow[d] \in GtRecords /\ gtRow[d].parent = "none"
             /\ gtRow[d].there => gtRow[d].kind = GtKinds[d]
  <2>1. CASE d \in GtAbsent
    BY <2>1, GtNoRowType DEF GtInit
  <2>2. CASE d \notin GtAbsent
    <3>1. gtRow[d] = [GtNoRow EXCEPT !.there = TRUE, !.kind = GtKinds[d]] /\ GtKinds[d] \in GtConfigs
      BY <2>2, GtAssumption DEF GtInit
    <3>. QED BY <3>1, GtNoRowType DEF GtRecords
  <2>. QED BY <2>1, <2>2
<1>2. gtRow \in [GtDevices -> GtRecords]
  <2>1. gtRow = [d \in GtDevices |-> gtRow[d]]
    BY DEF GtInit
  <2>. QED BY <1>1, <2>1
<1>3. \A d \in GtRegistrars : d \in GtDevices /\ GtKinds[d] = "gateway"
  BY DEF GtRegisters, GtRegistrars
<1>4. GtIdle \in GtTasks /\ GtIdle.at = "idle"
  <2>1. <<>> \in Seq(GtDevices)
    OBVIOUS
  <2>. QED BY <2>1 DEF GtIdle, GtTasks, GtOps, GtConfigs
<1>5. gtCall \in [GtCallers -> GtTasks] /\ \A c \in GtCallers : GtCallFits(c)
  BY <1>4 DEF GtInit, GtCallFits
<1>. QED BY <1>1, <1>2, <1>3, <1>5 DEF GtInv, GtBranchesHold

LEMMA GtNextInv ==
    ASSUME GtInv, GtRegisters, GtOneCaller, [GtNext]_gtVars
    PROVE  GtInv'
<1>1. ASSUME NEW c \in GtCallers, NEW r \in GtRequests, GtBegin(c, r) PROVE GtInv'
  BY <1>1, GtBeginInv
<1>2. ASSUME NEW c \in GtCallers, GtCheck(c) PROVE GtInv'
  BY <1>2, GtCheckInv
<1>3. ASSUME NEW c \in GtCallers, WriteBind(c) PROVE GtInv'
  <2>1. gtCall[c].at # "idle"
    BY <1>3 DEF WriteBind, GtWrite
  <2>. QED BY <1>3, <2>1, GtBindInv
<1>4. ASSUME NEW c \in GtCallers,
             \/ RemoveSubDevice(c) \/ UpdateDeviceConfig(c) \/ UpdateDevice(c)
             \/ WriteDelete(c) \/ WriteCreate(c)
      PROVE  GtInv'
  BY <1>4, GtCallInv
<1>5. ASSUME NEW c \in GtCallers, GtClear(c) PROVE GtInv'
  <2>1. gtCall[c].at # "idle" /\ GtEnd(c) /\ gtRow' = gtRow
    BY <1>5 DEF GtClear
  <2>2. gtCall' \in [GtCallers -> GtTasks] /\ \A b \in GtCallers : GtCallFits(b)'
    BY <2>1, GtTaskEnds
  <2>. QED BY <2>1, <2>2 DEF GtInv, GtBranchesHold, GtGateway
<1>6. CASE UNCHANGED <<gtRow, gtCall>>
  <2>1. \A c \in GtCallers : GtCallFits(c)'
    BY <1>6 DEF GtInv, GtCallFits, GtOf, GtGateway, GtChildren
  <2>. QED BY <1>6, <2>1 DEF GtInv, GtBranchesHold, GtGateway
<1>7. CASE (\E d \in GtDevices : GtLoad(d) \/ GtTransform(d)) \/ GtKeep \/ GtResolve \/ GtAnswer
  BY <1>6, <1>7 DEF GtLoad, GtTransform, GtKeep, GtResolve, GtAnswer, gtAdmin
<1>8. CASE UNCHANGED gtVars
  BY <1>6, <1>8 DEF gtVars, gtStore, gtAdmin
<1>. QED BY <1>1, <1>2, <1>3, <1>4, <1>5, <1>7, <1>8 DEF GtNext

(* A device that has a parent has one that is there and is a gateway, for  *)
(* any number of gateways, levels and calls, if the calls come one at a    *)
(* time and what registers devices over MQTT is a gateway for good.        *)
THEOREM ParentsAreGateways ==
    ASSUME GtOneCaller, GtRegisters
    PROVE  GtSpec => []GtBranchesHold
<1>1. GtInit => GtInv
  BY GtInitInv
<1>2. GtInv /\ [GtNext]_gtVars => GtInv'
  BY GtNextInv
<1>3. GtInv => GtBranchesHold
  BY DEF GtInv
<1>. QED BY <1>1, <1>2, <1>3, PTL DEF GtSpec

-----------------------------------------------------------------------------
(* Counting up, without an operator as a parameter: what holds of zero and  *)
(* of each next number holds of all.                                       *)
LEMMA GtCountUp ==
    ASSUME NEW N \in Nat, NEW T, 0 \in T, \A n \in 1..N : n - 1 \in T => n \in T
    PROVE  0..N \subseteq T
<1>. DEFINE Left == {n \in 0..N : n \notin T}
<1>1. SUFFICES ASSUME Left # {} PROVE FALSE
  OBVIOUS
<1>2. Left \subseteq Nat
  OBVIOUS
<1>3. \E x \in Left : \A y \in Left : <<y, x>> \notin OpToRel(<, Nat)
  <2>. HIDE DEF Left
  <2>. QED BY <1>1, <1>2, NatLessThanWellFounded, WFMin
<1>4. PICK x \in Left : \A y \in Left : <<y, x>> \notin OpToRel(<, Nat)
  BY <1>3
<1>5. x \in 1..N /\ x - 1 \in 0..N /\ x - 1 \in Nat /\ x - 1 < x
  OBVIOUS
<1>6. x - 1 \in Left
  BY <1>5
<1>7. <<x - 1, x>> \in OpToRel(<, Nat)
  BY <1>2, <1>5 DEF OpToRel
<1>. QED BY <1>4, <1>6, <1>7

(* A function that is computed from the value before it.                   *)
GtComputes(S, x, h, N) ==
    \E f \in [0..N -> S] : f[0] = x /\ \A n \in 1..N : f[n] = h[<<n, f[n - 1]>>]

LEMMA GtComputed ==
    ASSUME NEW S, NEW x, NEW h, NEW N, x \in S, h \in [Nat \X S -> S], N \in Nat
    PROVE  GtComputes(S, x, h, N)
<1>. DEFINE Good(n) == \E f \in [0..n -> S] : f[0] = x /\ \A i \in 1..n : f[i] = h[<<i, f[i - 1]>>]
            T == {n \in Nat : Good(n)}
<1>1. 0 \in T
  <2>. DEFINE f == [i \in 0..0 |-> x]
  <2>1. f \in [0..0 -> S] /\ f[0] = x /\ \A i \in 1..0 : f[i] = h[<<i, f[i - 1]>>]
    OBVIOUS
  <2>. QED BY <2>1
<1>2. ASSUME NEW n \in 1..N, n - 1 \in T PROVE n \in T
  <2>1. n \in Nat /\ n - 1 \in Nat
    OBVIOUS
  <2>2. PICK f \in [0..(n - 1) -> S] : f[0] = x /\ \A i \in 1..(n - 1) : f[i] = h[<<i, f[i - 1]>>]
    BY <1>2
  <2>. DEFINE g == [i \in 0..n |-> IF i = n THEN h[<<n, f[n - 1]>>] ELSE f[i]]
  <2>3. f[n - 1] \in S
    BY <2>1, <2>2
  <2>4. h[<<n, f[n - 1]>>] \in S
    BY <2>1, <2>3
  <2>5. g \in [0..n -> S]
    BY <2>1, <2>2, <2>4
  <2>6. g[0] = x
    BY <2>1, <2>2
  <2>7. ASSUME NEW i \in 1..n PROVE g[i] = h[<<i, g[i - 1]>>]
    <3>1. CASE i = n
      <4>1. g[i] = h[<<n, f[n - 1]>>]
        BY <3>1
      <4>2. i - 1 \in 0..n /\ i - 1 # n
        BY <2>1
      <4>3. g[i - 1] = f[n - 1]
        BY <4>2, <3>1
      <4>. QED BY <4>1, <4>3, <3>1
    <3>2. CASE i # n
      <4>1. i \in 1..(n - 1) /\ i - 1 \in 0..n /\ i - 1 # n /\ i \in 0..n
        BY <2>1, <3>2
      <4>2. g[i] = f[i] /\ g[i - 1] = f[i - 1]
        BY <4>1, <3>2
      <4>. QED BY <4>1, <4>2, <2>2
    <3>. QED BY <3>1, <3>2
  <2>8. Good(n)
    <3>. HIDE DEF g
    <3>. QED BY <2>5, <2>6, <2>7
  <2>. QED BY <2>1, <2>8
<1>3. 0..N \subseteq T
  <2>. HIDE DEF T
  <2>. QED BY <1>1, <1>2, GtCountUp
<1>. QED BY <1>3 DEF GtComputes

-----------------------------------------------------------------------------
(* The way up, and the way down.                                           *)
GtViewsFit == \A d \in GtDevices : GtView(d) \in GtRecords

GtNextUp(s) ==
    LET next == GtView(Last(s)).parent
    IN  IF next = "none" \/ ~GtView(next).there THEN s ELSE Append(s, next)

LEMMA GtCountDevices == Cardinality(GtDevices) \in Nat /\ (GtDevices # {} => Cardinality(GtDevices) >= 1)
BY GtDevicesAssumption, FS_CardinalityType, FS_EmptySet

LEMMA GtUpFromIs ==
    ASSUME GtViewsFit, NEW d \in GtDevices
    PROVE  \E up \in [0..Cardinality(GtDevices) -> Seq(GtDevices) \ {<<>>}] :
              /\ up[0] = <<d>>
              /\ \A n \in 1..Cardinality(GtDevices) : up[n] = GtNextUp(up[n - 1])
              /\ GtUpFrom(d) = up[Cardinality(GtDevices)]
<1>. DEFINE N == Cardinality(GtDevices)
            S == Seq(GtDevices) \ {<<>>}
            h == [a \in Nat \X S |-> GtNextUp(a[2])]
<1>1. N \in Nat
  BY GtCountDevices
<1>2. ASSUME NEW s \in S PROVE GtNextUp(s) \in S
  <2>1. Last(s) \in GtDevices
    BY DEF Last
  <2>2. GtView(Last(s)).parent \in GtDevices \cup {"none"}
    BY <2>1 DEF GtViewsFit, GtRecords
  <2>3. GtView(Last(s)).parent \in GtDevices => Append(s, GtView(Last(s)).parent) \in S
    OBVIOUS
  <2>. HIDE DEF S
  <2>. QED BY <2>2, <2>3 DEF GtNextUp
<1>3. h \in [Nat \X S -> S] /\ <<d>> \in S
  BY <1>2
<1>4. PICK f \in [0..N -> S] : f[0] = <<d>> /\ \A n \in 1..N : f[n] = h[<<n, f[n - 1]>>]
  <2>. HIDE DEF h
  <2>1. PICK k : k = h
    OBVIOUS
  <2>2. k \in [Nat \X S -> S]
    BY <1>3, <2>1
  <2>3. GtComputes(S, <<d>>, k, N)
    <3>. HIDE DEF N, S
    <3>. QED BY <1>1, <1>3, <2>2, GtComputed, Zenon
  <2>. QED BY <2>1, <2>3 DEF GtComputes
<1>5. ASSUME NEW n \in 1..N PROVE f[n - 1] \in S /\ f[n] = GtNextUp(f[n - 1])
  <2>1. n - 1 \in 0..N /\ n \in Nat
    BY <1>1
  <2>2. f[n - 1] \in S
    BY <2>1, <1>4
  <2>3. <<n, f[n - 1]>> \in Nat \X S
    BY <2>1, <2>2
  <2>4. h[<<n, f[n - 1]>>] = GtNextUp(f[n - 1])
    BY <2>3
  <2>. QED BY <2>2, <2>4, <1>4
<1>. DEFINE P(up) == up = [n \in 0..N |->
                 IF n = 0 THEN <<d>>
                 ELSE LET next == GtView(Last(up[n - 1])).parent
                      IN  IF next = "none" \/ ~GtView(next).there THEN up[n - 1]
                          ELSE Append(up[n - 1], next)]
            g == CHOOSE up : P(up)
<1>6. P(f)
  <2>1. f = [n \in 0..N |-> f[n]]
    BY <1>4
  <2>2. \A n \in 0..N : f[n] = IF n = 0 THEN <<d>>
                 ELSE LET next == GtView(Last(f[n - 1])).parent
                      IN  IF next = "none" \/ ~GtView(next).there THEN f[n - 1]
                          ELSE Append(f[n - 1], next)
    <3>1. \A n \in 0..N : n = 0 \/ n \in 1..N
      BY <1>1
    <3>. QED BY <3>1, <1>4, <1>5 DEF GtNextUp
  <2>. QED BY <2>1, <2>2
<1>7. P(g)
  <2>. HIDE DEF P
  <2>. QED BY <1>6
<1>8. g[0] = <<d>> /\ \A n \in 1..N : g[n] = GtNextUp(g[n - 1])
  <2>1. 0 \in 0..N /\ \A n \in 1..N : n \in 0..N /\ n # 0
    BY <1>1
  <2>. HIDE DEF g
  <2>. QED BY <1>7, <2>1 DEF GtNextUp
<1>9. 0..N \subseteq {n \in 0..N : g[n] = f[n]}
  <2>. DEFINE T == {n \in 0..N : g[n] = f[n]}
  <2>1. 0 \in T
    <3>. HIDE DEF g
    <3>. QED BY <1>1, <1>4, <1>8
  <2>2. ASSUME NEW n \in 1..N, n - 1 \in T PROVE n \in T
    <3>1. n \in 0..N
      BY <1>1
    <3>2. g[n - 1] = f[n - 1]
      BY <2>2
    <3>. HIDE DEF g
    <3>. QED BY <3>1, <3>2, <1>5, <1>8
  <2>. HIDE DEF T
  <2>3. 0..N \subseteq T
    BY <2>1, <2>2, <1>1, GtCountUp
  <2>. QED BY <2>3 DEF T
<1>10. GtUpFrom(d) = g[N]
  BY DEF GtUpFrom
<1>11. GtUpFrom(d) = f[N]
  <2>. HIDE DEF g
  <2>. QED BY <1>1, <1>9, <1>10
<1>. HIDE DEF h, g, P
<1>. QED BY <1>4, <1>5, <1>11

GtLeads(to, route) ==
    \E found \in [0..Len(route) -> SUBSET GtDevices] :
        /\ found[0] = {to}
        /\ \A n \in 1..Len(route) : found[n] = GtBelow(found[n - 1], route[n])
        /\ GtReached(to, route) = found[Len(route)]

LEMMA GtReachedIs ==
    ASSUME NEW to \in GtDevices, NEW T, NEW route \in Seq(T)
    PROVE  GtLeads(to, route)
<1>. DEFINE N == Len(route)
            S == SUBSET GtDevices
            h == [a \in Nat \X S |-> GtBelow(a[2], route[a[1]])]
<1>1. N \in Nat
  OBVIOUS
<1>2. \A F, a : GtBelow(F, a) \in S
  BY DEF GtBelow
<1>3. h \in [Nat \X S -> S] /\ {to} \in S
  BY <1>2
<1>4. PICK f \in [0..N -> S] : f[0] = {to} /\ \A n \in 1..N : f[n] = h[<<n, f[n - 1]>>]
  <2>. HIDE DEF h
  <2>1. PICK k : k = h
    OBVIOUS
  <2>2. k \in [Nat \X S -> S]
    BY <1>3, <2>1
  <2>3. GtComputes(S, {to}, k, N)
    <3>. HIDE DEF N, S
    <3>. QED BY <1>1, <1>3, <2>2, GtComputed, Zenon
  <2>. QED BY <2>1, <2>3 DEF GtComputes
<1>5. ASSUME NEW n \in 1..N PROVE f[n] = GtBelow(f[n - 1], route[n])
  <2>1. n - 1 \in 0..N /\ n \in Nat
    BY <1>1
  <2>2. f[n - 1] \in S
    BY <2>1, <1>4
  <2>3. <<n, f[n - 1]>> \in Nat \X S
    BY <2>1, <2>2
  <2>4. h[<<n, f[n - 1]>>] = GtBelow(f[n - 1], route[n])
    BY <2>3
  <2>. QED BY <2>4, <1>4
<1>. DEFINE P(found) == found = [n \in 0..N |->
                 IF n = 0 THEN {to} ELSE GtBelow(found[n - 1], route[n])]
            g == CHOOSE found : P(found)
<1>6. P(f)
  <2>1. f = [n \in 0..N |-> f[n]]
    BY <1>4
  <2>2. \A n \in 0..N : f[n] = IF n = 0 THEN {to} ELSE GtBelow(f[n - 1], route[n])
    <3>1. \A n \in 0..N : n = 0 \/ n \in 1..N
      BY <1>1
    <3>. QED BY <3>1, <1>4, <1>5
  <2>. QED BY <2>1, <2>2
<1>7. P(g)
  <2>. HIDE DEF P
  <2>. QED BY <1>6
<1>8. g[0] = {to} /\ \A n \in 1..N : g[n] = GtBelow(g[n - 1], route[n])
  <2>1. 0 \in 0..N /\ \A n \in 1..N : n \in 0..N /\ n # 0
    BY <1>1
  <2>. HIDE DEF g
  <2>. QED BY <1>7, <2>1
<1>9. 0..N \subseteq {n \in 0..N : g[n] = f[n]}
  <2>. DEFINE T2 == {n \in 0..N : g[n] = f[n]}
  <2>1. 0 \in T2
    <3>1. 0 \in 0..N
      BY <1>1
    <3>2. g[0] = f[0]
      <4>. HIDE DEF g, N, S
      <4>. QED BY <1>4, <1>8
    <3>. HIDE DEF g, N
    <3>. QED BY <3>1, <3>2
  <2>2. ASSUME NEW n \in 1..N, n - 1 \in T2 PROVE n \in T2
    <3>1. n \in 0..N
      BY <1>1
    <3>2. g[n - 1] = f[n - 1]
      BY <2>2
    <3>. HIDE DEF g
    <3>. QED BY <3>1, <3>2, <1>5, <1>8
  <2>. HIDE DEF T2
  <2>3. 0..N \subseteq T2
    BY <2>1, <2>2, <1>1, GtCountUp
  <2>. QED BY <2>3 DEF T2
<1>10. GtReached(to, route) = g[N]
  BY DEF GtReached
<1>11. GtReached(to, route) = f[N]
  <2>. HIDE DEF g
  <2>. QED BY <1>1, <1>9, <1>10
<1>. HIDE DEF h, g, P
<1>. QED BY <1>4, <1>5, <1>11 DEF GtLeads

(* The way down along one address, and along two.                          *)
LEMMA GtReachedShort ==
    ASSUME NEW to \in GtDevices, NEW a
    PROVE  /\ GtReached(to, <<>>) = {to}
           /\ GtReached(to, <<a>>) = GtBelow({to}, a)
<1>1. <<>> \in Seq({a}) /\ <<a>> \in Seq({a})
  OBVIOUS
<1>2. GtReached(to, <<>>) = {to}
  <2>1. Len(<<>>) = 0
    OBVIOUS
  <2>2. GtLeads(to, <<>>)
    BY <1>1, GtReachedIs
  <2>. QED BY <2>1, <2>2 DEF GtLeads
<1>3. GtReached(to, <<a>>) = GtBelow({to}, a)
  <2>1. Len(<<a>>) = 1 /\ <<a>>[1] = a /\ 1 - 1 = 0 /\ 1 \in 1..1
    OBVIOUS
  <2>2. GtLeads(to, <<a>>)
    BY <1>1, GtReachedIs
  <2>. QED BY <2>1, <2>2 DEF GtLeads
<1>. QED BY <1>2, <1>3

LEMMA GtReachedPair ==
    ASSUME NEW to \in GtDevices, NEW a, NEW b
    PROVE  GtReached(to, <<a, b>>) = GtBelow(GtBelow({to}, a), b)
<1>1. <<a, b>> \in Seq({a, b})
  OBVIOUS
<1>2. /\ Len(<<a, b>>) = 2 /\ <<a, b>>[1] = a /\ <<a, b>>[2] = b
      /\ 1 - 1 = 0 /\ 2 - 1 = 1 /\ 1 \in 1..2 /\ 2 \in 1..2
  OBVIOUS
<1>3. GtLeads(to, <<a, b>>)
  BY <1>1, GtReachedIs
<1>. QED BY <1>2, <1>3 DEF GtLeads

(* Nobody but the device whose address comes last is reached, if addresses  *)
(* are the devices' own.                                                   *)
LEMMA GtReachesLast ==
    ASSUME NEW to \in GtDevices, NEW T, NEW route \in Seq(T), route # <<>>,
           \A e \in GtDevices : gtRow[e].addr \in {"none", e}, Last(route) # "none"
    PROVE  GtReached(to, route) \subseteq {Last(route)}
<1>1. PICK found \in [0..Len(route) -> SUBSET GtDevices] :
         /\ \A n \in 1..Len(route) : found[n] = GtBelow(found[n - 1], route[n])
         /\ GtReached(to, route) = found[Len(route)]
  BY GtReachedIs DEF GtLeads
<1>2. Len(route) \in 1..Len(route) /\ Last(route) = route[Len(route)]
  BY DEF Last
<1>3. GtReached(to, route) = GtBelow(found[Len(route) - 1], Last(route))
  BY <1>1, <1>2
<1>. QED BY <1>3 DEF GtBelow

(* One address after another.                                              *)
LEMMA GtPair ==
    ASSUME NEW S, NEW d \in S, NEW p \in S
    PROVE  Append(<<d>>, p) = <<d, p>> /\ <<d>> \o <<p>> = <<d, p>>
<1>1. <<d>> \in Seq(S) /\ Len(<<d>>) = 1 /\ <<p>> \in Seq(S) /\ Len(<<p>>) = 1
  OBVIOUS
<1>2. <<d, p>> \in Seq(S) /\ Len(<<d, p>>) = 2
  OBVIOUS
<1>3. Append(<<d>>, p) \in Seq(S) /\ Len(Append(<<d>>, p)) = 2
  BY <1>1
<1>4. \A i \in 1..2 : Append(<<d>>, p)[i] = <<d, p>>[i]
  BY <1>1
<1>5. <<d>> \o <<p>> \in Seq(S) /\ Len(<<d>> \o <<p>>) = 2
  BY <1>1
<1>6. \A i \in 1..2 : (<<d>> \o <<p>>)[i] = <<d, p>>[i]
  BY <1>1
<1>7. Append(<<d>>, p) = <<d, p>>
  BY <1>2, <1>3, <1>4, SeqEqual
<1>8. <<d>> \o <<p>> = <<d, p>>
  BY <1>2, <1>5, <1>6, SeqEqual
<1>. QED BY <1>7, <1>8

(* A gateway that has none above it, or one that has none.                  *)
LEMMA GtUpShort ==
    ASSUME GtViewsFit, NEW d \in GtDevices, NEW p, p = GtView(d).parent,
           p # "none" /\ GtView(p).there => GtView(p).parent = "none"
    PROVE  /\ GtUpFrom(d) = IF p = "none" \/ ~GtView(p).there THEN <<d>> ELSE <<d, p>>
           /\ ~GtEndless(d)
           /\ GtTop(d) \in GtDevices
<1>. DEFINE N == Cardinality(GtDevices)
            short == IF p = "none" \/ ~GtView(p).there THEN <<d>> ELSE <<d, p>>
<1>1. N \in Nat /\ N >= 1 /\ 1 \in 1..N /\ p \in GtDevices \cup {"none"}
  BY GtCountDevices DEF GtViewsFit, GtRecords
<1>2. PICK up \in [0..N -> Seq(GtDevices) \ {<<>>}] :
              /\ up[0] = <<d>>
              /\ \A n \in 1..N : up[n] = GtNextUp(up[n - 1])
              /\ GtUpFrom(d) = up[N]
  BY GtUpFromIs
<1>3. GtNextUp(<<d>>) = short
  <2>1. <<d>> \in Seq(GtDevices) /\ Len(<<d>>) = 1 /\ <<d>>[1] = d
    OBVIOUS
  <2>2. Last(<<d>>) = d
    BY <2>1 DEF Last
  <2>3. CASE p = "none" \/ ~GtView(p).there
    BY <2>2, <2>3 DEF GtNextUp
  <2>4. CASE ~(p = "none" \/ ~GtView(p).there)
    <3>1. p \in GtDevices
      BY <2>4, <1>1
    <3>2. Append(<<d>>, p) = <<d, p>>
      BY <3>1, GtPair
    <3>. QED BY <2>2, <2>4, <3>2 DEF GtNextUp
  <2>. QED BY <2>3, <2>4
<1>4. GtNextUp(short) = short
  <2>1. Last(<<d, p>>) = p
    BY DEF Last
  <2>2. CASE p = "none" \/ ~GtView(p).there
    BY <2>2, <1>3
  <2>3. CASE ~(p = "none" \/ ~GtView(p).there)
    BY <2>1, <2>3 DEF GtNextUp
  <2>. QED BY <2>2, <2>3
<1>5. 0..N \subseteq {n \in 0..N : n = 0 \/ up[n] = short}
  <2>. DEFINE T == {n \in 0..N : n = 0 \/ up[n] = short}
  <2>1. 0 \in T
    BY <1>1
  <2>2. ASSUME NEW n \in 1..N, n - 1 \in T PROVE n \in T
    <3>1. n \in 0..N /\ n - 1 \in 0..N
      BY <1>1
    <3>2. up[n] = GtNextUp(up[n - 1])
      BY <1>2
    <3>3. up[n - 1] \in {<<d>>, short}
      BY <2>2, <1>2
    <3>. HIDE DEF short
    <3>. QED BY <3>1, <3>2, <3>3, <1>3, <1>4
  <2>. HIDE DEF T
  <2>3. 0..N \subseteq T
    BY <2>1, <2>2, <1>1, GtCountUp
  <2>. QED BY <2>3 DEF T
<1>6. GtUpFrom(d) = short
  <2>1. N \in 0..N /\ N # 0
    BY <1>1
  <2>. HIDE DEF short, N
  <2>. QED BY <2>1, <1>2, <1>5
<1>7. ~GtEndless(d)
  <2>1. CASE p = "none" \/ ~GtView(p).there
    <3>1. Len(GtUpFrom(d)) = 1
      BY <2>1, <1>6
    <3>. QED BY <3>1, <1>1 DEF GtEndless
  <2>2. CASE ~(p = "none" \/ ~GtView(p).there)
    <3>1. Len(GtUpFrom(d)) = 2 /\ p \in GtDevices /\ p # d
      BY <2>2, <1>6, <1>1
    <3>2. N >= 2
      <4>1. IsFiniteSet({d, p}) /\ Cardinality({d, p}) = 2
        <5>1. IsFiniteSet({d}) /\ Cardinality({d}) = 1
          BY FS_Singleton
        <5>2. {d, p} = {d} \cup {p} /\ p \notin {d}
          BY <3>1
        <5>3. IsFiniteSet({d} \cup {p}) /\ Cardinality({d} \cup {p}) = Cardinality({d}) + 1
          BY <5>1, <5>2, FS_AddElement
        <5>. QED BY <5>1, <5>2, <5>3
      <4>2. Cardinality({d, p}) <= Cardinality(GtDevices)
        <5>1. {d, p} \subseteq GtDevices
          BY <3>1
        <5>. QED BY <5>1, GtDevicesAssumption, FS_Subset
      <4>. QED BY <4>1, <4>2, <1>1
    <3>. QED BY <3>1, <3>2, <1>1 DEF GtEndless
  <2>. QED BY <2>1, <2>2
<1>8. GtTop(d) \in GtDevices
  <2>1. CASE p = "none" \/ ~GtView(p).there
    BY <2>1, <1>6 DEF GtTop, Last
  <2>2. CASE ~(p = "none" \/ ~GtView(p).there)
    <3>1. GtUpFrom(d) = <<d, p>> /\ p \in GtDevices
      BY <2>2, <1>6, <1>1
    <3>. QED BY <3>1 DEF GtTop, Last
  <2>. QED BY <2>1, <2>2
<1>. QED BY <1>6, <1>7, <1>8

-----------------------------------------------------------------------------
(* What is stored and what is under way, whoever calls in whichever order: *)
(* each row, copy and call is one the requests can make.                   *)
GtAddrs == GtDevices \cup {"none"}

(* Who may be given which parent; devices below devices that may be given   *)
(* one; whose configurations are always of some kinds.                     *)
GtTied(d, p) ==
    \E r \in GtRequests :
        /\ r.op \in {"bind", "update", "create", "register"}
        /\ r.parent = p /\ p # "none"
        /\ d \in Range(r.devices)
GtBound(d) == \E p \in GtDevices : GtTied(d, p)
GtLow(d)   == \E p \in GtDevices : GtTied(d, p) /\ GtBound(p)
GtStays(d, kinds) ==
    /\ d \notin GtAbsent => GtKinds[d] \in kinds
    /\ \A r \in GtRequests :
          r.op \in {"config", "create", "register"} /\ d \in Range(r.devices) => r.kind \in kinds

(* What has a parent keeps a kind that may have one.                       *)
GtKindsLast == \A d \in GtDevices : GtBound(d) => GtStays(d, {"gateway", "sub"})
(* A device is updated with its parent.                                    *)
GtParentsGiven == \A r \in GtRequests : r.op \in {"bind", "update"} => r.parent # "none"
(* Gateways are at most two levels deep.                                   *)
GtTwoLevels ==
    /\ \A d \in GtDevices : GtLow(d) => GtStays(d, {"sub"})
    /\ \A d, p, q \in GtDevices : GtTied(d, p) /\ GtTied(p, q) => ~GtBound(q)
GtOrderly == GtKindsLast /\ GtParentsGiven /\ GtTwoLevels /\ GtUpLevels >= 1

(* A row or a copy of a device.                                            *)
GtRowFits(d, row) ==
    /\ row \in GtRecords
    /\ row.addr \in {"none", d}
    /\ row.parent # "none" => row.addr = d /\ GtTied(d, row.parent)
    /\ row.parent = "none" /\ GtParentsGiven => row.addr = "none"
    /\ row.there /\ GtBound(d) /\ GtKindsLast => row.kind \in {"gateway", "sub"}
    /\ row.there /\ GtLow(d) /\ GtTwoLevels => row.kind = "sub"

(* A call under way is a request, or what is left of it.                    *)
GtCallAsked(c) ==
    gtCall[c].at # "idle" =>
        /\ gtCall[c].devices # <<>>
        /\ \E r \in GtRequests : /\ gtCall[c].op = r.op /\ gtCall[c].parent = r.parent
                                 /\ gtCall[c].kind = r.kind
                                 /\ Range(gtCall[c].devices) \subseteq Range(r.devices)

GtRowsStored ==
    /\ gtRow \in [GtDevices -> GtRecords] /\ gtCopy \in [GtDevices -> GtRecords]
    /\ \A d \in GtDevices : GtRowFits(d, gtRow[d]) /\ GtRowFits(d, gtCopy[d])
    /\ gtRead # GtNoRead => gtRead.device \in GtDevices /\ GtRowFits(gtRead.device, gtRead.row)
GtCallsAsked ==
    /\ gtCall \in [GtCallers -> GtTasks]
    /\ \A c \in GtCallers : GtCallAsked(c)
GtMessages ==
    /\ gtSend \in {GtNone} \cup [at : {"resolve"}, for : GtDevices, view : GtRecords,
                                 route : Seq(GtAddrs), calm : BOOLEAN]
    /\ gtSent \in {GtNone} \cup [at : {"sent"}, for : GtDevices, to : GtDevices,
                                 route : Seq(GtAddrs), leaf : GtConfigs, calm : BOOLEAN]
    /\ gtHeard \in {GtNone} \cup [at : {"heard"}, for : GtDevices, calm : BOOLEAN,
                                  got : SUBSET GtDevices]
    /\ gtDown \in BOOLEAN /\ gtCalls \in 0..GtMaxCalls /\ gtSends \in 0..GtMaxSends
GtTyped == GtRowsStored /\ GtCallsAsked /\ GtMessages

LEMMA GtNoRowFits == \A d : GtRowFits(d, GtNoRow)
BY DEF GtRowFits, GtNoRow, GtRecords, GtConfigs

LEMMA GtInitTyped == GtInit => GtTyped
<1>. SUFFICES ASSUME GtInit PROVE GtTyped
  OBVIOUS
<1>1. GtNoRow \in GtRecords
  BY DEF GtNoRow, GtRecords, GtConfigs
<1>2. ASSUME NEW d \in GtDevices PROVE GtRowFits(d, gtRow[d]) /\ GtRowFits(d, gtCopy[d])
  <2>1. GtRowFits(d, gtCopy[d])
    BY GtNoRowFits DEF GtInit
  <2>2. CASE d \in GtAbsent
    BY <2>1, <2>2, GtNoRowFits DEF GtInit
  <2>3. CASE d \notin GtAbsent
    <3>1. gtRow[d] = [GtNoRow EXCEPT !.there = TRUE, !.kind = GtKinds[d]]
      BY <2>3 DEF GtInit
    <3>2. GtKinds[d] \in GtConfigs
      BY GtAssumption
    <3>3. /\ gtRow[d] \in GtRecords /\ gtRow[d].parent = "none" /\ gtRow[d].addr = "none"
          /\ gtRow[d].kind = GtKinds[d]
      BY <3>1, <3>2 DEF GtNoRow, GtRecords
    <3>. QED BY <2>1, <2>3, <3>3 DEF GtRowFits, GtKindsLast, GtTwoLevels, GtStays
  <2>. QED BY <2>2, <2>3, <2>1
<1>3. gtRow \in [GtDevices -> GtRecords]
  <2>1. \A d \in GtDevices : gtRow[d] \in GtRecords
    BY <1>2 DEF GtRowFits
  <2>. QED BY <2>1 DEF GtInit
<1>4. gtCopy \in [GtDevices -> GtRecords] /\ gtRead = GtNoRead
  BY <1>1 DEF GtInit
<1>5. GtCallsAsked
  <2>1. GtIdle \in GtTasks /\ GtIdle.at = "idle"
    <3>1. <<>> \in Seq(GtDevices)
      OBVIOUS
    <3>. QED BY <3>1 DEF GtIdle, GtTasks, GtOps, GtConfigs
  <2>2. gtCall = [c \in GtCallers |-> GtIdle]
    BY DEF GtInit
  <2>. QED BY <2>1, <2>2 DEF GtCallsAsked, GtCallAsked
<1>6. GtMessages
  <2>1. GtMaxCalls \in Nat /\ GtMaxSends \in Nat
    BY GtAssumption
  <2>2. 0 \in 0..GtMaxCalls /\ 0 \in 0..GtMaxSends
    BY <2>1
  <2>3. gtCalls \in 0..GtMaxCalls /\ gtSends \in 0..GtMaxSends /\ gtDown \in BOOLEAN
    BY <2>2 DEF GtInit
  <2>4. gtSend = GtNone /\ gtSent = GtNone /\ gtHeard = GtNone
    BY DEF GtInit
  <2>. QED BY <2>3, <2>4, Zenon DEF GtMessages
<1>. QED BY <1>2, <1>3, <1>4, <1>5, <1>6 DEF GtTyped, GtRowsStored

-----------------------------------------------------------------------------
(* The calls.                                                              *)
LEMMA GtWorkOf ==
    ASSUME GtCallsAsked, NEW c \in GtCallers, gtCall[c].at # "idle"
    PROVE  /\ gtCall[c] \in GtTasks /\ GtOf(c) \in GtDevices
           /\ \E r \in GtRequests : /\ gtCall[c].op = r.op /\ gtCall[c].parent = r.parent
                                    /\ gtCall[c].kind = r.kind
                                    /\ GtOf(c) \in Range(r.devices)
<1>1. gtCall[c] \in GtTasks /\ GtCallAsked(c)
  BY DEF GtCallsAsked
<1>2. gtCall[c].devices \in Seq(GtDevices) /\ gtCall[c].devices # <<>>
  BY <1>1 DEF GtTasks, GtCallAsked
<1>3. GtOf(c) \in GtDevices /\ GtOf(c) \in Range(gtCall[c].devices)
  BY <1>2 DEF GtOf, Range
<1>. QED BY <1>1, <1>3 DEF GtCallAsked

LEMMA GtWorkMoves ==
    ASSUME GtCallsAsked, NEW c \in GtCallers, NEW t \in GtTasks,
           gtCall' = [gtCall EXCEPT ![c] = t],
           \/ t = GtIdle
           \/ /\ gtCall[c].at # "idle" /\ t.devices # <<>>
              /\ t.op = gtCall[c].op /\ t.parent = gtCall[c].parent /\ t.kind = gtCall[c].kind
              /\ Range(t.devices) \subseteq Range(gtCall[c].devices)
           \/ /\ t.devices # <<>>
              /\ \E r \in GtRequests : /\ t.op = r.op /\ t.parent = r.parent /\ t.kind = r.kind
                                       /\ t.devices = r.devices
    PROVE  GtCallsAsked'
<1>1. gtCall' \in [GtCallers -> GtTasks] /\ gtCall'[c] = t
  BY DEF GtCallsAsked
<1>2. ASSUME NEW b \in GtCallers PROVE GtCallAsked(b)'
  <2>1. CASE b # c
    <3>1. gtCall'[b] = gtCall[b] /\ GtCallAsked(b)
      BY <2>1 DEF GtCallsAsked
    <3>. QED BY <3>1 DEF GtCallAsked
  <2>2. CASE b = c
    <3>1. CASE t = GtIdle
      BY <1>1, <2>2, <3>1 DEF GtCallAsked, GtIdle
    <3>2. CASE /\ gtCall[c].at # "idle" /\ t.devices # <<>>
               /\ t.op = gtCall[c].op /\ t.parent = gtCall[c].parent /\ t.kind = gtCall[c].kind
               /\ Range(t.devices) \subseteq Range(gtCall[c].devices)
      <4>1. GtCallAsked(c)
        BY DEF GtCallsAsked
      <4>. QED BY <1>1, <2>2, <3>2, <4>1 DEF GtCallAsked
    <3>3. CASE /\ t.devices # <<>>
               /\ \E r \in GtRequests : /\ t.op = r.op /\ t.parent = r.parent /\ t.kind = r.kind
                                        /\ t.devices = r.devices
      BY <1>1, <2>2, <3>3 DEF GtCallAsked
    <3>. QED BY <3>1, <3>2, <3>3
  <2>. QED BY <2>1, <2>2
<1>. QED BY <1>1, <1>2 DEF GtCallsAsked

LEMMA GtWorkGoes ==
    ASSUME GtCallsAsked, NEW c \in GtCallers, gtCall[c].at # "idle",
           GtEnd(c) \/ \E place \in {"check", "write", "clear"} : GtGoto(c, place)
    PROVE  GtCallsAsked'
<1>1. gtCall[c] \in GtTasks /\ GtCallAsked(c)
  BY DEF GtCallsAsked
<1>2. CASE GtEnd(c)
  <2>1. GtIdle \in GtTasks
    <3>1. <<>> \in Seq(GtDevices)
      OBVIOUS
    <3>. QED BY <3>1 DEF GtIdle, GtTasks, GtOps, GtConfigs
  <2>2. gtCall' = [gtCall EXCEPT ![c] = GtIdle]
    BY <1>2 DEF GtEnd
  <2>. QED BY <2>1, <2>2, GtWorkMoves
<1>3. ASSUME NEW place \in {"check", "write", "clear"}, GtGoto(c, place) PROVE GtCallsAsked'
  <2>. DEFINE t == [gtCall[c] EXCEPT !.at = place]
  <2>1. /\ t \in GtTasks /\ t.op = gtCall[c].op /\ t.parent = gtCall[c].parent
        /\ t.kind = gtCall[c].kind /\ t.devices = gtCall[c].devices
    BY <1>1, <1>3 DEF GtTasks
  <2>2. gtCall' = [gtCall EXCEPT ![c] = t]
    BY <1>3 DEF GtGoto
  <2>3. t.devices # <<>>
    BY <1>1, <2>1 DEF GtCallAsked
  <2>4. PICK u : u = t
    OBVIOUS
  <2>. HIDE DEF t
  <2>. QED BY <2>1, <2>2, <2>3, <2>4, GtWorkMoves
<1>. QED BY <1>2, <1>3

LEMMA GtStirs ==
    ASSUME GtMessages, gtSend' = GtStir(gtSend), gtSent' = GtStir(gtSent),
           UNCHANGED <<gtHeard, gtDown, gtCalls, gtSends>>
    PROVE  GtMessages'
<1>1. gtSend' \in {GtNone} \cup [at : {"resolve"}, for : GtDevices, view : GtRecords,
                                 route : Seq(GtAddrs), calm : BOOLEAN]
  <2>1. CASE gtSend = GtNone
    BY <2>1 DEF GtStir, GtNone
  <2>2. CASE gtSend # GtNone
    <3>1. gtSend \in [at : {"resolve"}, for : GtDevices, view : GtRecords,
                      route : Seq(GtAddrs), calm : BOOLEAN]
      BY <2>2 DEF GtMessages
    <3>. QED BY <3>1 DEF GtStir
  <2>. QED BY <2>1, <2>2
<1>2. gtSent' \in {GtNone} \cup [at : {"sent"}, for : GtDevices, to : GtDevices,
                                 route : Seq(GtAddrs), leaf : GtConfigs, calm : BOOLEAN]
  <2>1. CASE gtSent = GtNone
    BY <2>1 DEF GtStir, GtNone
  <2>2. CASE gtSent # GtNone
    <3>1. gtSent \in [at : {"sent"}, for : GtDevices, to : GtDevices,
                      route : Seq(GtAddrs), leaf : GtConfigs, calm : BOOLEAN]
      BY <2>2 DEF GtMessages
    <3>. QED BY <3>1 DEF GtStir
  <2>. QED BY <2>1, <2>2
<1>. QED BY <1>1, <1>2 DEF GtMessages

LEMMA GtRowsChange ==
    ASSUME GtRowsStored, NEW d \in GtDevices, NEW row, GtRowFits(d, row),
           gtRow' = [gtRow EXCEPT ![d] = row], UNCHANGED <<gtCopy, gtRead>>
    PROVE  GtRowsStored'
<1>1. row \in GtRecords
  BY DEF GtRowFits
<1>2. gtRow' \in [GtDevices -> GtRecords]
  BY <1>1 DEF GtRowsStored
<1>3. ASSUME NEW e \in GtDevices PROVE GtRowFits(e, gtRow'[e])
  <2>1. CASE e = d
    <3>1. gtRow'[e] = row
      BY <2>1 DEF GtRowsStored
    <3>. QED BY <2>1, <3>1
  <2>2. CASE e # d
    <3>1. gtRow'[e] = gtRow[e]
      BY <2>2 DEF GtRowsStored
    <3>. QED BY <3>1 DEF GtRowsStored
  <2>. QED BY <2>1, <2>2
<1>. QED BY <1>2, <1>3 DEF GtRowsStored

(* What a write makes of a row.                                            *)
LEMMA GtRowGets ==
    ASSUME NEW d \in GtDevices, NEW row, GtRowFits(d, row), row.there
    PROVE  /\ GtRowFits(d, [row EXCEPT !.parent = "none", !.addr = "none"])
           /\ \A r \in GtRequests : d \in Range(r.devices) =>
                 /\ r.op \in {"bind", "update"} =>
                       GtRowFits(d, [row EXCEPT !.parent = r.parent, !.addr = d])
                 /\ r.op = "config" => GtRowFits(d, [row EXCEPT !.kind = r.kind])
<1>1. row \in GtRecords
  BY DEF GtRowFits
<1>2. GtRowFits(d, [row EXCEPT !.parent = "none", !.addr = "none"])
  <2>. SUFFICES ASSUME NEW new, new = [row EXCEPT !.parent = "none", !.addr = "none"] PROVE GtRowFits(d, new)
    OBVIOUS
  <2>1. /\ new \in GtRecords /\ new.parent = "none" /\ new.addr = "none"
        /\ new.kind = row.kind /\ new.there = row.there
    BY <1>1 DEF GtRecords
  <2>. QED BY <2>1 DEF GtRowFits
<1>3. ASSUME NEW r \in GtRequests, d \in Range(r.devices), r.op \in {"bind", "update"}
      PROVE  GtRowFits(d, [row EXCEPT !.parent = r.parent, !.addr = d])
  <2>. SUFFICES ASSUME NEW new, new = [row EXCEPT !.parent = r.parent, !.addr = d] PROVE GtRowFits(d, new)
    OBVIOUS
  <2>1. r.parent \in GtDevices \cup {"none"}
    BY GtAssumption DEF GtRequest
  <2>2. /\ new \in GtRecords /\ new.parent = r.parent /\ new.addr = d
        /\ new.kind = row.kind /\ new.there = row.there
    BY <1>1, <2>1 DEF GtRecords
  <2>3. r.parent # "none" => GtTied(d, r.parent)
    BY <1>3 DEF GtTied
  <2>4. GtParentsGiven => r.parent # "none"
    BY <1>3 DEF GtParentsGiven
  <2>. QED BY <2>2, <2>3, <2>4 DEF GtRowFits
<1>4. ASSUME NEW r \in GtRequests, d \in Range(r.devices), r.op = "config"
      PROVE  GtRowFits(d, [row EXCEPT !.kind = r.kind])
  <2>. SUFFICES ASSUME NEW new, new = [row EXCEPT !.kind = r.kind] PROVE GtRowFits(d, new)
    OBVIOUS
  <2>1. r.kind \in GtConfigs
    BY GtAssumption DEF GtRequest
  <2>2. /\ new \in GtRecords /\ new.parent = row.parent /\ new.addr = row.addr
        /\ new.kind = r.kind /\ new.there = row.there
    BY <1>1, <2>1 DEF GtRecords
  <2>3. /\ GtBound(d) /\ GtKindsLast => r.kind \in {"gateway", "sub"}
        /\ GtLow(d) /\ GtTwoLevels => r.kind = "sub"
    BY <1>4 DEF GtKindsLast, GtTwoLevels, GtStays
  <2>. QED BY <2>2, <2>3 DEF GtRowFits
<1>. QED BY <1>2, <1>3, <1>4

LEMMA GtRowMade ==
    ASSUME NEW d \in GtDevices, NEW r \in GtRequests, d \in Range(r.devices),
           r.op \in {"create", "register"}
    PROVE  GtRowFits(d, [there |-> TRUE, parent |-> r.parent, kind |-> r.kind,
                         addr |-> IF r.parent = "none" THEN "none" ELSE d])
<1>. SUFFICES ASSUME NEW new,
                     new = [there |-> TRUE, parent |-> r.parent, kind |-> r.kind,
                            addr |-> IF r.parent = "none" THEN "none" ELSE d]
              PROVE  GtRowFits(d, new)
  OBVIOUS
<1>1. r.kind \in GtConfigs /\ r.parent \in GtDevices \cup {"none"}
  BY GtAssumption DEF GtRequest
<1>2. /\ new \in GtRecords /\ new.parent = r.parent /\ new.kind = r.kind /\ new.there
      /\ new.addr = IF r.parent = "none" THEN "none" ELSE d
  BY <1>1 DEF GtRecords
<1>3. /\ GtBound(d) /\ GtKindsLast => r.kind \in {"gateway", "sub"}
      /\ GtLow(d) /\ GtTwoLevels => r.kind = "sub"
  BY DEF GtKindsLast, GtTwoLevels, GtStays
<1>4. r.parent # "none" => GtTied(d, r.parent)
  BY DEF GtTied
<1>. QED BY <1>2, <1>3, <1>4 DEF GtRowFits

GtWritesFor(c) ==
    \/ WriteBind(c) \/ RemoveSubDevice(c) \/ UpdateDeviceConfig(c)
    \/ UpdateDevice(c) \/ WriteDelete(c) \/ WriteCreate(c)

(* Every write puts a row of its device in place.                          *)
LEMMA GtWritten ==
    ASSUME GtRowsStored, GtCallsAsked, NEW c \in GtCallers, GtWritesFor(c)
    PROVE  /\ GtOf(c) \in GtDevices /\ gtCall[c].at = "write"
           /\ \E row : GtRowFits(GtOf(c), row) /\ GtWrite(c, row)
<1>1. gtCall[c].at = "write"
  BY DEF GtWritesFor, WriteBind, RemoveSubDevice, UpdateDeviceConfig, UpdateDevice, WriteDelete,
         WriteCreate, WriteRow, GtWrite
<1>2. PICK r \in GtRequests : /\ gtCall[c].op = r.op /\ gtCall[c].parent = r.parent
                              /\ gtCall[c].kind = r.kind
                              /\ GtOf(c) \in Range(r.devices)
  BY <1>1, GtWorkOf
<1>3. PICK d \in GtDevices : d = GtOf(c)
  BY <1>1, GtWorkOf
<1>4. PICK row : row = gtRow[d]
  OBVIOUS
<1>5. GtRowFits(d, row)
  BY <1>4 DEF GtRowsStored
<1>6. CASE WriteBind(c)
  <2>1. r.op = "bind"
    BY <1>2, <1>6 DEF WriteBind
  <2>2. GtWrite(c, IF row.there THEN [row EXCEPT !.parent = r.parent, !.addr = d] ELSE row)
    BY <1>2, <1>3, <1>4, <1>6 DEF WriteBind
  <2>3. row.there => GtRowFits(d, [row EXCEPT !.parent = r.parent, !.addr = d])
    BY <2>1, <1>2, <1>3, <1>5, GtRowGets
  <2>. QED BY <2>2, <2>3, <1>1, <1>3, <1>5
<1>7. CASE RemoveSubDevice(c)
  <2>1. row.there => GtRowFits(d, [row EXCEPT !.parent = "none", !.addr = "none"])
    BY <1>5, GtRowGets
  <2>2. WriteRow(c, [row EXCEPT !.parent = "none", !.addr = "none"])
    BY <1>3, <1>4, <1>7 DEF RemoveSubDevice
  <2>3. \E q : GtRowFits(GtOf(c), q) /\ GtWrite(c, q)
    BY <2>1, <2>2, <1>3, <1>4, GtNoRowFits DEF WriteRow
  <2>. QED BY <2>3, <1>1, <1>3
<1>8. CASE UpdateDeviceConfig(c)
  <2>0. r.op = "config"
    BY <1>2, <1>8 DEF UpdateDeviceConfig
  <2>1. row.there => GtRowFits(d, [row EXCEPT !.kind = r.kind])
    BY <2>0, <1>2, <1>3, <1>5, GtRowGets
  <2>2. WriteRow(c, [row EXCEPT !.kind = r.kind])
    BY <1>2, <1>3, <1>4, <1>8 DEF UpdateDeviceConfig
  <2>3. \E q : GtRowFits(GtOf(c), q) /\ GtWrite(c, q)
    BY <2>1, <2>2, <1>3, <1>4, GtNoRowFits DEF WriteRow
  <2>. QED BY <2>3, <1>1, <1>3
<1>9. CASE UpdateDevice(c)
  <2>0. r.op = "update"
    BY <1>2, <1>9 DEF UpdateDevice
  <2>1. row.there => GtRowFits(d, [row EXCEPT !.parent = r.parent, !.addr = d])
    BY <2>0, <1>2, <1>3, <1>5, GtRowGets
  <2>2. WriteRow(c, [row EXCEPT !.parent = r.parent, !.addr = d])
    BY <1>2, <1>3, <1>4, <1>9 DEF UpdateDevice
  <2>3. \E q : GtRowFits(GtOf(c), q) /\ GtWrite(c, q)
    BY <2>1, <2>2, <1>3, <1>4, GtNoRowFits DEF WriteRow
  <2>. QED BY <2>3, <1>1, <1>3
<1>10. CASE WriteDelete(c)
  <2>1. GtWrite(c, GtNoRow)
    BY <1>10 DEF WriteDelete
  <2>. QED BY <2>1, <1>1, <1>3, GtNoRowFits
<1>11. CASE WriteCreate(c)
  <2>0. r.op \in {"create", "register"}
    BY <1>2, <1>11 DEF WriteCreate
  <2>. DEFINE new == [there |-> TRUE, parent |-> r.parent, kind |-> r.kind,
                      addr |-> IF r.parent = "none" THEN "none" ELSE d]
  <2>1. GtRowFits(d, new)
    BY <2>0, <1>2, <1>3, GtRowMade
  <2>2. GtWrite(c, IF row.there THEN row ELSE new)
    BY <1>2, <1>3, <1>4, <1>11 DEF WriteCreate
  <2>. HIDE DEF new
  <2>. QED BY <2>1, <2>2, <1>1, <1>3, <1>5
<1>. QED BY <1>6, <1>7, <1>8, <1>9, <1>10, <1>11 DEF GtWritesFor

-----------------------------------------------------------------------------
(* What is read: rows and copies alike.                                    *)
LEMMA GtViewFits ==
    ASSUME GtRowsStored
    PROVE  GtViewsFit /\ \A d \in GtDevices : GtRowFits(d, GtView(d))
<1>1. \A d \in GtDevices : GtRowFits(d, GtView(d))
  BY DEF GtRowsStored, GtView
<1>. QED BY <1>1 DEF GtRowFits, GtViewsFit

(* Copies that are filled change nothing of what is read.                  *)
LEMMA GtFilled ==
    ASSUME GtRowsStored, NEW ds, GtFill(ds), UNCHANGED <<gtRow, gtRead>>
    PROVE  /\ GtRowsStored'
           /\ \A d \in GtDevices : GtView(d)' = GtView(d)
<1>1. \A d \in GtDevices : gtCopy'[d] = IF d \in ds THEN GtView(d) ELSE gtCopy[d]
  BY DEF GtFill
<1>2. \A d \in GtDevices : GtRowFits(d, gtCopy'[d])
  BY <1>1, GtViewFits DEF GtRowsStored
<1>3. gtCopy' \in [GtDevices -> GtRecords]
  <2>1. \A d \in GtDevices : gtCopy'[d] \in GtRecords
    BY <1>2 DEF GtRowFits
  <2>. QED BY <2>1 DEF GtFill
<1>4. GtRowsStored'
  BY <1>2, <1>3 DEF GtRowsStored
<1>5. ASSUME NEW d \in GtDevices PROVE GtView(d)' = GtView(d)
  <2>1. gtRow'[d] = gtRow[d]
    OBVIOUS
  <2>. QED BY <1>1, <2>1 DEF GtView
<1>. QED BY <1>4, <1>5

LEMMA GtReadsKept ==
    ASSUME GtRowsStored,
           GtKeep \/ (\E c \in GtCallers : GtClear(c) /\ GtOf(c) \in GtDevices)
                  \/ \E d \in GtDevices : GtLoad(d)
    PROVE  GtRowsStored'
<1>1. ASSUME NEW d \in GtDevices, GtLoad(d) PROVE GtRowsStored'
  <2>1. gtRead' = [device |-> d, row |-> gtRow[d]] /\ UNCHANGED <<gtRow, gtCopy>>
    BY <1>1 DEF GtLoad
  <2>2. gtRead'.device = d /\ gtRead'.row = gtRow[d]
    BY <2>1
  <2>. QED BY <2>1, <2>2 DEF GtRowsStored
<1>2. ASSUME NEW d \in GtDevices, NEW row, GtRowFits(d, row),
             gtCopy' = [gtCopy EXCEPT ![d] = row], gtRow' = gtRow,
             gtRead' \in {gtRead, GtNoRead}
      PROVE  GtRowsStored'
  <2>1. row \in GtRecords
    BY <1>2 DEF GtRowFits
  <2>2. gtCopy' \in [GtDevices -> GtRecords]
    BY <1>2, <2>1 DEF GtRowsStored
  <2>3. \A e \in GtDevices : gtCopy'[e] = IF e = d THEN row ELSE gtCopy[e]
    BY <1>2 DEF GtRowsStored
  <2>4. \A e \in GtDevices : GtRowFits(e, gtCopy'[e])
    BY <1>2, <2>3 DEF GtRowsStored
  <2>. QED BY <1>2, <2>2, <2>4 DEF GtRowsStored
<1>3. CASE GtKeep
  <2>1. PICK d, row : d = gtRead.device /\ row = gtRead.row
    OBVIOUS
  <2>2. /\ gtRead # GtNoRead /\ gtCopy' = [gtCopy EXCEPT ![d] = row]
        /\ gtRead' = GtNoRead /\ gtRow' = gtRow
    BY <1>3, <2>1 DEF GtKeep
  <2>3. d \in GtDevices /\ GtRowFits(d, row)
    BY <2>1, <2>2 DEF GtRowsStored
  <2>. QED BY <1>2, <2>2, <2>3
<1>4. ASSUME NEW c \in GtCallers, GtClear(c), GtOf(c) \in GtDevices PROVE GtRowsStored'
  <2>1. PICK d \in GtDevices : d = GtOf(c)
    BY <1>4
  <2>2. PICK row : row = GtNoRow
    OBVIOUS
  <2>3. gtCopy' = [gtCopy EXCEPT ![d] = row] /\ gtRead' = gtRead /\ gtRow' = gtRow
    BY <1>4, <2>1, <2>2 DEF GtClear
  <2>. QED BY <1>2, <2>2, <2>3, GtNoRowFits
<1>. QED BY <1>1, <1>3, <1>4

-----------------------------------------------------------------------------
(* A message on its way.                                                   *)
LEMMA GtLastOf ==
    ASSUME NEW S, NEW s \in Seq(S), NEW x \in S
    PROVE  /\ s \o <<x>> \in Seq(S) /\ s \o <<x>> # <<>>
           /\ Last(s \o <<x>>) = x
<1>1. <<x>> \in Seq(S) /\ Len(<<x>>) = 1 /\ <<x>>[1] = x
  OBVIOUS
<1>2. s \o <<x>> \in Seq(S) /\ Len(s \o <<x>>) = Len(s) + 1 /\ Len(s) \in Nat
  BY <1>1
<1>3. (s \o <<x>>)[Len(s) + 1] = x
  BY <1>1, <1>2
<1>4. s \o <<x>> # <<>>
  BY <1>2
<1>. QED BY <1>2, <1>3, <1>4 DEF Last

LEMMA GtUpTyped ==
    ASSUME GtViewsFit, NEW d \in GtDevices
    PROVE  GtUpFrom(d) \in Seq(GtDevices) /\ Len(GtUpFrom(d)) >= 1 /\ GtTop(d) \in GtDevices
<1>1. GtUpFrom(d) \in Seq(GtDevices) \ {<<>>}
  <2>1. Cardinality(GtDevices) \in 0..Cardinality(GtDevices)
    BY GtCountDevices
  <2>. QED BY <2>1, GtUpFromIs
<1>2. Len(GtUpFrom(d)) >= 1
  BY <1>1
<1>. QED BY <1>1, <1>2 DEF GtTop, Last

LEMMA GtNestedTyped ==
    ASSUME GtViewsFit, NEW g \in GtDevices
    PROVE  GtNested(g) \in Seq(GtAddrs)
<1>. DEFINE up == GtUpFrom(g)
            bound == IF GtView(Last(up)).parent = "none" THEN Len(up) - 1 ELSE Len(up)
<1>1. up \in Seq(GtDevices) /\ Len(up) >= 1
  BY GtUpTyped
<1>2. bound \in Nat /\ bound <= Len(up)
  BY <1>1
<1>3. \A i \in 1..bound : GtView(up[i]).addr \in GtAddrs
  <2>1. \A i \in 1..bound : up[i] \in GtDevices
    BY <1>1, <1>2
  <2>. QED BY <2>1 DEF GtViewsFit, GtRecords, GtAddrs
<1>4. GtNested(g) = [i \in 1..bound |-> GtView(up[i]).addr]
  BY DEF GtNested
<1>. HIDE DEF up, bound
<1>. QED BY <1>2, <1>3, <1>4

LEMMA GtRouteTyped ==
    ASSUME GtRowsStored, NEW d \in GtDevices,
           GtView(d).kind = "sub" => GtView(d).parent # "none"
    PROVE  /\ GtRoute(d) \in Seq(GtAddrs)
           /\ GtView(d).kind = "sub" => GtRoute(d) # <<>> /\ Last(GtRoute(d)) = d
           /\ GtView(d).kind = "gateway" /\ GtView(d).parent # "none" => GtRoute(d) = <<d>>
           /\ GtView(d).parent = "none" => GtRoute(d) = <<>>
<1>1. GtViewsFit /\ GtRowFits(d, GtView(d)) /\ d \in GtAddrs
  BY GtViewFits DEF GtAddrs
<1>2. CASE GtView(d).kind = "sub"
  <2>1. GtView(d).parent \in GtDevices /\ GtView(d).addr = d
    BY <1>1, <1>2 DEF GtRowFits, GtRecords
  <2>2. GtNested(GtView(d).parent) \in Seq(GtAddrs)
    BY <2>1, <1>1, GtNestedTyped
  <2>3. GtRoute(d) = GtNested(GtView(d).parent) \o <<d>>
    BY <1>2, <2>1 DEF GtRoute
  <2>4. PICK s : s = GtNested(GtView(d).parent)
    OBVIOUS
  <2>5. s \in Seq(GtAddrs) /\ GtRoute(d) = s \o <<d>>
    BY <2>2, <2>3, <2>4
  <2>6. s \o <<d>> \in Seq(GtAddrs) /\ s \o <<d>> # <<>> /\ Last(s \o <<d>>) = d
    BY <2>5, <1>1, GtLastOf
  <2>. QED BY <2>5, <2>6, <1>2
<1>3. CASE GtView(d).kind = "gateway" /\ GtView(d).parent # "none"
  <2>1. GtView(d).addr = d
    BY <1>1, <1>3 DEF GtRowFits
  <2>2. GtRoute(d) = <<d>>
    BY <1>3, <2>1 DEF GtRoute
  <2>. QED BY <2>2, <1>1, <1>3
<1>4. CASE GtView(d).kind # "sub" /\ ~(GtView(d).kind = "gateway" /\ GtView(d).parent # "none")
  <2>1. GtRoute(d) = <<>>
    BY <1>4 DEF GtRoute
  <2>. QED BY <2>1, <1>4
<1>. QED BY <1>2, <1>3, <1>4

(* What a message is when it has been made, and what it takes to go down.   *)
GtMade(d) == [at |-> "resolve", for |-> d, view |-> GtView(d), route |-> GtRoute(d), calm |-> GtFresh]
GtFalls(d) ==
    LET view == GtView(d)
    IN  /\ view.kind = "sub" /\ view.addr # "none"
        /\ \/ view.parent = "none"
           \/ GtEndless(view.parent) \/ "none" \in ToSet(GtNested(view.parent))

LEMMA GtTransforms ==
    ASSUME NEW d \in GtDevices, GtTransform(d)
    PROVE  /\ GtView(d).there /\ gtSend = GtNone /\ gtSent = GtNone
           /\ gtSends < GtMaxSends /\ gtSends' = gtSends + 1
           /\ \E ds : GtFill(ds)
           /\ \/ gtSend' = GtNone
              \/ /\ gtSend' = GtMade(d)
                 /\ GtView(d).kind = "sub" =>
                       GtView(d).parent # "none" /\ GtView(GtView(d).parent).there
           /\ gtDown' => gtDown \/ GtFalls(d)
           /\ UNCHANGED <<gtRow, gtRead, gtSent, gtHeard, gtAdmin>>
<1>. DEFINE view    == GtView(d)
            sub     == view.kind = "sub"
            known   == sub /\ view.parent # "none" /\ GtView(view.parent).there
            visited == IF known THEN {d} \cup ToSet(GtUpFrom(view.parent)) ELSE {d}
            bad     == \/ sub /\ (view.addr = "none" \/ (view.parent # "none" /\ ~known))
                       \/ known /\ GtNested(view.parent) # <<>> /\ GtView(view.parent).addr = "none"
                       \/ view.kind = "gateway" /\ view.parent # "none" /\ view.addr = "none"
            falls   == \/ sub /\ view.parent = "none"
                       \/ known /\ (GtEndless(view.parent) \/ "none" \in ToSet(GtNested(view.parent)))
<1>1. /\ GtFill(visited)
      /\ gtDown' = (gtDown \/ (falls /\ ~bad))
      /\ gtSend' = IF bad \/ falls THEN GtNone ELSE GtMade(d)
  BY DEF GtTransform, GtMade
<1>2. ~(bad \/ falls) /\ sub => view.parent # "none" /\ GtView(view.parent).there
  OBVIOUS
<1>3. falls /\ ~bad => GtFalls(d)
  BY DEF GtFalls
<1>4. /\ view.there /\ gtSend = GtNone /\ gtSent = GtNone
      /\ gtSends < GtMaxSends /\ gtSends' = gtSends + 1
      /\ UNCHANGED <<gtRow, gtRead, gtSent, gtHeard, gtAdmin>>
  BY DEF GtTransform
<1>5. \E ds : GtFill(ds)
  BY <1>1
<1>6. \/ gtSend' = GtNone
      \/ gtSend' = GtMade(d) /\ (sub => view.parent # "none" /\ GtView(view.parent).there)
  <2>. HIDE DEF bad, falls, sub
  <2>. QED BY <1>1, <1>2
<1>7. gtDown' => gtDown \/ GtFalls(d)
  <2>. HIDE DEF bad, falls
  <2>. QED BY <1>1, <1>3
<1>. QED BY <1>4, <1>5, <1>6, <1>7

(* Where it is sent.                                                       *)
GtGoes(x) ==
    /\ gtSent' = [at |-> "sent", for |-> gtSend.for, to |-> x,
                  route |-> gtSend.route, leaf |-> gtSend.view.kind, calm |-> gtSend.calm]
    /\ gtSend.view.parent = "none" => x = gtSend.for
    /\ gtSend.view.parent # "none" =>
          x = GtTop(gtSend.view.parent) /\ GtView(x).there /\ GtView(x).parent = "none"

LEMMA GtResolves ==
    ASSUME GtResolve
    PROVE  /\ gtSend.at = "resolve" /\ gtSend' = GtNone
           /\ \E ds : GtFill(ds)
           /\ gtSent' = GtNone \/ \E x : GtGoes(x)
           /\ UNCHANGED <<gtRow, gtRead, gtHeard, gtDown, gtSends, gtAdmin>>
<1>. DEFINE view == gtSend.view
            to   == IF view.parent = "none" THEN {gtSend.for} ELSE GtTarget(view)
<1>1. /\ \E ds : GtFill(ds)
      /\ gtSent' = IF to = {} THEN GtNone
                   ELSE [at |-> "sent", for |-> gtSend.for, to |-> CHOOSE x \in to : TRUE,
                         route |-> gtSend.route, leaf |-> view.kind, calm |-> gtSend.calm]
  BY DEF GtResolve
<1>2. ASSUME to # {} PROVE \E x : GtGoes(x)
  <2>1. PICK x : x = CHOOSE y \in to : TRUE
    OBVIOUS
  <2>2. x \in to
    <3>. HIDE DEF to
    <3>. QED BY <1>2, <2>1
  <2>3. gtSent' = [at |-> "sent", for |-> gtSend.for, to |-> x,
                   route |-> gtSend.route, leaf |-> view.kind, calm |-> gtSend.calm]
    <3>. HIDE DEF to
    <3>. QED BY <1>1, <1>2, <2>1
  <2>4. view.parent = "none" => x = gtSend.for
    BY <2>2
  <2>5. view.parent # "none" => x = GtTop(view.parent) /\ GtView(x).there /\ GtView(x).parent = "none"
    BY <2>2 DEF GtTarget, GtTop
  <2>. HIDE DEF to
  <2>. QED BY <2>3, <2>4, <2>5 DEF GtGoes
<1>3. gtSent' = GtNone \/ \E x : GtGoes(x)
  <2>. HIDE DEF to
  <2>. QED BY <1>1, <1>2
<1>. QED BY <1>1, <1>3 DEF GtResolve

(* What becomes of the answer.                                             *)
LEMMA GtAnswers ==
    ASSUME GtAnswer
    PROVE  /\ gtSent # GtNone /\ gtSent' = GtNone /\ \E ds : GtFill(ds)
           /\ gtHeard' = [at |-> "heard", for |-> gtSent.for, calm |-> gtSent.calm,
                          got |-> IF GtView(gtSent.to).there
                                     /\ (IF gtSent.leaf = "sub" THEN Len(gtSent.route) - 1
                                         ELSE Len(gtSent.route)) <= GtUpLevels
                                  THEN GtReached(gtSent.to, gtSent.route) ELSE {}]
           /\ UNCHANGED <<gtRow, gtRead, gtSend, gtDown, gtSends, gtAdmin>>
BY DEF GtAnswer

LEMMA GtReachedTyped ==
    ASSUME NEW to \in GtDevices, NEW T, NEW route \in Seq(T)
    PROVE  GtReached(to, route) \in SUBSET GtDevices
<1>1. Len(route) \in 0..Len(route)
  OBVIOUS
<1>2. GtLeads(to, route)
  BY GtReachedIs
<1>. QED BY <1>1, <1>2 DEF GtLeads

LEMMA GtMessagesTyped ==
    ASSUME GtTyped, \/ \E d \in GtDevices : GtTransform(d)
                    \/ GtResolve \/ GtAnswer
    PROVE  GtTyped'
<1>0. GtRowsStored /\ GtCallsAsked /\ GtMessages
  BY DEF GtTyped
<1>1. ASSUME NEW d \in GtDevices, GtTransform(d) PROVE GtTyped'
  <2>1. /\ GtView(d).there /\ gtSend = GtNone /\ gtSent = GtNone
        /\ gtSends < GtMaxSends /\ gtSends' = gtSends + 1
        /\ \E ds : GtFill(ds)
        /\ \/ gtSend' = GtNone
           \/ gtSend' = GtMade(d) /\ (GtView(d).kind = "sub" => GtView(d).parent # "none")
        /\ UNCHANGED <<gtRow, gtRead, gtSent, gtHeard, gtAdmin>>
    BY <1>1, GtTransforms
  <2>2. GtRowsStored'
    BY <2>1, <1>0, GtFilled
  <2>3. GtCallsAsked'
    BY <2>1, <1>0 DEF GtCallsAsked, GtCallAsked, gtAdmin
  <2>4. gtSend' \in {GtNone} \cup [at : {"resolve"}, for : GtDevices, view : GtRecords,
                                   route : Seq(GtAddrs), calm : BOOLEAN]
    <3>1. CASE gtSend' = GtNone
      BY <3>1
    <3>2. CASE gtSend' = GtMade(d) /\ (GtView(d).kind = "sub" => GtView(d).parent # "none")
      <4>1. GtRoute(d) \in Seq(GtAddrs)
        BY <3>2, <1>0, GtRouteTyped
      <4>2. GtView(d) \in GtRecords
        BY <1>0, GtViewFits DEF GtViewsFit
      <4>3. GtFresh \in BOOLEAN
        BY DEF GtFresh
      <4>. QED BY <3>2, <4>1, <4>2, <4>3 DEF GtMade
    <3>. QED BY <2>1, <3>1, <3>2
  <2>5. gtDown' \in BOOLEAN
    BY <1>1, <1>0 DEF GtTransform, GtMessages
  <2>6. gtSends' \in 0..GtMaxSends
    <3>1. GtMaxSends \in Nat /\ gtSends \in 0..GtMaxSends
      BY <1>0, GtAssumption DEF GtMessages
    <3>. QED BY <2>1, <3>1
  <2>7. GtMessages'
    BY <2>1, <2>4, <2>5, <2>6, <1>0, Zenon DEF GtMessages, gtAdmin
  <2>. QED BY <2>2, <2>3, <2>7 DEF GtTyped
<1>2. CASE GtResolve
  <2>1. /\ gtSend.at = "resolve" /\ gtSend' = GtNone
        /\ \E ds : GtFill(ds)
        /\ gtSent' = GtNone \/ \E x : GtGoes(x)
        /\ UNCHANGED <<gtRow, gtRead, gtHeard, gtDown, gtSends, gtAdmin>>
    BY <1>2, GtResolves
  <2>2. GtRowsStored'
    BY <2>1, <1>0, GtFilled
  <2>3. GtCallsAsked'
    BY <2>1, <1>0 DEF GtCallsAsked, GtCallAsked, gtAdmin
  <2>4. gtSend \in [at : {"resolve"}, for : GtDevices, view : GtRecords,
                    route : Seq(GtAddrs), calm : BOOLEAN]
    BY <2>1, <1>0 DEF GtMessages, GtNone
  <2>5. gtSent' \in {GtNone} \cup [at : {"sent"}, for : GtDevices, to : GtDevices,
                                   route : Seq(GtAddrs), leaf : GtConfigs, calm : BOOLEAN]
    <3>1. ASSUME NEW x, GtGoes(x) PROVE x \in GtDevices
      <4>1. gtSend.view.parent \in GtDevices \cup {"none"} /\ gtSend.for \in GtDevices
        BY <2>4 DEF GtRecords
      <4>2. gtSend.view.parent \in GtDevices => GtTop(gtSend.view.parent) \in GtDevices
        BY <1>0, GtViewFits, GtUpTyped
      <4>. QED BY <3>1, <4>1, <4>2 DEF GtGoes
    <3>2. gtSend.view.kind \in GtConfigs
      BY <2>4 DEF GtRecords
    <3>. QED BY <2>1, <2>4, <3>1, <3>2 DEF GtGoes
  <2>6. GtMessages'
    BY <2>1, <2>5, <1>0, Zenon DEF GtMessages, gtAdmin
  <2>. QED BY <2>2, <2>3, <2>6 DEF GtTyped
<1>3. CASE GtAnswer
  <2>1. /\ gtSent # GtNone /\ gtSent' = GtNone /\ \E ds : GtFill(ds)
        /\ UNCHANGED <<gtRow, gtRead, gtSend, gtDown, gtSends, gtAdmin>>
    BY <1>3, GtAnswers
  <2>2. GtRowsStored'
    BY <2>1, <1>0, GtFilled
  <2>3. GtCallsAsked'
    BY <2>1, <1>0 DEF GtCallsAsked, GtCallAsked, gtAdmin
  <2>4. gtSent \in [at : {"sent"}, for : GtDevices, to : GtDevices,
                    route : Seq(GtAddrs), leaf : GtConfigs, calm : BOOLEAN]
    BY <2>1, <1>0 DEF GtMessages
  <2>5. GtReached(gtSent.to, gtSent.route) \in SUBSET GtDevices
    <3>1. PICK to, route : to = gtSent.to /\ route = gtSent.route
      OBVIOUS
    <3>2. to \in GtDevices /\ route \in Seq(GtAddrs)
      BY <2>4, <3>1
    <3>. QED BY <3>1, <3>2, GtReachedTyped
  <2>6. \E got \in SUBSET GtDevices :
           gtHeard' = [at |-> "heard", for |-> gtSent.for, calm |-> gtSent.calm, got |-> got]
    BY <1>3, <2>5, GtAnswers
  <2>7. gtHeard' \in [at : {"heard"}, for : GtDevices, calm : BOOLEAN, got : SUBSET GtDevices]
    BY <2>4, <2>6
  <2>8. GtMessages'
    BY <2>1, <2>7, <1>0, Zenon DEF GtMessages, gtAdmin
  <2>. QED BY <2>2, <2>3, <2>8 DEF GtTyped
<1>. QED BY <1>1, <1>2, <1>3

LEMMA GtCallsTyped ==
    ASSUME GtTyped, NEW c \in GtCallers,
           \/ \E r \in GtRequests : GtBegin(c, r)
           \/ GtCheck(c) \/ GtWritesFor(c) \/ GtClear(c)
    PROVE  GtTyped'
<1>0. GtRowsStored /\ GtCallsAsked /\ GtMessages
  BY DEF GtTyped
<1>1. ASSUME NEW r \in GtRequests, GtBegin(c, r) PROVE GtTyped'
  <2>. DEFINE t == [at |-> "check", op |-> r.op, parent |-> r.parent,
                    devices |-> r.devices, kind |-> r.kind]
  <2>1. r \in GtRequest /\ r.devices # <<>>
    BY GtAssumption
  <2>2. /\ t \in GtTasks /\ t.op = r.op /\ t.parent = r.parent /\ t.kind = r.kind
        /\ t.devices = r.devices
    BY <2>1 DEF GtRequest, GtTasks, GtOps
  <2>3. /\ gtCall' = [gtCall EXCEPT ![c] = t] /\ gtCalls < GtMaxCalls /\ gtCalls' = gtCalls + 1
        /\ UNCHANGED <<gtStore, gtMessage>>
    BY <1>1 DEF GtBegin
  <2>4. GtCallsAsked'
    <3>1. PICK u : u = t
      OBVIOUS
    <3>. HIDE DEF t
    <3>. QED BY <1>0, <2>1, <2>2, <2>3, <3>1, GtWorkMoves
  <2>5. gtCalls' \in 0..GtMaxCalls
    <3>1. GtMaxCalls \in Nat /\ gtCalls \in 0..GtMaxCalls
      BY <1>0, GtAssumption DEF GtMessages
    <3>. QED BY <2>3, <3>1
  <2>6. GtMessages'
    BY <2>3, <2>5, <1>0, Zenon DEF GtMessages, gtMessage
  <2>7. GtRowsStored'
    BY <2>3, <1>0 DEF GtRowsStored, gtStore
  <2>. QED BY <2>4, <2>6, <2>7 DEF GtTyped
<1>2. CASE GtCheck(c)
  <2>1. /\ gtCall[c].at # "idle" /\ (GtGoto(c, "write") \/ GtEnd(c))
        /\ UNCHANGED <<gtStore, gtMessage, gtCalls>>
    BY <1>2 DEF GtCheck
  <2>2. GtCallsAsked'
    BY <2>1, <1>0, GtWorkGoes
  <2>3. GtMessages'
    BY <2>1, <1>0, Zenon DEF GtMessages, gtMessage
  <2>4. GtRowsStored'
    BY <2>1, <1>0 DEF GtRowsStored, gtStore
  <2>. QED BY <2>2, <2>3, <2>4 DEF GtTyped
<1>3. CASE GtWritesFor(c)
  <2>1. PICK row : GtRowFits(GtOf(c), row) /\ GtWrite(c, row)
    BY <1>0, <1>3, GtWritten
  <2>2. PICK d \in GtDevices : d = GtOf(c)
    BY <1>0, <1>3, GtWritten
  <2>3. /\ gtCall[c].at # "idle"
        /\ gtRow' = [gtRow EXCEPT ![d] = row]
        /\ gtSend' = GtStir(gtSend) /\ gtSent' = GtStir(gtSent)
        /\ UNCHANGED <<gtCopy, gtRead, gtHeard, gtDown, gtSends, gtCalls>>
    BY <2>1, <2>2 DEF GtWrite
  <2>4. GtRowsStored'
    BY <2>1, <2>2, <2>3, <1>0, GtRowsChange
  <2>5. GtMessages'
    BY <2>3, <1>0, GtStirs
  <2>6. GtCallsAsked'
    <3>1. CASE WriteBind(c)
      <4>1. CASE Len(gtCall[c].devices) = 1
        <5>1. GtEnd(c)
          BY <3>1, <4>1 DEF WriteBind, GtEnd
        <5>. QED BY <5>1, <2>3, <1>0, GtWorkGoes
      <4>2. CASE Len(gtCall[c].devices) # 1
        <5>. DEFINE t == [gtCall[c] EXCEPT !.at = "check", !.devices = Tail(gtCall[c].devices)]
        <5>1. gtCall' = [gtCall EXCEPT ![c] = t]
          BY <3>1, <4>2 DEF WriteBind
        <5>2. PICK devices : devices = gtCall[c].devices
          OBVIOUS
        <5>3. devices \in Seq(GtDevices) /\ devices # <<>> /\ Len(devices) # 1
          <6>1. gtCall[c] \in GtTasks /\ GtCallAsked(c)
            BY <1>0 DEF GtCallsAsked
          <6>. QED BY <6>1, <5>2, <2>3, <4>2 DEF GtTasks, GtCallAsked
        <5>4. Tail(devices) \in Seq(GtDevices) /\ Tail(devices) # <<>>
          <6>1. Len(devices) \in Nat /\ Len(devices) > 1
            <7>1. Len(devices) \in Nat /\ Len(devices) # 0
              BY <5>3
            <7>2. Len(devices) # 1
              BY <5>3
            <7>. QED BY <7>1, <7>2
          <6>2. Len(Tail(devices)) = Len(devices) - 1 /\ Tail(devices) \in Seq(GtDevices)
            BY <5>3
          <6>. QED BY <6>1, <6>2
        <5>5. Range(Tail(devices)) \subseteq Range(devices)
          <6>1. \A i \in 1..Len(Tail(devices)) :
                   i + 1 \in 1..Len(devices) /\ Tail(devices)[i] = devices[i + 1]
            BY <5>3
          <6>. QED BY <6>1, <5>3, <5>4 DEF Range
        <5>6. /\ t \in GtTasks /\ t.devices = Tail(devices) /\ t.op = gtCall[c].op
              /\ t.parent = gtCall[c].parent /\ t.kind = gtCall[c].kind
          <6>1. gtCall[c] \in GtTasks
            BY <1>0 DEF GtCallsAsked
          <6>. QED BY <6>1, <5>2, <5>4 DEF GtTasks
        <5>7. PICK u : u = t
          OBVIOUS
        <5>. HIDE DEF t
        <5>. QED BY <1>0, <2>3, <5>1, <5>2, <5>4, <5>5, <5>6, <5>7, GtWorkMoves
      <4>. QED BY <4>1, <4>2
    <3>2. CASE ~WriteBind(c)
      <4>1. GtEnd(c) \/ GtGoto(c, "clear")
        BY <1>3, <3>2 DEF GtWritesFor, RemoveSubDevice, UpdateDeviceConfig, UpdateDevice, WriteDelete,
           WriteCreate, WriteRow
      <4>. QED BY <4>1, <2>3, <1>0, GtWorkGoes
    <3>. QED BY <3>1, <3>2
  <2>. QED BY <2>4, <2>5, <2>6 DEF GtTyped
<1>4. CASE GtClear(c)
  <2>1. /\ gtCall[c].at # "idle" /\ GtEnd(c)
        /\ UNCHANGED <<gtRow, gtRead, gtMessage, gtCalls>>
    BY <1>4 DEF GtClear
  <2>2. GtCallsAsked' /\ GtOf(c) \in GtDevices
    BY <2>1, <1>0, GtWorkGoes, GtWorkOf
  <2>3. GtMessages'
    BY <2>1, <1>0, Zenon DEF GtMessages, gtMessage
  <2>4. GtRowsStored'
    BY <2>2, <1>0, <1>4, GtReadsKept
  <2>. QED BY <2>2, <2>3, <2>4 DEF GtTyped
<1>. QED BY <1>1, <1>2, <1>3, <1>4

LEMMA GtReadsTyped ==
    ASSUME GtTyped, \/ \E d \in GtDevices : GtLoad(d)
                    \/ GtKeep \/ UNCHANGED gtVars
    PROVE  GtTyped'
<1>0. GtRowsStored /\ GtCallsAsked /\ GtMessages
  BY DEF GtTyped
<1>1. CASE (\E d \in GtDevices : GtLoad(d)) \/ GtKeep
  <2>1. UNCHANGED <<gtMessage, gtAdmin>>
    BY <1>1 DEF GtLoad, GtKeep
  <2>2. GtMessages'
    BY <2>1, <1>0, Zenon DEF GtMessages, gtMessage, gtAdmin
  <2>3. GtCallsAsked'
    BY <2>1, <1>0 DEF GtCallsAsked, GtCallAsked, gtAdmin
  <2>4. GtRowsStored'
    BY <1>0, <1>1, GtReadsKept
  <2>. QED BY <2>2, <2>3, <2>4 DEF GtTyped
<1>2. CASE UNCHANGED gtVars
  <2>1. UNCHANGED <<gtMessage, gtAdmin, gtStore>>
    BY <1>2 DEF gtVars
  <2>2. GtMessages'
    BY <2>1, <1>0, Zenon DEF GtMessages, gtMessage, gtAdmin
  <2>3. GtCallsAsked'
    BY <2>1, <1>0 DEF GtCallsAsked, GtCallAsked, gtAdmin
  <2>4. GtRowsStored'
    BY <1>0, <2>1 DEF GtRowsStored, gtStore
  <2>. QED BY <2>2, <2>3, <2>4 DEF GtTyped
<1>. QED BY <1>1, <1>2

LEMMA GtSteps ==
    ASSUME [GtNext]_gtVars
    PROVE  \/ \E c \in GtCallers : \/ \E r \in GtRequests : GtBegin(c, r)
                                   \/ GtCheck(c) \/ GtWritesFor(c) \/ GtClear(c)
           \/ \E d \in GtDevices : GtLoad(d)
           \/ GtKeep \/ UNCHANGED gtVars
           \/ \E d \in GtDevices : GtTransform(d)
           \/ GtResolve \/ GtAnswer
BY DEF GtNext, GtWritesFor

LEMMA GtNextTyped == GtTyped /\ [GtNext]_gtVars => GtTyped'
<1>. SUFFICES ASSUME GtTyped, [GtNext]_gtVars PROVE GtTyped'
  OBVIOUS
<1>1. ASSUME NEW c \in GtCallers,
             \/ \E r \in GtRequests : GtBegin(c, r)
             \/ GtCheck(c) \/ GtWritesFor(c) \/ GtClear(c)
      PROVE  GtTyped'
  BY <1>1, GtCallsTyped
<1>2. CASE (\E d \in GtDevices : GtLoad(d)) \/ GtKeep \/ UNCHANGED gtVars
  BY <1>2, GtReadsTyped
<1>3. CASE (\E d \in GtDevices : GtTransform(d)) \/ GtResolve \/ GtAnswer
  BY <1>3, GtMessagesTyped
<1>. QED BY <1>1, <1>2, <1>3, GtSteps

LEMMA GtAlwaysTyped == GtSpec => []GtTyped
BY GtInitTyped, GtNextTyped, PTL DEF GtSpec

(* The rows, the copies, the calls and the messages keep their types,      *)
(* whatever calls overlap and however the copies lag.                      *)
THEOREM GtTypeCorrect == GtSpec => []GtTypeOK
<1>1. GtTyped => GtTypeOK
  <2>. SUFFICES ASSUME GtTyped PROVE GtTypeOK
    OBVIOUS
  <2>1. \A d \in GtDevices : {gtRow[d], gtCopy[d]} \subseteq
           [there : BOOLEAN, parent : GtDevices \cup {"none"}, addr : GtDevices \cup {"none"}, kind : GtConfigs]
    BY DEF GtTyped, GtRowsStored, GtRecords
  <2>2. \A c \in GtCallers : gtCall[c].at \in {"idle", "check", "write", "clear"}
    BY DEF GtTyped, GtCallsAsked, GtTasks
  <2>3. gtSend.at \in {"none", "resolve"}
    BY DEF GtTyped, GtMessages, GtNone
  <2>4. gtSent.at \in {"none", "sent"}
    BY DEF GtTyped, GtMessages, GtNone
  <2>5. gtHeard.at \in {"none", "heard"}
    BY DEF GtTyped, GtMessages, GtNone
  <2>6. gtDown \in BOOLEAN /\ gtCalls \in 0..GtMaxCalls /\ gtSends \in 0..GtMaxSends
    BY DEF GtTyped, GtMessages
  <2>. QED BY <2>1, <2>2, <2>3, <2>4, <2>5, <2>6, Zenon DEF GtTypeOK
<1>. QED BY <1>1, GtAlwaysTyped, PTL

-----------------------------------------------------------------------------
(* The answer is nobody else's.                                            *)
GtSendOwn ==
    gtSend # GtNone =>
        /\ GtRowFits(gtSend.for, gtSend.view) /\ gtSend.view.there
        /\ gtSend.view.parent = "none" => gtSend.route = <<>>
        /\ gtSend.view.parent # "none" => gtSend.route # <<>> /\ Last(gtSend.route) = gtSend.for
GtSentOwn ==
    gtSent # GtNone =>
        /\ gtSent.route = <<>> => gtSent.to = gtSent.for
        /\ gtSent.route # <<>> => Last(gtSent.route) = gtSent.for
GtOwnInv == GtSendOwn /\ GtSentOwn /\ GtAnswersOwn

LEMMA GtStirsOnlyCalm ==
    ASSUME GtMessages, gtSend' = GtStir(gtSend), gtSent' = GtStir(gtSent)
    PROVE  /\ gtSend' # GtNone => /\ gtSend # GtNone /\ ~gtSend'.calm
                                  /\ gtSend'.for = gtSend.for /\ gtSend'.view = gtSend.view
                                  /\ gtSend'.route = gtSend.route
           /\ gtSent' # GtNone => /\ gtSent # GtNone /\ ~gtSent'.calm
                                  /\ gtSent'.for = gtSent.for /\ gtSent'.to = gtSent.to
                                  /\ gtSent'.route = gtSent.route
<1>1. ASSUME gtSend # GtNone
      PROVE  ~gtSend'.calm /\ gtSend'.for = gtSend.for /\ gtSend'.view = gtSend.view
             /\ gtSend'.route = gtSend.route
  <2>1. gtSend \in [at : {"resolve"}, for : GtDevices, view : GtRecords,
                    route : Seq(GtAddrs), calm : BOOLEAN]
    BY <1>1 DEF GtMessages
  <2>. QED BY <2>1 DEF GtStir
<1>2. gtSend = GtNone => gtSend' = GtNone
  BY DEF GtStir, GtNone
<1>3. ASSUME gtSent # GtNone
      PROVE  ~gtSent'.calm /\ gtSent'.for = gtSent.for /\ gtSent'.to = gtSent.to
             /\ gtSent'.route = gtSent.route
  <2>1. gtSent \in [at : {"sent"}, for : GtDevices, to : GtDevices,
                    route : Seq(GtAddrs), leaf : GtConfigs, calm : BOOLEAN]
    BY <1>3 DEF GtMessages
  <2>. QED BY <2>1 DEF GtStir
<1>4. gtSent = GtNone => gtSent' = GtNone
  BY DEF GtStir, GtNone
<1>. QED BY <1>1, <1>2, <1>3, <1>4

(* The steps that leave messages alone but for their calm.                 *)
LEMMA GtQuietSteps ==
    ASSUME GtTyped, NEW c \in GtCallers,
           \/ \E r \in GtRequests : GtBegin(c, r)
           \/ GtCheck(c) \/ GtWritesFor(c) \/ GtClear(c)
    PROVE  /\ UNCHANGED <<gtHeard, gtDown, gtRead>>
           /\ \/ UNCHANGED <<gtSend, gtSent, gtRow>> /\ gtCopy' = gtCopy
              \/ UNCHANGED <<gtSend, gtSent, gtRow>>
                 /\ \E d \in GtDevices : gtCopy' = [gtCopy EXCEPT ![d] = GtNoRow]
              \/ gtSend' = GtStir(gtSend) /\ gtSent' = GtStir(gtSent)
<1>0. GtRowsStored /\ GtCallsAsked
  BY DEF GtTyped
<1>1. CASE (\E r \in GtRequests : GtBegin(c, r)) \/ GtCheck(c)
  BY <1>1 DEF GtBegin, GtCheck, gtStore, gtMessage
<1>2. CASE GtWritesFor(c)
  BY <1>0, <1>2, GtWritten DEF GtWrite
<1>3. CASE GtClear(c)
  <2>1. GtOf(c) \in GtDevices
    <3>1. gtCall[c].at # "idle"
      BY <1>3 DEF GtClear
    <3>. QED BY <3>1, <1>0, GtWorkOf
  <2>. QED BY <1>3, <2>1 DEF GtClear, gtMessage
<1>. QED BY <1>1, <1>2, <1>3

LEMMA GtTiedHas ==
    ASSUME NEW d \in GtDevices, NEW row, GtRowFits(d, row), row.parent # "none"
    PROVE  /\ row.parent \in GtDevices /\ row.addr = d
           /\ GtTied(d, row.parent) /\ GtBound(d)
<1>1. row.parent \in GtDevices
  BY DEF GtRowFits, GtRecords
<1>2. row.addr = d /\ GtTied(d, row.parent)
  BY DEF GtRowFits
<1>. QED BY <1>1, <1>2 DEF GtBound

LEMMA GtNextOwn ==
    ASSUME GtKindsLast, GtTyped, GtOwnInv, [GtNext]_gtVars
    PROVE  GtOwnInv'
<1>0. GtRowsStored /\ GtCallsAsked /\ GtMessages
  BY DEF GtTyped
<1>1. ASSUME UNCHANGED <<gtSend, gtSent, gtHeard>> PROVE GtOwnInv'
  BY <1>1 DEF GtOwnInv, GtSendOwn, GtSentOwn, GtAnswersOwn
<1>2. ASSUME NEW c \in GtCallers,
             \/ \E r \in GtRequests : GtBegin(c, r)
             \/ GtCheck(c) \/ GtWritesFor(c) \/ GtClear(c)
      PROVE  GtOwnInv'
  <2>1. CASE UNCHANGED <<gtSend, gtSent>> /\ UNCHANGED gtHeard
    BY <2>1, <1>1
  <2>2. CASE gtSend' = GtStir(gtSend) /\ gtSent' = GtStir(gtSent) /\ UNCHANGED gtHeard
    <3>1. GtSendOwn' /\ GtSentOwn'
      BY <2>2, <1>0, GtStirsOnlyCalm DEF GtOwnInv, GtSendOwn, GtSentOwn
    <3>. QED BY <2>2, <3>1 DEF GtOwnInv, GtAnswersOwn
  <2>. QED BY <1>2, <2>1, <2>2, GtQuietSteps
<1>3. CASE (\E d \in GtDevices : GtLoad(d)) \/ GtKeep \/ UNCHANGED gtVars
  <2>1. UNCHANGED <<gtSend, gtSent, gtHeard>>
    BY <1>3 DEF GtLoad, GtKeep, gtVars, gtMessage
  <2>. QED BY <2>1, <1>1
<1>4. ASSUME NEW d \in GtDevices, GtTransform(d) PROVE GtOwnInv'
  <2>1. /\ GtView(d).there /\ UNCHANGED <<gtSent, gtHeard>>
        /\ \/ gtSend' = GtNone
           \/ gtSend' = GtMade(d) /\ (GtView(d).kind = "sub" => GtView(d).parent # "none")
    BY <1>4, GtTransforms
  <2>2. CASE gtSend' = GtNone
    BY <2>1, <2>2 DEF GtOwnInv, GtSendOwn, GtSentOwn, GtAnswersOwn
  <2>3. CASE gtSend' = GtMade(d) /\ (GtView(d).kind = "sub" => GtView(d).parent # "none")
    <3>1. GtRowFits(d, GtView(d))
      BY <1>0, GtViewFits
    <3>2. /\ GtRoute(d) \in Seq(GtAddrs)
          /\ GtView(d).kind = "sub" => GtRoute(d) # <<>> /\ Last(GtRoute(d)) = d
          /\ GtView(d).kind = "gateway" /\ GtView(d).parent # "none" => GtRoute(d) = <<d>>
          /\ GtView(d).parent = "none" => GtRoute(d) = <<>>
      BY <1>0, <2>3, GtRouteTyped
    <3>3. GtView(d).parent # "none" => GtRoute(d) # <<>> /\ Last(GtRoute(d)) = d
      <4>1. GtView(d).parent # "none" => GtView(d).kind \in {"gateway", "sub"}
        BY <2>1, <3>1, GtTiedHas DEF GtRowFits
      <4>2. <<d>> # <<>> /\ Last(<<d>>) = d
        <5>1. Len(<<d>>) = 1 /\ <<d>>[1] = d
          OBVIOUS
        <5>. QED BY <5>1 DEF Last
      <4>. QED BY <3>2, <4>1, <4>2
    <3>4. /\ gtSend'.for = d /\ gtSend'.view = GtView(d) /\ gtSend'.route = GtRoute(d)
      BY <2>3 DEF GtMade
    <3>5. GtSendOwn'
      BY <2>1, <3>1, <3>2, <3>3, <3>4 DEF GtSendOwn
    <3>. QED BY <2>1, <3>5 DEF GtOwnInv, GtSentOwn, GtAnswersOwn
  <2>. QED BY <2>1, <2>2, <2>3
<1>5. CASE GtResolve
  <2>1. /\ gtSend.at = "resolve" /\ gtSend' = GtNone /\ UNCHANGED gtHeard
        /\ gtSent' = GtNone \/ \E x : GtGoes(x)
    BY <1>5, GtResolves
  <2>2. gtSend # GtNone
    BY <2>1 DEF GtNone
  <2>3. ASSUME NEW x, GtGoes(x) PROVE GtSentOwn'
    BY <2>2, <2>3 DEF GtGoes, GtSentOwn, GtOwnInv, GtSendOwn
  <2>4. GtSentOwn'
    BY <2>1, <2>3 DEF GtSentOwn
  <2>. QED BY <2>1, <2>4 DEF GtOwnInv, GtSendOwn, GtAnswersOwn
<1>6. CASE GtAnswer
  <2>1. /\ gtSent # GtNone /\ gtSent' = GtNone /\ UNCHANGED gtSend
        /\ \E got : /\ gtHeard' = [at |-> "heard", for |-> gtSent.for, calm |-> gtSent.calm, got |-> got]
                    /\ got \in {{}, GtReached(gtSent.to, gtSent.route)}
    BY <1>6, GtAnswers
  <2>2. gtSent \in [at : {"sent"}, for : GtDevices, to : GtDevices,
                    route : Seq(GtAddrs), leaf : GtConfigs, calm : BOOLEAN]
    BY <2>1, <1>0 DEF GtMessages
  <2>3. PICK to, route, for : to = gtSent.to /\ route = gtSent.route /\ for = gtSent.for
    OBVIOUS
  <2>4. to \in GtDevices /\ for \in GtDevices /\ route \in Seq(GtAddrs)
    BY <2>2, <2>3
  <2>5. GtReached(to, route) \subseteq {for}
    <3>1. CASE route = <<>>
      <4>1. GtReached(to, <<>>) = {to}
        BY <2>4, GtReachedShort
      <4>. QED BY <3>1, <4>1, <2>1, <2>3 DEF GtOwnInv, GtSentOwn
    <3>2. CASE route # <<>>
      <4>1. Last(route) = for /\ for # "none"
        BY <3>2, <2>1, <2>3, <2>4, GtAssumption DEF GtOwnInv, GtSentOwn
      <4>2. \A e \in GtDevices : gtRow[e].addr \in {"none", e}
        BY <1>0 DEF GtRowsStored, GtRowFits
      <4>. QED BY <3>2, <4>1, <4>2, <2>4, GtReachesLast
    <3>. QED BY <3>1, <3>2
  <2>6. GtAnswersOwn'
    BY <2>1, <2>3, <2>5 DEF GtAnswersOwn
  <2>. QED BY <2>1, <2>6 DEF GtOwnInv, GtSendOwn, GtSentOwn
<1>. QED BY <1>2, <1>3, <1>4, <1>5, <1>6, GtSteps

(* What a gateway answers is found as the device the message was sent to   *)
(* and as no other, at any depth of gateways and whichever calls overlap,  *)
(* if no device that is given a parent is made one without a gateway.      *)
THEOREM AnswersAreOwn == GtKindsLast => (GtSpec => []GtAnswersOwn)
<1>. SUFFICES ASSUME GtKindsLast PROVE GtSpec => []GtAnswersOwn
  OBVIOUS
<1>1. GtInit => GtOwnInv
  BY DEF GtInit, GtOwnInv, GtSendOwn, GtSentOwn, GtAnswersOwn
<1>2. GtTyped /\ GtOwnInv /\ [GtNext]_gtVars => GtOwnInv'
  BY GtNextOwn
<1>3. GtOwnInv => GtAnswersOwn
  BY DEF GtOwnInv
<1>. QED BY <1>1, <1>2, <1>3, GtAlwaysTyped, PTL DEF GtSpec

-----------------------------------------------------------------------------
(* The messages down are made like those up, below at most two gateways.    *)
LEMMA GtAboveIsTop ==
    ASSUME GtTwoLevels, GtRowsStored, NEW d \in GtDevices, NEW p \in GtDevices, GtTied(d, p),
           NEW q, q = GtView(p).parent, q # "none"
    PROVE  q \in GtDevices /\ GtView(q).parent = "none" /\ GtView(p).addr = p
<1>1. GtRowFits(p, GtView(p))
  BY GtViewFits
<1>2. q \in GtDevices /\ GtTied(p, q) /\ GtView(p).addr = p
  BY <1>1, GtTiedHas
<1>3. ~GtBound(q)
  BY <1>2 DEF GtTwoLevels
<1>4. GtRowFits(q, GtView(q))
  BY <1>2, GtViewFits
<1>5. GtView(q).parent = "none"
  BY <1>2, <1>3, <1>4, GtTiedHas
<1>. QED BY <1>2, <1>5

LEMMA GtAbove ==
    ASSUME GtTwoLevels, GtRowsStored, NEW d \in GtDevices, NEW p \in GtDevices, GtTied(d, p),
           NEW q, q = GtView(p).parent
    PROVE  /\ ~GtEndless(p)
           /\ GtTop(p) = IF q = "none" \/ ~GtView(q).there THEN p ELSE q
           /\ GtNested(p) = IF q = "none" THEN <<>> ELSE <<p>>
<1>1. GtViewsFit
  BY GtViewFits
<1>2. q # "none" => q \in GtDevices /\ GtView(q).parent = "none" /\ GtView(p).addr = p
  BY GtAboveIsTop
<1>3. /\ GtUpFrom(p) = IF q = "none" \/ ~GtView(q).there THEN <<p>> ELSE <<p, q>>
      /\ ~GtEndless(p)
  BY <1>1, <1>2, GtUpShort
<1>4. /\ Len(<<p>>) = 1 /\ <<p>>[1] = p /\ Len(<<p, q>>) = 2 /\ <<p, q>>[1] = p /\ <<p, q>>[2] = q
  OBVIOUS
<1>5. Last(<<p>>) = p /\ Last(<<p, q>>) = q
  BY <1>4 DEF Last
<1>6. GtTop(p) = IF q = "none" \/ ~GtView(q).there THEN p ELSE q
  BY <1>3, <1>5 DEF GtTop
<1>7. GtNested(p) = IF q = "none" THEN <<>> ELSE <<p>>
  <2>. DEFINE bound == IF GtView(Last(GtUpFrom(p))).parent = "none" THEN Len(GtUpFrom(p)) - 1
                       ELSE Len(GtUpFrom(p))
  <2>0. GtNested(p) = [i \in 1..bound |-> GtView(GtUpFrom(p)[i]).addr]
    BY DEF GtNested
  <2>1. GtUpFrom(p)[1] = p
    BY <1>3, <1>4
  <2>2. CASE q = "none"
    <3>0. GtUpFrom(p) = <<p>>
      BY <2>2, <1>3
    <3>1. bound = 0
      <4>1. Last(GtUpFrom(p)) = p
        BY <3>0, <1>5
      <4>2. GtView(Last(GtUpFrom(p))).parent = "none"
        BY <4>1, <2>2
      <4>3. Len(GtUpFrom(p)) = 1
        BY <3>0
      <4>. QED BY <4>2, <4>3
    <3>2. GtNested(p) = [i \in 1..0 |-> GtView(GtUpFrom(p)[i]).addr]
      BY <2>0, <3>1
    <3>3. [i \in 1..0 |-> GtView(GtUpFrom(p)[i]).addr] = <<>>
      OBVIOUS
    <3>. QED BY <3>2, <3>3, <2>2
  <2>3. CASE q # "none"
    <3>1. bound = 1
      <4>1. CASE ~GtView(q).there
        BY <4>1, <2>3, <1>3, <1>4, <1>5
      <4>2. CASE GtView(q).there
        BY <4>2, <2>3, <1>2, <1>3, <1>4, <1>5
      <4>. QED BY <4>1, <4>2
    <3>2. GtNested(p) = [i \in 1..1 |-> GtView(GtUpFrom(p)[i]).addr]
      <4>. HIDE DEF bound
      <4>. QED BY <2>0, <3>1
    <3>3. PICK f : f = GtNested(p)
      OBVIOUS
    <3>4. f[1] = p /\ f = [i \in 1..1 |-> f[i]]
      <4>1. 1 \in 1..1
        OBVIOUS
      <4>2. f[1] = GtView(GtUpFrom(p)[1]).addr
        BY <3>2, <3>3, <4>1
      <4>3. f[1] = p
        BY <4>2, <2>1, <2>3, <1>2
      <4>4. f = [i \in 1..1 |-> f[i]]
        BY <3>2, <3>3
      <4>. QED BY <4>3, <4>4
    <3>5. f \in Seq(GtDevices) /\ Len(f) = 1
      <4>1. \A i \in 1..1 : f[i] \in GtDevices
        BY <3>4
      <4>2. [i \in 1..1 |-> f[i]] \in Seq(GtDevices)
        BY <4>1
      <4>3. Len([i \in 1..1 |-> f[i]]) = 1
        OBVIOUS
      <4>. QED BY <4>2, <4>3, <3>4
    <3>6. <<p>> \in Seq(GtDevices)
      OBVIOUS
    <3>7. f = <<p>>
      <4>1. \A i \in 1..Len(f) : f[i] = <<p>>[i]
        BY <3>4, <3>5, <1>4
      <4>. QED BY <3>5, <3>6, <4>1, <1>4, SeqEqual
    <3>. QED BY <3>3, <3>7, <2>3
  <2>. QED BY <2>2, <2>3
<1>. QED BY <1>3, <1>6, <1>7

(* No message takes the process down.                                      *)
LEMMA GtNeverFalls ==
    ASSUME GtOrderly, GtRowsStored, NEW d \in GtDevices
    PROVE  ~GtFalls(d)
<1>1. GtRowFits(d, GtView(d))
  BY GtViewFits
<1>2. CASE GtView(d).parent = "none"
  BY <1>1, <1>2 DEF GtFalls, GtRowFits, GtOrderly
<1>3. CASE GtView(d).parent # "none"
  <2>1. PICK p \in GtDevices : p = GtView(d).parent /\ GtTied(d, p)
    BY <1>1, <1>3, GtTiedHas
  <2>2. ~GtEndless(p) /\ GtNested(p) \in {<<>>, <<p>>}
    BY <2>1, GtAbove DEF GtOrderly
  <2>3. "none" \notin ToSet(<<>>) /\ "none" \notin ToSet(<<p>>)
    <3>1. p # "none"
      BY <2>1, <1>3
    <3>. QED BY <3>1 DEF ToSet
  <2>. QED BY <1>3, <2>1, <2>2, <2>3 DEF GtFalls
<1>. QED BY <1>2, <1>3

(* When nothing is written, copies that are as the rows stay so.            *)
LEMMA GtFreshRows ==
    ASSUME GtFresh, NEW d \in GtDevices
    PROVE  GtView(d) = gtRow[d]
BY DEF GtFresh

LEMMA GtFreshStays ==
    ASSUME GtRowsStored, GtFresh, UNCHANGED gtRow,
           \/ (\E ds : GtFill(ds)) /\ UNCHANGED gtRead
           \/ UNCHANGED <<gtCopy, gtRead>>
           \/ (\E d \in GtDevices : gtCopy' = [gtCopy EXCEPT ![d] = GtNoRow]) /\ UNCHANGED gtRead
           \/ (\E d \in GtDevices : GtLoad(d)) \/ GtKeep
    PROVE  GtFresh'
<1>0. \A d \in GtDevices : GtView(d) = gtRow[d]
  BY DEF GtFresh
<1>1. \A d \in {gtRead.device} \ {"none"} : gtRead.row = gtRow[d]
  BY DEF GtFresh
<1>2. ASSUME \A d \in GtDevices : GtView(d)' = gtRow[d], UNCHANGED gtRead PROVE GtFresh'
  BY <1>1, <1>2 DEF GtFresh
<1>3. CASE (\E ds : GtFill(ds)) /\ UNCHANGED gtRead
  <2>1. \A d \in GtDevices : GtView(d)' = GtView(d)
    BY <1>3, GtFilled
  <2>. QED BY <2>1, <1>0, <1>2, <1>3
<1>4. CASE UNCHANGED <<gtCopy, gtRead>>
  <2>1. \A d \in GtDevices : GtView(d)' = GtView(d)
    BY <1>4 DEF GtView
  <2>. QED BY <2>1, <1>0, <1>2, <1>4
<1>5. CASE (\E d \in GtDevices : gtCopy' = [gtCopy EXCEPT ![d] = GtNoRow]) /\ UNCHANGED gtRead
  <2>1. PICK d \in GtDevices : gtCopy' = [gtCopy EXCEPT ![d] = GtNoRow]
    BY <1>5
  <2>2. \A e \in GtDevices : gtCopy'[e] = IF e = d THEN GtNoRow ELSE gtCopy[e]
    BY <2>1 DEF GtRowsStored
  <2>3. ASSUME NEW e \in GtDevices PROVE GtView(e)' = gtRow[e]
    <3>1. CASE e = d
      BY <2>2, <3>1 DEF GtView, GtNoRow
    <3>2. CASE e # d
      BY <2>2, <3>2, <1>0 DEF GtView
    <3>. QED BY <3>1, <3>2
  <2>. QED BY <2>3, <1>2, <1>5
<1>6. ASSUME NEW d \in GtDevices, GtLoad(d) PROVE GtFresh'
  <2>1. gtRead' = [device |-> d, row |-> gtRow[d]] /\ UNCHANGED <<gtRow, gtCopy>>
    BY <1>6 DEF GtLoad
  <2>2. gtRead'.device = d /\ gtRead'.row = gtRow[d]
    BY <2>1
  <2>3. \A e \in GtDevices : GtView(e)' = GtView(e)
    BY <2>1 DEF GtView
  <2>. QED BY <2>2, <2>3, <1>0 DEF GtFresh
<1>7. CASE GtKeep
  <2>1. PICK d, row : d = gtRead.device /\ row = gtRead.row
    OBVIOUS
  <2>2. /\ gtRead # GtNoRead /\ gtCopy' = [gtCopy EXCEPT ![d] = row] /\ gtRead' = GtNoRead
    BY <1>7, <2>1 DEF GtKeep
  <2>3. d \in GtDevices
    BY <2>1, <2>2 DEF GtRowsStored
  <2>4. row = gtRow[d]
    BY <2>1, <2>3, <1>1, GtAssumption
  <2>5. \A e \in GtDevices : gtCopy'[e] = IF e = d THEN row ELSE gtCopy[e]
    BY <2>2 DEF GtRowsStored
  <2>6. ASSUME NEW e \in GtDevices PROVE GtView(e)' = gtRow[e]
    <3>1. CASE e = d
      BY <2>4, <2>5, <3>1 DEF GtView
    <3>2. CASE e # d
      BY <2>5, <3>2, <1>0 DEF GtView
    <3>. QED BY <3>1, <3>2
  <2>7. gtRead'.device = "none"
    BY <2>2 DEF GtNoRead
  <2>. QED BY <2>6, <2>7 DEF GtFresh
<1>. QED BY <1>3, <1>4, <1>5, <1>6, <1>7

(* A message that was made when all copies were as the rows, and since then *)
(* nothing was written: it names the addresses in the order of the rows.   *)
GtSendCalm ==
    gtSend # GtNone /\ gtSend.calm =>
        LET row == gtRow[gtSend.for]
        IN  /\ GtFresh /\ gtSend.view = row
            /\ row.parent # "none" /\ row.kind = "gateway" => gtSend.route = <<gtSend.for>>
            /\ row.parent # "none" /\ row.kind = "sub" =>
                  /\ gtRow[row.parent].there
                  /\ gtSend.route = IF gtRow[row.parent].parent = "none" THEN <<gtSend.for>>
                                    ELSE <<row.parent, gtSend.for>>
GtSentCalm ==
    gtSent # GtNone /\ gtSent.calm =>
        /\ GtFresh /\ gtRow[gtSent.to].there /\ gtRow[gtSent.for].there
        /\ \/ gtSent.route = <<>>
           \/ gtSent.route = <<gtSent.for>> /\ gtRow[gtSent.for].parent = gtSent.to
           \/ \E p \in GtDevices :
                 /\ gtSent.route = <<p, gtSent.for>> /\ gtSent.leaf = "sub"
                 /\ gtRow[p].there /\ gtRow[p].parent = gtSent.to /\ gtRow[gtSent.for].parent = p
GtCalmInv == GtSendCalm /\ GtSentCalm /\ GtDownLikeUp /\ ~gtDown

LEMMA GtMadeCalm ==
    ASSUME GtOrderly, GtTyped, GtSentCalm, GtDownLikeUp, ~gtDown,
           NEW d \in GtDevices, GtTransform(d)
    PROVE  GtCalmInv'
<1>0. GtRowsStored /\ GtViewsFit
  BY GtViewFits DEF GtTyped
<1>1. /\ GtView(d).there /\ gtSend = GtNone /\ gtSent = GtNone
      /\ \E ds : GtFill(ds)
      /\ \/ gtSend' = GtNone
         \/ /\ gtSend' = GtMade(d)
            /\ GtView(d).kind = "sub" =>
                  GtView(d).parent # "none" /\ GtView(GtView(d).parent).there
      /\ gtDown' => gtDown \/ GtFalls(d)
      /\ UNCHANGED <<gtRow, gtRead, gtSent, gtHeard>>
  BY GtTransforms
<1>2. ~gtDown'
  BY <1>0, <1>1, GtNeverFalls
<1>3. GtSentCalm' /\ GtDownLikeUp'
  BY <1>1 DEF GtSentCalm, GtDownLikeUp
<1>4. ASSUME gtSend' # GtNone, gtSend'.calm PROVE GtSendCalm'
  <2>1. gtSend'.for = d /\ gtSend'.view = GtView(d) /\ gtSend'.route = GtRoute(d) /\ GtFresh
    BY <1>1, <1>4 DEF GtMade
  <2>2. GtFresh'
    BY <2>1, <1>0, <1>1, GtFreshStays
  <2>3. GtView(d) = gtRow[d]
    BY <2>1, GtFreshRows
  <2>4. GtView(d).kind = "sub" =>
           GtView(d).parent # "none" /\ GtView(GtView(d).parent).there
    BY <1>1, <1>4
  <2>5. GtView(d).kind = "gateway" /\ GtView(d).parent # "none" => GtRoute(d) = <<d>>
    BY <2>4, <1>0, GtRouteTyped
  <2>6. ASSUME GtView(d).kind = "sub"
        PROVE  /\ gtRow[gtRow[d].parent].there
               /\ GtRoute(d) = IF gtRow[gtRow[d].parent].parent = "none" THEN <<d>>
                               ELSE <<gtRow[d].parent, d>>
    <3>1. GtRowFits(d, GtView(d))
      BY <1>0, GtViewFits
    <3>2. PICK p \in GtDevices : p = GtView(d).parent /\ GtTied(d, p)
      BY <3>1, <2>4, <2>6, GtTiedHas
    <3>3. GtView(p) = gtRow[p] /\ GtView(p).there /\ GtView(d).addr = d
      BY <3>1, <3>2, <2>1, <2>4, <2>6, GtFreshRows, GtTiedHas
    <3>4. GtNested(p) = IF GtView(p).parent = "none" THEN <<>> ELSE <<p>>
      BY <3>2, <1>0, GtAbove DEF GtOrderly
    <3>5. GtRoute(d) = GtNested(p) \o <<d>>
      BY <3>2, <3>3, <2>6 DEF GtRoute
    <3>6. <<>> \o <<d>> = <<d>> /\ <<p>> \o <<d>> = <<p, d>>
      BY GtPair
    <3>. QED BY <3>2, <3>3, <3>4, <3>5, <3>6, <2>3
  <2>. QED BY <1>1, <2>1, <2>2, <2>3, <2>5, <2>6 DEF GtSendCalm
<1>5. GtSendCalm'
  BY <1>4 DEF GtSendCalm
<1>. QED BY <1>2, <1>3, <1>5 DEF GtCalmInv

LEMMA GtSentCalmly ==
    ASSUME GtOrderly, GtTyped, GtOwnInv, GtCalmInv, GtResolve
    PROVE  GtCalmInv'
<1>0. GtRowsStored /\ GtMessages /\ GtViewsFit
  BY GtViewFits DEF GtTyped
<1>1. /\ gtSend.at = "resolve" /\ gtSend' = GtNone
      /\ \E ds : GtFill(ds)
      /\ gtSent' = GtNone \/ \E x : GtGoes(x)
      /\ UNCHANGED <<gtRow, gtRead, gtHeard, gtDown>>
  BY GtResolves
<1>2. gtSend # GtNone
  BY <1>1 DEF GtNone
<1>3. gtSend \in [at : {"resolve"}, for : GtDevices, view : GtRecords,
                  route : Seq(GtAddrs), calm : BOOLEAN]
  BY <1>0, <1>2 DEF GtMessages
<1>4. ASSUME NEW to, GtGoes(to), gtSend.calm PROVE GtSentCalm'
  <2>1. PICK d \in GtDevices : d = gtSend.for
    BY <1>3
  <2>2. PICK row : row = gtRow[d]
    OBVIOUS
  <2>3. /\ GtFresh /\ gtSend.view = row
        /\ row.parent # "none" /\ row.kind = "gateway" => gtSend.route = <<d>>
        /\ row.parent # "none" /\ row.kind = "sub" =>
              /\ gtRow[row.parent].there
              /\ gtSend.route = IF gtRow[row.parent].parent = "none" THEN <<d>>
                                ELSE <<row.parent, d>>
    BY <1>2, <1>4, <2>1, <2>2 DEF GtCalmInv, GtSendCalm
  <2>4. GtFresh'
    BY <2>3, <1>0, <1>1, GtFreshStays
  <2>5. /\ gtSent'.for = d /\ gtSent'.to = to /\ gtSent'.route = gtSend.route
        /\ gtSent'.leaf = row.kind
    BY <1>4, <2>1, <2>3 DEF GtGoes
  <2>6. row.there /\ GtRowFits(d, row) /\ (row.parent = "none" => gtSend.route = <<>>)
    BY <1>2, <2>1, <2>3 DEF GtOwnInv, GtSendOwn
  <2>7. CASE row.parent = "none"
    <3>1. to = d
      BY <1>4, <2>1, <2>3, <2>7 DEF GtGoes
    <3>. QED BY <3>1, <2>2, <2>4, <2>5, <2>6, <2>7, <1>1 DEF GtSentCalm
  <2>8. CASE row.parent # "none"
    <3>1. PICK p \in GtDevices : p = row.parent /\ GtTied(d, p) /\ GtBound(d)
      BY <2>6, <2>8, GtTiedHas
    <3>2. to = GtTop(p) /\ GtView(to).there /\ GtView(to).parent = "none"
      BY <1>4, <2>3, <2>8, <3>1 DEF GtGoes
    <3>3. PICK q : q = GtView(p).parent
      OBVIOUS
    <3>4. GtTop(p) = IF q = "none" \/ ~GtView(q).there THEN p ELSE q
      BY <3>1, <3>3, <1>0, GtAbove DEF GtOrderly
    <3>5. GtView(p) = gtRow[p]
      BY <2>3, GtFreshRows
    <3>6. q # "none" => q \in GtDevices
      BY <3>1, <3>3, <1>0, GtAboveIsTop DEF GtOrderly
    <3>7. to \in GtDevices
      BY <3>2, <3>4, <3>6
    <3>8. gtRow[to].there
      BY <3>2, <3>7, <2>3, GtFreshRows
    <3>9. row.kind \in {"gateway", "sub"}
      BY <2>6, <3>1 DEF GtRowFits, GtOrderly
    <3>10. CASE row.kind = "gateway"
      <4>1. ~GtLow(d)
        BY <2>6, <3>10 DEF GtRowFits, GtOrderly
      <4>2. ~GtBound(p)
        BY <3>1, <4>1 DEF GtLow
      <4>3. GtRowFits(p, GtView(p))
        BY <1>0, GtViewFits
      <4>4. q = "none"
        BY <4>2, <4>3, <3>3, GtTiedHas
      <4>5. to = p
        BY <3>2, <3>4, <4>4
      <4>. QED BY <4>5, <3>1, <3>8, <3>10, <2>2, <2>3, <2>4, <2>5, <2>6, <2>8, <1>1 DEF GtSentCalm
    <3>11. CASE row.kind = "sub"
      <4>1. gtRow[p].there
        BY <2>3, <2>8, <3>1, <3>11
      <4>2. CASE q = "none"
        <5>1. to = p /\ gtSend.route = <<d>>
          BY <3>2, <3>4, <4>2, <2>3, <2>8, <3>1, <3>3, <3>5, <3>11
        <5>. QED BY <5>1, <3>1, <3>8, <2>2, <2>3, <2>4, <2>5, <2>6, <1>1 DEF GtSentCalm
      <4>3. CASE q # "none"
        <5>1. to = q
          BY <3>2, <3>3, <3>4, <4>3
        <5>2. gtSend.route = <<p, d>>
          BY <4>3, <2>3, <2>8, <3>1, <3>3, <3>5, <3>11
        <5>3. gtRow[p].parent = to
          BY <5>1, <3>3, <3>5
        <5>. QED BY <5>2, <5>3, <4>1, <3>1, <3>8, <3>11, <2>2, <2>3, <2>4, <2>5, <2>6, <1>1
                 DEF GtSentCalm
      <4>. QED BY <4>2, <4>3
    <3>. QED BY <3>9, <3>10, <3>11
  <2>. QED BY <2>7, <2>8
<1>5. GtSentCalm'
  <2>1. ASSUME NEW to, GtGoes(to), ~gtSend.calm PROVE GtSentCalm'
    <3>1. gtSent'.calm = gtSend.calm
      BY <2>1 DEF GtGoes
    <3>. QED BY <2>1, <3>1 DEF GtSentCalm
  <2>2. gtSent' = GtNone => GtSentCalm'
    BY DEF GtSentCalm
  <2>. QED BY <1>1, <1>4, <2>1, <2>2
<1>. QED BY <1>1, <1>5 DEF GtCalmInv, GtSendCalm, GtDownLikeUp

LEMMA GtHeardCalmly ==
    ASSUME GtOrderly, GtTyped, GtOwnInv, GtCalmInv, GtAnswer
    PROVE  GtCalmInv'
<1>0. GtRowsStored /\ GtMessages
  BY DEF GtTyped
<1>1. /\ gtSent # GtNone /\ gtSent' = GtNone /\ \E ds : GtFill(ds)
      /\ gtHeard' = [at |-> "heard", for |-> gtSent.for, calm |-> gtSent.calm,
                     got |-> IF GtView(gtSent.to).there
                                /\ (IF gtSent.leaf = "sub" THEN Len(gtSent.route) - 1
                                    ELSE Len(gtSent.route)) <= GtUpLevels
                             THEN GtReached(gtSent.to, gtSent.route) ELSE {}]
      /\ UNCHANGED <<gtRow, gtRead, gtSend, gtDown>>
  BY GtAnswers
<1>2. gtSent \in [at : {"sent"}, for : GtDevices, to : GtDevices,
                  route : Seq(GtAddrs), leaf : GtConfigs, calm : BOOLEAN]
  BY <1>0, <1>1 DEF GtMessages
<1>3. PICK to \in GtDevices, d \in GtDevices, route \in Seq(GtAddrs) :
         to = gtSent.to /\ d = gtSent.for /\ route = gtSent.route
  BY <1>2
<1>4. ASSUME gtSent.calm PROVE gtHeard'.got = {d}
  <2>1. /\ GtFresh /\ gtRow[to].there /\ gtRow[d].there
        /\ \/ route = <<>>
           \/ route = <<d>> /\ gtRow[d].parent = to
           \/ \E p \in GtDevices :
                 /\ route = <<p, d>> /\ gtSent.leaf = "sub"
                 /\ gtRow[p].there /\ gtRow[p].parent = to /\ gtRow[d].parent = p
    BY <1>1, <1>3, <1>4 DEF GtCalmInv, GtSentCalm
  <2>2. GtView(to).there
    BY <2>1, GtFreshRows
  <2>3. GtUpLevels \in Nat /\ GtUpLevels >= 1
    BY GtAssumption DEF GtOrderly
  <2>4. \A e \in GtDevices : GtRowFits(e, gtRow[e]) /\ gtRow[e].addr \in {"none", e} /\ e # "none"
    BY <1>0, GtAssumption DEF GtRowsStored, GtRowFits
  <2>5. \A e \in GtDevices : gtRow[e].parent \in GtDevices => gtRow[e].addr = e
    BY <2>4 DEF GtRowFits
  <2>6. (IF gtSent.leaf = "sub" THEN Len(route) - 1 ELSE Len(route)) <= GtUpLevels
    <3>1. CASE route = <<>>
      <4>1. Len(route) = 0
        BY <3>1
      <4>. QED BY <4>1, <2>3
    <3>2. CASE route = <<d>>
      <4>1. Len(route) = 1
        BY <3>2
      <4>. QED BY <4>1, <2>3
    <3>3. ASSUME NEW p, route = <<p, d>>, gtSent.leaf = "sub"
          PROVE  (IF gtSent.leaf = "sub" THEN Len(route) - 1 ELSE Len(route)) <= GtUpLevels
      <4>1. Len(route) = 2
        BY <3>3
      <4>. QED BY <4>1, <2>3, <3>3
    <3>. QED BY <2>1, <3>1, <3>2, <3>3
  <2>7. gtHeard'.got = GtReached(to, route)
    BY <1>1, <1>3, <2>2, <2>6
  <2>8. GtReached(to, route) = {d}
    <3>1. CASE route = <<>>
      <4>1. to = d
        BY <3>1, <1>1, <1>3 DEF GtOwnInv, GtSentOwn
      <4>2. GtReached(to, <<>>) = {to}
        BY GtReachedShort
      <4>. QED BY <3>1, <4>1, <4>2
    <3>2. CASE route = <<d>> /\ gtRow[d].parent = to
      <4>1. GtReached(to, <<d>>) = GtBelow({to}, d)
        BY GtReachedShort
      <4>2. GtBelow({to}, d) = {d}
        BY <3>2, <2>1, <2>4, <2>5 DEF GtBelow
      <4>. QED BY <3>2, <4>1, <4>2
    <3>3. ASSUME NEW p \in GtDevices, route = <<p, d>>, gtRow[p].there, gtRow[p].parent = to,
                 gtRow[d].parent = p
          PROVE  GtReached(to, route) = {d}
      <4>1. GtReached(to, <<p, d>>) = GtBelow(GtBelow({to}, p), d)
        BY GtReachedPair
      <4>2. GtBelow({to}, p) = {p}
        BY <3>3, <2>4, <2>5 DEF GtBelow
      <4>3. GtBelow({p}, d) = {d}
        BY <3>3, <2>1, <2>4, <2>5 DEF GtBelow
      <4>. QED BY <3>3, <4>1, <4>2, <4>3
    <3>. QED BY <2>1, <3>1, <3>2, <3>3
  <2>. QED BY <2>7, <2>8
<1>5. gtHeard'.for = d /\ gtHeard'.calm = gtSent.calm
  BY <1>1, <1>3
<1>6. GtDownLikeUp'
  BY <1>4, <1>5 DEF GtDownLikeUp
<1>7. ASSUME gtSend # GtNone, gtSend.calm PROVE GtFresh'
  BY <1>0, <1>1, <1>7, GtFreshStays DEF GtCalmInv, GtSendCalm
<1>8. GtSendCalm'
  BY <1>1, <1>7 DEF GtCalmInv, GtSendCalm
<1>. QED BY <1>1, <1>6, <1>8 DEF GtCalmInv, GtSentCalm

LEMMA GtNextCalm ==
    ASSUME GtOrderly, GtTyped, GtOwnInv, GtCalmInv, [GtNext]_gtVars
    PROVE  GtCalmInv'
<1>0. GtRowsStored /\ GtMessages
  BY DEF GtTyped
<1>1. ASSUME UNCHANGED <<gtSend, gtSent, gtRow, gtHeard, gtDown>>,
             GtFresh => GtFresh'
      PROVE  GtCalmInv'
  <2>1. GtSendCalm'
    BY <1>1 DEF GtCalmInv, GtSendCalm
  <2>2. GtSentCalm'
    BY <1>1 DEF GtCalmInv, GtSentCalm
  <2>. QED BY <1>1, <2>1, <2>2 DEF GtCalmInv, GtDownLikeUp
<1>2. ASSUME NEW c \in GtCallers,
             \/ \E r \in GtRequests : GtBegin(c, r)
             \/ GtCheck(c) \/ GtWritesFor(c) \/ GtClear(c)
      PROVE  GtCalmInv'
  <2>0. UNCHANGED <<gtHeard, gtDown, gtRead>>
    BY <1>2, GtQuietSteps
  <2>1. CASE UNCHANGED <<gtSend, gtSent, gtRow>> /\ gtCopy' = gtCopy
    <3>1. GtFresh => GtFresh'
      BY <2>0, <2>1, <1>0, GtFreshStays
    <3>. QED BY <2>0, <2>1, <3>1, <1>1
  <2>2. CASE UNCHANGED <<gtSend, gtSent, gtRow>>
             /\ \E d \in GtDevices : gtCopy' = [gtCopy EXCEPT ![d] = GtNoRow]
    <3>1. GtFresh => GtFresh'
      BY <2>0, <2>2, <1>0, GtFreshStays
    <3>. QED BY <2>0, <2>2, <3>1, <1>1
  <2>3. CASE gtSend' = GtStir(gtSend) /\ gtSent' = GtStir(gtSent)
    <3>1. (gtSend' # GtNone => ~gtSend'.calm) /\ (gtSent' # GtNone => ~gtSent'.calm)
      BY <2>3, <1>0, GtStirsOnlyCalm
    <3>. QED BY <3>1, <2>0 DEF GtCalmInv, GtSendCalm, GtSentCalm, GtDownLikeUp
  <2>. QED BY <1>2, <2>1, <2>2, <2>3, GtQuietSteps
<1>3. CASE (\E d \in GtDevices : GtLoad(d)) \/ GtKeep \/ UNCHANGED gtVars
  <2>1. UNCHANGED <<gtSend, gtSent, gtRow, gtHeard, gtDown>>
    BY <1>3 DEF GtLoad, GtKeep, gtVars, gtMessage, gtStore
  <2>2. GtFresh => GtFresh'
    <3>1. UNCHANGED gtVars => UNCHANGED <<gtCopy, gtRead>>
      BY DEF gtVars, gtStore
    <3>. QED BY <3>1, <2>1, <1>0, <1>3, GtFreshStays
  <2>. QED BY <2>1, <2>2, <1>1
<1>4. ASSUME NEW d \in GtDevices, GtTransform(d) PROVE GtCalmInv'
  BY <1>4, GtMadeCalm DEF GtCalmInv
<1>. QED BY <1>2, <1>3, <1>4, GtSentCalmly, GtHeardCalmly, GtSteps

(* A message that is made while all copies are as the rows, and on whose   *)
(* way no row changes, is answered under its own device, whichever calls   *)
(* overlap before and after; for any number of devices, if kinds last,     *)
(* devices are updated with their parents and gateways are at most two     *)
(* levels deep.  Without any of the three there is a message that is not.  *)
THEOREM AnswersReturn == GtOrderly => (GtSpec => []GtAnswersReturn)
<1>. SUFFICES ASSUME GtOrderly PROVE GtSpec => []GtAnswersReturn
  OBVIOUS
<1>1. GtInit => GtOwnInv /\ GtCalmInv
  BY DEF GtInit, GtOwnInv, GtSendOwn, GtSentOwn, GtAnswersOwn, GtCalmInv, GtSendCalm, GtSentCalm,
     GtDownLikeUp
<1>2. GtTyped /\ GtOwnInv /\ GtCalmInv /\ [GtNext]_gtVars => GtOwnInv' /\ GtCalmInv'
  BY GtNextOwn, GtNextCalm DEF GtOrderly
<1>3. GtOwnInv /\ GtCalmInv => GtAnswersReturn
  BY DEF GtOwnInv, GtCalmInv, GtAnswersReturn
<1>. QED BY <1>1, <1>2, <1>3, GtAlwaysTyped, PTL DEF GtSpec
=============================================================================
