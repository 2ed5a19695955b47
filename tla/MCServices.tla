------------------------------ MODULE MCServices ------------------------------
(***************************************************************************)
(* Parts of the server that share no state: upgrades, subscriptions, the   *)
(* life cycle, expected data, scenes, alarms, data scripts, bundles, gate- *)
(* ways.  A behaviour belongs to one of them: `part' says which, and the   *)
(* others rest, so the state spaces add up and do not multiply.            *)
(***************************************************************************)
EXTENDS OtaUpgrade, WsSubscription, ServiceLifecycle, ExpectedData, SceneCache,
        SceneAlarms, ScriptCache, BundleInstall, GatewayTree

OtaTwoDetails == {"detail 1", "detail 2"}
OtaOwnDevice  == [d \in OtaTwoDetails |-> IF d = "detail 1" THEN "device 1" ELSE "device 2"]
OneServer     == [c \in {"client 1", "client 2"} |-> "server 1"]
TwoServers    == [c \in {"client 1", "client 2"} |-> IF c = "client 1" THEN "server 1" ELSE "server 2"]

(* Four of the registered services, in their order in main.                *)
LcFour == <<"storage", "uplink", "mqtt", "downlink">>

(* Scenes with a condition on the device, which has a configuration or not.*)
ScOneOf    == "scene 1" :> {"device 1"}
ScTwoOf    == ScOneOf @@ "scene 2" :> {"device 1"}
ScOneKind  == "device 1" :> "one"
ScBothKind == ScOneKind @@ "config 1" :> "multiple"
ScOne      == <<"device 1">>
ScBoth     == <<"config 1", "device 1">>

(* Two groups of conditions of a scene, one with a device of the other, or  *)
(* one group.                                                              *)
AlOneGroup  == "group 1" :> {"device 1"}
AlTwoGroups == AlOneGroup @@ "group 2" :> {"device 1", "device 2"}

(* A bundle of one device template, or two, and a dashboard that needs the  *)
(* first.                                                                  *)
BiOneTemplate == <<"template 1">>
BiTwoTemplates == <<"template 1", "template 2">>
BiOneBoard    == <<"board 1">>
BiOneNeed     == "board 1" :> "template 1"

(* Two gateways, one below the other, and two sub-devices; the few calls   *)
(* that change the tree most, or the others.                               *)
GtFour == "top" :> "gateway" @@ "mid" :> "gateway" @@ "sub 1" :> "sub" @@ "sub 2" :> "sub"
GtAsk(op, parent, devices, kind) ==
    [op |-> op, parent |-> parent, devices |-> devices, kind |-> kind]
GtFew ==
    {GtAsk("bind", "top", <<"mid", "sub 1">>, "none"), GtAsk("bind", "mid", <<"sub 1">>, "none"),
     GtAsk("remove", "none", <<"sub 1">>, "none"), GtAsk("delete", "none", <<"mid">>, "none"),
     GtAsk("config", "none", <<"top">>, "direct"), GtAsk("register", "mid", <<"sub 2">>, "sub")}
GtOthers ==
    {GtAsk("update", "top", <<"mid">>, "none"), GtAsk("delete", "none", <<"mid">>, "none"),
     GtAsk("config", "none", <<"sub 1">>, "direct"), GtAsk("create", "mid", <<"sub 2">>, "sub")}

(* Three levels of gateways; two gateways below each other; a gateway that  *)
(* becomes a device of another kind where it is; a sub-device that gets an *)
(* address and no parent.                                                  *)
GtThreeLevels == "top" :> "gateway" @@ "mid" :> "gateway" @@ "low" :> "gateway" @@ "sub 1" :> "sub"
GtDeep ==
    {GtAsk("bind", "top", <<"mid">>, "none"), GtAsk("bind", "mid", <<"low">>, "none"),
     GtAsk("bind", "low", <<"sub 1">>, "none")}
GtCycle ==
    {GtAsk("bind", "top", <<"mid", "sub 1">>, "none"), GtAsk("bind", "mid", <<"top">>, "none")}
GtTurned ==
    {GtAsk("bind", "top", <<"mid">>, "none"), GtAsk("config", "none", <<"mid">>, "direct")}
GtBare == {GtAsk("update", "none", <<"sub 1">>, "none")}

VARIABLE part

servicesVars == <<part, otaVars, wsVars, lcVars, edVars, scVars, alVars, dsVars, biVars, gtVars>>

ServicesInit ==
    /\ part \in {"ota", "ws", "lifecycle", "expected", "scenes", "alarms", "scripts", "bundles",
               "gateways"}
    /\ OtaInit /\ WsInit /\ EdInit /\ ScInit /\ AlInit /\ DsInit /\ BiInit /\ GtInit
    /\ LcInitAt(IF part = "lifecycle" THEN "starting" ELSE "ended")

ServicesNext ==
    /\ UNCHANGED part
    /\ \/ part = "ota" /\ OtaNext /\ UNCHANGED <<wsVars, lcVars, edVars, scVars, alVars, dsVars, biVars, gtVars>>
       \/ part = "ws" /\ WsNext /\ UNCHANGED <<otaVars, lcVars, edVars, scVars, alVars, dsVars, biVars, gtVars>>
       \/ part = "lifecycle" /\ LcNext /\ UNCHANGED <<otaVars, wsVars, edVars, scVars, alVars, dsVars, biVars, gtVars>>
       \/ part = "expected" /\ EdNext /\ UNCHANGED <<otaVars, wsVars, lcVars, scVars, alVars, dsVars, biVars, gtVars>>
       \/ part = "scenes" /\ ScNext /\ UNCHANGED <<otaVars, wsVars, lcVars, edVars, alVars, dsVars, biVars, gtVars>>
       \/ part = "alarms" /\ AlNext /\ UNCHANGED <<otaVars, wsVars, lcVars, edVars, scVars, dsVars, biVars, gtVars>>
       \/ part = "scripts" /\ DsNext /\ UNCHANGED <<otaVars, wsVars, lcVars, edVars, scVars, alVars, biVars, gtVars>>
       \/ part = "gateways" /\ GtNext /\ UNCHANGED <<otaVars, wsVars, lcVars, edVars, scVars, alVars, dsVars, biVars>>
       \/ part = "bundles" /\ BiNext /\ UNCHANGED <<otaVars, wsVars, lcVars, edVars, scVars, alVars, dsVars, gtVars>>

(* The variables of the part at work have their kinds.                     *)
ServicesTypeOK ==
    /\ part = "ota" => OtaTypeOK
    /\ part = "ws" => WsTypeOK
    /\ part = "lifecycle" => LcTypeOK
    /\ part = "expected" => EdTypeOK
    /\ part = "scenes" => ScTypeOK
    /\ part = "alarms" => AlTypeOK
    /\ part = "scripts" => DsTypeOK
    /\ part = "bundles" => BiTypeOK
    /\ part = "gateways" => GtTypeOK

(* Nothing of the parts at rest is ever enabled.                           *)
ServicesSafety == ServicesInit /\ [][ServicesNext]_servicesVars
ServicesSpec ==
    /\ ServicesSafety
    /\ OtaFairness /\ WsFairness /\ LcFairness /\ EdFairness /\ ScFairness

(* What was begun is decided: an upgrade, and a value for a device that    *)
(* stays online.                                                           *)
ServicesDecide == OtaEventuallyDecided /\ EdEventuallyDecided
=============================================================================
