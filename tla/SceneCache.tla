----------------------------- MODULE SceneCache -----------------------------
(***************************************************************************)
(* The cache of the scene automations in Redis.  For a device ("one") or a *)
(* device configuration ("multiple") a list of scenes is kept, and for a   *)
(* scene its groups of conditions and its actions, under keys that carry   *)
(* the kind.  An edit changes the rows and then, in a goroutine, the cache;*)
(* a report looks the scenes up, loads what is missing and runs them.  All *)
(* of them share the cache object and its field `device', the kind.        *)
(***************************************************************************)
EXTENDS Integers, Sequences, FiniteSets, TLC, SequencesExt

CONSTANTS
    Scenes,
    ScAtStart,     \* those that exist and are on at the start
    ScOf,          \* the devices and configurations in the conditions of each scene
    ScKindOf,      \* the kind of each of them
    ScPasses,      \* what a report of the device looks up, in its order
    ScEdits,       \* goroutines of edits that may run at the same time
    ScMayExpire,   \* whether keys may come to the end of their time
    ScMaxEdits,    \* bound: edits
    ScMaxFaults    \* bound: failing calls

ScSources == DOMAIN ScKindOf
ScKinds   == <<"multiple", "one">>
Executor  == "executor"
ScProcs   == ScEdits \cup {Executor}

ASSUME ScAssumption ==
    /\ ScAtStart \subseteq Scenes
    /\ ScOf \in [Scenes -> SUBSET ScSources]
    /\ \A x \in ScSources : ScKindOf[x] \in Range(ScKinds)
    /\ ScPasses \in Seq(ScSources)
    /\ Executor \notin ScEdits
    /\ Scenes \cap ScSources = {}
    /\ ScMayExpire \in BOOLEAN
    /\ {ScMaxEdits, ScMaxFaults} \subseteq Nat

(* There are scenes, finitely many, and a report looks something up.       *)
ASSUME ScScenesAssumption == Scenes # {} /\ IsFiniteSet(Scenes) /\ ScPasses # <<>>

VARIABLES
    scRow,       \* the row of each scene: none, Y, N or deleted
    scDevice,    \* the field `device' of the cache object
    scBase,      \* by kind and source: the list of scenes
    scInfo,      \* by kind and scene: the sources in its groups, {} without the keys
    scLoc,       \* the locals of each process
    scPass, scList, scFound,   \* the report: its pass, the scenes listed, those found
    scRan,       \* scenes run by this report, in order
    scOff,       \* scenes that have been off since before this report (history)
    scEdits, scFaults

scCache  == <<scBase, scInfo>>
scReport == <<scPass, scList, scFound, scRan>>
scBounds == <<scEdits, scFaults>>
scVars   == <<scRow, scDevice, scCache, scLoc, scReport, scOff, scBounds>>

(* What a list key may hold besides a list.                                *)
ScAbsent == <<"no key">>
ScNoTask == <<"NOTASK">>
ScIsList(base) == base \notin {ScAbsent, ScNoTask}

(* The locals of a process: the scene it is about, the kinds it has left,  *)
(* the conditions it has read, the sources it has left, the source and the *)
(* list it is at, the keys it is going to delete, and what comes after.    *)
ScAt(place, s, then) ==
    [pc |-> place, scene |-> s, kinds |-> ScKinds, conds |-> {}, todo |-> {},
     at |-> "", seen |-> <<>>, keys |-> {}, then |-> then]
ScIdle == ScAt("idle", CHOOSE s \in Scenes : TRUE, "idle")

ScInit ==
    /\ scRow = [s \in Scenes |-> IF s \in ScAtStart THEN "Y" ELSE "none"]
    /\ scDevice = "one"
    /\ scBase = [key \in Range(ScKinds) \X ScSources |-> ScAbsent]
    /\ scInfo = [key \in Range(ScKinds) \X Scenes |-> {}]
    /\ scLoc = [p \in ScProcs |-> ScIdle]
    /\ scPass = 1 /\ scList = <<>> /\ scFound = <<>> /\ scRan = <<>>
    /\ scOff = {}
    /\ scEdits = 0 /\ scFaults = 0

At(p, place)     == scLoc[p].pc = place
ScGo(p, local)   == scLoc' = [scLoc EXCEPT ![p] = local]
ScWith(fields, local) ==
    [x \in DOMAIN local |-> IF x \in DOMAIN fields THEN fields[x] ELSE local[x]]
ScStep(p, fields) == ScGo(p, ScWith(fields, scLoc[p]))
ScPut(key, list) == scBase' = [scBase EXCEPT ![key] = list]

(* Mutant: no time to live.                                                *)
ScForever == 0

(* expiredIn: every key is written with a time to live of five minutes; a  *)
(* time to live of 0 would keep it for good.                               *)
ScExpiredIn == 5

-----------------------------------------------------------------------------
(* An edit changes the rows of the scene and of its conditions in one      *)
(* transaction and starts the goroutine that brings the cache after it.    *)
ScEdit(p, s, from, to, first, then) ==
    /\ At(p, "idle") /\ scEdits < ScMaxEdits /\ scEdits' = scEdits + 1
    /\ scRow[s] \in from
    /\ scRow' = [scRow EXCEPT ![s] = to]
    /\ scOff' = IF to = "N" THEN scOff ELSE scOff \ {s}
    /\ ScGo(p, IF first = "idle" THEN ScIdle ELSE ScAt(first, s, then))
    /\ UNCHANGED <<scDevice, scCache, scReport, scFaults>>

CreateSceneAutomation(p, s) ==
    \/ ScEdit(p, s, {"none"}, "Y", "query", "idle")
    \/ ScEdit(p, s, {"none"}, "N", "idle", "idle")
SwitchSceneAutomation(p, s) ==
    \/ ScEdit(p, s, {"Y", "N"}, "Y", "query", "idle")
    \/ ScEdit(p, s, {"Y", "N"}, "N", "delete kind", "idle")
UpdateSceneAutomation(p, s) ==
    \/ ScEdit(p, s, {"Y", "N"}, "Y", "delete kind", "query")
    \/ ScEdit(p, s, {"Y", "N"}, "N", "delete kind", "idle")
DeleteSceneAutomation(p, s) ==
    ScEdit(p, s, {"Y", "N"}, "deleted", "delete kind", "idle")

-----------------------------------------------------------------------------
(* Delete and set go through both kinds, one after the other, and end.     *)
ScEnd(p, end) ==
    ScGo(p, IF end = "query" THEN ScAt(end, scLoc[p].scene, "idle")
            ELSE [ScIdle EXCEPT !.pc = end])
ScNextKind(p, again, end) ==
    IF Tail(scLoc[p].kinds) = <<>> THEN ScEnd(p, end)
    ELSE ScStep(p, [pc |-> again, kinds |-> Tail(scLoc[p].kinds)])

SetKind(p) ==
    /\ scLoc[p].pc \in {"delete kind", "set kind"}
    /\ scDevice' = Head(scLoc[p].kinds)
    /\ ScStep(p, [pc |-> IF At(p, "delete kind") THEN "delete info" ELSE "set info"])
    /\ UNCHANGED <<scRow, scCache, scReport, scOff, scBounds>>

(* deleteCacheBySceneAutId: without the action key nothing is deleted.     *)
DeleteInfo(p) ==
    /\ At(p, "delete info")
    /\ LET key == <<scDevice, scLoc[p].scene>>
       IN  IF scInfo[key] = {} THEN ScNextKind(p, "delete kind", scLoc[p].then)
           ELSE ScStep(p, [pc |-> "delete base", keys |-> {key},
                           todo |-> {x \in scInfo[key] : ScKindOf[x] = scDevice}])
    /\ UNCHANGED <<scRow, scDevice, scCache, scReport, scOff, scBounds>>

(* The scene is taken out of the list of each source: a list that has      *)
(* other scenes left is going to be deleted, an empty one is written.      *)
DeleteBase(p) ==
    /\ At(p, "delete base")
    /\ \E x \in scLoc[p].todo :
         LET base == scBase[<<scDevice, x>>]
             left == RemoveFirst(base, scLoc[p].scene)
             rest == scLoc[p].todo \ {x}
         IN  ScStep(p, IF ~ScIsList(base) THEN [todo |-> rest]
                       ELSE IF left = <<>> THEN [todo |-> rest, pc |-> "delete empty", at |-> x]
                       ELSE [todo |-> rest, keys |-> scLoc[p].keys \cup {<<scDevice, x>>}])
    /\ UNCHANGED <<scRow, scDevice, scCache, scReport, scOff, scBounds>>

DeleteEmpty(p) ==
    /\ At(p, "delete empty")
    /\ ScPut(<<scDevice, scLoc[p].at>>, <<>>)
    /\ ScStep(p, [pc |-> "delete base", at |-> ""])
    /\ UNCHANGED <<scRow, scDevice, scInfo, scReport, scOff, scBounds>>

DeleteKeys(p) ==
    /\ At(p, "delete base") /\ scLoc[p].todo = {}
    /\ scBase' = [key \in DOMAIN scBase |-> IF key \in scLoc[p].keys THEN ScAbsent ELSE scBase[key]]
    /\ scInfo' = [key \in DOMAIN scInfo |-> IF key \in scLoc[p].keys THEN {} ELSE scInfo[key]]
    /\ ScNextKind(p, "delete kind", scLoc[p].then)
    /\ UNCHANGED <<scRow, scDevice, scReport, scOff, scBounds>>

-----------------------------------------------------------------------------
(* AutomateCacheSet reads the enabled conditions of the scene.             *)
QueryConditions(p) ==
    /\ At(p, "query")
    /\ ScStep(p, [pc |-> "set kind",
                  conds |-> {x \in ScOf[scLoc[p].scene] : scRow[scLoc[p].scene] = "Y"}])
    /\ UNCHANGED <<scRow, scDevice, scCache, scReport, scOff, scBounds>>

(* setCacheBySceneAutId: without a condition of the kind nothing is        *)
(* written.                                                                *)
SetInfo(p) ==
    /\ At(p, "set info")
    /\ LET mine == {x \in scLoc[p].conds : ScKindOf[x] = scDevice}
       IN  IF mine = {} THEN ScNextKind(p, "set kind", "idle") /\ UNCHANGED scInfo
           ELSE /\ scInfo' = [scInfo EXCEPT ![<<scDevice, scLoc[p].scene>>] = mine]
                /\ ScStep(p, [pc |-> "set base", todo |-> mine])
    /\ UNCHANGED <<scRow, scDevice, scBase, scReport, scOff, scBounds>>

(* The list of a source is read, extended and written back; a missing list *)
(* counts as an empty one.                                                 *)
SetBase(p) ==
    /\ At(p, "set base")
    /\ \/ \E x \in scLoc[p].todo :
            LET base == scBase[<<scDevice, x>>]
            IN  ScStep(p, [pc |-> "set write", at |-> x, todo |-> scLoc[p].todo \ {x},
                           seen |-> IF ScIsList(base) THEN base ELSE <<>>])
       \/ scLoc[p].todo = {} /\ ScNextKind(p, "set kind", "idle")
    /\ UNCHANGED <<scRow, scDevice, scCache, scReport, scOff, scBounds>>

SetWrite(p) ==
    /\ At(p, "set write")
    /\ ScPut(<<scDevice, scLoc[p].at>>, Append(scLoc[p].seen, scLoc[p].scene))
    /\ ScStep(p, [pc |-> "set base", at |-> "", seen |-> <<>>])
    /\ UNCHANGED <<scRow, scDevice, scInfo, scReport, scOff, scBounds>>

-----------------------------------------------------------------------------
(* A report of the device: Execute holds its mutex from here to the end    *)
(* and looks the scenes up for its configuration and for the device.       *)
ScSource == ScPasses[scPass]
ScExecutes(place) == At(Executor, place)
ScThen(place)     == ScGo(Executor, [ScIdle EXCEPT !.pc = place])

Report ==
    /\ ScExecutes("idle")
    /\ scOff' = {s \in Scenes : scRow[s] = "N"}
    /\ ScThen("get kind")
    /\ UNCHANGED <<scRow, scDevice, scCache, scReport, scBounds>>

(* The end of a pass.                                                      *)
ScNextPass ==
    /\ scList' = <<>> /\ scFound' = <<>>
    /\ IF scPass < Len(ScPasses)
       THEN /\ scPass' = scPass + 1 /\ ScThen("get kind")
            /\ UNCHANGED <<scRan, scOff>>
       ELSE scPass' = 1 /\ ScThen("idle") /\ scRan' = <<>> /\ scOff' = {}

ScSetDevice(place, next) ==
    /\ ScExecutes(place)
    /\ scDevice' = ScKindOf[ScSource]
    /\ ScThen(next)
    /\ UNCHANGED <<scRow, scCache, scReport, scOff, scBounds>>
GetKind   == ScSetDevice("get kind", "get base")
AgainKind == ScSetDevice("again kind", "again base")
TaskKind  == ScSetDevice("task kind", "task write")
FillKind  == ScSetDevice("fill kind", "fill info")

(* GetCacheByDeviceId: the list, and if there is none, the database once.  *)
GetBase ==
    /\ \/ ScExecutes("get base") \/ ScExecutes("again base")
    /\ LET base == scBase[<<scDevice, ScSource>>]
       IN  IF ScIsList(base)
           THEN /\ scList' = base /\ scFound' = <<>> /\ ScThen("get info")
                /\ UNCHANGED <<scPass, scRan, scOff>>
           ELSE IF base = ScAbsent /\ ScExecutes("get base")
           THEN ScThen("load") /\ UNCHANGED <<scReport, scOff>>
           ELSE ScNextPass
    /\ UNCHANGED <<scRow, scDevice, scCache, scBounds>>

(* A scene whose keys are gone is left out.                                *)
GetInfo ==
    /\ ScExecutes("get info")
    /\ IF scList = <<>> THEN ScThen("run") /\ UNCHANGED <<scList, scFound>>
       ELSE /\ scList' = Tail(scList)
            /\ scFound' = IF scInfo[<<scDevice, Head(scList)>>] = {} THEN scFound
                          ELSE Append(scFound, Head(scList))
            /\ UNCHANGED scLoc
    /\ UNCHANGED <<scRow, scDevice, scCache, scPass, scRan, scOff, scBounds>>

(* QueryAutomateInfoAndSetCache, and the writes that follow it.            *)
Load ==
    /\ ScExecutes("load")
    /\ LET scenes == {s \in Scenes : scRow[s] = "Y" /\ ScSource \in ScOf[s]}
       IN  /\ scList' = SetToSeq(scenes)
           /\ ScThen(IF scenes = {} THEN "task kind" ELSE "fill kind")
    /\ UNCHANGED <<scRow, scDevice, scCache, scPass, scFound, scRan, scOff, scBounds>>

TaskWrite ==
    /\ ScExecutes("task write")
    /\ ScPut(<<scDevice, ScSource>>, ScNoTask)
    /\ ScNextPass
    /\ UNCHANGED <<scRow, scDevice, scInfo, scBounds>>

FillInfo ==
    /\ ScExecutes("fill info")
    /\ scInfo' = [key \in DOMAIN scInfo |->
           IF key[1] = scDevice /\ key[2] \in Range(scList) THEN {ScSource} ELSE scInfo[key]]
    /\ ScThen("fill base")
    /\ UNCHANGED <<scRow, scDevice, scBase, scReport, scOff, scBounds>>

FillBase ==
    /\ ScExecutes("fill base")
    /\ ScPut(<<scDevice, ScSource>>, scList)
    /\ ScThen("again kind")
    /\ UNCHANGED <<scRow, scDevice, scInfo, scReport, scOff, scBounds>>

(* Mutant: CheckSceneAutomationHasClose is not asked.                      *)
RunUnchecked ==
    /\ ScExecutes("run") /\ scFound # <<>>
    /\ \/ scFound' = Tail(scFound) /\ UNCHANGED scLoc
       \/ Head(scFound) \notin Range(scRan) /\ ScThen("act") /\ UNCHANGED scFound
    /\ UNCHANGED <<scRow, scDevice, scCache, scPass, scList, scRan, scOff, scBounds>>

(* ExecuteRun: a scene that this report has run already is passed over, one*)
(* that is off is deleted from the cache; otherwise the limiter or the     *)
(* conditions may say no.                                                  *)
Check ==
    /\ ScExecutes("run") /\ scFound # <<>>
    /\ LET s == Head(scFound)
       IN  \/ scFound' = Tail(scFound) /\ UNCHANGED scLoc
           \/ /\ s \notin Range(scRan) /\ scRow[s] = "N"
              /\ scFound' = Tail(scFound)
              /\ ScGo(Executor, ScAt("delete kind", s, "run"))
           \/ /\ s \notin Range(scRan) /\ scRow[s] # "N"
              /\ ScThen("act") /\ UNCHANGED scFound
    /\ UNCHANGED <<scRow, scDevice, scCache, scPass, scList, scRan, scOff, scBounds>>

Act ==
    /\ ScExecutes("act")
    /\ scRan' = Append(scRan, Head(scFound)) /\ scFound' = Tail(scFound)
    /\ ScThen("run")
    /\ UNCHANGED <<scRow, scDevice, scCache, scPass, scList, scOff, scBounds>>

EndPass ==
    /\ ScExecutes("run") /\ scFound = <<>>
    /\ ScNextPass
    /\ UNCHANGED <<scRow, scDevice, scCache, scBounds>>

-----------------------------------------------------------------------------
(* A statement or a call to Redis fails.  An edit gives up, but an update  *)
(* whose delete has failed still sets; a pass of a report gives up, but one*)
(* that cannot delete a scene that is off goes on.                         *)
ScFails(p) ==
    /\ scFaults < ScMaxFaults /\ scFaults' = scFaults + 1
    /\ \/ /\ \/ scLoc[p].pc \in {"delete info", "delete empty"}
             \/ At(p, "delete base") /\ scLoc[p].todo = {}
          /\ ScEnd(p, scLoc[p].then) /\ UNCHANGED <<scReport, scOff>>
       \/ /\ scLoc[p].pc \in {"query", "set info", "set write"}
          /\ ScEnd(p, "idle") /\ UNCHANGED <<scReport, scOff>>
       \/ /\ p = Executor
          /\ scLoc[p].pc \in {"get base", "again base", "load", "task write", "fill info", "fill base"}
          /\ ScNextPass
    /\ UNCHANGED <<scRow, scDevice, scCache, scEdits>>

(* A restart: Redis and the rows stay.                                     *)
ScCrash ==
    /\ scFaults < ScMaxFaults /\ scFaults' = scFaults + 1
    /\ scLoc' = [p \in ScProcs |-> ScIdle] /\ scDevice' = "one"
    /\ scPass' = 1 /\ scList' = <<>> /\ scFound' = <<>> /\ scRan' = <<>> /\ scOff' = {}
    /\ UNCHANGED <<scRow, scCache, scEdits>>

ScBaseExpires(key) ==
    /\ ScMayExpire /\ ScExpiredIn > 0 /\ scBase[key] # ScAbsent
    /\ ScPut(key, ScAbsent)
    /\ UNCHANGED <<scRow, scDevice, scInfo, scLoc, scReport, scOff, scBounds>>
ScInfoExpires(key) ==
    /\ ScMayExpire /\ ScExpiredIn > 0 /\ scInfo[key] # {}
    /\ scInfo' = [scInfo EXCEPT ![key] = {}]
    /\ UNCHANGED <<scRow, scDevice, scBase, scLoc, scReport, scOff, scBounds>>

-----------------------------------------------------------------------------
EditStep(p) ==
    \/ SetKind(p)
    \/ DeleteInfo(p)
    \/ DeleteBase(p)
    \/ DeleteEmpty(p)
    \/ DeleteKeys(p)
    \/ QueryConditions(p)
    \/ SetInfo(p)
    \/ SetBase(p)
    \/ SetWrite(p)

ReportStep ==
    \/ GetKind
    \/ AgainKind
    \/ TaskKind
    \/ FillKind
    \/ GetBase
    \/ GetInfo
    \/ Load
    \/ TaskWrite
    \/ FillInfo
    \/ FillBase
    \/ Check
    \/ Act
    \/ EndPass

ScNext ==
    \/ \E p \in ScEdits, s \in Scenes :
          \/ CreateSceneAutomation(p, s)
          \/ SwitchSceneAutomation(p, s)
          \/ UpdateSceneAutomation(p, s)
          \/ DeleteSceneAutomation(p, s)
    \/ Report
    \/ \E p \in ScProcs : EditStep(p) \/ ScFails(p)
    \/ ReportStep
    \/ ScCrash
    \/ \E key \in DOMAIN scBase : ScBaseExpires(key)
    \/ \E key \in DOMAIN scInfo : ScInfoExpires(key)

ScSpec == ScInit /\ [][ScNext]_scVars

(* A goroutine runs on, and Redis removes a list whose time has come.      *)
ScFairness ==
    /\ \A p \in ScEdits : WF_scVars(EditStep(p))
    /\ WF_scVars(EditStep(Executor) \/ ReportStep)
    /\ \A x \in ScSources : WF_scVars(ScBaseExpires(<<ScKindOf[x], x>>))

-----------------------------------------------------------------------------
ScTypeOK ==
    /\ scRow \in [Scenes -> {"none", "Y", "N", "deleted"}]
    /\ scDevice \in Range(ScKinds)
    /\ \A key \in Range(ScKinds) \X ScSources :
          ScIsList(scBase[key]) => Range(scBase[key]) \subseteq Scenes
    /\ scInfo \in [Range(ScKinds) \X Scenes -> SUBSET ScSources]
    /\ Range(scList) \cup Range(scFound) \cup Range(scRan) \cup scOff \subseteq Scenes
    /\ scPass \in 1..Len(ScPasses)
    /\ scEdits \in 0..ScMaxEdits /\ scFaults \in 0..ScMaxFaults

(* Whatever the cache says, a report runs no scene that has been off since *)
(* before the report, and none twice, although the configuration and the   *)
(* device may both lead to it (CheckSceneAutomationHasClose and            *)
(* executedSceneIDs against lists that are stale or of the wrong kind).    *)
ScRunsAsSwitched ==
    /\ Range(scRan) \cap scOff = {}
    /\ \A i, j \in DOMAIN scRan : i # j => scRan[i] # scRan[j]

(* A scene that is on is hidden from the reports of a source while the     *)
(* list of the source lacks it or its own keys are gone.                   *)
ScHidden(s, x) ==
    LET base == scBase[<<ScKindOf[x], x>>]
    IN  /\ scRow[s] = "Y" /\ x \in ScOf[s]
        /\ base # ScAbsent
        /\ s \notin Range(base) \/ scInfo[<<ScKindOf[x], s>>] = {}

(* However edits, reports and failures have mixed up the lists, no scene   *)
(* that is on stays hidden for good: the next report loads it again        *)
(* (expiredIn of every key in AutomateCache.set).                          *)
ScComesBack == \A s \in Scenes, x \in ScSources : []<>~ScHidden(s, x)

(* Not so: while no edit is under way, no scene that is on is hidden.      *)
ScNoneHidden ==
    (\A p \in ScEdits : At(p, "idle")) => \A s \in Scenes, x \in ScSources : ~ScHidden(s, x)

(* Not so: a scene that is deleted is not run any more.                    *)
ScDeletedIsGone == \A s \in Range(scRan) : scRow[s] # "deleted"
=============================================================================
