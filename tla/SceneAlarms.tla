---------------------------- MODULE SceneAlarms ----------------------------
(***************************************************************************)
(* Alarms of one scene automation.  A report of a device checks groups of  *)
(* conditions: a group that holds is put into the alarm cache, one that    *)
(* does not has its alarms recovered and is taken out.  When a group held, *)
(* the alarm actions of the scene raise their alarms for the groups in the *)
(* cache that are not marked, and mark them.  Reports run one at a time;   *)
(* the scheduler may run the actions of the scene in between.              *)
(***************************************************************************)
EXTENDS Integers, Sequences, FiniteSets, TLC, SequencesExt

CONSTANTS
    AlDevices,
    AlSources,     \* by group: the devices in its conditions
    AlOfKind,      \* groups whose conditions are on a configuration, that is, on who reports
    AlConfigs,     \* the alarm configurations in the actions of the scene
    AlBreaks,      \* where a call may fail or the server stop
    AlTimed,       \* whether the scheduler runs the scene too
    AlMaxFaults    \* bound: faults

AlGroups == DOMAIN AlSources

ASSUME AlAssumption ==
    /\ \A g \in AlGroups : AlSources[g] \subseteq AlDevices
    /\ AlOfKind \subseteq AlGroups
    /\ AlBreaks \subseteq {"check", "recover", "row", "forget", "alarm", "mark"}
    /\ AlTimed \in BOOLEAN /\ AlMaxFaults \in Nat

VARIABLES
    alHolds,     \* devices whose last values satisfy the conditions
    alGroup,     \* group keys: the devices and alarm configurations kept
    alScene,     \* the scene key: groups in the order of their coming
    alMarks,     \* by configuration and device: the groups that have raised it
    alRun,       \* the locals of the report
    alRaised,    \* by group and configuration: devices whose last history row is an alarm
    alSays,      \* by group: devices for which the last check held (history)
    alDoubt,     \* what it takes, after a fault, to know the group again (history)
    alTimer,     \* what a run of the scheduler has looked up, if any
    alFaults

alCache   == <<alGroup, alScene, alMarks>>
alChecked == <<alSays, alDoubt>>
alVars    == <<alHolds, alCache, alRun, alRaised, alChecked, alTimer, alFaults>>

AlNobody == [busy |-> FALSE, group |-> "none", config |-> "none", devices |-> {}]
AlNoKey  == [there |-> FALSE, devices |-> {}, configs |-> {}]

(* Of a report: the place, who reports, the groups to check, whether one   *)
(* held, the group at hand, the actions to come, the one at hand, the      *)
(* groups it has left, what AlarmExecute is going to return, whether an    *)
(* action has failed, and whether there was a fault.                       *)
AlIdle == [at |-> "idle", device |-> CHOOSE d \in AlDevices : TRUE, todo |-> {}, held |-> FALSE,
           group |-> CHOOSE g \in AlGroups : TRUE, actions |-> {}, config |-> "none",
           left |-> <<>>, ok |-> FALSE, reason |-> "none", failed |-> FALSE, spoilt |-> FALSE]

AlInit ==
    /\ alHolds = {}
    /\ alGroup = [g \in AlGroups |-> AlNoKey]
    /\ alScene = <<>>
    /\ alMarks = [c \in AlConfigs |-> [d \in AlDevices |-> {}]]
    /\ alRun = AlIdle
    /\ alRaised = [g \in AlGroups |-> [c \in AlConfigs |-> {}]]
    /\ alSays = [g \in AlGroups |-> {}]
    /\ alDoubt = [g \in AlGroups |-> "none"]
    /\ alTimer = AlNobody /\ alFaults = 0

(* After a light fault one check of the group tells, after a heavy one it   *)
(* takes a check that holds and a later recovery.                          *)
AlFault(heavy) ==
    /\ alFaults < AlMaxFaults /\ alFaults' = alFaults + 1
    /\ alDoubt' = [g \in AlGroups |->
           IF heavy \/ alDoubt[g] \in {"cycle", "held"} THEN "cycle" ELSE "check"]
AlChecked(g, holds) ==
    alDoubt' = [alDoubt EXCEPT ![g] =
        IF alRun.spoilt THEN @
        ELSE IF @ = "cycle" THEN (IF holds THEN "held" ELSE "cycle")
        ELSE IF @ = "held" THEN "held" ELSE "none"]
AlForgotten(g) ==
    alDoubt' = [alDoubt EXCEPT ![g] = IF @ = "held" /\ ~alRun.spoilt THEN "none" ELSE @]
AlAt(place)   == alRun.at = place
AlGo(place)  == alRun' = [alRun EXCEPT !.at = place]

(* The devices that a check of the group is about, and its outcome.        *)
AlAbout(g)  == IF g \in AlOfKind THEN {alRun.device} ELSE AlSources[g]
AlPasses(g) == AlAbout(g) \subseteq alHolds

-----------------------------------------------------------------------------
(* A device sends new values.                                              *)
NewValues(d) ==
    /\ alHolds' = IF d \in alHolds THEN alHolds \ {d} ELSE alHolds \cup {d}
    /\ UNCHANGED <<alCache, alRun, alRaised, alChecked, alTimer, alFaults>>

(* A report checks the groups that the cache of the scenes holds: those of *)
(* the device, or all of them.                                             *)
AlReport(d) ==
    /\ AlAt("idle")
    /\ LET mine == {g \in AlGroups : d \in AlSources[g]}
       IN  /\ mine # {}
           /\ \E todo \in {mine, AlGroups} :
                 alRun' = [AlIdle EXCEPT !.at = "check", !.device = d, !.todo = todo]
    /\ UNCHANGED <<alHolds, alCache, alRaised, alChecked, alTimer, alFaults>>

(* SetDevice: a group that is in the cache keeps its devices.              *)
KeepGroup(g) ==
    alGroup' = [alGroup EXCEPT ![g] = IF @.there THEN @
                   ELSE [there |-> TRUE, devices |-> AlAbout(g), configs |-> {}]]
SetDevice(g) ==
    /\ KeepGroup(g)
    /\ alScene' = IF g \in Range(alScene) THEN alScene ELSE Append(alScene, g)

(* AutomateConditionCheck of one group and what ConditionAfterAlarm does.  *)
CheckGroup(g) ==
    /\ AlAt("check") /\ g \in alRun.todo
    /\ alSays' = [alSays EXCEPT ![g] =
                     IF AlPasses(g) THEN @ \cup AlAbout(g) ELSE @ \ AlAbout(g)]
    /\ AlChecked(g, AlPasses(g))
    /\ \/ /\ AlPasses(g)
          /\ SetDevice(g)
          /\ alRun' = [alRun EXCEPT !.todo = @ \ {g}, !.held = TRUE]
       \/ /\ ~AlPasses(g)
          /\ alRun' = [alRun EXCEPT !.at = "recover", !.todo = @ \ {g}, !.group = g]
          /\ UNCHANGED <<alGroup, alScene>>
    /\ UNCHANGED <<alHolds, alMarks, alRaised, alTimer, alFaults>>

(* AlarmRecovery writes a row for each configuration of the group.         *)
RecoverGroup ==
    /\ AlAt("recover")
    /\ LET kept == alGroup[alRun.group]
       IN  alRaised' = [alRaised EXCEPT ![alRun.group] = [c \in AlConfigs |->
               IF c \in kept.configs THEN @[c] \ kept.devices ELSE @[c]]]
    /\ AlGo("forget")
    /\ UNCHANGED <<alHolds, alCache, alChecked, alTimer, alFaults>>

(* A row cannot be written: nobody looks at what AlarmRecovery returns.    *)
RecoveryLost ==
    /\ AlAt("recover") /\ "row" \in AlBreaks /\ AlFault(TRUE)
    /\ alRun' = [alRun EXCEPT !.at = "forget", !.spoilt = TRUE]
    /\ UNCHANGED <<alHolds, alCache, alRaised, alSays, alTimer>>

(* Mutant: only the mark of the device that reports goes.                  *)
MarksOfFirst(kept, g) ==
    [c \in AlConfigs |-> [d \in AlDevices |->
        IF c \in kept.configs /\ d = alRun.device
        THEN alMarks[c][d] \ {g} ELSE alMarks[c][d]]]

(* DeleteBygroupId: the marks of the devices that the group keeps, its     *)
(* place in the scene key, and the group key.                              *)
DeleteMarks(kept, g) ==
    [c \in AlConfigs |-> [d \in AlDevices |->
        IF c \in kept.configs /\ d \in kept.devices
        THEN alMarks[c][d] \ {g} ELSE alMarks[c][d]]]
AlWithout(list, g) ==
    IF g \in Range(list) THEN RemoveAt(list, CHOOSE i \in DOMAIN list : list[i] = g) ELSE list
DeleteGroup(g) ==
    /\ alMarks' = DeleteMarks(alGroup[g], g)
    /\ alScene' = IF alGroup[g].there THEN AlWithout(alScene, g) ELSE alScene
    /\ alGroup' = [alGroup EXCEPT ![g] = AlNoKey]

Forget ==
    /\ AlAt("forget")
    /\ DeleteGroup(alRun.group)
    /\ AlForgotten(alRun.group)
    /\ AlGo("check")
    /\ UNCHANGED <<alHolds, alRaised, alSays, alTimer, alFaults>>

(* Without a group that holds the report is done, otherwise the alarm      *)
(* actions of the scene run.                                               *)
AllChecked ==
    /\ AlAt("check") /\ alRun.todo = {}
    /\ alRun' = IF alRun.held THEN [alRun EXCEPT !.at = "action", !.actions = AlConfigs] ELSE AlIdle
    /\ UNCHANGED <<alHolds, alCache, alRaised, alChecked, alTimer, alFaults>>

-----------------------------------------------------------------------------
(* AlarmExecute goes through the groups of the scene key.                  *)
StartAlarm(c) ==
    /\ AlAt("action") /\ c \in alRun.actions
    /\ alRun' = [alRun EXCEPT !.at = "alarm", !.config = c, !.actions = @ \ {c}, !.left = alScene,
                               !.ok = FALSE, !.reason = "none"]
    /\ UNCHANGED <<alHolds, alCache, alRaised, alChecked, alTimer, alFaults>>

Marked(g, c) == \E d \in alGroup[g].devices : g \in alMarks[c][d]
Raise(g, c, devices) == alRaised' = [alRaised EXCEPT ![g][c] = @ \cup devices]

AlarmGroup ==
    /\ AlAt("alarm") /\ alRun.left # <<>>
    /\ LET g == Head(alRun.left)
           c == alRun.config
       IN  \/ /\ Marked(g, c)
              /\ alRun' = [alRun EXCEPT !.left = Tail(@), !.reason = "exists"]
              /\ UNCHANGED alRaised
           \/ /\ ~Marked(g, c)
              /\ Raise(g, c, alGroup[g].devices)
              /\ alRun' = [alRun EXCEPT !.left = Tail(@), !.ok = TRUE, !.reason = "none"]
    /\ UNCHANGED <<alHolds, alCache, alChecked, alTimer, alFaults>>

(* The row of an alarm cannot be written: the next group decides what is   *)
(* returned.                                                               *)
AlarmFails ==
    /\ AlAt("alarm") /\ alRun.left # <<>> /\ ~Marked(Head(alRun.left), alRun.config)
    /\ "alarm" \in AlBreaks /\ AlFault(TRUE)
    /\ alRun' = [alRun EXCEPT !.left = Tail(@), !.ok = FALSE, !.reason = "failed", !.spoilt = TRUE]
    /\ UNCHANGED <<alHolds, alCache, alRaised, alSays, alTimer>>

(* An alarm that exists is no error; one that failed is.                   *)
EndAlarm ==
    /\ AlAt("alarm") /\ alRun.left = <<>>
    /\ alRun' = [alRun EXCEPT !.at = "action",
                               !.failed = @ \/ ~(alRun.ok \/ alRun.reason = "exists")]
    /\ UNCHANGED <<alHolds, alCache, alRaised, alChecked, alTimer, alFaults>>

(* ActionAfterAlarm: after an error nothing is marked.                     *)
AfterActions ==
    /\ AlAt("action") /\ alRun.actions = {}
    /\ alRun' = [alRun EXCEPT !.at = "mark", !.left = IF alRun.failed THEN <<>> ELSE alScene]
    /\ UNCHANGED <<alHolds, alCache, alRaised, alChecked, alTimer, alFaults>>

(* SetAlarm: the alarms of a group are kept and marked for who reports.    *)
SetAlarm(g) ==
    /\ alGroup' = [alGroup EXCEPT ![g].there = TRUE, ![g].configs = AlConfigs]
    /\ alMarks' = [c \in AlConfigs |-> [d \in AlDevices |->
           IF d = alRun.device THEN alMarks[c][d] \cup {g} ELSE alMarks[c][d]]]

MarkGroup ==
    /\ AlAt("mark") /\ alRun.left # <<>>
    /\ SetAlarm(Head(alRun.left))
    /\ alRun' = [alRun EXCEPT !.left = Tail(@)]
    /\ UNCHANGED <<alHolds, alScene, alRaised, alChecked, alTimer, alFaults>>

EndReport ==
    /\ AlAt("mark") /\ alRun.left = <<>>
    /\ alRun' = AlIdle
    /\ UNCHANGED <<alHolds, alCache, alRaised, alChecked, alTimer, alFaults>>

-----------------------------------------------------------------------------
(* The scheduler runs the alarm actions outside the mutex of the reports:  *)
(* it looks a group of the scene up, and raises its alarm later.           *)
TimerLooks(g, c) ==
    /\ AlTimed /\ alTimer = AlNobody
    /\ g \in Range(alScene) /\ ~Marked(g, c)
    /\ alTimer' = [busy |-> TRUE, group |-> g, config |-> c, devices |-> alGroup[g].devices]
    /\ UNCHANGED <<alHolds, alCache, alRun, alRaised, alChecked, alFaults>>

TimerRaises ==
    /\ alTimer # AlNobody
    /\ Raise(alTimer.group, alTimer.config, alTimer.devices)
    /\ alTimer' = AlNobody
    /\ alDoubt' = [alDoubt EXCEPT ![alTimer.group] = "cycle"]
    /\ UNCHANGED <<alHolds, alCache, alRun, alSays, alFaults>>

(* The server stops in the middle of a report; Redis and the rows stay.    *)
StopReport ==
    /\ ~AlAt("idle") /\ alRun.at \in AlBreaks
    /\ AlFault(alRun.at \notin {"check", "recover"})
    /\ alRun' = AlIdle
    /\ UNCHANGED <<alHolds, alCache, alRaised, alSays, alTimer>>

(* A call of SetDevice fails after the group key was written: the check    *)
(* goes on, as if the group held.                                          *)
SetDeviceFails(g) ==
    /\ AlAt("check") /\ g \in alRun.todo /\ AlPasses(g)
    /\ "check" \in AlBreaks /\ AlFault(FALSE)
    /\ KeepGroup(g)
    /\ alSays' = [alSays EXCEPT ![g] = @ \cup AlAbout(g)]
    /\ alRun' = [alRun EXCEPT !.todo = @ \ {g}, !.held = TRUE, !.spoilt = TRUE]
    /\ UNCHANGED <<alHolds, alScene, alMarks, alRaised, alTimer>>

(* AlarmRecovery, DeleteBygroupId or SetAlarm fails before it has changed  *)
(* anything; the group is left as it is.                                   *)
CallFails ==
    /\ alRun.at \in {"recover", "forget", "mark"} \cap AlBreaks
    /\ AlFault(~AlAt("recover"))
    /\ alRun' = IF AlAt("mark") THEN AlIdle ELSE [alRun EXCEPT !.at = "check", !.spoilt = TRUE]
    /\ UNCHANGED <<alHolds, alCache, alRaised, alSays, alTimer>>

AlNext ==
    \/ \E d \in AlDevices : NewValues(d) \/ AlReport(d)
    \/ \E g \in AlGroups : CheckGroup(g) \/ SetDeviceFails(g)
    \/ RecoverGroup
    \/ RecoveryLost
    \/ Forget
    \/ AllChecked
    \/ \E c \in AlConfigs : StartAlarm(c)
    \/ AlarmGroup
    \/ AlarmFails
    \/ EndAlarm
    \/ AfterActions
    \/ MarkGroup
    \/ EndReport
    \/ \E g \in AlGroups, c \in AlConfigs : TimerLooks(g, c)
    \/ TimerRaises
    \/ StopReport
    \/ CallFails

AlSpec == AlInit /\ [][AlNext]_alVars

-----------------------------------------------------------------------------
AlTypeOK ==
    /\ alHolds \subseteq AlDevices
    /\ alGroup \in [AlGroups -> [there : BOOLEAN, devices : SUBSET AlDevices, configs : SUBSET AlConfigs]]
    /\ alScene \in Seq(AlGroups)
    /\ alMarks \in [AlConfigs -> [AlDevices -> SUBSET AlGroups]]
    /\ alRaised \in [AlGroups -> [AlConfigs -> SUBSET AlDevices]]
    /\ alSays \in [AlGroups -> SUBSET AlDevices]
    /\ alDoubt \in [AlGroups -> {"none", "check", "cycle", "held"}]
    /\ alFaults \in 0..AlMaxFaults

(* The alarm history tells what the last check of a group has found: an    *)
(* alarm for each configuration when it held, a recovery or nothing when it*)
(* did not.  A fault or a run of the scheduler in between makes the history*)
(* wrong until the next check, or at worst until the group has held and    *)
(* failed to hold once more (alarm_cache.go, automate_decoration.go).      *)
AlHistoryTellsTruth ==
    AlAt("idle") => \A g \in AlGroups, c \in AlConfigs :
                        alDoubt[g] = "none" => alRaised[g][c] = alSays[g]

(* Not so: between two alarms of a group there is a recovery.              *)
AlNotTwice ==
    [][/\ TimerRaises => alRaised[alTimer.group][alTimer.config] \cap alTimer.devices = {}
       /\ (AlarmGroup /\ ~Marked(Head(alRun.left), alRun.config)) =>
              alRaised[Head(alRun.left)][alRun.config] \cap alGroup[Head(alRun.left)].devices = {}]_alVars
=============================================================================
