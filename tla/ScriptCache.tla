---------------------------- MODULE ScriptCache ----------------------------
(***************************************************************************)
(* The data scripts of one device configuration and their copies in Redis. *)
(* A message of the device takes the script of its type from the copy; a   *)
(* miss loads the row that is enabled, or that there is none, and keeps it *)
(* without expiry.  Calls of the API change a row and then delete the copy.*)
(***************************************************************************)
EXTENDS Integers, FiniteSets

CONSTANTS
    DsScripts,
    DsTypes,
    DsEdits,       \* concurrent calls of the API
    DsMessages,    \* messages processed at a time
    DsBreaks,      \* which steps may fail
    DsMayMove,     \* whether an update may change the type of a script
    DsMayOverlap,  \* whether a load may be under way while a row is changed
    DsMaxEdits,    \* bound: calls of the API
    DsMaxFaults    \* bound: faults

ASSUME DsAssumption ==
    /\ DsTypes # {} /\ DsMayMove \in BOOLEAN /\ DsMayOverlap \in BOOLEAN
    /\ DsBreaks \subseteq {"get", "load", "set", "del", "delete", "stop"}
    /\ DsMaxEdits \in Nat /\ DsMaxFaults \in Nat

VARIABLES
    dsRow,      \* the rows of the scripts
    dsCopy,     \* by type: what Redis holds
    dsEdit,     \* locals of the calls of the API
    dsMsg,      \* locals of the messages; may: what it may run (history)
    dsUnsure,   \* versions whose replacement was reported as failed (history)
    dsWrong,    \* what has gone wrong with a message (history)
    dsEdits,
    dsFaults

dsVars == <<dsRow, dsCopy, dsEdit, dsMsg, dsUnsure, dsWrong, dsEdits, dsFaults>>

DsNothing == [script |-> "nothing", text |-> 0]   \* no key
DsMarker  == [script |-> "none", text |-> 0]      \* the key says that there is no script

DsAny      == CHOOSE s \in DsScripts : TRUE
DsIdleEdit == [at |-> "idle", script |-> DsAny, type |-> CHOOSE t \in DsTypes : TRUE, old |-> {}]
DsIdleMsg  == [at |-> "idle", type |-> CHOOSE t \in DsTypes : TRUE, got |-> DsNothing, may |-> {}]

DsInit ==
    /\ dsRow = [s \in DsScripts |-> [state |-> "new", on |-> FALSE, type |-> CHOOSE t \in DsTypes : TRUE, text |-> 0]]
    /\ dsCopy = [t \in DsTypes |-> DsNothing]
    /\ dsEdit = [e \in DsEdits |-> DsIdleEdit]
    /\ dsMsg = [m \in DsMessages |-> DsIdleMsg]
    /\ dsUnsure = {} /\ dsWrong = {} /\ dsEdits = 0 /\ dsFaults = 0

(* The scripts of a type that the rows enable, or that there is none.      *)
DsOn(row, t)    == {s \in DsScripts : row[s].state = "there" /\ row[s].on /\ row[s].type = t}
DsTruth(row, t) ==
    IF DsOn(row, t) = {} THEN {DsMarker}
    ELSE {[script |-> s, text |-> row[s].text] : s \in DsOn(row, t)}

(* A version that a call replaces may be run until the call has returned.  *)
DsVersion(s) == [type |-> dsRow[s].type, is |-> [script |-> s, text |-> dsRow[s].text]]
DsReplaced(s) == IF s \in DsOn(dsRow, dsRow[s].type) THEN {DsVersion(s)} ELSE {}
DsLeft(t) == {v.is : v \in {u \in dsUnsure \cup UNION {dsEdit[e].old : e \in DsEdits} : u.type = t}}

DsFault == dsFaults < DsMaxFaults /\ dsFaults' = dsFaults + 1
DsCall  == dsEdits < DsMaxEdits /\ dsEdits' = dsEdits + 1

(* A row changes; what it says now may be run by the messages under way.   *)
ChangeRow(s, new) ==
    /\ DsMayOverlap \/ \A m \in DsMessages : dsMsg[m].at # "set"
    /\ dsRow' = [dsRow EXCEPT ![s] = new]
    /\ dsMsg' = [m \in DsMessages |->
           IF dsMsg[m].at = "idle" THEN dsMsg[m]
           ELSE [dsMsg[m] EXCEPT !.may = @ \cup DsTruth(dsRow', dsMsg[m].type)]]

-----------------------------------------------------------------------------
(* A script is created disabled; no copy is deleted.                       *)
CreateDataScript(s, t) ==
    /\ dsRow[s].state = "new"
    /\ ChangeRow(s, [state |-> "there", on |-> FALSE, type |-> t, text |-> 0])
    /\ UNCHANGED <<dsCopy, dsEdit, dsUnsure, dsWrong, dsEdits, dsFaults>>

(* The content or the type of a script changes, enabled or not.            *)
UpdateDataScript(e, s, t) ==
    /\ dsEdit[e].at = "idle" /\ dsRow[s].state = "there" /\ DsCall
    /\ t # dsRow[s].type => DsMayMove
    /\ ChangeRow(s, [dsRow[s] EXCEPT !.type = t, !.text = @ + 1])
    /\ dsEdit' = [dsEdit EXCEPT ![e] = [at |-> "del", script |-> s, type |-> t, old |-> DsReplaced(s)]]
    /\ UNCHANGED <<dsCopy, dsUnsure, dsWrong, dsFaults>>

(* Enabling looks for another enabled script of the type first, and leaves *)
(* the copy alone.                                                         *)
CheckEnable(e, s) ==
    /\ dsEdit[e].at = "idle" /\ dsRow[s].state = "there" /\ DsCall
    /\ DsOn(dsRow, dsRow[s].type) = {}
    /\ dsEdit' = [dsEdit EXCEPT ![e] = [DsIdleEdit EXCEPT !.at = "enable", !.script = s]]
    /\ UNCHANGED <<dsRow, dsCopy, dsMsg, dsUnsure, dsWrong, dsFaults>>

EnableDataScript(e) ==
    /\ dsEdit[e].at = "enable"
    /\ LET s == dsEdit[e].script
       IN  IF dsRow[s].state = "there" THEN ChangeRow(s, [dsRow[s] EXCEPT !.on = TRUE])
           ELSE UNCHANGED <<dsRow, dsMsg>>
    /\ dsEdit' = [dsEdit EXCEPT ![e] = DsIdleEdit]
    /\ UNCHANGED <<dsCopy, dsUnsure, dsWrong, dsEdits, dsFaults>>

(* Mutant: disabling leaves the copy alone too.                            *)
DisableOnly(e, s) ==
    /\ dsEdit[e].at = "idle" /\ dsRow[s].state = "there" /\ DsCall
    /\ ChangeRow(s, [dsRow[s] EXCEPT !.on = FALSE])
    /\ UNCHANGED <<dsCopy, dsEdit, dsUnsure, dsWrong, dsFaults>>

DisableDataScript(e, s) ==
    /\ dsEdit[e].at = "idle" /\ dsRow[s].state = "there" /\ DsCall
    /\ ChangeRow(s, [dsRow[s] EXCEPT !.on = FALSE])
    /\ dsEdit' = [dsEdit EXCEPT ![e] = [at |-> "del", script |-> s, type |-> dsRow[s].type, old |-> DsReplaced(s)]]
    /\ UNCHANGED <<dsCopy, dsUnsure, dsWrong, dsFaults>>

(* Deleting reads the row first; the copy goes only if it was enabled then.*)
ReadForDelete(e, s) ==
    /\ dsEdit[e].at = "idle" /\ dsRow[s].state = "there" /\ DsCall
    /\ dsEdit' = [dsEdit EXCEPT ![e] =
           [at |-> IF dsRow[s].on THEN "delete" ELSE "deleteOff", script |-> s, type |-> dsRow[s].type, old |-> {}]]
    /\ UNCHANGED <<dsRow, dsCopy, dsMsg, dsUnsure, dsWrong, dsFaults>>

DeleteDataScript(e) ==
    /\ dsEdit[e].at \in {"delete", "deleteOff"}
    /\ LET s == dsEdit[e].script
       IN  /\ ChangeRow(s, [dsRow[s] EXCEPT !.state = "gone", !.on = FALSE])
           /\ dsEdit' = [dsEdit EXCEPT ![e] =
                  IF dsEdit[e].at = "deleteOff" THEN DsIdleEdit
                  ELSE [@ EXCEPT !.at = "delGone", !.old = DsReplaced(s)]]
    /\ UNCHANGED <<dsCopy, dsUnsure, dsWrong, dsEdits, dsFaults>>

(* DelDataScriptCache.  An update and a disabling read the row once more   *)
(* for its type, and panic when it is gone.                                *)
DelDataScriptCache(e) ==
    /\ \/ dsEdit[e].at = "delGone" /\ dsCopy' = [dsCopy EXCEPT ![dsEdit[e].type] = DsNothing]
       \/ /\ dsEdit[e].at = "del" /\ dsRow[dsEdit[e].script].state = "there"
          /\ dsCopy' = [dsCopy EXCEPT ![dsRow[dsEdit[e].script].type] = DsNothing]
    /\ dsEdit' = [dsEdit EXCEPT ![e] = DsIdleEdit]
    /\ UNCHANGED <<dsRow, dsMsg, dsUnsure, dsWrong, dsEdits, dsFaults>>

(* The caller of an update or of a disabling is told that it has failed.   *)
GiveUp(e) ==
    /\ dsUnsure' = dsUnsure \cup dsEdit[e].old
    /\ dsEdit' = [dsEdit EXCEPT ![e] = DsIdleEdit]

DelPanics(e) ==
    /\ dsEdit[e].at = "del" /\ dsRow[dsEdit[e].script].state = "gone"
    /\ GiveUp(e)
    /\ UNCHANGED <<dsRow, dsCopy, dsMsg, dsWrong, dsEdits, dsFaults>>

DelFails(e) ==
    /\ dsEdit[e].at = "del" /\ "del" \in DsBreaks /\ DsFault
    /\ GiveUp(e)
    /\ UNCHANGED <<dsRow, dsCopy, dsMsg, dsWrong, dsEdits>>

(* The caller of a deletion is not told.                                   *)
DelOfGoneFails(e) ==
    /\ dsEdit[e].at = "delGone" /\ "delete" \in DsBreaks /\ DsFault
    /\ dsEdit' = [dsEdit EXCEPT ![e] = DsIdleEdit]
    /\ UNCHANGED <<dsRow, dsCopy, dsMsg, dsUnsure, dsWrong, dsEdits>>

-----------------------------------------------------------------------------
(* Decode or Encode of a message: what the rows say now, and what calls    *)
(* under way are about to replace, may be run.                             *)
TakeMessage(m, t) ==
    /\ dsMsg[m].at = "idle"
    /\ dsMsg' = [dsMsg EXCEPT ![m] =
           [at |-> "get", type |-> t, got |-> DsNothing, may |-> DsTruth(dsRow, t) \cup DsLeft(t)]]
    /\ UNCHANGED <<dsRow, dsCopy, dsEdit, dsUnsure, dsWrong, dsEdits, dsFaults>>

(* The message is processed with a script, or as it is without one.        *)
RunScript(m, got) ==
    /\ dsWrong' = IF got \in dsMsg[m].may THEN dsWrong
                  ELSE dsWrong \cup {IF got = DsMarker THEN "without" ELSE "stale"}
    /\ dsMsg' = [dsMsg EXCEPT ![m] = DsIdleMsg]

GetScript(m) ==
    /\ dsMsg[m].at = "get"
    /\ LET copy == dsCopy[dsMsg[m].type]
       IN  IF copy = DsNothing THEN dsMsg' = [dsMsg EXCEPT ![m].at = "load"] /\ UNCHANGED dsWrong
           ELSE RunScript(m, copy)
    /\ UNCHANGED <<dsRow, dsCopy, dsEdit, dsUnsure, dsEdits, dsFaults>>

(* Any error of Redis is a miss.                                           *)
GetFails(m) ==
    /\ dsMsg[m].at = "get" /\ "get" \in DsBreaks /\ DsFault
    /\ dsMsg' = [dsMsg EXCEPT ![m].at = "load"]
    /\ UNCHANGED <<dsRow, dsCopy, dsEdit, dsUnsure, dsWrong, dsEdits>>

LoadFromDatabase(m) ==
    /\ dsMsg[m].at = "load"
    /\ DsMayOverlap \/ \A e \in DsEdits : dsEdit[e].at \notin {"del", "delGone"}
    /\ \E v \in DsTruth(dsRow, dsMsg[m].type) :
          dsMsg' = [dsMsg EXCEPT ![m] = [@ EXCEPT !.at = "set", !.got = v]]
    /\ UNCHANGED <<dsRow, dsCopy, dsEdit, dsUnsure, dsWrong, dsEdits, dsFaults>>

(* An error of the database ends the message.                              *)
LoadFails(m) ==
    /\ dsMsg[m].at = "load" /\ "load" \in DsBreaks /\ DsFault
    /\ dsMsg' = [dsMsg EXCEPT ![m] = DsIdleMsg]
    /\ UNCHANGED <<dsRow, dsCopy, dsEdit, dsUnsure, dsWrong, dsEdits>>

SetToCache(m) ==
    /\ dsMsg[m].at = "set"
    /\ dsCopy' = [dsCopy EXCEPT ![dsMsg[m].type] = dsMsg[m].got]
    /\ RunScript(m, dsMsg[m].got)
    /\ UNCHANGED <<dsRow, dsEdit, dsUnsure, dsEdits, dsFaults>>

(* A copy that cannot be written is logged, and the script is run.         *)
SetFails(m) ==
    /\ dsMsg[m].at = "set" /\ "set" \in DsBreaks /\ DsFault
    /\ RunScript(m, dsMsg[m].got)
    /\ UNCHANGED <<dsRow, dsCopy, dsEdit, dsUnsure, dsEdits>>

(* The server stops: rows and copies stay, the calls never return.         *)
DsStop ==
    /\ "stop" \in DsBreaks /\ DsFault
    /\ dsUnsure' = dsUnsure \cup UNION {dsEdit[e].old : e \in DsEdits}
    /\ dsEdit' = [e \in DsEdits |-> DsIdleEdit]
    /\ dsMsg' = [m \in DsMessages |-> DsIdleMsg]
    /\ UNCHANGED <<dsRow, dsCopy, dsWrong, dsEdits>>

DsNext ==
    \/ \E s \in DsScripts, t \in DsTypes : CreateDataScript(s, t)
    \/ \E e \in DsEdits, s \in DsScripts :
          \/ \E t \in DsTypes : UpdateDataScript(e, s, t)
          \/ CheckEnable(e, s)
          \/ DisableDataScript(e, s)
          \/ ReadForDelete(e, s)
    \/ \E e \in DsEdits :
          \/ EnableDataScript(e)
          \/ DeleteDataScript(e)
          \/ DelDataScriptCache(e)
          \/ DelPanics(e)
          \/ DelFails(e)
          \/ DelOfGoneFails(e)
    \/ \E m \in DsMessages :
          \/ \E t \in DsTypes : TakeMessage(m, t)
          \/ GetScript(m)
          \/ GetFails(m)
          \/ LoadFromDatabase(m)
          \/ LoadFails(m)
          \/ SetToCache(m)
          \/ SetFails(m)
    \/ DsStop

DsSpec == DsInit /\ [][DsNext]_dsVars

-----------------------------------------------------------------------------
DsTypeOK ==
    /\ \A s \in DsScripts :
          /\ dsRow[s].state \in {"new", "there", "gone"} /\ dsRow[s].on \in BOOLEAN
          /\ dsRow[s].type \in DsTypes /\ dsRow[s].text \in 0..DsMaxEdits
    /\ \A t \in DsTypes : dsCopy[t].script \in DsScripts \cup {"nothing", "none"}
    /\ \A e \in DsEdits :
          dsEdit[e].at \in {"idle", "enable", "delete", "deleteOff", "del", "delGone"}
    /\ \A m \in DsMessages : dsMsg[m].at \in {"idle", "get", "load", "set"}
    /\ dsWrong \subseteq {"stale", "without"}
    /\ dsEdits \in 0..DsMaxEdits /\ dsFaults \in 0..DsMaxFaults

(* Once a call that changes, disables or deletes a script has returned     *)
(* without an error, no message that comes later is run with the version it*)
(* replaced, whatever copy or row the message reads (processor/cache.go).  *)
DsRunsCurrent == "stale" \notin dsWrong

(* Not so: a message is processed without a script only if none is enabled.*)
DsEnabledIsUsed == "without" \notin dsWrong

(* Not so: at most one script of a type is enabled.                        *)
DsOneEnabled == \A t \in DsTypes : Cardinality(DsOn(dsRow, t)) <= 1
=============================================================================
