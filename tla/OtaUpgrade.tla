----------------------------- MODULE OtaUpgrade -----------------------------
(***************************************************************************)
(* Firmware upgrades: the rows of ota_upgrade_task_details, one for each   *)
(* device of a task, and those who write them: the goroutine that pushes a *)
(* new task to its devices one after the other, the API calls that cancel  *)
(* or repeat an upgrade, and the MQTT callback of progress reports.        *)
(*                                                                         *)
(* Each of them reads a row, decides, and saves it with a later statement. *)
(* The package is looked up by the id of the task, and no package has the  *)
(* id of a task: nothing after that lookup is ever reached, so the module  *)
(* has no action for it.                                                   *)
(***************************************************************************)
EXTENDS Integers, Sequences, FiniteSets

CONSTANTS
    OtaDetails,    \* the rows of one task
    OtaDevice,     \* the device of each row
    OtaCalls,      \* API calls that may run at the same time
    OtaMaxCalls,   \* bound: API calls
    OtaMaxFaults   \* bound: database statements that fail

ASSUME OtaAssumption ==
    /\ DOMAIN OtaDevice = OtaDetails
    /\ "creator" \notin OtaCalls
    /\ {OtaMaxCalls, OtaMaxFaults} \subseteq Nat

(* A task has rows, and finitely many.                                     *)
ASSUME OtaDetailsAssumption == OtaDetails # {} /\ IsFiniteSet(OtaDetails)

VARIABLES
    otaStatus,   \* status of each row
    otaOnline,   \* is_online of each device
    otaQueue,    \* rows the creator still has to push
    otaPc,       \* where the creator and each API call are
    otaRow,      \* the row each of them has in memory
    otaCalls, otaFaults,
    otaUp        \* the server runs

otaWork == <<otaQueue, otaPc, otaRow>>
otaVars == <<otaStatus, otaOnline, otaWork, otaCalls, otaFaults, otaUp>>

None       == 0
Waiting    == 1
Notified   == 2
Upgrading  == 3
Succeeded  == 4
Failed     == 5
Cancelled  == 6
OtaActive  == {Notified, Upgrading}
OtaDevices == {OtaDevice[d] : d \in OtaDetails}
OtaProcs   == OtaCalls \cup {"creator"}
OtaPlaces  == {"idle", "next", "cancel", "repeat", "online", "count", "package", "fail"}
OtaRows    == [id : OtaDetails, status : None..Cancelled]

OtaInit ==
    /\ otaStatus = [d \in OtaDetails |-> None]
    /\ otaOnline = [v \in OtaDevices |-> TRUE]
    /\ otaQueue = <<>>
    /\ otaPc = [p \in OtaProcs |-> "idle"]
    /\ otaRow = [p \in OtaProcs |-> [id |-> CHOOSE d \in OtaDetails : TRUE, status |-> None]]
    /\ otaCalls = 0 /\ otaFaults = 0 /\ otaUp = TRUE

OtaGoto(p, place) == otaPc' = [otaPc EXCEPT ![p] = place]
OtaDone(p)        == IF p = "creator" THEN "next" ELSE "idle"
OtaFault          == otaFaults < OtaMaxFaults /\ otaFaults' = otaFaults + 1

-----------------------------------------------------------------------------

(* CreateOTAUpgradeTaskWithDetail: the task and its rows in a transaction; *)
(* then a goroutine pushes them in turn.                                   *)
CreateTask ==
    /\ \A d \in OtaDetails : otaStatus[d] = None
    /\ otaStatus' = [d \in OtaDetails |-> Waiting]
    /\ otaQueue' \in {q \in [1..Cardinality(OtaDetails) -> OtaDetails] :
                         \A i, j \in DOMAIN q : q[i] = q[j] => i = j}
    /\ OtaGoto("creator", "next")
    /\ UNCHANGED <<otaOnline, otaRow, otaCalls, otaFaults, otaUp>>

(* The loop of the creator over the rows as they were created.             *)
NextDetail ==
    /\ otaPc["creator"] = "next"
    /\ IF otaQueue = <<>>
         THEN OtaGoto("creator", "idle") /\ UNCHANGED <<otaQueue, otaRow>>
         ELSE /\ otaQueue' = Tail(otaQueue)
              /\ otaRow' = [otaRow EXCEPT !["creator"] = [id |-> Head(otaQueue), status |-> Waiting]]
              /\ OtaGoto("creator", "online")
    /\ UNCHANGED <<otaStatus, otaOnline, otaCalls, otaFaults, otaUp>>

MayCancel(status) == status \notin {Succeeded, Cancelled, Failed}
MayRepeat(status) == status \notin {Succeeded, Cancelled} /\ status > Upgrading

(* UpdateOTAUpgradeTaskStatus reads the row and decides by what it read.   *)
ReadDetail(p, d) ==
    /\ p \in OtaCalls
    /\ otaPc[p] = "idle"
    /\ otaStatus[d] # None
    /\ otaCalls < OtaMaxCalls
    /\ otaCalls' = otaCalls + 1
    /\ \/ MayCancel(otaStatus[d]) /\ OtaGoto(p, "cancel")
       \/ MayRepeat(otaStatus[d]) /\ OtaGoto(p, "repeat")
    /\ otaRow' = [otaRow EXCEPT ![p] = [id |-> d, status |-> otaStatus[d]]]
    /\ UNCHANGED <<otaStatus, otaOnline, otaQueue, otaFaults, otaUp>>

(* Updates saves the row in memory over whatever the table has by now.     *)
OtaSave(p, status, place) ==
    /\ \/ /\ otaStatus' = [otaStatus EXCEPT ![otaRow[p].id] = status]
          /\ otaRow' = [otaRow EXCEPT ![p].status = status]
          /\ OtaGoto(p, place)
          /\ UNCHANGED otaFaults
       \/ OtaFault /\ OtaGoto(p, OtaDone(p)) /\ UNCHANGED <<otaStatus, otaRow>>
    /\ UNCHANGED <<otaOnline, otaQueue, otaCalls, otaUp>>

SaveCancel(p) == otaPc[p] = "cancel" /\ OtaSave(p, Cancelled, "idle")
SaveRepeat(p) == otaPc[p] = "repeat" /\ OtaSave(p, Waiting, "online")

(* PushOTAUpgradePackage, first statement: is the device online?           *)
CheckOnline(p) ==
    /\ otaPc[p] = "online"
    /\ \/ /\ OtaGoto(p, IF otaOnline[OtaDevice[otaRow[p].id]] THEN "count" ELSE "fail")
          /\ UNCHANGED otaFaults
       \/ OtaFault /\ OtaGoto(p, OtaDone(p))
    /\ UNCHANGED <<otaStatus, otaOnline, otaQueue, otaRow, otaCalls, otaUp>>

OtaOpen(v) == {d \in OtaDetails : OtaDevice[d] = v /\ otaStatus[d] \in Waiting..Upgrading}

(* Rows of the device with a status below 4: the row that is being pushed  *)
(* is one of them, unless it has been changed in the meantime.             *)
CountOpen(p) ==
    /\ otaPc[p] = "count"
    /\ \/ /\ OtaGoto(p, IF OtaOpen(OtaDevice[otaRow[p].id]) # {} THEN "fail" ELSE "package")
          /\ UNCHANGED otaFaults
       \/ OtaFault /\ OtaGoto(p, OtaDone(p))
    /\ UNCHANGED <<otaStatus, otaOnline, otaQueue, otaRow, otaCalls, otaUp>>

(* OtaUpgradePackage.ID.Eq(otataskid): not found.                          *)
FindPackage(p) ==
    /\ otaPc[p] = "package"
    /\ OtaGoto(p, OtaDone(p))
    /\ UNCHANGED <<otaStatus, otaOnline, otaQueue, otaRow, otaCalls, otaFaults, otaUp>>

(* Mutant: the row is left as it is.                                       *)
SaveFailedNot(p) ==
    /\ otaPc[p] = "fail"
    /\ OtaGoto(p, OtaDone(p))
    /\ UNCHANGED <<otaStatus, otaOnline, otaQueue, otaRow, otaCalls, otaFaults, otaUp>>

SaveFailed(p) == otaPc[p] = "fail" /\ OtaSave(p, Failed, OtaDone(p))

(* OtaUpgrade: without an active row of the device, First returns nil and  *)
(* the handler goes on with it, unless the report is out of range.         *)
ReportProgress(v) ==
    /\ {d \in OtaDetails : OtaDevice[d] = v /\ otaStatus[d] \in OtaActive} = {}
    /\ otaUp' = FALSE
    /\ UNCHANGED <<otaStatus, otaOnline, otaWork, otaCalls, otaFaults>>

(* The device connects or is lost.                                         *)
ToggleOnline(v) ==
    /\ otaOnline' = [otaOnline EXCEPT ![v] = ~@]
    /\ UNCHANGED <<otaStatus, otaWork, otaCalls, otaFaults, otaUp>>

OtaStep(p) ==
    \/ SaveCancel(p) \/ SaveRepeat(p)
    \/ CheckOnline(p) \/ CountOpen(p) \/ FindPackage(p) \/ SaveFailed(p)

OtaNext ==
    /\ otaUp
    /\ \/ CreateTask
       \/ NextDetail
       \/ \E p \in OtaCalls, d \in OtaDetails : ReadDetail(p, d)
       \/ \E p \in OtaProcs : OtaStep(p)
       \/ \E v \in OtaDevices : ReportProgress(v) \/ ToggleOnline(v)

OtaSpec == OtaInit /\ [][OtaNext]_otaVars

(* Goroutines and API calls go on with what they have begun.               *)
OtaFairness ==
    /\ WF_otaVars(otaUp /\ (NextDetail \/ OtaStep("creator")))
    /\ \A p \in OtaCalls : WF_otaVars(otaUp /\ OtaStep(p))

-----------------------------------------------------------------------------
(* Properties.                                                             *)

(* Rows and places are of their kinds.                                     *)
OtaTypeOK ==
    /\ otaStatus \in [OtaDetails -> None..Cancelled]
    /\ otaOnline \in [OtaDevices -> BOOLEAN]
    /\ otaQueue \in Seq(OtaDetails)
    /\ otaPc \in [OtaProcs -> OtaPlaces]
    /\ otaRow \in [OtaProcs -> OtaRows]
    /\ otaCalls \in 0..OtaMaxCalls /\ otaFaults \in 0..OtaMaxFaults
    /\ otaUp \in BOOLEAN

Pushing(p, d) == otaPc[p] \in {"online", "count", "fail"} /\ otaRow[p].id = d

(* Until a statement fails, a row waits only while the creator has it      *)
(* still to push or somebody is pushing it: a cancel, a repetition and the *)
(* creator that save over each other leave no row waiting for nobody.      *)
OtaWaitingIsPushed ==
    otaFaults = 0 =>
        \A d \in OtaDetails : otaStatus[d] = Waiting =>
            \/ \E i \in 1..Len(otaQueue) : otaQueue[i] = d
            \/ \E p \in OtaProcs : Pushing(p, d)

(* No upgrade waits forever while the server runs and statements work.     *)
OtaEventuallyDecided ==
    \A d \in OtaDetails :
        otaStatus[d] = Waiting ~> (otaStatus[d] # Waiting \/ ~otaUp \/ otaFaults > 0)

(* "4-success, 6-cancelled are not modified": a cancelled upgrade stays    *)
(* cancelled.                                                              *)
OtaCancelStays ==
    [][\A d \in OtaDetails : otaStatus[d] = Cancelled => otaStatus'[d] = Cancelled]_otaVars

(* Only another upgrade of the same device that has not ended makes a push *)
(* give up: an upgrade that is the only open one of an online device is    *)
(* not put down as failed because of an unfinished one.                    *)
OtaGivesUpForAnother ==
    [][\A p \in OtaProcs :
         (otaPc[p] = "count" /\ otaPc'[p] = "fail")
            => OtaOpen(OtaDevice[otaRow[p].id]) \ {otaRow[p].id} # {}]_otaVars

(* A progress report does not end the server.                              *)
OtaReportHarmless == otaUp
=============================================================================
