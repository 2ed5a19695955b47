---------------------------- MODULE ExpectedData ----------------------------
(***************************************************************************)
(* Values that are kept for a device until it is online.  An API call      *)
(* inserts the row, looks whether the device is online and sends then; an  *)
(* uplink that has brought the device online sends three seconds later.    *)
(* Send reads the pending rows, and for each one delivers and then marks.  *)
(***************************************************************************)
EXTENDS Integers, FiniteSets

CONSTANTS
    EdValues,
    EdCalls,       \* API calls that may run at the same time
    EdNotices,     \* goroutines started by a device that comes online
    EdMaxOnline,   \* bound: times the device comes online
    EdMaxFaults,   \* bound: failing statements
    EdMaxCrashes   \* bound: restarts

EdSenders == EdCalls \cup EdNotices

ASSUME EdAssumption ==
    /\ EdCalls \cap EdNotices = {}
    /\ {EdMaxOnline, EdMaxFaults, EdMaxCrashes} \subseteq Nat

(* There is a value to speak of.                                           *)
ASSUME EdValuesAssumption == EdValues # {}

VARIABLES
    edRow,       \* status of the row of each value
    edOverdue,   \* values whose expiry time has passed
    edOnline,    \* is_online of the device
    edPc,        \* where each sender is
    edValue,     \* the value it is about
    edTodo,      \* the rows it has read and not yet come to
    edVerdict,   \* the status it is going to write
    edSends,     \* times each value was delivered (history)
    edUnclear,   \* a Send began while another one was under way, or was cut off (history)
    edOnlines, edFaults, edCrashes

edLocals == <<edPc, edValue, edTodo, edVerdict>>
edBounds == <<edOnlines, edFaults, edCrashes>>
edVars   == <<edRow, edOverdue, edOnline, edLocals, edSends, edUnclear, edBounds>>

EdInit ==
    /\ edRow = [v \in EdValues |-> "none"]
    /\ edOverdue = {} /\ edOnline = FALSE
    /\ edPc = [p \in EdSenders |-> "idle"]
    /\ edValue = [p \in EdSenders |-> CHOOSE v \in EdValues : TRUE]
    /\ edTodo = [p \in EdSenders |-> {}]
    /\ edVerdict = [p \in EdSenders |-> "sent"]
    /\ edSends = [v \in EdValues |-> 0]
    /\ edUnclear = FALSE
    /\ edOnlines = 0 /\ edFaults = 0 /\ edCrashes = 0

EdGoto(p, place) == edPc' = [edPc EXCEPT ![p] = place]
EdFault          == edFaults < EdMaxFaults /\ edFaults' = edFaults + 1
EdSending(p)     == edPc[p] \in {"row", "mark"}

-----------------------------------------------------------------------------
(* Mutant: Create looks at the device first and inserts afterwards.        *)
LookFirst(p, v) ==
    /\ p \in EdCalls /\ edRow[v] = "none"
    /\ \/ /\ edPc[p] = "idle" /\ ~edOnline
          /\ EdGoto(p, "insert") /\ UNCHANGED edRow
       \/ /\ edPc[p] = "insert"
          /\ edRow' = [edRow EXCEPT ![v] = "pending"] /\ EdGoto(p, "idle")
    /\ UNCHANGED <<edOverdue, edOnline, edValue, edTodo, edVerdict, edSends, edUnclear, edBounds>>

(* Create inserts the row as pending and reads it again.                   *)
CreateValue(p, v) ==
    /\ p \in EdCalls /\ edPc[p] = "idle" /\ edRow[v] = "none"
    /\ edRow' = [edRow EXCEPT ![v] = "pending"]
    /\ \/ EdGoto(p, "status") /\ UNCHANGED edFaults
       \/ EdFault /\ EdGoto(p, "idle")
    /\ UNCHANGED <<edOverdue, edOnline, edValue, edTodo, edVerdict, edSends, edUnclear,
                   edOnlines, edCrashes>>

(* Then it asks whether the device is online.                              *)
AskOnline(p) ==
    /\ edPc[p] = "status"
    /\ \/ EdGoto(p, IF edOnline THEN "read" ELSE "idle") /\ UNCHANGED edFaults
       \/ EdFault /\ EdGoto(p, "idle")
    /\ UNCHANGED <<edRow, edOverdue, edOnline, edValue, edTodo, edVerdict, edSends, edUnclear,
                   edOnlines, edCrashes>>

(* The device comes online and a goroutine will send.                      *)
ComeOnline(p) ==
    /\ p \in EdNotices /\ edPc[p] = "idle"
    /\ ~edOnline /\ edOnline' = TRUE
    /\ edOnlines < EdMaxOnline /\ edOnlines' = edOnlines + 1
    /\ EdGoto(p, "read")
    /\ UNCHANGED <<edRow, edOverdue, edValue, edTodo, edVerdict, edSends, edUnclear, edFaults, edCrashes>>

GoOffline ==
    /\ edOnline /\ edOnline' = FALSE
    /\ UNCHANGED <<edRow, edOverdue, edLocals, edSends, edUnclear, edBounds>>

(* Mutant: all rows of the device are read, whatever their status.         *)
EdAllRows == {v \in EdValues : edRow[v] \notin {"none", "deleted"}}

EdPending == {v \in EdValues : edRow[v] = "pending"}

(* GetAllByDeviceID.                                                       *)
ReadPending(p) ==
    /\ edPc[p] = "read"
    /\ \/ /\ edTodo' = [edTodo EXCEPT ![p] = EdPending]
          /\ EdGoto(p, "row")
          /\ edUnclear' = (edUnclear \/ \E q \in EdSenders \ {p} : EdSending(q))
          /\ UNCHANGED edFaults
       \/ EdFault /\ EdGoto(p, "idle") /\ UNCHANGED <<edTodo, edUnclear>>
    /\ UNCHANGED <<edRow, edOverdue, edOnline, edValue, edVerdict, edSends, edOnlines, edCrashes>>

(* The next row, in the order in which the database returned them: an      *)
(* overdue one is not delivered; a delivery that fails makes the value     *)
(* expired as well.                                                        *)
Deliver(p) ==
    /\ edPc[p] = "row"
    /\ \E v \in edTodo[p] :
         /\ edTodo' = [edTodo EXCEPT ![p] = @ \ {v}]
         /\ edValue' = [edValue EXCEPT ![p] = v]
         /\ \/ /\ v \notin edOverdue
               /\ edVerdict' = [edVerdict EXCEPT ![p] = "sent"]
               /\ edSends' = [edSends EXCEPT ![v] = @ + 1]
               /\ UNCHANGED edFaults
            \/ /\ \/ v \in edOverdue /\ UNCHANGED edFaults
                  \/ v \notin edOverdue /\ EdFault
               /\ edVerdict' = [edVerdict EXCEPT ![p] = "expired"]
               /\ UNCHANGED edSends
    /\ EdGoto(p, "mark")
    /\ UNCHANGED <<edRow, edOverdue, edOnline, edUnclear, edOnlines, edCrashes>>

AllDelivered(p) ==
    /\ edPc[p] = "row" /\ edTodo[p] = {}
    /\ EdGoto(p, "idle")
    /\ UNCHANGED <<edRow, edOverdue, edOnline, edValue, edTodo, edVerdict, edSends, edUnclear, edBounds>>

(* Mutant: only successful deliveries are marked.                          *)
MarkSent(p) ==
    /\ edPc[p] = "mark"
    /\ edRow' = IF edVerdict[p] = "sent" THEN [edRow EXCEPT ![edValue[p]] = "sent"] ELSE edRow
    /\ EdGoto(p, "row")
    /\ UNCHANGED <<edOverdue, edOnline, edValue, edTodo, edVerdict, edSends, edUnclear, edBounds>>

(* updateStatus; an error, also that the row is gone, ends the whole Send. *)
Mark(p) ==
    /\ edPc[p] = "mark"
    /\ \/ /\ edRow[edValue[p]] # "deleted"
          /\ edRow' = [edRow EXCEPT ![edValue[p]] = edVerdict[p]]
          /\ EdGoto(p, "row")
          /\ UNCHANGED <<edTodo, edFaults, edUnclear>>
       \/ /\ \/ edRow[edValue[p]] = "deleted" /\ UNCHANGED edFaults
             \/ EdFault
          /\ edTodo' = [edTodo EXCEPT ![p] = {}]
          /\ edUnclear' = TRUE
          /\ EdGoto(p, "idle")
          /\ UNCHANGED edRow
    /\ UNCHANGED <<edOverdue, edOnline, edValue, edVerdict, edSends, edOnlines, edCrashes>>

(* The user deletes a value; its expiry time passes; the server restarts.  *)
DeleteValue(v) ==
    /\ edRow[v] \notin {"none", "deleted"}
    /\ edRow' = [edRow EXCEPT ![v] = "deleted"]
    /\ UNCHANGED <<edOverdue, edOnline, edLocals, edSends, edUnclear, edBounds>>

PassExpiry(v) ==
    /\ v \notin edOverdue /\ edOverdue' = edOverdue \cup {v}
    /\ UNCHANGED <<edRow, edOnline, edLocals, edSends, edUnclear, edBounds>>

EdCrash ==
    /\ edCrashes < EdMaxCrashes /\ edCrashes' = edCrashes + 1
    /\ edPc' = [p \in EdSenders |-> "idle"]
    /\ edTodo' = [p \in EdSenders |-> {}]
    /\ UNCHANGED <<edRow, edOverdue, edOnline, edValue, edVerdict, edSends, edUnclear, edOnlines, edFaults>>

EdSend(p) == ReadPending(p) \/ Deliver(p) \/ AllDelivered(p) \/ Mark(p)

EdNext ==
    \/ \E p \in EdSenders : AskOnline(p) \/ ComeOnline(p) \/ EdSend(p)
    \/ \E p \in EdCalls, v \in EdValues : CreateValue(p, v)
    \/ \E v \in EdValues : DeleteValue(v) \/ PassExpiry(v)
    \/ GoOffline \/ EdCrash

EdSpec == EdInit /\ [][EdNext]_edVars

(* What has begun goes on.                                                 *)
EdFairness == \A p \in EdSenders : WF_edVars(AskOnline(p)) /\ WF_edVars(EdSend(p))

-----------------------------------------------------------------------------
(* Properties.                                                             *)

(* Every variable has its kind.                                            *)
EdTypeOK ==
    /\ edRow \in [EdValues -> {"none", "pending", "sent", "expired", "deleted"}]
    /\ edOverdue \subseteq EdValues /\ edOnline \in BOOLEAN /\ edUnclear \in BOOLEAN
    /\ edPc \in [EdSenders -> {"idle", "status", "read", "row", "mark"}]
    /\ edValue \in [EdSenders -> EdValues]
    /\ edTodo \in [EdSenders -> SUBSET EdValues]
    /\ edVerdict \in [EdSenders -> {"sent", "expired"}]
    /\ edSends \in [EdValues -> Nat]
    /\ edOnlines \in 0..EdMaxOnline /\ edFaults \in 0..EdMaxFaults /\ edCrashes \in 0..EdMaxCrashes

EdSmooth == ~edUnclear /\ edFaults = 0 /\ edCrashes = 0

(* No value is forgotten: while the device is online, each pending one is  *)
(* in the hands of a sender, whichever of "insert, then look at the        *)
(* device" and "device online, then read the rows" comes first.            *)
EdPendingIsSeen ==
    EdSmooth /\ edOnline =>
        \A v \in EdPending : \E p \in EdSenders :
            edPc[p] \in {"status", "read"} \/ v \in edTodo[p] \/ (edPc[p] = "mark" /\ edValue[p] = v)

(* What is marked as sent was delivered; what is not, was not, unless it   *)
(* is just being marked; and a value is delivered once, unless two Sends   *)
(* overlap, a statement fails or the server restarts between delivery and  *)
(* mark.                                                                   *)
EdRowsTellTheTruth ==
    \A v \in EdValues :
        /\ edRow[v] = "sent" => edSends[v] > 0
        /\ EdSmooth => edSends[v] <= 1
        /\ EdSmooth /\ edRow[v] \in {"pending", "expired"} /\ edSends[v] > 0
             => \E p \in EdSenders : edPc[p] = "mark" /\ edValue[p] = v

(* The rows are true in both directions: no value of an online device is   *)
(* forgotten, and none is delivered behind the back of its row.            *)
EdRowsAreTrue == EdPendingIsSeen /\ EdRowsTellTheTruth

(* A pending value of a device that stays online is decided in the end.    *)
EdEventuallyDecided ==
    \A v \in EdValues :
        (edRow[v] = "pending" /\ edOnline) ~> (edRow[v] # "pending" \/ ~edOnline \/ ~EdSmooth)

(* A value is delivered at most once, whatever overlaps.                   *)
EdNeverTwice == \A v \in EdValues : edSends[v] <= 1
=============================================================================
