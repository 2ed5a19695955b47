-------------------------- MODULE LatestValueStore --------------------------
(***************************************************************************)
(* What the two telemetry tables promise together: a history that is only  *)
(* ever appended to, one value per series and timestamp, and next to it    *)
(* the latest value of every series, which never moves back in time.       *)
(* Each step is one database transaction.                                  *)
(***************************************************************************)
EXTENDS Naturals

VARIABLES history, current

(* A table holds at most one row for each value of its unique index.       *)
UniqueHistory(rows) == \A r, q \in rows : r.series = q.series /\ r.ts = q.ts => r = q
UniqueCurrent(rows) == \A r, q \in rows : r.series = q.series => r = q

(* The current row of a series is as new as its newest history row, and    *)
(* the history knows of it.                                                *)
Consistent(hist, curr) ==
    /\ \A h \in hist : \E c \in curr : c.series = h.series /\ c.ts >= h.ts
    /\ \A c \in curr : \E h \in hist : h.series = c.series /\ h.ts = c.ts

Init == history = {} /\ current = {}

Next ==
    /\ history \subseteq history'
    /\ UniqueHistory(history')
    /\ UniqueCurrent(current')
    /\ \A c \in current : \E d \in current' : d.series = c.series /\ d.ts >= c.ts
    /\ Consistent(history', current')

Spec == Init /\ [][Next]_<<history, current>>
=============================================================================
