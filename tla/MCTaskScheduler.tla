--------------------------- MODULE MCTaskScheduler ---------------------------
(* Small instances of TaskScheduler for TLC.                               *)
EXTENDS TaskScheduler, TLC

CONSTANTS w1, w2

OneTask       == {"once 1"}
TwoTasks      == {"once 1", "once 2"}
TwoPeriodic   == {"periodic 1", "periodic 2"}
SecondPeriodic == {"periodic 2"}

(* The first one-time task is due at once, the second at once or later;    *)
(* the first periodic one has no execution time yet or an early one, the   *)
(* second, which some runs give a bad parameter, a late one.               *)
StartTimes(t) ==
    CASE t = "once 1"     -> {1}
      [] t = "once 2"     -> {1, 2}
      [] t = "periodic 1" -> {0, 1}
      [] t = "periodic 2" -> {3}

FewPlans == {f \in [Tasks -> 0..3] : \A t \in Tasks : f[t] \in StartTimes(t)}

(* All tasks are due within the first tick, one of them without a time yet. *)
AtOnce == {[t \in Tasks |-> IF t = "periodic 1" THEN 0 ELSE 1]}

FirstExpire == [t \in Tasks |-> IF t \in {"once 1", "periodic 1"} THEN 1 ELSE 0]

Symmetry == Permutations(Workers)
=============================================================================
