------------------------- MODULE TaskSchedulerProofs -------------------------
(***************************************************************************)
(* Theorems about TaskScheduler, for any tasks, workers and bounds.        *)
(***************************************************************************)
EXTENDS TaskScheduler, TLAPS

(* Facts about sequences that the leaves below need.                       *)
LEMMA NoRuns == <<>> \in Seq(Nat) /\ Len(<<>>) = 0
  OBVIOUS

LEMMA OneMoreRun ==
  ASSUME NEW s \in Seq(Nat), NEW n \in Nat
  PROVE  Append(s, n) \in Seq(Nat) /\ Len(Append(s, n)) = Len(s) + 1
  OBVIOUS

(* The counter of failures keeps to its bound.                             *)
LEMMA FaultType == TypeOK /\ (Fault \/ UNCHANGED faults) => faults' \in 0..MaxFaults
  BY TaskAssumption DEF TypeOK, Fault

(* The state before the first round.                                       *)
LEMMA TypeInit == Init => TypeOK
<1> SUFFICES ASSUME Init PROVE TypeOK
  OBVIOUS
<1>1. ran \in [Tasks -> Seq(Nat)]
  BY NoRuns DEF Init
<1>2. now \in Nat /\ due \in [Tasks -> Nat] /\ readAt \in [Workers -> [Tasks -> Nat]]
  BY TaskAssumption DEF Init
<1>3. /\ switches \in 0..MaxSwitches /\ faults \in 0..MaxFaults /\ crashes \in 0..MaxCrashes
      /\ lock \in [Jobs -> BOOLEAN]
  BY TaskAssumption DEF Init
<1> QED
  BY <1>1, <1>2, <1>3 DEF Init, TypeOK, Tasks, Jobs

(* Each action keeps every variable within its kind.                       *)
LEMMA TypeNext == TypeOK /\ [Next]_vars => TypeOK'
<1> SUFFICES ASSUME TypeOK, [Next]_vars PROVE TypeOK'
  OBVIOUS
<1> USE TaskAssumption
<1>1. CASE UNCHANGED vars
  BY <1>1 DEF TypeOK, vars, tables, worker, bounds
<1>2. CASE Tick
  BY <1>2 DEF TypeOK, Tick, tables, worker, bounds
<1>3. ASSUME NEW t \in Tasks, NEW on \in BOOLEAN, Switch(t, on) PROVE TypeOK'
  BY <1>3 DEF TypeOK, Switch, worker
<1>4. ASSUME NEW j \in Jobs, LockExpire(j) PROVE TypeOK'
  BY <1>4 DEF TypeOK, LockExpire, tables, worker, bounds
<1>5. ASSUME NEW w \in Workers, NEW j \in Jobs, Start(w, j) PROVE TypeOK'
  BY <1>5 DEF TypeOK, Start, Goto, tables, bounds
<1>6. ASSUME NEW w \in Workers, Read(w) PROVE TypeOK'
  <2>1. \A S \in FirstDue(job[w]) : S \subseteq Tasks
    BY DEF FirstDue, Due, TasksOf, Tasks
  <2>2. faults' \in 0..MaxFaults
    BY <1>6, FaultType DEF Read
  <2> QED
    BY <1>6, <2>1, <2>2 DEF TypeOK, Read, Goto, tables
<1>7. ASSUME NEW w \in Workers, Mark(w) PROVE TypeOK'
  <2>1. faults' \in 0..MaxFaults
    BY <1>7, FaultType DEF Mark
  <2>2. state' \in [Once -> {"NEX", "EXE", "EXP"}]
    BY <1>7 DEF TypeOK, Mark
  <2> QED
    BY <1>7, <2>1, <2>2 DEF TypeOK, Mark, Goto
<1>8. ASSUME NEW w \in Workers, NEW t \in Tasks, Advance(w, t) PROVE TypeOK'
  <2>1. \A time \in NextTimes(t) : time \in Nat
    BY DEF NextTimes, TypeOK
  <2>2. due' \in [Tasks -> Nat]
    BY <1>8, <2>1 DEF TypeOK, Advance
  <2>3. faults' \in 0..MaxFaults
    <3>1. Fault \/ UNCHANGED faults
      BY <1>8 DEF Advance
    <3> QED
      BY <3>1, FaultType
  <2> QED
    BY <1>8, <2>2, <2>3 DEF TypeOK, Advance, Goto
<1>9. ASSUME NEW w \in Workers, NEW t \in Tasks, Reject(w, t) PROVE TypeOK'
  BY <1>9 DEF TypeOK, Reject, Goto, tables, bounds
<1>10. ASSUME NEW w \in Workers, Release(w) PROVE TypeOK'
  <2>1. faults' \in 0..MaxFaults
    BY <1>10, FaultType DEF Release
  <2> QED
    BY <1>10, <2>1 DEF TypeOK, Release, Goto, tables
<1>11. ASSUME NEW w \in Workers, NEW t \in Tasks, Run(w, t) PROVE TypeOK'
  <2>1. ran' \in [Tasks -> Seq(Nat)]
    <3>1. ran \in [Tasks -> Seq(Nat)] /\ readAt[w][t] \in Nat
      BY DEF TypeOK
    <3>2. Append(ran[t], readAt[w][t]) \in Seq(Nat)
      BY <3>1, OneMoreRun
    <3> QED
      BY <1>11, <3>1, <3>2 DEF Run
  <2>2. late' \in [Workers -> SUBSET Once]
    <3>1. late \in [Workers -> SUBSET Once]
      BY DEF TypeOK
    <3> QED
      BY <1>11, <3>1 DEF Run, NoteLate
  <2>3. faults' \in 0..MaxFaults
    BY <1>11, FaultType DEF Run
  <2> QED
    BY <1>11, <2>1, <2>2, <2>3 DEF TypeOK, Run, tables
<1>12. ASSUME NEW w \in Workers, Save(w) PROVE TypeOK'
  BY <1>12 DEF TypeOK, Save, Goto, Fault
<1>13. ASSUME NEW w \in Workers, Crash(w) PROVE TypeOK'
  BY <1>13 DEF TypeOK, Crash, Goto, tables
<1> QED
  BY <1>1, <1>2, <1>3, <1>4, <1>5, <1>6, <1>7, <1>8, <1>9, <1>10, <1>11, <1>12, <1>13
     DEF Next, Round

(* Every reachable state of the scheduler is well typed.                   *)
THEOREM TasksTypeCorrect == Spec => []TypeOK
  BY TypeInit, TypeNext, PTL DEF Spec

-----------------------------------------------------------------------------
(* At most one run of each one-time task.                                  *)

(* Rounds end before their lock does.                                      *)
LocksOutlast == ~MayExpire

(* The lock of a job belongs to the one round between taking and deleting  *)
(* it.                                                                     *)
LockInv ==
    /\ \A w \in Workers, j \in Jobs : Holds(w, j) => lock[j]
    /\ \A v, w \in Workers, j \in Jobs : Holds(v, j) /\ Holds(w, j) => v = w

Taken(w) == batch[w] \cup late[w]

(* What a round has read is still as it was read; what it has written off  *)
(* is its own and has not been run.                                        *)
WorkInv ==
    /\ \A w \in Workers :
          /\ todo[w] \subseteq TasksOf(job[w]) /\ batch[w] \subseteq TasksOf(job[w])
          /\ todo[w] # {} => pc[w] = "mark"
          /\ batch[w] # {} => pc[w] \in {"mark", "release", "run"}
          /\ late[w] # {} => pc[w] = "run"
          /\ batch[w] \cap late[w] = {}
          /\ \A t \in todo[w] \cap Once : state[t] = "NEX"
          /\ \A t \in Taken(w) \cap Once : state[t] = "EXE" /\ ran[t] = <<>>
    /\ \A v, w \in Workers : v # w => Taken(v) \cap Taken(w) \cap Once = {}

OnceInv == LockInv /\ WorkInv /\ OnceAtMostOnce

LEMMA OnceInit == Init => OnceInv
  BY NoRuns DEF Init, OnceInv, LockInv, WorkInv, OnceAtMostOnce, Holds, Taken, Tasks

(* Only a free lock is taken, and it is not deleted by anybody else.       *)
LEMMA LockNext ==
  ASSUME LocksOutlast, TypeOK, LockInv, [Next]_vars
  PROVE  LockInv'
<1>t. /\ pc \in [Workers -> {"idle", "read", "mark", "release", "run"}]
      /\ job \in [Workers -> Jobs]
      /\ lock \in [Jobs -> BOOLEAN]
  BY DEF TypeOK
<1>1. CASE UNCHANGED <<pc, job, lock>>
  BY <1>1 DEF LockInv, Holds
<1>2. ASSUME NEW j \in Jobs, LockExpire(j) PROVE LockInv'
  BY <1>t, <1>2 DEF LockInv, Holds, LockExpire, LocksOutlast, worker
<1>3. ASSUME NEW w \in Workers, NEW j \in Jobs, Start(w, j) PROVE LockInv'
  BY <1>t, <1>3 DEF LockInv, Holds, Start, Goto
<1>4. ASSUME NEW w \in Workers, Release(w) PROVE LockInv'
  BY <1>t, <1>4 DEF LockInv, Holds, Release, Goto
<1>5. ASSUME NEW w \in Workers, UNCHANGED <<job, lock>>,
             pc[w] \in {"read", "mark"} \/ pc'[w] \in {"idle", "run"},
             pc' = [pc EXCEPT ![w] = pc'[w]]
      PROVE  LockInv'
  BY <1>t, <1>5 DEF LockInv, Holds
<1>6. ASSUME NEW w \in Workers, Read(w) PROVE LockInv'
  BY <1>t, <1>5, <1>6 DEF Read, Goto
<1>7. ASSUME NEW w \in Workers, Mark(w) PROVE LockInv'
  BY <1>t, <1>5, <1>7 DEF Mark, Goto
<1>8. ASSUME NEW w \in Workers, NEW t \in Tasks, Advance(w, t) PROVE LockInv'
  BY <1>t, <1>5, <1>8 DEF Advance, Goto
<1>9. ASSUME NEW w \in Workers, NEW t \in Tasks, Reject(w, t) PROVE LockInv'
  BY <1>t, <1>5, <1>9 DEF Reject, Goto
<1>10. ASSUME NEW w \in Workers, Save(w) PROVE LockInv'
  BY <1>t, <1>5, <1>10 DEF Save, Goto
<1>11. ASSUME NEW w \in Workers, Crash(w) PROVE LockInv'
  BY <1>t, <1>5, <1>11 DEF Crash, Goto
<1>12. ASSUME NEW w \in Workers, NEW t \in Tasks, Run(w, t) PROVE LockInv'
  BY <1>1, <1>12 DEF Run
<1>13. CASE Tick
  BY <1>1, <1>13 DEF Tick, worker
<1>14. ASSUME NEW t \in Tasks, NEW on \in BOOLEAN, Switch(t, on) PROVE LockInv'
  BY <1>1, <1>14 DEF Switch, worker
<1>15. CASE UNCHANGED vars
  BY <1>1, <1>15 DEF vars, worker
<1> QED
  BY <1>2, <1>3, <1>4, <1>6, <1>7, <1>8, <1>9, <1>10, <1>11, <1>12, <1>13, <1>14, <1>15
     DEF Next, Round

(* What a round holds stays its own, whatever the other rounds do.         *)
LEMMA WorkNext ==
  ASSUME LocksOutlast, TypeOK, OnceInv, [Next]_vars
  PROVE  WorkInv' /\ OnceAtMostOnce'
<1> DEFINE Goal == WorkInv' /\ OnceAtMostOnce'
<1>t. /\ pc \in [Workers -> {"idle", "read", "mark", "release", "run"}]
      /\ job \in [Workers -> Jobs]
      /\ state \in [Once -> {"NEX", "EXE", "EXP"}]
      /\ todo \in [Workers -> SUBSET Tasks]
      /\ batch \in [Workers -> SUBSET Tasks]
      /\ late \in [Workers -> SUBSET Once]
      /\ ran \in [Tasks -> Seq(Nat)]
      /\ readAt \in [Workers -> [Tasks -> Nat]]
      /\ Once \cap Periodic = {} /\ Once \subseteq Tasks
  BY TaskAssumption DEF TypeOK, Tasks
<1>o. LockInv /\ WorkInv /\ OnceAtMostOnce
  BY DEF OnceInv
<1> HIDE DEF Goal
<1>1. CASE UNCHANGED <<pc, job, state, todo, batch, late, ran>>
  BY <1>1, <1>o DEF Goal, WorkInv, OnceAtMostOnce, Taken
<1>2. ASSUME NEW w \in Workers, NEW j \in Jobs, Start(w, j) PROVE Goal
  <2>1. todo[w] = {} /\ batch[w] = {} /\ late[w] = {}
    BY <1>2, <1>o DEF Start, WorkInv
  <2> QED
    BY <1>t, <1>2, <1>o, <2>1 DEF Goal, WorkInv, OnceAtMostOnce, Taken, Start, Goto, tables
<1>3. ASSUME NEW w \in Workers, Read(w) PROVE Goal
  <2>1. todo[w] = {} /\ batch[w] = {} /\ late[w] = {}
    BY <1>3, <1>o DEF Read, WorkInv
  <2>2. /\ todo' = [todo EXCEPT ![w] = todo'[w]]
        /\ todo'[w] \subseteq TasksOf(job[w])
        /\ \A t \in todo'[w] \cap Once : state[t] = "NEX"
        /\ todo'[w] # {} => pc'[w] = "mark"
        /\ pc' = [pc EXCEPT ![w] = pc'[w]]
        /\ UNCHANGED <<job, state, batch, late, ran>>
    BY <1>t, <1>3, <2>1 DEF Read, FirstDue, Due, TasksOf, Goto, tables
  <2> QED
    BY <1>t, <1>o, <2>1, <2>2 DEF Goal, WorkInv, OnceAtMostOnce, Taken
<1>4. ASSUME NEW w \in Workers, Mark(w) PROVE Goal
  <2>1. todo[w] \subseteq Once /\ late[w] = {} /\ Holds(w, "once") /\ "once" \in Jobs
    BY <1>4, <1>o DEF Mark, WorkInv, TasksOf, Holds, Jobs
  <2>2. \A v \in Workers : v # w => todo[v] \cap Once = {}
    BY <1>t, <1>o, <2>1 DEF WorkInv, LockInv, TasksOf, Holds, Jobs
  <2>3. \A v \in Workers : Taken(v) \cap todo[w] = {}
    BY <1>t, <1>o, <2>1 DEF WorkInv, Taken
  <2>4. \A t \in todo[w] : ran[t] = <<>>
    BY <1>t, <1>o, <2>1 DEF WorkInv, OnceAtMostOnce
  <2>5. CASE UNCHANGED <<state, batch>>
    <3>1. /\ todo' = [todo EXCEPT ![w] = {}]
          /\ pc' = [pc EXCEPT ![w] = "release"]
          /\ UNCHANGED <<job, late, ran>>
      BY <1>4 DEF Mark, Goto
    <3> QED
      BY <1>t, <1>o, <2>1, <2>5, <3>1 DEF Goal, WorkInv, OnceAtMostOnce, Taken
  <2>6. CASE /\ state' = [t \in Once |-> IF t \in todo[w] THEN "EXE" ELSE state[t]]
             /\ batch' = [batch EXCEPT ![w] = todo[w]]
    <3>1. /\ todo' = [todo EXCEPT ![w] = {}]
          /\ pc' = [pc EXCEPT ![w] = "release"]
          /\ UNCHANGED <<job, late, ran>>
      BY <1>4 DEF Mark, Goto
    <3>2. OnceAtMostOnce'
      BY <1>t, <1>o, <2>4, <2>6, <3>1 DEF OnceAtMostOnce
    <3>3. ASSUME NEW v \in Workers, v # w
          PROVE  /\ \A t \in todo'[v] \cap Once : state'[t] = "NEX"
                 /\ \A t \in Taken(v)' \cap Once : state'[t] = "EXE" /\ ran'[t] = <<>>
                 /\ Taken(v)' \cap Taken(w)' \cap Once = {}
      <4>1. Taken(v)' = Taken(v) /\ Taken(w)' = todo[w] /\ todo'[v] = todo[v]
        BY <1>t, <2>1, <2>6, <3>1, <3>3 DEF Taken
      <4> QED
        BY <1>t, <1>o, <2>2, <2>3, <2>6, <3>1, <3>3, <4>1 DEF WorkInv
    <3>4. \A t \in Taken(w)' \cap Once : state'[t] = "EXE" /\ ran'[t] = <<>>
      BY <1>t, <2>1, <2>4, <2>6, <3>1 DEF Taken
    <3> QED
      BY <1>t, <1>o, <2>1, <2>6, <3>1, <3>2, <3>3, <3>4 DEF Goal, WorkInv, Taken
  <2> QED
    BY <1>4, <2>5, <2>6 DEF Mark
(* Steps by which a round only loses tasks, or takes periodic ones.        *)
<1>5. ASSUME NEW w \in Workers, UNCHANGED <<job, state, late, ran>>,
             todo' = [todo EXCEPT ![w] = todo'[w]], todo'[w] \subseteq todo[w],
             batch' = [batch EXCEPT ![w] = batch'[w]],
             batch'[w] \subseteq TasksOf(job[w]), batch'[w] \cap Once \subseteq batch[w],
             batch'[w] \cap late[w] = {},
             pc' = [pc EXCEPT ![w] = pc'[w]],
             todo'[w] # {} => pc'[w] = "mark",
             batch'[w] # {} => pc'[w] \in {"mark", "release", "run"},
             late[w] # {} => pc'[w] = "run"
      PROVE  Goal
  <2>1. \A v \in Workers : Taken(v)' \cap Once \subseteq Taken(v)
    BY <1>t, <1>5 DEF Taken
  <2>2. \A u, v \in Workers : u # v => Taken(u)' \cap Taken(v)' \cap Once = {}
    BY <1>o, <2>1 DEF WorkInv
  <2>3. \A v \in Workers : \A t \in Taken(v)' \cap Once : state'[t] = "EXE" /\ ran'[t] = <<>>
    BY <1>o, <1>5, <2>1 DEF WorkInv
  <2>4. \A v \in Workers :
            /\ todo'[v] \subseteq todo[v]
            /\ v # w => todo'[v] = todo[v] /\ batch'[v] = batch[v] /\ pc'[v] = pc[v]
    BY <1>t, <1>5
  <2>5. \A v \in Workers : \A t \in todo'[v] \cap Once : state'[t] = "NEX"
    <3>1. state' = state
      BY <1>5
    <3>2. \A v \in Workers : \A t \in todo[v] \cap Once : state[t] = "NEX"
      BY <1>o DEF WorkInv
    <3> QED
      BY <2>4, <3>1, <3>2
  <2>6. \A v \in Workers :
            /\ todo'[v] \subseteq TasksOf(job'[v]) /\ batch'[v] \subseteq TasksOf(job'[v])
            /\ todo'[v] # {} => pc'[v] = "mark"
            /\ batch'[v] # {} => pc'[v] \in {"mark", "release", "run"}
            /\ late'[v] # {} => pc'[v] = "run"
            /\ batch'[v] \cap late'[v] = {}
    <3> SUFFICES ASSUME NEW v \in Workers
                 PROVE  /\ todo'[v] \subseteq TasksOf(job[v]) /\ batch'[v] \subseteq TasksOf(job[v])
                        /\ todo'[v] # {} => pc'[v] = "mark"
                        /\ batch'[v] # {} => pc'[v] \in {"mark", "release", "run"}
                        /\ late[v] # {} => pc'[v] = "run"
                        /\ batch'[v] \cap late[v] = {}
      BY <1>5
    <3>1. CASE v = w
      BY <1>o, <1>5, <2>4, <3>1 DEF WorkInv
    <3>2. CASE v # w
      <4>1. todo'[v] = todo[v] /\ batch'[v] = batch[v] /\ pc'[v] = pc[v]
        BY <2>4, <3>2
      <4>2. /\ todo[v] \subseteq TasksOf(job[v]) /\ batch[v] \subseteq TasksOf(job[v])
            /\ todo[v] # {} => pc[v] = "mark"
            /\ batch[v] # {} => pc[v] \in {"mark", "release", "run"}
            /\ late[v] # {} => pc[v] = "run"
            /\ batch[v] \cap late[v] = {}
        BY <1>o DEF WorkInv
      <4> QED
        BY <4>1, <4>2
    <3> QED
      BY <3>1, <3>2
  <2>7. OnceAtMostOnce'
    BY <1>o, <1>5 DEF OnceAtMostOnce
  <2> QED
    BY <2>2, <2>3, <2>5, <2>6, <2>7 DEF Goal, WorkInv
<1>6. ASSUME NEW w \in Workers, NEW t \in Tasks, Advance(w, t) PROVE Goal
  <2>1. late[w] = {} /\ todo[w] \subseteq Periodic /\ t \in Periodic
    BY <1>6, <1>o DEF Advance, WorkInv, TasksOf
  <2>2. /\ batch'[w] \subseteq batch[w] \cup {t} /\ batch' = [batch EXCEPT ![w] = batch'[w]]
        /\ todo'[w] = todo[w] \ {t} /\ todo' = [todo EXCEPT ![w] = todo'[w]]
        /\ pc'[w] = (IF todo[w] = {t} THEN "release" ELSE "mark")
        /\ pc' = [pc EXCEPT ![w] = pc'[w]]
        /\ job[w] = "periodic"
        /\ UNCHANGED <<job, state, late, ran>>
    BY <1>t, <1>6 DEF Advance, Goto
  <2>3. /\ batch'[w] \subseteq TasksOf(job[w]) /\ batch'[w] \cap Once \subseteq batch[w]
        /\ t \in todo[w]
    BY <1>t, <1>o, <1>6, <2>1, <2>2 DEF Advance, WorkInv, TasksOf
  <2> QED
    BY <1>5, <2>1, <2>2, <2>3
<1>7. ASSUME NEW w \in Workers, NEW t \in Tasks, Reject(w, t) PROVE Goal
  <2>1. late[w] = {}
    BY <1>7, <1>o DEF Reject, WorkInv
  <2> QED
    BY <1>t, <1>o, <1>5, <1>7, <2>1 DEF Reject, Goto, tables
<1>8. ASSUME NEW w \in Workers, Release(w) PROVE Goal
  <2>1. late[w] = {} /\ todo[w] = {}
    BY <1>8, <1>o DEF Release, WorkInv
  <2> QED
    <3>1. /\ pc' = [pc EXCEPT ![w] = pc'[w]]
          /\ pc'[w] = (IF batch[w] = {} THEN "idle" ELSE "run")
          /\ UNCHANGED <<job, state, todo, batch, late, ran>>
      BY <1>t, <1>8 DEF Release, Goto, tables
    <3>2. todo' = [todo EXCEPT ![w] = todo'[w]] /\ batch' = [batch EXCEPT ![w] = batch'[w]]
      BY <1>t, <3>1
    <3>3. batch[w] \subseteq TasksOf(job[w])
      BY <1>o DEF WorkInv
    <3> QED
      BY <1>5, <2>1, <3>1, <3>2, <3>3
<1>9. ASSUME NEW w \in Workers, Crash(w) PROVE Goal
  <2>1. /\ todo' = [todo EXCEPT ![w] = {}]
        /\ batch' = [batch EXCEPT ![w] = {}]
        /\ late' = [late EXCEPT ![w] = {}]
        /\ pc' = [pc EXCEPT ![w] = "idle"]
        /\ UNCHANGED <<job, state, ran>>
    BY <1>9 DEF Crash, Goto, tables
  <2> QED
    BY <1>t, <1>o, <2>1 DEF Goal, WorkInv, OnceAtMostOnce, Taken
(* The task goes on with the round as late, or it is done with.            *)
<1>10. ASSUME NEW w \in Workers, NEW t \in Tasks, Run(w, t) PROVE Goal
  <2>1. /\ pc[w] = "run" /\ t \in batch[w] /\ todo[w] = {} /\ t \notin late[w]
        /\ batch' = [batch EXCEPT ![w] = @ \ {t}]
        /\ UNCHANGED <<pc, job, state, todo>>
    BY <1>10, <1>o DEF Run, WorkInv, tables
  <2>2. \A v \in Workers : v # w => t \notin Taken(v) \cap Once
    BY <1>o, <2>1 DEF WorkInv, Taken
  <2>3. CASE ran' = ran /\ late' = late
    BY <1>t, <1>o, <2>1, <2>3 DEF Goal, WorkInv, OnceAtMostOnce, Taken
  <2>4. CASE ran' = ran /\ late' = [late EXCEPT ![w] = IF t \in Once THEN @ \cup {t} ELSE @]
    <3>1. \A v \in Workers : Taken(v)' \subseteq Taken(v)
      BY <1>t, <2>1, <2>4 DEF Taken
    <3>2. \A u, v \in Workers : u # v => Taken(u)' \cap Taken(v)' \cap Once = {}
      BY <1>o, <3>1 DEF WorkInv
    <3>3. \A v \in Workers : \A x \in Taken(v)' \cap Once : state'[x] = "EXE" /\ ran'[x] = <<>>
      BY <1>o, <2>1, <2>4, <3>1 DEF WorkInv
    <3>4. \A v \in Workers : batch'[v] \cap late'[v] = {}
      BY <1>t, <1>o, <2>1, <2>4 DEF WorkInv
    <3> QED
      BY <1>t, <1>o, <2>1, <2>4, <3>2, <3>3, <3>4 DEF Goal, WorkInv, OnceAtMostOnce
  <2>5. CASE ran' = [ran EXCEPT ![t] = Append(@, readAt[w][t])] /\ late' = late
    <3>1. t \in Once => state[t] = "EXE" /\ ran[t] = <<>>
      BY <1>o, <2>1 DEF WorkInv, Taken
    <3>2. t \in Once => Len(ran'[t]) = 1
      BY <1>t, <2>5, <3>1, NoRuns, OneMoreRun
    <3>3. OnceAtMostOnce'
      BY <1>t, <1>o, <2>1, <2>5, <3>1, <3>2 DEF OnceAtMostOnce
    <3>4. \A v \in Workers : Taken(v)' \subseteq Taken(v) /\ t \notin Taken(v)' \cap Once
      BY <1>t, <2>1, <2>2, <2>5 DEF Taken
    <3>5. \A u, v \in Workers : u # v => Taken(u)' \cap Taken(v)' \cap Once = {}
      BY <1>o, <3>4 DEF WorkInv
    <3>6. \A v \in Workers : \A x \in Taken(v)' \cap Once : state'[x] = "EXE" /\ ran'[x] = <<>>
      BY <1>t, <1>o, <2>1, <2>5, <3>4 DEF WorkInv
    <3> QED
      BY <1>t, <1>o, <2>1, <2>5, <3>3, <3>5, <3>6 DEF Goal, WorkInv
  <2> QED
    BY <1>10, <2>3, <2>4, <2>5 DEF Run, NoteLate
(* What is late is marked as expired and has not been run.                 *)
<1>11. ASSUME NEW w \in Workers, Save(w) PROVE Goal
  <2>1. /\ batch[w] = {} /\ todo[w] = {}
        /\ late' = [late EXCEPT ![w] = {}]
        /\ pc' = [pc EXCEPT ![w] = "idle"]
        /\ UNCHANGED <<job, todo, batch, ran>>
    BY <1>11, <1>o DEF Save, Goto, WorkInv
  <2>2. \A t \in Once : state'[t] # state[t] => t \in late[w] /\ state'[t] = "EXP"
    <3>1. \/ state' = [t \in Once |-> IF t \in late[w] THEN "EXP" ELSE state[t]]
          \/ state' = state
      BY <1>11 DEF Save
    <3> QED
      BY <3>1
  <2>3. \A t \in late[w] : state[t] = "EXE" /\ ran[t] = <<>>
    BY <1>t, <1>o DEF WorkInv, Taken
  <2>4. OnceAtMostOnce'
    BY <1>o, <2>1, <2>2, <2>3 DEF OnceAtMostOnce
  <2>5. Taken(w)' = {} /\ \A v \in Workers : v # w => Taken(v)' = Taken(v)
    BY <1>t, <2>1 DEF Taken
  <2>6. \A v \in Workers : \A t \in Taken(v)' \cap Once : state'[t] = "EXE" /\ ran'[t] = <<>>
    <3> SUFFICES ASSUME NEW v \in Workers, NEW t \in Taken(v)' \cap Once
                 PROVE  state'[t] = "EXE" /\ ran'[t] = <<>>
      OBVIOUS
    <3>1. v # w /\ t \in Taken(v) /\ t \notin late[w]
      BY <1>o, <2>5 DEF WorkInv, Taken
    <3> QED
      BY <1>o, <2>1, <2>2, <3>1 DEF WorkInv
  <2>7. \A v \in Workers : \A t \in todo'[v] \cap Once : state'[t] = "NEX"
    BY <1>o, <2>1, <2>2, <2>3 DEF WorkInv
  <2>8. \A u, v \in Workers : u # v => Taken(u)' \cap Taken(v)' \cap Once = {}
    BY <1>o, <2>5 DEF WorkInv
  <2> QED
    BY <1>t, <1>o, <2>1, <2>4, <2>6, <2>7, <2>8 DEF Goal, WorkInv
<1>12. CASE Tick \/ UNCHANGED vars
  BY <1>1, <1>12 DEF Tick, vars, worker, tables
<1>13. ASSUME NEW t \in Tasks, NEW on \in BOOLEAN, Switch(t, on) PROVE Goal
  BY <1>1, <1>13 DEF Goal, Switch, worker
<1>14. ASSUME NEW j \in Jobs, LockExpire(j) PROVE Goal
  BY <1>1, <1>14 DEF Goal, LockExpire, worker, tables
<1> QED
  <2>1. Goal
    BY <1>2, <1>3, <1>4, <1>6, <1>7, <1>8, <1>9, <1>10, <1>11, <1>12, <1>13, <1>14
       DEF Goal, Next, Round
  <2> QED
    BY <2>1 DEF Goal

LEMMA OnceNext ==
  ASSUME LocksOutlast
  PROVE  TypeOK /\ OnceInv /\ [Next]_vars => OnceInv'
  BY LockNext, WorkNext DEF OnceInv

(* As long as no round outlives its lock, overlapping rounds, crashes and  *)
(* failing calls never make a one-time task run twice, or run although the *)
(* table shows it as not executed or as expired.                           *)
THEOREM OnceRunsAtMostOnce ==
  ASSUME LocksOutlast
  PROVE  Spec => []OnceAtMostOnce
<1>1. OnceInv => OnceAtMostOnce
  BY DEF OnceInv
<1> QED
  BY <1>1, OnceInit, OnceNext, TasksTypeCorrect, PTL DEF Spec

-----------------------------------------------------------------------------
(* What the table shows as executed was executed.                          *)

(* Where a round may hold tasks.                                           *)
RoundInv ==
    \A w \in Workers :
        /\ todo[w] \subseteq TasksOf(job[w]) /\ batch[w] \subseteq TasksOf(job[w])
        /\ todo[w] # {} => pc[w] = "mark"
        /\ batch[w] # {} => pc[w] \in {"mark", "release", "run"}
        /\ batch[w] # {} /\ pc[w] = "mark" => job[w] = "periodic"
        /\ late[w] # {} => pc[w] = "run"

LEMMA RoundInit == Init => RoundInv
  BY DEF Init, RoundInv

LEMMA RoundNext ==
  ASSUME TypeOK, RoundInv, [Next]_vars
  PROVE  RoundInv'
<1>t. /\ pc \in [Workers -> {"idle", "read", "mark", "release", "run"}]
      /\ job \in [Workers -> Jobs]
      /\ todo \in [Workers -> SUBSET Tasks]
      /\ batch \in [Workers -> SUBSET Tasks]
      /\ late \in [Workers -> SUBSET Once]
  BY DEF TypeOK
<1>1. CASE UNCHANGED <<pc, job, todo, batch, late>>
  BY <1>1 DEF RoundInv
<1>2. ASSUME NEW w \in Workers, NEW j \in Jobs, Start(w, j) PROVE RoundInv'
  BY <1>t, <1>2 DEF RoundInv, Start, Goto
<1>3. ASSUME NEW w \in Workers, Read(w) PROVE RoundInv'
  <2>1. \A S \in FirstDue(job[w]) : S \subseteq TasksOf(job[w])
    BY DEF FirstDue, Due
  <2>2. todo[w] = {} /\ batch[w] = {} /\ late[w] = {}
    BY <1>3 DEF Read, RoundInv
  <2>3. /\ todo' = [todo EXCEPT ![w] = todo'[w]]
        /\ todo'[w] \subseteq TasksOf(job[w])
        /\ todo'[w] # {} => pc'[w] = "mark"
        /\ pc' = [pc EXCEPT ![w] = pc'[w]]
        /\ UNCHANGED <<job, batch, late>>
    BY <1>t, <1>3, <2>1, <2>2 DEF Read, Goto
  <2> QED
    BY <1>t, <2>2, <2>3 DEF RoundInv
<1>4. ASSUME NEW w \in Workers, Mark(w) PROVE RoundInv'
  <2>1. /\ todo[w] \subseteq TasksOf(job[w]) /\ batch[w] = {} /\ late[w] = {}
    BY <1>4 DEF Mark, RoundInv
  <2> QED
    BY <1>t, <1>4, <2>1 DEF RoundInv, Mark, Goto
<1>5. ASSUME NEW w \in Workers, NEW t \in Tasks, Advance(w, t) PROVE RoundInv'
  <2>1. late[w] = {} /\ job[w] = "periodic" /\ t \in TasksOf(job[w])
    BY <1>5 DEF Advance, RoundInv
  <2>2. /\ batch' = [batch EXCEPT ![w] = IF readAt[w][t] = 0 THEN @ ELSE @ \cup {t}]
        /\ todo' = [todo EXCEPT ![w] = @ \ {t}]
        /\ pc' = [pc EXCEPT ![w] = IF todo[w] = {t} THEN "release" ELSE "mark"]
        /\ t \in todo[w]
        /\ UNCHANGED <<job, late>>
    BY <1>5 DEF Advance, Goto
  <2> QED
    BY <1>t, <2>1, <2>2 DEF RoundInv
<1>6. ASSUME NEW w \in Workers, NEW t \in Tasks, Reject(w, t) PROVE RoundInv'
  BY <1>t, <1>6 DEF RoundInv, Reject, Goto
<1>7. ASSUME NEW w \in Workers, Release(w) PROVE RoundInv'
  BY <1>t, <1>7 DEF RoundInv, Release, Goto
<1>8. ASSUME NEW w \in Workers, NEW t \in Tasks, Run(w, t) PROVE RoundInv'
  <2>1. /\ late' = [late EXCEPT ![w] = late'[w]] /\ pc[w] = "run"
        /\ batch' = [batch EXCEPT ![w] = @ \ {t}]
        /\ UNCHANGED <<pc, job, todo>>
    BY <1>t, <1>8 DEF Run, NoteLate
  <2> QED
    BY <1>t, <2>1 DEF RoundInv
<1>9. ASSUME NEW w \in Workers, Save(w) PROVE RoundInv'
  BY <1>t, <1>9 DEF RoundInv, Save, Goto
<1>10. ASSUME NEW w \in Workers, Crash(w) PROVE RoundInv'
  BY <1>t, <1>10 DEF RoundInv, Crash, Goto
<1>11. CASE Tick \/ UNCHANGED vars
  BY <1>1, <1>11 DEF Tick, vars, worker
<1>12. ASSUME NEW t \in Tasks, NEW on \in BOOLEAN, Switch(t, on) PROVE RoundInv'
  BY <1>1, <1>12 DEF Switch, worker
<1>13. ASSUME NEW j \in Jobs, LockExpire(j) PROVE RoundInv'
  BY <1>1, <1>13 DEF LockExpire, worker
<1> QED
  BY <1>2, <1>3, <1>4, <1>5, <1>6, <1>7, <1>8, <1>9, <1>10, <1>11, <1>12, <1>13 DEF Next, Round

(* Failures and crashes are counted and never forgotten.                   *)
LEMMA CountersGrow ==
  ASSUME TypeOK, [Next]_vars
  PROVE  /\ faults' = 0 => faults = 0
         /\ crashes' = 0 => crashes = 0
<1>t. faults \in Nat /\ crashes \in Nat
  BY TaskAssumption DEF TypeOK
<1>1. faults' = faults \/ Fault
  BY DEF Next, Round, Tick, Switch, LockExpire, Start, Read, Mark, Advance, Reject, Release, Run,
         Save, Crash, vars, bounds
<1>2. crashes' = crashes \/ crashes' = crashes + 1
  BY DEF Next, Round, Tick, Switch, LockExpire, Start, Read, Mark, Advance, Reject, Release, Run,
         Save, Crash, vars, bounds
<1> QED
  BY <1>t, <1>1, <1>2 DEF Fault

Decided(t) == ran[t] # <<>> \/ t \in closed \/ InWork(t)

LEMMA ExecutedNext ==
  ASSUME TypeOK, RoundInv, ExecutedMeansRun, [Next]_vars
  PROVE  ExecutedMeansRun'
<1> SUFFICES ASSUME faults' = 0, crashes' = 0, NEW t \in Once, state'[t] = "EXE"
             PROVE  Decided(t)'
  BY DEF ExecutedMeansRun, Decided
<1>t. /\ job \in [Workers -> Jobs]
      /\ state \in [Once -> {"NEX", "EXE", "EXP"}]
      /\ batch \in [Workers -> SUBSET Tasks]
      /\ late \in [Workers -> SUBSET Once]
      /\ ran \in [Tasks -> Seq(Nat)]
      /\ readAt \in [Workers -> [Tasks -> Nat]]
      /\ faults \in Nat /\ crashes \in Nat
      /\ Once \cap Periodic = {} /\ t \in Tasks
  BY TaskAssumption DEF TypeOK, Tasks
<1>c. faults = 0 /\ crashes = 0 /\ ~Fault
  BY <1>t, CountersGrow DEF Fault
<1>d. state[t] = "EXE" => Decided(t)
  BY <1>c DEF ExecutedMeansRun, Decided
<1>1. CASE UNCHANGED <<state, ran, closed, batch, late>>
  BY <1>1, <1>d DEF Decided, InWork
<1>2. ASSUME NEW w \in Workers, Mark(w) PROVE Decided(t)'
  <2>1. /\ state' = [u \in Once |-> IF u \in todo[w] THEN "EXE" ELSE state[u]]
        /\ batch' = [batch EXCEPT ![w] = todo[w]]
        /\ UNCHANGED <<late, ran, closed>>
    BY <1>2, <1>c DEF Mark
  <2>2. batch[w] = {}
    BY <1>2 DEF Mark, RoundInv
  <2>3. CASE t \in todo[w]
    BY <1>t, <2>1, <2>3 DEF Decided, InWork
  <2>4. CASE t \notin todo[w]
    BY <1>t, <1>d, <2>1, <2>2, <2>4 DEF Decided, InWork
  <2> QED
    BY <2>3, <2>4
<1>3. ASSUME NEW w \in Workers, NEW u \in Tasks, Advance(w, u) PROVE Decided(t)'
  <2>1. /\ UNCHANGED <<state, late, ran, closed>>
        /\ batch' = [batch EXCEPT ![w] = batch'[w]] /\ batch[w] \subseteq batch'[w]
    BY <1>t, <1>3 DEF Advance
  <2> QED
    BY <1>t, <1>d, <2>1 DEF Decided, InWork
<1>4. ASSUME NEW w \in Workers, NEW u \in Tasks, Reject(w, u) PROVE Decided(t)'
  <2>1. t \notin batch[w]
    <3>1. u \in Periodic /\ u \in TasksOf(job[w]) /\ batch[w] \subseteq TasksOf(job[w])
      BY <1>4, TaskAssumption DEF Reject, RoundInv
    <3> QED
      BY <1>t, <3>1 DEF TasksOf
  <2>2. UNCHANGED <<state, late, ran, closed>> /\ batch' = [batch EXCEPT ![w] = {}]
    BY <1>4 DEF Reject, tables
  <2> QED
    BY <1>t, <1>d, <2>1, <2>2 DEF Decided, InWork
<1>5. ASSUME NEW w \in Workers, NEW u \in Tasks, Run(w, u) PROVE Decided(t)'
  <2>1. /\ UNCHANGED state /\ u \in batch[w]
        /\ batch' = [batch EXCEPT ![w] = @ \ {u}]
    BY <1>5 DEF Run, tables
  <2>2. CASE t = u
    <3>1. CASE Expired(w, u) /\ NoteLate(w, u)
      BY <1>t, <2>2, <3>1 DEF Decided, InWork, NoteLate
    <3>2. CASE closed' = closed \cup {u}
      BY <2>2, <3>2 DEF Decided
    <3>3. CASE ran' = [ran EXCEPT ![u] = Append(@, readAt[w][u])]
      <4>1. ran[t] \in Seq(Nat) /\ readAt[w][u] \in Nat /\ ran'[t] = Append(ran[t], readAt[w][u])
        BY <1>t, <2>2, <3>3
      <4>2. Len(ran'[t]) = Len(ran[t]) + 1 /\ Len(ran[t]) \in Nat
        BY <4>1, OneMoreRun
      <4>3. ran'[t] # <<>>
        BY <4>2, NoRuns
      <4> QED
        BY <4>3 DEF Decided
    <3> QED
      BY <1>5, <1>c, <3>1, <3>2, <3>3 DEF Run
  <2>3. CASE t # u
    <3>1. /\ ran'[t] = ran[t] /\ closed \subseteq closed'
          /\ \A v \in Workers : late[v] \subseteq late'[v]
          /\ \A v \in Workers : t \in batch[v] => t \in batch'[v]
      BY <1>t, <1>5, <2>1, <2>3 DEF Run, NoteLate
    <3> QED
      BY <1>d, <2>1, <3>1 DEF Decided, InWork
  <2> QED
    BY <2>2, <2>3
<1>6. ASSUME NEW w \in Workers, Save(w) PROVE Decided(t)'
  <2>1. /\ state' = [u \in Once |-> IF u \in late[w] THEN "EXP" ELSE state[u]]
        /\ late' = [late EXCEPT ![w] = {}]
        /\ UNCHANGED <<batch, ran, closed>>
    BY <1>6, <1>c DEF Save
  <2>2. t \notin late[w] /\ state[t] = "EXE"
    BY <2>1
  <2> QED
    BY <1>t, <1>d, <2>1, <2>2 DEF Decided, InWork
<1>7. ASSUME NEW w \in Workers, Crash(w) PROVE Decided(t)'
  BY <1>7, <1>c DEF Crash
<1>8. ASSUME NEW w \in Workers, Read(w) \/ Release(w) \/ (\E j \in Jobs : Start(w, j)) PROVE Decided(t)'
  BY <1>1, <1>8 DEF Read, Release, Start, tables
<1>9. CASE Tick \/ (\E j \in Jobs : LockExpire(j)) \/ UNCHANGED vars
  BY <1>1, <1>9 DEF Tick, LockExpire, vars, worker, tables
<1>10. ASSUME NEW u \in Tasks, NEW on \in BOOLEAN, Switch(u, on) PROVE Decided(t)'
  BY <1>1, <1>10 DEF Switch, worker
<1> QED
  BY <1>2, <1>3, <1>4, <1>5, <1>6, <1>7, <1>8, <1>9, <1>10 DEF Next, Round

(* Writing off before running forgets nothing: without failures and        *)
(* crashes each one-time task shown as executed was run, or came up while  *)
(* its automation was off, or is still with a round; also when rounds      *)
(* outlive their locks and take the same tasks.                            *)
THEOREM WrittenOffMeansRun == Spec => []ExecutedMeansRun
<1>1. Init => ExecutedMeansRun
  BY DEF Init, ExecutedMeansRun
<1>2. TypeOK /\ RoundInv /\ ExecutedMeansRun /\ [Next]_vars => RoundInv' /\ ExecutedMeansRun'
  BY RoundNext, ExecutedNext
<1> QED
  BY <1>1, <1>2, RoundInit, TasksTypeCorrect, PTL DEF Spec

-----------------------------------------------------------------------------
(* One run of a periodic task for each of its times.                       *)

(* The times a task was run for, or that a round has taken to run it for.  *)
Ran(t) == {ran[t][i] : i \in 1..Len(ran[t])}
Used(t, time) == time \in Ran(t) \/ \E w \in Workers : t \in batch[w] /\ readAt[w][t] = time

(* Used times have passed, and the next time is another one: later, or     *)
(* none.  The round that holds the lock has read the table as it is.       *)
TimesInv ==
    /\ \A t \in Periodic, time \in Nat : Used(t, time) => time <= now /\ (time < due[t] \/ due[t] = 0)
    /\ \A w \in Workers : \A t \in todo[w] \cap Periodic : readAt[w][t] = due[t] /\ due[t] <= now
    /\ \A w \in Workers : \A t \in batch[w] \cap Periodic : readAt[w][t] \notin Ran(t)
    /\ \A v, w \in Workers : \A t \in batch[v] \cap batch[w] \cap Periodic :
          readAt[v][t] = readAt[w][t] => v = w

NoFaultTimes == faults = 0 => TimesInv /\ PeriodicOncePerTime

LEMMA TimesInit == Init => NoFaultTimes
<1> SUFFICES ASSUME Init PROVE TimesInv /\ PeriodicOncePerTime
  BY DEF NoFaultTimes
<1>1. \A t \in Periodic : Len(ran[t]) = 0 /\ Ran(t) = {}
  BY NoRuns DEF Init, Ran, Tasks
<1> QED
  BY <1>1 DEF Init, TimesInv, PeriodicOncePerTime, Used

(* Steps that run nothing, take nothing and change no execution time.      *)
LEMMA TimesKept ==
  ASSUME TypeOK, faults = 0, TimesInv, PeriodicOncePerTime, UNCHANGED <<due, readAt, ran>>,
         now' = now \/ now' = now + 1,
         \A w \in Workers : todo'[w] \subseteq todo[w] /\ batch'[w] \subseteq batch[w]
  PROVE  TimesInv' /\ PeriodicOncePerTime'
<1>1. now \in Nat /\ \A t \in Tasks : due[t] \in Nat
  BY DEF TypeOK
<1>2. \A t \in Periodic : Ran(t)' = Ran(t) /\ t \in Tasks
  BY DEF Ran, Tasks
<1>3. \A t \in Periodic, time \in Nat : Used(t, time)' => Used(t, time)
  BY <1>2 DEF Used
<1>4. \A time \in Nat : time <= now => time <= now'
  BY <1>1
<1>5. PeriodicOncePerTime'
  BY DEF PeriodicOncePerTime
<1>6. \A t \in Periodic, time \in Nat : Used(t, time)' => time <= now' /\ (time < due'[t] \/ due'[t] = 0)
  BY <1>3, <1>4 DEF TimesInv
<1>7. \A w \in Workers : \A t \in todo'[w] \cap Periodic : readAt'[w][t] = due'[t] /\ due'[t] <= now'
  BY <1>1, <1>2, <1>4 DEF TimesInv
<1> QED
  BY <1>2, <1>5, <1>6, <1>7 DEF TimesInv

LEMMA TimesNext ==
  ASSUME LocksOutlast, TypeOK, LockInv, RoundInv, NoFaultTimes, [Next]_vars
  PROVE  NoFaultTimes'
<1> SUFFICES ASSUME faults' = 0 PROVE TimesInv' /\ PeriodicOncePerTime'
  BY DEF NoFaultTimes
<1>t. /\ pc \in [Workers -> {"idle", "read", "mark", "release", "run"}]
      /\ job \in [Workers -> Jobs]
      /\ todo \in [Workers -> SUBSET Tasks]
      /\ batch \in [Workers -> SUBSET Tasks]
      /\ ran \in [Tasks -> Seq(Nat)]
      /\ readAt \in [Workers -> [Tasks -> Nat]]
      /\ due \in [Tasks -> Nat] /\ now \in Nat /\ faults \in Nat
      /\ Once \cap Periodic = {} /\ Periodic \subseteq Tasks
  BY TaskAssumption DEF TypeOK, Tasks
<1>c. faults = 0 /\ ~Fault
  BY <1>t, CountersGrow DEF Fault
<1>i. TimesInv /\ PeriodicOncePerTime
  BY <1>c DEF NoFaultTimes
<1>1. ASSUME UNCHANGED <<due, readAt, ran>>, now' = now \/ now' = now + 1, UNCHANGED <<todo, batch>>
      PROVE  TimesInv' /\ PeriodicOncePerTime'
  BY <1>1, <1>c, <1>i, TimesKept
<1>2. ASSUME NEW w \in Workers, Read(w) PROVE TimesInv' /\ PeriodicOncePerTime'
  <2>1. /\ UNCHANGED <<due, now, ran, batch>>
        /\ readAt' = [readAt EXCEPT ![w] = due]
        /\ todo' = [todo EXCEPT ![w] = todo'[w]]
        /\ \A t \in todo'[w] : due[t] <= now
    BY <1>t, <1>2, <1>c DEF Read, FirstDue, Due, tables
  <2>2. batch[w] = {}
    BY <1>2 DEF Read, RoundInv
  <2>3. /\ \A t : Ran(t)' = Ran(t)
        /\ \A v \in Workers : \A t \in batch[v] : readAt'[v][t] = readAt[v][t]
    BY <1>t, <2>1, <2>2 DEF Ran
  <2>4. \A t \in Periodic, time \in Nat : Used(t, time)' => Used(t, time)
    BY <2>1, <2>3 DEF Used
  <2>5. \A v \in Workers : \A t \in todo'[v] \cap Periodic : readAt'[v][t] = due[t] /\ due[t] <= now
    BY <1>t, <1>i, <2>1 DEF TimesInv
  <2>6. PeriodicOncePerTime'
    BY <1>c, <1>i, <2>1 DEF PeriodicOncePerTime
  <2>7. \A u, v \in Workers : \A t \in batch[u] \cap batch[v] \cap Periodic :
          readAt'[u][t] = readAt'[v][t] => u = v
    BY <1>i, <2>3 DEF TimesInv
  <2>8. \A v \in Workers : \A t \in batch[v] \cap Periodic : readAt'[v][t] \notin Ran(t)
    BY <1>i, <2>3 DEF TimesInv
  <2>9. \A t \in Periodic, time \in Nat : Used(t, time)' => time <= now' /\ (time < due'[t] \/ due'[t] = 0)
    BY <1>i, <2>1, <2>4 DEF TimesInv
  <2> QED
    BY <2>1, <2>3, <2>5, <2>6, <2>7, <2>8, <2>9 DEF TimesInv
<1>3. ASSUME NEW w \in Workers, NEW t \in Tasks, Advance(w, t) PROVE TimesInv' /\ PeriodicOncePerTime'
  <2>1. PICK next \in NextTimes(t) : due' = [due EXCEPT ![t] = next]
    BY <1>3, <1>c DEF Advance
  <2>2. next \in Nat /\ (next > now \/ next = 0)
    BY <1>t DEF NextTimes
  <2>3. /\ batch' = [batch EXCEPT ![w] = IF readAt[w][t] = 0 THEN @ ELSE @ \cup {t}]
        /\ todo' = [todo EXCEPT ![w] = @ \ {t}]
        /\ pc[w] = "mark" /\ job[w] = "periodic" /\ t \in todo[w]
        /\ UNCHANGED <<readAt, ran, now>>
    BY <1>3 DEF Advance
  <2>4. t \in Periodic /\ readAt[w][t] = due[t] /\ due[t] <= now
    BY <1>i, <2>3 DEF RoundInv, TasksOf, TimesInv
(* Nobody else has the task to advance, for nobody else holds the lock.    *)
  <2>5. \A v \in Workers : v # w => t \notin todo[v]
    <3> SUFFICES ASSUME NEW v \in Workers, t \in todo[v] PROVE v = w
      OBVIOUS
    <3>1. pc[v] = "mark" /\ job[v] = "periodic" /\ "periodic" \in Jobs
      BY <1>t, <2>4 DEF RoundInv, TasksOf, Jobs
    <3> QED
      BY <2>3, <3>1 DEF LockInv, Holds
  <2>6. \A u : Ran(u)' = Ran(u)
    BY <2>3 DEF Ran
  <2>7. \A u \in Periodic, time \in Nat : Used(u, time)' =>
           Used(u, time) \/ (u = t /\ time = due[t] /\ due[t] # 0)
    <3> SUFFICES ASSUME NEW u \in Periodic, NEW time \in Nat, Used(u, time)', ~Used(u, time)
                 PROVE  u = t /\ time = due[t] /\ due[t] # 0
      OBVIOUS
    <3>1. PICK v \in Workers : u \in batch'[v] /\ readAt[v][u] = time /\ u \notin batch[v]
      BY <2>3, <2>6 DEF Used
    <3> QED
      BY <1>t, <2>3, <2>4, <3>1
  <2>8. \A u \in Periodic, time \in Nat : Used(u, time)' => time <= now' /\ (time < due'[u] \/ due'[u] = 0)
    <3> SUFFICES ASSUME NEW u \in Periodic, NEW time \in Nat, Used(u, time)'
                 PROVE  time <= now /\ (time < due'[u] \/ due'[u] = 0)
      BY <2>3
    <3>1. time <= now
      BY <1>i, <2>4, <2>7 DEF TimesInv
    <3>2. CASE u = t
      BY <1>t, <2>1, <2>2, <3>1, <3>2
    <3>3. CASE u # t
      BY <1>t, <1>i, <2>1, <2>7, <3>3 DEF TimesInv
    <3> QED
      BY <3>2, <3>3
  <2>9. \A v \in Workers : \A u \in todo'[v] \cap Periodic : readAt'[v][u] = due'[u] /\ due'[u] <= now'
    BY <1>t, <1>i, <2>1, <2>3, <2>5 DEF TimesInv
(* The time it is taken for now is the one in the table, so not a used one.*)
  <2>10. due[t] # 0 => ~Used(t, due[t])
    BY <1>t, <1>i, <2>4 DEF TimesInv
  <2>11. \A v \in Workers : \A u \in batch'[v] \cap Periodic :
            u \in batch[v] \/ (v = w /\ u = t /\ due[t] # 0)
    BY <1>t, <2>3, <2>4
  <2>12. \A v \in Workers : \A u \in batch'[v] \cap Periodic : readAt'[v][u] \notin Ran(u)'
    BY <1>i, <2>3, <2>4, <2>6, <2>10, <2>11 DEF TimesInv, Used
  <2>13. \A u, v \in Workers : \A x \in batch'[u] \cap batch'[v] \cap Periodic :
            readAt'[u][x] = readAt'[v][x] => u = v
    BY <1>i, <2>3, <2>4, <2>10, <2>11 DEF TimesInv, Used
  <2>14. PeriodicOncePerTime'
    BY <1>c, <1>i, <2>3 DEF PeriodicOncePerTime
  <2> QED
    BY <2>8, <2>9, <2>12, <2>13, <2>14 DEF TimesInv
<1>4. ASSUME NEW w \in Workers, NEW t \in Tasks, Run(w, t) PROVE TimesInv' /\ PeriodicOncePerTime'
  <2>1. /\ UNCHANGED <<due, now, readAt, todo>>
        /\ batch' = [batch EXCEPT ![w] = @ \ {t}] /\ t \in batch[w]
    BY <1>4 DEF Run, tables
  <2>2. CASE ran' = ran
    <3>1. \A v \in Workers : todo'[v] \subseteq todo[v] /\ batch'[v] \subseteq batch[v]
      BY <1>t, <2>1
    <3> QED
      BY <1>c, <1>i, <2>1, <2>2, <3>1, TimesKept
  <2>3. CASE ran' = [ran EXCEPT ![t] = Append(@, readAt[w][t])]
    <3>1. ran[t] \in Seq(Nat) /\ readAt[w][t] \in Nat
      BY <1>t
    <3>2. /\ Len(ran'[t]) = Len(ran[t]) + 1 /\ Len(ran[t]) \in Nat
          /\ ran'[t][Len(ran[t]) + 1] = readAt[w][t]
          /\ \A i \in 1..Len(ran[t]) : ran'[t][i] = ran[t][i]
      BY <1>t, <2>3, <3>1
    <3>3. \A i \in 1..Len(ran'[t]) : i \in 1..Len(ran[t]) \/ i = Len(ran[t]) + 1
      BY <3>2
    <3>4. Ran(t)' = Ran(t) \cup {readAt[w][t]}
      BY <3>2, <3>3 DEF Ran
    <3>5. \A u \in Tasks \ {t} : ran'[u] = ran[u] /\ Ran(u)' = Ran(u)
      BY <1>t, <2>3 DEF Ran
    <3>6. PeriodicOncePerTime'
      <4>1. t \in Periodic => readAt[w][t] \notin Ran(t)
        BY <1>i, <2>1 DEF TimesInv
      <4>2. t \in Periodic => \A i, k \in 1..Len(ran'[t]) : ran'[t][i] = ran'[t][k] => i = k
        <5> SUFFICES ASSUME t \in Periodic, NEW i \in 1..Len(ran'[t]), NEW k \in 1..Len(ran'[t]),
                            ran'[t][i] = ran'[t][k]
                     PROVE  i = k
          OBVIOUS
        <5>1. \A l \in 1..Len(ran[t]) : ran'[t][l] # readAt[w][t]
          BY <4>1, <3>2 DEF Ran
        <5>2. CASE i \in 1..Len(ran[t]) /\ k \in 1..Len(ran[t])
          BY <1>c, <1>i, <3>2, <5>2 DEF PeriodicOncePerTime
        <5> QED
          BY <3>2, <3>3, <5>1, <5>2
      <4> QED
        BY <1>t, <1>c, <1>i, <3>5, <4>2 DEF PeriodicOncePerTime
    <3>7. \A u \in Periodic, time \in Nat : Used(u, time)' => Used(u, time)
      <4> SUFFICES ASSUME NEW u \in Periodic, NEW time \in Nat, Used(u, time)' PROVE Used(u, time)
        OBVIOUS
      <4>1. \A v \in Workers : batch'[v] \subseteq batch[v]
        BY <1>t, <2>1
      <4>2. CASE time \in Ran(u)'
        BY <1>t, <2>1, <3>4, <3>5, <4>2 DEF Used
      <4> QED
        BY <2>1, <4>1, <4>2 DEF Used
    <3>8. \A v \in Workers : \A u \in batch'[v] \cap Periodic : readAt'[v][u] \notin Ran(u)'
      <4> SUFFICES ASSUME NEW v \in Workers, NEW u \in batch'[v] \cap Periodic
                   PROVE  readAt[v][u] \notin Ran(u)'
        BY <2>1
      <4>1. u \in batch[v] /\ readAt[v][u] \notin Ran(u) /\ u \in Tasks
        BY <1>t, <1>i, <2>1 DEF TimesInv
      <4>2. CASE u = t
        <5>1. v # w
          BY <1>t, <2>1, <4>2
        <5>2. readAt[v][t] # readAt[w][t]
          BY <1>i, <2>1, <4>1, <4>2, <5>1 DEF TimesInv
        <5> QED
          BY <3>4, <4>1, <4>2, <5>2
      <4> QED
        BY <3>5, <4>1, <4>2
    <3>9. \A u, v \in Workers : \A x \in batch'[u] \cap batch'[v] \cap Periodic :
             readAt'[u][x] = readAt'[v][x] => u = v
      BY <1>t, <1>i, <2>1 DEF TimesInv
    <3>10. \A u \in Periodic, time \in Nat : Used(u, time)' => time <= now' /\ (time < due'[u] \/ due'[u] = 0)
      BY <1>i, <2>1, <3>7 DEF TimesInv
    <3>11. \A v \in Workers : \A u \in todo'[v] \cap Periodic : readAt'[v][u] = due'[u] /\ due'[u] <= now'
      BY <1>i, <2>1 DEF TimesInv
    <3> QED
      BY <3>6, <3>8, <3>9, <3>10, <3>11 DEF TimesInv
  <2> QED
    BY <1>4, <2>2, <2>3 DEF Run
<1>5. ASSUME NEW w \in Workers, Mark(w) PROVE TimesInv' /\ PeriodicOncePerTime'
  <2>1. todo[w] \subseteq Once
    BY <1>5 DEF Mark, RoundInv, TasksOf
  <2>2. /\ UNCHANGED <<due, now, readAt, ran>>
        /\ todo' = [todo EXCEPT ![w] = {}]
        /\ batch' = [batch EXCEPT ![w] = todo[w]]
    BY <1>5, <1>c DEF Mark
  <2>3. \A v \in Workers : todo'[v] \subseteq todo[v] /\ batch'[v] \cap Periodic \subseteq batch[v]
    BY <1>t, <2>1, <2>2
  <2>4. \A u : Ran(u)' = Ran(u)
    BY <2>2 DEF Ran
  <2>5. \A u \in Periodic, time \in Nat : Used(u, time)' => Used(u, time)
    BY <2>2, <2>3, <2>4 DEF Used
  <2>6. PeriodicOncePerTime'
    BY <1>c, <1>i, <2>2 DEF PeriodicOncePerTime
  <2>7. /\ \A u \in Periodic, time \in Nat : Used(u, time)' => time <= now' /\ (time < due'[u] \/ due'[u] = 0)
        /\ \A v \in Workers : \A u \in todo'[v] \cap Periodic : readAt'[v][u] = due'[u] /\ due'[u] <= now'
    BY <1>i, <2>2, <2>3, <2>5 DEF TimesInv
  <2>8. /\ \A v \in Workers : \A u \in batch'[v] \cap Periodic : readAt'[v][u] \notin Ran(u)'
        /\ \A u, v \in Workers : \A x \in batch'[u] \cap batch'[v] \cap Periodic :
              readAt'[u][x] = readAt'[v][x] => u = v
    BY <1>i, <2>2, <2>3, <2>4 DEF TimesInv
  <2> QED
    BY <2>6, <2>7, <2>8 DEF TimesInv
<1>6. ASSUME NEW w \in Workers, (\E t \in Tasks : Reject(w, t)) \/ Crash(w)
      PROVE  TimesInv' /\ PeriodicOncePerTime'
  <2>1. /\ UNCHANGED <<due, now, readAt, ran>>
        /\ todo' = [todo EXCEPT ![w] = {}]
        /\ batch' = [batch EXCEPT ![w] = {}]
    BY <1>6 DEF Reject, Crash, tables
  <2>2. \A v \in Workers : todo'[v] \subseteq todo[v] /\ batch'[v] \subseteq batch[v]
    BY <1>t, <2>1
  <2> QED
    BY <1>c, <1>i, <2>1, <2>2, TimesKept
<1>7. ASSUME NEW w \in Workers, Release(w) \/ Save(w) \/ (\E j \in Jobs : Start(w, j))
      PROVE  TimesInv' /\ PeriodicOncePerTime'
  BY <1>1, <1>7 DEF Release, Save, Start, tables
<1>8. CASE Tick \/ (\E j \in Jobs : LockExpire(j)) \/ UNCHANGED vars
  BY <1>1, <1>8 DEF Tick, LockExpire, vars, worker, tables
<1>9. ASSUME NEW t \in Tasks, NEW on \in BOOLEAN, Switch(t, on) PROVE TimesInv' /\ PeriodicOncePerTime'
  BY <1>1, <1>9 DEF Switch, worker
<1> QED
  BY <1>2, <1>3, <1>4, <1>5, <1>6, <1>7, <1>8, <1>9 DEF Next, Round

(* As long as no round outlives its lock and no update of a task fails, no *)
(* execution time of a periodic task is served twice: rounds that overlap  *)
(* after the unlock, crashes and switched automations included.            *)
THEOREM PeriodicRunsOncePerTime ==
  ASSUME LocksOutlast
  PROVE  Spec => []PeriodicOncePerTime
<1>1. Init => LockInv
  BY DEF Init, LockInv, Holds
<1>2. TypeOK /\ LockInv /\ RoundInv /\ NoFaultTimes /\ [Next]_vars
         => LockInv' /\ RoundInv' /\ NoFaultTimes'
  BY LockNext, RoundNext, TimesNext
<1>3. NoFaultTimes => PeriodicOncePerTime
  BY DEF NoFaultTimes, PeriodicOncePerTime
<1> QED
  BY <1>1, <1>2, <1>3, RoundInit, TimesInit, TasksTypeCorrect, PTL DEF Spec
==============================================================================
