---------------------------- MODULE TaskScheduler ----------------------------
(***************************************************************************)
(* The timed triggers of scene automations: one-time and periodic tasks.   *)
(*                                                                         *)
(* Every five seconds cron starts a round of each job in each server, in a *)
(* goroutine of its own, so rounds overlap.  A round takes the lock of its *)
(* job in Redis (SETNX with a TTL of five seconds), reads the tasks that   *)
(* are due, writes them off (a one-time task becomes EXE, a periodic one   *)
(* gets its next time), deletes the lock and only then runs the tasks.     *)
(*                                                                         *)
(* A worker stands for such a goroutine; time is counted in ticks.         *)
(***************************************************************************)
EXTENDS Naturals, Sequences, FiniteSets

CONSTANTS
    Once,        \* one-time tasks
    Periodic,    \* periodic tasks
    Bad,         \* periodic tasks whose parameter GetSceneExecuteTime rejects
    Dateless,    \* periodic tasks whose parameter never comes up, "|08:00:00+08:00"
    Plans,       \* the execution times the tasks may be created with; 0: none
    Keep,        \* expiration_time of each task, 0: it does not expire
    Workers,     \* goroutines of cron rounds that may be busy at once
    Limit,       \* once_task_limit, periodic_task_limit
    Cycle,       \* the longest time between two runs of a periodic task
    MayExpire,   \* a round may hold its lock for longer than the TTL
    MaxTime,     \* bound: the clock
    MaxSwitches, \* bound: automations switched on or off
    MaxFaults,   \* bound: database and Redis calls that fail
    MaxCrashes   \* bound: rounds that are cut off by a crash

Tasks == Once \cup Periodic
Jobs  == {"once", "periodic"}

ASSUME TaskAssumption ==
    /\ Once \cap Periodic = {}
    /\ Bad \cup Dateless \subseteq Periodic
    /\ Plans \subseteq [Tasks -> Nat]
    /\ Keep \in [Tasks -> Nat]
    /\ Limit \in Nat \ {0}
    /\ Cycle \in Nat \ {0}
    /\ MayExpire \in BOOLEAN
    /\ {MaxTime, MaxSwitches, MaxFaults, MaxCrashes} \subseteq Nat

VARIABLES
    now,       \* time.Now()
    due,       \* execution_time of each task
    enabled,   \* tasks with enabled = Y
    open,      \* tasks whose automation has enabled = Y
    state,     \* executing_state of the one-time tasks
    lock,      \* does the Redis key of the job exist
    pc,        \* where each worker is
    job,       \* the job of each worker
    readAt,    \* execution_time as the worker read it
    todo,      \* tasks the worker has read and not written off yet
    batch,     \* tasks the worker has still to run
    late,      \* one-time tasks the worker found expired
    switches, faults, crashes,   \* counters of the bounds
    ran,       \* the execution times each task was run for
    closed     \* tasks that came up while their automation was off

worker == <<pc, job, readAt, todo, batch, late>>
tables == <<due, enabled, open, state>>
bounds == <<switches, faults, crashes>>
vars   == <<now, tables, lock, worker, bounds, ran, closed>>

TasksOf(j) == IF j = "once" THEN Once ELSE Periodic

Init ==
    /\ now = 1
    /\ due \in Plans
    /\ open \in SUBSET Tasks
    /\ enabled = open \cup Periodic
    /\ state = [t \in Once |-> "NEX"]
    /\ lock = [j \in Jobs |-> FALSE]
    /\ pc = [w \in Workers |-> "idle"]
    /\ job = [w \in Workers |-> "once"]
    /\ readAt = [w \in Workers |-> due]
    /\ todo = [w \in Workers |-> {}]
    /\ batch = [w \in Workers |-> {}]
    /\ late = [w \in Workers |-> {}]
    /\ switches = 0 /\ faults = 0 /\ crashes = 0
    /\ ran = [t \in Tasks |-> <<>>]
    /\ closed = {}

Goto(w, place) == pc' = [pc EXCEPT ![w] = place]

Fault == faults < MaxFaults /\ faults' = faults + 1

-----------------------------------------------------------------------------

Tick ==
    /\ now < MaxTime
    /\ now' = now + 1
    /\ UNCHANGED <<tables, lock, worker, bounds, ran, closed>>

(* SwitchSceneAutomation: automation and tasks in one transaction.         *)
Switch(t, on) ==
    /\ switches < MaxSwitches
    /\ switches' = switches + 1
    /\ open' = IF on THEN open \cup {t} ELSE open \ {t}
    /\ enabled' = IF on THEN enabled \cup {t} ELSE enabled \ {t}
    /\ UNCHANGED <<now, due, state, lock, worker, faults, crashes, ran, closed>>

-----------------------------------------------------------------------------
(* One round.                                                              *)

Holds(w, j) == pc[w] \in {"read", "mark", "release"} /\ job[w] = j

(* Mutant: the lock is set whether or not it exists.                       *)
StartAnyway(w, j) ==
    /\ pc[w] = "idle"
    /\ lock' = [lock EXCEPT ![j] = TRUE]
    /\ job' = [job EXCEPT ![w] = j]
    /\ Goto(w, "read")
    /\ UNCHANGED <<now, tables, readAt, todo, batch, late, bounds, ran, closed>>

(* AcquireLock; a round that does not get the lock ends.                   *)
Start(w, j) ==
    /\ pc[w] = "idle"
    /\ ~lock[j]
    /\ lock' = [lock EXCEPT ![j] = TRUE]
    /\ job' = [job EXCEPT ![w] = j]
    /\ Goto(w, "read")
    /\ UNCHANGED <<now, tables, readAt, todo, batch, late, bounds, ran, closed>>

(* Mutant: a lock without a TTL.                                           *)
LockStays(j) == FALSE /\ UNCHANGED vars

(* The TTL; a lock that a crash left behind ends here.                     *)
LockExpire(j) ==
    /\ lock[j]
    /\ MayExpire \/ ~\E w \in Workers : Holds(w, j)
    /\ lock' = [lock EXCEPT ![j] = FALSE]
    /\ UNCHANGED <<now, tables, worker, bounds, ran, closed>>

Due(j) ==
    {t \in TasksOf(j) \cap enabled : due[t] <= now /\ (j = "once" => state[t] = "NEX")}

(* ORDER BY execution_time LIMIT: nothing left out is older.               *)
FirstDue(j) ==
    {S \in SUBSET Due(j) :
        /\ Cardinality(S) <= Limit
        /\ S # Due(j) => Cardinality(S) = Limit
        /\ \A t \in S, u \in Due(j) \ S : due[t] <= due[u]}

Read(w) ==
    /\ pc[w] = "read"
    /\ readAt' = [readAt EXCEPT ![w] = due]
    /\ \/ \E S \in FirstDue(job[w]) :
             /\ todo' = [todo EXCEPT ![w] = S]
             /\ Goto(w, IF S = {} THEN "release" ELSE "mark")
             /\ UNCHANGED faults
       \/ Fault /\ Goto(w, "release") /\ UNCHANGED todo
    /\ UNCHANGED <<now, tables, lock, job, batch, late, switches, crashes, ran, closed>>

(* Mutant: the UPDATE repeats the condition instead of naming the ids.     *)
MarkAllDue(w) ==
    /\ pc[w] = "mark"
    /\ job[w] = "once"
    /\ todo' = [todo EXCEPT ![w] = {}]
    /\ state' = [t \in Once |-> IF t \in Due("once") THEN "EXE" ELSE state[t]]
    /\ batch' = [batch EXCEPT ![w] = todo[w]]
    /\ Goto(w, "release")
    /\ UNCHANGED <<now, due, enabled, open, lock, job, readAt, late, bounds, ran, closed>>

(* One UPDATE writes all the one-time tasks off.                           *)
Mark(w) ==
    /\ pc[w] = "mark"
    /\ job[w] = "once"
    /\ todo' = [todo EXCEPT ![w] = {}]
    /\ \/ /\ state' = [t \in Once |-> IF t \in todo[w] THEN "EXE" ELSE state[t]]
          /\ batch' = [batch EXCEPT ![w] = todo[w]]
          /\ UNCHANGED faults
       \/ Fault /\ UNCHANGED <<state, batch>>
    /\ Goto(w, "release")
    /\ UNCHANGED <<now, due, enabled, open, lock, job, readAt, late, switches, crashes, ran, closed>>

(* Mutant: the next time may be this very moment.                          *)
NextTimesFromNow(t) == {now + d : d \in 0..Cycle}

(* GetSceneExecuteTime: the next time after now, or the zero time.         *)
NextTimes(t) == IF t \in Dateless THEN {0} ELSE {now + d : d \in 1..Cycle}

(* Mutant: what has no execution time yet is passed over.                  *)
AdvanceIfSet(w, t) ==
    /\ pc[w] = "mark"
    /\ job[w] = "periodic"
    /\ t \in todo[w] \ Bad
    /\ \A u \in todo[w] : readAt[w][t] <= readAt[w][u]
    /\ IF readAt[w][t] = 0
         THEN UNCHANGED <<due, batch>>
         ELSE /\ \E time \in NextTimes(t) : due' = [due EXCEPT ![t] = time]
              /\ batch' = [batch EXCEPT ![w] = @ \cup {t}]
    /\ todo' = [todo EXCEPT ![w] = @ \ {t}]
    /\ Goto(w, IF todo[w] = {t} THEN "release" ELSE "mark")
    /\ UNCHANGED <<now, enabled, open, state, lock, job, readAt, late, bounds, ran, closed>>

(* The periodic tasks get their next times one by one, oldest first; what  *)
(* has no execution time yet is not run.  A failing update is not noticed. *)
Advance(w, t) ==
    /\ pc[w] = "mark"
    /\ job[w] = "periodic"
    /\ t \in todo[w] \ Bad
    /\ \A u \in todo[w] : readAt[w][t] <= readAt[w][u]
    /\ \/ \E time \in NextTimes(t) : due' = [due EXCEPT ![t] = time] /\ UNCHANGED faults
       \/ Fault /\ UNCHANGED due
    /\ batch' = [batch EXCEPT ![w] = IF readAt[w][t] = 0 THEN @ ELSE @ \cup {t}]
    /\ todo' = [todo EXCEPT ![w] = @ \ {t}]
    /\ Goto(w, IF todo[w] = {t} THEN "release" ELSE "mark")
    /\ UNCHANGED <<now, enabled, open, state, lock, job, readAt, late, switches, crashes, ran, closed>>

(* The first parameter that is rejected ends the round: nothing is run, not *)
(* even what already has its next time.                                    *)
Reject(w, t) ==
    /\ pc[w] = "mark"
    /\ t \in todo[w] \cap Bad
    /\ \A u \in todo[w] : readAt[w][t] <= readAt[w][u]
    /\ batch' = [batch EXCEPT ![w] = {}]
    /\ todo' = [todo EXCEPT ![w] = {}]
    /\ Goto(w, "release")
    /\ UNCHANGED <<now, tables, lock, job, readAt, late, bounds, ran, closed>>

(* ReleaseLock deletes the key, whoever it belongs to.                     *)
Release(w) ==
    /\ pc[w] = "release"
    /\ \/ lock' = [lock EXCEPT ![job[w]] = FALSE] /\ UNCHANGED faults
       \/ Fault /\ UNCHANGED lock
    /\ Goto(w, IF batch[w] = {} THEN "idle" ELSE "run")
    /\ UNCHANGED <<now, tables, job, readAt, todo, batch, late, switches, crashes, ran, closed>>

Expired(w, t) == Keep[t] > 0 /\ readAt[w][t] + Keep[t] < now

(* Mutant: periodic tasks that come late are noted as well.                *)
NoteAnyLate(w, t) == late' = [late EXCEPT ![w] = @ \cup {t}]

(* Only one-time tasks are marked as expired.                              *)
NoteLate(w, t) == late' = [late EXCEPT ![w] = IF t \in Once THEN @ \cup {t} ELSE @]

(* TaskAutomationExecute: the actions of the automation, unless it is off; *)
(* one that cannot be looked up is taken to be on.                         *)
Run(w, t) ==
    /\ pc[w] = "run"
    /\ t \in batch[w]
    /\ batch' = [batch EXCEPT ![w] = @ \ {t}]
    /\ \/ /\ Expired(w, t)
          /\ NoteLate(w, t)
          /\ UNCHANGED <<faults, ran, closed>>
       \/ /\ ~Expired(w, t) /\ t \notin open
          /\ closed' = closed \cup {t}
          /\ UNCHANGED <<late, faults, ran>>
       \/ /\ ~Expired(w, t)
          /\ \/ t \in open /\ UNCHANGED faults
             \/ t \notin open /\ Fault
          /\ ran' = [ran EXCEPT ![t] = Append(@, readAt[w][t])]
          /\ UNCHANGED <<late, closed>>
       \/ ~Expired(w, t) /\ Fault /\ UNCHANGED <<late, ran, closed>>
    /\ UNCHANGED <<now, tables, lock, pc, job, readAt, todo, switches, crashes>>

(* TaskExpirationSave, at the end of a round of the one-time job.          *)
Save(w) ==
    /\ pc[w] = "run"
    /\ batch[w] = {}
    /\ \/ state' = [t \in Once |-> IF t \in late[w] THEN "EXP" ELSE state[t]] /\ UNCHANGED faults
       \/ late[w] # {} /\ Fault /\ UNCHANGED state
    /\ late' = [late EXCEPT ![w] = {}]
    /\ Goto(w, "idle")
    /\ UNCHANGED <<now, due, enabled, open, lock, job, readAt, todo, batch, switches, crashes, ran, closed>>

(* The server of this round goes down; its lock stays until the TTL.       *)
Crash(w) ==
    /\ crashes < MaxCrashes
    /\ pc[w] # "idle"
    /\ crashes' = crashes + 1
    /\ todo' = [todo EXCEPT ![w] = {}]
    /\ batch' = [batch EXCEPT ![w] = {}]
    /\ late' = [late EXCEPT ![w] = {}]
    /\ Goto(w, "idle")
    /\ UNCHANGED <<now, tables, lock, job, readAt, switches, faults, ran, closed>>

-----------------------------------------------------------------------------

Round(w) ==
    \/ Read(w) \/ Mark(w) \/ Release(w) \/ Save(w)
    \/ \E t \in Tasks : Advance(w, t) \/ Reject(w, t) \/ Run(w, t)

Next ==
    \/ Tick
    \/ \E t \in Tasks, on \in BOOLEAN : Switch(t, on)
    \/ \E j \in Jobs : LockExpire(j)
    \/ \E w \in Workers :
          \/ \E j \in Jobs : Start(w, j)
          \/ Round(w)
          \/ Crash(w)

Spec == Init /\ [][Next]_vars

(* Time passes, rounds that have begun go on and abandoned locks expire.   *)
(* Cron starts rounds for ever, so one of them meets a free lock whenever  *)
(* the lock keeps becoming free.                                           *)
FairSpec ==
    /\ Spec
    /\ WF_vars(Tick)
    /\ \A w \in Workers : WF_vars(Round(w))
    /\ \A j \in Jobs :
          /\ WF_vars(LockExpire(j))
          /\ SF_vars(\E w \in Workers : Start(w, j))

-----------------------------------------------------------------------------
(* Properties.                                                             *)

(* Every variable holds a value of its kind.                               *)
TypeOK ==
    /\ now \in Nat
    /\ due \in [Tasks -> Nat]
    /\ enabled \subseteq Tasks /\ open \subseteq Tasks /\ closed \subseteq Tasks
    /\ state \in [Once -> {"NEX", "EXE", "EXP"}]
    /\ lock \in [Jobs -> BOOLEAN]
    /\ pc \in [Workers -> {"idle", "read", "mark", "release", "run"}]
    /\ job \in [Workers -> Jobs]
    /\ readAt \in [Workers -> [Tasks -> Nat]]
    /\ todo \in [Workers -> SUBSET Tasks]
    /\ batch \in [Workers -> SUBSET Tasks]
    /\ late \in [Workers -> SUBSET Once]
    /\ switches \in 0..MaxSwitches /\ faults \in 0..MaxFaults /\ crashes \in 0..MaxCrashes
    /\ ran \in [Tasks -> Seq(Nat)]

(* A one-time task is run at most once, and never one that the table shows *)
(* as not executed or as expired: whatever rounds overlap, calls fail or   *)
(* servers crash, as long as no round outlives its lock.                   *)
OnceAtMostOnce ==
    \A t \in Once :
        /\ Len(ran[t]) <= 1
        /\ state[t] \in {"NEX", "EXP"} => ran[t] = <<>>

InWork(t) == \E w \in Workers : t \in batch[w] \cup late[w]

(* Without failures and crashes a one-time task that the table shows as    *)
(* executed was run, or came up while its automation was off, or is with a *)
(* round that still has to run it.                                         *)
ExecutedMeansRun ==
    faults = 0 /\ crashes = 0 =>
        \A t \in Once : state[t] = "EXE" => ran[t] # <<>> \/ t \in closed \/ InWork(t)

(* Without failing updates no execution time of a periodic task is served  *)
(* twice, although its round runs it after the lock is free again.         *)
PeriodicOncePerTime ==
    faults = 0 =>
        \A t \in Periodic : \A i, k \in 1..Len(ran[t]) : ran[t][i] = ran[t][k] => i = k

(* A one-time task that is due and enabled does not stay unexecuted, with  *)
(* any number of later tasks and with bounded failures and crashes.        *)
DueIsTaken ==
    \A t \in Once :
        (due[t] <= now /\ t \in enabled) ~> (state[t] # "NEX" \/ t \notin enabled)

(* A periodic task that is due, and whose parameter has a next time, gets   *)
(* it, so it is run again and again.                                       *)
PeriodicGoesOn ==
    \A t \in Periodic \ (Bad \cup Dateless), time \in 0..MaxTime :
        (due[t] = time /\ time <= now /\ t \in enabled) ~> (due[t] # time \/ t \notin enabled)
=============================================================================
