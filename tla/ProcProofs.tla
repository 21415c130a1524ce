----------------------------- MODULE ProcProofs -----------------------------
(***************************************************************************)
(* Proofs about Proc, for every size of the task and process tables.       *)
(*                                                                         *)
(* An operation changes the task table first and yields afterwards, so the *)
(* invariants are restated over an arbitrary task table ts and process     *)
(* table pp: an action is shown to establish them for the table it yields  *)
(* with, and yield to keep them (YieldKeeps).  The second part is about the*)
(* scheduler's ring, which stays one cycle through the slots in use, so    *)
(* that yield always finds a task to run.                                  *)
(***************************************************************************)
EXTENDS Proc, WellFoundedInduction, TLAPS

Runnable == {"READY", "RUNNING"}

LiveIn(pp, s) == pp[s].pid # 0 /\ ~pp[s].is_zombie

(* main has no process, never waits and is always runnable. *)
MainOK(ts) == ts[Main].proc = NULL /\ ts[Main].kctx = 0 /\ ts[Main].state \in Runnable

TaskLinked(ts, pp) ==
    \A t \in TaskIds \ {Main} : ts[t].state \notin Gone =>
        ts[t].proc \in Slots /\ LiveIn(pp, ts[t].proc) /\ pp[ts[t].proc].task = t

ProcessLinked(ts, pp) ==
    \A s \in Slots : LiveIn(pp, s) /\ pp[s].task # NULL =>
        /\ pp[s].task # Main
        /\ ts[pp[s].task].proc = s
        /\ ts[pp[s].task].state \notin Gone

StopAgrees(ts, pp) ==
    \A s \in Slots : LiveIn(pp, s) /\ pp[s].task # NULL =>
        (pp[s].is_stopped <=> ts[pp[s].task].state = "STOPPED")

KidOf(pp, c, s, target) ==
    /\ pp[c].pid # 0
    /\ pp[c].parent_pid = pp[s].pid
    /\ target = ANY \/ pp[c].pid = target

HasNews(pp, c) == pp[c].is_zombie \/ (pp[c].is_stopped /\ ~pp[c].stop_reported)

SleepsWell(ts, pp) ==
    \A t \in TaskIds : ts[t].state = "BLOCKED" =>
        /\ ts[t].kctx # 0
        /\ ts[t].wait_chan = ts[t].proc
        /\ \E c \in Slots : KidOf(pp, c, ts[t].proc, ts[t].kctx)
        /\ \A c \in Slots : KidOf(pp, c, ts[t].proc, ts[t].kctx) => ~HasNews(pp, c)

Core(ts, pp) ==
    /\ MainOK(ts)
    /\ TaskLinked(ts, pp)
    /\ ProcessLinked(ts, pp)
    /\ StopAgrees(ts, pp)
    /\ SleepsWell(ts, pp)

Used(ts, n) == \A t \in TaskIds : ts[t].state = "UNUSED" <=> t > n

(* The inductive invariant. *)
IInv ==
    /\ TypeOK
    /\ PidsUnique
    /\ OneRunning
    /\ Used(tasks, task_count)
    /\ Core(tasks, process_pool)

-----------------------------------------------------------------------------
(* The restated invariants are those of Proc. *)
LEMMA CoreImplies ==
  ASSUME TypeOK, Core(tasks, process_pool)
  PROVE  LiveLinkage /\ StoppedIsParked /\ NoLostWakeup
<1>1. LiveLinkage
  BY DEF Core, TaskLinked, ProcessLinked, LiveLinkage, LiveIn, Live, Slots, NULL
<1>2. StoppedIsParked
  BY Zenon DEF Core, StopAgrees, StoppedIsParked, LiveIn, Live
<1>3. NoLostWakeup
  BY Zenon DEF Core, SleepsWell, NoLostWakeup, ChildrenOf, KidOf, HasNews, Reportable
<1> QED BY <1>1, <1>2, <1>3, Zenon

(* What yield may change of a task table. *)
SameButRunning(ts, ts2) ==
    \A t \in TaskIds :
        /\ ts2[t].wait_chan = ts[t].wait_chan
        /\ ts2[t].proc = ts[t].proc
        /\ ts2[t].kctx = ts[t].kctx
        /\ ts[t].state \in Runnable => ts2[t].state \in Runnable
        /\ ts[t].state \notin Runnable => ts2[t].state = ts[t].state

(* Who of the runnable tasks is RUNNING does not matter to Core. *)
LEMMA CoreUnderYield ==
  ASSUME NEW ts, NEW ts2, NEW pp \in [Slots -> Process],
         SameButRunning(ts, ts2), Core(ts, pp)
  PROVE  Core(ts2, pp)
<1> USE ProcAssumption
<1>0. Main \in TaskIds /\ \A s \in Slots : pp[s].task \in TaskIds \cup {NULL}
  BY DEF Main, TaskIds, Process
<1>1. MainOK(ts2)
  BY <1>0, Zenon DEF Core, MainOK, SameButRunning, Runnable
<1>2. TaskLinked(ts2, pp)
  BY Zenon DEF Core, TaskLinked, SameButRunning, Runnable, Gone
<1>3. ProcessLinked(ts2, pp)
  BY <1>0, ZenonT(60) DEF Core, ProcessLinked, SameButRunning, Runnable, Gone
<1>4. StopAgrees(ts2, pp)
  BY <1>0 DEF Core, StopAgrees, SameButRunning, Runnable
<1>5. SleepsWell(ts2, pp)
  BY Zenon DEF Core, SleepsWell, SameButRunning, Runnable
<1> QED BY <1>1, <1>2, <1>3, <1>4, <1>5, Zenon DEF Core

(* Nor to which slots are used. *)
LEMMA UsedUnderYield ==
  ASSUME NEW ts, NEW ts2, NEW n, SameButRunning(ts, ts2), Used(ts, n)
  PROVE  Used(ts2, n)
  BY Zenon DEF Used, SameButRunning, Runnable

(* yield changes only who is RUNNING, and leaves exactly one such task. *)
LEMMA YieldKeeps ==
  ASSUME NEW ts \in [TaskIds -> Task], current_task \in TaskIds, panic \in Halts,
         \A t \in TaskIds : ts[t].state = "RUNNING" => t = current_task,
         yield(ts)
  PROVE  /\ tasks' \in [TaskIds -> Task]
         /\ current_task' \in TaskIds
         /\ panic' \in Halts
         /\ SameButRunning(ts, tasks')
         /\ OneRunning'
<1> DEFINE before == Preempted(ts)
<1>1. /\ before \in [TaskIds -> Task]
      /\ SameButRunning(ts, before)
      /\ \A t \in TaskIds : before[t].state # "RUNNING"
  BY DEF Preempted, Task, States, SameButRunning, Runnable
<1> HIDE DEF before
<1>2. ASSUME NEW t \in TaskIds, before[t].state = "READY"
      PROVE  LET new == [before EXCEPT ![t].state = "RUNNING"]
             IN  /\ new \in [TaskIds -> Task]
                 /\ SameButRunning(ts, new)
                 /\ \A u \in TaskIds : new[u].state = "RUNNING" <=> u = t
  BY <1>1, <1>2 DEF Task, States, SameButRunning, Runnable
<1>3. ASSUME NEW t \in TaskIds, pick_next_ready(before, current_task, t),
             tasks' = [before EXCEPT ![t].state = "RUNNING"],
             current_task' = t,
             panic' = IF before[t].stack THEN panic ELSE "bad_stack"
      PROVE  /\ tasks' \in [TaskIds -> Task] /\ current_task' \in TaskIds
             /\ panic' \in Halts /\ SameButRunning(ts, tasks') /\ OneRunning'
  <2>1. before[t].state = "READY"
    BY <1>3, Zenon DEF pick_next_ready
  <2> QED BY <1>2, <1>3, <2>1, Zenon DEF OneRunning, Halts
<1>4. ASSUME UNCHANGED current_task, before[current_task].state = "READY",
             tasks' = [before EXCEPT ![current_task].state = "RUNNING"],
             UNCHANGED panic
      PROVE  /\ tasks' \in [TaskIds -> Task] /\ current_task' \in TaskIds
             /\ panic' \in Halts /\ SameButRunning(ts, tasks') /\ OneRunning'
  BY <1>2, <1>4, Zenon DEF OneRunning
<1>5. ASSUME UNCHANGED current_task, tasks' = before, panic' = "no_runnable"
      PROVE  /\ tasks' \in [TaskIds -> Task] /\ current_task' \in TaskIds
             /\ panic' \in Halts /\ SameButRunning(ts, tasks') /\ OneRunning'
  BY <1>1, <1>5, Zenon DEF OneRunning, Halts
<1> QED BY <1>3, <1>4, <1>5, Zenon DEF yield, before

-----------------------------------------------------------------------------
(* Facts about the current state that every action uses. *)
LEMMA CurrentFacts ==
  ASSUME IInv, panic = "none"
  PROVE  /\ tasks[current_task].state = "RUNNING"
         /\ \A t \in TaskIds : tasks[t].state = "RUNNING" => t = current_task
         /\ (Self # NULL \/ tasks[current_task].kctx # 0) =>
               /\ current_task # Main
               /\ Self \in Slots
               /\ LiveIn(process_pool, Self)
               /\ process_pool[Self].task = current_task
<1>1. /\ current_task \in TaskIds
      /\ \A t \in TaskIds : tasks[t].state = "RUNNING" <=> t = current_task
  BY Zenon DEF IInv, TypeOK, OneRunning
<1>2. MainOK(tasks) /\ TaskLinked(tasks, process_pool)
  BY Zenon DEF IInv, Core
<1>3. ASSUME Self # NULL \/ tasks[current_task].kctx # 0
      PROVE  current_task # Main
  BY <1>2, <1>3, Zenon DEF MainOK, Self
<1>4. current_task # Main =>
         /\ Self \in Slots
         /\ LiveIn(process_pool, Self)
         /\ process_pool[Self].task = current_task
  BY <1>1, <1>2, Zenon DEF TaskLinked, Self, Gone
<1> QED BY <1>1, <1>3, <1>4, Zenon

(* What the process table satisfies besides its links to tasks. *)
PoolOK(pp, n) ==
    /\ pp \in [Slots -> Process]
    /\ \A s \in Slots : pp[s].pid = 0 => pp[s] = ZeroProcess
    /\ \A s, q \in Slots :
          /\ pp[s].pid < n
          /\ pp[s].pid # 0 /\ pp[s].pid = pp[q].pid => s = q

(* What a step must establish. *)
Good(ts, n, pp, cur, why) ==
    /\ ts \in [TaskIds -> Task]
    /\ cur \in TaskIds
    /\ why \in Halts
    /\ why = "none" => \A t \in TaskIds : ts[t].state = "RUNNING" <=> t = cur
    /\ Used(ts, n)
    /\ Core(ts, pp)

(* The inductive invariant, restated over arbitrary tables. *)
LEMMA GoodIsIInv ==
  ASSUME task_count \in 2 .. MAX_TASKS, next_pid \in 2 .. MaxPid + 1,
         foreground_pids \in SUBSET Pids
  PROVE  IInv <=> /\ PoolOK(process_pool, next_pid)
                  /\ Good(tasks, task_count, process_pool, current_task, panic)
  BY Zenon DEF IInv, TypeOK, PidsUnique, OneRunning, PoolOK, Good

(* Yielding with a good table leaves a good table. *)
LEMMA YieldIsGood ==
  ASSUME NEW ts \in [TaskIds -> Task], NEW pp \in [Slots -> Process], NEW n,
         current_task \in TaskIds, panic \in Halts,
         \A t \in TaskIds : ts[t].state = "RUNNING" => t = current_task,
         Used(ts, n), Core(ts, pp),
         yield(ts)
  PROVE  Good(tasks', n, pp, current_task', panic')
<1>1. /\ tasks' \in [TaskIds -> Task]
      /\ current_task' \in TaskIds
      /\ panic' \in Halts
      /\ SameButRunning(ts, tasks')
      /\ OneRunning'
  BY YieldKeeps, Zenon
<1>2. Core(tasks', pp)
  BY <1>1, CoreUnderYield, Zenon
<1>3. Used(tasks', n)
  BY <1>1, UsedUnderYield, Zenon
<1> QED BY <1>1, <1>2, <1>3, Zenon DEF Good, OneRunning

(* So does the end of a signal's delivery. *)
LEMMA DeliverIsGood ==
  ASSUME IInv, panic = "none",
         NEW T \in SUBSET Slots, NEW ts \in [TaskIds -> Task],
         NEW pp \in [Slots -> Process],
         \A t \in TaskIds : ts[t].state = "RUNNING" => tasks[t].state = "RUNNING",
         (\A s \in T : process_pool[s].task # current_task)
             => ts[current_task].state = "RUNNING",
         Used(ts, task_count), Core(ts, pp),
         Deliver(T, ts)
  PROVE  Good(tasks', task_count, pp, current_task', panic')
<1>1. /\ current_task \in TaskIds
      /\ \A t \in TaskIds : tasks[t].state = "RUNNING" => t = current_task
  BY CurrentFacts, Zenon DEF IInv, TypeOK
<1>2. CASE tasks' = ts /\ panic' = "null_task" /\ UNCHANGED current_task
  BY <1>1, <1>2, Zenon DEF Good, Halts
<1>3. CASE yield(ts)
  BY <1>1, <1>3, YieldIsGood, Zenon DEF Halts
<1>4. CASE /\ \A s \in T : process_pool[s].task # current_task
           /\ tasks' = ts /\ UNCHANGED <<current_task, panic>>
  BY <1>1, <1>4, Zenon DEF Good, Halts
<1> QED BY <1>2, <1>3, <1>4, Zenon DEF Deliver

-----------------------------------------------------------------------------
(* Boot establishes the invariant. *)
LEMMA InitEstablishes ==
  ASSUME Init
  PROVE  IInv
<1> USE ProcAssumption
<1>0. Main \in TaskIds /\ 2 \in TaskIds /\ 1 \in Slots /\ 1 \in Pids
  BY DEF Main, TaskIds, Slots, Pids
<1>1. TypeOK
  <2>1. tasks \in [TaskIds -> Task]
    BY <1>0, Zenon DEF Init, ZeroTask, Task, States, NULL, Main
  <2>2. process_pool \in [Slots -> Process]
    BY <1>0, Zenon DEF Init, ZeroProcess, Process, NULL
  <2>3. \A s \in Slots : process_pool[s].pid = 0 => process_pool[s] = ZeroProcess
    BY DEF Init, ZeroProcess
  <2>4. /\ task_count \in 2 .. MAX_TASKS /\ next_pid \in 2 .. MaxPid + 1
        /\ current_task \in TaskIds /\ panic \in Halts
        /\ foreground_pids \in SUBSET Pids
    BY <1>0 DEF Init, Halts
  <2> QED BY <2>1, <2>2, <2>3, <2>4, Zenon DEF TypeOK
<1>2. PidsUnique
  BY DEF Init, PidsUnique, ZeroProcess
<1>3. OneRunning
  BY DEF Init, OneRunning, ZeroTask, Main
<1>4. Used(tasks, task_count)
  BY DEF Init, Used, ZeroTask, Main, TaskIds
<1>5. Core(tasks, process_pool)
  <2>1. MainOK(tasks)
    <3>1. tasks[Main] = [ZeroTask EXCEPT !.state = "RUNNING", !.next = 2, !.stack = TRUE]
      BY <1>0 DEF Init, Main
    <3> QED BY <3>1, Zenon DEF MainOK, ZeroTask, Runnable
  <2>2. TaskLinked(tasks, process_pool)
    BY <1>0 DEF Init, TaskLinked, LiveIn, ZeroTask, ZeroProcess, Gone
  <2>3. ProcessLinked(tasks, process_pool) /\ StopAgrees(tasks, process_pool)
    BY <1>0 DEF Init, ProcessLinked, StopAgrees, LiveIn, ZeroTask, ZeroProcess,
                Gone, Main
  <2>4. SleepsWell(tasks, process_pool)
    BY Zenon DEF Init, SleepsWell, ZeroTask
  <2> QED BY <2>1, <2>2, <2>3, <2>4, Zenon DEF Core
<1> QED BY <1>1, <1>2, <1>3, <1>4, <1>5, Zenon DEF IInv

-----------------------------------------------------------------------------
(* fork *)

(* task_alloc_raw takes a slot no live process uses and disturbs no other. *)
LEMMA RawSlot ==
  ASSUME IInv, panic = "none", NEW t \in TaskIds, NEW s \in Slots,
         NEW ok \in BOOLEAN, IsFresh(t) \/ IsRecycled(t)
  PROVE  LET ts == task_alloc_raw(t, s, ok)
         IN  /\ ts \in [TaskIds -> Task]
             /\ t # current_task /\ t # Main
             /\ tasks[t].state \in Gone
             /\ ts[t].state = "READY" /\ ts[t].proc = s
             /\ \A u \in TaskIds \ {t} :
                   /\ ts[u].state = tasks[u].state
                   /\ ts[u].proc = tasks[u].proc
                   /\ ts[u].wait_chan = tasks[u].wait_chan
                   /\ ts[u].kctx = tasks[u].kctx
<1>1. /\ tasks \in [TaskIds -> Task] /\ current_task \in TaskIds
      /\ task_count \in 2 .. MAX_TASKS
      /\ Used(tasks, task_count) /\ MainOK(tasks)
      /\ tasks[current_task].state = "RUNNING"
  BY CurrentFacts, Zenon DEF IInv, TypeOK, Core
<1>2. tasks[t].state \in Gone
  BY <1>1 DEF IsFresh, IsRecycled, find_terminated_task, IsDead, Gone, Used
<1>3. t # current_task /\ t # Main
  BY <1>1, <1>2, Zenon DEF Gone, MainOK, Runnable
<1> DEFINE ring == IF IsRecycled(t) THEN unlink_task_from_ring(t) ELSE tasks
<1>4. /\ ring \in [TaskIds -> Task]
      /\ \A u \in TaskIds :
            /\ ring[u].state = tasks[u].state
            /\ ring[u].proc = tasks[u].proc
            /\ ring[u].wait_chan = tasks[u].wait_chan
            /\ ring[u].kctx = tasks[u].kctx
  BY <1>1 DEF unlink_task_from_ring, Task
<1>5. task_alloc_raw(t, s, ok) =
        [ring EXCEPT
            ![t] = [ZeroTask EXCEPT !.state = "READY", !.proc = s, !.stack = ok,
                                    !.next = ring[current_task].next],
            ![current_task].next = t]
  BY Zenon DEF task_alloc_raw
<1> HIDE DEF ring
<1> DEFINE new == [ZeroTask EXCEPT !.state = "READY", !.proc = s, !.stack = ok,
                                   !.next = ring[current_task].next]
<1>6. new \in Task /\ new.state = "READY" /\ new.proc = s
  BY <1>1, <1>4, Zenon DEF ZeroTask, Task, States, NULL
<1> HIDE DEF new
<1> DEFINE cur == [ring[current_task] EXCEPT !.next = t]
<1>7. /\ cur \in Task
      /\ cur.state = ring[current_task].state
      /\ cur.proc = ring[current_task].proc
      /\ cur.wait_chan = ring[current_task].wait_chan
      /\ cur.kctx = ring[current_task].kctx
  BY <1>1, <1>4 DEF Task
<1>8. task_alloc_raw(t, s, ok) = [ring EXCEPT ![t] = new, ![current_task] = cur]
  BY <1>1, <1>3, <1>4, <1>5, Zenon DEF new
<1> HIDE DEF cur
<1> DEFINE ts == task_alloc_raw(t, s, ok)
<1>9. /\ ts \in [TaskIds -> Task]
      /\ ts[t] = new /\ ts[current_task] = cur
      /\ \A u \in TaskIds \ {t, current_task} : ts[u] = ring[u]
  BY <1>1, <1>3, <1>4, <1>6, <1>7, <1>8, Zenon
<1> HIDE DEF ts
<1> QED BY <1>2, <1>3, <1>4, <1>6, <1>7, <1>9 DEF ts

(* What fork writes into the child's process slot. *)
LEMMA ChildRecord ==
  ASSUME NEW t \in TaskIds \cup {NULL}, next_pid \in Pids \cup {0},
         process_pool[Self].pid \in Pids \cup {0}
  PROVE  /\ Child(t) \in Process
         /\ Child(t).pid = next_pid
         /\ Child(t).parent_pid = process_pool[Self].pid
         /\ Child(t).task = t
         /\ ~Child(t).is_zombie /\ ~Child(t).is_stopped
<1> DEFINE pid0 == process_pool[Self].pid
<1>1. Child(t) = [ZeroProcess EXCEPT !.pid = next_pid, !.task = t, !.parent_pid = pid0]
  BY Zenon DEF Child
<1> HIDE DEF pid0
<1> QED BY <1>1, Zenon DEF ZeroProcess, Process, pid0

(* The child's record in a free slot keeps the process table sound. *)
LEMMA ChildPool ==
  ASSUME IInv, InUser, next_pid <= MaxPid, NEW s \in Slots, FirstFree(s),
         NEW t \in TaskIds \cup {NULL}
  PROVE  PoolOK([process_pool EXCEPT ![s] = Child(t)], next_pid + 1)
<1>1. /\ process_pool \in [Slots -> Process] /\ next_pid \in 2 .. MaxPid + 1
      /\ PidsUnique /\ MaxPid \in Nat
      /\ \A q \in Slots : process_pool[q].pid = 0 => process_pool[q] = ZeroProcess
  BY ProcAssumption, Zenon DEF IInv, TypeOK
<1>2. Self \in Slots
  BY CurrentFacts, Zenon DEF InUser, Interruptible
<1>3. Child(t) \in Process /\ Child(t).pid = next_pid
  <2>1. process_pool[Self].pid \in Pids \cup {0}
    BY <1>1, <1>2, Zenon DEF Process
  <2>2. next_pid \in Pids
    BY <1>1 DEF Pids
  <2> QED BY <2>1, <2>2, ChildRecord, Zenon DEF Process
<1>4. \A q \in Slots : process_pool[q].pid \in Nat
  BY <1>1 DEF Process, Pids
<1> QED BY <1>1, <1>3, <1>4 DEF PoolOK, PidsUnique

(* Somebody asleep in waitpid is not disturbed by another process's fork. *)
LEMMA ForkLetsSleep ==
  ASSUME IInv, InUser, NEW s \in Slots, FirstFree(s),
         NEW t \in TaskIds \cup {NULL}, NEW u \in TaskIds,
         tasks[u].state = "BLOCKED"
  PROVE  LET pp == [process_pool EXCEPT ![s] = Child(t)]
         IN  /\ \E c \in Slots : KidOf(pp, c, tasks[u].proc, tasks[u].kctx)
             /\ \A c \in Slots : KidOf(pp, c, tasks[u].proc, tasks[u].kctx)
                                    => ~HasNews(pp, c)
<1> DEFINE q == tasks[u].proc
           pp == [process_pool EXCEPT ![s] = Child(t)]
<1>1. /\ process_pool \in [Slots -> Process]
      /\ PidsUnique /\ TaskLinked(tasks, process_pool) /\ MainOK(tasks)
      /\ SleepsWell(tasks, process_pool)
  BY Zenon DEF IInv, TypeOK, Core
<1>2. /\ Self \in Slots /\ process_pool[Self].task = current_task
      /\ tasks[current_task].state = "RUNNING"
  BY CurrentFacts, Zenon DEF InUser, Interruptible
<1>3. q \in Slots /\ LiveIn(process_pool, q) /\ process_pool[q].task = u
  BY <1>1, Zenon DEF MainOK, Runnable, TaskLinked, Gone
<1>4. q # Self /\ q # s
  BY <1>2, <1>3, Zenon DEF LiveIn, FirstFree
<1>5. process_pool[q].pid # process_pool[Self].pid
  BY <1>1, <1>2, <1>3, <1>4, Zenon DEF PidsUnique, LiveIn
<1>6. /\ pp[s].parent_pid = process_pool[Self].pid
      /\ \A c \in Slots \ {s} : pp[c] = process_pool[c]
  BY <1>1, Zenon DEF Child, ZeroProcess
<1>7. ASSUME NEW c \in Slots
      PROVE  KidOf(pp, c, q, tasks[u].kctx)
                <=> KidOf(process_pool, c, q, tasks[u].kctx) /\ c # s
  BY <1>3, <1>4, <1>5, <1>6, Zenon DEF KidOf, FirstFree
<1>8. ~KidOf(process_pool, s, q, tasks[u].kctx)
  BY Zenon DEF KidOf, FirstFree
<1> QED BY <1>1, <1>6, <1>7, <1>8, Zenon DEF SleepsWell, HasNews

(* do_fork keeps the invariant on each of its paths, failures included. *)
LEMMA ForkPreserves ==
  ASSUME IInv, do_fork
  PROVE  IInv'
<1>0. /\ InUser /\ panic = "none" /\ next_pid <= MaxPid
      /\ next_pid' = next_pid + 1
      /\ UNCHANGED <<current_task, foreground_pids, panic>>
  BY Zenon DEF do_fork, InUser, Interruptible, NextPid
<1>1. /\ tasks \in [TaskIds -> Task] /\ current_task \in TaskIds
      /\ process_pool \in [Slots -> Process]
      /\ task_count \in 2 .. MAX_TASKS /\ next_pid \in 2 .. MaxPid + 1
      /\ foreground_pids \in SUBSET Pids /\ panic \in Halts
      /\ Used(tasks, task_count) /\ Core(tasks, process_pool)
      /\ MAX_TASKS \in Nat /\ MaxPid \in Nat
  BY ProcAssumption, Zenon DEF IInv, TypeOK
<1>2. \A t \in TaskIds : tasks[t].state = "RUNNING" <=> t = current_task
  BY <1>0, Zenon DEF IInv, OneRunning
<1>3. PICK s \in Slots :
          /\ FirstFree(s)
          /\ \/ \E t \in TaskIds, ok \in BOOLEAN :
                  /\ IsFresh(t) \/ IsRecycled(t)
                  /\ tasks' = task_alloc_raw(t, s, ok)
                  /\ task_count' = IF IsFresh(t) THEN task_count + 1 ELSE task_count
                  /\ process_pool' = [process_pool EXCEPT ![s] = Child(t)]
             \/ /\ process_pool' = [process_pool EXCEPT ![s] = Child(NULL)]
                /\ UNCHANGED <<tasks, task_count>>
  BY Zenon DEF do_fork
<1>4. ASSUME NEW t \in TaskIds, NEW ok \in BOOLEAN,
             IsFresh(t) \/ IsRecycled(t),
             tasks' = task_alloc_raw(t, s, ok),
             task_count' = IF IsFresh(t) THEN task_count + 1 ELSE task_count,
             process_pool' = [process_pool EXCEPT ![s] = Child(t)]
      PROVE  /\ task_count' \in 2 .. MAX_TASKS
             /\ PoolOK(process_pool', next_pid')
             /\ Good(tasks', task_count', process_pool', current_task', panic')
  <2>1. task_count' \in 2 .. MAX_TASKS
    BY <1>1, <1>4 DEF IsFresh
  <2>2. PoolOK(process_pool', next_pid')
    BY <1>0, <1>3, <1>4, ChildPool, Zenon
  <2>3. /\ tasks' \in [TaskIds -> Task]
        /\ t # current_task /\ t # Main
        /\ tasks[t].state \in Gone
        /\ tasks'[t].state = "READY" /\ tasks'[t].proc = s
        /\ \A u \in TaskIds \ {t} :
              /\ tasks'[u].state = tasks[u].state
              /\ tasks'[u].proc = tasks[u].proc
              /\ tasks'[u].wait_chan = tasks[u].wait_chan
              /\ tasks'[u].kctx = tasks[u].kctx
    BY <1>0, <1>4, RawSlot
  <2>4. Used(tasks', task_count')
    BY <1>1, <1>4, <2>3
       DEF Used, IsFresh, IsRecycled, find_terminated_task, IsDead, TaskIds
  <2>5. /\ process_pool'[s].task = t /\ LiveIn(process_pool', s)
        /\ ~process_pool'[s].is_stopped
        /\ \A q \in Slots \ {s} : process_pool'[q] = process_pool[q]
        /\ process_pool[s].pid = 0
    <3>1. Self \in Slots
      BY <1>0, CurrentFacts, Zenon DEF InUser
    <3>2. process_pool[Self].pid \in Pids \cup {0} /\ next_pid \in Pids
      BY <1>0, <1>1, <3>1 DEF Process, Pids
    <3>3. process_pool'[s] = Child(t) /\ next_pid # 0
      BY <1>1, <1>4
    <3> QED BY <1>1, <1>3, <1>4, <3>2, <3>3, ChildRecord DEF LiveIn, FirstFree
  <2>6. Main \in TaskIds
    BY ProcAssumption DEF Main, TaskIds
  <2>7. MainOK(tasks')
    BY <1>1, <2>3, <2>6, Zenon DEF Core, MainOK
  <2>8. TaskLinked(tasks', process_pool')
    BY <1>1, <2>3, <2>5 DEF Core, TaskLinked, LiveIn
  <2>9. ProcessLinked(tasks', process_pool')
    BY <1>1, <2>3, <2>5 DEF Core, ProcessLinked, LiveIn, Process, Gone
  <2>10. StopAgrees(tasks', process_pool')
    BY <1>1, <2>3, <2>5 DEF Core, StopAgrees, ProcessLinked, LiveIn, Process
  <2>11. SleepsWell(tasks', process_pool')
    <3> SUFFICES ASSUME NEW u \in TaskIds, tasks'[u].state = "BLOCKED"
                 PROVE  /\ tasks'[u].kctx # 0
                        /\ tasks'[u].wait_chan = tasks'[u].proc
                        /\ \E c \in Slots :
                              KidOf(process_pool', c, tasks'[u].proc, tasks'[u].kctx)
                        /\ \A c \in Slots :
                              KidOf(process_pool', c, tasks'[u].proc, tasks'[u].kctx)
                                 => ~HasNews(process_pool', c)
      BY Zenon DEF SleepsWell
    <3>1. u # t /\ tasks[u].state = "BLOCKED"
      BY <2>3, Zenon
    <3>2. tasks[u].kctx # 0 /\ tasks[u].wait_chan = tasks[u].proc
      BY <1>1, <3>1, Zenon DEF Core, SleepsWell
    <3> QED BY <1>0, <1>3, <1>4, <2>3, <3>1, <3>2, ForkLetsSleep, Zenon
  <2> QED BY <1>0, <1>1, <1>2, <2>1, <2>2, <2>3, <2>4, <2>7, <2>8, <2>9, <2>10, <2>11, Zenon
          DEF Good, Core
<1>5. ASSUME process_pool' = [process_pool EXCEPT ![s] = Child(NULL)],
             UNCHANGED <<tasks, task_count>>
      PROVE  /\ task_count' \in 2 .. MAX_TASKS
             /\ PoolOK(process_pool', next_pid')
             /\ Good(tasks', task_count', process_pool', current_task', panic')
  <2>1. PoolOK(process_pool', next_pid')
    BY <1>0, <1>3, <1>5, ChildPool, Zenon
  <2>2. /\ process_pool'[s].task = NULL
        /\ \A q \in Slots \ {s} : process_pool'[q] = process_pool[q]
        /\ process_pool[s].pid = 0
    BY <1>1, <1>3, <1>5, Zenon DEF Child, ZeroProcess, FirstFree
  <2>3. TaskLinked(tasks, process_pool')
    BY <1>1, <2>2, Zenon DEF Core, TaskLinked, LiveIn
  <2>4. ProcessLinked(tasks, process_pool') /\ StopAgrees(tasks, process_pool')
    BY <1>1, <2>2 DEF Core, ProcessLinked, StopAgrees, LiveIn
  <2>5. SleepsWell(tasks, process_pool')
    BY <1>0, <1>1, <1>3, <1>5, ForkLetsSleep, Zenon DEF Core, SleepsWell
  <2> QED BY <1>0, <1>1, <1>2, <1>5, <2>1, <2>3, <2>4, <2>5, Zenon DEF Good, Core
<1>6. /\ task_count' \in 2 .. MAX_TASKS
      /\ PoolOK(process_pool', next_pid')
      /\ Good(tasks', task_count', process_pool', current_task', panic')
  BY <1>3, <1>4, <1>5, Zenon
<1>7. next_pid' \in 2 .. MaxPid + 1 /\ foreground_pids' \in SUBSET Pids
  BY <1>0, <1>1
<1> QED BY <1>6, <1>7, Zenon
        DEF IInv, TypeOK, PidsUnique, OneRunning, PoolOK, Good

-----------------------------------------------------------------------------
(* Signals *)

TasksOf(T) == {process_pool[s].task : s \in T}

(* The table a death or a stop leaves: the targets' tasks in their new     *)
(* state, their sleeping parents awake, everything else as it was.         *)
LEMMA WithStateTable ==
  ASSUME IInv, NEW T \in SUBSET Slots, NEW state \in States
  PROVE  /\ WithState(T, state) \in [TaskIds -> Task]
         /\ \A t \in TaskIds :
               /\ WithState(T, state)[t].proc = tasks[t].proc
               /\ WithState(T, state)[t].kctx = tasks[t].kctx
         /\ \A t \in TaskIds : t \in TasksOf(T) => WithState(T, state)[t].state = state
         /\ \A t \in TaskIds : t \notin TasksOf(T) =>
               \/ /\ WithState(T, state)[t].state = tasks[t].state
                  /\ WithState(T, state)[t].wait_chan = tasks[t].wait_chan
                  /\ ~(tasks[t].state = "BLOCKED" /\ tasks[t].wait_chan \in ParentsOf(T))
               \/ tasks[t].state = "BLOCKED" /\ WithState(T, state)[t].state = "READY"
<1> DEFINE woken == task_wake(tasks, ParentsOf(T))
<1>1. tasks \in [TaskIds -> Task]
  BY Zenon DEF IInv, TypeOK
<1>2. /\ woken \in [TaskIds -> Task]
      /\ \A t \in TaskIds :
            /\ woken[t].proc = tasks[t].proc /\ woken[t].kctx = tasks[t].kctx
            /\ \/ /\ woken[t] = tasks[t]
                  /\ ~(tasks[t].state = "BLOCKED" /\ tasks[t].wait_chan \in ParentsOf(T))
               \/ tasks[t].state = "BLOCKED" /\ woken[t].state = "READY"
  <2>1. \A t \in TaskIds : woken[t] =
          IF tasks[t].state = "BLOCKED" /\ tasks[t].wait_chan \in ParentsOf(T)
          THEN [tasks[t] EXCEPT !.state = "READY", !.wait_chan = NULL] ELSE tasks[t]
    BY Zenon DEF task_wake
  <2>2. DOMAIN woken = TaskIds /\ woken = [t \in TaskIds |-> woken[t]]
    BY Zenon DEF task_wake
  <2> HIDE DEF woken
  <2>3. ASSUME NEW t \in TaskIds
        PROVE  /\ woken[t] \in Task
               /\ woken[t].proc = tasks[t].proc /\ woken[t].kctx = tasks[t].kctx
               /\ \/ /\ woken[t] = tasks[t]
                     /\ ~(tasks[t].state = "BLOCKED" /\ tasks[t].wait_chan \in ParentsOf(T))
                  \/ tasks[t].state = "BLOCKED" /\ woken[t].state = "READY"
    <3>1. tasks[t] \in Task
      BY <1>1, Zenon
    <3>2. CASE tasks[t].state = "BLOCKED" /\ tasks[t].wait_chan \in ParentsOf(T)
      <4>1. woken[t] = [tasks[t] EXCEPT !.state = "READY", !.wait_chan = NULL]
        BY <2>1, <3>2, Zenon
      <4> QED BY <3>1, <3>2, <4>1, Zenon DEF Task, States
    <3>3. CASE ~(tasks[t].state = "BLOCKED" /\ tasks[t].wait_chan \in ParentsOf(T))
      BY <2>1, <3>1, <3>3, Zenon
    <3> QED BY <3>2, <3>3, Zenon
  <2> QED BY <2>2, <2>3, Zenon
<1>3. WithState(T, state) =
        [t \in TaskIds |-> IF t \in TasksOf(T) THEN [woken[t] EXCEPT !.state = state]
                                              ELSE woken[t]]
  BY Zenon DEF WithState, TasksOf
<1> HIDE DEF woken
<1> QED BY <1>2, <1>3 DEF Task

(* Live processes do not share a task, and none has main's. *)
LEMMA TasksDistinct ==
  ASSUME IInv, NEW T \in SUBSET Slots, \A s \in T : Live(s)
  PROVE  /\ Main \notin TasksOf(T)
         /\ \A s \in Slots : Live(s) /\ process_pool[s].task # NULL =>
               (process_pool[s].task \in TasksOf(T) <=> s \in T)
         /\ \A t \in TaskIds : t \in TasksOf(T) => \E s \in T :
               /\ process_pool[s].task = t /\ tasks[t].proc = s
               /\ tasks[t].state \notin Gone
<1>1. ProcessLinked(tasks, process_pool) /\ Main # NULL /\ NULL \notin TaskIds
  BY DEF IInv, Core, Main, NULL, TaskIds
<1> QED BY <1>1 DEF ProcessLinked, Live, LiveIn, TasksOf

(* A sleeper that stays asleep through a death or stop of T has no child   *)
(* in T.                                                                   *)
LEMMA SleeperHasNoKidIn ==
  ASSUME IInv, NEW T \in SUBSET Slots, NEW u \in TaskIds, NEW c \in T,
         tasks[u].state = "BLOCKED", tasks[u].wait_chan \notin ParentsOf(T)
  PROVE  ~KidOf(process_pool, c, tasks[u].proc, tasks[u].kctx)
<1>1. /\ TaskLinked(tasks, process_pool) /\ MainOK(tasks)
      /\ SleepsWell(tasks, process_pool)
  BY Zenon DEF IInv, Core
<1>2. /\ tasks[u].proc \in Slots /\ LiveIn(process_pool, tasks[u].proc)
      /\ tasks[u].wait_chan = tasks[u].proc
  BY <1>1, Zenon DEF MainOK, Runnable, TaskLinked, SleepsWell, Gone
<1>3. SUFFICES ASSUME process_pool[c].parent_pid = process_pool[tasks[u].proc].pid
               PROVE  FALSE
  BY Zenon DEF KidOf
<1>4. tasks[u].proc \in process_find_by_pid(process_pool[c].parent_pid)
  BY <1>2, <1>3, Zenon DEF process_find_by_pid, LiveIn
<1> QED BY <1>2, <1>4, Zenon DEF ParentsOf

(* So who stays asleep still has children, and still none with news. *)
LEMMA SleepKept ==
  ASSUME IInv, NEW T \in SUBSET Slots, NEW ts \in [TaskIds -> Task],
         NEW pp \in [Slots -> Process],
         \A t \in TaskIds :
            /\ ts[t].proc = tasks[t].proc /\ ts[t].kctx = tasks[t].kctx
            /\ ts[t].state = "BLOCKED" =>
                  /\ tasks[t].state = "BLOCKED"
                  /\ ts[t].wait_chan = tasks[t].wait_chan
                  /\ tasks[t].wait_chan \notin ParentsOf(T),
         \A s \in Slots :
            IF s \in T THEN /\ pp[s].pid = process_pool[s].pid
                            /\ pp[s].parent_pid = process_pool[s].parent_pid
                       ELSE pp[s] = process_pool[s]
  PROVE  SleepsWell(ts, pp)
<1>1. Core(tasks, process_pool)
  BY Zenon DEF IInv
<1> SUFFICES ASSUME NEW u \in TaskIds, ts[u].state = "BLOCKED"
             PROVE  /\ ts[u].kctx # 0
                    /\ ts[u].wait_chan = ts[u].proc
                    /\ \E c \in Slots : KidOf(pp, c, ts[u].proc, ts[u].kctx)
                    /\ \A c \in Slots :
                          KidOf(pp, c, ts[u].proc, ts[u].kctx) => ~HasNews(pp, c)
  BY Zenon DEF SleepsWell
<1>2. /\ tasks[u].state = "BLOCKED" /\ tasks[u].wait_chan \notin ParentsOf(T)
      /\ ts[u].wait_chan = tasks[u].wait_chan
  BY Zenon
<1>3. tasks[u].proc \in Slots
  BY <1>1, <1>2, Zenon DEF Core, MainOK, Runnable, TaskLinked, Gone
<1>4. \A c \in Slots : KidOf(pp, c, tasks[u].proc, tasks[u].kctx)
                          <=> KidOf(process_pool, c, tasks[u].proc, tasks[u].kctx)
  BY <1>3, Zenon DEF KidOf
<1>5. \A c \in T : ~KidOf(process_pool, c, tasks[u].proc, tasks[u].kctx)
  BY <1>2, SleeperHasNoKidIn, Zenon
<1> QED BY <1>1, <1>2, <1>4, <1>5, Zenon DEF Core, SleepsWell, HasNews

(* A signal leaves the same task slots used. *)
LEMMA UsedWithState ==
  ASSUME IInv, NEW T \in SUBSET Slots, \A s \in T : Live(s),
         NEW state \in States, state # "UNUSED"
  PROVE  Used(WithState(T, state), task_count)
<1>1. \A t \in TaskIds : t \in TasksOf(T) =>
          WithState(T, state)[t].state = state /\ tasks[t].state \notin Gone
  BY WithStateTable, TasksDistinct
<1>2. \A t \in TaskIds : t \notin TasksOf(T) =>
          \/ WithState(T, state)[t].state = tasks[t].state
          \/ tasks[t].state = "BLOCKED" /\ WithState(T, state)[t].state = "READY"
  BY WithStateTable
<1>3. Used(tasks, task_count)
  BY Zenon DEF IInv
<1> QED BY <1>1, <1>2, <1>3, Zenon DEF Used, Gone

(* Nothing but fork brings a new pid into the process table. *)
LEMMA PoolKept ==
  ASSUME IInv, NEW pp \in [Slots -> Process],
         \A s \in Slots : \/ pp[s] = ZeroProcess
                          \/ /\ pp[s].pid = process_pool[s].pid
                             /\ process_pool[s].pid # 0 \/ pp[s] = process_pool[s]
  PROVE  PoolOK(pp, next_pid)
<1>1. /\ \A s \in Slots : process_pool[s].pid = 0 => process_pool[s] = ZeroProcess
      /\ PidsUnique /\ next_pid \in 2 .. MaxPid + 1
  BY Zenon DEF IInv, TypeOK
<1>2. ZeroProcess.pid = 0
  BY Zenon DEF ZeroProcess
<1>3. \A s \in Slots : pp[s].pid = 0 \/ pp[s].pid = process_pool[s].pid
  BY <1>2, Zenon
<1>4. \A s \in Slots : pp[s].pid = 0 => pp[s] = ZeroProcess
  BY <1>1, <1>2, Zenon
<1>5. \A s, q \in Slots :
          /\ pp[s].pid < next_pid
          /\ pp[s].pid # 0 /\ pp[s].pid = pp[q].pid => s = q
  BY <1>1, <1>3 DEF PidsUnique
<1> QED BY <1>4, <1>5, Zenon DEF PoolOK

(* process_terminate on live processes T. *)
LEMMA TerminatePreserves ==
  ASSUME IInv, panic = "none", NEW T \in SUBSET Slots, \A s \in T : Live(s),
         NEW code \in {"exited", "signaled"}, process_terminate(T, code)
  PROVE  IInv'
<1> DEFINE ts == WithState(T, "TERMINATED")
<1>0. /\ UNCHANGED <<task_count, next_pid, foreground_pids>>
      /\ Deliver(T, ts)
      /\ process_pool' = [s \in Slots |->
           IF s \in T
           THEN [process_pool[s] EXCEPT !.exit_code = code, !.is_zombie = TRUE]
           ELSE process_pool[s]]
  BY Zenon DEF process_terminate, Deliver
<1>1. /\ process_pool \in [Slots -> Process] /\ current_task \in TaskIds
      /\ Core(tasks, process_pool)
      /\ Main \in TaskIds
      /\ \A s \in Slots : process_pool[s].pid = 0 => process_pool[s] = ZeroProcess
      /\ PidsUnique
      /\ tasks[current_task].state = "RUNNING"
  BY ProcAssumption, CurrentFacts DEF IInv, TypeOK, Main, TaskIds
<1>2. /\ process_pool' \in [Slots -> Process]
      /\ \A s \in Slots : s \in T =>
            /\ process_pool'[s].pid = process_pool[s].pid
            /\ process_pool'[s].parent_pid = process_pool[s].parent_pid
            /\ process_pool'[s].task = process_pool[s].task
            /\ process_pool'[s].is_zombie = TRUE
      /\ \A s \in Slots : s \notin T => process_pool'[s] = process_pool[s]
  <2>1. ASSUME NEW s \in Slots, s \in T
        PROVE  /\ process_pool'[s] \in Process
               /\ process_pool'[s].pid = process_pool[s].pid
               /\ process_pool'[s].parent_pid = process_pool[s].parent_pid
               /\ process_pool'[s].task = process_pool[s].task
               /\ process_pool'[s].is_zombie = TRUE
    <3>1. /\ process_pool'[s] = [process_pool[s] EXCEPT !.exit_code = code, !.is_zombie = TRUE]
          /\ process_pool[s] \in Process
      BY <1>0, <1>1, <2>1, Zenon
    <3> QED BY <3>1, Zenon DEF Process
  <2>2. \A s \in Slots : s \notin T => process_pool'[s] = process_pool[s]
    BY <1>0, Zenon
  <2>3. \A s \in Slots : process_pool'[s] \in Process
    BY <1>1, <2>1, <2>2, Zenon
  <2>4. process_pool' \in [Slots -> Process]
    BY <1>0, <2>3, Zenon
  <2> QED BY <2>1, <2>2, <2>4, Zenon
<1>3. PoolOK(process_pool', next_pid')
  <2>1. \A s \in Slots : /\ process_pool'[s].pid = process_pool[s].pid
                         /\ process_pool[s].pid # 0 \/ process_pool'[s] = process_pool[s]
    BY <1>2, Zenon DEF Live
  <2> QED BY <1>0, <1>2, <2>1, PoolKept, Zenon
<1>4. /\ ts \in [TaskIds -> Task]
      /\ \A t \in TaskIds : ts[t].proc = tasks[t].proc /\ ts[t].kctx = tasks[t].kctx
      /\ \A t \in TaskIds : t \in TasksOf(T) => ts[t].state = "TERMINATED"
      /\ \A t \in TaskIds : t \notin TasksOf(T) =>
            \/ /\ ts[t].state = tasks[t].state
               /\ ts[t].wait_chan = tasks[t].wait_chan
               /\ ~(tasks[t].state = "BLOCKED" /\ tasks[t].wait_chan \in ParentsOf(T))
            \/ tasks[t].state = "BLOCKED" /\ ts[t].state = "READY"
  BY WithStateTable, Zenon DEF States
<1>5. Used(ts, task_count)
  BY UsedWithState, Zenon DEF States
<1> HIDE DEF ts
<1>6. /\ Main \notin TasksOf(T)
      /\ \A s \in Slots : Live(s) /\ process_pool[s].task # NULL =>
            (process_pool[s].task \in TasksOf(T) <=> s \in T)
  BY TasksDistinct, Zenon
<1>7. MainOK(ts)
  BY <1>1, <1>4, <1>6, Zenon DEF Core, MainOK, Runnable
<1>8. TaskLinked(ts, process_pool')
  <2> SUFFICES ASSUME NEW t \in TaskIds \ {Main}, ts[t].state \notin Gone
               PROVE  /\ ts[t].proc \in Slots /\ LiveIn(process_pool', ts[t].proc)
                      /\ process_pool'[ts[t].proc].task = t
    BY Zenon DEF TaskLinked
  <2>1. t \notin TasksOf(T) /\ tasks[t].state \notin Gone /\ ts[t].proc = tasks[t].proc
    BY <1>4, Zenon DEF Gone
  <2>2. /\ tasks[t].proc \in Slots /\ LiveIn(process_pool, tasks[t].proc)
        /\ process_pool[tasks[t].proc].task = t
    BY <1>1, <2>1, Zenon DEF Core, TaskLinked
  <2>3. tasks[t].proc \notin T
    BY <2>1, <2>2, Zenon DEF TasksOf
  <2>4. process_pool'[tasks[t].proc] = process_pool[tasks[t].proc]
    BY <1>2, <2>2, <2>3, Zenon
  <2> QED BY <2>1, <2>2, <2>4, Zenon DEF LiveIn
<1>a. ASSUME NEW s \in Slots, LiveIn(process_pool', s), process_pool'[s].task # NULL
      PROVE  /\ process_pool'[s] = process_pool[s] /\ LiveIn(process_pool, s)
             /\ process_pool[s].task \in TaskIds
             /\ process_pool[s].task \notin TasksOf(T)
  <2>1. s \notin T
    BY <1>2, <1>a, Zenon DEF LiveIn
  <2>2. process_pool'[s] = process_pool[s]
    BY <1>2, <2>1, Zenon
  <2>3. LiveIn(process_pool, s) /\ process_pool[s].task # NULL
    BY <1>a, <2>2, Zenon DEF LiveIn
  <2>4. process_pool[s].task \in TaskIds
    BY <1>1, <2>3, Zenon DEF Process
  <2> QED BY <1>6, <2>1, <2>2, <2>3, <2>4, Zenon DEF Live, LiveIn
<1>9. ProcessLinked(ts, process_pool')
  <2> SUFFICES ASSUME NEW s \in Slots, LiveIn(process_pool', s),
                      process_pool'[s].task # NULL
               PROVE  /\ process_pool'[s].task # Main
                      /\ ts[process_pool'[s].task].proc = s
                      /\ ts[process_pool'[s].task].state \notin Gone
    BY Zenon DEF ProcessLinked
  <2>1. /\ process_pool'[s] = process_pool[s] /\ LiveIn(process_pool, s)
        /\ process_pool[s].task \in TaskIds \ TasksOf(T)
    BY <1>a, Zenon
  <2>2. /\ process_pool[s].task # Main
        /\ tasks[process_pool[s].task].proc = s
        /\ tasks[process_pool[s].task].state \notin Gone
    BY <1>1, <2>1, Zenon DEF Core, ProcessLinked
  <2> QED BY <1>4, <2>1, <2>2, Zenon DEF Gone
<1>10. StopAgrees(ts, process_pool')
  <2> SUFFICES ASSUME NEW s \in Slots, LiveIn(process_pool', s),
                      process_pool'[s].task # NULL
               PROVE  process_pool'[s].is_stopped <=>
                         ts[process_pool'[s].task].state = "STOPPED"
    BY Zenon DEF StopAgrees
  <2>1. /\ process_pool'[s] = process_pool[s] /\ LiveIn(process_pool, s)
        /\ process_pool[s].task \in TaskIds \ TasksOf(T)
    BY <1>a, Zenon
  <2>2. process_pool[s].is_stopped <=> tasks[process_pool[s].task].state = "STOPPED"
    BY <1>1, <2>1, Zenon DEF Core, StopAgrees
  <2> QED BY <1>4, <2>1, <2>2
<1>11. SleepsWell(ts, process_pool')
  BY <1>2, <1>4, SleepKept, SMTT(30)
<1>12. Core(ts, process_pool')
  BY <1>7, <1>8, <1>9, <1>10, <1>11, Zenon DEF Core
<1>13. Good(tasks', task_count, process_pool', current_task', panic')
  <2>1. \A t \in TaskIds : ts[t].state = "RUNNING" => tasks[t].state = "RUNNING"
    BY <1>4, Zenon
  <2>2. (\A s \in T : process_pool[s].task # current_task)
             => ts[current_task].state = "RUNNING"
    BY <1>1, <1>4, Zenon DEF TasksOf
  <2> QED BY <1>0, <1>2, <1>4, <1>5, <1>12, <2>1, <2>2, DeliverIsGood, Zenon
<1> QED BY <1>0, <1>3, <1>13, Zenon
        DEF IInv, TypeOK, PidsUnique, OneRunning, PoolOK, Good

(* SIGTSTP on live, running processes T. *)
StopStep(T) ==
    /\ process_pool' = [s \in Slots |->
          IF s \in T
          THEN [process_pool[s] EXCEPT !.is_stopped = TRUE, !.stop_reported = FALSE]
          ELSE process_pool[s]]
    /\ Deliver(T, WithState(T, "STOPPED"))

(* SIGTSTP to any set of stoppable processes keeps the invariant. *)
LEMMA StopPreserves ==
  ASSUME IInv, panic = "none", NEW T \in SUBSET Slots, \A s \in T : Stoppable(s),
         StopStep(T)
  PROVE  IInv'
<1> DEFINE ts == WithState(T, "STOPPED")
<1>0. UNCHANGED <<task_count, next_pid, foreground_pids>> /\ \A s \in T : Live(s)
  BY Zenon DEF StopStep, Deliver, Stoppable
<1>1. /\ process_pool \in [Slots -> Process] /\ current_task \in TaskIds
      /\ Core(tasks, process_pool)
      /\ Main \in TaskIds
      /\ tasks[current_task].state = "RUNNING"
  BY ProcAssumption, CurrentFacts DEF IInv, TypeOK, Main, TaskIds
<1>2. /\ process_pool' \in [Slots -> Process]
      /\ \A s \in Slots : s \in T =>
            /\ process_pool'[s].pid = process_pool[s].pid
            /\ process_pool'[s].parent_pid = process_pool[s].parent_pid
            /\ process_pool'[s].task = process_pool[s].task
            /\ process_pool'[s].is_zombie = process_pool[s].is_zombie
            /\ process_pool'[s].is_stopped = TRUE
      /\ \A s \in Slots : s \notin T => process_pool'[s] = process_pool[s]
  <2>1. ASSUME NEW s \in Slots, s \in T
        PROVE  /\ process_pool'[s] \in Process
               /\ process_pool'[s].pid = process_pool[s].pid
               /\ process_pool'[s].parent_pid = process_pool[s].parent_pid
               /\ process_pool'[s].task = process_pool[s].task
               /\ process_pool'[s].is_zombie = process_pool[s].is_zombie
               /\ process_pool'[s].is_stopped = TRUE
    <3>1. /\ process_pool'[s] =
                [process_pool[s] EXCEPT !.is_stopped = TRUE, !.stop_reported = FALSE]
          /\ process_pool[s] \in Process
      BY <1>1, <2>1, Zenon DEF StopStep
    <3> QED BY <3>1, Zenon DEF Process
  <2>2. \A s \in Slots : s \notin T => process_pool'[s] = process_pool[s]
    BY Zenon DEF StopStep
  <2>3. \A s \in Slots : process_pool'[s] \in Process
    BY <1>1, <2>1, <2>2, Zenon
  <2>4. process_pool' \in [Slots -> Process]
    BY <2>3, Zenon DEF StopStep
  <2> QED BY <2>1, <2>2, <2>4, Zenon
<1>3. PoolOK(process_pool', next_pid')
  <2>1. \A s \in Slots : /\ process_pool'[s].pid = process_pool[s].pid
                         /\ process_pool[s].pid # 0 \/ process_pool'[s] = process_pool[s]
    BY <1>0, <1>2, Zenon DEF Live
  <2> QED BY <1>0, <1>2, <2>1, PoolKept, Zenon
<1>4. /\ ts \in [TaskIds -> Task]
      /\ \A t \in TaskIds : ts[t].proc = tasks[t].proc /\ ts[t].kctx = tasks[t].kctx
      /\ \A t \in TaskIds : t \in TasksOf(T) => ts[t].state = "STOPPED"
      /\ \A t \in TaskIds : t \notin TasksOf(T) =>
            \/ /\ ts[t].state = tasks[t].state
               /\ ts[t].wait_chan = tasks[t].wait_chan
               /\ ~(tasks[t].state = "BLOCKED" /\ tasks[t].wait_chan \in ParentsOf(T))
            \/ tasks[t].state = "BLOCKED" /\ ts[t].state = "READY"
  BY WithStateTable, Zenon DEF States
<1>5. Used(ts, task_count)
  BY <1>0, UsedWithState, Zenon DEF States
<1>a. Deliver(T, ts)
  BY Zenon DEF StopStep
<1> HIDE DEF ts
<1>6. /\ Main \notin TasksOf(T)
      /\ \A s \in Slots : Live(s) /\ process_pool[s].task # NULL =>
            (process_pool[s].task \in TasksOf(T) <=> s \in T)
      /\ \A t \in TaskIds : t \in TasksOf(T) => \E s \in T :
            /\ process_pool[s].task = t /\ tasks[t].proc = s
            /\ tasks[t].state \notin Gone
  BY <1>0, TasksDistinct, Zenon
<1>b. \A s \in Slots : /\ LiveIn(process_pool', s) <=> LiveIn(process_pool, s)
                       /\ process_pool'[s].task = process_pool[s].task
  BY <1>2, Zenon DEF LiveIn
<1>7. MainOK(ts)
  BY <1>1, <1>4, <1>6, Zenon DEF Core, MainOK, Runnable
<1>8. TaskLinked(ts, process_pool')
  <2> SUFFICES ASSUME NEW t \in TaskIds \ {Main}, ts[t].state \notin Gone
               PROVE  /\ ts[t].proc \in Slots /\ LiveIn(process_pool', ts[t].proc)
                      /\ process_pool'[ts[t].proc].task = t
    BY Zenon DEF TaskLinked
  <2>1. tasks[t].state \notin Gone
    BY <1>4, <1>6, Zenon DEF Gone
  <2>2. /\ tasks[t].proc \in Slots /\ LiveIn(process_pool, tasks[t].proc)
        /\ process_pool[tasks[t].proc].task = t
    BY <1>1, <2>1, Zenon DEF Core, TaskLinked
  <2> QED BY <1>4, <1>b, <2>2, Zenon
<1>9. ProcessLinked(ts, process_pool')
  <2> SUFFICES ASSUME NEW s \in Slots, LiveIn(process_pool, s), process_pool[s].task # NULL
               PROVE  /\ process_pool[s].task # Main
                      /\ ts[process_pool[s].task].proc = s
                      /\ ts[process_pool[s].task].state \notin Gone
    BY <1>b, Zenon DEF ProcessLinked
  <2>1. process_pool[s].task \in TaskIds
    BY <1>1, Zenon DEF Process
  <2>2. /\ process_pool[s].task # Main
        /\ tasks[process_pool[s].task].proc = s
        /\ tasks[process_pool[s].task].state \notin Gone
    BY <1>1, Zenon DEF Core, ProcessLinked
  <2> QED BY <1>4, <2>1, <2>2, Zenon DEF Gone
<1>10. StopAgrees(ts, process_pool')
  <2> SUFFICES ASSUME NEW s \in Slots, LiveIn(process_pool', s),
                      process_pool'[s].task # NULL
               PROVE  process_pool'[s].is_stopped <=>
                         ts[process_pool'[s].task].state = "STOPPED"
    BY Zenon DEF StopAgrees
  <2>1. Live(s) /\ process_pool[s].task # NULL /\ process_pool[s].task \in TaskIds
    BY <1>1, <1>b, Zenon DEF Live, LiveIn, Process
  <2>2. CASE s \in T
    BY <1>2, <1>4, <1>6, <1>b, <2>1, <2>2, Zenon
  <2>3. CASE s \notin T
    <3>1. process_pool[s].is_stopped <=> tasks[process_pool[s].task].state = "STOPPED"
      BY <1>1, <2>1, Zenon DEF Core, StopAgrees, Live, LiveIn
    <3>2. process_pool[s].task \notin TasksOf(T) /\ process_pool'[s] = process_pool[s]
      BY <1>2, <1>6, <2>1, <2>3, Zenon
    <3> QED BY <1>4, <2>1, <3>1, <3>2
  <2> QED BY <2>2, <2>3, Zenon
<1>11. SleepsWell(ts, process_pool')
  BY <1>2, <1>4, SleepKept, SMTT(30)
<1>12. Core(ts, process_pool')
  BY <1>7, <1>8, <1>9, <1>10, <1>11, Zenon DEF Core
<1>13. Good(tasks', task_count, process_pool', current_task', panic')
  <2>1. \A t \in TaskIds : ts[t].state = "RUNNING" => tasks[t].state = "RUNNING"
    BY <1>4, Zenon
  <2>2. (\A s \in T : process_pool[s].task # current_task)
             => ts[current_task].state = "RUNNING"
    BY <1>1, <1>4, Zenon DEF TasksOf
  <2> QED BY <1>2, <1>4, <1>5, <1>12, <1>a, <2>1, <2>2, DeliverIsGood, Zenon
<1> QED BY <1>0, <1>3, <1>13, Zenon
        DEF IInv, TypeOK, PidsUnique, OneRunning, PoolOK, Good

(* SIGCONT on live, stopped processes T. *)
Released(T) == [t \in TaskIds |->
                   IF t \in TasksOf(T) THEN [tasks[t] EXCEPT !.state = "READY"]
                                       ELSE tasks[t]]

ContinueStep(T) ==
    /\ process_pool' = [s \in Slots |->
          IF s \in T THEN [process_pool[s] EXCEPT !.is_stopped = FALSE]
                     ELSE process_pool[s]]
    /\ Deliver(T, Released(T))

(* SIGCONT to any set of stopped processes keeps the invariant. *)
LEMMA ContinuePreserves ==
  ASSUME IInv, panic = "none", NEW T \in SUBSET Slots, \A s \in T : Continuable(s),
         ContinueStep(T)
  PROVE  IInv'
<1> DEFINE ts == Released(T)
<1>0. UNCHANGED <<task_count, next_pid, foreground_pids>> /\ \A s \in T : Live(s)
  BY Zenon DEF ContinueStep, Deliver, Continuable
<1>1. /\ process_pool \in [Slots -> Process] /\ current_task \in TaskIds
      /\ Core(tasks, process_pool) /\ tasks \in [TaskIds -> Task]
      /\ Main \in TaskIds /\ Used(tasks, task_count)
      /\ tasks[current_task].state = "RUNNING"
  BY ProcAssumption, CurrentFacts DEF IInv, TypeOK, Main, TaskIds
<1>2. /\ process_pool' \in [Slots -> Process]
      /\ \A s \in Slots :
            /\ process_pool'[s].pid = process_pool[s].pid
            /\ process_pool'[s].parent_pid = process_pool[s].parent_pid
            /\ process_pool'[s].task = process_pool[s].task
            /\ process_pool'[s].is_zombie = process_pool[s].is_zombie
      /\ \A s \in Slots : s \in T => process_pool'[s].is_stopped = FALSE
      /\ \A s \in Slots : s \notin T => process_pool'[s] = process_pool[s]
  <2>1. ASSUME NEW s \in Slots, s \in T
        PROVE  /\ process_pool'[s] \in Process
               /\ process_pool'[s].pid = process_pool[s].pid
               /\ process_pool'[s].parent_pid = process_pool[s].parent_pid
               /\ process_pool'[s].task = process_pool[s].task
               /\ process_pool'[s].is_zombie = process_pool[s].is_zombie
               /\ process_pool'[s].is_stopped = FALSE
    <3>1. /\ process_pool'[s] = [process_pool[s] EXCEPT !.is_stopped = FALSE]
          /\ process_pool[s] \in Process
      BY <1>1, <2>1, Zenon DEF ContinueStep
    <3> QED BY <3>1, Zenon DEF Process
  <2>2. \A s \in Slots : s \notin T => process_pool'[s] = process_pool[s]
    BY Zenon DEF ContinueStep
  <2>3. \A s \in Slots : process_pool'[s] \in Process
    BY <1>1, <2>1, <2>2, Zenon
  <2>4. process_pool' \in [Slots -> Process]
    BY <2>3, Zenon DEF ContinueStep
  <2> QED BY <2>1, <2>2, <2>4, Zenon
<1>3. PoolOK(process_pool', next_pid')
  <2>1. \A s \in Slots : /\ process_pool'[s].pid = process_pool[s].pid
                         /\ process_pool[s].pid # 0 \/ process_pool'[s] = process_pool[s]
    BY <1>0, <1>2, Zenon DEF Live
  <2> QED BY <1>0, <1>2, <2>1, PoolKept, Zenon
<1>4. /\ ts \in [TaskIds -> Task]
      /\ \A t \in TaskIds : /\ ts[t].proc = tasks[t].proc
                            /\ ts[t].kctx = tasks[t].kctx
                            /\ ts[t].wait_chan = tasks[t].wait_chan
      /\ \A t \in TaskIds : t \in TasksOf(T) => ts[t].state = "READY"
      /\ \A t \in TaskIds : t \notin TasksOf(T) => ts[t].state = tasks[t].state
  BY <1>1 DEF Released, Task, States
<1>5. Deliver(T, ts)
  BY Zenon DEF ContinueStep
<1> HIDE DEF ts
<1>6. /\ Main \notin TasksOf(T)
      /\ \A s \in Slots : Live(s) /\ process_pool[s].task # NULL =>
            (process_pool[s].task \in TasksOf(T) <=> s \in T)
      /\ \A t \in TaskIds : t \in TasksOf(T) => tasks[t].state \notin Gone
  BY <1>0, TasksDistinct, Zenon
<1>7. \A s \in Slots : /\ LiveIn(process_pool', s) <=> LiveIn(process_pool, s)
                       /\ process_pool'[s].task = process_pool[s].task
  BY <1>2, Zenon DEF LiveIn
<1>8. Used(ts, task_count)
  BY <1>1, <1>4, <1>6, Zenon DEF Used, Gone
<1>9. MainOK(ts)
  BY <1>1, <1>4, <1>6, Zenon DEF Core, MainOK, Runnable
<1>10. TaskLinked(ts, process_pool')
  <2> SUFFICES ASSUME NEW t \in TaskIds \ {Main}, ts[t].state \notin Gone
               PROVE  /\ ts[t].proc \in Slots /\ LiveIn(process_pool', ts[t].proc)
                      /\ process_pool'[ts[t].proc].task = t
    BY Zenon DEF TaskLinked
  <2>1. tasks[t].state \notin Gone
    BY <1>4, <1>6, Zenon
  <2> QED BY <1>1, <1>4, <1>7, <2>1 DEF Core, TaskLinked
<1>11. ProcessLinked(ts, process_pool')
  <2> SUFFICES ASSUME NEW s \in Slots, LiveIn(process_pool, s), process_pool[s].task # NULL
               PROVE  /\ process_pool[s].task # Main
                      /\ ts[process_pool[s].task].proc = s
                      /\ ts[process_pool[s].task].state \notin Gone
    BY <1>7, Zenon DEF ProcessLinked
  <2>1. process_pool[s].task \in TaskIds
    BY <1>1, Zenon DEF Process
  <2>2. /\ process_pool[s].task # Main
        /\ tasks[process_pool[s].task].proc = s
        /\ tasks[process_pool[s].task].state \notin Gone
    BY <1>1, Zenon DEF Core, ProcessLinked
  <2> QED BY <1>4, <2>1, <2>2, Zenon DEF Gone
<1>12. StopAgrees(ts, process_pool')
  <2> SUFFICES ASSUME NEW s \in Slots, LiveIn(process_pool', s),
                      process_pool'[s].task # NULL
               PROVE  process_pool'[s].is_stopped <=>
                         ts[process_pool'[s].task].state = "STOPPED"
    BY Zenon DEF StopAgrees
  <2>1. Live(s) /\ process_pool[s].task # NULL /\ process_pool[s].task \in TaskIds
    BY <1>1, <1>7, Zenon DEF Live, LiveIn, Process
  <2>2. CASE s \in T
    BY <1>2, <1>4, <1>6, <1>7, <2>1, <2>2, Zenon
  <2>3. CASE s \notin T
    <3>1. process_pool[s].is_stopped <=> tasks[process_pool[s].task].state = "STOPPED"
      BY <1>1, <2>1, Zenon DEF Core, StopAgrees, Live, LiveIn
    <3>2. process_pool[s].task \notin TasksOf(T) /\ process_pool'[s] = process_pool[s]
      BY <1>2, <1>6, <2>1, <2>3, Zenon
    <3> QED BY <1>4, <2>1, <3>1, <3>2, Zenon
  <2> QED BY <2>2, <2>3, Zenon
<1>13. SleepsWell(ts, process_pool')
  <2> SUFFICES ASSUME NEW u \in TaskIds, ts[u].state = "BLOCKED"
               PROVE  /\ ts[u].kctx # 0
                      /\ ts[u].wait_chan = ts[u].proc
                      /\ \E c \in Slots :
                            KidOf(process_pool', c, ts[u].proc, ts[u].kctx)
                      /\ \A c \in Slots :
                            KidOf(process_pool', c, ts[u].proc, ts[u].kctx)
                               => ~HasNews(process_pool', c)
    BY Zenon DEF SleepsWell
  <2>1. tasks[u].state = "BLOCKED" /\ SleepsWell(tasks, process_pool)
    BY <1>1, <1>4, Zenon DEF Core
  <2>2. tasks[u].proc \in Slots
    BY <1>1, <2>1, Zenon DEF Core, MainOK, Runnable, TaskLinked, Gone
  <2>3. \A c \in Slots : KidOf(process_pool', c, tasks[u].proc, tasks[u].kctx)
                            <=> KidOf(process_pool, c, tasks[u].proc, tasks[u].kctx)
    BY <1>2, <2>2, Zenon DEF KidOf
  <2>4. \A c \in Slots : HasNews(process_pool', c) => HasNews(process_pool, c)
    BY <1>2, Zenon DEF HasNews
  <2> QED BY <1>4, <2>1, <2>3, <2>4, Zenon DEF SleepsWell
<1>14. Core(ts, process_pool')
  BY <1>9, <1>10, <1>11, <1>12, <1>13, Zenon DEF Core
<1>15. Good(tasks', task_count, process_pool', current_task', panic')
  <2>1. \A t \in TaskIds : ts[t].state = "RUNNING" => tasks[t].state = "RUNNING"
    BY <1>4, Zenon
  <2>2. (\A s \in T : process_pool[s].task # current_task)
             => ts[current_task].state = "RUNNING"
    BY <1>1, <1>4, Zenon DEF TasksOf
  <2> QED BY <1>2, <1>4, <1>5, <1>8, <1>14, <2>1, <2>2, DeliverIsGood, Zenon
<1> QED BY <1>0, <1>3, <1>15, Zenon
        DEF IInv, TypeOK, PidsUnique, OneRunning, PoolOK, Good

(* Any signal to any set of processes. *)
LEMMA SignalPreserves ==
  ASSUME IInv, panic = "none", NEW T \in SUBSET Slots,
         NEW sig \in {"FATAL", "TSTP", "CONT"}, process_send_signal(T, sig)
  PROVE  IInv'
<1>1. CASE sig = "FATAL"
  <2>1. process_terminate({s \in T : Killable(s)}, "signaled")
    BY <1>1, Zenon DEF process_send_signal
  <2> QED BY <2>1, TerminatePreserves, Zenon DEF Killable
<1>2. CASE sig = "TSTP"
  <2>1. StopStep({s \in T : Stoppable(s)})
    BY <1>2, Zenon DEF process_send_signal, StopStep
  <2> QED BY <2>1, StopPreserves, Zenon
<1>3. CASE sig = "CONT"
  <2>1. ContinueStep({s \in T : Continuable(s)})
    BY <1>3, Zenon DEF process_send_signal, ContinueStep, Released, TasksOf
  <2> QED BY <2>1, ContinuePreserves, Zenon
<1> QED BY <1>1, <1>2, <1>3, Zenon

-----------------------------------------------------------------------------
(* waitpid *)

(* Returning to user mode without touching the process table. *)
LEMMA KctxCleared ==
  ASSUME IInv, panic = "none", NEW pp \in [Slots -> Process],
         current_task # Main,
         TaskLinked(tasks, pp), ProcessLinked(tasks, pp), StopAgrees(tasks, pp),
         SleepsWell(tasks, pp)
  PROVE  Good([tasks EXCEPT ![current_task].kctx = 0], task_count, pp, current_task, panic)
<1> DEFINE ts == [tasks EXCEPT ![current_task].kctx = 0]
<1>1. /\ tasks \in [TaskIds -> Task] /\ current_task \in TaskIds /\ panic \in Halts
      /\ MainOK(tasks) /\ Used(tasks, task_count) /\ Main \in TaskIds
      /\ \A t \in TaskIds : tasks[t].state = "RUNNING" <=> t = current_task
      /\ \A s \in Slots : pp[s].task \in TaskIds \cup {NULL}
  BY ProcAssumption DEF IInv, TypeOK, Core, OneRunning, Main, TaskIds, Process
<1>2. /\ ts \in [TaskIds -> Task]
      /\ \A t \in TaskIds : /\ ts[t].proc = tasks[t].proc
                            /\ ts[t].state = tasks[t].state
                            /\ ts[t].wait_chan = tasks[t].wait_chan
      /\ \A t \in TaskIds : t # current_task => ts[t] = tasks[t]
  BY <1>1 DEF Task
<1> HIDE DEF ts
<1>3. MainOK(ts)
  BY <1>1, <1>2, Zenon DEF MainOK
<1>4. TaskLinked(ts, pp)
  BY <1>2, Zenon DEF TaskLinked
<1>5. ProcessLinked(ts, pp) /\ StopAgrees(ts, pp)
  BY <1>1, <1>2 DEF ProcessLinked, StopAgrees
<1>6. SleepsWell(ts, pp)
  BY <1>1, <1>2, ZenonT(60) DEF SleepsWell
<1>7. Used(ts, task_count)
  BY <1>1, <1>2, Zenon DEF Used
<1> QED BY <1>1, <1>2, <1>3, <1>4, <1>5, <1>6, <1>7, Zenon DEF Good, Core, ts

(* Reporting a child leaves every other waiter with its children. *)
LEMMA ReportKeeps ==
  ASSUME IInv, panic = "none", current_task # Main, NEW target,
         NEW c \in Slots, KidOf(process_pool, c, Self, target),
         HasNews(process_pool, c)
  PROVE  LET pp == [process_pool EXCEPT ![c] = Reported(c)]
         IN  /\ PoolOK(pp, next_pid)
             /\ TaskLinked(tasks, pp) /\ ProcessLinked(tasks, pp)
             /\ StopAgrees(tasks, pp) /\ SleepsWell(tasks, pp)
<1> DEFINE pp == [process_pool EXCEPT ![c] = Reported(c)]
<1>1. /\ process_pool \in [Slots -> Process] /\ PidsUnique
      /\ Core(tasks, process_pool) /\ current_task \in TaskIds
      /\ \A t \in TaskIds : tasks[t].state = "RUNNING" <=> t = current_task
  BY Zenon DEF IInv, TypeOK, OneRunning
<1>2. /\ Self \in Slots /\ LiveIn(process_pool, Self)
      /\ process_pool[Self].task = current_task
  <2>1. tasks[current_task].state \notin Gone
    BY <1>1, Zenon DEF Gone
  <2> QED BY <1>1, <2>1, Zenon DEF Core, TaskLinked, Self
<1>3. CASE process_pool[c].is_zombie
  <2>1. /\ pp \in [Slots -> Process] /\ pp[c] = ZeroProcess
        /\ \A s \in Slots : s # c => pp[s] = process_pool[s]
    <3>1. ZeroProcess \in Process /\ Reported(c) = ZeroProcess
      BY <1>3, Zenon DEF ZeroProcess, Process, Reported
    <3> QED BY <1>1, <3>1, Zenon
  <2> HIDE DEF pp
  <2>2. ~LiveIn(pp, c) /\ ~LiveIn(process_pool, c) /\ pp[c].pid = 0
    <3>1. pp[c].pid = 0
      BY <2>1 DEF ZeroProcess
    <3> QED BY <1>3, <3>1, Zenon DEF LiveIn
  <2>3. PoolOK(pp, next_pid)
    <3>1. \A s \in Slots : \/ pp[s] = ZeroProcess
                           \/ /\ pp[s].pid = process_pool[s].pid
                              /\ process_pool[s].pid # 0 \/ pp[s] = process_pool[s]
      BY <2>1, Zenon
    <3> QED BY <2>1, <3>1, PoolKept, Zenon
  <2>4. TaskLinked(tasks, pp)
    <3> SUFFICES ASSUME NEW t \in TaskIds \ {Main}, tasks[t].state \notin Gone
                 PROVE  /\ tasks[t].proc \in Slots /\ LiveIn(pp, tasks[t].proc)
                        /\ pp[tasks[t].proc].task = t
      BY Zenon DEF TaskLinked
    <3>1. /\ tasks[t].proc \in Slots /\ LiveIn(process_pool, tasks[t].proc)
          /\ process_pool[tasks[t].proc].task = t
      BY <1>1, Zenon DEF Core, TaskLinked
    <3>2. pp[tasks[t].proc] = process_pool[tasks[t].proc]
      BY <2>1, <2>2, <3>1, Zenon
    <3> QED BY <3>1, <3>2, Zenon DEF LiveIn
  <2>5. ProcessLinked(tasks, pp) /\ StopAgrees(tasks, pp)
    <3>1. \A s \in Slots : LiveIn(pp, s) => LiveIn(process_pool, s) /\ pp[s] = process_pool[s]
      BY <2>1, <2>2, Zenon DEF LiveIn
    <3>2. ProcessLinked(tasks, pp)
      BY <1>1, <3>1, Zenon DEF Core, ProcessLinked
    <3>3. StopAgrees(tasks, pp)
      BY <1>1, <3>1, Zenon DEF Core, StopAgrees
    <3> QED BY <3>2, <3>3, Zenon
  <2>6. SleepsWell(tasks, pp)
    <3> SUFFICES ASSUME NEW u \in TaskIds, tasks[u].state = "BLOCKED"
                 PROVE  /\ tasks[u].kctx # 0
                        /\ tasks[u].wait_chan = tasks[u].proc
                        /\ \E d \in Slots : KidOf(pp, d, tasks[u].proc, tasks[u].kctx)
                        /\ \A d \in Slots : KidOf(pp, d, tasks[u].proc, tasks[u].kctx)
                                               => ~HasNews(pp, d)
      BY Zenon DEF SleepsWell
    <3>1. /\ tasks[u].proc \in Slots /\ LiveIn(process_pool, tasks[u].proc)
          /\ process_pool[tasks[u].proc].task = u
      BY <1>1, Zenon DEF Core, MainOK, Runnable, TaskLinked, Gone
    <3>2. u # current_task /\ tasks[u].proc # c
      BY <1>1, <2>2, <3>1, Zenon
    <3>3. tasks[u].proc # Self
      BY <1>2, <3>1, <3>2, Zenon
    <3>4. ~KidOf(process_pool, c, tasks[u].proc, tasks[u].kctx)
      BY <1>1, <1>2, <3>1, <3>3, Zenon DEF KidOf, PidsUnique, LiveIn
    <3>5. \A d \in Slots : KidOf(pp, d, tasks[u].proc, tasks[u].kctx)
                             <=> KidOf(process_pool, d, tasks[u].proc, tasks[u].kctx)
      BY <2>1, <2>2, <3>1, <3>2, <3>4, Zenon DEF KidOf
    <3>6. \A d \in Slots : KidOf(pp, d, tasks[u].proc, tasks[u].kctx) => pp[d] = process_pool[d]
      BY <2>1, <3>4, <3>5, Zenon
    <3> QED BY <1>1, <3>5, <3>6, Zenon DEF Core, SleepsWell, HasNews
  <2> QED BY <2>3, <2>4, <2>5, <2>6, Zenon DEF pp
<1>4. CASE ~process_pool[c].is_zombie
  <2>1. /\ pp \in [Slots -> Process]
        /\ \A s \in Slots : /\ pp[s].pid = process_pool[s].pid
                            /\ pp[s].parent_pid = process_pool[s].parent_pid
                            /\ pp[s].task = process_pool[s].task
                            /\ pp[s].is_zombie = process_pool[s].is_zombie
                            /\ pp[s].is_stopped = process_pool[s].is_stopped
        /\ pp[c].stop_reported = TRUE
        /\ \A s \in Slots : s # c => pp[s] = process_pool[s]
    <3> DEFINE r == [process_pool[c] EXCEPT !.stop_reported = TRUE]
    <3>1. Reported(c) = r
      BY <1>4, Zenon DEF Reported
    <3>2. /\ r \in Process
          /\ r.pid = process_pool[c].pid
          /\ r.parent_pid = process_pool[c].parent_pid
          /\ r.task = process_pool[c].task
          /\ r.is_zombie = process_pool[c].is_zombie
          /\ r.is_stopped = process_pool[c].is_stopped
          /\ r.stop_reported = TRUE
      BY <1>1, Zenon DEF Process
    <3> HIDE DEF r
    <3>3. pp = [process_pool EXCEPT ![c] = r]
      BY <3>1, Zenon
    <3>4. pp[c] = r /\ pp \in [Slots -> Process]
      BY <1>1, <3>2, <3>3, Zenon
    <3>5. \A s \in Slots : s # c => pp[s] = process_pool[s]
      BY <1>1, <3>3, Zenon
    <3> QED BY <3>2, <3>4, <3>5, Zenon
  <2> HIDE DEF pp
  <2>2. PoolOK(pp, next_pid)
    <3>1. \A s \in Slots : /\ pp[s].pid = process_pool[s].pid
                           /\ process_pool[s].pid # 0 \/ pp[s] = process_pool[s]
      BY <2>1, Zenon DEF KidOf
    <3> QED BY <2>1, <3>1, PoolKept, Zenon
  <2>3. \A s \in Slots : LiveIn(pp, s) <=> LiveIn(process_pool, s)
    BY <2>1, Zenon DEF LiveIn
  <2>4. TaskLinked(tasks, pp)
    <3>1. \A s \in Slots : pp[s].task = process_pool[s].task
      BY <2>1, Zenon
    <3> QED BY <1>1, <2>3, <3>1, Zenon DEF Core, TaskLinked
  <2>5. ProcessLinked(tasks, pp) /\ StopAgrees(tasks, pp)
    <3>1. \A s \in Slots : /\ pp[s].task = process_pool[s].task
                           /\ pp[s].is_stopped = process_pool[s].is_stopped
      BY <2>1, Zenon
    <3>2. ProcessLinked(tasks, pp)
      BY <1>1, <2>3, <3>1, Zenon DEF Core, ProcessLinked
    <3>3. StopAgrees(tasks, pp)
      BY <1>1, <2>3, <3>1, Zenon DEF Core, StopAgrees
    <3> QED BY <3>2, <3>3, Zenon
  <2>6. SleepsWell(tasks, pp)
    <3> SUFFICES ASSUME NEW u \in TaskIds, tasks[u].state = "BLOCKED"
                 PROVE  /\ tasks[u].kctx # 0
                        /\ tasks[u].wait_chan = tasks[u].proc
                        /\ \E d \in Slots : KidOf(pp, d, tasks[u].proc, tasks[u].kctx)
                        /\ \A d \in Slots : KidOf(pp, d, tasks[u].proc, tasks[u].kctx)
                                               => ~HasNews(pp, d)
      BY Zenon DEF SleepsWell
    <3>1. tasks[u].proc \in Slots
      BY <1>1, Zenon DEF Core, MainOK, Runnable, TaskLinked, Gone
    <3>2. \A d \in Slots : KidOf(pp, d, tasks[u].proc, tasks[u].kctx)
                             <=> KidOf(process_pool, d, tasks[u].proc, tasks[u].kctx)
      BY <2>1, <3>1, Zenon DEF KidOf
    <3>3. \A d \in Slots : HasNews(pp, d) => HasNews(process_pool, d)
      BY <2>1, Zenon DEF HasNews
    <3> QED BY <1>1, <3>2, <3>3, Zenon DEF Core, SleepsWell
  <2> QED BY <2>2, <2>4, <2>5, <2>6, Zenon DEF pp
<1> QED BY <1>3, <1>4, Zenon

(* One round of process_waitpid's loop keeps the invariant. *)
LEMMA WaitpidPreserves ==
  ASSUME IInv, panic = "none", current_task # Main,
         NEW target \in Pids \cup {ANY}, process_waitpid(target)
  PROVE  IInv'
<1>0. UNCHANGED <<task_count, next_pid, foreground_pids>>
  BY Zenon DEF process_waitpid
<1>1. /\ tasks \in [TaskIds -> Task] /\ current_task \in TaskIds /\ panic \in Halts
      /\ process_pool \in [Slots -> Process] /\ Core(tasks, process_pool)
      /\ Used(tasks, task_count) /\ PoolOK(process_pool, next_pid)
      /\ \A t \in TaskIds : tasks[t].state = "RUNNING" <=> t = current_task
  BY Zenon DEF IInv, TypeOK, OneRunning, PoolOK, PidsUnique
<1>2. /\ Self \in Slots /\ LiveIn(process_pool, Self)
      /\ process_pool[Self].task = current_task
  <2>1. tasks[current_task].state \notin Gone
    BY <1>1, Zenon DEF Gone
  <2> QED BY <1>1, <2>1, Zenon DEF Core, TaskLinked, Self
<1>3. /\ \A c \in Slots : c \in ChildrenOf(Self, target)
                             <=> KidOf(process_pool, c, Self, target)
      /\ ChildrenOf(Self, target) \subseteq Slots
      /\ \A c \in Slots : Reportable(c) <=> HasNews(process_pool, c)
  BY Zenon DEF ChildrenOf, KidOf, Reportable, HasNews
<1>4. ASSUME NEW c \in {d \in ChildrenOf(Self, target) : Reportable(d)},
             process_pool' = [process_pool EXCEPT ![c] = Reported(c)],
             tasks' = [tasks EXCEPT ![current_task].kctx = 0],
             UNCHANGED <<current_task, panic>>
      PROVE  /\ PoolOK(process_pool', next_pid)
             /\ Good(tasks', task_count, process_pool', current_task', panic')
  <2> DEFINE pp == [process_pool EXCEPT ![c] = Reported(c)]
  <2>1. c \in Slots /\ KidOf(process_pool, c, Self, target) /\ HasNews(process_pool, c)
    BY <1>3, Zenon
  <2>2. /\ PoolOK(pp, next_pid)
        /\ TaskLinked(tasks, pp) /\ ProcessLinked(tasks, pp)
        /\ StopAgrees(tasks, pp) /\ SleepsWell(tasks, pp)
    BY <2>1, ReportKeeps, Zenon
  <2> HIDE DEF pp
  <2>3. pp \in [Slots -> Process]
    BY <2>2, Zenon DEF PoolOK
  <2>4. Good([tasks EXCEPT ![current_task].kctx = 0], task_count, pp, current_task, panic)
    BY <2>2, <2>3, KctxCleared, Zenon
  <2> QED BY <1>4, <2>2, <2>4, Zenon DEF pp
<1>5. ASSUME tasks' = [tasks EXCEPT ![current_task].kctx = 0],
             UNCHANGED <<current_task, process_pool, panic>>
      PROVE  /\ PoolOK(process_pool', next_pid)
             /\ Good(tasks', task_count, process_pool', current_task', panic')
  <2>1. Good([tasks EXCEPT ![current_task].kctx = 0], task_count, process_pool,
             current_task, panic)
    BY <1>1, KctxCleared, Zenon DEF Core
  <2> QED BY <1>1, <1>5, <2>1, Zenon
<1>6. ASSUME ChildrenOf(Self, target) # {},
             {d \in ChildrenOf(Self, target) : Reportable(d)} = {},
             yield([tasks EXCEPT ![current_task].kctx = target,
                                 ![current_task].wait_chan = Self,
                                 ![current_task].state = "BLOCKED"]),
             UNCHANGED process_pool
      PROVE  /\ PoolOK(process_pool', next_pid)
             /\ Good(tasks', task_count, process_pool', current_task', panic')
  <2> DEFINE ts == [tasks EXCEPT ![current_task].kctx = target,
                                 ![current_task].wait_chan = Self,
                                 ![current_task].state = "BLOCKED"]
  <2>1. /\ ts \in [TaskIds -> Task]
        /\ ts[current_task].state = "BLOCKED" /\ ts[current_task].kctx = target
        /\ ts[current_task].wait_chan = Self
        /\ \A t \in TaskIds : ts[t].proc = tasks[t].proc
        /\ \A t \in TaskIds : t # current_task => ts[t] = tasks[t]
    <3> DEFINE r == [tasks[current_task] EXCEPT !.kctx = target, !.wait_chan = Self,
                                                !.state = "BLOCKED"]
    <3>1. ts = [tasks EXCEPT ![current_task] = r]
      BY <1>1, Zenon
    <3>2. /\ r \in Task /\ r.state = "BLOCKED" /\ r.kctx = target
          /\ r.wait_chan = Self /\ r.proc = tasks[current_task].proc
      <4>1. /\ tasks[current_task] \in Task
            /\ target \in Pids \cup {0, ANY} /\ Self \in Slots
        BY <1>1, <1>2, Zenon
      <4> HIDE DEF ts
      <4> QED BY <4>1, Zenon DEF Task, States
    <3> HIDE DEF r, ts
    <3> QED BY <1>1, <3>1, <3>2, Zenon
  <2>2. yield(ts)
    BY <1>6, Zenon
  <2> HIDE DEF ts
  <2>3. MainOK(ts)
    BY <1>1, <2>1, ProcAssumption DEF Core, MainOK, Main, TaskIds
  <2>4. TaskLinked(ts, process_pool)
    BY <1>1, <2>1, Zenon DEF Core, TaskLinked, Gone
  <2>5. ProcessLinked(ts, process_pool) /\ StopAgrees(ts, process_pool)
    <3> SUFFICES ASSUME NEW s \in Slots, LiveIn(process_pool, s),
                        process_pool[s].task # NULL
                 PROVE  /\ process_pool[s].task # Main
                        /\ ts[process_pool[s].task].proc = s
                        /\ ts[process_pool[s].task].state \notin Gone
                        /\ process_pool[s].is_stopped <=>
                              ts[process_pool[s].task].state = "STOPPED"
      BY Zenon DEF ProcessLinked, StopAgrees
    <3> DEFINE t == process_pool[s].task
    <3>1. /\ t \in TaskIds /\ t # Main /\ tasks[t].proc = s
          /\ tasks[t].state \notin Gone
          /\ process_pool[s].is_stopped <=> tasks[t].state = "STOPPED"
      BY <1>1, Zenon DEF Core, ProcessLinked, StopAgrees, Process
    <3>2. CASE t = current_task
      BY <1>1, <2>1, <3>1, <3>2, Zenon DEF Gone
    <3>3. CASE t # current_task
      BY <2>1, <3>1, <3>3, Zenon
    <3> QED BY <3>2, <3>3, Zenon
  <2>6. SleepsWell(ts, process_pool)
    <3> SUFFICES ASSUME NEW u \in TaskIds, ts[u].state = "BLOCKED"
                 PROVE  /\ ts[u].kctx # 0
                        /\ ts[u].wait_chan = ts[u].proc
                        /\ \E d \in Slots : KidOf(process_pool, d, ts[u].proc, ts[u].kctx)
                        /\ \A d \in Slots : KidOf(process_pool, d, ts[u].proc, ts[u].kctx)
                                               => ~HasNews(process_pool, d)
      BY Zenon DEF SleepsWell
    <3>1. CASE u = current_task
      <4>1. target # 0 /\ ts[u].proc = Self
        BY <2>1, <3>1 DEF Pids, ANY, Self
      <4> QED BY <1>3, <1>6, <2>1, <3>1, <4>1, Zenon
    <3>2. CASE u # current_task
      BY <1>1, <2>1, <3>2, Zenon DEF Core, SleepsWell
    <3> QED BY <3>1, <3>2, Zenon
  <2>7. Used(ts, task_count)
    BY <1>1, <2>1, Zenon DEF Used
  <2>8. Core(ts, process_pool)
    BY <2>3, <2>4, <2>5, <2>6, Zenon DEF Core
  <2>9. \A t \in TaskIds : ts[t].state = "RUNNING" => t = current_task
    BY <1>1, <2>1, Zenon
  <2>10. Good(tasks', task_count, process_pool, current_task', panic')
    BY <1>1, <2>1, <2>2, <2>7, <2>8, <2>9, YieldIsGood, Zenon
  <2> QED BY <1>1, <1>6, <2>10, Zenon
<1>7. /\ PoolOK(process_pool', next_pid)
      /\ Good(tasks', task_count, process_pool', current_task', panic')
  BY <1>4, <1>5, <1>6, Zenon DEF process_waitpid
<1> QED BY <1>0, <1>7, Zenon
        DEF IInv, TypeOK, PidsUnique, OneRunning, PoolOK, Good

-----------------------------------------------------------------------------
(* So does every step of the kernel. *)
LEMMA StepPreserves ==
  ASSUME IInv, [Next]_vars
  PROVE  IInv'
<1>0. ASSUME UNCHANGED vars PROVE IInv'
  BY <1>0, Zenon DEF vars, IInv, TypeOK, PidsUnique, OneRunning
<1>1. ASSUME do_fork PROVE IInv'
  BY <1>1, ForkPreserves, Zenon
<1>2. ASSUME sys_exit PROVE IInv'
  <2>1. panic = "none" /\ Self \in Slots /\ LiveIn(process_pool, Self)
    BY <1>2, CurrentFacts, Zenon DEF sys_exit, InUser, Interruptible
  <2>2. PICK code \in {"exited", "signaled"} : process_terminate({Self}, code)
    BY <1>2, Zenon DEF sys_exit
  <2>3. {Self} \in SUBSET Slots /\ \A s \in {Self} : Live(s)
    BY <2>1, Zenon DEF Live, LiveIn
  <2> HIDE DEF Self
  <2> QED BY <2>1, <2>2, <2>3, TerminatePreserves, Zenon
<1>3. ASSUME sys_kill PROVE IInv'
  <2>1. PICK pid \in Pids, sig \in {"FATAL", "TSTP", "CONT"} :
            process_send_signal(process_find_by_pid(pid), sig)
    BY <1>3, Zenon DEF sys_kill
  <2>2. process_find_by_pid(pid) \in SUBSET Slots /\ panic = "none"
    BY <1>3, Zenon DEF process_find_by_pid, sys_kill, InUser, Interruptible
  <2> QED BY <2>1, <2>2, SignalPreserves, Zenon
<1>4. ASSUME process_set_foreground PROVE IInv'
  BY <1>4, Zenon DEF process_set_foreground, IInv, TypeOK, PidsUnique, OneRunning
<1>5. ASSUME process_signal_foreground PROVE IInv'
  <2> DEFINE T == {s \in Slots : process_pool[s].pid \in foreground_pids}
  <2>1. PICK sig \in {"FATAL", "TSTP"} : process_send_signal(T, sig)
    BY <1>5, Zenon DEF process_signal_foreground
  <2>2. T \in SUBSET Slots /\ panic = "none"
    BY <1>5, Zenon DEF process_signal_foreground, Interruptible
  <2> HIDE DEF T
  <2> QED BY <2>1, <2>2, SignalPreserves, Zenon
<1>6. ASSUME irq_timer PROVE IInv'
  <2>1. /\ yield(tasks) /\ UNCHANGED <<task_count, process_pool, next_pid, foreground_pids>>
        /\ panic = "none"
    BY <1>6, Zenon DEF irq_timer, Interruptible
  <2>2. Good(tasks', task_count, process_pool, current_task', panic')
    BY <2>1, CurrentFacts, YieldIsGood, Zenon DEF IInv, TypeOK
  <2> QED BY <2>1, <2>2, Zenon
          DEF IInv, TypeOK, PidsUnique, OneRunning, Good
<1>7. ASSUME sys_waitpid PROVE IInv'
  <2>1. PICK target \in Pids \cup {ANY} : process_waitpid(target)
    BY <1>7, Zenon DEF sys_waitpid
  <2>2. panic = "none" /\ current_task # Main
    BY <1>7, CurrentFacts, Zenon DEF sys_waitpid, InUser, Interruptible
  <2> QED BY <2>1, <2>2, WaitpidPreserves, Zenon
<1>8. ASSUME resume_waitpid PROVE IInv'
  <2>1. panic = "none" /\ tasks[current_task].kctx # 0
    BY <1>8, Zenon DEF resume_waitpid
  <2>2. current_task # Main /\ tasks[current_task].kctx \in Pids \cup {ANY}
    BY <2>1, CurrentFacts, Zenon DEF IInv, TypeOK, Task
  <2> QED BY <1>8, <2>1, <2>2, WaitpidPreserves, Zenon DEF resume_waitpid
<1>9. ASSUME halted PROVE IInv'
  BY <1>0, <1>9, Zenon DEF halted
<1> QED BY <1>0, <1>1, <1>2, <1>3, <1>4, <1>5, <1>6, <1>7, <1>8, <1>9, Zenon DEF Next

(* The inductive invariant holds in every reachable state, whatever the    *)
(* sizes of the task and process tables.                                   *)
THEOREM Invariant == Spec => []IInv
<1>1. Init => IInv
  BY InitEstablishes, Zenon
<1>2. IInv /\ [Next]_vars => IInv'
  BY StepPreserves, Zenon
<1> QED BY <1>1, <1>2, PTL DEF Spec

(* For tables of any size, the task table, the process table and the      *)
(* counters keep their types, and a free process slot is all zero.         *)
THEOREM ProcTypeOK == Spec => []TypeOK
<1>1. IInv => TypeOK
  BY Zenon DEF IInv
<1> QED BY <1>1, Invariant, PTL

(* yield leaves exactly one task RUNNING, the current one. *)
THEOREM ProcOneRunning == Spec => []OneRunning
<1>1. IInv => OneRunning
  BY Zenon DEF IInv
<1> QED BY <1>1, Invariant, PTL

(* A live process and its task always point at each other, so a recycled   *)
(* task slot is never that of a live process.                              *)
THEOREM ProcLiveLinkage == Spec => []LiveLinkage
<1>1. IInv => LiveLinkage
  BY CoreImplies, Zenon DEF IInv
<1> QED BY <1>1, Invariant, PTL

(* A process is marked stopped exactly while its task is parked. *)
THEOREM ProcStoppedIsParked == Spec => []StoppedIsParked
<1>1. IInv => StoppedIsParked
  BY CoreImplies, Zenon DEF IInv
<1> QED BY <1>1, Invariant, PTL

(* Nobody sleeps in waitpid with a child's news waiting, nor without a     *)
(* child to wait for.                                                      *)
THEOREM ProcNoLostWakeup == Spec => []NoLostWakeup
<1>1. IInv => NoLostWakeup
  BY CoreImplies, Zenon DEF IInv
<1> QED BY <1>1, Invariant, PTL

(* fork never hands out a pid twice. *)
THEOREM ProcPidsUnique == Spec => []PidsUnique
<1>1. IInv => PidsUnique
  BY Zenon DEF IInv
<1> QED BY <1>1, Invariant, PTL

-----------------------------------------------------------------------------
(* ring lists the tasks of S in the order of their links, from main on. *)
Lists(ring, ts, S, n) ==
    /\ ring \in [0 .. n - 1 -> S]
    /\ \A t \in S : \E k \in 0 .. n - 1 : ring[k] = t
    /\ \A j, k \in 0 .. n - 1 : ring[j] = ring[k] => j = k
    /\ ring[0] = Main
    /\ \A k \in 0 .. n - 2 : ts[ring[k]].next = ring[k + 1]
    /\ ts[ring[n - 1]].next = Main

OneCycle(ts, S, n) == \E ring : Lists(ring, ts, S, n)

-----------------------------------------------------------------------------
(* A non-empty set of naturals has a least element. *)
LEMMA LeastExists ==
  ASSUME NEW S \in SUBSET Nat, S # {}
  PROVE  \E m \in S : \A k \in S : m <= k
<1> DEFINE R == OpToRel(<, Nat)
<1>1. IsWellFoundedOn(R, Nat)
  BY NatLessThanWellFounded, Zenon
<1>2. PICK m \in S : \A k \in S : ~(<<k, m>> \in R)
  <2> HIDE DEF R
  <2> QED BY <1>1, WFMin, Zenon
<1>3. \A k \in S : <<k, m>> \in R <=> k < m
  BY Zenon DEF OpToRel
<1> HIDE DEF R
<1>4. ASSUME NEW k \in S PROVE m <= k
  <2>1. m \in Nat /\ k \in Nat /\ ~(k < m)
    BY <1>2, <1>3, Zenon
  <2> QED BY <2>1
<1> QED BY <1>4, Zenon

(* The tasks of S link to one another only. *)
Closed(ts, S) == \A t \in S : ts[t].next \in S

(* g takes the steps of the walk, up to step m. *)
Walks(g, ts, from, m) ==
    /\ g[0] = from
    /\ \A k \in 1 .. m : g[k] = ts[g[k - 1]].next

(* A walk of any length exists within a closed set. *)
LEMMA WalkExists ==
  ASSUME NEW ts, NEW S, Closed(ts, S), NEW from \in S, NEW m \in Nat
  PROVE  \E g \in [0 .. m -> S] : Walks(g, ts, from, m)
<1> DEFINE Walk(q) == \E g \in [0 .. q -> S] : Walks(g, ts, from, q)
           D == {q \in Nat : ~Walk(q)}
<1>1. Walk(0)
  <2> DEFINE g == [k \in 0 .. 0 |-> from]
  <2>1. g \in [0 .. 0 -> S] /\ Walks(g, ts, from, 0)
    BY DEF Walks
  <2> QED BY <2>1, Zenon
<1>2. ASSUME NEW q \in Nat, Walk(q)
      PROVE  Walk(q + 1)
  <2>1. PICK g \in [0 .. q -> S] : Walks(g, ts, from, q)
    BY <1>2, Zenon
  <2> DEFINE g2 == [k \in 0 .. q + 1 |-> IF k <= q THEN g[k] ELSE ts[g[q]].next]
  <2>2. g2 \in [0 .. q + 1 -> S]
    BY DEF Closed
  <2>3. /\ \A k \in 0 .. q : g2[k] = g[k]
        /\ g2[q + 1] = ts[g[q]].next
    OBVIOUS
  <2> HIDE DEF g2
  <2>4. g2[0] = from
    BY <2>1, <2>3 DEF Walks
  <2>5. ASSUME NEW k \in 1 .. q + 1
        PROVE  g2[k] = ts[g2[k - 1]].next
    <3>1. k - 1 \in 0 .. q /\ (k \in 1 .. q \/ k = q + 1)
      OBVIOUS
    <3>2. g2[k - 1] = g[k - 1]
      BY <2>3, <3>1, Zenon
    <3>3. CASE k \in 1 .. q
      BY <2>1, <2>3, <3>2, <3>3 DEF Walks
    <3>4. CASE k = q + 1
      BY <2>3, <3>2, <3>4
    <3> QED BY <3>1, <3>3, <3>4, Zenon
  <2>6. Walks(g2, ts, from, q + 1)
    BY <2>4, <2>5, Zenon DEF Walks
  <2> QED BY <2>2, <2>6, Zenon
<1>3. ASSUME ~Walk(m)
      PROVE  FALSE
  <2>1. PICK q \in D : \A k \in D : q <= k
    <3>1. D \in SUBSET Nat /\ D # {}
      BY <1>3, Zenon
    <3> HIDE DEF D
    <3> QED BY <3>1, LeastExists, Zenon
  <2>2. q \in Nat /\ ~Walk(q)
    BY Zenon
  <2> HIDE DEF Walk
  <2>3. q # 0
    BY <1>1, <2>2, Zenon
  <2>4. q - 1 \in Nat /\ ~(q <= q - 1) /\ (q - 1) + 1 = q
    BY <2>2, <2>3
  <2>5. Walk(q - 1)
    BY <2>1, <2>4, Zenon
  <2>6. Walk((q - 1) + 1)
    BY <1>2, <2>4, <2>5, Zenon
  <2> QED BY <2>2, <2>4, <2>6, Zenon
<1> QED BY <1>3, Zenon

(* Two functions that take the steps of a walk agree. *)
LEMMA WalkUnique ==
  ASSUME NEW ts, NEW from, NEW m \in Nat, NEW g, NEW h,
         Walks(g, ts, from, m), Walks(h, ts, from, m)
  PROVE  \A k \in 0 .. m : g[k] = h[k]
<1> SUFFICES ASSUME NEW j \in 0 .. m, g[j] # h[j]
             PROVE  FALSE
  BY Zenon
<1> DEFINE D == {k \in 0 .. m : h[k] # g[k]}
<1>1. PICK q \in D : \A k \in D : q <= k
  <2>1. D \in SUBSET Nat /\ D # {}
    OBVIOUS
  <2> HIDE DEF D
  <2> QED BY <2>1, LeastExists, Zenon
<1>2. q \in 0 .. m /\ q # 0 /\ h[q] # g[q]
  BY Zenon DEF Walks
<1>3. q \in 1 .. m /\ q - 1 \in 0 .. m /\ ~(q <= q - 1)
  BY <1>2
<1>4. h[q - 1] = g[q - 1]
  BY <1>1, <1>3, Zenon
<1> QED BY <1>2, <1>3, <1>4, Zenon DEF Walks

(* hop walks, from any task of a closed set. *)
LEMMA HopWalks ==
  ASSUME NEW ts, NEW S, Closed(ts, S), NEW from \in S
  PROVE  Walks(hop(ts, from), ts, from, MAX_TASKS)
<1>0. MAX_TASKS \in Nat
  BY ProcAssumption, Zenon
<1> DEFINE h == hop(ts, from)
<1>1. PICK g \in [0 .. MAX_TASKS -> S] : Walks(g, ts, from, MAX_TASKS)
  BY <1>0, WalkExists, Zenon
<1>2. \A k \in 0 .. MAX_TASKS : k = 0 \/ (k # 0 /\ k \in 1 .. MAX_TASKS)
  BY <1>0
<1>3. 0 \in 0 .. MAX_TASKS
      /\ \A k \in 1 .. MAX_TASKS : k # 0 /\ k \in 0 .. MAX_TASKS
  BY <1>0
<1>4. g = [k \in 0 .. MAX_TASKS |-> IF k = 0 THEN from ELSE ts[g[k - 1]].next]
  <2>1. ASSUME NEW k \in 0 .. MAX_TASKS
        PROVE  g[k] = IF k = 0 THEN from ELSE ts[g[k - 1]].next
    BY <1>1, <1>2, Zenon DEF Walks
  <2> QED BY <2>1, Zenon
<1>5. h = [k \in 0 .. MAX_TASKS |-> IF k = 0 THEN from ELSE ts[h[k - 1]].next]
  BY <1>4, Zenon DEF hop
<1> HIDE DEF h
<1>6. \A k \in 0 .. MAX_TASKS : h[k] = IF k = 0 THEN from ELSE ts[h[k - 1]].next
  BY <1>5, Zenon
<1>7. Walks(h, ts, from, MAX_TASKS)
  BY <1>3, <1>6, Zenon DEF Walks
<1> QED BY <1>7, Zenon DEF h
-----------------------------------------------------------------------------
(* Around the ring *)

(* h follows the ring from position j until it comes back to main. *)
Rounds(h, ring, j, n) ==
    /\ \A k \in 0 .. n - 1 - j : h[k] = ring[j + k]
    /\ h[n - j] = Main

(* A ring is closed, and a walk that starts at position j of it is at      *)
(* position j + k after k steps, until it comes back to main.              *)
LEMMA RingWalk ==
  ASSUME NEW ts, NEW S, NEW n \in 1 .. MAX_TASKS, NEW ring, Lists(ring, ts, S, n),
         NEW j \in 0 .. n - 1
  PROVE  Rounds(hop(ts, ring[j]), ring, j, n)
<1> DEFINE h == hop(ts, ring[j])
<1>0. MAX_TASKS \in Nat /\ n \in Nat /\ n >= 1 /\ n <= MAX_TASKS /\ j \in Nat /\ j < n
  BY ProcAssumption
<1>1. /\ ring \in [0 .. n - 1 -> S]
      /\ \A t \in S : \E k \in 0 .. n - 1 : ring[k] = t
      /\ ring[0] = Main
      /\ \A k \in 0 .. n - 2 : ts[ring[k]].next = ring[k + 1]
      /\ ts[ring[n - 1]].next = Main
  BY Zenon DEF Lists
<1>2. Closed(ts, S)
  <2> SUFFICES ASSUME NEW t \in S
               PROVE  ts[t].next \in S
    BY Zenon DEF Closed
  <2>1. PICK k \in 0 .. n - 1 : ring[k] = t
    BY <1>1, Zenon
  <2>2. CASE k \in 0 .. n - 2
    <3>1. k + 1 \in 0 .. n - 1
      BY <1>0, <2>2
    <3> QED BY <1>1, <2>1, <2>2, <3>1, Zenon
  <2>3. CASE k = n - 1
    BY <1>0, <1>1, <2>1, <2>3
  <2> QED BY <1>0, <2>2, <2>3
<1>3. ring[j] \in S
  BY <1>1, Zenon
<1>4. Walks(h, ts, ring[j], MAX_TASKS)
  BY <1>2, <1>3, HopWalks, Zenon
<1> HIDE DEF h
<1> DEFINE m == n - 1 - j
           g == [k \in 0 .. m |-> ring[j + k]]
<1>5. m \in Nat /\ m <= MAX_TASKS /\ 0 \in 0 .. m /\ n - j \in 1 .. MAX_TASKS
  BY <1>0
<1>6. \A k \in 0 .. m : g[k] = ring[j + k]
  BY Zenon
<1> HIDE DEF g
<1>7. Walks(g, ts, ring[j], m)
  <2>1. g[0] = ring[j]
    BY <1>0, <1>5, <1>6
  <2>2. ASSUME NEW k \in 1 .. m
        PROVE  g[k] = ts[g[k - 1]].next
    <3>1. /\ k \in 0 .. m /\ k - 1 \in 0 .. m /\ j + (k - 1) \in 0 .. n - 2
          /\ (j + (k - 1)) + 1 = j + k
      BY <1>0
    <3>2. g[k] = ring[j + k] /\ g[k - 1] = ring[j + (k - 1)]
      BY <1>6, <3>1, Zenon
    <3>3. ts[ring[j + (k - 1)]].next = ring[(j + (k - 1)) + 1]
      BY <1>1, <3>1, Zenon
    <3> QED BY <3>1, <3>2, <3>3, Zenon
  <2> QED BY <2>1, <2>2, Zenon DEF Walks
<1>8. Walks(h, ts, ring[j], m)
  <2>1. \A k \in 1 .. m : k \in 1 .. MAX_TASKS
    BY <1>0, <1>5
  <2> HIDE DEF m
  <2> QED BY <1>4, <2>1, Zenon DEF Walks
<1>9. \A k \in 0 .. m : g[k] = h[k]
  <2> HIDE DEF m
  <2> QED BY <1>5, <1>7, <1>8, WalkUnique
<1>10. h[n - j] = Main
  <2>1. (n - j) - 1 = m /\ m \in 0 .. m /\ j + m = n - 1
    BY <1>0
  <2>2. h[n - j] = ts[h[(n - j) - 1]].next
    BY <1>4, <1>5, Zenon DEF Walks
  <2>3. h[m] = ring[n - 1]
    BY <1>6, <1>9, <2>1, Zenon
  <2> QED BY <1>1, <2>1, <2>2, <2>3, Zenon
<1> QED BY <1>6, <1>9, <1>10, Zenon DEF h, Rounds

(* RingIntact says that the used slots are one cycle. *)
LEMMA CycleIsRing ==
  ASSUME TypeOK, OneCycle(tasks, 1 .. task_count, task_count)
  PROVE  RingIntact
<1> DEFINE n == task_count
           h == hop(tasks, Main)
<1>0. n \in 1 .. MAX_TASKS /\ n \in Nat /\ n >= 2 /\ 0 \in 0 .. n - 1
  BY ProcAssumption DEF TypeOK
<1>1. PICK ring : Lists(ring, tasks, 1 .. n, n)
  BY Zenon DEF OneCycle
<1> HIDE DEF n
<1>2. ring[0] = Main /\ ring \in [0 .. n - 1 -> 1 .. n]
      /\ \A t \in 1 .. n : \E k \in 0 .. n - 1 : ring[k] = t
  BY <1>1, Zenon DEF Lists
<1>3. /\ \A k \in 0 .. n - 1 - 0 : h[k] = ring[0 + k]
      /\ h[n - 0] = Main
  <2>1. Rounds(hop(tasks, ring[0]), ring, 0, n)
    BY <1>0, <1>1, RingWalk, Zenon
  <2> QED BY <1>2, <2>1, Zenon DEF Rounds
<1> HIDE DEF h
<1>4. (\A k \in 0 .. n - 1 : h[k] = ring[k]) /\ h[n] = Main
  BY <1>0, <1>3
<1>5. {h[k] : k \in 0 .. n - 1} = 1 .. n
  <2>1. \A k \in 0 .. n - 1 : h[k] \in 1 .. n
    BY <1>2, <1>4, Zenon
  <2>2. \A t \in 1 .. n : \E k \in 0 .. n - 1 : h[k] = t
    BY <1>2, <1>4, Zenon
  <2> QED BY <2>1, <2>2, Zenon
<1> QED BY <1>4, <1>5, Zenon DEF RingIntact, h, n

(* A walk round the ring that starts at a task that is not READY meets a   *)
(* READY task if main is one.                                              *)
LEMMA MainIsMet ==
  ASSUME NEW ts, NEW n \in 1 .. MAX_TASKS, OneCycle(ts, 1 .. n, n),
         NEW from \in 1 .. n, ts[from].state # "READY", ts[Main].state = "READY"
  PROVE  \E t \in TaskIds : pick_next_ready(ts, from, t)
<1>0. MAX_TASKS \in Nat /\ n \in Nat /\ n >= 1 /\ n <= MAX_TASKS
  BY ProcAssumption
<1>1. PICK ring : Lists(ring, ts, 1 .. n, n)
  BY Zenon DEF OneCycle
<1>2. /\ ring \in [0 .. n - 1 -> 1 .. n] /\ ring[0] = Main
      /\ \A i, k \in 0 .. n - 1 : ring[i] = ring[k] => i = k
  BY <1>1, Zenon DEF Lists
<1>3. PICK j \in 0 .. n - 1 : ring[j] = from
  BY <1>1, Zenon DEF Lists
<1> DEFINE h == hop(ts, from)
           D == {k \in 1 .. n - j : ts[h[k]].state = "READY"}
<1>4. /\ \A k \in 0 .. n - 1 - j : h[k] = ring[j + k]
      /\ h[n - j] = Main
  <2>1. Rounds(hop(ts, ring[j]), ring, j, n)
    BY <1>1, RingWalk, Zenon
  <2> QED BY <1>3, <2>1, Zenon DEF Rounds
<1>5. j \in 1 .. n - 1 /\ n - j \in 1 .. n - 1
  BY <1>0, <1>2, <1>3
<1> HIDE DEF h
<1>6. n - j \in D
  BY <1>4, <1>5
<1>7. PICK k \in D : \A i \in D : k <= i
  <2>1. D \in SUBSET Nat
    BY <1>0
  <2> HIDE DEF D
  <2> QED BY <1>6, <2>1, LeastExists, Zenon
<1>8. k \in 1 .. n - j /\ ts[h[k]].state = "READY" /\ k \in 1 .. MAX_TASKS
  BY <1>0, <1>5
<1>9. h[k] \in TaskIds
  <2>1. CASE k = n - j
    BY <1>0, <1>4, <2>1 DEF TaskIds, Main
  <2>2. CASE k \in 0 .. n - 1 - j
    <3>1. j + k \in 0 .. n - 1
      BY <1>0, <2>2
    <3> QED BY <1>0, <1>2, <1>4, <2>2, <3>1, SMTT(30) DEF TaskIds
  <2> QED BY <1>0, <1>5, <1>8, <2>1, <2>2
<1>10. ASSUME NEW i \in 1 .. k - 1
       PROVE  h[i] # from /\ ts[h[i]].state # "READY"
  <2>1. i \in 1 .. n - j /\ ~(k <= i) /\ i \in 0 .. n - 1 - j /\ j + i \in 0 .. n - 1 /\ j + i # j
    BY <1>0, <1>5, <1>8
  <2>2. i \notin D
    BY <1>7, <2>1, Zenon
  <2>3. h[i] = ring[j + i]
    BY <1>4, <2>1, Zenon
  <2>4. h[i] # from
    BY <1>2, <1>3, <2>1, <2>3, Zenon
  <2> QED BY <2>1, <2>2, <2>4, Zenon
<1>11. pick_next_ready(ts, from, h[k])
  <2>1. h[k] # from
    BY <1>8, Zenon
  <2> HIDE DEF D
  <2> QED BY <1>8, <1>10, <2>1, Zenon DEF pick_next_ready, h
<1> QED BY <1>9, <1>11, Zenon
-----------------------------------------------------------------------------
(* Changing the ring *)

(* Only the links matter to a ring. *)
LEMMA SameLinks ==
  ASSUME NEW ts, NEW ts2, NEW S, NEW n \in Nat, n >= 1, OneCycle(ts, S, n),
         \A u \in S : ts2[u].next = ts[u].next
  PROVE  OneCycle(ts2, S, n)
<1>1. PICK ring : Lists(ring, ts, S, n)
  BY Zenon DEF OneCycle
<1>2. \A k \in 0 .. n - 1 : ring[k] \in S
  BY <1>1, Zenon DEF Lists
<1>3. Lists(ring, ts2, S, n)
  BY <1>1, <1>2 DEF Lists
<1> QED BY <1>3, Zenon DEF OneCycle

(* A task spliced in after another one joins the cycle. *)
LEMMA Splice ==
  ASSUME NEW ts, NEW ts2, NEW S, NEW n \in Nat, n >= 1, OneCycle(ts, S, n),
         NEW c \in S, NEW t, t \notin S,
         ts2[t].next = ts[c].next, ts2[c].next = t,
         \A u \in S \ {c} : ts2[u].next = ts[u].next
  PROVE  OneCycle(ts2, S \cup {t}, n + 1)
<1>1. PICK ring : Lists(ring, ts, S, n)
  BY Zenon DEF OneCycle
<1>2. /\ ring \in [0 .. n - 1 -> S]
      /\ \A u \in S : \E k \in 0 .. n - 1 : ring[k] = u
      /\ \A i, k \in 0 .. n - 1 : ring[i] = ring[k] => i = k
      /\ ring[0] = Main
      /\ \A k \in 0 .. n - 2 : ts[ring[k]].next = ring[k + 1]
      /\ ts[ring[n - 1]].next = Main
  BY <1>1, Zenon DEF Lists
<1>3. PICK j \in 0 .. n - 1 : ring[j] = c
  BY <1>2, Zenon
<1> DEFINE new == [k \in 0 .. n |-> IF k <= j THEN ring[k]
                                   ELSE IF k = j + 1 THEN t ELSE ring[k - 1]]
<1>4. /\ \A k \in 0 .. j : new[k] = ring[k]
      /\ new[j + 1] = t
      /\ \A k \in j + 2 .. n : new[k] = ring[k - 1]
  BY <1>3
<1>5. new \in [0 .. n -> S \cup {t}]
  BY <1>2, <1>3
<1> HIDE DEF new
<1>6. ASSUME NEW u \in S \cup {t}
      PROVE  \E k \in 0 .. n : new[k] = u
  <2>1. CASE u = t
    BY <1>3, <1>4, <2>1
  <2>2. CASE u \in S
    <3>1. PICK k \in 0 .. n - 1 : ring[k] = u
      BY <1>2, <2>2, Zenon
    <3>2. CASE k <= j
      BY <1>3, <1>4, <3>1, <3>2
    <3>3. CASE k > j
      <4>1. k + 1 \in j + 2 .. n /\ k + 1 \in 0 .. n /\ (k + 1) - 1 = k
        BY <1>3, <3>3
      <4> QED BY <1>4, <3>1, <4>1, Zenon
    <3> QED BY <1>3, <3>2, <3>3
  <2> QED BY <2>1, <2>2, Zenon
<1>7. ASSUME NEW i \in 0 .. n, NEW k \in 0 .. n, new[i] = new[k]
      PROVE  i = k
  <2> DEFINE old(x) == IF x <= j THEN x ELSE x - 1
  <2>1. \A x \in 0 .. n : x # j + 1 =>
           old(x) \in 0 .. n - 1 /\ new[x] = ring[old(x)] /\ new[x] \in S
    BY <1>2, <1>3, <1>4
  <2>2. CASE i = j + 1 \/ k = j + 1
    BY <1>4, <1>7, <2>1, <2>2
  <2>3. CASE i # j + 1 /\ k # j + 1
    <3>1. old(i) = old(k)
      <4> HIDE DEF old
      <4> QED BY <1>2, <1>7, <2>1, <2>3
    <3> QED BY <1>3, <2>3, <3>1
  <2> QED BY <2>2, <2>3, Zenon
<1>8. new[0] = Main
  BY <1>2, <1>3, <1>4
<1>9. ASSUME NEW k \in 0 .. n - 1
      PROVE  ts2[new[k]].next = new[k + 1]
  <2>1. CASE k < j
    <3>1. /\ k \in 0 .. n - 1 /\ k \in 0 .. j /\ k + 1 \in 0 .. j /\ k \in 0 .. n - 2
          /\ k # j
      BY <1>3, <2>1
    <3>2. ring[k] \in S \ {c}
      BY <1>2, <1>3, <3>1, Zenon
    <3>3. ts[ring[k]].next = ring[k + 1]
      BY <1>2, <3>1, Zenon
    <3> QED BY <1>4, <3>1, <3>2, <3>3, Zenon
  <2>2. CASE k = j
    BY <1>3, <1>4, <2>2
  <2>3. CASE k = j + 1
    <3>1. /\ j \in 0 .. n - 2 /\ k + 1 \in j + 2 .. n /\ (k + 1) - 1 = j + 1
      BY <1>3, <2>3
    <3>2. ts[c].next = ring[j + 1]
      BY <1>2, <1>3, <3>1, Zenon
    <3> QED BY <1>4, <2>3, <3>1, <3>2, Zenon
  <2>4. CASE k > j + 1
    <3>1. /\ k \in j + 2 .. n /\ k + 1 \in j + 2 .. n /\ k - 1 \in 0 .. n - 2
          /\ (k + 1) - 1 = k /\ (k - 1) + 1 = k /\ k - 1 # j /\ k - 1 \in 0 .. n - 1
      BY <1>3, <2>4
    <3>2. ring[k - 1] \in S \ {c}
      BY <1>2, <1>3, <3>1, Zenon
    <3>3. ts[ring[k - 1]].next = ring[k]
      BY <1>2, <3>1
    <3> QED BY <1>4, <3>1, <3>2, <3>3, Zenon
  <2> QED BY <1>3, <2>1, <2>2, <2>3, <2>4
<1>10. ts2[new[n]].next = Main
  <2>1. CASE j = n - 1
    BY <1>2, <1>3, <1>4, <2>1
  <2>2. CASE j < n - 1
    <3>1. n \in j + 2 .. n /\ n - 1 \in 0 .. n - 1 /\ n - 1 # j
      BY <1>3, <2>2
    <3>2. ring[n - 1] \in S \ {c}
      BY <1>2, <1>3, <3>1, Zenon
    <3> QED BY <1>2, <1>4, <3>1, <3>2, Zenon
  <2> QED BY <1>3, <2>1, <2>2
<1>11. (n + 1) - 1 = n /\ (n + 1) - 2 = n - 1
  OBVIOUS
<1>12. Lists(new, ts2, S \cup {t}, n + 1)
  BY <1>5, <1>6, <1>7, <1>8, <1>9, <1>10, <1>11, Zenon DEF Lists
<1> QED BY <1>12, Zenon DEF OneCycle

(* ts2 has ts's links, but past t. *)
Unlinked(ts, ts2, S, t) ==
    \A u \in S : ts2[u].next = IF ts[u].next = t THEN ts[t].next ELSE ts[u].next

(* A task other than main that is unlinked leaves a cycle behind. *)
LEMMA Unlink ==
  ASSUME NEW ts, NEW ts2, NEW S, NEW n \in Nat, OneCycle(ts, S, n), n >= 1,
         NEW t \in S, t # Main, Unlinked(ts, ts2, S, t)
  PROVE  n >= 2 /\ OneCycle(ts2, S \ {t}, n - 1)
<1>0. \A u \in S : ts2[u].next = IF ts[u].next = t THEN ts[t].next ELSE ts[u].next
  BY Zenon DEF Unlinked
<1>1. PICK ring : Lists(ring, ts, S, n)
  BY Zenon DEF OneCycle
<1>2. /\ ring \in [0 .. n - 1 -> S]
      /\ \A u \in S : \E k \in 0 .. n - 1 : ring[k] = u
      /\ \A i, k \in 0 .. n - 1 : ring[i] = ring[k] => i = k
      /\ ring[0] = Main
      /\ \A k \in 0 .. n - 2 : ts[ring[k]].next = ring[k + 1]
      /\ ts[ring[n - 1]].next = Main
  BY <1>1, Zenon DEF Lists
<1>3. PICK j \in 0 .. n - 1 : ring[j] = t
  BY <1>2, Zenon
<1>4. j \in 1 .. n - 1 /\ n >= 2
  BY <1>2, <1>3
<1> DEFINE new == [k \in 0 .. n - 2 |-> IF k < j THEN ring[k] ELSE ring[k + 1]]
<1>5. /\ \A k \in 0 .. j - 1 : new[k] = ring[k]
      /\ \A k \in j .. n - 2 : new[k] = ring[k + 1]
  BY <1>4
<1>6. new \in [0 .. n - 2 -> S \ {t}]
  <2>1. ASSUME NEW k \in 0 .. n - 2
        PROVE  (IF k < j THEN ring[k] ELSE ring[k + 1]) \in S \ {t}
    <3>1. k \in 0 .. n - 1 /\ k + 1 \in 0 .. n - 1
      BY <1>4
    <3> QED BY <1>2, <1>3, <1>4, <3>1
  <2> QED BY <2>1, Zenon
<1> HIDE DEF new
<1>7. ASSUME NEW u \in S \ {t}
      PROVE  \E k \in 0 .. n - 2 : new[k] = u
  <2>1. PICK k \in 0 .. n - 1 : ring[k] = u
    BY <1>2, Zenon
  <2>2. CASE k < j
    BY <1>4, <1>5, <2>1, <2>2
  <2>3. CASE k > j
    <3>1. k - 1 \in j .. n - 2 /\ k - 1 \in 0 .. n - 2 /\ (k - 1) + 1 = k
      BY <1>4, <2>3
    <3> QED BY <1>5, <2>1, <3>1, Zenon
  <2> QED BY <1>3, <1>4, <2>1, <2>2, <2>3
<1>8. ASSUME NEW i \in 0 .. n - 2, NEW k \in 0 .. n - 2, new[i] = new[k]
      PROVE  i = k
  <2> DEFINE old(x) == IF x < j THEN x ELSE x + 1
  <2>1. \A x \in 0 .. n - 2 : old(x) \in 0 .. n - 1 /\ new[x] = ring[old(x)]
    BY <1>4, <1>5
  <2>2. old(i) = old(k)
    <3> HIDE DEF old
    <3> QED BY <1>2, <1>8, <2>1
  <2> QED BY <1>4, <2>2
<1>9. new[0] = Main
  BY <1>2, <1>4, <1>5
<1>10. \A k \in 0 .. n - 2 : ts[ring[k]].next = t => k + 1 = j
  <2>1. \A k \in 0 .. n - 2 : k + 1 \in 0 .. n - 1
    BY <1>4
  <2> QED BY <1>2, <1>3, <2>1
<1>11. ts[ring[j - 1]].next = t
  <2>1. j - 1 \in 0 .. n - 2 /\ (j - 1) + 1 = j
    BY <1>4
  <2> QED BY <1>2, <1>3, <2>1, Zenon
<1>12. ASSUME NEW k \in 0 .. n - 3
       PROVE  ts2[new[k]].next = new[k + 1]
  <2>1. CASE k + 1 < j
    <3>1. /\ k \in 0 .. j - 1 /\ k + 1 \in 0 .. j - 1 /\ k \in 0 .. n - 2
          /\ k \in 0 .. n - 1 /\ k + 1 # j
      BY <1>4, <2>1
    <3>2. ring[k] \in S /\ ts[ring[k]].next = ring[k + 1] /\ ts[ring[k]].next # t
      BY <1>2, <1>10, <3>1, Zenon
    <3> QED BY <1>0, <1>5, <3>1, <3>2, Zenon
  <2>2. CASE k + 1 = j
    <3>1. /\ k \in 0 .. j - 1 /\ k = j - 1 /\ k + 1 \in j .. n - 2
          /\ k \in 0 .. n - 1 /\ j \in 0 .. n - 2
      BY <1>4, <2>2
    <3>2. ring[k] \in S /\ ts[ring[k]].next = t
      BY <1>2, <1>11, <3>1, Zenon
    <3>3. ts[t].next = ring[j + 1]
      BY <1>2, <1>3, <3>1, Zenon
    <3> QED BY <1>0, <1>5, <2>2, <3>1, <3>2, <3>3, Zenon
  <2>3. CASE k >= j
    <3>1. /\ k \in j .. n - 2 /\ k + 1 \in j .. n - 2 /\ k + 1 \in 0 .. n - 2
          /\ k + 1 \in 0 .. n - 1 /\ (k + 1) + 1 # j
      BY <1>4, <2>3
    <3>2. ring[k + 1] \in S /\ ts[ring[k + 1]].next = ring[(k + 1) + 1]
          /\ ts[ring[k + 1]].next # t
      BY <1>2, <1>10, <3>1, Zenon
    <3> QED BY <1>0, <1>5, <3>1, <3>2, Zenon
  <2> QED BY <1>4, <2>1, <2>2, <2>3
<1>13. ts2[new[n - 2]].next = Main
  <2>1. CASE j = n - 1
    <3>1. n - 2 \in 0 .. j - 1 /\ n - 2 = j - 1 /\ n - 2 \in 0 .. n - 1
      BY <1>4, <2>1
    <3>2. ring[n - 2] \in S /\ ts[ring[n - 2]].next = t /\ ts[t].next = Main
      BY <1>2, <1>3, <1>11, <2>1, <3>1, Zenon
    <3> QED BY <1>0, <1>5, <3>1, <3>2, Zenon
  <2>2. CASE j < n - 1
    <3>1. n - 2 \in j .. n - 2 /\ (n - 2) + 1 = n - 1 /\ n - 1 \in 0 .. n - 1
      BY <1>4, <2>2
    <3>2. ring[n - 1] \in S /\ ts[ring[n - 1]].next = Main
      BY <1>2, <3>1, Zenon
    <3> QED BY <1>0, <1>5, <3>1, <3>2, Zenon
  <2> QED BY <1>4, <2>1, <2>2
<1>14. (n - 1) - 1 = n - 2 /\ (n - 1) - 2 = n - 3
  OBVIOUS
<1>15. Lists(new, ts2, S \ {t}, n - 1)
  BY <1>6, <1>7, <1>8, <1>9, <1>12, <1>13, <1>14, Zenon DEF Lists
<1> QED BY <1>4, <1>15, Zenon DEF OneCycle
-----------------------------------------------------------------------------
(* The operations *)

(* The inductive invariant: the ring is one cycle through the used slots,  *)
(* and the kernel did not get stuck.                                       *)
RInv == IInv /\ OneCycle(tasks, 1 .. task_count, task_count) /\ NeverStuck

(* Links of every task as they were. *)
LinksKept(ts) == \A t \in TaskIds : ts[t].next = tasks[t].next

(* Terminated tasks stay so. *)
StillDead(ts) ==
    \A t \in TaskIds : tasks[t].state = "TERMINATED" => ts[t].state = "TERMINATED"

(* What a table must satisfy for yield to find a task: its links are those *)
(* of the ring, and main is runnable; nobody but the current task is       *)
(* RUNNING, and the dead are still dead.                                   *)
Yieldable(ts) ==
    /\ ts \in [TaskIds -> Task]
    /\ LinksKept(ts)
    /\ ts[Main].state \in Runnable
    /\ \A t \in TaskIds : ts[t].state = "RUNNING" => t = current_task
    /\ StillDead(ts)

(* What a step other than fork does to the task table. *)
Kept ==
    /\ OneCycle(tasks', 1 .. task_count, task_count)
    /\ panic' # "no_runnable"
    /\ StillDead(tasks')

(* The slots in use, the current task's among them. *)
LEMMA CurrentIsUsed ==
  ASSUME IInv, panic = "none"
  PROVE  /\ current_task \in 1 .. task_count /\ current_task \in TaskIds
         /\ task_count \in 1 .. MAX_TASKS /\ task_count \in Nat
         /\ Main \in TaskIds /\ Main \in 1 .. task_count
         /\ 1 .. task_count \subseteq TaskIds
         /\ TaskIds = 1 .. MAX_TASKS /\ MAX_TASKS \in Nat
<1>1. /\ current_task \in TaskIds /\ task_count \in 2 .. MAX_TASKS
      /\ Used(tasks, task_count) /\ tasks[current_task].state = "RUNNING"
  BY CurrentFacts, Zenon DEF IInv, TypeOK
<1> QED BY <1>1, ProcAssumption DEF Used, TaskIds, Main

(* yield always finds a task to run, and keeps the ring. *)
LEMMA YieldFinds ==
  ASSUME RInv, panic = "none", NEW ts, Yieldable(ts), yield(ts)
  PROVE  Kept
<1> DEFINE before == Preempted(ts)
           n == task_count
<1>0. /\ current_task \in 1 .. n /\ current_task \in TaskIds /\ n \in 1 .. MAX_TASKS
      /\ n \in Nat /\ n >= 1 /\ Main \in TaskIds /\ 1 .. n \subseteq TaskIds
  BY CurrentIsUsed DEF RInv
<1>1. /\ before \in [TaskIds -> Task]
      /\ \A t \in TaskIds : before[t].next = tasks[t].next
      /\ \A t \in TaskIds : before[t].state # "RUNNING"
      /\ before[Main].state = "READY"
  BY <1>0, SMTT(30) DEF Yieldable, LinksKept, Preempted, Task, States, Runnable
<1>7. StillDead(before)
  BY <1>0, Zenon DEF Yieldable, StillDead, Preempted
<1>2. OneCycle(tasks, 1 .. n, n)
  BY Zenon DEF RInv
<1> HIDE DEF before, n
<1>3. OneCycle(before, 1 .. n, n)
  <2>1. \A u \in 1 .. n : before[u].next = tasks[u].next
    BY <1>0, <1>1, Zenon
  <2> QED BY <1>0, <1>2, <2>1, SameLinks, Zenon
<1>4. ASSUME NEW t \in TaskIds, tasks' = [before EXCEPT ![t].state = "RUNNING"],
             before[t].state = "READY"
      PROVE  OneCycle(tasks', 1 .. n, n) /\ StillDead(tasks')
  <2>1. \A u \in TaskIds : tasks'[u].next = before[u].next
    BY <1>1, <1>4, Zenon DEF Task
  <2>2. \A u \in 1 .. n : tasks'[u].next = before[u].next
    BY <1>0, <2>1, Zenon
  <2>3. StillDead(tasks')
    BY <1>1, <1>7, <1>4, Zenon DEF StillDead
  <2>4. OneCycle(tasks', 1 .. n, n)
    BY <1>0, <1>3, <2>2, SameLinks, Zenon
  <2> QED BY <2>3, <2>4, Zenon
<1>5. CASE \E t \in TaskIds :
             /\ pick_next_ready(before, current_task, t)
             /\ tasks' = [before EXCEPT ![t].state = "RUNNING"]
             /\ panic' = IF before[t].stack THEN panic ELSE "bad_stack"
  BY <1>4, <1>5, Zenon DEF n, Kept, pick_next_ready
<1>6. CASE /\ \A t \in TaskIds : ~pick_next_ready(before, current_task, t)
           /\ IF before[current_task].state = "READY"
              THEN /\ tasks' = [before EXCEPT ![current_task].state = "RUNNING"]
                   /\ UNCHANGED panic
              ELSE tasks' = before /\ panic' = "no_runnable"
  <2>1. before[current_task].state = "READY"
    BY <1>0, <1>1, <1>3, <1>6, MainIsMet, Zenon
  <2> QED BY <1>0, <1>4, <1>6, <2>1, Zenon DEF n, Kept
<1> QED BY <1>5, <1>6, Zenon DEF yield, before

(* A delivered signal keeps the ring. *)
LEMMA DeliverFinds ==
  ASSUME RInv, panic = "none", NEW T, NEW ts, Yieldable(ts), Deliver(T, ts)
  PROVE  Kept
<1> DEFINE n == task_count
<1>1. CASE tasks' = ts /\ panic' \in {"none", "null_task"}
  <2>0. n \in Nat /\ n >= 1 /\ 1 .. n \subseteq TaskIds /\ OneCycle(tasks, 1 .. n, n)
    BY CurrentIsUsed DEF RInv
  <2>1. \A u \in 1 .. n : tasks'[u].next = tasks[u].next
    BY <1>1, <2>0, Zenon DEF Yieldable, LinksKept
  <2> HIDE DEF n
  <2>2. OneCycle(tasks', 1 .. n, n)
    BY <2>0, <2>1, SameLinks, Zenon
  <2> QED BY <1>1, <2>2, Zenon DEF n, Kept, Yieldable
<1>2. CASE yield(ts)
  BY <1>2, YieldFinds, Zenon
<1> QED BY <1>1, <1>2, Zenon DEF Deliver

(* A signal's table has main runnable and the ring's links. *)
LEMMA WithStateYieldable ==
  ASSUME RInv, panic = "none", NEW T \in SUBSET Slots, \A s \in T : Live(s),
         NEW state \in {"TERMINATED", "STOPPED"}
  PROVE  Yieldable(WithState(T, state))
<1> DEFINE ts == WithState(T, state)
<1>0. IInv /\ state \in States /\ tasks \in [TaskIds -> Task] /\ MainOK(tasks)
      /\ Main \in TaskIds
  BY CurrentIsUsed, Zenon DEF RInv, States, IInv, TypeOK, Core
<1>1. /\ ts \in [TaskIds -> Task]
      /\ \A t \in TaskIds : t \in TasksOf(T) => ts[t].state = state
      /\ \A t \in TaskIds : t \notin TasksOf(T) =>
            \/ ts[t].state = tasks[t].state
            \/ tasks[t].state = "BLOCKED" /\ ts[t].state = "READY"
  <2> HIDE DEF ts
  <2>1. /\ ts \in [TaskIds -> Task]
        /\ \A t \in TaskIds : t \in TasksOf(T) => ts[t].state = state
    BY <1>0, WithStateTable, Zenon DEF ts
  <2>2. ASSUME NEW t \in TaskIds, t \notin TasksOf(T)
        PROVE  \/ ts[t].state = tasks[t].state
               \/ tasks[t].state = "BLOCKED" /\ ts[t].state = "READY"
    BY <1>0, <2>2, WithStateTable DEF ts
  <2> QED BY <2>1, <2>2, Zenon
<1>2. Main \notin TasksOf(T)
  BY <1>0, TasksDistinct, Zenon
<1>3. LinksKept(ts)
  <2> DEFINE woken == task_wake(tasks, ParentsOf(T))
  <2>1. ASSUME NEW t \in TaskIds
        PROVE  woken[t].next = tasks[t].next /\ woken[t] \in Task
    <3>1. tasks[t] \in Task
      BY <1>0, Zenon
    <3>2. woken[t] = tasks[t]
          \/ woken[t] = [tasks[t] EXCEPT !.state = "READY", !.wait_chan = NULL]
      BY Zenon DEF task_wake
    <3> HIDE DEF woken
    <3> QED BY <3>1, <3>2, Zenon DEF Task, States
  <2>2. \A t \in TaskIds :
           ts[t] = woken[t] \/ ts[t] = [woken[t] EXCEPT !.state = state]
    BY Zenon DEF WithState
  <2> HIDE DEF woken, ts
  <2> QED BY <2>1, <2>2, Zenon DEF LinksKept, Task
<1> HIDE DEF ts
<1>4. ts[Main].state \in Runnable
  BY <1>0, <1>1, <1>2, Zenon DEF MainOK, Runnable
<1>5. \A t \in TaskIds : ts[t].state = "RUNNING" => t = current_task
  BY <1>0, <1>1, CurrentFacts, Zenon
<1>6. StillDead(ts)
  BY <1>0, <1>1, TasksDistinct, Zenon DEF StillDead, Gone
<1> QED BY <1>1, <1>3, <1>4, <1>5, <1>6, Zenon DEF Yieldable, ts

(* Every signal keeps the ring. *)
LEMMA SignalFinds ==
  ASSUME RInv, panic = "none", NEW T \in SUBSET Slots,
         NEW sig \in {"FATAL", "TSTP", "CONT"}, process_send_signal(T, sig)
  PROVE  Kept
<1>1. CASE sig = "FATAL"
  <2> DEFINE hit == {s \in T : Killable(s)}
  <2>1. hit \in SUBSET Slots /\ \A s \in hit : Live(s)
    BY Zenon DEF Killable
  <2>2. Deliver(hit, WithState(hit, "TERMINATED"))
    BY <1>1, Zenon DEF process_send_signal, process_terminate
  <2> HIDE DEF hit
  <2>3. Yieldable(WithState(hit, "TERMINATED"))
    BY <2>1, WithStateYieldable, Zenon
  <2> QED BY <2>2, <2>3, DeliverFinds, Zenon
<1>2. CASE sig = "TSTP"
  <2> DEFINE hit == {s \in T : Stoppable(s)}
  <2>1. hit \in SUBSET Slots /\ \A s \in hit : Live(s)
    BY Zenon DEF Stoppable
  <2>2. Deliver(hit, WithState(hit, "STOPPED"))
    BY <1>2, Zenon DEF process_send_signal
  <2> HIDE DEF hit
  <2>3. Yieldable(WithState(hit, "STOPPED"))
    BY <2>1, WithStateYieldable, Zenon
  <2> QED BY <2>2, <2>3, DeliverFinds, Zenon
<1>3. CASE sig = "CONT"
  <2> DEFINE hit == {s \in T : Continuable(s)}
             ts == [t \in TaskIds |->
                      IF t \in TasksOf(hit) THEN [tasks[t] EXCEPT !.state = "READY"]
                                            ELSE tasks[t]]
  <2>1. Deliver(hit, ts)
    BY <1>3, Zenon DEF process_send_signal, TasksOf
  <2>2. tasks \in [TaskIds -> Task] /\ MainOK(tasks) /\ Main \in TaskIds
        /\ \A t \in TaskIds : tasks[t].state = "RUNNING" => t = current_task
    BY CurrentFacts, CurrentIsUsed, Zenon DEF RInv, IInv, TypeOK, Core
  <2>3. \A t \in TaskIds : t \in TasksOf(hit) => tasks[t].state \notin Gone
    BY TasksDistinct, Zenon DEF Continuable, RInv
  <2> HIDE DEF hit
  <2>4. Yieldable(ts)
    BY <2>2, <2>3 DEF Yieldable, LinksKept, StillDead, Task, States, MainOK, Runnable, Gone
  <2> HIDE DEF ts
  <2> QED BY <2>1, <2>4, DeliverFinds, Zenon
<1> QED BY <1>1, <1>2, <1>3, Zenon
(* waitpid keeps the ring, also when its caller goes to sleep. *)
LEMMA WaitpidFinds ==
  ASSUME RInv, panic = "none", current_task # Main,
         NEW target \in Pids \cup {ANY}, process_waitpid(target)
  PROVE  Kept
<1> DEFINE n == task_count
<1>0. /\ tasks \in [TaskIds -> Task] /\ MainOK(tasks) /\ Main \in TaskIds
      /\ current_task \in TaskIds /\ tasks[current_task].state = "RUNNING"
      /\ \A t \in TaskIds : tasks[t].state = "RUNNING" => t = current_task
      /\ TaskLinked(tasks, process_pool)
  BY CurrentFacts, CurrentIsUsed, Zenon DEF RInv, IInv, TypeOK, Core
<1>1. Self \in Slots
  BY <1>0, Zenon DEF TaskLinked, Self, Gone
<1>2. CASE tasks' = [tasks EXCEPT ![current_task].kctx = 0] /\ UNCHANGED panic
  <2>1. n \in Nat /\ n >= 1 /\ 1 .. n \subseteq TaskIds /\ OneCycle(tasks, 1 .. n, n)
    BY CurrentIsUsed DEF RInv
  <2>2. \A u \in TaskIds : tasks'[u].next = tasks[u].next /\ tasks'[u].state = tasks[u].state
    BY <1>0, <1>2, Zenon DEF Task
  <2>3. \A u \in 1 .. n : tasks'[u].next = tasks[u].next
    BY <2>1, <2>2, Zenon
  <2> HIDE DEF n
  <2>4. OneCycle(tasks', 1 .. n, n)
    BY <2>1, <2>3, SameLinks, Zenon
  <2> QED BY <1>2, <2>2, <2>4, Zenon DEF n, Kept, StillDead
<1>3. CASE yield([tasks EXCEPT ![current_task].kctx = target,
                               ![current_task].wait_chan = Self,
                               ![current_task].state = "BLOCKED"])
  <2> DEFINE ts == [tasks EXCEPT ![current_task].kctx = target,
                                 ![current_task].wait_chan = Self,
                                 ![current_task].state = "BLOCKED"]
             r == [tasks[current_task] EXCEPT !.kctx = target, !.wait_chan = Self,
                                              !.state = "BLOCKED"]
  <2>1. ts = [tasks EXCEPT ![current_task] = r]
    BY <1>0, Zenon
  <2>2. r \in Task /\ r.state = "BLOCKED" /\ r.next = tasks[current_task].next
    <3>1. /\ tasks[current_task] \in Task
          /\ target \in Pids \cup {0, ANY} /\ Self \in Slots
      BY <1>0, <1>1, Zenon
    <3> HIDE DEF ts
    <3> QED BY <3>1, Zenon DEF Task, States
  <2>3. yield(ts)
    BY <1>3, Zenon
  <2> HIDE DEF ts, r
  <2>4. /\ ts \in [TaskIds -> Task] /\ ts[current_task] = r
        /\ \A t \in TaskIds : t # current_task => ts[t] = tasks[t]
    BY <1>0, <2>1, <2>2, Zenon
  <2>5. Yieldable(ts)
    BY <1>0, <2>2, <2>4, Zenon DEF Yieldable, LinksKept, StillDead, MainOK
  <2> QED BY <2>3, <2>5, YieldFinds, Zenon
<1> QED BY <1>2, <1>3, Zenon DEF process_waitpid

(* fork splices its task into the cycle, having unlinked it first if the   *)
(* slot is a recycled one.                                                 *)
LEMMA ForkFinds ==
  ASSUME RInv, panic = "none", NEW t \in TaskIds, NEW s \in Slots, NEW ok \in BOOLEAN,
         IsFresh(t) \/ IsRecycled(t)
  PROVE  LET m == IF IsFresh(t) THEN task_count + 1 ELSE task_count
         IN  OneCycle(task_alloc_raw(t, s, ok), 1 .. m, m)
<1> DEFINE n == task_count
           ring == IF IsRecycled(t) THEN unlink_task_from_ring(t) ELSE tasks
           ts == task_alloc_raw(t, s, ok)
<1>0. /\ tasks \in [TaskIds -> Task] /\ n \in Nat /\ n >= 1 /\ current_task \in 1 .. n
      /\ current_task \in TaskIds /\ 1 .. n \subseteq TaskIds /\ OneCycle(tasks, 1 .. n, n)
      /\ TaskIds = 1 .. MAX_TASKS /\ MAX_TASKS \in Nat
  BY CurrentIsUsed, SMTT(30) DEF RInv, IInv, TypeOK
<1>1. t # current_task /\ t # Main
  BY RawSlot, Zenon DEF RInv
<1>2. /\ ring \in [TaskIds -> Task]
      /\ \A u \in TaskIds : ring[u].next =
            IF IsRecycled(t) /\ tasks[u].next = t THEN tasks[t].next ELSE tasks[u].next
  BY <1>0 DEF unlink_task_from_ring, Task
<1>3. ts = [ring EXCEPT
              ![t] = [ZeroTask EXCEPT !.state = "READY", !.proc = s, !.stack = ok,
                                      !.next = ring[current_task].next],
              ![current_task].next = t]
  BY Zenon DEF task_alloc_raw
<1> HIDE DEF ts, ring, n
<1>4. /\ ts[t].next = ring[current_task].next
      /\ ts[current_task].next = t
      /\ \A u \in TaskIds \ {t, current_task} : ts[u].next = ring[u].next
  <2> DEFINE new == [ZeroTask EXCEPT !.state = "READY", !.proc = s, !.stack = ok,
                                     !.next = ring[current_task].next]
             cur == [ring[current_task] EXCEPT !.next = t]
  <2>1. new.next = ring[current_task].next
    BY Zenon DEF ZeroTask
  <2>2. cur.next = t
    BY <1>0, <1>2 DEF Task
  <2>3. ts = [ring EXCEPT ![t] = new, ![current_task] = cur]
    BY <1>0, <1>1, <1>2, <1>3, Zenon
  <2> HIDE DEF new, cur
  <2> QED BY <1>0, <1>1, <1>2, <2>1, <2>2, <2>3, Zenon
<1>5. CASE IsFresh(t)
  <2>1. t = n + 1 /\ t \notin 1 .. n /\ (1 .. n) \cup {t} = 1 .. n + 1 /\ ~IsRecycled(t)
    BY <1>0, <1>5 DEF IsFresh, IsRecycled, n
  <2>2. \A u \in 1 .. n : ring[u].next = tasks[u].next
    BY <1>0, <1>2, <2>1, Zenon
  <2>3. OneCycle(ring, 1 .. n, n)
    BY <1>0, <2>2, SameLinks, Zenon
  <2>4. \A u \in (1 .. n) \ {current_task} : ts[u].next = ring[u].next
    BY <1>0, <1>4, <2>1, Zenon
  <2>5. OneCycle(ts, (1 .. n) \cup {t}, n + 1)
    BY <1>0, <1>4, <2>1, <2>3, <2>4, Splice, SMTT(30)
  <2> QED BY <1>5, <2>1, <2>5, Zenon DEF ts, n
<1>6. CASE IsRecycled(t)
  <2> DEFINE S == 1 .. n
             R == S \ {t}
  <2>1. n = MAX_TASKS /\ t \in S /\ ~IsFresh(t)
    BY <1>0, <1>6 DEF IsFresh, IsRecycled, n
  <2>2. Unlinked(tasks, ring, S, t)
    BY <1>0, <1>2, <1>6, Zenon DEF Unlinked
  <2>3. OneCycle(tasks, S, n) /\ current_task \in R /\ t \notin R /\ R \cup {t} = S
    BY <1>0, <1>1, <2>1, Zenon
  <2>4. \A u \in R \ {current_task} : ts[u].next = ring[u].next
    BY <1>0, <1>4, Zenon
  <2> HIDE DEF S
  <2>5. n >= 2 /\ OneCycle(ring, R, n - 1)
    <3>1. n >= 2 /\ OneCycle(ring, S \ {t}, n - 1)
      BY <1>0, <1>1, <2>1, <2>2, <2>3, Unlink, Zenon
    <3> QED BY <3>1, Zenon
  <2> HIDE DEF R
  <2>6. n - 1 \in Nat /\ n - 1 >= 1 /\ (n - 1) + 1 = n
    BY <1>0, <2>5
  <2>7. OneCycle(ts, R \cup {t}, (n - 1) + 1)
    BY <1>4, <2>3, <2>4, <2>5, <2>6, Splice, SMTT(30)
  <2>8. OneCycle(ts, 1 .. n, n)
    BY <2>3, <2>6, <2>7, Zenon DEF S
  <2> QED BY <2>1, <2>8, Zenon DEF ts, n
<1> QED BY <1>5, <1>6, Zenon

(* What a step does to the ring and to terminated tasks: a step other than *)
(* fork leaves both alone.                                                 *)
LEMMA StepKeeps ==
  ASSUME RInv, Next, ~do_fork, panic = "none"
  PROVE  Kept /\ UNCHANGED task_count
<1>2. ASSUME sys_exit PROVE Kept /\ UNCHANGED task_count
  <2>1. panic = "none" /\ Self \in Slots /\ LiveIn(process_pool, Self)
    BY <1>2, CurrentFacts, Zenon DEF sys_exit, InUser, Interruptible, RInv
  <2>2. Deliver({Self}, WithState({Self}, "TERMINATED"))
    BY <1>2, Zenon DEF sys_exit, process_terminate
  <2>3. {Self} \in SUBSET Slots /\ \A s \in {Self} : Live(s)
    BY <2>1, Zenon DEF Live, LiveIn
  <2> HIDE DEF Self
  <2>4. Yieldable(WithState({Self}, "TERMINATED"))
    BY <2>1, <2>3, WithStateYieldable, Zenon
  <2> QED BY <2>1, <2>2, <2>4, DeliverFinds, Zenon DEF Deliver
<1>3. ASSUME sys_kill PROVE Kept /\ UNCHANGED task_count
  <2>1. PICK pid \in Pids, sig \in {"FATAL", "TSTP", "CONT"} :
            process_send_signal(process_find_by_pid(pid), sig)
    BY <1>3, Zenon DEF sys_kill
  <2>2. process_find_by_pid(pid) \in SUBSET Slots
    BY Zenon DEF process_find_by_pid
  <2>3. UNCHANGED task_count
    BY <2>1, Zenon DEF process_send_signal, process_terminate, Deliver
  <2> QED BY <2>1, <2>2, <2>3, SignalFinds, Zenon
<1>4. ASSUME process_set_foreground PROVE Kept /\ UNCHANGED task_count
  BY <1>4, Zenon DEF process_set_foreground, RInv, Kept, StillDead
<1>5. ASSUME process_signal_foreground PROVE Kept /\ UNCHANGED task_count
  <2> DEFINE T == {s \in Slots : process_pool[s].pid \in foreground_pids}
  <2>1. PICK sig \in {"FATAL", "TSTP"} : process_send_signal(T, sig)
    BY <1>5, Zenon DEF process_signal_foreground
  <2>2. T \in SUBSET Slots
    BY Zenon
  <2> HIDE DEF T
  <2>3. UNCHANGED task_count
    BY <2>1, Zenon DEF process_send_signal, process_terminate, Deliver
  <2> QED BY <2>1, <2>2, <2>3, SignalFinds, Zenon
<1>6. ASSUME irq_timer PROVE Kept /\ UNCHANGED task_count
  <2>1. yield(tasks) /\ UNCHANGED task_count
    BY <1>6, Zenon DEF irq_timer
  <2>2. Yieldable(tasks)
    BY CurrentFacts, Zenon DEF Yieldable, LinksKept, StillDead, RInv, IInv, TypeOK, Core, MainOK
  <2> QED BY <2>1, <2>2, YieldFinds, Zenon
<1>7. ASSUME sys_waitpid PROVE Kept /\ UNCHANGED task_count
  <2>1. PICK target \in Pids \cup {ANY} : process_waitpid(target)
    BY <1>7, Zenon DEF sys_waitpid
  <2>2. current_task # Main
    BY <1>7, CurrentFacts, Zenon DEF sys_waitpid, InUser, RInv
  <2> QED BY <2>1, <2>2, WaitpidFinds, Zenon DEF process_waitpid
<1>8. ASSUME resume_waitpid PROVE Kept /\ UNCHANGED task_count
  <2>1. tasks[current_task].kctx # 0
    BY <1>8, Zenon DEF resume_waitpid
  <2>2. current_task # Main /\ tasks[current_task].kctx \in Pids \cup {ANY}
    BY <2>1, CurrentFacts, Zenon DEF RInv, IInv, TypeOK, Task
  <2> QED BY <1>8, <2>2, WaitpidFinds, Zenon DEF resume_waitpid, process_waitpid
<1>9. ~halted
  BY Zenon DEF halted
<1> QED BY <1>2, <1>3, <1>4, <1>5, <1>6, <1>7, <1>8, <1>9, Zenon DEF Next

(* Every step keeps the ring one cycle. *)
LEMMA RInvStep ==
  ASSUME RInv, [Next]_vars
  PROVE  RInv'
<1>1. IInv'
  BY StepPreserves, Zenon DEF RInv
<1>2. CASE UNCHANGED vars
  BY <1>1, <1>2, Zenon DEF RInv, NeverStuck, vars
<1>3. CASE Next /\ panic # "none"
  <2>1. UNCHANGED vars
    BY <1>3, Zenon DEF Next, do_fork, sys_exit, sys_kill, process_set_foreground,
       process_signal_foreground, irq_timer, sys_waitpid, resume_waitpid, halted,
       InUser, Interruptible
  <2> QED BY <1>2, <2>1, Zenon
<1>4. CASE do_fork /\ panic = "none"
  <2>1. UNCHANGED panic
    BY <1>4, Zenon DEF do_fork
  <2>2. CASE UNCHANGED <<tasks, task_count>>
    BY <1>1, <2>1, <2>2, Zenon DEF RInv, NeverStuck
  <2>3. CASE \E s \in Slots, t \in TaskIds, ok \in BOOLEAN :
                /\ IsFresh(t) \/ IsRecycled(t)
                /\ tasks' = task_alloc_raw(t, s, ok)
                /\ task_count' = IF IsFresh(t) THEN task_count + 1 ELSE task_count
    <3>1. OneCycle(tasks', 1 .. task_count', task_count')
      BY <1>4, <2>3, ForkFinds, Zenon
    <3> QED BY <1>1, <2>1, <3>1, Zenon DEF RInv, NeverStuck
  <2>4. \/ UNCHANGED <<tasks, task_count>>
        \/ \E s \in Slots, t \in TaskIds, ok \in BOOLEAN :
                /\ IsFresh(t) \/ IsRecycled(t)
                /\ tasks' = task_alloc_raw(t, s, ok)
                /\ task_count' = IF IsFresh(t) THEN task_count + 1 ELSE task_count
    BY <1>4, Zenon DEF do_fork
  <2> QED BY <2>2, <2>3, <2>4, Zenon
<1>5. CASE Next /\ ~do_fork /\ panic = "none"
  BY <1>1, <1>5, StepKeeps, Zenon DEF Kept, RInv, NeverStuck
<1> QED BY <1>2, <1>3, <1>4, <1>5, Zenon
(* task_init and task_create_user link main and init. *)
LEMMA RInvInit ==
  ASSUME Init
  PROVE  RInv
<1> DEFINE ring == [k \in 0 .. 1 |-> k + 1]
<1>1. task_count = 2 /\ tasks[1].next = 2 /\ tasks[2].next = 1
  <2>1. 1 \in TaskIds /\ 2 \in TaskIds /\ Main = 1 /\ 2 # 1
    BY ProcAssumption DEF TaskIds, Main
  <2>2. /\ tasks[1] = [ZeroTask EXCEPT !.state = "RUNNING", !.next = 2, !.stack = TRUE]
        /\ tasks[2] = [ZeroTask EXCEPT !.state = "READY", !.proc = 1, !.next = Main,
                                       !.stack = TRUE]
    BY <2>1, Zenon DEF Init
  <2> QED BY <2>1, <2>2, Zenon DEF Init, ZeroTask
<1>2. /\ ring \in [0 .. 1 -> 1 .. 2] /\ ring[0] = 1 /\ ring[1] = 2
      /\ \A k \in 0 .. 1 : ring[k] = k + 1
  OBVIOUS
<1> HIDE DEF ring
<1>3. \A t \in 1 .. 2 : \E k \in 0 .. 1 : ring[k] = t
  <2>1. \A t \in 1 .. 2 : t - 1 \in 0 .. 1 /\ ring[t - 1] = t
    BY <1>2
  <2> QED BY <2>1, Zenon
<1>4. \A j, k \in 0 .. 1 : ring[j] = ring[k] => j = k
  BY <1>2
<1>5. \A k \in 0 .. 0 : tasks[ring[k]].next = ring[k + 1]
  BY <1>1, <1>2
<1>6. 2 - 1 = 1 /\ 2 - 2 = 0
  OBVIOUS
<1>7. Lists(ring, tasks, 1 .. 2, 2)
  BY <1>1, <1>2, <1>3, <1>4, <1>5, <1>6, Zenon DEF Lists, Main
<1>8. OneCycle(tasks, 1 .. task_count, task_count)
  BY <1>1, <1>7, Zenon DEF OneCycle
<1>9. IInv /\ NeverStuck
  BY InitEstablishes, Zenon DEF Init, NeverStuck
<1> QED BY <1>8, <1>9, Zenon DEF RInv

(* The ring is one cycle through the used slots in every reachable state,  *)
(* whatever the number of slots.                                           *)
THEOREM RingInvariant == Spec => []RInv
<1>1. Init => RInv
  BY RInvInit, Zenon
<1>2. RInv /\ [Next]_vars => RInv'
  BY RInvStep, Zenon
<1> QED BY <1>1, <1>2, PTL DEF Spec

(* For task tables of any size, the walk from main along the next links    *)
(* visits every used slot once and comes back, however often fork unlinked *)
(* and spliced slots (task_alloc_raw, unlink_task_from_ring).              *)
THEOREM ProcRingIntact == Spec => []RingIntact
<1>1. RInv => RingIntact
  BY CycleIsRing, Zenon DEF RInv, IInv
<1> QED BY <1>1, RingInvariant, PTL

(* For task tables of any size, yield always finds a task to run: its halt *)
(* loop is unreachable.                                                    *)
THEOREM ProcNeverStuck == Spec => []NeverStuck
<1>1. RInv => NeverStuck
  BY Zenon DEF RInv
<1> QED BY <1>1, RingInvariant, PTL

-----------------------------------------------------------------------------
(* What a step may do to a record *)

(* What a step does to the record of one process. *)
Record(s) ==
    \/ process_pool'[s] = process_pool[s]
    \/ /\ process_pool[s].pid = 0 /\ process_pool'[s].pid = next_pid
    \/ /\ Live(s)
       /\ \/ \E code \in {"exited", "signaled"} : process_pool'[s] =
                [process_pool[s] EXCEPT !.exit_code = code, !.is_zombie = TRUE]
          \/ /\ ~process_pool[s].is_stopped
             /\ process_pool'[s] =
                   [process_pool[s] EXCEPT !.is_stopped = TRUE, !.stop_reported = FALSE]
          \/ process_pool'[s] = [process_pool[s] EXCEPT !.is_stopped = FALSE]
    \/ /\ process_pool[s].pid # 0
       /\ process_pool[s].parent_pid = process_pool[Self].pid
       /\ process_pool'[s] = Reported(s)

(* Signals change records of live processes only. *)
LEMMA SignalRecords ==
  ASSUME NEW T \in SUBSET Slots, NEW sig \in {"FATAL", "TSTP", "CONT"},
         process_send_signal(T, sig), NEW s \in Slots
  PROVE  Record(s)
<1>1. CASE sig = "FATAL"
  <2>1. \/ process_pool'[s] = process_pool[s]
        \/ Live(s) /\ process_pool'[s] =
              [process_pool[s] EXCEPT !.exit_code = "signaled", !.is_zombie = TRUE]
    BY <1>1, Zenon DEF process_send_signal, process_terminate, Killable
  <2> QED BY <2>1, Zenon DEF Record
<1>2. CASE sig = "TSTP"
  <2>1. \/ process_pool'[s] = process_pool[s]
        \/ Live(s) /\ ~process_pool[s].is_stopped /\ process_pool'[s] =
              [process_pool[s] EXCEPT !.is_stopped = TRUE, !.stop_reported = FALSE]
    BY <1>2, Zenon DEF process_send_signal, Stoppable
  <2> QED BY <2>1, Zenon DEF Record
<1>3. CASE sig = "CONT"
  <2>1. \/ process_pool'[s] = process_pool[s]
        \/ Live(s) /\ process_pool'[s] = [process_pool[s] EXCEPT !.is_stopped = FALSE]
    BY <1>3, Zenon DEF process_send_signal, Continuable
  <2> QED BY <2>1, Zenon DEF Record
<1> QED BY <1>1, <1>2, <1>3, Zenon

(* waitpid changes the record it reports only, a child's of the caller. *)
LEMMA WaitpidRecords ==
  ASSUME IInv, NEW target, process_waitpid(target), NEW s \in Slots
  PROVE  Record(s)
<1>0. process_pool \in [Slots -> Process]
  BY Zenon DEF IInv, TypeOK
<1>1. \/ UNCHANGED process_pool
      \/ \E c \in ChildrenOf(Self, target) :
            process_pool' = [process_pool EXCEPT ![c] = Reported(c)]
  BY Zenon DEF process_waitpid
<1>2. CASE UNCHANGED process_pool
  BY <1>2, Zenon DEF Record
<1>3. ASSUME NEW c \in ChildrenOf(Self, target),
             process_pool' = [process_pool EXCEPT ![c] = Reported(c)]
      PROVE  Record(s)
  <2>1. /\ c \in Slots /\ process_pool[c].pid # 0
        /\ process_pool[c].parent_pid = process_pool[Self].pid
    BY Zenon DEF ChildrenOf
  <2>2. process_pool'[s] = IF s = c THEN Reported(s) ELSE process_pool[s]
    BY <1>0, <1>3, <2>1, Zenon
  <2>3. CASE s = c
    BY <2>1, <2>2, <2>3, Zenon DEF Record
  <2>4. CASE s # c
    BY <2>2, <2>4, Zenon DEF Record
  <2> QED BY <2>3, <2>4, Zenon
<1> QED BY <1>1, <1>2, <1>3, Zenon

(* So does every step. *)
LEMMA StepRecords ==
  ASSUME IInv, Next, NEW s \in Slots
  PROVE  Record(s)
<1>0. process_pool \in [Slots -> Process] /\ next_pid \in 2 .. MaxPid + 1
  BY Zenon DEF IInv, TypeOK
<1>1. ASSUME do_fork PROVE Record(s)
  <2>1. InUser /\ next_pid <= MaxPid
    BY <1>1, Zenon DEF do_fork
  <2>2. PICK q \in Slots : /\ FirstFree(q)
                           /\ \E t \in TaskIds \cup {NULL} :
                                 process_pool' = [process_pool EXCEPT ![q] = Child(t)]
    BY <1>1, Zenon DEF do_fork
  <2>3. PICK t \in TaskIds \cup {NULL} :
           process_pool' = [process_pool EXCEPT ![q] = Child(t)]
    BY <2>2, Zenon
  <2>4. process_pool[Self].pid \in Pids \cup {0} /\ next_pid \in Pids
    <3>1. Self \in Slots
      BY <2>1, CurrentFacts, Zenon DEF InUser, Interruptible
    <3> QED BY <1>0, <2>1, <3>1, ProcAssumption DEF Process, Pids
  <2>5. Child(t).pid = next_pid
    BY <2>4, ChildRecord, Zenon
  <2>6. process_pool'[s] = IF s = q THEN Child(t) ELSE process_pool[s]
    BY <1>0, <2>3, Zenon
  <2> QED BY <2>2, <2>5, <2>6, Zenon DEF Record, FirstFree
<1>2. ASSUME sys_exit PROVE Record(s)
  <2>1. Live(Self)
    BY <1>2, CurrentFacts, Zenon DEF sys_exit, InUser, Interruptible, Live, LiveIn
  <2>2. PICK code \in {"exited", "signaled"} : process_terminate({Self}, code)
    BY <1>2, Zenon DEF sys_exit
  <2>3. \/ process_pool'[s] = process_pool[s]
        \/ s = Self /\ process_pool'[s] =
              [process_pool[s] EXCEPT !.exit_code = code, !.is_zombie = TRUE]
    BY <2>2, Zenon DEF process_terminate
  <2> QED BY <2>1, <2>3, Zenon DEF Record
<1>3. ASSUME sys_kill PROVE Record(s)
  <2>1. PICK pid \in Pids, sig \in {"FATAL", "TSTP", "CONT"} :
            process_send_signal(process_find_by_pid(pid), sig)
    BY <1>3, Zenon DEF sys_kill
  <2>2. process_find_by_pid(pid) \in SUBSET Slots
    BY Zenon DEF process_find_by_pid
  <2> QED BY <2>1, <2>2, SignalRecords, Zenon
<1>4. ASSUME UNCHANGED process_pool PROVE Record(s)
  BY <1>4, Zenon DEF Record
<1>5. ASSUME process_signal_foreground PROVE Record(s)
  <2> DEFINE T == {q \in Slots : process_pool[q].pid \in foreground_pids}
  <2>1. PICK sig \in {"FATAL", "TSTP"} : process_send_signal(T, sig)
    BY <1>5, Zenon DEF process_signal_foreground
  <2>2. T \in SUBSET Slots
    BY Zenon
  <2> HIDE DEF T
  <2> QED BY <2>1, <2>2, SignalRecords, Zenon
<1>6. ASSUME sys_waitpid \/ resume_waitpid PROVE Record(s)
  BY <1>6, WaitpidRecords, Zenon DEF sys_waitpid, resume_waitpid
<1>7. process_set_foreground \/ irq_timer \/ halted => UNCHANGED process_pool
  BY Zenon DEF process_set_foreground, irq_timer, halted, vars
<1> QED BY <1>1, <1>2, <1>3, <1>4, <1>5, <1>6, <1>7, Zenon DEF Next

(* For tables of any size, a zombie's record stays as it is until its own  *)
(* parent reaps it (process_send_signal, process_waitpid).                 *)
THEOREM ProcZombieUntouched == Spec => ZombieUntouched
<1>1. ASSUME IInv, Next, NEW s \in Slots, process_pool[s].is_zombie
      PROVE  \/ process_pool'[s] = process_pool[s]
             \/ /\ process_pool'[s].pid = 0
                /\ process_pool[Self].pid = process_pool[s].parent_pid
  <2>1. Record(s)
    BY <1>1, StepRecords, Zenon
  <2>2. ~Live(s) /\ process_pool[s].pid # 0
    BY <1>1 DEF Live, IInv, TypeOK, ZeroProcess
  <2>3. Reported(s) = ZeroProcess /\ ZeroProcess.pid = 0
    BY <1>1, Zenon DEF Reported, ZeroProcess
  <2> QED BY <2>1, <2>2, <2>3, Zenon DEF Record
<1>2. IInv /\ [Next]_vars =>
         [\A s \in Slots : process_pool[s].is_zombie =>
            \/ process_pool'[s] = process_pool[s]
            \/ /\ process_pool'[s].pid = 0
               /\ process_pool[Self].pid = process_pool[s].parent_pid]_vars
  BY <1>1, Zenon
<1> QED BY <1>2, Invariant, PTL DEF Spec, ZombieUntouched

(* For tables of any size, a stop is reported by waitpid at most once.     *)
THEOREM ProcOneReportPerStop == Spec => OneReportPerStop
<1>1. ASSUME IInv, Next, NEW s \in Slots,
             process_pool[s].is_stopped, process_pool[s].stop_reported,
             process_pool'[s].pid = process_pool[s].pid, process_pool'[s].is_stopped
      PROVE  process_pool'[s].stop_reported
  <2>1. Record(s)
    BY <1>1, StepRecords, Zenon
  <2>2. process_pool[s] \in Process /\ process_pool[s].pid # 0
    <3>1. ~ZeroProcess.is_stopped
      BY Zenon DEF ZeroProcess
    <3>2. TypeOK /\ process_pool[s] # ZeroProcess
      BY <1>1, <3>1, Zenon DEF IInv
    <3> QED BY <3>2, Zenon DEF TypeOK
  <2>3. Reported(s).pid = 0 \/ Reported(s).stop_reported
    BY <2>2, Zenon DEF Reported, ZeroProcess, Process
  <2>4. ASSUME NEW code, process_pool'[s] =
                [process_pool[s] EXCEPT !.exit_code = code, !.is_zombie = TRUE]
        PROVE  process_pool'[s].stop_reported
    BY <1>1, <2>2, <2>4, Zenon DEF Process
  <2>5. ASSUME process_pool'[s] = [process_pool[s] EXCEPT !.is_stopped = FALSE]
        PROVE  FALSE
    BY <1>1, <2>2, <2>5, Zenon DEF Process
  <2> QED BY <1>1, <2>1, <2>2, <2>3, <2>4, <2>5, Zenon DEF Record
<1>2. IInv /\ [Next]_vars =>
         [\A s \in Slots :
            /\ process_pool[s].is_stopped /\ process_pool[s].stop_reported
            /\ process_pool'[s].pid = process_pool[s].pid
            /\ process_pool'[s].is_stopped
            => process_pool'[s].stop_reported]_vars
  BY <1>1, Zenon
<1> QED BY <1>2, Invariant, PTL DEF Spec, OneReportPerStop

(* For tables of any size, a terminated task's slot comes back to life     *)
(* only for a process created in that very step.                           *)
THEOREM ProcDeadStayDead == Spec => DeadStayDead
<1>1. ASSUME RInv, Next, NEW t \in TaskIds, tasks[t].state = "TERMINATED",
             tasks'[t].state # "TERMINATED"
      PROVE  process_pool'[tasks'[t].proc].pid = next_pid
  <2>1. panic = "none"
    BY <1>1, ZenonT(40) DEF Next, do_fork, sys_exit, sys_kill, process_set_foreground,
       process_signal_foreground, irq_timer, sys_waitpid, resume_waitpid, halted,
       InUser, Interruptible, vars
  <2>2. do_fork
    BY <1>1, <2>1, StepKeeps, Zenon DEF Kept, StillDead
  <2>3. PICK s \in Slots, u \in TaskIds, ok \in BOOLEAN :
           /\ IsFresh(u) \/ IsRecycled(u)
           /\ tasks' = task_alloc_raw(u, s, ok)
           /\ process_pool' = [process_pool EXCEPT ![s] = Child(u)]
    BY <1>1, <2>2, Zenon DEF do_fork
  <2>4. /\ tasks'[u].proc = s
        /\ \A v \in TaskIds \ {u} : tasks'[v].state = tasks[v].state
    <3>1. IInv
      BY <1>1, Zenon DEF RInv
    <3>2. /\ task_alloc_raw(u, s, ok)[u].proc = s
          /\ \A v \in TaskIds \ {u} : task_alloc_raw(u, s, ok)[v].state = tasks[v].state
      BY <2>1, <2>3, <3>1, RawSlot
    <3> QED BY <2>3, <3>2, Zenon
  <2>5. t = u
    BY <1>1, <2>4, Zenon
  <2>6. process_pool'[s] = Child(u) /\ Child(u).pid = next_pid
    <3>1. InUser /\ next_pid <= MaxPid
      BY <2>2, Zenon DEF do_fork
    <3>2. Self \in Slots
      BY <1>1, <3>1, CurrentFacts, Zenon DEF InUser, Interruptible, RInv
    <3>3. process_pool[Self].pid \in Pids \cup {0} /\ next_pid \in Pids
      BY <1>1, <3>1, <3>2, ProcAssumption, SMTT(30) DEF RInv, IInv, TypeOK, Process, Pids
    <3>4. Child(u).pid = next_pid
      BY <3>3, ChildRecord, Zenon
    <3> QED BY <1>1, <2>3, <3>4, Zenon DEF RInv, IInv, TypeOK
  <2> QED BY <2>4, <2>5, <2>6, Zenon
<1>2. RInv /\ [Next]_vars =>
         [\A t \in TaskIds :
            tasks[t].state = "TERMINATED" /\ tasks'[t].state # "TERMINATED" =>
               process_pool'[tasks'[t].proc].pid = next_pid]_vars
  BY <1>1, Zenon
<1> QED BY <1>2, RingInvariant, PTL DEF Spec, DeadStayDead
=============================================================================
