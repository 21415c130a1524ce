-------------------------------- MODULE Proc --------------------------------
(***************************************************************************)
(* Processes and the scheduler: kernel/task.c, fork.c, the process life    *)
(* cycle and signals of process.c, exit and kill of syscall.c, the timer   *)
(* and Ctrl-C/Ctrl-Z interrupts.                                           *)
(*                                                                         *)
(* The kernel runs with interrupts off, on one CPU, so a system call or    *)
(* interrupt handler is one step up to the point where it gives the CPU    *)
(* away (yield, task_block).  What a task does when it next runs is its    *)
(* kctx: 0 means it continues in user mode (or, for main, in the idle      *)
(* loop), any other value that it is inside process_waitpid's loop,        *)
(* waiting for that pid (ANY for waitpid(-1)).                             *)
(***************************************************************************)
EXTENDS Integers, FiniteSets

CONSTANTS
    MAX_TASKS,        \* slots of tasks[], main included
    MAX_PROCESSES,    \* slots of process_pool[]
    MaxPid,           \* bound: fork is not called once next_pid passes it
    ForegroundMax     \* bound: pids in the foreground set (8 in the code)

ASSUME ProcAssumption ==
    /\ MAX_TASKS \in Nat /\ MAX_TASKS >= 2
    /\ MAX_PROCESSES \in Nat /\ MAX_PROCESSES >= 1
    /\ MaxPid \in Nat /\ MaxPid >= 1
    /\ ForegroundMax \in Nat

VARIABLES
    tasks,            \* the task table
    task_count,       \* slots of it ever used
    current_task,
    process_pool,     \* the process table; pid 0 is a free slot
    next_pid,
    foreground_pids,  \* who receives Ctrl-C and Ctrl-Z
    panic             \* why the kernel stopped for good, or "none"

vars == <<tasks, task_count, current_task, process_pool, next_pid,
          foreground_pids, panic>>

NULL == 0
ANY == -1
Main == 1
TaskIds == 1 .. MAX_TASKS
Slots == 1 .. MAX_PROCESSES
Pids == 1 .. MaxPid

States == {"UNUSED", "READY", "RUNNING", "BLOCKED", "STOPPED", "TERMINATED"}
Gone == {"UNUSED", "TERMINATED"}
Halts == {"none", "no_runnable", "null_task", "bad_stack"}

Task == [state : States, wait_chan : Slots \cup {NULL}, proc : Slots \cup {NULL},
         next : TaskIds \cup {NULL}, stack : BOOLEAN, kctx : Pids \cup {0, ANY}]

Process == [pid : Pids \cup {0}, parent_pid : Pids \cup {0},
            exit_code : {"none", "exited", "signaled"},
            is_zombie : BOOLEAN, is_stopped : BOOLEAN, stop_reported : BOOLEAN,
            task : TaskIds \cup {NULL}]

(* The static arrays start zeroed.  A slot past task_count is not linked   *)
(* into the ring and nobody reads its state, called UNUSED here.           *)
ZeroTask == [state |-> "UNUSED", wait_chan |-> NULL, proc |-> NULL, next |-> NULL,
             stack |-> FALSE, kctx |-> 0]
ZeroProcess == [pid |-> 0, parent_pid |-> 0, exit_code |-> "none",
                is_zombie |-> FALSE, is_stopped |-> FALSE,
                stop_reported |-> FALSE, task |-> NULL]

(* task_init, then _start's process_alloc(0) and task_create_user for      *)
(* init.  Interrupts are on since kernel.c:96, but until init's task       *)
(* exists there is only main to run, whatever the timer does.              *)
Init ==
    /\ tasks = [t \in TaskIds |->
          CASE t = Main -> [ZeroTask EXCEPT !.state = "RUNNING", !.next = 2,
                                            !.stack = TRUE]
            [] t = 2    -> [ZeroTask EXCEPT !.state = "READY", !.proc = 1,
                                            !.next = Main, !.stack = TRUE]
            [] OTHER    -> ZeroTask]
    /\ task_count = 2
    /\ current_task = Main
    /\ process_pool = [s \in Slots |->
          IF s = 1 THEN [ZeroProcess EXCEPT !.pid = 1, !.task = 2]
                   ELSE ZeroProcess]
    /\ next_pid = 2
    /\ foreground_pids = {}
    /\ panic = "none"

-----------------------------------------------------------------------------
(* The scheduler *)

(* hop(ts, from)[k]: the task k links after from in the ring. *)
hop(ts, from) ==
    LET walk[k \in 0 .. MAX_TASKS] ==
            IF k = 0 THEN from ELSE ts[walk[k - 1]].next
    IN  walk

(* Mutant: the idle task is never picked. *)
pick_next_ready_not_main(ts, from, t) ==
    /\ t \notin {from, Main} /\ ts[t].state = "READY"
    /\ LET ring == hop(ts, from)
       IN  \E k \in 1 .. MAX_TASKS :
              /\ ring[k] = t
              /\ \A j \in 1 .. k - 1 :
                    ring[j] # from /\ (ring[j] = Main \/ ts[ring[j]].state # "READY")

(* Mutant: every walk starts at main, so low slots win for ever. *)
pick_next_ready_from_main(ts, from, t) ==
    /\ t # from /\ ts[t].state = "READY"
    /\ LET ring == hop(ts, Main)
       IN  \E k \in 1 .. MAX_TASKS :
              /\ ring[k] = t
              /\ \A j \in 1 .. k - 1 : ring[j] = from \/ ts[ring[j]].state # "READY"

(* t is what pick_next_ready(from) returns: the first READY task met on    *)
(* the way round the ring.                                                 *)
pick_next_ready(ts, from, t) ==
    /\ t # from /\ ts[t].state = "READY"
    /\ LET ring == hop(ts, from)
       IN  \E k \in 1 .. MAX_TASKS :
              /\ ring[k] = t
              /\ \A j \in 1 .. k - 1 : ring[j] # from /\ ts[ring[j]].state # "READY"

(* Mutant: the previous task is left RUNNING. *)
Preempted_not(ts) == ts

Preempted(ts) ==
    IF ts[current_task].state = "RUNNING"
    THEN [ts EXCEPT ![current_task].state = "READY"]
    ELSE ts

(* yield(), on a task table the caller has already changed to ts.  Landing *)
(* on a task that never got a stack (rsp 0) crashes the kernel.            *)
yield(ts) ==
    LET before == Preempted(ts)
    IN  \/ \E t \in TaskIds :
             /\ pick_next_ready(before, current_task, t)
             /\ tasks' = [before EXCEPT ![t].state = "RUNNING"]
             /\ current_task' = t
             /\ panic' = IF before[t].stack THEN panic ELSE "bad_stack"
        \/ /\ \A t \in TaskIds : ~pick_next_ready(before, current_task, t)
           /\ UNCHANGED current_task
           /\ IF before[current_task].state = "READY"
              THEN /\ tasks' = [before EXCEPT ![current_task].state = "RUNNING"]
                   /\ UNCHANGED panic
              ELSE /\ tasks' = before
                   /\ panic' = "no_runnable"

(* Mutant: a wake-up also releases a task that was stopped in its sleep. *)
task_wake_stopped(ts, chans) ==
    [t \in TaskIds |->
        IF ts[t].state \in {"BLOCKED", "STOPPED"} /\ ts[t].wait_chan \in chans
        THEN [ts[t] EXCEPT !.state = "READY", !.wait_chan = NULL]
        ELSE ts[t]]

(* task_wake, on each of a set of channels. *)
task_wake(ts, chans) ==
    [t \in TaskIds |->
        IF ts[t].state = "BLOCKED" /\ ts[t].wait_chan \in chans
        THEN [ts[t] EXCEPT !.state = "READY", !.wait_chan = NULL]
        ELSE ts[t]]

(* Mutant: a stopped task's slot is taken for a dead one's. *)
IsDead_or_stopped(t) == t # current_task /\ tasks[t].state \in {"TERMINATED", "STOPPED"}

IsDead(t) == t # current_task /\ tasks[t].state = "TERMINATED"

find_terminated_task(t) == IsDead(t) /\ \A u \in TaskIds : IsDead(u) => t <= u

(* Mutant: a recycled task keeps its old place in the ring. *)
unlink_task_from_ring_not(t) == tasks

unlink_task_from_ring(t) ==
    [u \in TaskIds |-> IF tasks[u].next = t
                       THEN [tasks[u] EXCEPT !.next = tasks[t].next]
                       ELSE tasks[u]]

(* The two sources of task_alloc_raw's slot. *)
IsFresh(t) == task_count < MAX_TASKS /\ t = task_count + 1
IsRecycled(t) == task_count = MAX_TASKS /\ find_terminated_task(t)

(* task_alloc_raw's slot t, READY for process s and spliced in after the   *)
(* current task; ok is whether pmm_alloc_pages then found a stack for it.  *)
task_alloc_raw(t, s, ok) ==
    LET ring == IF IsRecycled(t) THEN unlink_task_from_ring(t) ELSE tasks
    IN  [ring EXCEPT
            ![t] = [ZeroTask EXCEPT !.state = "READY", !.proc = s, !.stack = ok,
                                    !.next = ring[current_task].next],
            ![current_task].next = t]

-----------------------------------------------------------------------------
(* Processes *)

Live(s) == process_pool[s].pid # 0 /\ ~process_pool[s].is_zombie

(* process_find_by_pid; pids are unique, so at most one slot. *)
process_find_by_pid(pid) == {s \in Slots : pid # 0 /\ process_pool[s].pid = pid}

(* Interrupts are on and system calls possible: the current task is in     *)
(* user mode, or is main in its idle loop.                                 *)
Interruptible == panic = "none" /\ tasks[current_task].kctx = 0

Self == tasks[current_task].proc
InUser == Interruptible /\ Self # NULL

(* process_alloc's slot. *)
FirstFree(s) ==
    /\ process_pool[s].pid = 0
    /\ \A q \in Slots : process_pool[q].pid = 0 => s <= q

(* Mutant: the pid counter is not advanced. *)
NextPid_same == next_pid

NextPid == next_pid + 1

Child(task) == [ZeroProcess EXCEPT !.pid = next_pid, !.task = task,
                                   !.parent_pid = process_pool[Self].pid]

(* do_fork.  Out of process slots: -EAGAIN, nothing changes.  Out of task  *)
(* slots: -EAGAIN, but the child's process slot stays taken, without a     *)
(* task.  Out of memory for the child's kernel stack: -ENOMEM, but the     *)
(* child's task stays READY in the ring.                                   *)
do_fork ==
    /\ InUser
    /\ next_pid <= MaxPid
    /\ \E s \in Slots :
          /\ FirstFree(s)
          /\ \/ \E t \in TaskIds, ok \in BOOLEAN :
                  /\ IsFresh(t) \/ IsRecycled(t)
                  /\ tasks' = task_alloc_raw(t, s, ok)
                  /\ task_count' = IF IsFresh(t) THEN task_count + 1 ELSE task_count
                  /\ process_pool' = [process_pool EXCEPT ![s] = Child(t)]
             \/ /\ \A t \in TaskIds : ~IsFresh(t) /\ ~IsRecycled(t)
                /\ process_pool' = [process_pool EXCEPT ![s] = Child(NULL)]
                /\ UNCHANGED <<tasks, task_count>>
    /\ next_pid' = NextPid
    /\ UNCHANGED <<current_task, foreground_pids, panic>>

(* Mutant: the parent is not woken. *)
ParentsOf_nobody(T) == {}

(* The process slots process_mark_zombie and SIGTSTP wake for the          *)
(* processes T: the wait channels of their parents.                        *)
ParentsOf(T) == UNION {process_find_by_pid(process_pool[s].parent_pid) : s \in T}

(* The tasks of the processes T put into a state, after their parents have *)
(* been woken.                                                             *)
WithState(T, state) ==
    LET woken == task_wake(tasks, ParentsOf(T))
        mine  == {process_pool[s].task : s \in T}
    IN  [t \in TaskIds |-> IF t \in mine THEN [woken[t] EXCEPT !.state = state]
                                        ELSE woken[t]]

(* The end of a signal's delivery: the kernel faults on a process without  *)
(* a task; the current task yields if it was hit itself, after all targets *)
(* have been dealt with; otherwise it carries on.                          *)
Deliver(T, ts) ==
    /\ UNCHANGED <<task_count, next_pid, foreground_pids>>
    /\ \/ /\ \E s \in T : process_pool[s].task = NULL
          /\ tasks' = ts
          /\ panic' = "null_task"
          /\ UNCHANGED current_task
       \/ /\ \A s \in T : process_pool[s].task # NULL
          /\ IF \E s \in T : process_pool[s].task = current_task
             THEN yield(ts)
             ELSE tasks' = ts /\ UNCHANGED <<current_task, panic>>

(* process_terminate and process_mark_zombie. *)
process_terminate(T, code) ==
    /\ process_pool' = [s \in Slots |->
          IF s \in T
          THEN [process_pool[s] EXCEPT !.exit_code = code, !.is_zombie = TRUE]
          ELSE process_pool[s]]
    /\ Deliver(T, WithState(T, "TERMINATED"))

(* Mutant: a zombie can be killed again. *)
Killable_again(s) == process_pool[s].pid # 0

Killable(s) == Live(s)

(* Mutant: stopping a stopped process counts as a new stop. *)
Stoppable_again(s) == Live(s)

Stoppable(s) == Live(s) /\ ~process_pool[s].is_stopped

(* Mutant: SIGCONT does not look at is_zombie. *)
Continuable_dead(s) == process_pool[s].is_stopped

Continuable(s) == Live(s) /\ process_pool[s].is_stopped

(* process_send_signal of SIGKILL, SIGTERM or SIGINT ("FATAL"), SIGTSTP or *)
(* SIGCONT to every process of T; process_signal_foreground's loop for     *)
(* more than one.  The order of the loop makes no difference: a target     *)
(* that is another's parent ends up in its own signal's state either way   *)
(* (only wait_chan, which nobody reads outside BLOCKED, may differ).       *)
process_send_signal(T, sig) ==
    CASE sig = "FATAL" -> process_terminate({s \in T : Killable(s)}, "signaled")
      [] sig = "TSTP" ->
            LET hit == {s \in T : Stoppable(s)}
            IN  /\ process_pool' = [s \in Slots |->
                      IF s \in hit
                      THEN [process_pool[s] EXCEPT !.is_stopped = TRUE,
                                                   !.stop_reported = FALSE]
                      ELSE process_pool[s]]
                /\ Deliver(hit, WithState(hit, "STOPPED"))
      [] sig = "CONT" ->
            LET hit  == {s \in T : Continuable(s)}
                mine == {process_pool[s].task : s \in hit}
            IN  /\ process_pool' = [s \in Slots |->
                      IF s \in hit
                      THEN [process_pool[s] EXCEPT !.is_stopped = FALSE]
                      ELSE process_pool[s]]
                /\ Deliver(hit, [t \in TaskIds |->
                      IF t \in mine THEN [tasks[t] EXCEPT !.state = "READY"]
                                    ELSE tasks[t]])

-----------------------------------------------------------------------------
(* Entries into the kernel *)

(* sys_exit, or an exception that ends the process (SIGSEGV). *)
sys_exit ==
    /\ InUser
    /\ \E code \in {"exited", "signaled"} : process_terminate({Self}, code)

(* sys_kill; no such pid is -ESRCH, nothing changes. *)
sys_kill ==
    /\ InUser
    /\ \E pid \in Pids, sig \in {"FATAL", "TSTP", "CONT"} :
          /\ process_find_by_pid(pid) # {}
          /\ process_send_signal(process_find_by_pid(pid), sig)

(* process_set_foreground. *)
process_set_foreground ==
    /\ InUser
    /\ foreground_pids' \in {P \in SUBSET Pids : Cardinality(P) <= ForegroundMax}
    /\ UNCHANGED <<tasks, task_count, current_task, process_pool, next_pid, panic>>

(* Ctrl-C and Ctrl-Z: process_signal_foreground from the keyboard IRQ. *)
process_signal_foreground ==
    /\ Interruptible
    /\ foreground_pids # {}
    /\ \E sig \in {"FATAL", "TSTP"} :
          process_send_signal({s \in Slots : process_pool[s].pid \in foreground_pids}, sig)

(* The timer IRQ at the end of a slice. *)
irq_timer ==
    /\ Interruptible
    /\ yield(tasks)
    /\ UNCHANGED <<task_count, process_pool, next_pid, foreground_pids>>

ChildrenOf(s, target) ==
    {c \in Slots : /\ process_pool[c].pid # 0
                   /\ process_pool[c].parent_pid = process_pool[s].pid
                   /\ target = ANY \/ process_pool[c].pid = target}

Reportable(c) ==
    process_pool[c].is_zombie \/
    (process_pool[c].is_stopped /\ ~process_pool[c].stop_reported)

(* Mutant: a reaped slot is only marked free. *)
Reported_unzeroed(c) ==
    IF process_pool[c].is_zombie THEN [process_pool[c] EXCEPT !.pid = 0]
    ELSE [process_pool[c] EXCEPT !.stop_reported = TRUE]

(* What reporting a child leaves in its slot. *)
Reported(c) ==
    IF process_pool[c].is_zombie THEN ZeroProcess
    ELSE [process_pool[c] EXCEPT !.stop_reported = TRUE]

(* One round of process_waitpid's loop: report the first child with news,  *)
(* fail without children (-ECHILD), or block on the caller's own slot.     *)
process_waitpid(target) ==
    LET kids == ChildrenOf(Self, target)
        news == {c \in kids : Reportable(c)}
    IN  /\ UNCHANGED <<task_count, next_pid, foreground_pids>>
        /\ \/ /\ \E c \in news :
                   /\ \A d \in news : c <= d
                   /\ process_pool' = [process_pool EXCEPT ![c] = Reported(c)]
              /\ tasks' = [tasks EXCEPT ![current_task].kctx = 0]
              /\ UNCHANGED <<current_task, panic>>
           \/ /\ kids = {}
              /\ tasks' = [tasks EXCEPT ![current_task].kctx = 0]
              /\ UNCHANGED <<current_task, process_pool, panic>>
           \/ /\ kids # {} /\ news = {}
              /\ yield([tasks EXCEPT ![current_task].kctx = target,
                                     ![current_task].wait_chan = Self,
                                     ![current_task].state = "BLOCKED"])
              /\ UNCHANGED process_pool

sys_waitpid == InUser /\ \E target \in Pids \cup {ANY} : process_waitpid(target)

(* A task that was waiting in process_waitpid has the CPU again. *)
resume_waitpid ==
    /\ panic = "none"
    /\ tasks[current_task].kctx # 0
    /\ process_waitpid(tasks[current_task].kctx)

(* hcf(), or yield()'s own halt loop. *)
halted == panic # "none" /\ UNCHANGED vars

Next ==
    \/ do_fork
    \/ sys_exit
    \/ sys_kill
    \/ process_set_foreground
    \/ process_signal_foreground
    \/ irq_timer
    \/ sys_waitpid
    \/ resume_waitpid
    \/ halted

Spec == Init /\ [][Next]_vars

(* The timer keeps interrupting user mode and the idle loop, and kernel    *)
(* code always runs to its next block or return; nothing is assumed of     *)
(* what programs do.                                                       *)
Fairness == WF_vars(irq_timer) /\ WF_vars(resume_waitpid)

FairSpec == Spec /\ Fairness

-----------------------------------------------------------------------------
(* Every variable keeps its type, and a free process slot is all zero, as  *)
(* process_alloc's callers and process_find_by_pid expect.                 *)
TypeOK ==
    /\ tasks \in [TaskIds -> Task]
    /\ task_count \in 2 .. MAX_TASKS
    /\ current_task \in TaskIds
    /\ process_pool \in [Slots -> Process]
    /\ \A s \in Slots : process_pool[s].pid = 0 => process_pool[s] = ZeroProcess
    /\ next_pid \in 2 .. MaxPid + 1
    /\ foreground_pids \in SUBSET Pids
    /\ panic \in Halts

(* While the kernel is up, exactly one task is RUNNING and it is           *)
(* current_task, through every preemption, block, stop, kill and recycled  *)
(* task slot (yield in task.c).                                            *)
OneRunning ==
    panic = "none" =>
        \A t \in TaskIds : tasks[t].state = "RUNNING" <=> t = current_task

(* A used, unterminated task other than main and a live process point at   *)
(* each other: no slot of tasks[] is recycled under a live process, and no *)
(* signal through process->task hits another process's task (process.c     *)
(* 76-111, task.c 86-128).  A live process without a task is the one       *)
(* do_fork's failure path leaves behind.                                   *)
LiveLinkage ==
    /\ \A t \in TaskIds \ {Main} :
          tasks[t].state \notin Gone =>
             /\ tasks[t].proc # NULL
             /\ Live(tasks[t].proc)
             /\ process_pool[tasks[t].proc].task = t
    /\ \A s \in Slots :
          Live(s) /\ process_pool[s].task # NULL =>
             /\ process_pool[s].task # Main
             /\ tasks[process_pool[s].task].proc = s
             /\ tasks[process_pool[s].task].state \notin Gone

(* A live process is marked stopped exactly while its task is parked, so   *)
(* SIGCONT always finds the task it must release and a wake-up never runs  *)
(* a stopped process.                                                      *)
StoppedIsParked ==
    \A s \in Slots : Live(s) /\ process_pool[s].task # NULL =>
        (process_pool[s].is_stopped <=> tasks[process_pool[s].task].state = "STOPPED")

(* No wake-up is lost: a task asleep in process_waitpid sleeps on its own  *)
(* process's channel, has a child to wait for, and none of the children it *)
(* waits for has news (an exit or an unreported stop) to report.           *)
NoLostWakeup ==
    \A t \in TaskIds : tasks[t].state = "BLOCKED" =>
        /\ tasks[t].kctx # 0
        /\ tasks[t].wait_chan = tasks[t].proc
        /\ ChildrenOf(tasks[t].proc, tasks[t].kctx) # {}
        /\ \A c \in ChildrenOf(tasks[t].proc, tasks[t].kctx) : ~Reportable(c)

(* pids are never handed out twice (process.h:52). *)
PidsUnique ==
    \A s, q \in Slots :
        /\ process_pool[s].pid < next_pid
        /\ process_pool[s].pid # 0 /\ process_pool[s].pid = process_pool[q].pid => s = q

(* The scheduler's ring is one cycle through all used task slots, however  *)
(* often slots were unlinked and spliced in elsewhere.                     *)
RingIntact ==
    LET ring == hop(tasks, Main)
    IN  /\ {ring[k] : k \in 0 .. task_count - 1} = 1 .. task_count
        /\ ring[task_count] = Main

(* yield()'s halt loop is unreachable, as its comment says (task.c:225):   *)
(* there is always a task to run.                                          *)
NeverStuck == panic # "no_runnable"

(* A zombie's record, exit code included, stays as it is whatever signals  *)
(* still arrive, until its own parent reaps it.                            *)
ZombieUntouched ==
    [][\A s \in Slots : process_pool[s].is_zombie =>
          \/ process_pool'[s] = process_pool[s]
          \/ /\ process_pool'[s].pid = 0
             /\ process_pool[Self].pid = process_pool[s].parent_pid]_vars

(* A stop is reported by waitpid at most once: a reported stop stays       *)
(* reported until the process is continued or dies (process.h:172).        *)
OneReportPerStop ==
    [][\A s \in Slots :
          /\ process_pool[s].is_stopped /\ process_pool[s].stop_reported
          /\ process_pool'[s].pid = process_pool[s].pid
          /\ process_pool'[s].is_stopped
          => process_pool'[s].stop_reported]_vars

(* A terminated task never runs again on behalf of its dead process, not   *)
(* even when SIGCONT reaches a process killed while stopped: its slot only *)
(* comes back to life for a process created in that very step.             *)
DeadStayDead ==
    [][\A t \in TaskIds :
          tasks[t].state = "TERMINATED" /\ tasks'[t].state # "TERMINATED" =>
             process_pool'[tasks'[t].proc].pid = next_pid]_vars

(* Every live process has a task to run it ("the scheduler's thread of     *)
(* execution for this process", process.h:46).                             *)
LiveProcessHasTask == \A s \in Slots : Live(s) => process_pool[s].task # NULL

(* Round robin starves nobody: a READY task gets the CPU (or is stopped or *)
(* killed), unless the kernel halts.                                       *)
ReadyRuns ==
    \A t \in TaskIds :
        tasks[t].state = "READY" ~> (tasks[t].state # "READY" \/ panic # "none")

(* waitpid returns: a process waiting for a child that has exited comes    *)
(* back to user mode, unless it is stopped or killed itself or the kernel  *)
(* halts.                                                                  *)
WaitReturns ==
    \A t \in TaskIds :
        (/\ tasks[t].kctx # 0 /\ tasks[t].proc # NULL
         /\ \E c \in ChildrenOf(tasks[t].proc, tasks[t].kctx) : process_pool[c].is_zombie)
            ~> (tasks[t].kctx = 0 \/ tasks[t].state \in {"STOPPED", "TERMINATED"}
                \/ panic # "none")
=============================================================================
