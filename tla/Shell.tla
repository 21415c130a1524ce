------------------------------- MODULE Shell --------------------------------
(***************************************************************************)
(* The shell's job control: bin/sh/main.c from the line it reads to the    *)
(* processes it starts, waits for and signals, together with the console   *)
(* (Tty), the foreground set of process.c, and its children as the shell   *)
(* and the kernel see them.  Every system call of the shell is a step, so  *)
(* keys, children and the shell interleave between them.                   *)
(*                                                                         *)
(* A character of Tty is a token here.  Words other than the builtins'     *)
(* names are programs, of which only what touches the console, the         *)
(* children and their signals is kept: a program may read the console,     *)
(* change its mode, set the foreground, signal another child, fork, reap   *)
(* what it forked, and end.  The shell itself is not signalled.            *)
(***************************************************************************)
EXTENDS Tty, SequencesExt

CONSTANTS
    MAX_LINE, MAX_STAGES, MAX_JOBS,
    FREE_FDS,         \* MAX_FDS less the three standard descriptors
    MAX_PROCESSES,    \* slots of process_pool[], the shell's included
    MaxPid,           \* bound: no line is run once this many pids are used
    JobNames,         \* the words "%1", "%2", ... in order
    Numbers,          \* the words "1", "2", ... in order
    Counts            \* bound: sizes of a program's read

ASSUME ShellAssumption ==
    /\ {MAX_LINE, MAX_STAGES, MAX_JOBS, MaxPid} \subseteq Nat \ {0}
    /\ {FREE_FDS, MAX_PROCESSES} \subseteq Nat
    /\ Counts \subseteq Nat

VARIABLES
    children,         \* the shell's children, and theirs, by pid
    next_pid,
    foreground_pids,  \* who receives Ctrl-C and Ctrl-Z
    jobs, next_job_id,
    sh,               \* the shell: where it is in main, and its locals
    fds,              \* pipe ends open in the shell
    raw_by, echo_by,  \* history: who last set the console's modes
    fg_by,            \* history: who last set the foreground
    offspring,        \* history: pids that programs have forked
    leaked,           \* history: pipe ends left open when sys_pipe failed
    lost,             \* history: pids a full job table did not record
    astray            \* history: pids whose stop was reported to another job

vars == <<ttyvars, children, next_pid, foreground_pids, jobs, next_job_id, sh,
          fds, raw_by, echo_by, fg_by, offspring, leaked, lost, astray>>

history == <<raw_by, echo_by, fg_by, offspring, leaked, lost, astray>>

SHELL == 0
ANY == -1
NONE == -1            \* the pid of a stage whose fork failed
IDLE == -1            \* no read under way
Pids == 1 .. MaxPid
Operators == {"|", ">", "<", "&"}
Builtins == {"exit", "jobs", "kill", "fg", "bg"}

(* A child that is not there: not yet forked, or reaped. *)
NoChild == [state |-> "none", stopped |-> FALSE, reported |-> FALSE, reading |-> IDLE,
            parent |-> SHELL]
NoJob == [used |-> FALSE, job_id |-> 0, pids |-> <<>>, stopped |-> FALSE]

(* The shell at its prompt. *)
Prompt == [pc |-> "prompt", line |-> <<>>, raw |-> FALSE, stages |-> <<>>, background |-> FALSE,
           i |-> 1, pids |-> <<>>, any_stopped |-> FALSE, job |-> 0, sig |-> "none"]

Init ==
    /\ TtyInit
    /\ children = [p \in Pids |-> NoChild]
    /\ next_pid = 1
    /\ foreground_pids = {}
    /\ jobs = [j \in 1 .. MAX_JOBS |-> NoJob]
    /\ next_job_id = 1
    /\ sh = Prompt
    /\ fds = 0
    /\ raw_by = SHELL /\ echo_by = SHELL /\ fg_by = SHELL
    /\ offspring = {}
    /\ leaked = 0
    /\ lost = {} /\ astray = {}

-----------------------------------------------------------------------------
(* Children and signals, as the kernel keeps them *)

There(p) == children[p].state # "none"
Live(p) == children[p].state \in {"stage", "empty", "program"}
Runs(p) == Live(p) /\ ~children[p].stopped

Zombie(p) == [children[p] EXCEPT !.state = "zombie"]

(* process_send_signal to each of the pids P. *)
process_send_signal(P, sig) ==
    LET hit == {p \in P \cap Pids : Live(p)}
    IN  /\ children' = [p \in Pids |->
              CASE p \notin hit -> children[p]
                [] sig \in {"INT", "TERM"} -> Zombie(p)
                [] sig = "TSTP" /\ ~children[p].stopped ->
                      [children[p] EXCEPT !.stopped = TRUE, !.reported = FALSE]
                [] sig = "CONT" -> [children[p] EXCEPT !.stopped = FALSE]
                [] OTHER -> children[p]]
        (* a reader that is stopped or killed in its sleep is not woken by  *)
        (* input; continued, it looks at the queue again                    *)
        /\ asleep' = {p \in asleep : p = SHELL \/ children'[p] = children[p]}
        /\ UNCHANGED <<ctrl_held, raw_mode, echo_enabled, edit_line, kbd_queue, entered, cut>>

(* Ctrl-C and Ctrl-Z: process_signal_foreground. *)
press_signal(key) ==
    /\ IsSignal(key)
    /\ process_send_signal(foreground_pids, IF key = "c" THEN "INT" ELSE "TSTP")
    /\ UNCHANGED <<next_pid, foreground_pids, jobs, next_job_id, sh, fds, history>>

(* Any other key. *)
press_key(key) ==
    /\ keyboard_handle_scancode(key)
    /\ UNCHANGED <<children, next_pid, foreground_pids, jobs, next_job_id, sh, fds, history>>

(* What the programs do *)

(* The shell's code in the child after fork: it ends if a redirection, the *)
(* search of PATH or execve fails, and has nothing to execute without a    *)
(* command.                                                                *)
stage_ends(p) ==
    /\ Runs(p) /\ children[p].state \in {"stage", "empty"}
    /\ children' = [children EXCEPT ![p] = Zombie(p)]
    /\ UNCHANGED <<ttyvars, next_pid, foreground_pids, jobs, next_job_id, sh, fds, history>>

stage_execs(p) ==
    /\ Runs(p) /\ children[p].state = "stage"
    /\ children' = [children EXCEPT ![p].state = "program"]
    /\ UNCHANGED <<ttyvars, next_pid, foreground_pids, jobs, next_job_id, sh, fds, history>>

InUser(p) == Runs(p) /\ children[p].state = "program" /\ children[p].reading = IDLE

program_exits(p) ==
    /\ InUser(p)
    /\ children' = [children EXCEPT ![p] = Zombie(p)]
    /\ UNCHANGED <<ttyvars, next_pid, foreground_pids, jobs, next_job_id, sh, fds, history>>

program_sets_raw(p) ==
    /\ InUser(p)
    /\ \E enable \in BOOLEAN : tty_set_raw(enable)
    /\ raw_by' = p
    /\ UNCHANGED <<children, next_pid, foreground_pids, jobs, next_job_id, sh, fds,
                   echo_by, fg_by, offspring, leaked, lost, astray>>

program_sets_echo(p) ==
    /\ InUser(p)
    /\ \E enable \in BOOLEAN : tty_set_echo(enable)
    /\ echo_by' = p
    /\ UNCHANGED <<children, next_pid, foreground_pids, jobs, next_job_id, sh, fds,
                   raw_by, fg_by, offspring, leaked, lost, astray>>

(* SYS_SET_FOREGROUND is open to every process, and a shell run by the     *)
(* shell uses it.                                                          *)
program_sets_foreground(p) ==
    /\ InUser(p)
    /\ foreground_pids' \in SUBSET {q \in Pids : There(q)}
    /\ fg_by' = p
    /\ UNCHANGED <<ttyvars, children, next_pid, jobs, next_job_id, sh, fds,
                   raw_by, echo_by, offspring, leaked, lost, astray>>

program_reads(p) ==
    /\ InUser(p)
    /\ \E count \in Counts : children' = [children EXCEPT ![p].reading = count]
    /\ UNCHANGED <<ttyvars, next_pid, foreground_pids, jobs, next_job_id, sh, fds, history>>

read_continues(p) ==
    /\ Runs(p) /\ children[p].reading # IDLE
    /\ \/ read_sleeps(p) /\ UNCHANGED children
       \/ \E n \in 1 .. Len(kbd_queue) :
             /\ read_returns(p, n, children[p].reading)
             /\ children' = [children EXCEPT ![p].reading = IDLE]
    /\ UNCHANGED <<next_pid, foreground_pids, jobs, next_job_id, sh, fds, history>>

program_kills(p) ==
    /\ InUser(p)
    /\ \E q \in Pids, sig \in {"TERM", "TSTP", "CONT"} :
          There(q) /\ process_send_signal({q}, sig)
    /\ UNCHANGED <<next_pid, foreground_pids, jobs, next_job_id, sh, fds, history>>

ProcessFree == Cardinality({p \in Pids : There(p)}) + 1 < MAX_PROCESSES

program_forks(p) ==
    /\ InUser(p)
    /\ next_pid <= MaxPid /\ ProcessFree
    /\ children' = [children EXCEPT ![next_pid] =
                      [NoChild EXCEPT !.state = "program", !.parent = p]]
    /\ next_pid' = next_pid + 1
    /\ offspring' = offspring \cup {next_pid}
    /\ UNCHANGED <<ttyvars, foreground_pids, jobs, next_job_id, sh, fds,
                   raw_by, echo_by, fg_by, leaked, lost, astray>>

program_waits(p) ==
    /\ InUser(p)
    /\ \E q \in offspring :
          /\ children[q].state = "zombie" /\ children[q].parent = p
          /\ children' = [children EXCEPT ![q] = NoChild]
    /\ UNCHANGED <<ttyvars, next_pid, foreground_pids, jobs, next_job_id, sh, fds, history>>

-----------------------------------------------------------------------------
(* From the line to the pipeline *)

(* The tokens of a line, without the newline. *)
Tokens(line) ==
    LET typed == [k \in DOMAIN line |-> line[k].c]
    IN  IF Last(typed) = "NL" THEN Front(typed) ELSE typed

Redirects == {">", "<"}

(* parse_pipeline refuses a '|' at the end, too many stages, and a         *)
(* redirection that is not followed by a word.                             *)
ParseFails(toks) ==
    \/ Last(toks) = "|"
    \/ Len(SelectSeq(toks, LAMBDA t : t = "|")) >= MAX_STAGES
    \/ \E k \in DOMAIN toks : /\ toks[k] \in Redirects
                              /\ k = Len(toks) \/ toks[k + 1] \in Operators

(* argv of the stage between two '|': the tokens that are neither a        *)
(* redirection nor its file.  An '&' inside a stage becomes an argument    *)
(* without text, a null pointer.                                           *)
Argv(toks, first, last) ==
    LET isarg(k) == toks[k] \notin Redirects /\ (k = first \/ toks[k - 1] \notin Redirects)
        args == SetToSortSeq({k \in first .. last : isarg(k)}, <)
    IN  [n \in DOMAIN args |-> toks[args[n]]]

(* parse_pipeline: the argv of each stage. *)
parse_pipeline(toks) ==
    LET cuts == <<0>> \o SetToSortSeq({k \in DOMAIN toks : toks[k] = "|"}, <)
                      \o <<Len(toks) + 1>>
    IN  [n \in 1 .. Len(cuts) - 1 |-> Argv(toks, cuts[n] + 1, cuts[n + 1] - 1)]

Used(j) == jobs[j].used

find_job_by_id(id) == {j \in DOMAIN jobs : Used(j) /\ jobs[j].job_id = id}

find_most_recent_job ==
    {j \in DOMAIN jobs : Used(j) /\ \A k \in DOMAIN jobs : Used(k) => jobs[k].job_id <= jobs[j].job_id}

(* The number in a word, with or without the '%' of a job's name; 0 for    *)
(* anything else.                                                          *)
str_to_int(word) ==
    LET at == {k \in DOMAIN JobNames : JobNames[k] = word} \cup
              {k \in DOMAIN Numbers : Numbers[k] = word}
    IN  IF at = {} THEN 0 ELSE CHOOSE k \in at : TRUE

resolve_job_arg(argv) ==
    IF Len(argv) = 1 \/ argv[2] = "&" THEN find_most_recent_job
    ELSE find_job_by_id(str_to_int(argv[2]))

-----------------------------------------------------------------------------
(* The shell *)

(* A step of the shell that changes its own locals only. *)
Local(next) ==
    /\ sh' = next
    /\ UNCHANGED <<ttyvars, children, next_pid, foreground_pids, jobs, next_job_id, fds, history>>

(* main at the prompt: sys_read of the console. *)
prompt_sleeps ==
    /\ sh.pc = "prompt"
    /\ read_sleeps(SHELL)
    /\ UNCHANGED <<children, next_pid, foreground_pids, jobs, next_job_id, sh, fds, history>>

prompt_reads ==
    /\ sh.pc = "prompt"
    /\ \E n \in 1 .. MAX_LINE - 1 :
          /\ read_returns(SHELL, n, MAX_LINE - 1)
          /\ sh' = [Prompt EXCEPT !.pc = "line", !.line = SubSeq(kbd_queue, 1, n),
                                 !.raw = raw_mode]
    /\ UNCHANGED <<children, next_pid, foreground_pids, jobs, next_job_id, fds, history>>

(* exit, and the SIGSEGV of a strcmp or a dereference of an argument       *)
(* without text.                                                           *)
Ended == [Prompt EXCEPT !.pc = "ended"]

(* kill [-SIG] %job, or a pid. *)
builtin_kill(argv) ==
    LET signals == [t \in {"-TSTP", "-CONT"} |-> IF t = "-TSTP" THEN "TSTP" ELSE "CONT"]
        given   == argv[2] \in DOMAIN signals
        target  == IF given THEN 3 ELSE 2
    IN  CASE Len(argv) < 2 -> Prompt
          [] argv[2] = "&" -> Ended
          [] Len(argv) < target -> Prompt
          [] argv[target] = "&" -> Ended
          [] OTHER ->
                LET n     == str_to_int(argv[target])
                    found == find_job_by_id(n)
                    pids  == IF argv[target] \notin Range(JobNames)
                             THEN IF n = 0 THEN <<>> ELSE <<n>>
                             ELSE IF found = {} THEN <<>>
                             ELSE jobs[CHOOSE j \in found : TRUE].pids
                IN  IF pids = <<>> THEN Prompt
                    ELSE [Prompt EXCEPT !.pc = "kill", !.pids = pids,
                            !.sig = IF given THEN signals[argv[2]] ELSE "TERM"]

(* fg and bg: continue a stopped job, then, for fg, wait for it. *)
builtin_fg(argv) ==
    LET found == resolve_job_arg(argv)
        j     == CHOOSE k \in found : TRUE
    IN  IF found = {} THEN Prompt
        ELSE [Prompt EXCEPT !.pc = IF jobs[j].stopped THEN "continue" ELSE "foreground",
                            !.pids = jobs[j].pids, !.job = j]

builtin_bg(argv) ==
    LET found == resolve_job_arg(argv)
        j     == CHOOSE k \in found : TRUE
    IN  IF found = {} \/ \A k \in found : ~jobs[k].stopped THEN Prompt
        ELSE [Prompt EXCEPT !.pc = "continue", !.pids = jobs[j].pids, !.job = j,
                            !.background = TRUE]

run_builtin(argv) ==
    CASE argv[1] = "exit" -> Ended
      [] argv[1] = "kill" -> builtin_kill(argv)
      [] argv[1] = "fg" -> builtin_fg(argv)
      [] argv[1] = "bg" -> builtin_bg(argv)
      [] OTHER -> Prompt

(* run_pipeline up to its first system call. *)
run_pipeline(stages, background) ==
    LET alone == Len(stages) = 1
    IN  CASE alone /\ stages[1] = <<>> -> Prompt
          [] alone /\ stages[1] # <<>> /\ stages[1][1] = "&" -> Ended
          [] alone /\ stages[1] # <<>> /\ stages[1][1] \in Builtins -> run_builtin(stages[1])
          [] OTHER -> [Prompt EXCEPT !.pc = IF alone THEN "fork" ELSE "pipe",
                                     !.stages = stages, !.background = background]

(* What main makes of the line. *)
Dispatched(toks) ==
    LET background == toks # <<>> /\ Last(toks) = "&"
        body       == IF background THEN Front(toks) ELSE toks
    IN  IF body = <<>> \/ ParseFails(body) THEN Prompt
        ELSE run_pipeline(parse_pipeline(body), background)

main_line ==
    /\ sh.pc = "line"
    /\ Local(Dispatched(Tokens(sh.line)))

(* sys_pipe for each pair of neighbours.  When one fails the shell returns *)
(* to its prompt with the earlier ones open.                               *)
sys_pipe ==
    /\ sh.pc = "pipe"
    /\ \/ /\ fds + 2 <= FREE_FDS
          /\ fds' = fds + 2
          /\ sh' = IF sh.i = Len(sh.stages) - 1 THEN [sh EXCEPT !.pc = "fork", !.i = 1]
                   ELSE [sh EXCEPT !.i = @ + 1]
          /\ UNCHANGED leaked
       \/ /\ fds + 2 > FREE_FDS
          /\ sh' = Prompt
          /\ leaked' = leaked + 2 * (sh.i - 1)
          /\ UNCHANGED fds
    /\ UNCHANGED <<ttyvars, children, next_pid, foreground_pids, jobs, next_job_id,
                   raw_by, echo_by, fg_by, offspring, lost, astray>>

Forked(argv) ==
    [NoChild EXCEPT !.state = IF argv = <<>> THEN "empty" ELSE IF argv[1] = "&" THEN "empty"
                              ELSE "stage"]

(* The next pc of the shell, after stage i of the loop at hand. *)
After(pc) == [sh EXCEPT !.pc = IF sh.i = Len(sh.pids) THEN pc ELSE @,
                        !.i = IF sh.i = Len(sh.pids) THEN 1 ELSE @ + 1]

(* sys_fork for a stage; it fails when process_pool is full. *)
sys_fork ==
    /\ sh.pc = "fork"
    /\ next_pid <= MaxPid
    /\ LET room == ProcessFree
           last == sh.i = Len(sh.stages)
           pid  == IF room THEN next_pid ELSE NONE
       IN  /\ children' = IF room THEN [children EXCEPT ![next_pid] = Forked(sh.stages[sh.i])]
                          ELSE children
           /\ next_pid' = IF room THEN next_pid + 1 ELSE next_pid
           /\ sh' = [sh EXCEPT !.pids = Append(@, pid), !.pc = IF last THEN "close" ELSE @,
                               !.i = IF last THEN 1 ELSE @ + 1]
    /\ UNCHANGED <<ttyvars, foreground_pids, jobs, next_job_id, fds, history>>

(* add_job: the first free slot, or nowhere. *)
add_job(pids, stopped) ==
    \/ \E j \in DOMAIN jobs :
          /\ ~Used(j) /\ \A k \in 1 .. j - 1 : Used(k)
          /\ jobs' = [jobs EXCEPT ![j] = [used |-> TRUE, job_id |-> next_job_id,
                                          pids |-> pids, stopped |-> stopped]]
          /\ next_job_id' = next_job_id + 1
          /\ UNCHANGED lost
    \/ /\ \A j \in DOMAIN jobs : Used(j)
       /\ lost' = lost \cup Range(pids)
       /\ UNCHANGED <<jobs, next_job_id>>

(* The shell closes its pipe ends, which nobody else sees, and records a   *)
(* background pipeline as a job.                                           *)
sys_close ==
    /\ sh.pc = "close"
    /\ fds' = fds - 2 * (Len(sh.stages) - 1)
    /\ IF sh.background
       THEN add_job(sh.pids, FALSE) /\ sh' = Prompt
       ELSE sh' = [sh EXCEPT !.pc = "foreground"] /\ UNCHANGED <<jobs, next_job_id, lost>>
    /\ UNCHANGED <<ttyvars, children, next_pid, foreground_pids, raw_by, echo_by, fg_by,
                   offspring, leaked, astray>>

(* kill: one sys_kill per process of the job. *)
kill_job ==
    /\ sh.pc = "kill"
    /\ process_send_signal({sh.pids[sh.i]}, sh.sig)
    /\ sh' = IF sh.i = Len(sh.pids) THEN Prompt ELSE After("kill")
    /\ UNCHANGED <<next_pid, foreground_pids, jobs, next_job_id, fds, history>>

(* fg and bg of a stopped job: SIGCONT to each of its processes, after     *)
(* which it counts as running.                                             *)
continue_job ==
    /\ sh.pc = "continue"
    /\ process_send_signal({sh.pids[sh.i]}, "CONT")
    /\ jobs' = IF sh.i = Len(sh.pids) THEN [jobs EXCEPT ![sh.job].stopped = FALSE] ELSE jobs
    /\ sh' = IF sh.i = Len(sh.pids) /\ sh.background THEN Prompt ELSE After("foreground")
    /\ UNCHANGED <<next_pid, foreground_pids, next_job_id, fds, history>>

set_foreground ==
    /\ sh.pc = "foreground"
    /\ foreground_pids' = Range(sh.pids)
    /\ fg_by' = SHELL
    /\ sh' = [sh EXCEPT !.pc = "wait"]
    /\ UNCHANGED <<ttyvars, children, next_pid, jobs, next_job_id, fds, raw_by, echo_by,
                   offspring, leaked, lost, astray>>

Reportable(p) == children[p].state = "zombie" \/
                 (children[p].stopped /\ ~children[p].reported)

(* What sys_waitpid leaves of a child it reports. *)
Reported(p) == IF children[p].state = "zombie" THEN NoChild
               ELSE [children[p] EXCEPT !.reported = TRUE]

(* The wait loops: run_pipeline skips a stage whose fork failed, fg passes *)
(* its -1 on, which sys_waitpid takes for any child.  (It then reports the *)
(* first in process_pool; here any of them.)                               *)
Target == sh.pids[sh.i]
Skips == Target = NONE /\ sh.job = 0
Kids == {p \in Pids \ offspring : There(p) /\ (Target = ANY \/ p = Target)}


WIFSTOPPED(p) == children[p].state # "zombie"

wait_reports ==
    /\ sh.pc = "wait" /\ ~Skips
    /\ \E p \in Kids :
          /\ Reportable(p)
          /\ children' = [children EXCEPT ![p] = Reported(p)]
          /\ sh' = [After("reclaim") EXCEPT !.any_stopped = @ \/ WIFSTOPPED(p)]
          /\ astray' = IF Live(p) /\ p \notin Range(sh.pids) THEN astray \cup {p}
                       ELSE astray
    /\ UNCHANGED <<ttyvars, next_pid, foreground_pids, jobs, next_job_id, fds, raw_by, echo_by,
                   fg_by, offspring, leaked, lost>>

(* -ECHILD, or no system call at all. *)
wait_finds_none ==
    /\ sh.pc = "wait"
    /\ Skips \/ Kids = {}
    /\ Local(After("reclaim"))

(* reclaim_foreground, then what fg and run_pipeline make of a stop.       *)
reclaim_foreground ==
    /\ sh.pc = "reclaim"
    /\ foreground_pids' = {}
    /\ fg_by' = SHELL
    /\ sh' = [sh EXCEPT !.pc = "canonical"]
    /\ UNCHANGED <<ttyvars, children, next_pid, jobs, next_job_id, fds, raw_by, echo_by,
                   offspring, leaked, lost, astray>>

reclaim_canonical ==
    /\ sh.pc = "canonical"
    /\ tty_set_raw(FALSE)
    /\ raw_by' = SHELL
    /\ sh' = [sh EXCEPT !.pc = "echo"]
    /\ UNCHANGED <<children, next_pid, foreground_pids, jobs, next_job_id, fds, echo_by,
                   fg_by, offspring, leaked, lost, astray>>

reclaim_echo ==
    /\ sh.pc = "echo"
    /\ tty_set_echo(TRUE)
    /\ echo_by' = SHELL
    /\ sh' = Prompt
    /\ CASE sh.job = 0 /\ sh.any_stopped -> add_job(sh.pids, TRUE)
         [] sh.job = 0 /\ ~sh.any_stopped -> UNCHANGED <<jobs, next_job_id, lost>>
         [] OTHER -> /\ jobs' = [jobs EXCEPT ![sh.job] =
                              IF sh.any_stopped THEN [@ EXCEPT !.stopped = TRUE]
                              ELSE [@ EXCEPT !.used = FALSE]]
                     /\ UNCHANGED <<next_job_id, lost>>
    /\ UNCHANGED <<children, next_pid, foreground_pids, fds, raw_by, fg_by, offspring, leaked, astray>>

shell ==
    \/ prompt_sleeps \/ prompt_reads \/ main_line
    \/ sys_pipe \/ sys_fork \/ sys_close
    \/ kill_job \/ continue_job \/ set_foreground
    \/ wait_reports \/ wait_finds_none
    \/ reclaim_foreground \/ reclaim_canonical \/ reclaim_echo

child(p) ==
    \/ stage_ends(p) \/ stage_execs(p)
    \/ program_exits(p) \/ program_sets_raw(p) \/ program_sets_echo(p)
    \/ program_sets_foreground(p) \/ program_forks(p) \/ program_waits(p)
    \/ program_reads(p) \/ read_continues(p) \/ program_kills(p)

keyboard(key) == press_key(key) \/ press_signal(key)

-----------------------------------------------------------------------------
(* Back at its prompt the shell has reclaimed the console from everything  *)
(* it waited for: if anybody is in the foreground, or the console is in    *)
(* raw mode or does not echo, that was set by a process it does not wait   *)
(* for, one of a job it has left, or one a program forked.  (Such a one,   *)
(* killed, leaves the console that way; reclaim_foreground's comment says  *)
(* no program does.)  Its pipe ends are closed except those of a pipeline  *)
(* that sys_pipe broke off; every child it has not reaped belongs to a     *)
(* job; and one that it was told has stopped belongs to a job marked as    *)
(* stopped, so that fg continues it.  Children a full job table lost are   *)
(* excepted, and stops that a waitpid(-1) of fg took from another job.     *)
InJob(p) == \E j \in DOMAIN jobs : Used(j) /\ p \in Range(jobs[j].pids)
InStoppedJob(p) ==
    \E j \in DOMAIN jobs : Used(j) /\ jobs[j].stopped /\ p \in Range(jobs[j].pids)
Unwaited(p) == InJob(p) \/ p \in lost \cup offspring


(* Nobody sleeps on the console while there is something to read.  And     *)
(* what the shell takes for a line, read in canonical mode, is one entered *)
(* line, or what earlier reads have left of it, as far as the shell's      *)
(* buffer goes: it runs on past the end of a line, or stops before its     *)
(* newline, only where the full queue has cut the line's tail off (which   *)
(* keyboard_read's "whole lines are pushed atomically" leaves out) or      *)
(* where it holds what was typed for a raw-mode program.                   *)
EndsOpen(line) == line \in cut \cup {RAW}

InputDelivered ==
    /\ kbd_queue # <<>> => asleep = {}
    /\ (sh.pc = "line" /\ ~sh.raw) =>
          /\ \A k \in 1 .. Len(sh.line) - 1 :
                sh.line[k].line # sh.line[k + 1].line => EndsOpen(sh.line[k].line)
          /\ \/ Last(sh.line).c = "NL"
             \/ Len(sh.line) = MAX_LINE - 1
             \/ EndsOpen(Last(sh.line).line)
=============================================================================
