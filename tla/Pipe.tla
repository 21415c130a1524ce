-------------------------------- MODULE Pipe --------------------------------
(***************************************************************************)
(* File descriptors and pipes: kernel/pipe.c and the descriptor table of   *)
(* process.c (open, read, write, close, dup2, pipe, what fork copies and   *)
(* what a death closes).                                                   *)
(*                                                                         *)
(* Any READY process may have the CPU (Proc shows that each of them gets   *)
(* it); it then runs until its system call returns or blocks.  kctx is     *)
(* where a process is inside pipe_read or pipe_write, "user" otherwise.    *)
(* All processes are root, whom vfs_check_perm lets through.  A byte is    *)
(* represented by its number in the stream: the k-th byte ever put into a  *)
(* pipe is k.                                                              *)
(***************************************************************************)
EXTENDS Integers, FiniteSets

CONSTANTS
    Procs,            \* slots of process_pool[]
    MAX_FDS,          \* descriptors per process
    FIRST_FD,         \* open and pipe start looking here (3 in the code)
    MAX_PIPES,
    PIPE_BUF_SIZE,
    TaskFound,        \* whether fork finds a task slot: TRUE, FALSE or both
    OpenModes,        \* access modes files are opened with
    DupTargets,       \* descriptors dup2 is asked to replace (0 and 1 by the shell)
    Counts,           \* byte counts given to read and write
    MaxSent           \* bound: no write starts that would pass it

ASSUME PipeAssumption ==
    /\ IsFiniteSet(Procs) /\ Procs # {}
    /\ MAX_FDS \in Nat /\ FIRST_FD \in 0 .. MAX_FDS
    /\ MAX_PIPES \in Nat
    /\ PIPE_BUF_SIZE \in Nat \ {0}
    /\ TaskFound \subseteq BOOLEAN
    /\ OpenModes \subseteq {"O_RDONLY", "O_WRONLY", "O_RDWR"}
    /\ DupTargets \subseteq 0 .. MAX_FDS - 1
    /\ Counts \subseteq Nat
    /\ MaxSent \in Nat

VARIABLES
    state,            \* of the process's task
    kctx,             \* where it is inside the kernel
    fds,              \* its descriptor table
    pipe_pool

vars == <<state, kctx, fds, pipe_pool>>

Fds == 0 .. MAX_FDS - 1
Pipes == 1 .. MAX_PIPES
Ends == {"r", "w"}
Modes == {"O_RDONLY", "O_WRONLY", "O_RDWR"}

(* node: what the entry refers to; "none" for an unused entry.             *)
Entry == [node : {"none", "console", "file"} \cup Ends, pipe : Pipes \cup {0},
          access_mode : Modes]
Closed == [node |-> "none", pipe |-> 0, access_mode |-> "O_RDONLY"]

Context == [op : {"user", "read", "write"}, pipe : Pipes \cup {0}, left : Nat]
User == [op |-> "user", pipe |-> 0, left |-> 0]

(* sent and rcvd count the bytes that went in and out since pipe_create.   *)
PipeT == [in_use : BOOLEAN, head : 0 .. PIPE_BUF_SIZE - 1,
          count : 0 .. PIPE_BUF_SIZE, buf : [0 .. PIPE_BUF_SIZE - 1 -> Nat],
          read_refcount : Nat, write_refcount : Nat, sent : Nat, rcvd : Nat]
ZeroPipe == [in_use |-> FALSE, head |-> 0, count |-> 0,
             buf |-> [k \in 0 .. PIPE_BUF_SIZE - 1 |-> 0],
             read_refcount |-> 0, write_refcount |-> 0, sent |-> 0, rcvd |-> 0]

(* process_init's descriptors: the console, in both directions. *)
process_init ==
    [fd \in Fds |-> IF fd < FIRST_FD
                    THEN [node |-> "console", pipe |-> 0, access_mode |-> "O_RDWR"]
                    ELSE Closed]

Init ==
    /\ \E p \in Procs :
          /\ state = [q \in Procs |-> IF q = p THEN "ready" ELSE "none"]
          /\ fds = [q \in Procs |-> IF q = p THEN process_init
                                             ELSE [fd \in Fds |-> Closed]]
    /\ kctx = [q \in Procs |-> User]
    /\ pipe_pool = [i \in Pipes |-> ZeroPipe]

-----------------------------------------------------------------------------
Used(p, fd) == fds[p][fd].node # "none"

InUser(p) == state[p] = "ready" /\ kctx[p].op = "user"

Least(S, x) == x \in S /\ \A y \in S : x <= y

FreeFds(p) == {fd \in FIRST_FD .. MAX_FDS - 1 : ~Used(p, fd)}

Smaller(a, b) == IF a < b THEN a ELSE b

(* task_wake(pipe) for each of the pipes I. *)
Woken(I) ==
    [p \in Procs |-> IF state[p] = "blocked" /\ kctx[p].pipe \in I
                     THEN "ready" ELSE state[p]]

(* The descriptors F of p that refer to an end of pipe i. *)
Refs(p, F, end, i) ==
    Cardinality({fd \in F : fds[p][fd].node = end /\ fds[p][fd].pipe = i})

(* Mutant: a pipe is given up as soon as one of its ends is. *)
GivenUp_early(r, w) == r = 0 \/ w = 0

GivenUp(r, w) == r = 0 /\ w = 0

(* The pipe table after p closed its descriptors F. *)
Released(p, F) ==
    [i \in Pipes |->
        LET dr == Refs(p, F, "r", i)
            dw == Refs(p, F, "w", i)
            r  == pipe_pool[i].read_refcount - dr
            w  == pipe_pool[i].write_refcount - dw
        IN  [pipe_pool[i] EXCEPT
                !.read_refcount = r, !.write_refcount = w,
                !.in_use = @ /\ ~(dr + dw > 0 /\ GivenUp(r, w))]]

(* Mutant: only the last reader's close wakes a sleeper. *)
HungUp_readers(p, F) ==
    {i \in Pipes : Refs(p, F, "r", i) > 0 /\ Released(p, F)[i].read_refcount = 0}

(* The pipes whose sleepers those closes wake: an end lost its last        *)
(* reference.                                                              *)
HungUp(p, F) ==
    {i \in Pipes :
        \/ Refs(p, F, "r", i) > 0 /\ Released(p, F)[i].read_refcount = 0
        \/ Refs(p, F, "w", i) > 0 /\ Released(p, F)[i].write_refcount = 0}

(* Mutant: a copied descriptor is not counted. *)
Copied_uncounted(pool, entries) == pool

(* The pipe table after the dup() hooks ran for copies of these entries,   *)
(* a function from descriptors.                                            *)
Copied(pool, entries) ==
    [i \in Pipes |->
        [pool[i] EXCEPT
            !.read_refcount = @ + Cardinality({fd \in DOMAIN entries :
                entries[fd].node = "r" /\ entries[fd].pipe = i}),
            !.write_refcount = @ + Cardinality({fd \in DOMAIN entries :
                entries[fd].node = "w" /\ entries[fd].pipe = i})]]

(* process_close of the descriptors F: access_mode is left as it was.      *)
Emptied(p, F) ==
    [fd \in Fds |-> IF fd \in F
                    THEN [fds[p][fd] EXCEPT !.node = "none", !.pipe = 0]
                    ELSE fds[p][fd]]

-----------------------------------------------------------------------------
(* System calls on descriptors *)

process_open(p) ==
    /\ InUser(p)
    /\ \E fd \in Fds, mode \in OpenModes :
          /\ Least(FreeFds(p), fd)
          /\ fds' = [fds EXCEPT ![p][fd] =
                        [node |-> "file", pipe |-> 0, access_mode |-> mode]]
    /\ UNCHANGED <<state, kctx, pipe_pool>>

process_close(p) ==
    /\ InUser(p)
    /\ \E fd \in Fds :
          /\ Used(p, fd)
          /\ pipe_pool' = Released(p, {fd})
          /\ state' = Woken(HungUp(p, {fd}))
          /\ fds' = [fds EXCEPT ![p] = Emptied(p, {fd})]
    /\ UNCHANGED kctx

(* newfd is closed first; it keeps the access_mode it had. *)
process_dup2(p) ==
    /\ InUser(p)
    /\ \E oldfd \in Fds, newfd \in DupTargets :
          /\ Used(p, oldfd) /\ oldfd # newfd
          /\ LET old  == {fd \in {newfd} : Used(p, fd)}
                 copy == [fds[p][oldfd] EXCEPT !.access_mode = fds[p][newfd].access_mode]
             IN  /\ pipe_pool' = Copied(Released(p, old), [fd \in {newfd} |-> copy])
                 /\ state' = Woken(HungUp(p, old))
                 /\ fds' = [fds EXCEPT ![p][newfd] = copy]
    /\ UNCHANGED kctx

(* pipe_create takes the first free pipe; without two free descriptors     *)
(* both ends are closed again.  access_mode is not set.                    *)
process_pipe(p) ==
    /\ InUser(p)
    /\ \E i \in Pipes :
          /\ Least({j \in Pipes : ~pipe_pool[j].in_use}, i)
          /\ \/ \E r, w \in Fds :
                  /\ Least(FreeFds(p), r) /\ Least(FreeFds(p) \ {r}, w)
                  /\ pipe_pool' = [pipe_pool EXCEPT ![i] =
                        [ZeroPipe EXCEPT !.in_use = TRUE, !.read_refcount = 1,
                                         !.write_refcount = 1]]
                  /\ fds' = [fds EXCEPT
                        ![p][r].node = "r", ![p][r].pipe = i,
                        ![p][w].node = "w", ![p][w].pipe = i]
                  /\ UNCHANGED state
             \/ /\ Cardinality(FreeFds(p)) < 2
                /\ pipe_pool' = [pipe_pool EXCEPT ![i] = ZeroPipe]
                /\ state' = Woken({i})
                /\ UNCHANGED fds
    /\ UNCHANGED kctx

-----------------------------------------------------------------------------
(* Reading and writing *)

(* pipe_read of count bytes from pipe i, from the top of its loop. *)
pipe_read(p, i, count) ==
    LET pipe == pipe_pool[i]
        n    == Smaller(count, pipe.count)
    IN  \/ /\ pipe.count = 0 /\ pipe.write_refcount = 0
           /\ kctx' = [kctx EXCEPT ![p] = User]
           /\ UNCHANGED <<state, pipe_pool>>
        \/ /\ pipe.count = 0 /\ pipe.write_refcount # 0
           /\ kctx' = [kctx EXCEPT ![p] = [op |-> "read", pipe |-> i, left |-> count]]
           /\ state' = [state EXCEPT ![p] = "blocked"]
           /\ UNCHANGED pipe_pool
        \/ /\ pipe.count > 0
           /\ pipe_pool' = [pipe_pool EXCEPT
                 ![i].head = (@ + n) % PIPE_BUF_SIZE,
                 ![i].count = @ - n, ![i].rcvd = @ + n]
           /\ kctx' = [kctx EXCEPT ![p] = User]
           /\ state' = Woken({i})

(* Mutant: the tail does not wrap with the head. *)
Filled_unshifted(pipe, n) ==
    [k \in 0 .. PIPE_BUF_SIZE - 1 |->
        IF k >= pipe.count /\ k < pipe.count + n
        THEN pipe.sent + 1 + (k - pipe.count) ELSE pipe.buf[k]]

(* The ring after n more bytes: the d-th byte past the tail is number      *)
(* sent + 1 + d.                                                           *)
Filled(pipe, n) ==
    [k \in 0 .. PIPE_BUF_SIZE - 1 |->
        LET tail == pipe.head + pipe.count
            d    == (k - tail) % PIPE_BUF_SIZE
        IN  IF d < n THEN pipe.sent + 1 + d ELSE pipe.buf[k]]

(* Mutant: a writer that fills the pipe goes to sleep without waking its   *)
(* readers.                                                                *)
WokenByWrite_done(i, done) == IF done THEN Woken({i}) ELSE state

WokenByWrite(i, done) == Woken({i})

(* pipe_write of count more bytes to pipe i, from the top of its loop: all *)
(* of them, or as many as fit before it sleeps, or none once the last      *)
(* reader is gone.                                                         *)
pipe_write(p, i, count) ==
    LET pipe == pipe_pool[i]
        n    == Smaller(count, PIPE_BUF_SIZE - pipe.count)
    IN  \/ /\ count > 0 /\ pipe.read_refcount = 0
           /\ kctx' = [kctx EXCEPT ![p] = User]
           /\ UNCHANGED <<state, pipe_pool>>
        \/ /\ count = 0 \/ pipe.read_refcount # 0
           /\ pipe_pool' = [pipe_pool EXCEPT
                 ![i].buf = Filled(pipe, n), ![i].count = @ + n, ![i].sent = @ + n]
           /\ IF n = count
              THEN /\ kctx' = [kctx EXCEPT ![p] = User]
                   /\ state' = WokenByWrite(i, TRUE)
              ELSE /\ kctx' = [kctx EXCEPT ![p] =
                         [op |-> "write", pipe |-> i, left |-> count - n]]
                   /\ state' = [WokenByWrite(i, FALSE) EXCEPT ![p] = "blocked"]

(* process_read and process_write on a pipe end: the access_mode check     *)
(* comes first (-EBADF).                                                   *)
process_read(p) ==
    /\ InUser(p)
    /\ \E fd \in Fds, count \in Counts :
          /\ fds[p][fd].node = "r" /\ fds[p][fd].access_mode # "O_WRONLY"
          /\ pipe_read(p, fds[p][fd].pipe, count)
    /\ UNCHANGED fds

process_write(p) ==
    /\ InUser(p)
    /\ \E fd \in Fds, count \in Counts :
          /\ fds[p][fd].node = "w" /\ fds[p][fd].access_mode # "O_RDONLY"
          /\ pipe_pool[fds[p][fd].pipe].sent + count <= MaxSent
          /\ pipe_write(p, fds[p][fd].pipe, count)
    /\ UNCHANGED fds

(* A process that slept in the loop has the CPU again. *)
resume(p) ==
    /\ state[p] = "ready"
    /\ \/ kctx[p].op = "read" /\ pipe_read(p, kctx[p].pipe, kctx[p].left)
       \/ kctx[p].op = "write" /\ pipe_write(p, kctx[p].pipe, kctx[p].left)
    /\ UNCHANGED fds

-----------------------------------------------------------------------------
(* Processes come, go and stop *)

Live(p) == state[p] \in {"ready", "blocked", "stopped"}

(* do_fork and process_clone_into.  Without a task slot the child's        *)
(* process slot, and its references, stay behind without a task.           *)
do_fork(p) ==
    /\ InUser(p)
    /\ \E q \in Procs, task \in TaskFound :
          /\ state[q] = "none"
          /\ state' = [state EXCEPT ![q] = IF task THEN "ready" ELSE "phantom"]
          /\ fds' = [fds EXCEPT ![q] = fds[p]]
    /\ pipe_pool' = Copied(pipe_pool, fds[p])
    /\ UNCHANGED kctx

(* process_terminate, by exit or by a signal in whatever state p is; the   *)
(* parent may reap the slot at any time.                                   *)
process_terminate(p) ==
    /\ Live(p)
    /\ LET open == {fd \in Fds : Used(p, fd)}
       IN  /\ pipe_pool' = Released(p, open)
           /\ state' = [Woken(HungUp(p, open)) EXCEPT ![p] = "none"]
    /\ fds' = [fds EXCEPT ![p] = [fd \in Fds |-> Closed]]
    /\ kctx' = [kctx EXCEPT ![p] = User]

(* SIGTSTP and SIGCONT. *)
process_stop(p) ==
    /\ state[p] \in {"ready", "blocked"}
    /\ state' = [state EXCEPT ![p] = "stopped"]
    /\ UNCHANGED <<kctx, fds, pipe_pool>>

process_continue(p) ==
    /\ state[p] = "stopped"
    /\ state' = [state EXCEPT ![p] = "ready"]
    /\ UNCHANGED <<kctx, fds, pipe_pool>>

(* Every process is gone: main idles. *)
idle == (\A p \in Procs : ~Live(p)) /\ UNCHANGED vars

Next ==
    \/ idle
    \/ \E p \in Procs :
          \/ process_open(p)
          \/ process_close(p)
          \/ process_dup2(p)
          \/ process_pipe(p)
          \/ process_read(p)
          \/ process_write(p)
          \/ resume(p)
          \/ do_fork(p)
          \/ process_terminate(p)
          \/ process_stop(p)
          \/ process_continue(p)

Spec == Init /\ [][Next]_vars

(* The scheduler comes back to every READY process (ReadyRuns in Proc).    *)
Fairness == \A p \in Procs : WF_vars(resume(p))

FairSpec == Spec /\ Fairness

-----------------------------------------------------------------------------
(* Every variable keeps its type: no count of a pipe goes negative or      *)
(* beyond the buffer, though pipe_read_close and its like never check.     *)
TypeOK ==
    /\ state \in [Procs -> {"none", "ready", "blocked", "stopped", "phantom"}]
    /\ kctx \in [Procs -> Context]
    /\ fds \in [Procs -> [Fds -> Entry]]
    /\ pipe_pool \in [Pipes -> PipeT]

AllRefs(end, i) ==
    {u \in Procs \X Fds : fds[u[1]][u[2]].node = end /\ fds[u[1]][u[2]].pipe = i}

(* The two counters of a pipe are exactly the descriptors of all processes *)
(* that refer to its ends, through every fork, dup2, close, failed pipe()  *)
(* and death, and the pipe is in use exactly while there is one: nothing   *)
(* leaks and no slot is reused under a descriptor (pipe.c 78-95).          *)
RefcountsMatch ==
    \A i \in Pipes :
        /\ pipe_pool[i].read_refcount = Cardinality(AllRefs("r", i))
        /\ pipe_pool[i].write_refcount = Cardinality(AllRefs("w", i))
        /\ pipe_pool[i].in_use <=> AllRefs("r", i) \cup AllRefs("w", i) # {}

(* No wake-up is lost: a process asleep in pipe_read finds the pipe empty  *)
(* with a writer left, one asleep in pipe_write finds it full with a       *)
(* reader left; so reader and writer never wait for each other.            *)
NoLostWakeup ==
    \A p \in Procs : state[p] = "blocked" =>
        LET pipe == pipe_pool[kctx[p].pipe]
        IN  \/ kctx[p].op = "read" /\ pipe.count = 0 /\ pipe.write_refcount > 0
            \/ /\ kctx[p].op = "write"
               /\ pipe.count = PIPE_BUF_SIZE /\ pipe.read_refcount > 0

(* What is in the ring is the unread end of the stream, in order: readers  *)
(* get every byte once, whoever writes and however the ring wraps.         *)
FifoOrder ==
    \A i \in Pipes :
        LET pipe == pipe_pool[i]
        IN  /\ pipe.rcvd + pipe.count = pipe.sent
            /\ \A k \in 0 .. pipe.count - 1 :
                  pipe.buf[(pipe.head + k) % PIPE_BUF_SIZE] = pipe.rcvd + 1 + k

(* A process in the middle of pipe_read or pipe_write, asleep, woken or    *)
(* stopped, still holds a descriptor of that end, so the pipe it comes     *)
(* back to is the one it went to sleep on.                                 *)
SleeperHoldsPipe ==
    \A p \in Procs : kctx[p].op # "user" =>
        /\ pipe_pool[kctx[p].pipe].in_use
        /\ \E fd \in Fds : /\ fds[p][fd].pipe = kctx[p].pipe
                           /\ fds[p][fd].node = IF kctx[p].op = "read" THEN "r" ELSE "w"

(* EOF and broken pipe: once the last writer is gone a process in          *)
(* pipe_read returns, once the last reader is gone one in pipe_write does, *)
(* unless it is stopped or killed.                                         *)
HangupReturns ==
    \A p \in Procs, i \in Pipes :
        (/\ kctx[p].pipe = i
         /\ \/ kctx[p].op = "read" /\ pipe_pool[i].write_refcount = 0
            \/ kctx[p].op = "write" /\ pipe_pool[i].read_refcount = 0)
            ~> (kctx[p].op = "user" \/ state[p] = "stopped")

(* The write end that pipe() returns can be written to: the child of       *)
(* bin/pipetest writes to it directly (bin/pipetest/main.c:48).            *)
WriteEndWritable ==
    \A p \in Procs, fd \in Fds :
        fds[p][fd].node = "w" => fds[p][fd].access_mode # "O_RDONLY"
=============================================================================
