--------------------------------- MODULE Fs ---------------------------------
(***************************************************************************)
(* The file system in memory: paths (kernel/vfs.c), tmpfs (kernel/tmpfs.c) *)
(* with the pages behind its files, the devices (kernel/devfs.c), and the  *)
(* system calls of kernel/process.c on them: descriptors with offsets and  *)
(* modes, owners and permissions, working directories.                     *)
(*                                                                         *)
(* System calls here never block, so each is one step.  A path is a        *)
(* sequence of names, absolute or not.  Names are abstract, but for those  *)
(* longer than VFS_MAX_NAME: Parts says how the resolver cuts a name up,   *)
(* while creating keeps only the first part.                               *)
(*                                                                         *)
(* fs holds what the file system itself changes: the nodes, how many were  *)
(* ever made, and the pages in use.  tainted records that a file has been  *)
(* written after it was removed, or made without memory: from then on it   *)
(* shares its pages.                                                       *)
(***************************************************************************)
EXTENDS Integers, Sequences, FiniteSets, FiniteSetsExt

CONSTANTS
    Procs, MAX_FDS,
    FIRST_FD,          \* 0, 1 and 2 are the console
    MAX_NODES,         \* TMPFS_MAX_NODES
    NFRAMES, PAGE_SIZE,
    Parts,             \* name -> the components the resolver sees
    BootDirs, BootFiles,   \* sequences of names in /, made at boot
    Devices,           \* device vnode -> name
    Ids,               \* user and group ids, 0 is root
    Modes,             \* bound: modes given to chmod
    Paths,             \* bound: paths given to the calls
    OwnPaths,          \* bound: those given to chmod and chown
    OpenFlags,         \* bound: flags given to open
    DupTargets,        \* bound: targets of dup2
    Bytes, Counts,     \* bound: what is written, and how much at a time
    MAX_SIZE           \* bound: size of a file

Nodes == 0 .. MAX_NODES - 1
Vnodes == Nodes \cup DOMAIN Devices
NoNode == -1
ROOT == 0
Frames == 0 .. NFRAMES - 1
Fds == 0 .. MAX_FDS - 1
Names == DOMAIN Parts

Perms(u, g, o) == [u |-> u, g |-> g, o |-> o]
Rwx == SUBSET {"r", "w", "x"}

(* Devices are numbered -2, -3, ...; what is left of a name when the rest  *)
(* is cut off is a name.                                                   *)
ASSUME FsAssumption ==
    /\ MAX_FDS \in Nat /\ FIRST_FD \in Fds /\ DupTargets \subseteq Fds
    /\ MAX_NODES \in Nat /\ NFRAMES \in Nat /\ PAGE_SIZE \in Nat \ {0}
    /\ DOMAIN Devices # {} /\ Cardinality(DOMAIN Devices) \in Nat
    /\ DOMAIN Devices = NoNode - Cardinality(DOMAIN Devices) .. NoNode - 1
    /\ \A n \in Names : Parts[n][1] \in Names
    /\ Devices \in [DOMAIN Devices -> Names] /\ "dev" \in Names
    /\ BootDirs \in Seq(Names) /\ BootFiles \in Seq(Names)
    /\ \A path \in Paths \cup OwnPaths : path.names \in Seq(Names)
    /\ \A flags \in OpenFlags : flags.mode \in {"O_RDONLY", "O_WRONLY", "O_RDWR"}
    /\ Modes \subseteq [u : Rwx, g : Rwx, o : Rwx]
    /\ 0 \in Ids /\ Counts \subseteq Nat /\ Bytes \subseteq Nat
    /\ Len(BootDirs) + Len(BootFiles) + 2 <= MAX_NODES
    /\ Len(BootFiles) < NFRAMES

VARIABLES fs, mem, proc, tainted
vars == <<fs, mem, proc, tainted>>

VFS_DEFAULT_FILE_MODE == Perms({"r", "w"}, {"r"}, {"r"})
VFS_DEFAULT_DIR_MODE == Perms({"r", "w", "x"}, {"r", "x"}, {"r", "x"})
DeviceMode == Perms({"r", "w"}, {"r", "w"}, {"r", "w"})

(* A vnode; data and capacity count pages, size counts bytes. *)
Vnode(type, name, parent, mode) ==
    [type |-> type, name |-> name, parent |-> parent, ops |-> "tmpfs", uid |-> 0, gid |-> 0,
     mode |-> mode, linked |-> TRUE, data |-> 0, capacity |-> 0, size |-> 0]
NoVnode == [Vnode("none", "", ROOT, VFS_DEFAULT_FILE_MODE) EXCEPT !.linked = FALSE]

FdEntry(n, offset, mode) == [node |-> n, offset |-> offset, access_mode |-> mode]
Closed == FdEntry(NoNode, 0, "O_RDONLY")

-----------------------------------------------------------------------------
(* Pages *)

Run(f, n) == f .. f + n - 1

(* pmm_alloc_pages: the first run of n free pages, 0 if there is none. *)
pmm_alloc_pages(used, n) ==
    LET free == {f \in Frames : Run(f, n) \subseteq Frames \ used}
    IN  IF free = {} THEN 0 ELSE Min(free)

-----------------------------------------------------------------------------
(* Directories and paths, in the file system s. *)

Children(s, d) == {n \in Nodes : n # ROOT /\ s.node[n].linked /\ s.node[n].parent = d}

TheOne(found) == IF found = {} THEN NoNode ELSE Min(found)

(* A file has no lookup. *)
devfs_lookup(name) == TheOne({v \in DOMAIN Devices : Devices[v] = name})
tmpfs_dir_lookup(s, d, name) == TheOne({n \in Children(s, d) : s.node[n].name = name})
lookup(s, d, name) ==
    IF s.node[d].type # "dir" THEN NoNode
    ELSE IF s.node[d].ops = "devfs" THEN devfs_lookup(name) ELSE tmpfs_dir_lookup(s, d, name)

Enter(s, n, c) ==
    IF n = NoNode \/ c \in {"", "."} THEN n
    ELSE IF c = ".." THEN s.node[n].parent ELSE lookup(s, n, c)
EnterParts(s, n, parts) ==
    IF Len(parts) = 1 THEN Enter(s, n, parts[1]) ELSE Enter(s, Enter(s, n, parts[1]), parts[2])

(* Component by component, "." and ".." by parent. *)
vfs_resolve_path(s, names) ==
    LET walk[i \in 0 .. Len(names)] ==
            IF i = 0 THEN ROOT ELSE EnterParts(s, walk[i - 1], Parts[names[i]])
    IN  walk[Len(names)]

vfs_combine_path(cwd, path) == IF path.abs THEN path.names ELSE cwd \o path.names

vfs_resolve_path_cwd(s, p, path) == vfs_resolve_path(s, vfs_combine_path(proc[p].cwd, path))

(* The names from the root down to a directory; a parent is always made    *)
(* before its children, so its number is lower.                            *)
vfs_canonical_path(s, node) ==
    LET up[n \in Nodes] == IF n = ROOT THEN << >>
                           ELSE Append(up[s.node[n].parent], s.node[n].name)
    IN  up[node]

(* vfs_split_path. *)
DirPart(names) == SubSeq(names, 1, Len(names) - 1)
BasePart(names) == IF names = << >> THEN "" ELSE Parts[names[Len(names)]][1]

vfs_check_perm(v, p, want) ==
    \/ proc[p].uid = 0
    \/ want \in (IF proc[p].uid = v.uid THEN v.mode.u
                 ELSE IF proc[p].gid = v.gid THEN v.mode.g ELSE v.mode.o)

-----------------------------------------------------------------------------
(* Creating and removing.  These give the file system afterwards and the   *)
(* error, as the functions in the code do.                                 *)

Result(s, err) == [fs |-> s, err |-> err]

(* The next node of the pool (tmpfs_alloc_node), which is never refilled. *)
NewNode(s, v) == [s EXCEPT !.node[s.count] = v, !.count = @ + 1]

(* Mutant: an existing name does not stop create. *)
NameTaken_never(s, d, name) == FALSE

NameTaken(s, d, name) == lookup(s, d, name) # NoNode

(* tmpfs_dir_create and tmpfs_create_file.  Without memory the file's      *)
(* page is page 0, like that of every other file made so.                  *)
tmpfs_create_file(s, d, name, f) ==
    [NewNode(s, [Vnode("file", name, d, VFS_DEFAULT_FILE_MODE) EXCEPT !.data = f, !.capacity = 1])
        EXCEPT !.used = @ \cup {f}]

tmpfs_dir_create(s, d, name) ==
    IF NameTaken(s, d, name) THEN Result(s, "EEXIST")
    ELSE IF s.count >= MAX_NODES THEN Result(s, "ENOMEM")
    ELSE Result(tmpfs_create_file(s, d, name, pmm_alloc_pages(s.used, 1)), "ok")

tmpfs_dir_mkdir(s, d, name) ==
    IF NameTaken(s, d, name) THEN Result(s, "EEXIST")
    ELSE IF s.count >= MAX_NODES THEN Result(s, "ENOMEM")
    ELSE Result(NewNode(s, Vnode("dir", name, d, VFS_DEFAULT_DIR_MODE)), "ok")

(* The pages behind a file. *)
Backing(v) == IF v.type = "file" THEN Run(v.data, v.capacity) ELSE {}

(* Mutant: only the first page goes. *)
Freed_first(v) == IF v.type = "file" THEN {v.data} ELSE {}

(* The pages given back when a file goes or moves. *)
Freed(v) == Backing(v)

(* tmpfs_dir_unlink: a file, or a directory without children (in tmpfs:    *)
(* the directory of the devices always looks empty).  The pages go at      *)
(* once, whoever has the file open.                                        *)
tmpfs_dir_unlink(s, n) ==
    IF n = NoNode THEN Result(s, "ENOENT")
    ELSE IF Children(s, n) # {} THEN Result(s, "ENOTEMPTY")
    ELSE Result([s EXCEPT !.node[n].linked = FALSE, !.used = @ \ Freed(s.node[n])], "ok")

(* The directory d to change, or why not. *)
Changeable(s, p, d, name) ==
    [dir |-> d, name |-> name,
     err |-> IF name = "" THEN "EINVAL"
             ELSE IF d = NoNode THEN "ENOENT"
             ELSE IF s.node[d].type # "dir" THEN "ENOTDIR"
             ELSE IF s.node[d].ops # "tmpfs" THEN "EROFS"
             ELSE IF ~vfs_check_perm(s.node[d], p, "w") THEN "EACCES" ELSE "ok"]
InParent(s, p, names) == Changeable(s, p, vfs_resolve_path(s, DirPart(names)), BasePart(names))
resolve_parent_dir(s, p, path) == InParent(s, p, vfs_combine_path(proc[p].cwd, path))

(* What was just made belongs to the process. *)
Chowned(s, n, p) == [s EXCEPT !.node[n].uid = proc[p].uid, !.node[n].gid = proc[p].gid]
Owned(res, p, r) ==
    IF res.err # "ok" THEN res
    ELSE Result(Chowned(res.fs, lookup(res.fs, r.dir, r.name), p), "ok")

CreateIn(s, p, r) ==
    IF r.err # "ok" THEN Result(s, r.err) ELSE Owned(tmpfs_dir_create(s, r.dir, r.name), p, r)
MkdirIn(s, p, r) ==
    IF r.err # "ok" THEN Result(s, r.err) ELSE Owned(tmpfs_dir_mkdir(s, r.dir, r.name), p, r)
UnlinkIn(s, r) ==
    IF r.err # "ok" THEN Result(s, r.err)
    ELSE tmpfs_dir_unlink(s, tmpfs_dir_lookup(s, r.dir, r.name))

create(s, p, path) == CreateIn(s, p, resolve_parent_dir(s, p, path))
mkdir(s, p, path) == MkdirIn(s, p, resolve_parent_dir(s, p, path))
unlink(s, p, path) == UnlinkIn(s, resolve_parent_dir(s, p, path))

-----------------------------------------------------------------------------
(* System calls on paths.  What a failing call did before it failed stays. *)

Live(p) == proc[p].state = "live"

(* A file behind page 0, which is in nobody's gift. *)
OnPageZero(s) == \E n \in Nodes : s.node[n].type = "file" /\ s.node[n].data = 0

Becomes(s) == fs' = s /\ tainted' = (tainted \/ OnPageZero(s))

(* O_TRUNC: the file is removed and made anew. *)
Recreated(res, p, path) == IF res.err # "ok" THEN res ELSE create(res.fs, p, path)
Truncated(s, p, path) == Recreated(unlink(s, p, path), p, path)

(* The file system process_open leaves, whether it succeeds or not. *)
Opened(p, path, flags) ==
    IF vfs_resolve_path_cwd(fs, p, path) = NoNode
    THEN IF flags.creat THEN create(fs, p, path) ELSE Result(fs, "ENOENT")
    ELSE IF flags.creat /\ flags.excl THEN Result(fs, "EEXIST")
    ELSE IF flags.trunc /\ flags.mode # "O_RDONLY" THEN Truncated(fs, p, path)
    ELSE Result(fs, "ok")

(* Mutant: append starts behind the last page instead of the last byte. *)
StartOffset_capacity(v, flags) == IF flags.append THEN v.capacity * PAGE_SIZE ELSE 0

StartOffset(v, flags) == IF flags.append /\ v.type = "file" THEN v.size ELSE 0

FreeFds(p) == {fd \in FIRST_FD .. MAX_FDS - 1 : proc[p].fds[fd].node = NoNode}

(* The descriptor for node n, if the process may have one. *)
Granted(p, n, v, flags) ==
    /\ n # NoNode
    /\ flags.mode # "O_WRONLY" => vfs_check_perm(v, p, "r")
    /\ flags.mode # "O_RDONLY" => vfs_check_perm(v, p, "w")
    /\ FreeFds(p) # {}

process_open(p, path, flags) ==
    /\ Live(p)
    /\ \E res \in {Opened(p, path, flags)} :
          /\ Becomes(res.fs)
          /\ \E n \in {vfs_resolve_path_cwd(res.fs, p, path)} :
                proc' = IF res.err = "ok" /\ Granted(p, n, res.fs.node[n], flags)
                        THEN [proc EXCEPT ![p].fds[Min(FreeFds(p))] =
                                 FdEntry(n, StartOffset(res.fs.node[n], flags), flags.mode)]
                        ELSE proc
    /\ UNCHANGED mem

process_mkdir(p, path) ==
    /\ Live(p)
    /\ Becomes(mkdir(fs, p, path).fs)
    /\ UNCHANGED <<mem, proc>>

process_unlink(p, path) ==
    /\ Live(p)
    /\ Becomes(unlink(fs, p, path).fs)
    /\ UNCHANGED <<mem, proc>>

(* The canonical path is stored, not the one given. *)
process_chdir(p, path) ==
    /\ Live(p)
    /\ \E n \in {vfs_resolve_path_cwd(fs, p, path)} \ {NoNode} :
          /\ fs.node[n].type = "dir" /\ vfs_check_perm(fs.node[n], p, "x")
          /\ proc' = [proc EXCEPT ![p].cwd = vfs_canonical_path(fs, n)]
    /\ UNCHANGED <<fs, mem, tainted>>

process_chmod(p, path, mode) ==
    /\ Live(p)
    /\ \E n \in {vfs_resolve_path_cwd(fs, p, path)} \ {NoNode} :
          /\ proc[p].uid \in {0, fs.node[n].uid}
          /\ fs' = [fs EXCEPT !.node[n].mode = mode]
    /\ UNCHANGED <<mem, proc, tainted>>

process_chown(p, path, uid, gid) ==
    /\ Live(p) /\ proc[p].uid = 0
    /\ \E n \in {vfs_resolve_path_cwd(fs, p, path)} \ {NoNode} :
          fs' = [fs EXCEPT !.node[n].uid = uid, !.node[n].gid = gid]
    /\ UNCHANGED <<mem, proc, tainted>>

(* process_setuid and process_setgid; without root only as a no-op. *)
process_setuid(p, uid) ==
    /\ Live(p) /\ proc[p].uid = 0
    /\ proc' = [proc EXCEPT ![p].uid = uid]
    /\ UNCHANGED <<fs, mem, tainted>>

process_setgid(p, gid) ==
    /\ Live(p) /\ proc[p].uid = 0
    /\ proc' = [proc EXCEPT ![p].gid = gid]
    /\ UNCHANGED <<fs, mem, tainted>>

-----------------------------------------------------------------------------
(* System calls on descriptors.  Devices ignore offsets, so theirs are not *)
(* counted; pipes are in Pipe.                                             *)

IsFile(n) == n \in Nodes /\ fs.node[n].type = "file"

(* process_read and tmpfs_file_read. *)
ReadFrom(p, fd, count, e, v) ==
    /\ e.access_mode # "O_WRONLY" /\ vfs_check_perm(v, p, "r")
    /\ e.offset < v.size
    /\ proc' = [proc EXCEPT ![p].fds[fd].offset = @ + Min({count, v.size - e.offset})]

process_read(p, fd, count) ==
    /\ Live(p) /\ IsFile(proc[p].fds[fd].node)
    /\ ReadFrom(p, fd, count, proc[p].fds[fd], fs.node[proc[p].fds[fd].node])
    /\ UNCHANGED <<fs, mem, tainted>>

(* count bytes x at offset off of the memory that starts at page f. *)
Stored(m, f, off, count, x) ==
    [a \in DOMAIN m |-> IF a - f * PAGE_SIZE \in off .. off + count - 1 THEN x ELSE m[a]]

(* Mutant: a file that grows takes one byte too few along. *)
Moved_less(m, f, g, size) ==
    [a \in DOMAIN m |-> IF a - g * PAGE_SIZE \in 0 .. size - 2
                        THEN m[a + (f - g) * PAGE_SIZE] ELSE m[a]]

(* size bytes copied from page f to page g. *)
Moved(m, f, g, size) ==
    [a \in DOMAIN m |-> IF a - g * PAGE_SIZE \in 0 .. size - 1
                        THEN m[a + (f - g) * PAGE_SIZE] ELSE m[a]]

(* The capacity doubles until it is enough: at most once per byte. *)
Doubled(capacity, bytes) ==
    LET cap[k \in 0 .. bytes] ==
            IF k = 0 THEN capacity
            ELSE IF cap[k - 1] * PAGE_SIZE < bytes THEN 2 * cap[k - 1] ELSE cap[k - 1]
    IN  cap[bytes]

(* tmpfs_file_write, count bytes x at offset off of the file v: the number *)
(* of bytes written, the vnode, memory and pages in use afterwards.        *)
Grown(v, off, k) == [v EXCEPT !.size = Max({@, off + k})]

InPlace(v, k, off, x) ==
    [n |-> k, v |-> Grown(v, off, k), used |-> fs.used, mem |-> Stored(mem, v.data, off, k, x)]

InNewPages(v, count, off, x, g, pages) ==
    [n |-> count, v |-> [Grown(v, off, count) EXCEPT !.data = g, !.capacity = pages],
     used |-> (fs.used \cup Run(g, pages)) \ Freed(v),
     mem |-> Stored(Moved(mem, v.data, g, v.size), g, off, count, x)]

Relocated(v, count, off, x, g, pages, room) ==
    IF g # 0 THEN InNewPages(v, count, off, x, g, pages)
    ELSE IF off > room THEN InPlace(v, 0, v.size, x)       \* ENOMEM
    ELSE InPlace(v, Min({count, room - off}), off, x)

WriteInto(v, count, off, x, room, pages) ==
    IF off + count <= room THEN InPlace(v, count, off, x)
    ELSE Relocated(v, count, off, x, pmm_alloc_pages(fs.used, pages), pages, room)

tmpfs_file_write(v, count, off, x) ==
    WriteInto(v, count, off, x, v.capacity * PAGE_SIZE, Doubled(v.capacity, off + count))

(* Mutant: the permission is left to open. *)
MayWrite_opened(p, v) == TRUE

MayWrite(p, v) == vfs_check_perm(v, p, "w")

process_write(p, fd, count, x) ==
    /\ Live(p) /\ IsFile(proc[p].fds[fd].node)
    /\ \E e \in {proc[p].fds[fd]} :
          /\ e.access_mode # "O_RDONLY" /\ MayWrite(p, fs.node[e.node])
          /\ e.offset + count <= MAX_SIZE
          /\ \E w \in {tmpfs_file_write(fs.node[e.node], count, e.offset, x)} :
                /\ fs' = [fs EXCEPT !.node[e.node] = w.v, !.used = w.used]
                /\ mem' = w.mem
                /\ proc' = [proc EXCEPT ![p].fds[fd].offset = @ + w.n]
          /\ tainted' = (tainted \/ ~fs.node[e.node].linked)

(* access_mode stays as it was. *)
process_close(p, fd) ==
    /\ Live(p) /\ proc[p].fds[fd].node # NoNode
    /\ proc' = [proc EXCEPT ![p].fds[fd] = [@ EXCEPT !.node = NoNode, !.offset = 0]]
    /\ UNCHANGED <<fs, mem, tainted>>

(* newfd keeps the access_mode it had, and starts at 0. *)
process_dup2(p, oldfd, newfd) ==
    /\ Live(p) /\ proc[p].fds[oldfd].node # NoNode /\ oldfd # newfd
    /\ proc' = [proc EXCEPT ![p].fds[newfd] =
                            [@ EXCEPT !.node = proc[p].fds[oldfd].node, !.offset = 0]]
    /\ UNCHANGED <<fs, mem, tainted>>

-----------------------------------------------------------------------------
(* Processes: descriptors, directory and identity are copied by fork, and  *)
(* given up at the end.                                                    *)

NoProcess == [state |-> "none", uid |-> 0, gid |-> 0, cwd |-> << >>,
              fds |-> [fd \in Fds |-> Closed]]

process_clone_into(p, q) ==
    /\ Live(p) /\ ~Live(q)
    /\ proc' = [proc EXCEPT ![q] = proc[p]]
    /\ UNCHANGED <<fs, mem, tainted>>

process_terminate(p) ==
    /\ Live(p)
    /\ proc' = [proc EXCEPT ![p] = NoProcess]
    /\ UNCHANGED <<fs, mem, tainted>>

process_init ==
    [NoProcess EXCEPT !.state = "live",
        !.fds = [fd \in Fds |-> IF fd < FIRST_FD THEN FdEntry(Max(DOMAIN Devices), 0, "O_RDWR")
                                ELSE Closed]]

-----------------------------------------------------------------------------
(* vfs_init: files, then directories, the last one for the devices         *)
(* (devfs_install).  Each file has one page with one byte in it.           *)
DevDir == Len(BootFiles) + Len(BootDirs) + 1
BootNode(n) ==
    IF n = ROOT THEN Vnode("dir", "/", ROOT, VFS_DEFAULT_DIR_MODE)
    ELSE IF n <= Len(BootFiles)
    THEN [Vnode("file", BootFiles[n], ROOT, VFS_DEFAULT_FILE_MODE)
             EXCEPT !.data = n, !.capacity = 1, !.size = 1]
    ELSE IF n < DevDir
    THEN Vnode("dir", BootDirs[n - Len(BootFiles)], ROOT, VFS_DEFAULT_DIR_MODE)
    ELSE IF n = DevDir
    THEN [Vnode("dir", "dev", ROOT, VFS_DEFAULT_DIR_MODE) EXCEPT !.ops = "devfs"]
    ELSE NoVnode

DeviceNode(d) == Vnode("dev", Devices[d], DevDir, DeviceMode)

Init ==
    /\ fs = [node |-> [v \in Vnodes |-> IF v \in Nodes THEN BootNode(v) ELSE DeviceNode(v)],
             count |-> DevDir + 1,
             used |-> 0 .. Len(BootFiles)]
    /\ mem = [a \in 0 .. NFRAMES * PAGE_SIZE - 1 |-> 0]
    /\ \E p \in Procs : proc = [q \in Procs |-> IF q = p THEN process_init ELSE NoProcess]
    /\ tainted = FALSE

(* The cases of syscall_handler: descriptors, paths, identity. *)
fd_calls(p) ==
    \/ \E fd \in Fds :
          \/ \E count \in Counts : process_read(p, fd, count)
          \/ \E count \in Counts, x \in Bytes : process_write(p, fd, count, x)
          \/ process_close(p, fd)
          \/ \E newfd \in DupTargets : process_dup2(p, fd, newfd)

path_calls(p) ==
    \E path \in Paths :
        \/ \E flags \in OpenFlags : process_open(p, path, flags)
        \/ process_mkdir(p, path) \/ process_unlink(p, path) \/ process_chdir(p, path)

identity_calls(p) ==
    \/ \E path \in OwnPaths, mode \in Modes : process_chmod(p, path, mode)
    \/ \E path \in OwnPaths, id \in Ids : process_chown(p, path, id, id)
    \/ \E id \in Ids : process_setuid(p, id) \/ process_setgid(p, id)

Next ==
    \E p \in Procs :
        \/ fd_calls(p) \/ path_calls(p) \/ identity_calls(p)
        \/ \E q \in Procs : process_clone_into(p, q)
        \/ process_terminate(p)

Spec == Init /\ [][Next]_vars

-----------------------------------------------------------------------------
LinkedFiles == {n \in Nodes : fs.node[n].linked /\ fs.node[n].type = "file"}

(* Pages are exactly where they should be: every page in use, but for page *)
(* 0, is behind one file that still has a name, and no two files share     *)
(* one; through growth, failed growth, O_TRUNC and unlink, as long as      *)
(* nothing is tainted.  (tmpfs.c:66 and tmpfs.c:137 free what the file     *)
(* had, not what it has.)                                                  *)
PagesAccounted ==
    ~tainted =>
        /\ fs.used \ {0} = UNION {Backing(fs.node[n]) : n \in LinkedFiles}
        /\ \A n, m \in LinkedFiles :
              n # m => Backing(fs.node[n]) \cap Backing(fs.node[m]) = {}

(* No descriptor points beyond the end of its file, not even one to a file *)
(* that has been removed: so the bytes of a page that were never written   *)
(* (tmpfs.c:72 does not clear a gap) are never part of a file, and the     *)
(* -ENOMEM of tmpfs.c:55 cannot happen.                                    *)
OffsetInFile ==
    \A p \in Procs, fd \in Fds :
        LET e == proc[p].fds[fd]
        IN  IsFile(e.node) => /\ e.offset <= fs.node[e.node].size
                              /\ fs.node[e.node].size <= fs.node[e.node].capacity * PAGE_SIZE

(* The tree stays a tree: what has a name is in a directory that has one,  *)
(* under a name nobody else has there; and what chdir stores for a         *)
(* directory (vfs_canonical_path) leads back to that directory, however    *)
(* the path that was given went there.                                     *)
TreeIntact ==
    /\ \A n \in Nodes \ {ROOT} : fs.node[n].linked =>
          /\ fs.node[fs.node[n].parent].linked /\ fs.node[fs.node[n].parent].type = "dir"
          /\ \A m \in Children(fs, fs.node[n].parent) :
                fs.node[m].name = fs.node[n].name => m = n
    /\ \A p \in Procs, path \in Paths :
          LET n == vfs_resolve_path_cwd(fs, p, path)
          IN  n \in Nodes /\ fs.node[n].type = "dir" =>
                  vfs_resolve_path(fs, vfs_canonical_path(fs, n)) = n

NoBlob == <<-1>>
Blob(n) == IF n \in LinkedFiles
           THEN [i \in 1 .. fs.node[n].size |-> mem[fs.node[n].data * PAGE_SIZE + i - 1]]
           ELSE NoBlob

(* A file changes only through a process that has the permission now, not  *)
(* just when it opened the file: descriptors outlive chmod, chown, setuid, *)
(* and pass through fork and dup2 (which does not copy access_mode,        *)
(* process.c:418).                                                         *)
WritesPermitted ==
    [][\A n \in Nodes :
          (n \in LinkedFiles /\ n \in LinkedFiles' /\ ~tainted' /\ Blob(n)' # Blob(n)) =>
              \E p \in Procs : proc'[p] # proc[p] /\ vfs_check_perm(fs.node[n], p, "w")]_vars

(* The system calls keep the promise of Files until something is tainted:  *)
(* a file is its own sequence of bytes, whatever pages it moves through.   *)
F == INSTANCE Files WITH
    Files <- Nodes, None <- NoBlob, blob <- [n \in Nodes |-> Blob(n)], sound <- ~tainted

ImplementsFiles == F!Spec
=============================================================================
