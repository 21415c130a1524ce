------------------------------ MODULE FsProofs ------------------------------
(***************************************************************************)
(* The system calls of Fs keep the tree, the descriptors and the ledger of *)
(* pages, and what follows, for any number of processes, descriptors,      *)
(* nodes and pages, and any page size.                                     *)
(***************************************************************************)
EXTENDS FsLedger

(* A descriptor made before t still points at a node of t, and not beyond  *)
(* the end of a file.                                                      *)
Later(s, t) ==
    /\ s.count <= t.count
    /\ \A n \in Nodes : n \in Known(s) =>
          t.node[n].type = s.node[n].type /\ t.node[n].size >= s.node[n].size

(* What a call on paths leaves behind. *)
Outcome(s, t) ==
    /\ TreeOK(t) /\ Later(s, t)
    /\ Ledger(s) /\ ~OnPageZero(t) => Ledger(t)

(* Nothing, or a file or directory more. *)
LEMMA AddedOutcome ==
  ASSUME NEW s, NEW t, TreeOK(s), TreeOK(t), Created(s, t) \/ MadeDir(s, t)
  PROVE  Outcome(s, t)
<1>1. s.count \in Nat /\ \A n \in Nodes : s.node[n].size \in Nat /\ t.node[n].size \in Nat
  BY Zenon DEF TreeOK, FsSet, VnodeSet, Vnodes
<1>2. CASE t = s
  <2>1. Later(s, t)
    BY <1>1, <1>2 DEF Later
  <2> QED BY <1>2, <2>1, Zenon DEF Outcome
<1>3. ASSUME NEW m \in Nodes, m = s.count, t.count = m + 1, OnlyFile(s, t, m)
      PROVE  Later(s, t)
  <2>1. \A n \in Nodes : n # m => t.node[n].type = s.node[n].type
                                  /\ t.node[n].size = s.node[n].size
    BY <1>3, Zenon DEF OnlyFile, SameFile
  <2>2. \A n \in Nodes : n \in Known(s) => n # m
    BY <1>1, <1>3 DEF Known, Nodes
  <2>3. s.count <= t.count
    BY <1>1, <1>3
  <2>4. \A n \in Nodes : s.node[n].size >= s.node[n].size
    BY <1>1
  <2> QED BY <2>1, <2>2, <2>3, <2>4, Zenon DEF Later
<1>4. ASSUME NEW m \in Nodes, AddedFile(s, t, m)
      PROVE  Outcome(s, t)
  <2>1. Later(s, t)
    BY <1>3, <1>4, Zenon DEF AddedFile
  <2>2. ASSUME Ledger(s), ~OnPageZero(t) PROVE Ledger(t)
    <3>1. t.node[m].data # 0
      BY <1>4, <2>2, Zenon DEF OnPageZero, AddedFile
    <3> QED BY <1>4, <2>2, <3>1, LedgerAdded, Zenon
  <2> QED BY <2>1, <2>2, Zenon DEF Outcome
<1>5. ASSUME NEW m \in Nodes, AddedDir(s, t, m)
      PROVE  Outcome(s, t)
  <2>1. Later(s, t)
    BY <1>3, <1>5, Zenon DEF AddedDir
  <2>2. ASSUME Ledger(s) PROVE Ledger(t)
    <3>1. /\ t.used = s.used /\ t.node[m].type = "dir" /\ m = s.count
          /\ \A n \in Nodes : n # m => SameFile(s, t, n)
      BY <1>5, Zenon DEF AddedDir, OnlyFile
    <3>2. s.count >= s.count
      BY <1>1
    <3>3. s.node[m].type = "none"
      BY <3>1, <3>2, Zenon DEF TreeOK
    <3>4. \A n \in Nodes : s.node[n].type = "file" \/ t.node[n].type = "file" => SameFile(s, t, n)
      BY <3>1, <3>3, Zenon
    <3>5. \A n \in Nodes : t.node[n].type = "file" =>
             s.node[n].type = "file" /\ t.node[n].data = s.node[n].data
      BY <3>4, Zenon DEF SameFile
    <3> QED BY <2>2, <3>1, <3>4, <3>5, LedgerSame, Zenon
  <2> QED BY <2>1, <2>2, Zenon DEF Outcome
<1> QED BY <1>2, <1>4, <1>5, Zenon DEF Created, MadeDir

(* Nothing, or a name less; then the ledger holds anyway. *)
LEMMA UnlinkedOutcome ==
  ASSUME NEW s, NEW t, TreeOK(s), TreeOK(t), Unlinked(s, t)
  PROVE  Outcome(s, t) /\ (Ledger(s) => Ledger(t))
<1>1. s.count \in Nat /\ \A n \in Nodes : s.node[n].size \in Nat
  BY Zenon DEF TreeOK, FsSet, VnodeSet, Vnodes
<1>2. Ledger(s) => Ledger(t)
  BY LedgerRemoved, Zenon DEF Unlinked
<1>3. t.count = s.count /\ \A n \in Nodes : t.node[n].type = s.node[n].type
                                            /\ t.node[n].size = s.node[n].size
  <2>1. CASE t = s
    BY <2>1, Zenon
  <2>2. ASSUME NEW m \in Nodes, Removed(s, t, m)
        PROVE  t.count = s.count /\ \A n \in Nodes : t.node[n].type = s.node[n].type
                                                     /\ t.node[n].size = s.node[n].size
    BY <2>2, Zenon DEF Removed, OnlyFile, SameFile
  <2> QED BY <2>1, <2>2, Zenon DEF Unlinked
<1>4. Later(s, t)
  BY <1>1, <1>3 DEF Later
<1> QED BY <1>2, <1>4, Zenon DEF Outcome

(* What open may do to the tree: remove a file, then make one. *)
Reopened(s, u) ==
    /\ TreeOK(u)
    /\ \E t : TreeOK(t) /\ Unlinked(s, t) /\ Created(t, u)

(* Sizes are numbers, and a size that is not less has not shrunk. *)
LEMMA SizeOf ==
  ASSUME NEW s, TreeOK(s), NEW n \in Nodes
  PROVE  s.node[n].size \in Nat
BY Zenon DEF TreeOK, FsSet, VnodeSet, Vnodes
LEMMA NotLess ==
  ASSUME NEW a \in Nat, NEW b \in Nat, b = a \/ ~(a >= b)
  PROVE  b >= a
OBVIOUS

(* Both together. *)
LEMMA ReopenedOutcome ==
  ASSUME NEW s, NEW u, TreeOK(s), Reopened(s, u)
  PROVE  Outcome(s, u)
<1>1. PICK t : TreeOK(t) /\ Unlinked(s, t) /\ Created(t, u)
  BY Zenon DEF Reopened
<1>2. TreeOK(u)
  BY Zenon DEF Reopened
<1>3. Outcome(s, t) /\ (Ledger(s) => Ledger(t))
  BY <1>1, UnlinkedOutcome, Zenon
<1>4. Outcome(t, u)
  BY <1>1, <1>2, AddedOutcome, Zenon
<1>5. Later(s, u)
  <2>1. /\ s.count \in Nat /\ t.count \in Nat /\ u.count \in Nat
        /\ s.count <= t.count /\ t.count <= u.count
    BY <1>1, <1>2, <1>3, <1>4, Zenon DEF Outcome, Later, TreeOK, FsSet
  <2>2. \A n \in Nodes : s.node[n].size \in Nat /\ t.node[n].size \in Nat /\ u.node[n].size \in Nat
    BY <1>1, <1>2, SizeOf, Zenon
  <2>3. ASSUME NEW n \in Nodes, n \in Known(s)
        PROVE  u.node[n].type = s.node[n].type /\ u.node[n].size >= s.node[n].size
    <3>1. n \in Known(t)
      BY <2>1, <2>3 DEF Known, Nodes
    <3>2. t.node[n].type = s.node[n].type /\ t.node[n].size >= s.node[n].size
      BY <1>3, <2>3, Zenon DEF Outcome, Later
    <3>3. u.node[n].type = t.node[n].type /\ u.node[n].size >= t.node[n].size
      BY <1>4, <3>1, Zenon DEF Outcome, Later
    <3> QED BY <2>2, <3>2, <3>3
  <2> QED BY <2>1, <2>3 DEF Later
<1> QED BY <1>2, <1>3, <1>4, <1>5, Zenon DEF Outcome

(* process_open, whether it succeeds or not. *)
LEMMA OpenedOK ==
  ASSUME TreeOK(fs), NEW p \in Procs, proc \in [Procs -> ProcSet], NEW path \in Paths, NEW flags
  PROVE  Reopened(fs, Opened(p, path, flags).fs)
<1> DEFINE t == unlink(fs, p, path)
<1>1. Unlinked(fs, fs) /\ \A s : Created(s, s)
  BY Zenon DEF Unlinked, Created
<1>2. path \in Paths \cup OwnPaths
  BY Zenon
<1>3. ASSUME NEW s, TreeOK(s)
      PROVE  TreeOK(create(s, p, path).fs) /\ Created(s, create(s, p, path).fs)
  <2>1. Into(s, resolve_parent_dir(s, p, path))
    BY <1>2, <1>3, ParentOK, Zenon
  <2> QED BY <1>3, <2>1, CreateOK, Zenon DEF create
<1>4. TreeOK(t.fs) /\ Unlinked(fs, t.fs)
  BY UnlinkOK, Zenon DEF unlink
<1>5. Reopened(fs, fs)
  BY <1>1, Zenon DEF Reopened
<1>6. Reopened(fs, create(fs, p, path).fs)
  BY <1>1, <1>3, Zenon DEF Reopened
<1>7. Reopened(fs, Truncated(fs, p, path).fs)
  <2> HIDE DEF t
  <2>1. CASE t.err # "ok"
    <3>1. Truncated(fs, p, path) = t
      BY <2>1, Zenon DEF Truncated, Recreated, t
    <3> QED BY <1>1, <1>4, <3>1, Zenon DEF Reopened
  <2>2. CASE t.err = "ok"
    <3>1. Truncated(fs, p, path) = create(t.fs, p, path)
      BY <2>2, Zenon DEF Truncated, Recreated, t
    <3> QED BY <1>3, <1>4, <3>1, Zenon DEF Reopened
  <2> QED BY <2>1, <2>2, Zenon
<1>8. Result(fs, "ENOENT").fs = fs /\ Result(fs, "EEXIST").fs = fs /\ Result(fs, "ok").fs = fs
  BY ResultParts, Zenon
<1> QED BY <1>5, <1>6, <1>7, <1>8, Zenon DEF Opened

-----------------------------------------------------------------------------
(* The invariant, and the calls that keep it *)

FdOK(e, s) ==
    /\ e.node \in Place(s)
    /\ e.node \in Nodes /\ s.node[e.node].type = "file" => e.offset <= s.node[e.node].size

FdsOK(table, s) == \A p \in Procs, fd \in Fds : FdOK(table[p].fds[fd], s)

IInv ==
    /\ TypeOK /\ TreeOK(fs) /\ FdsOK(proc, fs)
    /\ ~tainted => Ledger(fs)

(* Descriptors outlive every call on paths. *)
LEMMA FdLater ==
  ASSUME NEW s, NEW t, TreeOK(s), TreeOK(t), Later(s, t), NEW e \in FdSet, FdOK(e, s)
  PROVE  FdOK(e, t)
<1>1. s.count \in Nat /\ t.count \in Nat /\ s.count <= t.count /\ e.offset \in Nat
  BY Zenon DEF TreeOK, FsSet, Later, FdSet
<1>2. e.node \in Place(t)
  <2>1. e.node \in Known(s) \/ e.node = NoNode
    BY Zenon DEF FdOK, Place
  <2>2. e.node \in Known(s) => e.node \in Known(t)
    <3> SUFFICES ASSUME e.node \in Vnodes, e.node < s.count
                 PROVE  e.node < t.count
      BY Zenon DEF Known
    <3>1. e.node \in Int
      BY Constants, Zenon
    <3> QED BY <1>1, <3>1
  <2> QED BY <2>1, <2>2, Zenon DEF Place
<1>3. ASSUME e.node \in Nodes, t.node[e.node].type = "file"
      PROVE  e.offset <= t.node[e.node].size
  <2> DEFINE n == e.node
  <2>1. n \in Known(s)
    BY <1>3, Constants, Zenon DEF FdOK, Place, Vnodes
  <2>2. t.node[n].type = s.node[n].type /\ t.node[n].size >= s.node[n].size
    BY <1>3, <2>1, Zenon DEF Later
  <2>3. e.offset <= s.node[n].size
    BY <1>3, <2>2, Zenon DEF FdOK
  <2>4. s.node[n].size \in Nat /\ t.node[n].size \in Nat
    BY <1>3 DEF TreeOK, FsSet, VnodeSet, Vnodes
  <2> HIDE DEF n
  <2>5. e.offset <= t.node[n].size
    BY <1>1, <2>2, <2>3, <2>4
  <2> QED BY <2>5, Zenon DEF n
<1> QED BY <1>2, <1>3, Zenon DEF FdOK

(* A call that leaves an outcome and the processes alone keeps the         *)
(* invariant.                                                              *)
LEMMA OutcomeKeeps ==
  ASSUME IInv, Outcome(fs, fs'), UNCHANGED <<mem, proc>>, tainted' \in BOOLEAN,
         ~tainted' => ~tainted /\ ~OnPageZero(fs')
  PROVE  IInv'
<1>1. TreeOK(fs') /\ Later(fs, fs') /\ fs' \in FsSet
  BY Zenon DEF Outcome, TreeOK
<1>2. TypeOK'
  BY <1>1, Zenon DEF IInv, TypeOK
<1>3. FdsOK(proc', fs')
  <2> SUFFICES ASSUME NEW p \in Procs, NEW fd \in Fds
               PROVE  FdOK(proc[p].fds[fd], fs')
    BY Zenon DEF FdsOK
  <2>1. proc[p].fds[fd] \in FdSet
    BY DEF IInv, TypeOK, ProcSet
  <2>2. TreeOK(fs) /\ FdOK(proc[p].fds[fd], fs)
    BY Zenon DEF IInv, FdsOK
  <2> QED BY <1>1, <2>1, <2>2, FdLater, Zenon
<1>4. ~tainted' => Ledger(fs')
  BY Zenon DEF IInv, Outcome
<1> QED BY <1>1, <1>2, <1>3, <1>4, Zenon DEF IInv

(* A call that changes one process, whose descriptors stay right. *)
LEMMA ProcKeeps ==
  ASSUME IInv, UNCHANGED <<fs, mem, tainted>>, NEW p \in Procs, NEW q \in ProcSet,
         proc' = [proc EXCEPT ![p] = q], \A fd \in Fds : FdOK(q.fds[fd], fs)
  PROVE  IInv'
<1>1. proc \in [Procs -> ProcSet]
  BY Zenon DEF IInv, TypeOK
<1>2. proc' \in [Procs -> ProcSet] /\ proc'[p] = q /\ \A r \in Procs : r # p => proc'[r] = proc[r]
  <2> HIDE DEF ProcSet
  <2> QED BY <1>1, Zenon
<1>3. FdsOK(proc', fs)
  BY <1>2, Zenon DEF IInv, FdsOK
<1>4. FdsOK(proc', fs')
  BY <1>3, Zenon
<1> QED BY <1>2, <1>4, Zenon DEF IInv, TypeOK

(* Only the entry fd of p's descriptor table changes, to e. *)
SetsFd(p, fd, e) ==
    proc' = [proc EXCEPT ![p] = [proc[p] EXCEPT !.fds = [proc[p].fds EXCEPT ![fd] = e]]]

(* A changed descriptor of process p. *)
LEMMA FdKeeps ==
  ASSUME IInv, UNCHANGED <<fs, mem, tainted>>, NEW p \in Procs, NEW fd \in Fds, NEW e \in FdSet,
         SetsFd(p, fd, e),
         FdOK(e, fs)
  PROVE  IInv'
<1> DEFINE fds == [proc[p].fds EXCEPT ![fd] = e]
           q == [proc[p] EXCEPT !.fds = fds]
<1>1. proc[p] \in ProcSet /\ proc[p].fds \in [Fds -> FdSet]
  BY Zenon DEF IInv, TypeOK, ProcSet
<1>2. fds \in [Fds -> FdSet] /\ \A g \in Fds : fds[g] = IF g = fd THEN e ELSE proc[p].fds[g]
  BY <1>1, Zenon
<1> HIDE DEF fds
<1>3. q \in ProcSet /\ q.fds = fds
  BY <1>1, <1>2, Zenon DEF ProcSet
<1>4. \A g \in Fds : FdOK(proc[p].fds[g], fs)
  BY Zenon DEF IInv, FdsOK
<1>5. \A g \in Fds : FdOK(q.fds[g], fs)
  BY <1>2, <1>3, <1>4, Zenon
<1> QED BY <1>3, <1>5, ProcKeeps, Zenon DEF fds, SetsFd

(* The descriptor calls that leave the file system alone. *)
LEMMA ReadKeeps ==
  ASSUME IInv, NEW p \in Procs, NEW fd \in Fds, NEW count \in Counts, process_read(p, fd, count)
  PROVE  IInv'
<1> DEFINE e == proc[p].fds[fd]
           v == fs.node[e.node]
           k == Min({count, v.size - e.offset})
           e2 == [e EXCEPT !.offset = @ + k]
<1>1. IsFile(e.node) /\ ReadFrom(p, fd, count, e, v) /\ UNCHANGED <<fs, mem, tainted>>
  BY Zenon DEF process_read
<1>2. e \in FdSet /\ proc \in [Procs -> ProcSet] /\ proc[p] \in ProcSet
  BY Zenon DEF IInv, TypeOK, ProcSet
<1>3. e.node \in Nodes /\ v.type = "file" /\ v.size \in Nat /\ e.offset \in Nat
  BY <1>1, <1>2, Zenon DEF IInv, TreeOK, FsSet, VnodeSet, Vnodes, IsFile, FdSet
<1>4. e.offset < v.size /\ proc' = [proc EXCEPT ![p].fds[fd].offset = @ + k]
  BY <1>1, Zenon DEF ReadFrom
<1>5. count \in Nat /\ v.size - e.offset \in Nat
  <2>1. count \in Nat
    BY FsAssumption, Zenon
  <2> HIDE DEF v, e
  <2> QED BY <1>3, <1>4, <2>1
<1>6. k \in Nat /\ k <= v.size - e.offset
  <2> DEFINE b == v.size - e.offset
  <2> HIDE DEF b
  <2>1. count \in Nat /\ b \in Nat
    BY <1>5, Zenon DEF b
  <2>2. Min({count, b}) \in Nat /\ Min({count, b}) <= b
    BY <2>1, MinMaxOfTwo, Zenon
  <2> QED BY <2>2, Zenon DEF b
<1> HIDE DEF k, v
<1>7. e2 \in FdSet /\ e2.node = e.node /\ e2.offset = e.offset + k
  BY <1>2, <1>3, <1>6 DEF FdSet
<1>8. e2.offset <= v.size
  BY <1>3, <1>5, <1>6, <1>7
<1>9. SetsFd(p, fd, e2)
  BY <1>2, <1>4, Zenon DEF SetsFd, ProcSet, FdSet
<1>10. FdOK(e, fs)
  BY Zenon DEF IInv, FdsOK
<1> HIDE DEF e2
<1>11. FdOK(e2, fs)
  BY <1>7, <1>8, <1>10, Zenon DEF FdOK, v
<1> QED BY <1>1, <1>7, <1>9, <1>11, FdKeeps, Zenon

LEMMA CloseKeeps ==
  ASSUME IInv, NEW p \in Procs, NEW fd \in Fds, process_close(p, fd)
  PROVE  IInv'
<1> DEFINE e == proc[p].fds[fd]
           e2 == [e EXCEPT !.node = NoNode, !.offset = 0]
<1>1. UNCHANGED <<fs, mem, tainted>>
      /\ proc' = [proc EXCEPT ![p].fds[fd] = [@ EXCEPT !.node = NoNode, !.offset = 0]]
  BY Zenon DEF process_close
<1>2. e \in FdSet /\ proc \in [Procs -> ProcSet] /\ proc[p] \in ProcSet
  BY Zenon DEF IInv, TypeOK, ProcSet
<1>3. e2 \in FdSet /\ e2.node = NoNode
  BY <1>2, Zenon DEF FdSet
<1>4. SetsFd(p, fd, e2)
  BY <1>1, <1>2, Zenon DEF SetsFd, ProcSet, FdSet
<1> HIDE DEF e2
<1>5. FdOK(e2, fs)
  BY <1>3, Constants, Zenon DEF FdOK, Place, Vnodes
<1> QED BY <1>1, <1>3, <1>4, <1>5, FdKeeps, Zenon

LEMMA Dup2Keeps ==
  ASSUME IInv, NEW p \in Procs, NEW fd \in Fds, NEW newfd \in DupTargets,
         process_dup2(p, fd, newfd)
  PROVE  IInv'
<1> DEFINE e == proc[p].fds[newfd]
           n == proc[p].fds[fd].node
           e2 == [e EXCEPT !.node = n, !.offset = 0]
<1>1. UNCHANGED <<fs, mem, tainted>>
      /\ proc' = [proc EXCEPT ![p].fds[newfd] = [@ EXCEPT !.node = n, !.offset = 0]]
  BY Zenon DEF process_dup2
<1>2. newfd \in Fds
  BY FsAssumption, Zenon
<1>3. /\ e \in FdSet /\ proc \in [Procs -> ProcSet] /\ proc[p] \in ProcSet
      /\ proc[p].fds[fd] \in FdSet /\ fs \in FsSet
  BY <1>2, Zenon DEF IInv, TypeOK, ProcSet
<1>4. n \in Vnodes \cup {NoNode}
  BY <1>3, Zenon DEF FdSet
<1>5. FdOK(proc[p].fds[fd], fs)
  BY Zenon DEF IInv, FdsOK
<1>6. n \in Place(fs)
  BY <1>5, Zenon DEF FdOK
<1> HIDE DEF n
<1>7. e2 \in FdSet /\ e2.node = n /\ e2.offset = 0
  BY <1>3, <1>4, Zenon DEF FdSet
<1>8. SetsFd(p, newfd, e2)
  BY <1>1, <1>2, <1>3, Zenon DEF SetsFd, ProcSet, FdSet
<1> HIDE DEF e2
<1>9. FdOK(e2, fs)
  <2>1. \A m \in Nodes : fs.node[m].size \in Nat
    BY <1>3, Zenon DEF FsSet, VnodeSet, Vnodes
  <2> QED BY <1>6, <1>7, <2>1 DEF FdOK
<1> QED BY <1>1, <1>2, <1>7, <1>8, <1>9, FdKeeps, Zenon

(* The calls that change a process but none of its descriptors. *)
LEMMA IdentityKeeps ==
  ASSUME IInv, NEW p \in Procs, NEW id \in Ids, process_setuid(p, id) \/ process_setgid(p, id)
  PROVE  IInv'
<1>1. UNCHANGED <<fs, mem, tainted>>
  BY Zenon DEF process_setuid, process_setgid
<1>2. proc \in [Procs -> ProcSet] /\ proc[p] \in ProcSet
  BY Zenon DEF IInv, TypeOK
<1>3. PICK q \in ProcSet : proc' = [proc EXCEPT ![p] = q] /\ q.fds = proc[p].fds
  <2>1. CASE process_setuid(p, id)
    <3> DEFINE q == [proc[p] EXCEPT !.uid = id]
    <3>1. q \in ProcSet /\ q.fds = proc[p].fds
      BY <1>2, Zenon DEF ProcSet
    <3>2. proc' = [proc EXCEPT ![p] = q]
      BY <1>2, <2>1, Zenon DEF process_setuid
    <3> QED BY <3>1, <3>2, Zenon
  <2>2. CASE process_setgid(p, id)
    <3> DEFINE q == [proc[p] EXCEPT !.gid = id]
    <3>1. q \in ProcSet /\ q.fds = proc[p].fds
      BY <1>2, Zenon DEF ProcSet
    <3>2. proc' = [proc EXCEPT ![p] = q]
      BY <1>2, <2>2, Zenon DEF process_setgid
    <3> QED BY <3>1, <3>2, Zenon
  <2> QED BY <2>1, <2>2, Zenon
<1>4. \A fd \in Fds : FdOK(q.fds[fd], fs)
  BY <1>3, Zenon DEF IInv, FdsOK
<1> QED BY <1>1, <1>3, <1>4, ProcKeeps, Zenon

LEMMA ChdirKeeps ==
  ASSUME IInv, NEW p \in Procs, NEW path \in Paths, process_chdir(p, path)
  PROVE  IInv'
<1>1. UNCHANGED <<fs, mem, tainted>>
  BY Zenon DEF process_chdir
<1>2. proc \in [Procs -> ProcSet] /\ proc[p] \in ProcSet /\ TreeOK(fs)
  BY Zenon DEF IInv, TypeOK
<1> DEFINE n == vfs_resolve_path_cwd(fs, p, path)
<1>3. /\ n # NoNode /\ fs.node[n].type = "dir"
      /\ proc' = [proc EXCEPT ![p].cwd = vfs_canonical_path(fs, n)]
  BY Zenon DEF process_chdir
<1>4. n \in Place(fs)
  BY <1>2, PathPlace, Zenon
<1> HIDE DEF n
<1>5. n \in Nodes /\ n \in Known(fs)
  <2>1. n \in Known(fs) /\ n \in Vnodes
    BY <1>3, <1>4, Zenon DEF Place, Known
  <2>2. \A v \in DOMAIN Devices : fs.node[v].type = "dev"
    BY <1>2, Zenon DEF TreeOK
  <2> QED BY <1>3, <2>1, <2>2, Zenon DEF Vnodes
<1> DEFINE cwd == vfs_canonical_path(fs, n)
           q == [proc[p] EXCEPT !.cwd = cwd]
<1>6. cwd \in Seq(Names)
  BY <1>2, <1>5, CanonicalNames, Zenon
<1> HIDE DEF cwd
<1>7. q \in ProcSet /\ q.fds = proc[p].fds
  BY <1>2, <1>6, Zenon DEF ProcSet
<1>8. proc' = [proc EXCEPT ![p] = q]
  BY <1>2, <1>3, Zenon DEF cwd
<1> HIDE DEF q
<1>9. \A fd \in Fds : FdOK(q.fds[fd], fs)
  BY <1>7, Zenon DEF IInv, FdsOK
<1> QED BY <1>1, <1>7, <1>8, <1>9, ProcKeeps, Zenon

(* A process begins as a copy and ends with nothing. *)
LEMMA CloneKeeps ==
  ASSUME IInv, NEW p \in Procs, NEW q \in Procs, process_clone_into(p, q)
  PROVE  IInv'
<1>1. UNCHANGED <<fs, mem, tainted>> /\ proc' = [proc EXCEPT ![q] = proc[p]]
  BY Zenon DEF process_clone_into
<1>2. proc[p] \in ProcSet
  BY Zenon DEF IInv, TypeOK
<1>3. \A fd \in Fds : FdOK(proc[p].fds[fd], fs)
  BY Zenon DEF IInv, FdsOK
<1> QED BY <1>1, <1>2, <1>3, ProcKeeps, Zenon

(* A closed descriptor is nowhere. *)
LEMMA ClosedOK ==
  /\ NoProcess \in ProcSet /\ Closed \in FdSet
  /\ \A s : FdOK(Closed, s) /\ \A fd \in Fds : FdOK(NoProcess.fds[fd], s)
<1>1. Closed \in FdSet /\ Closed.node = NoNode
  BY Zenon DEF Closed, FdEntry, FdSet, AccessModes
<1>2. << >> \in Seq(Names) /\ 0 \in Ids
  BY FsAssumption
<1>3. NoProcess \in ProcSet /\ \A fd \in Fds : NoProcess.fds[fd] = Closed
  <2> HIDE DEF Closed
  <2> QED BY <1>1, <1>2, Zenon DEF NoProcess, ProcSet
<1>4. NoNode \notin Nodes
  BY Constants, Zenon DEF Vnodes
<1>5. \A s : FdOK(Closed, s)
  BY <1>1, <1>4, Zenon DEF FdOK, Place
<1> QED BY <1>1, <1>3, <1>5, Zenon

LEMMA TerminateKeeps ==
  ASSUME IInv, NEW p \in Procs, process_terminate(p)
  PROVE  IInv'
<1>1. UNCHANGED <<fs, mem, tainted>> /\ proc' = [proc EXCEPT ![p] = NoProcess]
  BY Zenon DEF process_terminate
<1> QED BY <1>1, ClosedOK, ProcKeeps, Zenon

(* The calls on the tree that leave descriptors alone. *)
LEMMA TreeCallsKeep ==
  ASSUME IInv, NEW p \in Procs, NEW path \in Paths,
         process_mkdir(p, path) \/ process_unlink(p, path)
  PROVE  IInv'
<1>1. proc \in [Procs -> ProcSet] /\ TreeOK(fs) /\ tainted \in BOOLEAN
  BY Zenon DEF IInv, TypeOK
<1>2. path \in Paths \cup OwnPaths
  BY Zenon
<1>3. CASE process_mkdir(p, path)
  <2> DEFINE t == mkdir(fs, p, path).fs
  <2>1. Into(fs, resolve_parent_dir(fs, p, path))
    BY <1>1, <1>2, ParentOK, Zenon
  <2>2. TreeOK(t) /\ MadeDir(fs, t)
    BY <1>1, <2>1, MkdirOK, Zenon DEF mkdir
  <2>3. Outcome(fs, t)
    BY <1>1, <2>2, AddedOutcome, Zenon
  <2>4. fs' = t /\ tainted' = (tainted \/ OnPageZero(t)) /\ UNCHANGED <<mem, proc>>
    BY <1>3, Zenon DEF process_mkdir, Becomes
  <2> HIDE DEF t
  <2>5. Outcome(fs, fs') /\ tainted' \in BOOLEAN /\ (~tainted' => ~tainted /\ ~OnPageZero(fs'))
    BY <1>1, <2>3, <2>4, Zenon DEF OnPageZero
  <2> QED BY <2>4, <2>5, OutcomeKeeps, Zenon
<1>4. CASE process_unlink(p, path)
  <2> DEFINE t == unlink(fs, p, path).fs
  <2>1. TreeOK(t) /\ Unlinked(fs, t)
    BY <1>1, UnlinkOK, Zenon DEF unlink
  <2>2. Outcome(fs, t)
    BY <1>1, <2>1, UnlinkedOutcome, Zenon
  <2>3. fs' = t /\ tainted' = (tainted \/ OnPageZero(t)) /\ UNCHANGED <<mem, proc>>
    BY <1>4, Zenon DEF process_unlink, Becomes
  <2> HIDE DEF t
  <2>4. Outcome(fs, fs') /\ tainted' \in BOOLEAN /\ (~tainted' => ~tainted /\ ~OnPageZero(fs'))
    BY <1>1, <2>2, <2>3, Zenon DEF OnPageZero
  <2> QED BY <2>3, <2>4, OutcomeKeeps, Zenon
<1> QED BY <1>3, <1>4, Zenon

(* Owners and modes do not matter to the pages. *)
LEMMA RestyledOutcome ==
  ASSUME NEW s, NEW t, TreeOK(s), TreeOK(t), Restyled(s, t)
  PROVE  Outcome(s, t) /\ (Ledger(s) => Ledger(t))
<1>1. s.count \in Nat /\ \A n \in Nodes : s.node[n].size \in Nat
  BY Zenon DEF TreeOK, FsSet, VnodeSet, Vnodes
<1>2. t.count = s.count /\ t.used = s.used /\ \A n \in Nodes : SameFile(s, t, n)
  BY Zenon DEF Restyled
<1>3. Later(s, t)
  BY <1>1, <1>2 DEF Later, SameFile
<1>4. ASSUME Ledger(s) PROVE Ledger(t)
  <2>1. \A n \in Nodes : t.node[n].type = "file" =>
           s.node[n].type = "file" /\ t.node[n].data = s.node[n].data
    BY <1>2, Zenon DEF SameFile
  <2> QED BY <1>2, <1>4, <2>1, LedgerSame, Zenon
<1> QED BY <1>3, <1>4, Zenon DEF Outcome

(* chmod and chown. *)
LEMMA OwnCalls ==
  ASSUME TypeOK, TreeOK(fs), NEW p \in Procs, NEW path \in OwnPaths,
         \/ \E mode \in Modes : process_chmod(p, path, mode)
         \/ \E id \in Ids : process_chown(p, path, id, id)
  PROVE  TreeOK(fs') /\ Restyled(fs, fs')
<1> DEFINE n == vfs_resolve_path_cwd(fs, p, path)
<1>1. proc \in [Procs -> ProcSet]
  BY Zenon DEF TypeOK
<1>2. n \in Place(fs)
  BY <1>1, PathPlace, Zenon
<1> HIDE DEF n
<1>3. ASSUME n # NoNode
      PROVE  n \in Vnodes /\ fs \in FsSet /\ fs.node[n] \in VnodeSet
  BY <1>2, <1>3, Zenon DEF Place, Known, TreeOK, FsSet
<1>4. ASSUME NEW mode \in Modes, process_chmod(p, path, mode)
      PROVE  TreeOK(fs') /\ Restyled(fs, fs')
  <2> DEFINE w == [fs.node[n] EXCEPT !.mode = mode]
  <2>1. n # NoNode /\ fs' = [fs EXCEPT !.node[n].mode = mode]
    BY <1>4, Zenon DEF process_chmod, n
  <2>2. mode \in [u : Rwx, g : Rwx, o : Rwx]
    BY FsAssumption, Zenon
  <2>3. w \in VnodeSet /\ Restyles(w, fs.node[n])
    BY <1>3, <2>1, <2>2, Zenon DEF VnodeSet, Restyles
  <2>4. fs' = [fs EXCEPT !.node[n] = w]
    BY <1>3, <2>1, Zenon DEF FsSet
  <2> HIDE DEF w
  <2>5. TreeOK([fs EXCEPT !.node[n] = w]) /\ Restyled(fs, [fs EXCEPT !.node[n] = w])
    BY <1>3, <2>1, <2>3, Restyle, Zenon
  <2> QED BY <2>4, <2>5, Zenon
<1>5. ASSUME NEW id \in Ids, process_chown(p, path, id, id)
      PROVE  TreeOK(fs') /\ Restyled(fs, fs')
  <2> DEFINE w == [fs.node[n] EXCEPT !.uid = id, !.gid = id]
  <2>1. n # NoNode /\ fs' = [fs EXCEPT !.node[n].uid = id, !.node[n].gid = id]
    BY <1>5, Zenon DEF process_chown, n
  <2>2. w \in VnodeSet /\ Restyles(w, fs.node[n])
    BY <1>3, <2>1, Zenon DEF VnodeSet, Restyles
  <2>3. fs' = [fs EXCEPT !.node[n] = w]
    BY <1>3, <2>1, Zenon DEF FsSet
  <2> HIDE DEF w
  <2>4. TreeOK([fs EXCEPT !.node[n] = w]) /\ Restyled(fs, [fs EXCEPT !.node[n] = w])
    BY <1>3, <2>1, <2>2, Restyle, Zenon
  <2> QED BY <2>3, <2>4, Zenon
<1> QED BY <1>4, <1>5, Zenon

LEMMA OwnCallsKeep ==
  ASSUME IInv, NEW p \in Procs, NEW path \in OwnPaths,
         \/ \E mode \in Modes : process_chmod(p, path, mode)
         \/ \E id \in Ids : process_chown(p, path, id, id)
  PROVE  IInv'
<1>1. UNCHANGED <<mem, proc, tainted>>
  BY Zenon DEF process_chmod, process_chown
<1>2. TreeOK(fs) /\ TypeOK
  BY Zenon DEF IInv
<1>3. TreeOK(fs') /\ Restyled(fs, fs')
  BY <1>2, OwnCalls, Zenon
<1>4. Later(fs, fs') /\ (Ledger(fs) => Ledger(fs')) /\ fs' \in FsSet
  BY <1>2, <1>3, RestyledOutcome, Zenon DEF Outcome, TreeOK
<1>5. TypeOK'
  BY <1>1, <1>2, <1>4, Zenon DEF TypeOK
<1>6. FdsOK(proc', fs')
  <2> SUFFICES ASSUME NEW q \in Procs, NEW fd \in Fds
               PROVE  FdOK(proc[q].fds[fd], fs')
    BY <1>1, Zenon DEF FdsOK
  <2>1. proc[q].fds[fd] \in FdSet
    BY DEF IInv, TypeOK, ProcSet
  <2>2. FdOK(proc[q].fds[fd], fs)
    BY Zenon DEF IInv, FdsOK
  <2> QED BY <1>2, <1>3, <1>4, <2>1, <2>2, FdLater, Zenon
<1>7. ~tainted' => Ledger(fs')
  BY <1>1, <1>4, Zenon DEF IInv
<1> QED BY <1>3, <1>5, <1>6, <1>7, Zenon DEF IInv

(* open starts at the beginning or at the end of the file. *)
LEMMA StartsInFile ==
  ASSUME NEW v \in VnodeSet, NEW flags
  PROVE  /\ StartOffset(v, flags) \in Nat
         /\ v.type = "file" => StartOffset(v, flags) <= v.size
BY DEF StartOffset, VnodeSet

(* open: the tree, and then the descriptor. *)
LEMMA OpenKeeps ==
  ASSUME IInv, NEW p \in Procs, NEW path \in Paths, NEW flags \in OpenFlags,
         process_open(p, path, flags)
  PROVE  IInv'
<1> DEFINE res == Opened(p, path, flags)
           n == vfs_resolve_path_cwd(res.fs, p, path)
           v == res.fs.node[n]
           fd == Min(FreeFds(p))
           e == FdEntry(n, StartOffset(v, flags), flags.mode)
<1>1. proc \in [Procs -> ProcSet] /\ TreeOK(fs) /\ tainted \in BOOLEAN /\ proc[p] \in ProcSet
  BY Zenon DEF IInv, TypeOK
<1>2. /\ fs' = res.fs /\ tainted' = (tainted \/ OnPageZero(res.fs)) /\ UNCHANGED mem
      /\ proc' = IF res.err = "ok" /\ Granted(p, n, v, flags)
                 THEN [proc EXCEPT ![p].fds[fd] = e] ELSE proc
  BY Zenon DEF process_open, Becomes
<1>3. Reopened(fs, res.fs)
  BY <1>1, OpenedOK, Zenon
<1>4. Outcome(fs, res.fs)
  BY <1>1, <1>3, ReopenedOutcome, Zenon
<1> HIDE DEF res
<1>5. TreeOK(fs') /\ Later(fs, fs') /\ tainted' \in BOOLEAN /\ (~tainted' => Ledger(fs'))
  BY <1>1, <1>2, <1>4, Zenon DEF Outcome, IInv, OnPageZero
<1>6. \A q \in Procs, g \in Fds : FdOK(proc[q].fds[g], fs')
  <2> TAKE q \in Procs, g \in Fds
  <2>1. proc[q].fds[g] \in FdSet
    BY <1>1 DEF ProcSet
  <2>2. FdOK(proc[q].fds[g], fs)
    BY Zenon DEF IInv, FdsOK
  <2> QED BY <1>1, <1>5, <2>1, <2>2, FdLater, Zenon
<1>7. proc' \in [Procs -> ProcSet] /\ FdsOK(proc', fs')
  <2>1. CASE proc' = proc
    BY <1>1, <1>6, <2>1, Zenon DEF FdsOK
  <2>2. CASE Granted(p, n, v, flags) /\ proc' = [proc EXCEPT ![p].fds[fd] = e]
    <3>1. n # NoNode /\ FreeFds(p) # {}
      BY <2>2, Zenon DEF Granted
    <3>2. n \in Place(res.fs)
      BY <1>1, <1>2, <1>5, PathPlace, Zenon
    <3>3. n \in Vnodes /\ v \in VnodeSet
      BY <1>2, <1>5, <3>1, <3>2, Zenon DEF Place, Known, TreeOK, FsSet
    <3>4. fd \in Fds
      <4>1. FreeFds(p) \in SUBSET Nat /\ FreeFds(p) \in SUBSET Fds
        BY FsAssumption DEF FreeFds, Fds
      <4> QED BY <3>1, <4>1, MinIs, Zenon
    <3> DEFINE off == StartOffset(v, flags)
    <3>5. off \in Nat /\ (v.type = "file" => off <= v.size)
      BY <3>3, StartsInFile, Zenon
    <3> HIDE DEF off, fd, v
    <3>6. e \in FdSet /\ e.node = n /\ e.offset = off
      BY <3>3, <3>5, FsAssumption, Zenon DEF FdEntry, FdSet, AccessModes, off
    <3> HIDE DEF n
    <3>7. FdOK(e, fs')
      BY <1>2, <3>2, <3>5, <3>6, Zenon DEF FdOK, v
    <3> DEFINE fds == [proc[p].fds EXCEPT ![fd] = e]
               q == [proc[p] EXCEPT !.fds = fds]
    <3>8. fds \in [Fds -> FdSet] /\ \A g \in Fds : fds[g] = IF g = fd THEN e ELSE proc[p].fds[g]
      <4>1. proc[p].fds \in [Fds -> FdSet]
        BY <1>1, Zenon DEF ProcSet
      <4> HIDE DEF e
      <4> QED BY <3>4, <3>6, <4>1, Zenon
    <3>9. proc' = [proc EXCEPT ![p] = q]
      BY <1>1, <2>2, Zenon DEF ProcSet
    <3> HIDE DEF fds, e
    <3>10. q \in ProcSet /\ q.fds = fds
      BY <1>1, <3>8, Zenon DEF ProcSet
    <3> HIDE DEF q
    <3>11. proc' \in [Procs -> ProcSet] /\ proc'[p] = q /\ \A r \in Procs : r # p => proc'[r] = proc[r]
      <4> HIDE DEF ProcSet
      <4> QED BY <1>1, <3>9, <3>10, Zenon
    <3>12. \A g \in Fds : FdOK(q.fds[g], fs')
      BY <1>6, <3>7, <3>8, <3>10, Zenon
    <3>13. FdsOK(proc', fs')
      BY <1>6, <3>11, <3>12, Zenon DEF FdsOK
    <3> QED BY <3>11, <3>13, Zenon
  <2> QED BY <1>2, <2>1, <2>2, Zenon
<1>8. TypeOK'
  BY <1>2, <1>5, <1>7, Zenon DEF IInv, TypeOK, TreeOK
<1> QED BY <1>5, <1>7, <1>8, Zenon DEF IInv

-----------------------------------------------------------------------------
(* Writing *)

(* Byte i of the c pages from page f on is in memory. *)
LEMMA Address ==
  ASSUME NEW f \in Nat, NEW c \in Nat, f + c <= NFRAMES, NEW i \in Nat, i < c * PAGE_SIZE
  PROVE  f * PAGE_SIZE + i \in 0 .. NFRAMES * PAGE_SIZE - 1
<1>1. PAGE_SIZE \in Nat /\ NFRAMES \in Nat
  BY FsAssumption, Zenon
<1>2. f * PAGE_SIZE \in Nat /\ c * PAGE_SIZE \in Nat /\ NFRAMES * PAGE_SIZE \in Nat
  BY <1>1
<1>3. (f + c) * PAGE_SIZE = f * PAGE_SIZE + c * PAGE_SIZE
  BY <1>1
<1>4. (f + c) * PAGE_SIZE <= NFRAMES * PAGE_SIZE
  BY <1>1
<1> QED BY <1>2, <1>3, <1>4

(* Storing bytes gives a memory again. *)
LEMMA StoredType ==
  ASSUME NEW m \in Memories, NEW f, NEW off, NEW count, NEW x \in Nat
  PROVE  Stored(m, f, off, count, x) \in Memories
BY Zenon DEF Stored, Memories

(* The memory m2 has the first size bytes of page f also at page g. *)
MovesTo(m2, m, f, g, size) ==
    \A a \in 0 .. NFRAMES * PAGE_SIZE - 1 :
        m2[a] = IF a - g * PAGE_SIZE \in 0 .. size - 1
                THEN m[f * PAGE_SIZE + (a - g * PAGE_SIZE)] ELSE m[a]

(* Moving a file gives a memory, too. *)
LEMMA MovedType ==
  ASSUME NEW m \in Memories, NEW f \in Nat, NEW g \in Nat, NEW c \in Nat, NEW size \in Nat,
         f + c <= NFRAMES, size <= c * PAGE_SIZE
  PROVE  Moved(m, f, g, size) \in Memories /\ MovesTo(Moved(m, f, g, size), m, f, g, size)
<1>1. PAGE_SIZE \in Nat /\ NFRAMES \in Nat
  BY FsAssumption, Zenon
<1> DEFINE A == 0 .. NFRAMES * PAGE_SIZE - 1
<1>2. m \in [A -> Nat]
  BY Zenon DEF Memories
<1>3. ASSUME NEW a \in A, a - g * PAGE_SIZE \in 0 .. size - 1
      PROVE  /\ a + (f - g) * PAGE_SIZE = f * PAGE_SIZE + (a - g * PAGE_SIZE)
             /\ f * PAGE_SIZE + (a - g * PAGE_SIZE) \in A
  <2>1. a \in Int /\ f * PAGE_SIZE \in Int /\ g * PAGE_SIZE \in Int /\ c * PAGE_SIZE \in Nat
    BY <1>1
  <2>2. (f - g) * PAGE_SIZE = f * PAGE_SIZE - g * PAGE_SIZE
    BY <1>1
  <2> DEFINE i == a - g * PAGE_SIZE
  <2>3. i \in Nat /\ i < size
    BY <1>3
  <2> HIDE DEF i
  <2>4. i < c * PAGE_SIZE
    BY <2>1, <2>3
  <2>5. f * PAGE_SIZE + i \in A
    BY <2>3, <2>4, Address, Zenon
  <2> QED BY <2>1, <2>2, <2>5 DEF i
<1>4. Moved(m, f, g, size) = [a \in A |-> IF a - g * PAGE_SIZE \in 0 .. size - 1
                                         THEN m[a + (f - g) * PAGE_SIZE] ELSE m[a]]
  BY <1>2, Zenon DEF Moved
<1> HIDE DEF A
<1>5. \A a \in A : Moved(m, f, g, size)[a] = IF a - g * PAGE_SIZE \in 0 .. size - 1
                                             THEN m[f * PAGE_SIZE + (a - g * PAGE_SIZE)] ELSE m[a]
  BY <1>3, <1>4, Zenon
<1>6. ASSUME NEW a \in A
      PROVE  Moved(m, f, g, size)[a] \in Nat
  BY <1>2, <1>3, <1>5, Zenon
<1>7. Moved(m, f, g, size) \in [A -> Nat]
  BY <1>4, <1>6, Zenon
<1> QED BY <1>5, <1>7, Zenon DEF A, Memories, MovesTo

(* What every write keeps, and what it does to the size. *)
WroteSize(w, v, off) ==
    /\ w.n \in Nat /\ w.v \in VnodeSet /\ FileOK(w.v)
    /\ w.v.type = v.type /\ w.v.name = v.name /\ w.v.parent = v.parent
    /\ w.v.linked = v.linked
    /\ w.v.size = IF v.size >= off + w.n THEN v.size ELSE off + w.n

(* A write into the pages the file has. *)
WroteInPlace(w, v, off, x) ==
    /\ w.v.data = v.data /\ w.v.capacity = v.capacity /\ w.used = fs.used
    /\ w.mem = Stored(mem, v.data, off, w.n, x)
    /\ off + w.n <= v.capacity * PAGE_SIZE

(* A write that moves the file to new pages first. *)
WroteMoved(w, v, off, x) ==
    /\ w.v.data # 0 /\ Run(w.v.data, w.v.capacity) \subseteq Frames \ fs.used
    /\ w.used = (fs.used \cup Run(w.v.data, w.v.capacity)) \ Backing(v)
    /\ w.mem = Stored(Moved(mem, v.data, w.v.data, v.size), w.v.data, off, w.n, x)
    /\ off + w.n <= w.v.capacity * PAGE_SIZE /\ v.size <= w.v.capacity * PAGE_SIZE

(* Setting the size. *)
Grows(w, v, off, k) ==
    /\ w \in VnodeSet
    /\ w.size = IF v.size >= off + k THEN v.size ELSE off + k
    /\ w.type = v.type /\ w.name = v.name /\ w.parent = v.parent /\ w.linked = v.linked
    /\ w.data = v.data /\ w.capacity = v.capacity

(* The size a write leaves is the larger of the old one and its end. *)
LEMMA GrownOK ==
  ASSUME NEW v \in VnodeSet, NEW off \in Nat, NEW k \in Nat
  PROVE  Grows(Grown(v, off, k), v, off, k)
<1> DEFINE top == Max({v.size, off + k})
<1>1. v.size \in Nat
  BY Zenon DEF VnodeSet
<1>2. top = IF v.size >= off + k THEN v.size ELSE off + k
  <2> DEFINE b == off + k
  <2>1. b \in Nat
    OBVIOUS
  <2> HIDE DEF b
  <2>2. Max({v.size, b}) = IF v.size >= b THEN v.size ELSE b
    BY <1>1, <2>1, MinMaxOfTwo, Zenon
  <2> QED BY <2>2, Zenon DEF b
<1>3. top \in Nat
  BY <1>1, <1>2
<1>4. Grown(v, off, k) = [v EXCEPT !.size = top]
  BY Zenon DEF Grown, VnodeSet
<1> HIDE DEF top
<1>5. /\ [v EXCEPT !.size = top] \in VnodeSet /\ [v EXCEPT !.size = top].size = top
      /\ [v EXCEPT !.size = top].type = v.type /\ [v EXCEPT !.size = top].name = v.name
      /\ [v EXCEPT !.size = top].parent = v.parent /\ [v EXCEPT !.size = top].linked = v.linked
      /\ [v EXCEPT !.size = top].data = v.data /\ [v EXCEPT !.size = top].capacity = v.capacity
  BY <1>3, Zenon DEF VnodeSet
<1> QED BY <1>2, <1>4, <1>5, Zenon DEF Grows

(* A write that fits. *)
LEMMA InPlaceOK ==
  ASSUME NEW v \in VnodeSet, FileOK(v), NEW off \in Nat, NEW k \in Nat,
         off + k <= v.capacity * PAGE_SIZE, NEW x
  PROVE  /\ WroteSize(InPlace(v, k, off, x), v, off)
         /\ WroteInPlace(InPlace(v, k, off, x), v, off, x)
<1> DEFINE w == InPlace(v, k, off, x)
<1>1. /\ w.n = k /\ w.v = Grown(v, off, k) /\ w.used = fs.used
      /\ w.mem = Stored(mem, v.data, off, k, x)
  BY Zenon DEF InPlace
<1>2. Grows(w.v, v, off, w.n)
  BY <1>1, GrownOK, Zenon
<1> HIDE DEF w
<1>3. FileOK(w.v)
  <2>1. /\ w.v.size = v.size \/ w.v.size = off + k
        /\ w.v.data = v.data /\ w.v.capacity = v.capacity
    BY <1>1, <1>2, Zenon DEF Grows
  <2> QED BY <2>1, Zenon DEF FileOK
<1>4. WroteSize(w, v, off)
  BY <1>1, <1>2, <1>3, Zenon DEF WroteSize, Grows
<1>5. WroteInPlace(w, v, off, x)
  BY <1>1, <1>2, Zenon DEF WroteInPlace, Grows
<1> QED BY <1>4, <1>5, Zenon DEF w

(* A file's record with another run of pages. *)
Sits(w, u, g, pages) ==
    /\ w \in VnodeSet /\ w.size = u.size /\ w.type = u.type /\ w.name = u.name
    /\ w.parent = u.parent /\ w.linked = u.linked /\ w.data = g /\ w.capacity = pages
LEMMA Resited ==
  ASSUME NEW u \in VnodeSet, NEW g \in Nat, NEW pages \in Nat
  PROVE  Sits([u EXCEPT !.data = g, !.capacity = pages], u, g, pages)
<1> USE DEF VnodeSet
<1>1. [u EXCEPT !.data = g, !.capacity = pages] \in VnodeSet
  BY Zenon
<1>2. /\ [u EXCEPT !.data = g, !.capacity = pages].data = g
      /\ [u EXCEPT !.data = g, !.capacity = pages].capacity = pages
      /\ [u EXCEPT !.data = g, !.capacity = pages].size = u.size
      /\ [u EXCEPT !.data = g, !.capacity = pages].type = u.type
      /\ [u EXCEPT !.data = g, !.capacity = pages].name = u.name
      /\ [u EXCEPT !.data = g, !.capacity = pages].parent = u.parent
      /\ [u EXCEPT !.data = g, !.capacity = pages].linked = u.linked
  BY Zenon
<1> QED BY <1>1, <1>2, Zenon DEF Sits

(* A write for which the file moves. *)
LEMMA InNewPagesOK ==
  ASSUME NEW v \in VnodeSet, v.type = "file", FileOK(v), NEW off \in Nat, NEW count \in Nat,
         NEW x, NEW g \in Nat, NEW pages \in Nat, g # 0, pages >= 1,
         Run(g, pages) \subseteq Frames \ fs.used, off + count <= pages * PAGE_SIZE,
         v.size <= off + count
  PROVE  /\ WroteSize(InNewPages(v, count, off, x, g, pages), v, off)
         /\ WroteMoved(InNewPages(v, count, off, x, g, pages), v, off, x)
<1> DEFINE w == InNewPages(v, count, off, x, g, pages)
           u == Grown(v, off, count)
<1>1. /\ w.n = count /\ w.v = [u EXCEPT !.data = g, !.capacity = pages]
      /\ w.used = (fs.used \cup Run(g, pages)) \ Backing(v)
      /\ w.mem = Stored(Moved(mem, v.data, g, v.size), g, off, count, x)
  BY Zenon DEF InNewPages, Freed
<1>2. Grows(u, v, off, count)
  BY GrownOK, Zenon
<1> HIDE DEF w, u
<1>3. /\ w.v \in VnodeSet /\ w.v.size = u.size /\ w.v.type = u.type /\ w.v.name = u.name
      /\ w.v.parent = u.parent /\ w.v.linked = u.linked /\ w.v.data = g /\ w.v.capacity = pages
  <2>1. u \in VnodeSet
    BY <1>2, Zenon DEF Grows
  <2>2. Sits([u EXCEPT !.data = g, !.capacity = pages], u, g, pages)
    BY <2>1, Resited, Zenon
  <2>3. Sits(w.v, u, g, pages)
    BY <1>1, <2>2, Zenon
  <2> QED BY <2>3, Zenon DEF Sits
<1>4. v.size \in Nat /\ NFRAMES \in Nat /\ PAGE_SIZE \in Nat
  BY FsAssumption, Zenon DEF VnodeSet
<1>5. u.size = IF v.size >= off + count THEN v.size ELSE off + count
  BY <1>2, Zenon DEF Grows
<1>6. u.size <= pages * PAGE_SIZE /\ v.size <= pages * PAGE_SIZE
  <2>1. pages * PAGE_SIZE \in Nat
    BY <1>4
  <2> QED BY <1>4, <1>5, <2>1
<1>7. g + pages <= NFRAMES
  <2>1. g + pages - 1 \in Run(g, pages)
    BY DEF Run
  <2>2. g + pages - 1 \in Frames
    BY <2>1, Zenon
  <2> QED BY <1>4, <2>2 DEF Frames
<1>8. FileOK(w.v)
  BY <1>3, <1>6, <1>7, Zenon DEF FileOK
<1>9. WroteSize(w, v, off)
  BY <1>1, <1>2, <1>3, <1>5, <1>8, Zenon DEF WroteSize, Grows
<1>10. WroteMoved(w, v, off, x)
  BY <1>1, <1>3, <1>6, Zenon DEF WroteMoved
<1> QED BY <1>9, <1>10, Zenon DEF w

(* One or the other. *)
Wrote(w, v, off, x) ==
    /\ WroteSize(w, v, off)
    /\ WroteInPlace(w, v, off, x) \/ WroteMoved(w, v, off, x)

(* tmpfs_file_write at an offset within the file. *)
LEMMA WriteOK ==
  ASSUME NEW v \in VnodeSet, v.type = "file", FileOK(v), NEW off \in Nat, off <= v.size,
         NEW count \in Nat, NEW x, fs.used \in SUBSET Frames
  PROVE  Wrote(tmpfs_file_write(v, count, off, x), v, off, x)
<1> DEFINE w == tmpfs_file_write(v, count, off, x)
           room == v.capacity * PAGE_SIZE
           pages == Doubled(v.capacity, off + count)
           g == pmm_alloc_pages(fs.used, pages)
<1> SUFFICES Wrote(w, v, off, x)
  BY Zenon
<1>1. v.capacity \in Nat /\ v.capacity >= 1 /\ v.size \in Nat /\ PAGE_SIZE \in Nat
      /\ v.size <= v.capacity * PAGE_SIZE
  BY FsAssumption, Zenon DEF FileOK, VnodeSet
<1>2. room \in Nat /\ off <= room /\ v.size <= room
  BY <1>1
<1>3. off + count \in Nat
  OBVIOUS
<1>4. pages \in Nat /\ pages >= 1 /\ pages * PAGE_SIZE >= off + count
  BY <1>1, <1>3, DoubledEnough, Zenon
<1>5. w = WriteInto(v, count, off, x, room, pages)
  BY Zenon DEF tmpfs_file_write
<1> HIDE DEF w, pages
<1>6. g \in Frames /\ (g = 0 \/ Run(g, pages) \subseteq Frames \ fs.used)
  BY <1>4, AllocRun, Zenon
<1>7. g \in Nat
  BY <1>6, FsAssumption DEF Frames
<1> HIDE DEF room, g
<1>8. CASE off + count <= room
  <2>1. w = InPlace(v, count, off, x)
    BY <1>5, <1>8, Zenon DEF WriteInto
  <2>2. off + count <= v.capacity * PAGE_SIZE
    BY <1>8, Zenon DEF room
  <2> QED BY <2>1, <2>2, InPlaceOK, Zenon DEF Wrote
<1>9. CASE ~(off + count <= room) /\ g # 0
  <2>1. w = InNewPages(v, count, off, x, g, pages)
    BY <1>5, <1>9, Zenon DEF WriteInto, Relocated, g
  <2>2. v.size <= off + count /\ off + count <= pages * PAGE_SIZE
    <3>1. pages * PAGE_SIZE \in Nat
      BY <1>1, <1>4
    <3> QED BY <1>1, <1>2, <1>3, <1>4, <1>9, <3>1
  <2> QED BY <1>4, <1>6, <1>7, <1>9, <2>1, <2>2, InNewPagesOK, Zenon DEF Wrote
<1>10. CASE ~(off + count <= room) /\ g = 0
  <2> DEFINE k == Min({count, room - off})
  <2>1. ~(off > room) /\ room - off \in Nat
    BY <1>2
  <2>2. w = InPlace(v, k, off, x)
    BY <1>5, <1>10, <2>1, Zenon DEF WriteInto, Relocated, g
  <2>3. k \in Nat /\ k <= room - off
    <3> DEFINE b == room - off
    <3> HIDE DEF b
    <3>1. b \in Nat
      BY <2>1, Zenon DEF b
    <3>2. Min({count, b}) \in Nat /\ Min({count, b}) <= b
      BY <3>1, MinMaxOfTwo, Zenon
    <3> QED BY <3>2, Zenon DEF b
  <2> HIDE DEF k
  <2>4. off + k <= v.capacity * PAGE_SIZE
    BY <1>2, <2>1, <2>3 DEF room
  <2> QED BY <2>2, <2>3, <2>4, InPlaceOK, Zenon DEF Wrote
<1> QED BY <1>8, <1>9, <1>10, Zenon

(* Memory and pages after a write. *)
LEMMA WroteType ==
  ASSUME TypeOK, NEW v \in VnodeSet, v.type = "file", FileOK(v), NEW off \in Nat,
         NEW x \in Nat, NEW w, Wrote(w, v, off, x)
  PROVE  w.mem \in Memories /\ w.used \in SUBSET Frames
<1>1. mem \in Memories /\ fs.used \in SUBSET Frames
  BY Zenon DEF TypeOK, FsSet
<1>2. CASE WroteInPlace(w, v, off, x)
  <2>1. w.used = fs.used /\ w.mem = Stored(mem, v.data, off, w.n, x)
    BY <1>2, Zenon DEF WroteInPlace
  <2> QED BY <1>1, <2>1, StoredType, Zenon
<1>3. CASE WroteMoved(w, v, off, x)
  <2>1. /\ Run(w.v.data, w.v.capacity) \subseteq Frames \ fs.used
        /\ w.used = (fs.used \cup Run(w.v.data, w.v.capacity)) \ Backing(v)
        /\ w.mem = Stored(Moved(mem, v.data, w.v.data, v.size), w.v.data, off, w.n, x)
    BY <1>3, Zenon DEF WroteMoved
  <2>2. w.used \in SUBSET Frames
    BY <1>1, <2>1, Zenon
  <2>3. w.v \in VnodeSet
    BY Zenon DEF Wrote, WroteSize
  <2>4. /\ v.data \in Nat /\ w.v.data \in Nat /\ v.capacity \in Nat /\ v.size \in Nat
        /\ v.data + v.capacity <= NFRAMES /\ v.size <= v.capacity * PAGE_SIZE
    BY <2>3, Zenon DEF FileOK, VnodeSet
  <2>5. Moved(mem, v.data, w.v.data, v.size) \in Memories
    BY <1>1, <2>4, MovedType, Zenon
  <2> QED BY <2>1, <2>2, <2>5, StoredType
<1> QED BY <1>2, <1>3, Zenon DEF Wrote

(* A file's node replaced by one that is as good. *)
LEMMA Rewritten ==
  ASSUME NEW s, NEW t, TreeOK(s), NEW m \in Nodes, s.node[m].type = "file", NEW w, NEW off, NEW used,
         WroteSize(w, s.node[m], off),
         HasFields(t, [s.node EXCEPT ![m] = w.v], s.count, used), off \in Nat
  PROVE  /\ TreeOK(t) /\ Later(s, t) /\ OnlyFile(s, t, m)
<1>1. s \in FsSet /\ s.node \in [Vnodes -> VnodeSet]
  BY Zenon DEF TreeOK, FsSet
<1>2. Nodes \subseteq Vnodes /\ DOMAIN Devices \subseteq Vnodes
  BY Zenon DEF Vnodes
<1>3. t \in FsSet /\ t.count = s.count /\ t.node = [s.node EXCEPT ![m] = w.v]
  BY Zenon DEF HasFields
<1>4. t.node[m] = w.v /\ \A u \in Vnodes : u # m => t.node[u] = s.node[u]
  BY <1>1, <1>2, <1>3, Zenon
<1>5. /\ w.v.type = s.node[m].type /\ w.v.name = s.node[m].name
      /\ w.v.parent = s.node[m].parent /\ w.v.linked = s.node[m].linked /\ FileOK(w.v)
  BY Zenon DEF WroteSize
<1>6. \A u \in Vnodes :
         /\ t.node[u].type = s.node[u].type /\ t.node[u].name = s.node[u].name
         /\ t.node[u].parent = s.node[u].parent /\ t.node[u].linked = s.node[u].linked
  BY <1>4, <1>5, Zenon
<1>7. w.v.size >= s.node[m].size
  <2>1. w.v.size \in Nat /\ s.node[m].size \in Nat
    BY <1>1, <1>2, Zenon DEF WroteSize, VnodeSet
  <2>2. w.v.size = s.node[m].size \/ ~(s.node[m].size >= w.v.size)
    BY Zenon DEF WroteSize
  <2> QED BY <2>1, <2>2, NotLess, Zenon
<1>8. TreeOK(t)
  <2>1. t.count \in 1 .. MAX_NODES
    BY <1>3, Zenon DEF TreeOK
  <2>2. \A u \in Vnodes : t.node[u].parent < t.count
    BY <1>3, <1>6, Zenon DEF TreeOK
  <2>3. \A n \in Nodes : n # ROOT => t.node[n].parent < n
    <3>1. \A n \in Nodes : n # ROOT => s.node[n].parent < n
      BY Zenon DEF TreeOK
    <3> QED BY <1>2, <1>6, <3>1, Zenon
  <2>4. \A n \in Nodes : n # ROOT /\ n < t.count => t.node[n].name \in Names
    BY <1>2, <1>3, <1>6, Zenon DEF TreeOK
  <2>5. \A n \in Nodes : n >= t.count => t.node[n].type = "none" /\ ~t.node[n].linked
    <3>1. \A n \in Nodes : n >= s.count => s.node[n].type = "none" /\ ~s.node[n].linked
      BY Zenon DEF TreeOK
    <3> QED BY <1>2, <1>3, <1>6, <3>1, Zenon
  <2>6. \A u \in DOMAIN Devices : t.node[u].type = "dev"
    BY <1>2, <1>6, Zenon DEF TreeOK
  <2>7. \A n \in Nodes : t.node[n].type = "file" => FileOK(t.node[n])
    BY <1>2, <1>4, <1>5, Zenon DEF TreeOK
  <2> QED BY <1>3, <2>1, <2>2, <2>3, <2>4, <2>5, <2>6, <2>7, Zenon DEF TreeOK
<1>9. Later(s, t)
  <2>1. \A n \in Nodes : t.node[n].size >= s.node[n].size
    <3> SUFFICES ASSUME NEW n \in Nodes PROVE t.node[n].size >= s.node[n].size
      OBVIOUS
    <3>1. s.node[n].size \in Nat
      BY SizeOf, Zenon
    <3>2. CASE n = m
      BY <1>4, <1>7, <3>2, Zenon
    <3>3. CASE n # m
      <4>1. t.node[n].size = s.node[n].size
        BY <1>2, <1>4, <3>3, Zenon
      <4> QED BY <3>1, <4>1, NotLess, Zenon
    <3> QED BY <3>2, <3>3, Zenon
  <2>2. s.count <= t.count
    BY <1>1, <1>3 DEF FsSet
  <2> QED BY <1>2, <1>6, <2>1, <2>2, Zenon DEF Later
<1>10. OnlyFile(s, t, m)
  BY <1>2, <1>4, Zenon DEF OnlyFile, SameFile
<1> QED BY <1>8, <1>9, <1>10, Zenon

(* The ledger, when the file that was written still has a name. *)
LEMMA WroteLedger ==
  ASSUME NEW t, TreeOK(fs), Ledger(fs), NEW m \in Nodes, fs.node[m].type = "file",
         fs.node[m].linked, NEW w, NEW off, NEW x, Wrote(w, fs.node[m], off, x),
         OnlyFile(fs, t, m), t.node[m] = w.v, t.used = w.used
  PROVE  Ledger(t)
<1>1. w.v.type = fs.node[m].type /\ w.v.linked = fs.node[m].linked
  BY Zenon DEF Wrote, WroteSize
<1>2. CASE WroteInPlace(w, fs.node[m], off, x)
  <2>1. SamePages(fs, t, m) /\ t.used = fs.used
    BY <1>1, <1>2, Zenon DEF SamePages, WroteInPlace
  <2>2. \A n \in Nodes : SamePages(fs, t, n) \/ SameFile(fs, t, n)
    BY <2>1, Zenon DEF OnlyFile
  <2>3. \A n \in Nodes : t.node[n].type = fs.node[n].type /\ t.node[n].data = fs.node[n].data
    BY <2>2, Zenon DEF SamePages, SameFile
  <2> QED BY <2>1, <2>2, <2>3, LedgerSame, Zenon
<1>3. CASE WroteMoved(w, fs.node[m], off, x)
  <2>1. Backing(t.node[m]) = Run(w.v.data, w.v.capacity)
    BY <1>1, Zenon DEF Backing
  <2>2. MovedTo(fs, t, m, Run(w.v.data, w.v.capacity))
    BY <1>1, <1>3, <2>1, Zenon DEF MovedTo, WroteMoved
  <2> QED BY <2>2, LedgerMoved, Zenon
<1> QED BY <1>2, <1>3, Zenon DEF Wrote

(* The table of descriptors with one of them changed. *)
LEMMA FdTable ==
  ASSUME NEW table \in [Procs -> ProcSet], NEW s, NEW p \in Procs, NEW fd \in Fds, NEW e \in FdSet,
         FdsOK(table, s), FdOK(e, s), NEW new,
         new = [table EXCEPT ![p] = [table[p] EXCEPT !.fds = [table[p].fds EXCEPT ![fd] = e]]]
  PROVE  new \in [Procs -> ProcSet] /\ FdsOK(new, s)
<1> DEFINE fds == [table[p].fds EXCEPT ![fd] = e]
           q == [table[p] EXCEPT !.fds = fds]
<1>1. table[p] \in ProcSet /\ table[p].fds \in [Fds -> FdSet]
  BY Zenon DEF ProcSet
<1>2. fds \in [Fds -> FdSet] /\ \A g \in Fds : fds[g] = IF g = fd THEN e ELSE table[p].fds[g]
  BY <1>1, Zenon
<1> HIDE DEF fds
<1>3. q \in ProcSet /\ q.fds = fds
  BY <1>1, <1>2, Zenon DEF ProcSet
<1>4. \A g \in Fds : FdOK(q.fds[g], s)
  BY <1>2, <1>3, Zenon DEF FdsOK
<1>5. new = [table EXCEPT ![p] = q]
  BY Zenon DEF fds
<1> HIDE DEF q
<1>6. new \in [Procs -> ProcSet] /\ new[p] = q /\ \A r \in Procs : r # p => new[r] = table[r]
  <2> HIDE DEF ProcSet
  <2> QED BY <1>3, <1>5, Zenon
<1> QED BY <1>4, <1>6, Zenon DEF FdsOK

(* What a write does, in terms of the file and its descriptor. *)
WriteStep(p, fd, x, m, e, w) ==
    /\ e = proc[p].fds[fd] /\ m = e.node /\ m \in Nodes /\ fs.node[m].type = "file"
    /\ e.offset \in Nat /\ e.offset <= fs.node[m].size
    /\ Wrote(w, fs.node[m], e.offset, x)
    /\ fs' = [fs EXCEPT !.node = [fs.node EXCEPT ![m] = w.v], !.used = w.used]
    /\ mem' = w.mem
    /\ proc' = [proc EXCEPT ![p].fds[fd].offset = @ + w.n]
    /\ tainted' = (tainted \/ ~fs.node[m].linked)

(* process_write is such a step. *)
LEMMA WriteIs ==
  ASSUME IInv, NEW p \in Procs, NEW fd \in Fds, NEW count \in Counts, NEW x \in Bytes,
         process_write(p, fd, count, x)
  PROVE  /\ \E m, e, w : WriteStep(p, fd, x, m, e, w)
         /\ MayWrite(p, fs.node[proc[p].fds[fd].node]) /\ Live(p)
<1> DEFINE e == proc[p].fds[fd]
           m == e.node
           w == tmpfs_file_write(fs.node[m], count, e.offset, x)
<1>1. /\ IsFile(m) /\ Live(p) /\ MayWrite(p, fs.node[m])
      /\ fs' = [fs EXCEPT !.node[m] = w.v, !.used = w.used] /\ mem' = w.mem
      /\ proc' = [proc EXCEPT ![p].fds[fd].offset = @ + w.n]
      /\ tainted' = (tainted \/ ~fs.node[m].linked)
  BY Zenon DEF process_write
<1>2. e \in FdSet /\ TreeOK(fs) /\ FdOK(e, fs)
  BY Zenon DEF IInv, TypeOK, ProcSet, FdsOK
<1>3. m \in Nodes /\ fs.node[m].type = "file" /\ e.offset \in Nat /\ count \in Nat
  BY <1>1, <1>2, FsAssumption, Zenon DEF IsFile, FdSet
<1>4. e.offset <= fs.node[m].size
  BY <1>2, <1>3, Zenon DEF FdOK
<1>5. fs.node[m] \in VnodeSet /\ fs.used \in SUBSET Frames
  BY <1>2, <1>3, Zenon DEF TreeOK, FsSet, Vnodes
<1>6. FileOK(fs.node[m])
  BY <1>2, <1>3, Zenon DEF TreeOK
<1>7. Wrote(w, fs.node[m], e.offset, x)
  BY <1>3, <1>4, <1>5, <1>6, WriteOK, Zenon
<1> HIDE DEF w
<1>8. fs' = [fs EXCEPT !.node = [fs.node EXCEPT ![m] = w.v], !.used = w.used]
  <2>1. fs \in FsSet
    BY <1>2, Zenon DEF TreeOK
  <2> HIDE DEF m
  <2> QED BY <1>1, <2>1, Zenon DEF FsSet
<1>9. WriteStep(p, fd, x, m, e, w)
  BY <1>1, <1>3, <1>4, <1>7, <1>8, Zenon DEF WriteStep
<1> QED BY <1>1, <1>9, Zenon

(* What holds after it. *)
Written(m, e, w) ==
    /\ TreeOK(fs') /\ Later(fs, fs') /\ OnlyFile(fs, fs', m) /\ mem' \in Memories
    /\ fs'.node[m] = w.v /\ fs'.used = w.used /\ fs'.count = fs.count
    /\ \A u \in Vnodes : u # m => fs'.node[u] = fs.node[u]
    /\ m \in Known(fs) /\ w.n \in Nat /\ e \in FdSet

(* The file system after a write. *)
LEMMA WroteFs ==
  ASSUME IInv, NEW p \in Procs, NEW fd \in Fds, NEW x \in Nat, NEW m, NEW e, NEW w,
         WriteStep(p, fd, x, m, e, w)
  PROVE  Written(m, e, w)
<1>1. /\ m \in Nodes /\ fs.node[m].type = "file" /\ e.offset \in Nat /\ m = e.node
      /\ e = proc[p].fds[fd]
      /\ Wrote(w, fs.node[m], e.offset, x) /\ mem' = w.mem
      /\ fs' = [fs EXCEPT !.node = [fs.node EXCEPT ![m] = w.v], !.used = w.used]
  BY Zenon DEF WriteStep
<1>2. TypeOK /\ TreeOK(fs) /\ e \in FdSet /\ FdOK(e, fs)
  BY <1>1, Zenon DEF IInv, TypeOK, ProcSet, FdsOK
<1>3. fs \in FsSet /\ fs.node \in [Vnodes -> VnodeSet] /\ fs.count \in Nat /\ m \in Vnodes
  BY <1>1, <1>2, Zenon DEF TreeOK, FsSet, Vnodes
<1>4. fs.node[m] \in VnodeSet
  BY <1>3, Zenon
<1>5. FileOK(fs.node[m]) /\ WroteSize(w, fs.node[m], e.offset) /\ w.v \in VnodeSet /\ w.n \in Nat
  BY <1>1, <1>2, Zenon DEF TreeOK, Wrote, WroteSize
<1>6. w.mem \in Memories /\ w.used \in SUBSET Frames
  BY <1>1, <1>2, <1>4, <1>5, WroteType, Zenon
<1> DEFINE node == [fs.node EXCEPT ![m] = w.v]
<1>7. /\ node \in [Vnodes -> VnodeSet] /\ node[m] = w.v
      /\ \A u \in Vnodes : u # m => node[u] = fs.node[u]
  BY <1>3, <1>5, Zenon
<1> HIDE DEF node
<1>8. HasFields(fs', node, fs.count, w.used)
  BY <1>1, <1>3, <1>6, <1>7, SetFields, Zenon DEF node
<1>9. TreeOK(fs') /\ Later(fs, fs') /\ OnlyFile(fs, fs', m)
  BY <1>1, <1>2, <1>5, <1>8, Rewritten, Zenon DEF node
<1>10. m \in Known(fs)
  BY <1>1, <1>2, Constants, Zenon DEF FdOK, Place, Vnodes
<1> QED BY <1>1, <1>2, <1>5, <1>6, <1>7, <1>8, <1>9, <1>10, Zenon DEF HasFields, Written

(* write: the file, memory, the pages and the descriptor. *)
LEMMA WriteKeeps ==
  ASSUME IInv, NEW p \in Procs, NEW fd \in Fds, NEW count \in Counts, NEW x \in Bytes,
         process_write(p, fd, count, x)
  PROVE  IInv'
<1>1. x \in Nat
  BY FsAssumption, Zenon
<1>2. PICK m, e, w : WriteStep(p, fd, x, m, e, w)
  BY WriteIs, Zenon
<1>3. /\ TreeOK(fs') /\ Later(fs, fs') /\ OnlyFile(fs, fs', m) /\ mem' \in Memories
      /\ fs'.node[m] = w.v /\ fs'.used = w.used /\ w.n \in Nat /\ e \in FdSet /\ m \in Known(fs)
  <2>1. Written(m, e, w)
    BY <1>1, <1>2, WroteFs, Zenon
  <2> QED BY <2>1, Zenon DEF Written
<1>4. /\ e = proc[p].fds[fd] /\ m = e.node /\ m \in Nodes /\ fs.node[m].type = "file"
      /\ Wrote(w, fs.node[m], e.offset, x)
      /\ proc' = [proc EXCEPT ![p].fds[fd].offset = @ + w.n]
      /\ tainted' = (tainted \/ ~fs.node[m].linked)
  BY <1>2, Zenon DEF WriteStep
<1>5. /\ TreeOK(fs) /\ proc \in [Procs -> ProcSet] /\ proc[p] \in ProcSet /\ tainted \in BOOLEAN
  BY Zenon DEF IInv, TypeOK
<1> DEFINE e2 == [e EXCEPT !.offset = e.offset + w.n]
<1>6. e2 \in FdSet /\ e2.node = m /\ e2.offset = e.offset + w.n /\ e.offset \in Nat
  <2>1. e \in FdSet /\ w.n \in Nat /\ e.node = m
    BY <1>3, <1>4, Zenon
  <2>2. e.offset \in Nat
    BY <2>1, Zenon DEF FdSet
  <2> QED BY <2>1, <2>2 DEF FdSet
<1>7. SetsFd(p, fd, e2)
  BY <1>4, <1>5, Zenon DEF SetsFd, ProcSet, FdSet
<1> HIDE DEF e2
<1>8. FdOK(e2, fs')
  <2>1. m \in Place(fs')
    <3>1. e \in FdSet /\ FdOK(e, fs)
      BY <1>3, <1>4, Zenon DEF IInv, FdsOK
    <3> QED BY <1>3, <1>4, <1>5, <3>1, FdLater, Zenon DEF FdOK
  <2>2. e2.offset <= fs'.node[m].size
    <3>1. fs.node[m].size \in Nat
      BY <1>4, <1>5, Zenon DEF TreeOK, FsSet, VnodeSet, Vnodes
    <3>2. w.v.size = IF fs.node[m].size >= e.offset + w.n THEN fs.node[m].size ELSE e.offset + w.n
      BY <1>4, Zenon DEF Wrote, WroteSize
    <3> QED BY <1>3, <1>6, <3>1, <3>2
  <2> QED BY <1>6, <2>1, <2>2, Zenon DEF FdOK
<1>9. FdsOK(proc, fs')
  <2> SUFFICES ASSUME NEW q \in Procs, NEW g \in Fds
               PROVE  FdOK(proc[q].fds[g], fs')
    BY Zenon DEF FdsOK
  <2>1. proc[q].fds[g] \in FdSet
    BY <1>5 DEF ProcSet
  <2>2. FdOK(proc[q].fds[g], fs)
    BY Zenon DEF IInv, FdsOK
  <2> QED BY <1>3, <1>5, <2>1, <2>2, FdLater, Zenon
<1>10. proc' \in [Procs -> ProcSet] /\ FdsOK(proc', fs')
  BY <1>5, <1>6, <1>7, <1>8, <1>9, FdTable, Zenon DEF SetsFd
<1>11. tainted' \in BOOLEAN /\ (~tainted' => ~tainted /\ fs.node[m].linked)
  BY <1>4, <1>5, Zenon
<1>12. ~tainted' => Ledger(fs')
  BY <1>3, <1>4, <1>5, <1>11, WroteLedger, Zenon DEF IInv
<1>13. TypeOK'
  BY <1>3, <1>10, <1>11, Zenon DEF TypeOK, TreeOK
<1> QED BY <1>3, <1>10, <1>12, <1>13, Zenon DEF IInv

(* Boot establishes the invariant. *)
LEMMA InitIInv ==
  ASSUME Init
  PROVE  IInv
<1>1. TreeOK(fs) /\ Ledger(fs) /\ DOMAIN Devices \subseteq Known(fs)
  BY BootFs, Zenon
<1>2. mem = [a \in 0 .. NFRAMES * PAGE_SIZE - 1 |-> 0] /\ tainted = FALSE
  BY Zenon DEF Init
<1>3. PICK p \in Procs : proc = [q \in Procs |-> IF q = p THEN process_init ELSE NoProcess]
  BY Zenon DEF Init
<1> DEFINE con == FdEntry(Max(DOMAIN Devices), 0, "O_RDWR")
           fds == [fd \in Fds |-> IF fd < FIRST_FD THEN con ELSE Closed]
<1>4. NoProcess \in ProcSet /\ Closed \in FdSet
      /\ \A s : FdOK(Closed, s) /\ \A fd \in Fds : FdOK(NoProcess.fds[fd], s)
  BY ClosedOK, Zenon
<1>5. Max(DOMAIN Devices) \in DOMAIN Devices
  BY Constants, Zenon
<1>6. con \in FdSet /\ con.node = Max(DOMAIN Devices) /\ con.node \notin Nodes
  <2>1. Max(DOMAIN Devices) \in Vnodes
    BY <1>5, Zenon DEF Vnodes
  <2>2. con \in FdSet /\ con.node = Max(DOMAIN Devices)
    BY <2>1, Zenon DEF FdEntry, FdSet, AccessModes
  <2>3. Max(DOMAIN Devices) \in Int /\ Max(DOMAIN Devices) < NoNode
    BY <1>5, Constants, Zenon
  <2>4. Max(DOMAIN Devices) \notin Nodes
    BY <2>3 DEF NoNode, Nodes
  <2> QED BY <2>2, <2>4, Zenon
<1> HIDE DEF con
<1>7. FdOK(con, fs)
  BY <1>1, <1>5, <1>6, Zenon DEF FdOK, Place
<1>8. fds \in [Fds -> FdSet] /\ \A fd \in Fds : FdOK(fds[fd], fs)
  BY <1>4, <1>6, <1>7, Zenon
<1>9. process_init = [NoProcess EXCEPT !.state = "live", !.fds = fds]
  BY Zenon DEF process_init, con
<1> HIDE DEF fds
<1>10. process_init \in ProcSet /\ process_init.fds = fds
  BY <1>4, <1>8, <1>9, Zenon DEF ProcSet
<1>11. proc \in [Procs -> ProcSet]
  <2> HIDE DEF ProcSet
  <2> QED BY <1>3, <1>4, <1>10, Zenon
<1>12. FdsOK(proc, fs)
  BY <1>3, <1>4, <1>8, <1>10, Zenon DEF FdsOK
<1>13. mem \in Memories
  BY <1>2, Zenon DEF Memories
<1>14. TypeOK
  BY <1>1, <1>2, <1>11, <1>13, Zenon DEF TypeOK, TreeOK
<1> QED BY <1>1, <1>12, <1>14, Zenon DEF IInv

(* Every step keeps it. *)
LEMMA NextIInv ==
  ASSUME IInv, [Next]_vars
  PROVE  IInv'
<1>1. CASE UNCHANGED vars
  BY <1>1, Zenon DEF vars, IInv, TypeOK
<1>2. ASSUME NEW p \in Procs, fd_calls(p) PROVE IInv'
  BY <1>2, ReadKeeps, WriteKeeps, CloseKeeps, Dup2Keeps, Zenon DEF fd_calls
<1>3. ASSUME NEW p \in Procs, path_calls(p) PROVE IInv'
  BY <1>3, OpenKeeps, TreeCallsKeep, ChdirKeeps, Zenon DEF path_calls
<1>4. ASSUME NEW p \in Procs, identity_calls(p) PROVE IInv'
  BY <1>4, OwnCallsKeep, IdentityKeeps, Zenon DEF identity_calls
<1> QED BY <1>1, <1>2, <1>3, <1>4, CloneKeeps, TerminateKeeps, Zenon DEF Next

-----------------------------------------------------------------------------
(* For any number of processes, descriptors, nodes, names and pages, any   *)
(* page size and any paths given to the calls, the invariant holds.        *)
THEOREM FsInvariant == Spec => []IInv
<1>1. Init => IInv
  BY InitIInv, Zenon
<1>2. IInv /\ [Next]_vars => IInv'
  BY NextIInv, Zenon
<1> QED BY <1>1, <1>2, PTL DEF Spec

(* Nodes, pages, memory and descriptors stay in range: no call makes a     *)
(* node beyond TMPFS_MAX_NODES, hands out a page there is not, or stores   *)
(* outside memory (tmpfs.c:30-90).                                         *)
THEOREM FsTypeOK == Spec => []TypeOK
BY FsInvariant, PTL DEF IInv

(* No descriptor points beyond the end of its file, and no file beyond its *)
(* pages, whoever writes, truncates or removes it meanwhile                *)
(* (process_write, process_read, tmpfs_file_write).                        *)
THEOREM FsOffsetInFile == Spec => []OffsetInFile
<1>1. IInv => OffsetInFile
  <2> SUFFICES ASSUME IInv, NEW p \in Procs, NEW fd \in Fds, IsFile(proc[p].fds[fd].node)
               PROVE  LET e == proc[p].fds[fd]
                      IN  /\ e.offset <= fs.node[e.node].size
                          /\ fs.node[e.node].size <= fs.node[e.node].capacity * PAGE_SIZE
    BY Zenon DEF OffsetInFile
  <2> DEFINE e == proc[p].fds[fd]
  <2>1. TreeOK(fs) /\ FdOK(e, fs)
    BY Zenon DEF IInv, FdsOK
  <2>2. e.node \in Nodes /\ fs.node[e.node].type = "file"
    BY Zenon DEF IsFile
  <2>3. FileOK(fs.node[e.node])
    BY <2>1, <2>2, Zenon DEF TreeOK
  <2> QED BY <2>1, <2>2, <2>3, Zenon DEF FdOK, FileOK
<1> QED BY <1>1, FsInvariant, PTL

(* Pages and files agree (pmm_alloc_pages, pmm_free_pages as tmpfs.c calls *)
(* them): until a removed file is written or a file is made without        *)
(* memory, the pages in use are exactly those behind the files that have a *)
(* name, and no page is behind two.                                        *)
THEOREM FsPagesAccounted == Spec => []PagesAccounted
<1>1. IInv => PagesAccounted
  <2> SUFFICES ASSUME IInv, ~tainted
               PROVE  /\ fs.used \ {0} = UNION {Backing(fs.node[n]) : n \in LinkedFiles}
                      /\ \A n, m \in LinkedFiles :
                            n # m => Backing(fs.node[n]) \cap Backing(fs.node[m]) = {}
    BY Zenon DEF PagesAccounted
  <2>1. Ledger(fs) /\ TreeOK(fs)
    BY Zenon DEF IInv
  <2>2. \A n \in Nodes : \A f : Holds(fs, n, f) <=> n \in LinkedFiles /\ f \in Backing(fs.node[n])
    <3>1. \A n \in Nodes : \A f : f \in Backing(fs.node[n]) => fs.node[n].type = "file"
      BY Zenon DEF Backing
    <3> QED BY <3>1, Zenon DEF Holds, LinkedFiles
  <2>3. \A n \in LinkedFiles : n \in Nodes /\ Backing(fs.node[n]) \subseteq fs.used
    BY <2>1, Zenon DEF Ledger, LinkedFiles
  <2>4. \A n \in LinkedFiles : 0 \notin Backing(fs.node[n])
    <3>1. \A n \in LinkedFiles : n \in Nodes
      BY Zenon DEF LinkedFiles
    <3>2. fs \in FsSet
      BY <2>1, Zenon DEF TreeOK
    <3> QED BY <2>1, <3>1, <3>2, NotPageZero, Zenon DEF Ledger
  <2>5. ASSUME NEW f \in fs.used, f # 0
        PROVE  \E n \in LinkedFiles : f \in Backing(fs.node[n])
    BY <2>1, <2>2, <2>5, Zenon DEF Ledger
  <2>6. fs.used \ {0} = UNION {Backing(fs.node[n]) : n \in LinkedFiles}
    BY <2>3, <2>4, <2>5, Zenon
  <2>7. ASSUME NEW n \in LinkedFiles, NEW m \in LinkedFiles, n # m,
               NEW f \in Backing(fs.node[n]), f \in Backing(fs.node[m])
        PROVE  FALSE
    <3>1. n \in Nodes /\ m \in Nodes /\ f \in Frames
      BY <2>1, <2>3, Zenon DEF TreeOK, FsSet
    <3> QED BY <2>1, <2>2, <2>7, <3>1, Zenon DEF Ledger
  <2> QED BY <2>6, <2>7, Zenon
<1> QED BY <1>1, FsInvariant, PTL
=============================================================================
