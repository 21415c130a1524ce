------------------------------ MODULE FsRefine ------------------------------
(***************************************************************************)
(* What the calls of Fs do to the bytes of the files.                      *)
(***************************************************************************)
EXTENDS FsProofs

(* The files that have a name, and their bytes, in a file system s with    *)
(* memory m.                                                               *)
Named(s, n) == s.node[n].linked /\ s.node[n].type = "file"
Image(s, m, n) ==
    IF Named(s, n)
    THEN [i \in 1 .. s.node[n].size |-> m[s.node[n].data * PAGE_SIZE + i - 1]]
    ELSE NoBlob

(* Blob is the image now, and its prime the one after the step. *)
LEMMA BlobIs ==
  ASSUME NEW n \in Nodes
  PROVE  /\ Blob(n) = Image(fs, mem, n) /\ Blob(n)' = Image(fs', mem', n)
         /\ (n \in LinkedFiles <=> Named(fs, n)) /\ (n \in LinkedFiles' <=> Named(fs', n))
<1>1. (n \in LinkedFiles <=> Named(fs, n)) /\ (n \in LinkedFiles' <=> Named(fs', n))
  BY Zenon DEF LinkedFiles, Named
<1>2. Blob(n) = Image(fs, mem, n)
  BY <1>1, Zenon DEF Blob, Image
<1>3. Blob(n)' = Image(fs', mem', n)
  BY <1>1, Zenon DEF Blob, Image
<1> QED BY <1>1, <1>2, <1>3, Zenon

(* An interval from 1 has one upper end. *)
LEMMA SameUpper ==
  ASSUME NEW a \in Nat, NEW b \in Nat, 1 .. a = 1 .. b
  PROVE  a = b
<1>1. a >= 1 => a \in 1 .. b
  OBVIOUS
<1>2. b >= 1 => b \in 1 .. a
  OBVIOUS
<1> QED BY <1>1, <1>2

(* The bytes at the pages of a vnode. *)
BytesOf(I, m, v) ==
    /\ Len(I) = v.size /\ v.size \in Nat
    /\ \A i \in 1 .. v.size : I[i] = m[v.data * PAGE_SIZE + i - 1]

(* The bytes of a file are a sequence of its size, and not the mark for    *)
(* no file.                                                                *)
LEMMA ImageSeq ==
  ASSUME NEW s, TreeOK(s), NEW m \in Memories, NEW n \in Nodes, Named(s, n)
  PROVE  Image(s, m, n) # NoBlob /\ BytesOf(Image(s, m, n), m, s.node[n])
<1> DEFINE v == s.node[n]
           d == v.data
           size == v.size
           im == [i \in 1 .. size |-> m[d * PAGE_SIZE + i - 1]]
<1>1. Image(s, m, n) = im
  BY Zenon DEF Image
<1>2. d \in Nat /\ size \in Nat /\ v.capacity \in Nat /\ PAGE_SIZE \in Nat
  BY FsAssumption, Zenon DEF TreeOK, FsSet, VnodeSet, Vnodes
<1>3. FileOK(v)
  BY Zenon DEF TreeOK, Named
<1>4. d + v.capacity <= NFRAMES /\ size <= v.capacity * PAGE_SIZE
  BY <1>3, Zenon DEF FileOK
<1> HIDE DEF v, d, size
<1>5. ASSUME NEW i \in 1 .. size
      PROVE  m[d * PAGE_SIZE + i - 1] \in Nat
  <2>1. v.capacity * PAGE_SIZE \in Nat /\ d * PAGE_SIZE \in Nat
    BY <1>2
  <2>2. i - 1 \in Nat /\ i - 1 < v.capacity * PAGE_SIZE
    BY <1>2, <1>4, <2>1
  <2>3. d * PAGE_SIZE + (i - 1) \in 0 .. NFRAMES * PAGE_SIZE - 1
    BY <1>2, <1>4, <2>2, Address, Zenon
  <2>4. d * PAGE_SIZE + (i - 1) = d * PAGE_SIZE + i - 1
    BY <1>2, <2>1, Zenon
  <2> QED BY <2>3, <2>4, Zenon DEF Memories
<1>6. im \in [1 .. size -> Nat]
  BY <1>5, Zenon
<1>7. Len(im) = size
  BY <1>2
<1>8. im # NoBlob
  <2> SUFFICES ASSUME im = NoBlob PROVE FALSE
    BY Zenon
  <2>1. NoBlob[1] = -1 /\ DOMAIN NoBlob = 1 .. 1
    BY DEF NoBlob
  <2> HIDE DEF im
  <2>2. 1 \in 1 .. size
    <3>1. DOMAIN im = 1 .. size
      BY <1>6, Zenon
    <3> QED BY <2>1, <3>1
  <2>3. im[1] \in Nat
    BY <1>6, <2>2, Zenon
  <2> QED BY <2>1, <2>3
<1>9. BytesOf(im, m, v)
  BY <1>2, <1>7, Zenon DEF BytesOf, size, d
<1> QED BY <1>1, <1>8, <1>9, Zenon DEF v

(* Addresses in runs of pages that do not meet are different. *)
LEMMA Apart ==
  ASSUME NEW d \in Nat, NEW c \in Nat, NEW e \in Nat, NEW k \in Nat, c >= 1, k >= 1,
         Run(d, c) \cap Run(e, k) = {}, NEW i \in Nat, NEW j \in Nat,
         i < c * PAGE_SIZE, j < k * PAGE_SIZE
  PROVE  d * PAGE_SIZE + i # e * PAGE_SIZE + j
<1> DEFINE P == PAGE_SIZE
<1>0. P \in Nat
  BY FsAssumption, Zenon
<1> HIDE DEF P
<1>1. P \in Nat /\ d * P \in Nat /\ e * P \in Nat /\ c * P \in Nat /\ k * P \in Nat
  BY <1>0
<1>2. d + c <= e \/ e + k <= d
  <2> SUFFICES ASSUME ~(d + c <= e), ~(e + k <= d) PROVE FALSE
    BY Zenon
  <2>1. CASE d <= e
    <3>1. e \in Run(d, c) /\ e \in Run(e, k)
      BY <2>1 DEF Run
    <3> QED BY <3>1, Zenon
  <2>2. CASE ~(d <= e)
    <3>1. d \in Run(d, c) /\ d \in Run(e, k)
      BY <2>2 DEF Run
    <3> QED BY <3>1, Zenon
  <2> QED BY <2>1, <2>2, Zenon
<1>3. (d + c) * P = d * P + c * P /\ (e + k) * P = e * P + k * P
  BY <1>1
<1>4. CASE d + c <= e
  <2>1. (d + c) * P <= e * P
    BY <1>1, <1>4
  <2> QED BY <1>1, <1>3, <2>1 DEF P
<1>5. CASE e + k <= d
  <2>1. (e + k) * P <= d * P
    BY <1>1, <1>5
  <2> QED BY <1>1, <1>3, <2>1 DEF P
<1> QED BY <1>2, <1>4, <1>5, Zenon

-----------------------------------------------------------------------------
(* What the calls on paths may do to the files *)

(* Nothing happens to the files but those in S. *)
Quiet(s, t, S) ==
    \A n \in Nodes \ S : (Named(s, n) <=> Named(t, n)) /\ (Named(s, n) => SameFile(s, t, n))

(* A new empty file m. *)
Fresh(s, t, m) == m \in Nodes /\ ~Named(s, m) /\ Named(t, m) /\ t.node[m].size = 0

Shape(s, t) ==
    \/ Quiet(s, t, {})
    \/ \E n \in Nodes : ~Named(t, n) /\ Quiet(s, t, {n})
    \/ \E m \in Nodes : Fresh(s, t, m) /\ Quiet(s, t, {m})
    \/ \E n, m \in Nodes : n # m /\ ~Named(t, n) /\ Fresh(s, t, m) /\ Quiet(s, t, {n, m})

(* The same files under other owners. *)
LEMMA QuietSame ==
  ASSUME NEW s, NEW t, NEW S, \A n \in Nodes \ S : SameFile(s, t, n)
  PROVE  Quiet(s, t, S)
BY Zenon DEF Quiet, Named, SameFile

(* A file made; a directory made; a name removed. *)
LEMMA FreshFile ==
  ASSUME NEW s, NEW t, TreeOK(s), NEW m, AddedFile(s, t, m)
  PROVE  Fresh(s, t, m) /\ Quiet(s, t, {m}) /\ m = s.count
<1>1. m \in Nodes /\ m = s.count /\ Named(t, m) /\ t.node[m].size = 0 /\ OnlyFile(s, t, m)
  BY Zenon DEF AddedFile, Named
<1>2. ~Named(s, m)
  <2>1. m >= s.count
    BY <1>1 DEF TreeOK, FsSet
  <2> QED BY <1>1, <2>1, Zenon DEF TreeOK, Named
<1>3. \A n \in Nodes \ {m} : SameFile(s, t, n)
  BY <1>1, Zenon DEF OnlyFile
<1> QED BY <1>1, <1>2, <1>3, QuietSame, Zenon DEF Fresh

LEMMA DirShape ==
  ASSUME NEW s, NEW t, TreeOK(s), MadeDir(s, t)
  PROVE  Quiet(s, t, {})
<1>1. CASE t = s
  BY <1>1, Zenon DEF Quiet, SameFile
<1>2. ASSUME NEW m \in Nodes, AddedDir(s, t, m) PROVE Quiet(s, t, {})
  <2>1. m = s.count /\ t.node[m].type = "dir" /\ \A n \in Nodes : n # m => SameFile(s, t, n)
    BY <1>2, Zenon DEF AddedDir, OnlyFile
  <2>2. ~Named(s, m) /\ ~Named(t, m)
    <3>1. m >= s.count
      BY <2>1 DEF TreeOK, FsSet
    <3>2. s.node[m].type = "none" /\ ~s.node[m].linked
      BY <3>1, Zenon DEF TreeOK
    <3> QED BY <2>1, <3>2, Zenon DEF Named
  <2> QED BY <2>1, <2>2, Zenon DEF Quiet, Named, SameFile
<1> QED BY <1>1, <1>2, Zenon DEF MadeDir

LEMMA GoneFile ==
  ASSUME NEW s, NEW t, NEW n, Removed(s, t, n)
  PROVE  n \in Nodes /\ ~Named(t, n) /\ Quiet(s, t, {n}) /\ s.node[n].linked /\ t.count = s.count
<1>1. n \in Nodes /\ ~Named(t, n) /\ OnlyFile(s, t, n) /\ s.node[n].linked /\ t.count = s.count
  BY Zenon DEF Removed, Named
<1>2. \A k \in Nodes \ {n} : SameFile(s, t, k)
  BY <1>1, Zenon DEF OnlyFile
<1> QED BY <1>1, <1>2, QuietSame, Zenon

(* open removes, makes, or does both. *)
LEMMA OpenShape ==
  ASSUME NEW s, NEW u, TreeOK(s), Reopened(s, u)
  PROVE  Shape(s, u)
<1>1. PICK t : TreeOK(t) /\ Unlinked(s, t) /\ Created(t, u)
  BY Zenon DEF Reopened
<1>2. CASE t = s /\ u = t
  BY <1>2, Zenon DEF Shape, Quiet, SameFile
<1>3. ASSUME NEW n \in Nodes, Removed(s, t, n), u = t PROVE Shape(s, u)
  BY <1>3, GoneFile, Zenon DEF Shape
<1>4. ASSUME t = s, NEW m \in Nodes, AddedFile(t, u, m) PROVE Shape(s, u)
  BY <1>4, FreshFile, Zenon DEF Shape
<1>5. ASSUME NEW n \in Nodes, Removed(s, t, n), NEW m \in Nodes, AddedFile(t, u, m)
      PROVE  Shape(s, u)
  <2>1. ~Named(t, n) /\ Quiet(s, t, {n}) /\ s.node[n].linked /\ t.count = s.count
    BY <1>5, GoneFile, Zenon
  <2>2. Fresh(t, u, m) /\ Quiet(t, u, {m}) /\ m = t.count
    BY <1>1, <1>5, FreshFile, Zenon
  <2>3. n # m
    <3>1. m = s.count /\ m >= s.count
      BY <2>1, <2>2 DEF TreeOK, FsSet
    <3>2. ~s.node[m].linked
      BY <3>1, Zenon DEF TreeOK
    <3> QED BY <2>1, <3>2, Zenon
  <2>4. ~Named(u, n)
    <3>1. n \in Nodes \ {m}
      BY <2>3, Zenon
    <3> QED BY <2>1, <2>2, <3>1, Zenon DEF Quiet
  <2>5. ~Named(s, m)
    <3>1. m \in Nodes \ {n}
      BY <2>3, Zenon
    <3> QED BY <2>1, <2>2, <3>1, Zenon DEF Quiet, Fresh
  <2>6. Quiet(s, u, {n, m})
    <3> SUFFICES ASSUME NEW k \in Nodes \ {n, m}
                 PROVE  (Named(s, k) <=> Named(u, k)) /\ (Named(s, k) => SameFile(s, u, k))
      BY Zenon DEF Quiet
    <3>1. k \in Nodes \ {n} /\ k \in Nodes \ {m}
      BY Zenon
    <3>2. (Named(s, k) <=> Named(t, k)) /\ (Named(s, k) => SameFile(s, t, k))
      BY <2>1, <3>1, Zenon DEF Quiet
    <3>3. (Named(t, k) <=> Named(u, k)) /\ (Named(t, k) => SameFile(t, u, k))
      BY <2>2, <3>1, Zenon DEF Quiet
    <3>4. SameFile(s, t, k) /\ SameFile(t, u, k) => SameFile(s, u, k)
      BY Zenon DEF SameFile
    <3> QED BY <3>2, <3>3, <3>4, Zenon
  <2> QED BY <2>2, <2>3, <2>4, <2>5, <2>6, Zenon DEF Shape, Fresh
<1> QED BY <1>1, <1>2, <1>3, <1>4, <1>5, Zenon DEF Unlinked, Created

(* A step of Next is a write, or changes no memory and has such a shape. *)
LEMMA StepShape ==
  ASSUME IInv, [Next]_vars
  PROVE  \/ \E p \in Procs, fd \in Fds, count \in Counts, x \in Bytes : process_write(p, fd, count, x)
         \/ mem' = mem /\ Shape(fs, fs')
<1>1. TypeOK /\ TreeOK(fs) /\ proc \in [Procs -> ProcSet]
  BY Zenon DEF IInv, TypeOK
<1>2. ASSUME fs' = fs PROVE Shape(fs, fs')
  BY <1>2, Zenon DEF Shape, Quiet, SameFile
<1>3. ASSUME NEW p \in Procs, NEW path \in Paths, NEW flags \in OpenFlags, process_open(p, path, flags)
      PROVE  mem' = mem /\ Shape(fs, fs')
  <2>1. fs' = Opened(p, path, flags).fs /\ mem' = mem
    BY <1>3, Zenon DEF process_open, Becomes
  <2>2. Reopened(fs, fs')
    BY <1>1, <2>1, OpenedOK, Zenon
  <2> QED BY <1>1, <2>1, <2>2, OpenShape, Zenon
<1>4. ASSUME NEW p \in Procs, NEW path \in Paths, process_mkdir(p, path)
      PROVE  mem' = mem /\ Shape(fs, fs')
  <2>1. fs' = mkdir(fs, p, path).fs /\ mem' = mem
    BY <1>4, Zenon DEF process_mkdir, Becomes
  <2>2. path \in Paths \cup OwnPaths
    BY Zenon
  <2>3. Into(fs, resolve_parent_dir(fs, p, path))
    BY <1>1, <2>2, ParentOK, Zenon
  <2>4. MadeDir(fs, fs')
    BY <1>1, <2>1, <2>3, MkdirOK, Zenon DEF mkdir
  <2> QED BY <1>1, <2>1, <2>4, DirShape, Zenon DEF Shape
<1>5. ASSUME NEW p \in Procs, NEW path \in Paths, process_unlink(p, path)
      PROVE  mem' = mem /\ Shape(fs, fs')
  <2>1. fs' = unlink(fs, p, path).fs /\ mem' = mem
    BY <1>5, Zenon DEF process_unlink, Becomes
  <2>2. Unlinked(fs, fs')
    BY <1>1, <2>1, UnlinkOK, Zenon DEF unlink
  <2> QED BY <1>2, <2>1, <2>2, GoneFile, Zenon DEF Unlinked, Shape
<1>6. ASSUME NEW p \in Procs, identity_calls(p)
      PROVE  mem' = mem /\ Shape(fs, fs')
  <2>1. CASE fs' = fs /\ mem' = mem
    BY <1>2, <2>1, Zenon
  <2>2. ASSUME NEW path \in OwnPaths,
               \/ \E mode \in Modes : process_chmod(p, path, mode)
               \/ \E id \in Ids : process_chown(p, path, id, id)
        PROVE  mem' = mem /\ Shape(fs, fs')
    <3>1. mem' = mem
      BY <2>2, Zenon DEF process_chmod, process_chown
    <3>2. Restyled(fs, fs')
      BY <1>1, <2>2, OwnCalls, Zenon
    <3> QED BY <3>1, <3>2, QuietSame, Zenon DEF Restyled, Shape
  <2> QED BY <1>6, <2>1, <2>2, Zenon DEF identity_calls, process_setuid, process_setgid
<1>7. ASSUME NEW p \in Procs, fd_calls(p)
      PROVE  \/ \E fd \in Fds, count \in Counts, x \in Bytes : process_write(p, fd, count, x)
             \/ fs' = fs /\ mem' = mem
  BY <1>7, Zenon DEF fd_calls, process_read, process_close, process_dup2
<1>8. ASSUME NEW p \in Procs, path_calls(p)
      PROVE  mem' = mem /\ Shape(fs, fs')
  <2>1. ASSUME NEW path \in Paths, process_chdir(p, path)
        PROVE  mem' = mem /\ Shape(fs, fs')
    BY <1>2, <2>1, Zenon DEF process_chdir
  <2> QED BY <1>3, <1>4, <1>5, <1>8, <2>1, Zenon DEF path_calls
<1>9. CASE UNCHANGED vars
  BY <1>2, <1>9, Zenon DEF vars
<1>10. ASSUME NEW p \in Procs, (\E q \in Procs : process_clone_into(p, q)) \/ process_terminate(p)
       PROVE  mem' = mem /\ Shape(fs, fs')
  BY <1>2, <1>10, Zenon DEF process_clone_into, process_terminate
<1> QED BY <1>2, <1>6, <1>7, <1>8, <1>9, <1>10, Zenon DEF Next

-----------------------------------------------------------------------------
(* The bytes *)

(* A quiet file keeps its bytes when memory is left alone. *)
LEMMA QuietImage ==
  ASSUME NEW s, NEW t, NEW m, NEW S, Quiet(s, t, S), NEW n \in Nodes \ S
  PROVE  Image(t, m, n) = Image(s, m, n)
<1>1. (Named(s, n) <=> Named(t, n)) /\ (Named(s, n) => SameFile(s, t, n))
  BY Zenon DEF Quiet
<1> QED BY <1>1, Zenon DEF Image, SameFile

(* A fresh file has none. *)
LEMMA FreshImage ==
  ASSUME NEW s, NEW t, NEW m, NEW n, Fresh(s, t, n)
  PROVE  Image(s, m, n) = NoBlob /\ Image(t, m, n) = << >>
<1>1. Image(s, m, n) = NoBlob
  BY Zenon DEF Fresh, Image
<1> DEFINE d == t.node[n].data * PAGE_SIZE
<1>2. Image(t, m, n) = [i \in 1 .. 0 |-> m[d + i - 1]]
  BY Zenon DEF Fresh, Image
<1> HIDE DEF d
<1>3. [i \in 1 .. 0 |-> m[d + i - 1]] = << >>
  OBVIOUS
<1> QED BY <1>1, <1>2, <1>3, Zenon

(* What a write does to the file m: bytes off + 1 .. off + k become x. *)
Overwrites(I, J, off, k, x) ==
    /\ off \in 0 .. Len(I) /\ k \in Nat
    /\ Len(J) = IF Len(I) >= off + k THEN Len(I) ELSE off + k
    /\ \A i \in 1 .. Len(J) :
          IF i \in off + 1 .. off + k THEN J[i] = x ELSE i <= Len(I) /\ J[i] = I[i]

(* Byte j from page d on is the same. *)
SameByte(m2, m, d, j) == m2[d * PAGE_SIZE + j] = m[d * PAGE_SIZE + j]

(* Bytes stored in a run of pages are not in another. *)
LEMMA StoredApart ==
  ASSUME NEW m \in Memories, NEW f \in Nat, NEW c \in Nat, NEW off \in Nat, NEW k \in Nat,
         NEW x \in Nat,
         off + k <= c * PAGE_SIZE, c >= 1,
         NEW d \in Nat, NEW b \in Nat, b >= 1, NEW j \in Nat, j < b * PAGE_SIZE, d + b <= NFRAMES,
         Run(d, b) \cap Run(f, c) = {}
  PROVE  SameByte(Stored(m, f, off, k, x), m, d, j)
<1> DEFINE a == d * PAGE_SIZE + j
<1>1. PAGE_SIZE \in Nat /\ NFRAMES \in Nat
  BY FsAssumption, Zenon
<1>2. f * PAGE_SIZE \in Nat /\ c * PAGE_SIZE \in Nat /\ d * PAGE_SIZE \in Nat
  BY <1>1
<1>3. a \in 0 .. NFRAMES * PAGE_SIZE - 1
  BY Address, Zenon
<1>4. a \in DOMAIN m
  BY <1>3, Zenon DEF Memories
<1>5. a - f * PAGE_SIZE \notin off .. off + k - 1
  <2> SUFFICES ASSUME a - f * PAGE_SIZE \in off .. off + k - 1 PROVE FALSE
    BY Zenon
  <2> DEFINE i == a - f * PAGE_SIZE
  <2>1. i \in Nat /\ i < c * PAGE_SIZE /\ a = f * PAGE_SIZE + i
    BY <1>2
  <2> HIDE DEF i
  <2>2. d * PAGE_SIZE + j # f * PAGE_SIZE + i
    BY <2>1, Apart, Zenon
  <2> QED BY <2>1, <2>2, Zenon
<1> QED BY <1>4, <1>5, Zenon DEF Stored, SameByte

(* So are bytes moved there. *)
LEMMA MovedApart ==
  ASSUME NEW m \in Memories, NEW f \in Nat, NEW h \in Nat, NEW size \in Nat, f + h <= NFRAMES,
         size <= h * PAGE_SIZE,
         NEW g \in Nat, NEW c \in Nat, size <= c * PAGE_SIZE, c >= 1,
         NEW d \in Nat, NEW b \in Nat, b >= 1, NEW j \in Nat, j < b * PAGE_SIZE, d + b <= NFRAMES,
         Run(d, b) \cap Run(g, c) = {}
  PROVE  SameByte(Moved(m, f, g, size), m, d, j)
<1> DEFINE a == d * PAGE_SIZE + j
<1>1. PAGE_SIZE \in Nat /\ NFRAMES \in Nat
  BY FsAssumption, Zenon
<1>2. g * PAGE_SIZE \in Nat /\ c * PAGE_SIZE \in Nat /\ d * PAGE_SIZE \in Nat
  BY <1>1
<1>3. a \in 0 .. NFRAMES * PAGE_SIZE - 1
  BY Address, Zenon
<1>4. a - g * PAGE_SIZE \notin 0 .. size - 1
  <2> SUFFICES ASSUME a - g * PAGE_SIZE \in 0 .. size - 1 PROVE FALSE
    BY Zenon
  <2> DEFINE i == a - g * PAGE_SIZE
  <2>1. i \in Nat /\ i < c * PAGE_SIZE /\ a = g * PAGE_SIZE + i
    BY <1>2
  <2> HIDE DEF i
  <2>2. d * PAGE_SIZE + j # g * PAGE_SIZE + i
    BY <2>1, Apart, Zenon
  <2> QED BY <2>1, <2>2, Zenon
<1>5. a \in DOMAIN m
  BY <1>3, Zenon DEF Memories
<1> QED BY <1>4, <1>5, Zenon DEF Moved, SameByte

(* Byte i of page f on, after k bytes x at off. *)
StoresByte(m, f, off, k, x, i) ==
    LET a == f * PAGE_SIZE + i - 1
    IN  Stored(m, f, off, k, x)[a] = IF i \in off + 1 .. off + k THEN x ELSE m[a]

(* A byte of memory after storing. *)
LEMMA StoredAt ==
  ASSUME NEW m \in Memories, NEW f \in Nat, NEW off \in Nat, NEW k \in Nat, NEW x,
         NEW i \in Nat, i >= 1,
         f * PAGE_SIZE + i - 1 \in 0 .. NFRAMES * PAGE_SIZE - 1
  PROVE  StoresByte(m, f, off, k, x, i)
<1> DEFINE a == f * PAGE_SIZE + i - 1
<1>0. PAGE_SIZE \in Nat
  BY FsAssumption, Zenon
<1>1. f * PAGE_SIZE \in Nat
  BY <1>0
<1>2. a - f * PAGE_SIZE \in off .. off + k - 1 <=> i \in off + 1 .. off + k
  <2> DEFINE b == f * PAGE_SIZE
  <2>1. b \in Nat
    BY <1>1, Zenon
  <2> HIDE DEF b
  <2>2. (b + i - 1) - b = i - 1
    BY <2>1
  <2>3. i - 1 \in off .. off + k - 1 <=> i \in off + 1 .. off + k
    OBVIOUS
  <2> QED BY <2>2, <2>3, Zenon DEF b
<1>3. a \in DOMAIN m
  BY Zenon DEF Memories
<1> QED BY <1>2, <1>3, Zenon DEF Stored, StoresByte

(* The facts about a write that the bytes depend on. *)
WriteFacts(p, fd, x, m, e, w) ==
    /\ WriteStep(p, fd, x, m, e, w) /\ Written(m, e, w)
    /\ m \in Nodes /\ e.offset \in Nat /\ x \in Nat /\ mem' = w.mem
    /\ mem \in Memories /\ TreeOK(fs) /\ Ledger(fs) /\ Named(fs, m) /\ Named(fs', m)
    /\ fs'.node[m] = w.v /\ e.offset <= fs.node[m].size
    /\ WroteSize(w, fs.node[m], e.offset) /\ FileOK(fs.node[m]) /\ FileOK(w.v)
    /\ WroteInPlace(w, fs.node[m], e.offset, x) \/ WroteMoved(w, fs.node[m], e.offset, x)

(* They hold when nothing is tainted afterwards. *)
LEMMA WriteHas ==
  ASSUME IInv, ~tainted', NEW p \in Procs, NEW fd \in Fds, NEW x \in Nat, NEW m, NEW e, NEW w,
         WriteStep(p, fd, x, m, e, w)
  PROVE  WriteFacts(p, fd, x, m, e, w)
<1>1. Written(m, e, w)
  BY WroteFs, Zenon
<1>2. /\ m \in Nodes /\ fs.node[m].type = "file" /\ e.offset \in Nat /\ e.offset <= fs.node[m].size
      /\ Wrote(w, fs.node[m], e.offset, x) /\ mem' = w.mem
      /\ tainted' = (tainted \/ ~fs.node[m].linked)
  BY Zenon DEF WriteStep
<1>3. ~tainted /\ fs.node[m].linked /\ mem \in Memories /\ TreeOK(fs)
  BY <1>2, Zenon DEF IInv, TypeOK
<1>4. Ledger(fs) /\ Named(fs, m)
  BY <1>2, <1>3, Zenon DEF IInv, Named
<1>5. fs'.node[m] = w.v /\ w.v.type = fs.node[m].type /\ w.v.linked = fs.node[m].linked /\ FileOK(w.v)
  BY <1>1, <1>2, Zenon DEF Written, Wrote, WroteSize
<1>6. Named(fs', m)
  BY <1>4, <1>5, Zenon DEF Named
<1>7. FileOK(fs.node[m])
  BY <1>2, <1>3, Zenon DEF TreeOK
<1> QED BY <1>1, <1>2, <1>3, <1>4, <1>5, <1>6, <1>7, Zenon DEF WriteFacts, Wrote

(* The file that is written. *)
LEMMA WroteImage ==
  ASSUME NEW p, NEW fd, NEW x, NEW m, NEW e, NEW w, WriteFacts(p, fd, x, m, e, w)
  PROVE  Overwrites(Image(fs, mem, m), Image(fs', mem', m), e.offset, w.n, x)
<1> DEFINE v == fs.node[m]
           I == Image(fs, mem, m)
           J == Image(fs', mem', m)
           off == e.offset
           k == w.n
<1>1. /\ m \in Nodes /\ off \in Nat /\ x \in Nat /\ mem' = w.mem /\ mem \in Memories
      /\ TreeOK(fs) /\ Named(fs, m) /\ Named(fs', m) /\ fs'.node[m] = w.v /\ off <= v.size
      /\ WroteSize(w, v, off) /\ FileOK(v) /\ FileOK(w.v) /\ TreeOK(fs') /\ mem' \in Memories
      /\ WroteInPlace(w, v, off, x) \/ WroteMoved(w, v, off, x)
  BY Zenon DEF WriteFacts, Written
<1>2. /\ Len(I) = v.size /\ v.size \in Nat
      /\ \A i \in 1 .. v.size : I[i] = mem[v.data * PAGE_SIZE + i - 1]
  <2>1. BytesOf(I, mem, v)
    BY <1>1, ImageSeq, Zenon
  <2> QED BY <2>1, Zenon DEF BytesOf
<1>3. /\ Len(J) = w.v.size /\ w.v.size \in Nat
      /\ \A i \in 1 .. w.v.size : J[i] = mem'[w.v.data * PAGE_SIZE + i - 1]
  <2>1. BytesOf(J, mem', w.v)
    BY <1>1, ImageSeq, Zenon
  <2> QED BY <2>1, Zenon DEF BytesOf
<1>4. /\ k \in Nat /\ w.v \in VnodeSet
      /\ w.v.size = IF v.size >= off + k THEN v.size ELSE off + k
  BY <1>1, Zenon DEF WroteSize
<1>5. v \in VnodeSet
  BY <1>1, Zenon DEF TreeOK, FsSet, Vnodes
<1>6. /\ v.data \in Nat /\ v.capacity \in Nat /\ w.v.data \in Nat /\ w.v.capacity \in Nat
      /\ PAGE_SIZE \in Nat /\ NFRAMES \in Nat
  BY <1>4, <1>5, FsAssumption, Zenon DEF VnodeSet
<1>7. /\ v.size <= v.capacity * PAGE_SIZE /\ v.data + v.capacity <= NFRAMES
      /\ w.v.size <= w.v.capacity * PAGE_SIZE /\ w.v.data + w.v.capacity <= NFRAMES
  BY <1>1, Zenon DEF FileOK
<1> HIDE DEF v, I, J, off, k
<1>8. ASSUME NEW i \in 1 .. w.v.size
      PROVE  /\ w.v.data * PAGE_SIZE + i - 1 \in 0 .. NFRAMES * PAGE_SIZE - 1
             /\ w.v.data * PAGE_SIZE + i - 1 = w.v.data * PAGE_SIZE + (i - 1)
             /\ i \in Nat /\ i >= 1
             /\ i \notin off + 1 .. off + k => i \in 1 .. v.size
  <2>1. w.v.data * PAGE_SIZE \in Nat /\ w.v.capacity * PAGE_SIZE \in Nat
    BY <1>6
  <2>2. i - 1 \in Nat /\ i - 1 < w.v.capacity * PAGE_SIZE
    BY <1>3, <1>7, <2>1
  <2>3. w.v.data * PAGE_SIZE + (i - 1) \in 0 .. NFRAMES * PAGE_SIZE - 1
    BY <1>6, <1>7, <2>2, Address, Zenon
  <2>4. w.v.data * PAGE_SIZE + i - 1 = w.v.data * PAGE_SIZE + (i - 1) /\ i \in Nat /\ i >= 1
    BY <1>3, <2>1
  <2>5. i \notin off + 1 .. off + k => i \in 1 .. v.size
    BY <1>1, <1>2, <1>3, <1>4
  <2> QED BY <2>3, <2>4, <2>5, Zenon
<1>9. ASSUME NEW i \in 1 .. w.v.size
      PROVE  mem'[w.v.data * PAGE_SIZE + i - 1] =
                IF i \in off + 1 .. off + k THEN x ELSE mem[v.data * PAGE_SIZE + i - 1]
  <2> DEFINE a == w.v.data * PAGE_SIZE + i - 1
  <2>1. CASE WroteInPlace(w, v, off, x)
    <3>1. w.v.data = v.data /\ mem' = Stored(mem, v.data, off, k, x)
      BY <1>1, <2>1, Zenon DEF WroteInPlace, k
    <3>2. StoresByte(mem, w.v.data, off, k, x, i)
      <4>1. w.v.data \in Nat /\ off \in Nat /\ k \in Nat /\ mem \in Memories
        BY <1>1, <1>4, <1>6, Zenon
      <4>2. a \in 0 .. NFRAMES * PAGE_SIZE - 1 /\ i \in Nat /\ i >= 1
        BY <1>8, Zenon
      <4> QED BY <4>1, <4>2, StoredAt, Zenon
    <3> QED BY <3>1, <3>2, Zenon DEF StoresByte
  <2>2. CASE WroteMoved(w, v, off, x)
    <3> DEFINE M == Moved(mem, v.data, w.v.data, v.size)
    <3>1. mem' = Stored(M, w.v.data, off, k, x)
      BY <1>1, <2>2, Zenon DEF WroteMoved, k
    <3>2. M \in Memories /\ MovesTo(M, mem, v.data, w.v.data, v.size)
      BY <1>1, <1>2, <1>6, <1>7, MovedType, Zenon
    <3> HIDE DEF M
    <3>3. mem'[a] = IF i \in off + 1 .. off + k THEN x ELSE M[a]
      <4>1. w.v.data \in Nat /\ off \in Nat /\ k \in Nat /\ M \in Memories
        BY <1>1, <1>4, <1>6, <3>2, Zenon
      <4>2. a \in 0 .. NFRAMES * PAGE_SIZE - 1 /\ i \in Nat /\ i >= 1
        BY <1>8, Zenon
      <4>3. StoresByte(M, w.v.data, off, k, x, i)
        BY <4>1, <4>2, StoredAt, Zenon
      <4> QED BY <3>1, <4>3, Zenon DEF StoresByte
    <3>4. ASSUME i \notin off + 1 .. off + k
          PROVE  M[a] = mem[v.data * PAGE_SIZE + i - 1]
      <4>1. i \in 1 .. v.size /\ a \in 0 .. NFRAMES * PAGE_SIZE - 1 /\ i \in Nat
        BY <1>8, <3>4, Zenon
      <4>2. w.v.data * PAGE_SIZE \in Nat /\ v.data * PAGE_SIZE \in Nat
        BY <1>6
      <4>3. a - w.v.data * PAGE_SIZE = i - 1 /\ i - 1 \in 0 .. v.size - 1
        BY <1>2, <4>1, <4>2
      <4>4. v.data * PAGE_SIZE + (i - 1) = v.data * PAGE_SIZE + i - 1
        BY <4>1, <4>2, Zenon
      <4> HIDE DEF a
      <4>5. M[a] = mem[v.data * PAGE_SIZE + (i - 1)]
        BY <3>2, <4>1, <4>3, Zenon DEF MovesTo
      <4> QED BY <4>4, <4>5, Zenon
    <3> QED BY <3>3, <3>4, Zenon
  <2> QED BY <1>1, <2>1, <2>2, Zenon
<1>10. ASSUME NEW i \in 1 .. Len(J)
       PROVE  IF i \in off + 1 .. off + k THEN J[i] = x ELSE i <= Len(I) /\ J[i] = I[i]
  <2>1. i \in 1 .. w.v.size
    BY <1>3, Zenon
  <2>2. J[i] = IF i \in off + 1 .. off + k THEN x ELSE mem[v.data * PAGE_SIZE + i - 1]
    BY <1>3, <1>9, <2>1, Zenon
  <2>3. i \notin off + 1 .. off + k => i \in 1 .. v.size
    BY <1>8, <2>1, Zenon
  <2>4. i \in 1 .. v.size => i <= Len(I) /\ I[i] = mem[v.data * PAGE_SIZE + i - 1]
    BY <1>2
  <2> QED BY <2>2, <2>3, <2>4, Zenon
<1>11. off \in 0 .. Len(I) /\ Len(J) = IF Len(I) >= off + k THEN Len(I) ELSE off + k
  BY <1>1, <1>2, <1>3, <1>4
<1>12. Overwrites(I, J, off, k, x)
  BY <1>4, <1>10, <1>11, Zenon DEF Overwrites
<1> QED BY <1>12, Zenon DEF I, J, off, k

(* Files other than the one that is written have other pages. *)
LEMMA OtherPages ==
  ASSUME NEW p, NEW fd, NEW x, NEW m, NEW e, NEW w, WriteFacts(p, fd, x, m, e, w),
         NEW n \in Nodes, n # m, Named(fs, n)
  PROVE  /\ Run(fs.node[n].data, fs.node[n].capacity)
               \cap Run(fs.node[m].data, fs.node[m].capacity) = {}
         /\ WroteMoved(w, fs.node[m], e.offset, x) =>
               Run(fs.node[n].data, fs.node[n].capacity) \cap Run(w.v.data, w.v.capacity) = {}
<1> DEFINE R == Run(fs.node[n].data, fs.node[n].capacity)
           Q == Run(fs.node[m].data, fs.node[m].capacity)
<1>1. m \in Nodes /\ Ledger(fs) /\ TreeOK(fs) /\ Named(fs, m)
  BY Zenon DEF WriteFacts
<1>2. R = Backing(fs.node[n]) /\ Q = Backing(fs.node[m])
  BY <1>1, Zenon DEF Backing, Named
<1>3. fs.used \subseteq Frames
  BY <1>1, Zenon DEF TreeOK, FsSet
<1>4. R \subseteq fs.used
  BY <1>1, <1>2, Zenon DEF Ledger, Named
<1> HIDE DEF R, Q
<1>5. \A f \in R : f \notin Q
  <2> SUFFICES ASSUME NEW f \in R, f \in Q PROVE FALSE
    BY Zenon
  <2>1. f \in Frames
    BY <1>3, <1>4, Zenon
  <2>2. Holds(fs, n, f) /\ Holds(fs, m, f)
    BY <1>1, <1>2, Zenon DEF Holds, Named
  <2> QED BY <1>1, <2>1, <2>2, Zenon DEF Ledger
<1>6. ASSUME WroteMoved(w, fs.node[m], e.offset, x)
      PROVE  R \cap Run(w.v.data, w.v.capacity) = {}
  <2>1. Run(w.v.data, w.v.capacity) \subseteq Frames \ fs.used
    BY <1>6, Zenon DEF WroteMoved
  <2> QED BY <1>4, <2>1, Zenon
<1>7. R \cap Q = {}
  BY <1>5, Zenon
<1> QED BY <1>6, <1>7, Zenon DEF R, Q

(* They keep their bytes. *)
LEMMA WroteOthers ==
  ASSUME NEW p, NEW fd, NEW x, NEW m, NEW e, NEW w, WriteFacts(p, fd, x, m, e, w),
         NEW n \in Nodes, n # m
  PROVE  Image(fs', mem', n) = Image(fs, mem, n) /\ (Named(fs', n) <=> Named(fs, n))
<1> DEFINE u == fs.node[n]
           v == fs.node[m]
           off == e.offset
           k == w.n
<1>1. fs'.node[n] = u
  BY Zenon DEF WriteFacts, Written, Vnodes
<1>2. Named(fs', n) <=> Named(fs, n)
  BY <1>1, Zenon DEF Named
<1>3. CASE ~Named(fs, n)
  BY <1>2, <1>3, Zenon DEF Image
<1>4. CASE Named(fs, n)
  <2>1. /\ m \in Nodes /\ off \in Nat /\ x \in Nat /\ mem' = w.mem /\ mem \in Memories
        /\ TreeOK(fs) /\ w.v \in VnodeSet /\ k \in Nat
        /\ FileOK(v) /\ FileOK(w.v) /\ off <= v.size
        /\ WroteInPlace(w, v, off, x) \/ WroteMoved(w, v, off, x)
    BY Zenon DEF WriteFacts, WroteSize
  <2>2. u \in VnodeSet /\ v \in VnodeSet
    BY <2>1, Zenon DEF TreeOK, FsSet, Vnodes
  <2>3. FileOK(u)
    BY <1>4, <2>1, Zenon DEF TreeOK, Named
  <2>4. /\ u.data \in Nat /\ u.capacity \in Nat /\ u.size \in Nat
        /\ v.data \in Nat /\ v.capacity \in Nat /\ v.size \in Nat
        /\ w.v.data \in Nat /\ w.v.capacity \in Nat /\ PAGE_SIZE \in Nat
    BY <2>1, <2>2, FsAssumption, Zenon DEF VnodeSet
  <2>5. /\ u.capacity >= 1 /\ u.size <= u.capacity * PAGE_SIZE /\ u.data + u.capacity <= NFRAMES
        /\ v.capacity >= 1 /\ v.size <= v.capacity * PAGE_SIZE /\ v.data + v.capacity <= NFRAMES
        /\ w.v.capacity >= 1
    BY <2>1, <2>3, Zenon DEF FileOK
  <2>6. /\ Run(u.data, u.capacity) \cap Run(v.data, v.capacity) = {}
        /\ WroteMoved(w, v, off, x) => Run(u.data, u.capacity) \cap Run(w.v.data, w.v.capacity) = {}
    BY <1>4, OtherPages, Zenon
  <2> HIDE DEF u, v, off, k
  <2>7. ASSUME NEW i \in 1 .. u.size
        PROVE  mem'[u.data * PAGE_SIZE + i - 1] = mem[u.data * PAGE_SIZE + i - 1]
    <3> DEFINE j == i - 1
    <3>1. u.data * PAGE_SIZE \in Nat /\ u.capacity * PAGE_SIZE \in Nat
      BY <2>4
    <3>2. j \in Nat /\ j < u.capacity * PAGE_SIZE
          /\ u.data * PAGE_SIZE + i - 1 = u.data * PAGE_SIZE + j
      BY <2>4, <2>5, <3>1
    <3> HIDE DEF j
    <3>3. CASE WroteInPlace(w, v, off, x)
      <4>1. mem' = Stored(mem, v.data, off, k, x) /\ off + k <= v.capacity * PAGE_SIZE
        BY <2>1, <3>3, Zenon DEF WroteInPlace, k
      <4>2. SameByte(Stored(mem, v.data, off, k, x), mem, u.data, j)
        BY <2>1, <2>4, <2>5, <2>6, <3>2, <4>1, StoredApart, Zenon
      <4> QED BY <3>2, <4>1, <4>2, Zenon DEF SameByte
    <3>4. CASE WroteMoved(w, v, off, x)
      <4> DEFINE M == Moved(mem, v.data, w.v.data, v.size)
      <4>1. /\ mem' = Stored(M, w.v.data, off, k, x)
            /\ off + k <= w.v.capacity * PAGE_SIZE /\ v.size <= w.v.capacity * PAGE_SIZE
        BY <2>1, <3>4, Zenon DEF WroteMoved, k
      <4>2. SameByte(M, mem, u.data, j)
        BY <2>1, <2>4, <2>5, <2>6, <3>2, <3>4, <4>1, MovedApart, Zenon
      <4>3. M \in Memories
        BY <2>1, <2>4, <2>5, MovedType, Zenon
      <4> HIDE DEF M
      <4>4. SameByte(Stored(M, w.v.data, off, k, x), M, u.data, j)
        BY <2>1, <2>4, <2>5, <2>6, <3>2, <3>4, <4>1, <4>3, StoredApart, Zenon
      <4> QED BY <3>2, <4>1, <4>2, <4>4, Zenon DEF SameByte
    <3> QED BY <2>1, <3>3, <3>4, Zenon
  <2>8. [i \in 1 .. u.size |-> mem'[u.data * PAGE_SIZE + i - 1]]
        = [i \in 1 .. u.size |-> mem[u.data * PAGE_SIZE + i - 1]]
    BY <2>7, Zenon
  <2> QED BY <1>1, <1>2, <1>4, <2>8, Zenon DEF Image, u
<1> QED BY <1>2, <1>3, <1>4, Zenon

-----------------------------------------------------------------------------
(* The theorems *)

(* What is tainted stays so. *)
LEMMA TaintStays ==
  ASSUME tainted \in BOOLEAN, [Next]_vars, ~tainted'
  PROVE  ~tainted
<1> DEFINE Stays == \/ tainted' = tainted
                    \/ \E s : tainted' = (tainted \/ OnPageZero(s))
                    \/ \E v : tainted' = (tainted \/ ~v.linked)
<1>1. CASE UNCHANGED vars
  BY <1>1, Zenon DEF vars
<1>2. ASSUME NEW p \in Procs, fd_calls(p) PROVE Stays
  BY <1>2, Zenon DEF fd_calls, process_read, process_write, process_close, process_dup2
<1>3. ASSUME NEW p \in Procs, path_calls(p) PROVE Stays
  BY <1>3, Zenon DEF path_calls, process_open, process_mkdir, process_unlink, process_chdir, Becomes
<1>4. ASSUME NEW p \in Procs, identity_calls(p) PROVE Stays
  BY <1>4, Zenon DEF identity_calls, process_chmod, process_chown, process_setuid, process_setgid
<1>5. ASSUME NEW p \in Procs, (\E q \in Procs : process_clone_into(p, q)) \/ process_terminate(p)
      PROVE  Stays
  BY <1>5, Zenon DEF process_clone_into, process_terminate
<1>6. CASE Stays
  BY <1>6, Zenon
<1> HIDE DEF Stays
<1> QED BY <1>1, <1>2, <1>3, <1>4, <1>5, <1>6, Zenon DEF Next, vars

(* The bytes of all files, in the terms of Files. *)
LEMMA AllBlobs ==
  /\ \A n \in Nodes : [k \in Nodes |-> Blob(k)][n] = Image(fs, mem, n)
  /\ \A n \in Nodes : [k \in Nodes |-> Blob(k)]'[n] = Image(fs', mem', n)
  /\ (\A n \in Nodes : Image(fs', mem', n) = Image(fs, mem, n)) =>
        [k \in Nodes |-> Blob(k)]' = [k \in Nodes |-> Blob(k)]
<1>1. \A n \in Nodes : Blob(n) = Image(fs, mem, n) /\ Blob(n)' = Image(fs', mem', n)
  BY BlobIs, Zenon
<1> QED BY <1>1, Zenon

(* A call on paths creates, removes or replaces a file, or none of these. *)
LEMMA PathStep ==
  ASSUME tainted \in BOOLEAN, ~tainted, ~tainted', mem' = mem, Shape(fs, fs')
  PROVE  [F!Next]_<<[n \in Nodes |-> Blob(n)], ~tainted>>
<1> DEFINE B == [n \in Nodes |-> Blob(n)]
<1>1. \A n \in Nodes : B[n] = Image(fs, mem, n) /\ B'[n] = Image(fs', mem, n)
  BY AllBlobs, Zenon
<1>2. ASSUME NEW S, Quiet(fs, fs', S)
      PROVE  \A n \in Nodes \ S : B'[n] = B[n]
  <2> SUFFICES ASSUME NEW n \in Nodes \ S PROVE B'[n] = B[n]
    BY Zenon
  <2>1. Image(fs', mem, n) = Image(fs, mem, n)
    BY <1>2, QuietImage
  <2> QED BY <1>1, <2>1, Zenon
<1>3. CASE Quiet(fs, fs', {})
  <2>1. \A n \in Nodes : Image(fs', mem', n) = Image(fs, mem, n)
    BY <1>3, QuietImage
  <2>2. B' = B
    BY <2>1, AllBlobs, Zenon
  <2>3. (~tainted)' = ~tainted
    BY Zenon
  <2> QED BY <2>2, <2>3, Zenon
<1>4. ASSUME NEW n \in Nodes, ~Named(fs', n), Quiet(fs, fs', {n})
      PROVE  F!Next
  <2>1. B'[n] = NoBlob
    BY <1>1, <1>4, Zenon DEF Image
  <2>2. F!Remove(n)
    BY <1>2, <1>4, <2>1, Zenon DEF F!Remove, F!Only
  <2> QED BY <2>2, Zenon DEF F!Next
<1>5. ASSUME NEW m \in Nodes, Fresh(fs, fs', m), Quiet(fs, fs', {m})
      PROVE  F!Next
  <2>1. B[m] = NoBlob /\ B'[m] = << >>
    <3>1. Image(fs, mem, m) = NoBlob /\ Image(fs', mem, m) = << >>
      BY <1>5, FreshImage
    <3> QED BY <1>1, <3>1, Zenon
  <2>2. F!Create(m)
    BY <1>2, <1>5, <2>1, Zenon DEF F!Create, F!Only
  <2> QED BY <2>2, Zenon DEF F!Next
<1>6. ASSUME NEW n \in Nodes, NEW m \in Nodes, ~Named(fs', n), Fresh(fs, fs', m),
             Quiet(fs, fs', {n, m})
      PROVE  F!Next
  <2>1. B'[n] = NoBlob /\ B[m] = NoBlob /\ B'[m] = << >>
    <3>1. Image(fs, mem, m) = NoBlob /\ Image(fs', mem, m) = << >>
      BY <1>6, FreshImage
    <3>2. Image(fs', mem, n) = NoBlob
      BY <1>6, Zenon DEF Image
    <3> QED BY <1>1, <3>1, <3>2, Zenon
  <2>2. F!Replace(n, m)
    BY <1>2, <1>6, <2>1, Zenon DEF F!Replace, F!Only
  <2> QED BY <2>2, Zenon DEF F!Next
<1> QED BY <1>3, <1>4, <1>5, <1>6, Zenon DEF Shape

(* A write overwrites one file. *)
LEMMA WriteStepIs ==
  ASSUME tainted \in BOOLEAN, ~tainted, ~tainted', NEW p, NEW fd, NEW x, NEW m, NEW e, NEW w,
         WriteFacts(p, fd, x, m, e, w)
  PROVE  F!Next
<1> DEFINE B == [n \in Nodes |-> Blob(n)]
           I == Image(fs, mem, m)
           J == Image(fs', mem', m)
           off == e.offset
           k == w.n
<1>1. m \in Nodes /\ TreeOK(fs) /\ TreeOK(fs') /\ mem \in Memories /\ mem' \in Memories
      /\ Named(fs, m) /\ Named(fs', m)
  BY Zenon DEF WriteFacts, Written
<1>2. B[m] = I /\ B'[m] = J
  BY <1>1, AllBlobs, Zenon
<1>3. \A n \in Nodes \ {m} : B'[n] = B[n]
  <2> SUFFICES ASSUME NEW n \in Nodes, n # m PROVE B'[n] = B[n]
    BY Zenon
  <2>1. Image(fs', mem', n) = Image(fs, mem, n)
    BY WroteOthers, ZenonT(60)
  <2> QED BY <2>1, AllBlobs, Zenon
<1>4. I # NoBlob /\ J # NoBlob /\ Len(I) \in Nat /\ Len(J) \in Nat
  <2>1. BytesOf(I, mem, fs.node[m]) /\ BytesOf(J, mem', fs'.node[m]) /\ I # NoBlob /\ J # NoBlob
    BY <1>1, ImageSeq, Zenon
  <2> QED BY <2>1, Zenon DEF BytesOf
<1>5. Overwrites(I, J, off, k, x)
  BY WroteImage, Zenon
<1> HIDE DEF B, I, J, off, k
<1>6. /\ off \in 0 .. Len(I) /\ k \in Nat
      /\ Len(J) = IF Len(I) >= off + k THEN Len(I) ELSE off + k
      /\ \A i \in 1 .. Len(J) :
            IF i \in off + 1 .. off + k THEN J[i] = x ELSE i <= Len(I) /\ J[i] = I[i]
  BY <1>5, Zenon DEF Overwrites
<1>7. Len(J) >= Len(I)
  BY <1>4, <1>6
<1>8. ASSUME NEW i \in off + 1 .. off + k
      PROVE  i \in 1 .. Len(J) /\ J[i] = x /\ J[off + 1] = x /\ i > off
  <2>1. i \in 1 .. Len(J) /\ off + 1 \in 1 .. Len(J) /\ off + 1 \in off + 1 .. off + k /\ i > off
    BY <1>4, <1>6, <1>8
  <2> QED BY <1>6, <1>8, <2>1, Zenon
<1>9. ASSUME NEW i \in 1 .. Len(I), J[i] # I[i]
      PROVE  i > off /\ J[i] = J[off + 1]
  <2>1. i \in 1 .. Len(J)
    BY <1>4, <1>7
  <2>2. i \in off + 1 .. off + k
    BY <1>6, <1>9, <2>1, Zenon
  <2> QED BY <1>8, <2>2, Zenon
<1>10. ASSUME NEW i \in Len(I) + 1 .. Len(J)
       PROVE  J[i] = J[off + 1]
  <2>1. i \in 1 .. Len(J) /\ ~(i <= Len(I))
    BY <1>4
  <2>2. i \in off + 1 .. off + k
    BY <1>6, <2>1, Zenon
  <2> QED BY <1>8, <2>2, Zenon
<1>11. \E o \in 0 .. Len(I) :
          /\ \A i \in 1 .. Len(I) : J[i] # I[i] => i > o /\ J[i] = J[o + 1]
          /\ \A i \in Len(I) + 1 .. Len(J) : J[i] = J[o + 1]
  BY <1>6, <1>9, <1>10, Zenon
<1>12. F!Write(m)
  <2>1. F!Only({m})
    BY <1>3, Zenon DEF F!Only, B
  <2>2. /\ B[m] # NoBlob /\ B'[m] # NoBlob /\ Len(B'[m]) >= Len(B[m])
        /\ \E o \in 0 .. Len(B[m]) :
              /\ \A i \in 1 .. Len(B[m]) : B'[m][i] # B[m][i] => i > o /\ B'[m][i] = B'[m][o + 1]
              /\ \A i \in Len(B[m]) + 1 .. Len(B'[m]) : B'[m][i] = B'[m][o + 1]
    BY <1>2, <1>4, <1>7, <1>11, Zenon
  <2> QED BY <2>1, <2>2, Zenon DEF F!Write, B
<1> QED BY <1>1, <1>12, Zenon DEF F!Next

(* Spec implements Files: until something is tainted, a system call        *)
(* creates, removes or replaces one file, or writes one from an offset     *)
(* within it, and every other file keeps its bytes, whatever pages the     *)
(* files move through (tmpfs_file_write, tmpfs_dir_create,                 *)
(* tmpfs_dir_unlink).                                                      *)
THEOREM FsImplementsFiles == Spec => ImplementsFiles
<1>1. Init => F!Init
  BY Zenon DEF Init, F!Init
<1>2. ASSUME IInv, [Next]_vars
      PROVE  [F!Next]_<<[n \in Nodes |-> Blob(n)], ~tainted>>
  <2>1. tainted \in BOOLEAN
    BY <1>2, Zenon DEF IInv, TypeOK
  <2>2. CASE tainted'
    BY <2>2, Zenon DEF F!Next
  <2>3. CASE ~tainted'
    <3>1. ~tainted
      BY <1>2, <2>1, <2>3, TaintStays, Zenon
    <3>2. ASSUME NEW p \in Procs, NEW fd \in Fds, NEW count \in Counts, NEW x \in Bytes,
                 process_write(p, fd, count, x)
          PROVE  F!Next
      <4>1. PICK m, e, w : WriteStep(p, fd, x, m, e, w)
        BY <1>2, <3>2, WriteIs, Zenon
      <4>2. x \in Nat
        BY FsAssumption, Zenon
      <4>3. WriteFacts(p, fd, x, m, e, w)
        BY <1>2, <2>3, <4>1, <4>2, WriteHas, Zenon
      <4> QED BY <2>1, <2>3, <3>1, <4>3, WriteStepIs, Zenon
    <3>3. CASE mem' = mem /\ Shape(fs, fs')
      BY <2>1, <2>3, <3>1, <3>3, PathStep, Zenon
    <3> QED BY <1>2, <3>2, <3>3, StepShape, Zenon
  <2> QED BY <2>2, <2>3, Zenon
<1> QED BY <1>1, <1>2, FsInvariant, PTL DEF Spec, ImplementsFiles, F!Spec

(* A call on paths changes no file that has a name before and after. *)
LEMMA ShapeKeeps ==
  ASSUME NEW s, NEW t, Shape(s, t), NEW m, NEW n \in Nodes, Named(s, n), Named(t, n)
  PROVE  Image(t, m, n) = Image(s, m, n)
<1>1. ASSUME NEW S, Quiet(s, t, S), n \notin S
      PROVE  Image(t, m, n) = Image(s, m, n)
  <2>1. n \in Nodes \ S
    BY <1>1, Zenon
  <2> QED BY <1>1, <2>1, QuietImage
<1>2. CASE Quiet(s, t, {})
  BY <1>1, <1>2, Zenon
<1>3. ASSUME NEW k \in Nodes, ~Named(t, k), Quiet(s, t, {k}) PROVE Image(t, m, n) = Image(s, m, n)
  <2>1. n \notin {k}
    BY <1>3, Zenon
  <2> QED BY <1>1, <1>3, <2>1, Zenon
<1>4. ASSUME NEW k \in Nodes, Fresh(s, t, k), Quiet(s, t, {k}) PROVE Image(t, m, n) = Image(s, m, n)
  <2>1. n \notin {k}
    BY <1>4, Zenon DEF Fresh
  <2> QED BY <1>1, <1>4, <2>1, Zenon
<1>5. ASSUME NEW j \in Nodes, NEW k \in Nodes, ~Named(t, j), Fresh(s, t, k), Quiet(s, t, {j, k})
      PROVE  Image(t, m, n) = Image(s, m, n)
  <2>1. n \notin {j, k}
    BY <1>5, Zenon DEF Fresh
  <2> QED BY <1>1, <1>5, <2>1, Zenon
<1> QED BY <1>2, <1>3, <1>4, <1>5, Zenon DEF Shape

(* Writing nothing changes nothing. *)
LEMMA NothingWritten ==
  ASSUME NEW p, NEW fd, NEW x, NEW m, NEW e, NEW w, WriteFacts(p, fd, x, m, e, w), w.n = 0
  PROVE  Image(fs', mem', m) = Image(fs, mem, m)
<1> DEFINE I == Image(fs, mem, m)
           J == Image(fs', mem', m)
<1>1. m \in Nodes /\ TreeOK(fs) /\ TreeOK(fs') /\ mem \in Memories /\ mem' \in Memories
      /\ Named(fs, m) /\ Named(fs', m) /\ e.offset \in Nat
  BY Zenon DEF WriteFacts, Written
<1>2. Len(I) \in Nat /\ Len(J) \in Nat /\ Len(I) = fs.node[m].size /\ Len(J) = fs'.node[m].size
  <2>1. BytesOf(I, mem, fs.node[m]) /\ BytesOf(J, mem', fs'.node[m])
    BY <1>1, ImageSeq, Zenon
  <2> QED BY <2>1, Zenon DEF BytesOf
<1>3. /\ I = [i \in 1 .. fs.node[m].size |-> mem[fs.node[m].data * PAGE_SIZE + i - 1]]
      /\ J = [i \in 1 .. fs'.node[m].size |-> mem'[fs'.node[m].data * PAGE_SIZE + i - 1]]
  BY <1>1, Zenon DEF Image
<1>4. Overwrites(I, J, e.offset, 0, x)
  <2>1. Overwrites(I, J, e.offset, w.n, x)
    BY WroteImage, Zenon
  <2> QED BY <2>1, Zenon
<1>5. I = [i \in 1 .. Len(I) |-> I[i]] /\ J = [i \in 1 .. Len(J) |-> J[i]]
  <2>1. I = [i \in 1 .. fs.node[m].size |-> I[i]] /\ J = [i \in 1 .. fs'.node[m].size |-> J[i]]
    <3> HIDE DEF I, J
    <3> QED BY <1>3, Zenon
  <2> HIDE DEF I, J
  <2> QED BY <1>2, <2>1, Zenon
<1> HIDE DEF I, J
<1>6. /\ e.offset \in 0 .. Len(I)
      /\ Len(J) = IF Len(I) >= e.offset + 0 THEN Len(I) ELSE e.offset + 0
      /\ \A i \in 1 .. Len(J) :
            IF i \in e.offset + 1 .. e.offset + 0 THEN J[i] = x ELSE i <= Len(I) /\ J[i] = I[i]
  BY <1>4, Zenon DEF Overwrites
<1>7. Len(J) = Len(I) /\ \A i \in 1 .. Len(I) : J[i] = I[i]
  BY <1>1, <1>2, <1>6
<1>8. J = I
  BY <1>5, <1>7, Zenon
<1> QED BY <1>8, Zenon DEF I, J

(* A write of something moves the offset. *)
LEMMA Advances ==
  ASSUME NEW a \in Nat, NEW b \in Nat, b # 0
  PROVE  a + b # a
OBVIOUS

(* A file changes only by the write of a process that has the permission   *)
(* at that moment (process_write, vfs_check_perm), however it came by the  *)
(* descriptor.                                                             *)
THEOREM FsWritesPermitted == Spec => WritesPermitted
<1> DEFINE A == \A n \in Nodes :
                   (n \in LinkedFiles /\ n \in LinkedFiles' /\ ~tainted' /\ Blob(n)' # Blob(n)) =>
                      \E p \in Procs : proc'[p] # proc[p] /\ vfs_check_perm(fs.node[n], p, "w")
<1>1. ASSUME IInv, [Next]_vars
      PROVE  A
  <2> SUFFICES ASSUME NEW n \in Nodes, n \in LinkedFiles, n \in LinkedFiles', ~tainted',
                      Blob(n)' # Blob(n)
               PROVE  \E p \in Procs : proc'[p] # proc[p] /\ vfs_check_perm(fs.node[n], p, "w")
    BY Zenon
  <2>1. Named(fs, n) /\ Named(fs', n) /\ Image(fs', mem', n) # Image(fs, mem, n)
    BY BlobIs, Zenon
  <2>2. ~(mem' = mem /\ Shape(fs, fs'))
    BY <2>1, ShapeKeeps
  <2>3. PICK p \in Procs, fd \in Fds, count \in Counts, x \in Bytes : process_write(p, fd, count, x)
    BY <1>1, <2>2, StepShape, Zenon
  <2>4. /\ MayWrite(p, fs.node[proc[p].fds[fd].node])
        /\ \E m, e, w : WriteStep(p, fd, x, m, e, w)
    BY <1>1, <2>3, WriteIs, Zenon
  <2>5. PICK m, e, w : WriteStep(p, fd, x, m, e, w)
    BY <2>4, Zenon
  <2>6. x \in Nat
    BY FsAssumption, Zenon
  <2>7. WriteFacts(p, fd, x, m, e, w)
    BY <1>1, <2>5, <2>6, WriteHas, Zenon
  <2>8. n = m
    <3> SUFFICES ASSUME n # m PROVE FALSE
      BY Zenon
    <3>1. Image(fs', mem', n) = Image(fs, mem, n)
      BY <2>7, WroteOthers
    <3> QED BY <2>1, <3>1, Zenon
  <2>9. w.n # 0
    <3> SUFFICES ASSUME w.n = 0 PROVE FALSE
      BY Zenon
    <3>1. Image(fs', mem', m) = Image(fs, mem, m)
      BY <2>7, NothingWritten, Zenon
    <3> QED BY <2>1, <2>8, <3>1, Zenon
  <2>10. /\ m = proc[p].fds[fd].node /\ e.offset \in Nat /\ e = proc[p].fds[fd]
         /\ proc' = [proc EXCEPT ![p].fds[fd].offset = @ + w.n]
    BY <2>5, Zenon DEF WriteStep
  <2>11. w.n \in Nat
    BY <2>7, Zenon DEF WriteFacts, WroteSize
  <2>12. proc'[p] # proc[p]
    <3>1. proc \in [Procs -> ProcSet] /\ proc[p] \in ProcSet /\ proc[p].fds[fd] \in FdSet
      BY <1>1, Zenon DEF IInv, TypeOK, ProcSet
    <3>2. proc'[p].fds[fd].offset = e.offset + w.n
      BY <2>10, <3>1, Zenon DEF ProcSet, FdSet
    <3>3. e.offset + w.n # e.offset
      BY <2>9, <2>10, <2>11, Advances, Zenon
    <3> QED BY <2>10, <3>2, <3>3, Zenon
  <2>13. vfs_check_perm(fs.node[n], p, "w")
    BY <2>4, <2>8, <2>10, Zenon DEF MayWrite
  <2> QED BY <2>12, <2>13, Zenon
<1> HIDE DEF A
<1>2. Spec => [][A]_vars
  BY <1>1, FsInvariant, PTL DEF Spec
<1> QED BY <1>2, PTL DEF WritesPermitted, A
=============================================================================
