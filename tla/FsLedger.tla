------------------------------ MODULE FsLedger ------------------------------
(***************************************************************************)
(* Lemmas about Fs, for any number of processes, descriptors, nodes and    *)
(* pages, any page size, and any calls: where path resolution ends, what   *)
(* the operations of tmpfs and boot leave behind, and that each of them    *)
(* keeps the ledger of the pages behind the files.                         *)
(***************************************************************************)
EXTENDS Fs, WellFoundedInduction, TLAPS

-----------------------------------------------------------------------------
(* Least elements and repeated steps *)

(* A non-empty set of naturals has a least element. *)
LEMMA LeastExists ==
  ASSUME NEW S \in SUBSET Nat, S # {}
  PROVE  \E m \in S : \A k \in S : m <= k
<1> DEFINE R == OpToRel(<, Nat)
<1>1. IsWellFoundedOn(R, Nat)
  BY NatLessThanWellFounded, Zenon
<1>2. PICK m \in S : \A k \in S : ~(<<k, m>> \in R)
  <2> HIDE DEF R
  <2> QED BY <1>1, WFMin, Zenon
<1>3. \A k \in S : <<k, m>> \in R <=> k < m
  BY Zenon DEF OpToRel
<1> HIDE DEF R
<1>4. ASSUME NEW k \in S PROVE m <= k
  <2>1. m \in Nat /\ k \in Nat /\ ~(k < m)
    BY <1>2, <1>3, Zenon
  <2> QED BY <2>1
<1> QED BY <1>4, Zenon

(* Induction, for a set of naturals. *)
LEMMA Inductive ==
  ASSUME NEW D \in SUBSET Nat, 0 \in D, \A q \in D : q + 1 \in D
  PROVE  \A q \in Nat : q \in D
<1> DEFINE C == Nat \ D
<1>1. SUFFICES ASSUME C # {} PROVE FALSE
  BY Zenon
<1>2. PICK q \in C : \A k \in C : q <= k
  BY <1>1, LeastExists, Zenon
<1>3. q # 0 /\ q \in Nat /\ q \notin D
  BY Zenon
<1>4. q - 1 \in Nat /\ ~(q <= q - 1) /\ (q - 1) + 1 = q
  BY <1>3
<1>5. q - 1 \in D
  BY <1>2, <1>4, Zenon
<1> QED BY <1>3, <1>4, <1>5, Zenon

(* Min of a non-empty set of naturals is its least element. *)
LEMMA MinIs ==
  ASSUME NEW S \in SUBSET Nat, S # {}
  PROVE  Min(S) \in S /\ \A k \in S : Min(S) <= k
BY LeastExists, Zenon DEF Min

(* Min and Max of two naturals. *)
LEMMA MinMaxOfTwo ==
  ASSUME NEW a \in Nat, NEW b \in Nat
  PROVE  /\ Min({a, b}) \in Nat /\ Min({a, b}) <= a /\ Min({a, b}) <= b
         /\ Max({a, b}) = IF a >= b THEN a ELSE b
<1>1. {a, b} \in SUBSET Nat /\ {a, b} # {}
  BY Zenon
<1>2. Min({a, b}) \in {a, b} /\ \A k \in {a, b} : Min({a, b}) <= k
  BY <1>1, MinIs, Zenon
<1>3. \E m \in {a, b} : \A k \in {a, b} : m >= k
  OBVIOUS
<1>4. Max({a, b}) \in {a, b} /\ \A k \in {a, b} : Max({a, b}) >= k
  BY <1>3, Zenon DEF Max
<1> QED BY <1>2, <1>4

(* g starts at a and its k-th step is step[k]. *)
Steps(g, step, a, m) == g[0] = a /\ \A k \in 1 .. m : g[k] = step[k][g[k - 1]]

(* Any number of steps within a set can be taken, one after the other. *)
LEMMA StepsExist ==
  ASSUME NEW V, NEW m \in Nat, NEW step \in [1 .. m -> [V -> V]], NEW a \in V
  PROVE  \E g \in [0 .. m -> V] : Steps(g, step, a, m)
<1> DEFINE Up(q) == \E g \in [0 .. q -> V] : Steps(g, step, a, q)
           D == {q \in Nat : q <= m => Up(q)}
<1>1. 0 \in D
  <2> DEFINE g == [k \in 0 .. 0 |-> a]
  <2>1. g \in [0 .. 0 -> V] /\ Steps(g, step, a, 0)
    BY DEF Steps
  <2> QED BY <2>1, Zenon
<1>2. ASSUME NEW q \in Nat, q + 1 <= m, Up(q)
      PROVE  Up(q + 1)
  <2>1. PICK g \in [0 .. q -> V] : Steps(g, step, a, q)
    BY <1>2, Zenon
  <2> DEFINE h == [k \in 0 .. q + 1 |-> IF k <= q THEN g[k] ELSE step[q + 1][g[q]]]
  <2>2. q + 1 \in 1 .. m /\ q \in 0 .. q
    BY <1>2
  <2>3. step[q + 1] \in [V -> V] /\ g[q] \in V
    BY <2>2, Zenon
  <2>4. h \in [0 .. q + 1 -> V]
    BY <2>3
  <2>5. (\A k \in 0 .. q : h[k] = g[k]) /\ h[q + 1] = step[q + 1][g[q]]
    OBVIOUS
  <2> HIDE DEF h
  <2>6. h[0] = a
    BY <2>1, <2>5 DEF Steps
  <2>7. ASSUME NEW k \in 1 .. q + 1
        PROVE  h[k] = step[k][h[k - 1]]
    <3>1. k - 1 \in 0 .. q /\ (k \in 1 .. q \/ (k = q + 1 /\ k - 1 = q))
      OBVIOUS
    <3>2. h[k - 1] = g[k - 1]
      BY <2>5, <3>1, Zenon
    <3>3. CASE k \in 1 .. q
      BY <2>1, <2>5, <3>2, <3>3 DEF Steps
    <3>4. CASE k = q + 1 /\ k - 1 = q
      BY <2>5, <3>2, <3>4, Zenon
    <3> QED BY <3>1, <3>3, <3>4, Zenon
  <2>8. Steps(h, step, a, q + 1)
    BY <2>6, <2>7, Zenon DEF Steps
  <2> QED BY <2>4, <2>8, Zenon
<1>3. \A q \in D : q + 1 \in D
  <2> SUFFICES ASSUME NEW q \in D, q + 1 <= m PROVE Up(q + 1)
    OBVIOUS
  <2>1. q \in Nat /\ q <= m
    OBVIOUS
  <2>2. Up(q)
    BY <2>1, Zenon
  <2> QED BY <1>2, <2>1, <2>2, Zenon
<1>4. m \in D
  <2> HIDE DEF D
  <2>1. D \in SUBSET Nat
    BY Zenon DEF D
  <2> QED BY <1>1, <1>3, <2>1, Inductive, Zenon
<1> QED BY <1>4

-----------------------------------------------------------------------------
(* Types, and the shape of the tree *)

AccessModes == {"O_RDONLY", "O_WRONLY", "O_RDWR"}

(* The root is "/"; a node not made yet has no name. *)
NodeNames == Names \cup {"", "/"}

VnodeSet == [type : {"none", "file", "dir", "dev"}, name : NodeNames,
             parent : Nodes, ops : {"tmpfs", "devfs"}, uid : Ids, gid : Ids,
             mode : [u : Rwx, g : Rwx, o : Rwx], linked : BOOLEAN,
             data : Nat, capacity : Nat, size : Nat]

FsSet == [node : [Vnodes -> VnodeSet], count : Nat, used : SUBSET Frames]

FdSet == [node : Vnodes \cup {NoNode}, offset : Nat, access_mode : AccessModes]

ProcSet == [state : {"none", "live"}, uid : Ids, gid : Ids, cwd : Seq(Names),
            fds : [Fds -> FdSet]]

Memories == [0 .. NFRAMES * PAGE_SIZE - 1 -> Nat]

TypeOK ==
    /\ fs \in FsSet /\ mem \in Memories
    /\ proc \in [Procs -> ProcSet] /\ tainted \in BOOLEAN

(* The nodes made so far, and what a path leads to. *)
Known(s) == {v \in Vnodes : v < s.count}
Place(s) == Known(s) \cup {NoNode}

(* A file has a run of pages, enough for its size. *)
FileOK(v) ==
    /\ v.capacity >= 1 /\ v.size <= v.capacity * PAGE_SIZE
    /\ v.data + v.capacity <= NFRAMES

(* Only nodes made so far are in use; a node has a name and a parent made  *)
(* before it.                                                              *)
TreeOK(s) ==
    /\ s \in FsSet
    /\ s.count \in 1 .. MAX_NODES
    /\ \A v \in Vnodes : s.node[v].parent < s.count
    /\ \A n \in Nodes : n # ROOT => s.node[n].parent < n
    /\ \A n \in Nodes : n # ROOT /\ n < s.count => s.node[n].name \in Names
    /\ \A n \in Nodes : n >= s.count => s.node[n].type = "none" /\ ~s.node[n].linked
    /\ \A v \in DOMAIN Devices : s.node[v].type = "dev"
    /\ \A n \in Nodes : s.node[n].type = "file" => FileOK(s.node[n])

(* What the constants are, as the proofs use it. *)
LEMMA Constants ==
  /\ \A d \in DOMAIN Devices : d \in Int /\ d < NoNode
  /\ NoNode \notin Vnodes /\ ROOT \in Nodes /\ 0 \in Frames
  /\ Vnodes \subseteq Int
  /\ Max(DOMAIN Devices) \in DOMAIN Devices
  /\ \A S \in SUBSET DOMAIN Devices : S # {} => Min(S) \in S
<1> DEFINE c == Cardinality(DOMAIN Devices)
           low == NoNode - c
<1>1. c \in Nat
  BY FsAssumption, Zenon
<1>2. DOMAIN Devices = low .. -2 /\ DOMAIN Devices # {} /\ low \in Int
  BY <1>1, FsAssumption DEF NoNode
<1> HIDE DEF low
<1>3. \A d \in DOMAIN Devices : d \in Int /\ d < NoNode
  BY <1>2 DEF NoNode
<1>4. NoNode \notin Vnodes /\ ROOT \in Nodes /\ 0 \in Frames /\ Vnodes \subseteq Int
  <2>1. Len(BootDirs) \in Nat /\ Len(BootFiles) \in Nat
    BY FsAssumption
  <2>2. MAX_NODES \in Nat /\ NFRAMES \in Nat /\ MAX_NODES >= 2 /\ NFRAMES >= 1
    BY <2>1, FsAssumption
  <2> QED BY <1>3, <2>2 DEF NoNode, Vnodes, Nodes, ROOT, Frames
<1>5. Max(DOMAIN Devices) \in DOMAIN Devices
  <2>1. -2 \in DOMAIN Devices /\ \A d \in DOMAIN Devices : -2 >= d
    BY <1>2
  <2>2. \E m \in DOMAIN Devices : \A d \in DOMAIN Devices : m >= d
    BY <2>1, Zenon
  <2> QED BY <2>2, Zenon DEF Max
<1>6. ASSUME NEW S \in SUBSET DOMAIN Devices, S # {}
      PROVE  Min(S) \in S
  <2> DEFINE T == {k \in Nat : k + low \in S}
  <2>1. PICK d \in S : TRUE
    BY <1>6, Zenon
  <2>2. d - low \in T
    BY <1>2, <2>1
  <2>3. PICK m \in T : \A k \in T : m <= k
    BY <2>2, LeastExists, Zenon
  <2>4. m + low \in S /\ m \in Nat
    BY <2>3, Zenon
  <2>5. ASSUME NEW e \in S PROVE m + low <= e
    <3>1. e \in Int /\ e >= low
      BY <1>2
    <3>2. e - low \in Nat /\ (e - low) + low = e
      BY <1>2, <3>1
    <3>3. e - low \in T
      BY <3>2, Zenon
    <3>4. m <= e - low
      BY <2>3, <3>3, Zenon
    <3> QED BY <1>2, <2>4, <3>1, <3>4
  <2>6. \E x \in S : \A e \in S : x <= e
    BY <2>4, <2>5, Zenon
  <2> QED BY <2>6, Zenon DEF Min
<1> QED BY <1>3, <1>4, <1>5, <1>6, Zenon

(* A non-empty set of nodes has a least one. *)
LEMMA MinNode ==
  ASSUME NEW S \in SUBSET Nodes, S # {}
  PROVE  Min(S) \in S
<1>1. S \in SUBSET Nat
  BY DEF Nodes
<1> QED BY <1>1, MinIs, Zenon

(* A lookup finds a child, which is a node made so far, or nothing. *)
LEMMA LookupPlace ==
  ASSUME NEW s, TreeOK(s), NEW d, NEW name
  PROVE  /\ lookup(s, d, name) \in Place(s)
         /\ tmpfs_dir_lookup(s, d, name) \in {n \in Children(s, d) : n < s.count} \cup {NoNode}
<1>1. tmpfs_dir_lookup(s, d, name) \in {n \in Children(s, d) : n < s.count} \cup {NoNode}
  <2> DEFINE S == {n \in Children(s, d) : s.node[n].name = name}
  <2>1. CASE S = {}
    BY <2>1, Zenon DEF tmpfs_dir_lookup, TheOne
  <2>2. CASE S # {}
    <3>1. S \in SUBSET Nodes
      BY Zenon DEF Children
    <3>2. Min(S) \in S
      BY <2>2, <3>1, MinNode, Zenon
    <3>3. Min(S) \in Children(s, d) /\ Min(S) \in Nodes /\ s.node[Min(S)].linked
      BY <3>2, Zenon DEF Children
    <3>4. Min(S) < s.count
      <4>1. \A n \in Nodes : s.node[n].linked => ~(n >= s.count)
        BY Zenon DEF TreeOK
      <4> HIDE DEF S
      <4>2. ~(Min(S) >= s.count)
        BY <3>3, <4>1, Zenon
      <4>3. Min(S) \in Int /\ s.count \in Int
        BY <3>3 DEF TreeOK, Nodes
      <4> QED BY <4>2, <4>3
    <3>5. tmpfs_dir_lookup(s, d, name) = Min(S)
      BY <2>2, Zenon DEF tmpfs_dir_lookup, TheOne
    <3> QED BY <3>3, <3>4, <3>5, Zenon
  <2> QED BY <2>1, <2>2, Zenon
<1>2. devfs_lookup(name) \in Place(s)
  <2> DEFINE S == {v \in DOMAIN Devices : Devices[v] = name}
  <2>1. CASE S = {}
    BY <2>1, Zenon DEF devfs_lookup, TheOne, Place
  <2>2. CASE S # {}
    <3>1. Min(S) \in S
      BY <2>2, Constants, Zenon
    <3>2. Min(S) \in Vnodes /\ Min(S) < s.count
      BY <3>1, Constants DEF TreeOK, Vnodes, NoNode
    <3> QED BY <2>2, <3>2, Zenon DEF devfs_lookup, TheOne, Place, Known
  <2> QED BY <2>1, <2>2, Zenon
<1>3. tmpfs_dir_lookup(s, d, name) \in Place(s)
  BY <1>1, Zenon DEF Place, Known, Children, Vnodes
<1> QED BY <1>1, <1>2, <1>3, Zenon DEF lookup, Place

(* One component of a path leads from a known place to a known place. *)
LEMMA EnterPlace ==
  ASSUME NEW s, TreeOK(s), NEW n \in Place(s), NEW parts
  PROVE  EnterParts(s, n, parts) \in Place(s)
<1>1. ASSUME NEW m \in Place(s), NEW c
      PROVE  Enter(s, m, c) \in Place(s)
  <2>1. CASE m = NoNode
    BY <2>1, Zenon DEF Enter
  <2>2. CASE m # NoNode
    <3>1. m \in Vnodes
      BY <2>2, Zenon DEF Place, Known
    <3>2. s.node[m].parent \in Nodes /\ s.node[m].parent < s.count
      BY <3>1, Zenon DEF TreeOK, FsSet, VnodeSet
    <3>3. s.node[m].parent \in Place(s)
      BY <3>2, Zenon DEF Place, Known, Vnodes
    <3> QED BY <3>3, LookupPlace, Zenon DEF Enter
  <2> QED BY <2>1, <2>2, Zenon
<1> QED BY <1>1, Zenon DEF EnterParts

(* A path leads to a node made so far or to nothing. *)
LEMMA ResolvePlace ==
  ASSUME NEW s, TreeOK(s), NEW names, Len(names) \in Nat
  PROVE  vfs_resolve_path(s, names) \in Place(s)
<1> DEFINE m == Len(names)
           V == Place(s)
           step == [k \in 1 .. m |-> [n \in V |-> EnterParts(s, n, Parts[names[k]])]]
<1>1. \A k \in 1 .. m : [n \in V |-> EnterParts(s, n, Parts[names[k]])] \in [V -> V]
  BY EnterPlace, Zenon
<1>2. step \in [1 .. m -> [V -> V]]
  BY <1>1, Zenon
<1>3. ROOT \in V
  BY Constants DEF Place, Known, Vnodes, TreeOK, ROOT
<1>4. PICK g \in [0 .. m -> V] : Steps(g, step, ROOT, m)
  <2> HIDE DEF V, step
  <2> QED BY <1>2, <1>3, StepsExist, Zenon
<1>5. \A i \in 0 .. m : g[i] = IF i = 0 THEN ROOT ELSE EnterParts(s, g[i - 1], Parts[names[i]])
  <2> TAKE i \in 0 .. m
  <2>1. CASE i = 0
    BY <1>4, <2>1, Zenon DEF Steps
  <2>2. CASE i # 0
    <3>1. i \in 1 .. m /\ i - 1 \in 0 .. m
      BY <2>2
    <3>2. g[i] = step[i][g[i - 1]] /\ g[i - 1] \in V
      BY <1>4, <3>1, Zenon DEF Steps
    <3>3. step[i] = [n \in V |-> EnterParts(s, n, Parts[names[i]])]
      BY <3>1, Zenon
    <3> QED BY <2>2, <3>2, <3>3, Zenon
  <2> QED BY <2>1, <2>2, Zenon
<1> DEFINE W(w) == w = [i \in 0 .. m |-> IF i = 0 THEN ROOT
                                         ELSE EnterParts(s, w[i - 1], Parts[names[i]])]
           walk == CHOOSE w : W(w)
<1>6. W(g)
  BY <1>5, Zenon
<1>7. W(walk)
  BY <1>6, Zenon
<1>8. vfs_resolve_path(s, names) = walk[m]
  BY Zenon DEF vfs_resolve_path
<1>9. \A i \in 0 .. m : walk[i] = IF i = 0 THEN ROOT
                                  ELSE EnterParts(s, walk[i - 1], Parts[names[i]])
  BY <1>7, Zenon
<1> HIDE DEF walk, V
<1> DEFINE D == {i \in Nat : i <= m => walk[i] \in V}
<1>10. 0 \in D
  BY <1>3, <1>9
<1>11. \A q \in D : q + 1 \in D
  <2> SUFFICES ASSUME NEW q \in D, q + 1 <= m PROVE walk[q + 1] \in V
    OBVIOUS
  <2>1. q \in Nat /\ walk[q] \in V /\ q + 1 \in 0 .. m /\ (q + 1) - 1 = q /\ q + 1 # 0
    OBVIOUS
  <2>2. walk[q + 1] = EnterParts(s, walk[q], Parts[names[q + 1]])
    BY <1>9, <2>1, Zenon
  <2> QED BY <2>1, <2>2, EnterPlace, Zenon DEF V
<1>12. m \in D
  <2> HIDE DEF D
  <2>1. D \in SUBSET Nat
    BY Zenon DEF D
  <2> QED BY <1>10, <1>11, <2>1, Inductive, Zenon
<1> QED BY <1>8, <1>12 DEF V

(* up lists the names from the root down to each node. *)
NamesUp(up, s, q) ==
    \A n \in 0 .. q :
        up[n] = IF n = ROOT THEN << >> ELSE Append(up[s.node[n].parent], s.node[n].name)

(* Appending an element of the set keeps a sequence over it. *)
LEMMA AppendSeq ==
  ASSUME NEW S, NEW q \in Seq(S), NEW e \in S
  PROVE  Append(q, e) \in Seq(S)
OBVIOUS

(* The canonical path of a known node is a sequence of names. *)
LEMMA CanonicalNames ==
  ASSUME NEW s, TreeOK(s), NEW n \in Nodes, n \in Known(s)
  PROVE  vfs_canonical_path(s, n) \in Seq(Names)
<1> DEFINE Up(q) == \E up \in [0 .. q -> Seq(NodeNames)] : NamesUp(up, s, q)
           D == {q \in Nat : q < MAX_NODES => Up(q)}
<1>0. MAX_NODES \in Nat /\ MAX_NODES - 1 \in Nat /\ Nodes = 0 .. MAX_NODES - 1
  BY Constants, FsAssumption DEF Nodes, ROOT
<1>1. \A k \in Nodes : s.node[k].name \in NodeNames /\ s.node[k].parent \in Nodes
  <2> TAKE k \in Nodes
  <2>1. k \in Vnodes
    BY Zenon DEF Vnodes
  <2> QED BY <2>1, Zenon DEF TreeOK, FsSet, VnodeSet
<1>2. \A k \in Nodes : k # ROOT => s.node[k].parent < k /\ s.node[k].parent \in 0 .. k - 1
  <2>1. \A k \in Nodes : k # ROOT => s.node[k].parent < k
    BY Zenon DEF TreeOK
  <2> QED BY <1>0, <1>1, <2>1
<1>3. 0 \in D
  <2> DEFINE up == [k \in 0 .. 0 |-> << >>]
  <2>1. up \in [0 .. 0 -> Seq(NodeNames)] /\ NamesUp(up, s, 0)
    BY DEF NamesUp, ROOT
  <2> QED BY <2>1, Zenon
<1>4. ASSUME NEW q \in Nat, q + 1 < MAX_NODES, Up(q)
      PROVE  Up(q + 1)
  <2>1. PICK up \in [0 .. q -> Seq(NodeNames)] : NamesUp(up, s, q)
    BY <1>4, Zenon
  <2> DEFINE m == s.node[q + 1].parent
             new == Append(up[m], s.node[q + 1].name)
             up2 == [k \in 0 .. q + 1 |-> IF k <= q THEN up[k] ELSE new]
  <2>2. q + 1 \in Nodes /\ q + 1 # ROOT
    BY <1>0, <1>4 DEF ROOT
  <2>3. m \in 0 .. q
    BY <1>2, <2>2
  <2>4. up[m] \in Seq(NodeNames) /\ s.node[q + 1].name \in NodeNames
    BY <1>1, <2>2, <2>3, Zenon
  <2>5. new \in Seq(NodeNames)
    BY <2>4
  <2> HIDE DEF new
  <2>6. up2 \in [0 .. q + 1 -> Seq(NodeNames)]
    BY <2>5
  <2>7. (\A k \in 0 .. q : up2[k] = up[k]) /\ up2[q + 1] = new
    OBVIOUS
  <2> HIDE DEF up2
  <2>8. ASSUME NEW k \in 0 .. q + 1
        PROVE  up2[k] = IF k = ROOT THEN << >>
                        ELSE Append(up2[s.node[k].parent], s.node[k].name)
    <3>1. CASE k = q + 1
      BY <2>2, <2>3, <2>7, <3>1, Zenon DEF new
    <3>2. CASE k # q + 1
      <4>1. k \in 0 .. q /\ k \in Nodes
        BY <1>0, <1>4, <3>2
      <4>2. k # ROOT => s.node[k].parent \in 0 .. q
        BY <1>2, <4>1
      <4> QED BY <2>1, <2>7, <4>1, <4>2, Zenon DEF NamesUp
    <3> QED BY <3>1, <3>2, Zenon
  <2>9. NamesUp(up2, s, q + 1)
    BY <2>8, Zenon DEF NamesUp
  <2> QED BY <2>6, <2>9, Zenon
<1>5. \A q \in D : q + 1 \in D
  <2> SUFFICES ASSUME NEW q \in D, q + 1 < MAX_NODES PROVE Up(q + 1)
    OBVIOUS
  <2>1. q \in Nat /\ q < MAX_NODES
    BY <1>0
  <2>2. Up(q)
    BY <2>1, Zenon
  <2> QED BY <1>4, <2>1, <2>2, Zenon
<1>6. MAX_NODES - 1 \in D
  <2> HIDE DEF D
  <2>1. D \in SUBSET Nat
    BY Zenon DEF D
  <2> QED BY <1>0, <1>3, <1>5, <2>1, Inductive, Zenon
<1>7. PICK g \in [Nodes -> Seq(NodeNames)] : NamesUp(g, s, MAX_NODES - 1)
  BY <1>0, <1>6
<1> DEFINE W(w) == w = [k \in Nodes |-> IF k = ROOT THEN << >>
                                        ELSE Append(w[s.node[k].parent], s.node[k].name)]
           up == CHOOSE w : W(w)
<1>8. W(g)
  BY <1>0, <1>7, Zenon DEF NamesUp
<1>9. W(up)
  BY <1>8, Zenon
<1>10. vfs_canonical_path(s, n) = up[n]
  BY Zenon DEF vfs_canonical_path
<1>11. \A k \in Nodes : up[k] = IF k = ROOT THEN << >>
                                ELSE Append(up[s.node[k].parent], s.node[k].name)
  BY <1>9, Zenon
<1> HIDE DEF up, D
<1> DEFINE Bad == {k \in Nodes : k \in Known(s) /\ up[k] \notin Seq(Names)}
<1>12. ASSUME Bad # {} PROVE FALSE
  <2>1. Bad \in SUBSET Nat
    BY DEF Nodes
  <2>2. PICK k \in Bad : \A j \in Bad : k <= j
    BY <1>12, <2>1, LeastExists, Zenon
  <2>3. k \in Nodes /\ k \in Known(s) /\ k # ROOT
    <3>1. ROOT \in Nodes
      BY Constants, Zenon
    <3>2. up[ROOT] = << >>
      BY <1>11, <3>1, Zenon
    <3>3. << >> \in Seq(Names)
      OBVIOUS
    <3> QED BY <3>2, <3>3, Zenon
  <2> DEFINE j == s.node[k].parent
  <2>4. j \in Nodes /\ j < k /\ j \in Known(s)
    BY <1>1, <1>2, <2>3, Zenon DEF Vnodes, TreeOK, Known
  <2>5. j \notin Bad
    BY <2>2, <2>4 DEF Nodes
  <2>6. up[j] \in Seq(Names) /\ s.node[k].name \in Names
    BY <2>3, <2>4, <2>5, Zenon DEF TreeOK, Known
  <2>7. up[k] = Append(up[j], s.node[k].name)
    BY <1>11, <2>3, Zenon
  <2>8. up[k] \in Seq(Names)
    BY <2>6, <2>7, AppendSeq, Zenon
  <2> QED BY <2>8, Zenon
<1> QED BY <1>10, <1>12, Zenon

(* The loop of tmpfs_file_write that doubles the capacity ends with enough *)
(* pages.                                                                  *)
LEMMA DoubledEnough ==
  ASSUME NEW capacity \in Nat, capacity >= 1, NEW bytes \in Nat
  PROVE  /\ Doubled(capacity, bytes) \in Nat
         /\ Doubled(capacity, bytes) >= 1
         /\ Doubled(capacity, bytes) * PAGE_SIZE >= bytes
<1>0. PAGE_SIZE \in Nat /\ PAGE_SIZE >= 1
  BY FsAssumption
<1> DEFINE twice == [c \in Nat |-> IF c * PAGE_SIZE < bytes THEN 2 * c ELSE c]
           step == [k \in 1 .. bytes |-> twice]
<1>1. twice \in [Nat -> Nat]
  BY <1>0
<1>2. step \in [1 .. bytes -> [Nat -> Nat]] /\ \A k \in 1 .. bytes : step[k] = twice
  BY <1>1, Zenon
<1>3. \A c \in Nat : twice[c] = IF c * PAGE_SIZE < bytes THEN 2 * c ELSE c
  BY Zenon
<1> HIDE DEF twice, step
<1>4. PICK g \in [0 .. bytes -> Nat] : Steps(g, step, capacity, bytes)
  BY <1>2, StepsExist, Zenon
<1> DEFINE W(w) == w = [k \in 0 .. bytes |->
                           IF k = 0 THEN capacity
                           ELSE IF w[k - 1] * PAGE_SIZE < bytes THEN 2 * w[k - 1] ELSE w[k - 1]]
           cap == CHOOSE w : W(w)
<1>5. W(g)
  <2>1. ASSUME NEW k \in 0 .. bytes, k # 0
        PROVE  g[k] = IF g[k - 1] * PAGE_SIZE < bytes THEN 2 * g[k - 1] ELSE g[k - 1]
    <3>1. k \in 1 .. bytes /\ k - 1 \in 0 .. bytes
      BY <2>1
    <3>2. g[k - 1] \in Nat /\ g[k] = twice[g[k - 1]]
      BY <1>2, <1>4, <3>1, Zenon DEF Steps
    <3> QED BY <1>3, <3>2, Zenon
  <2>2. g[0] = capacity
    BY <1>4, Zenon DEF Steps
  <2> QED BY <2>1, <2>2, Zenon
<1>6. W(cap)
  BY <1>5, Zenon
<1>7. Doubled(capacity, bytes) = cap[bytes]
  BY Zenon DEF Doubled
<1>8. \A k \in 0 .. bytes :
         cap[k] = IF k = 0 THEN capacity
                  ELSE IF cap[k - 1] * PAGE_SIZE < bytes THEN 2 * cap[k - 1] ELSE cap[k - 1]
  BY <1>6, Zenon
<1> HIDE DEF cap
<1> DEFINE Fine(c, k) == c \in Nat /\ c >= 1 /\ (c * PAGE_SIZE >= bytes \/ c >= k + 1)
           D == {k \in Nat : k <= bytes => Fine(cap[k], k)}
<1>9. 0 \in D
  BY <1>8
<1>10. \A q \in D : q + 1 \in D
  <2> SUFFICES ASSUME NEW q \in D, q + 1 <= bytes PROVE Fine(cap[q + 1], q + 1)
    OBVIOUS
  <2>1. q \in Nat /\ q + 1 \in 0 .. bytes /\ q + 1 # 0 /\ (q + 1) - 1 = q /\ Fine(cap[q], q)
    OBVIOUS
  <2>2. cap[q + 1] = IF cap[q] * PAGE_SIZE < bytes THEN 2 * cap[q] ELSE cap[q]
    BY <1>8, <2>1, Zenon
  <2> DEFINE x == cap[q] * PAGE_SIZE
  <2>0. cap[q] \in Nat /\ PAGE_SIZE \in Nat /\ bytes \in Nat
    BY <1>0, <2>1, Zenon
  <2>3. x \in Nat /\ (x < bytes \/ x >= bytes)
    <3> DEFINE y == cap[q]
    <3> HIDE DEF y
    <3>1. y \in Nat
      BY <2>0, Zenon DEF y
    <3>2. y * PAGE_SIZE \in Nat
      BY <2>0, <3>1
    <3>3. x \in Nat
      BY <3>2, Zenon DEF y
    <3> HIDE DEF x
    <3> QED BY <2>0, <3>3
  <2> HIDE DEF x
  <2>4. CASE x >= bytes
    <3>1. ~(x < bytes)
      BY <2>3, <2>4
    <3>2. cap[q + 1] = cap[q]
      BY <2>2, <3>1, Zenon DEF x
    <3> QED BY <2>1, <2>4, <3>2, Zenon DEF x
  <2>5. CASE x < bytes
    <3>1. cap[q + 1] = 2 * cap[q] /\ ~(x >= bytes)
      BY <2>2, <2>3, <2>5 DEF x
    <3>2. cap[q] \in Nat /\ cap[q] >= q + 1
      BY <2>1, <3>1, Zenon DEF x
    <3>3. 2 * cap[q] \in Nat /\ 2 * cap[q] >= 1 /\ 2 * cap[q] >= (q + 1) + 1
      <4> DEFINE y == cap[q]
      <4>1. q \in Nat /\ y \in Nat /\ y >= q + 1
        BY <2>1, <3>2, Zenon
      <4> HIDE DEF y
      <4>2. 2 * y \in Nat /\ 2 * y >= 1 /\ 2 * y >= (q + 1) + 1
        BY <4>1
      <4> QED BY <4>2, Zenon DEF y
    <3> QED BY <3>1, <3>3, Zenon
  <2> QED BY <2>3, <2>4, <2>5, Zenon
<1>11. bytes \in D
  <2> HIDE DEF D
  <2>1. D \in SUBSET Nat
    BY Zenon DEF D
  <2> QED BY <1>9, <1>10, <2>1, Inductive, Zenon
<1>12. Fine(cap[bytes], bytes)
  BY <1>11
<1>13. ASSUME NEW c \in Nat, c >= bytes + 1 PROVE c * PAGE_SIZE >= bytes
  BY <1>0, <1>13
<1> QED BY <1>7, <1>12, <1>13, Zenon

-----------------------------------------------------------------------------
(* What the operations on the tree do to files and pages *)

(* Nothing about the bytes of node n differs between s and t. *)
SameFile(s, t, n) ==
    /\ t.node[n].type = s.node[n].type /\ t.node[n].linked = s.node[n].linked
    /\ t.node[n].data = s.node[n].data /\ t.node[n].capacity = s.node[n].capacity
    /\ t.node[n].size = s.node[n].size

OnlyFile(s, t, m) == \A n \in Nodes : n # m => SameFile(s, t, n)

(* t is s, but for owners and modes. *)
Restyled(s, t) ==
    /\ \A n \in Nodes : SameFile(s, t, n)
    /\ t.count = s.count /\ t.used = s.used

(* t is s with a new empty file m, which has a free page or page 0. *)
AddedFile(s, t, m) ==
    /\ m = s.count /\ m \in Nodes /\ t.count = m + 1 /\ OnlyFile(s, t, m)
    /\ t.node[m].type = "file" /\ t.node[m].linked
    /\ t.node[m].size = 0 /\ t.node[m].capacity = 1
    /\ t.used = s.used \cup {t.node[m].data}
    /\ t.node[m].data = 0 \/ t.node[m].data \in Frames \ s.used

(* t is s with a new directory m. *)
AddedDir(s, t, m) ==
    /\ m = s.count /\ m \in Nodes /\ t.count = m + 1 /\ OnlyFile(s, t, m)
    /\ t.node[m].type = "dir" /\ t.used = s.used

(* t is s without the name of n, and without its pages. *)
Removed(s, t, n) ==
    /\ n \in Nodes /\ s.node[n].linked /\ OnlyFile(s, t, n)
    /\ ~t.node[n].linked /\ t.node[n].type = s.node[n].type
    /\ t.node[n].data = s.node[n].data /\ t.node[n].capacity = s.node[n].capacity
    /\ t.node[n].size = s.node[n].size
    /\ t.count = s.count /\ t.used = s.used \ Backing(s.node[n])

HasFields(t, node, count, used) ==
    t \in FsSet /\ t.node = node /\ t.count = count /\ t.used = used

(* Two fields of a file system may be set at once. *)
LEMMA SetFields ==
  ASSUME NEW s \in FsSet, NEW node \in [Vnodes -> VnodeSet], NEW count \in Nat,
         NEW used \in SUBSET Frames
  PROVE  /\ HasFields([s EXCEPT !.node = node, !.count = count], node, count, s.used)
         /\ HasFields([s EXCEPT !.node = node, !.used = used], node, s.count, used)
<1> USE DEF FsSet
<1>1. [s EXCEPT !.node = node, !.count = count] \in FsSet
  BY Zenon
<1>2. [s EXCEPT !.node = node, !.used = used] \in FsSet
  BY Zenon
<1>3. /\ [s EXCEPT !.node = node, !.count = count].node = node
      /\ [s EXCEPT !.node = node, !.count = count].count = count
      /\ [s EXCEPT !.node = node, !.count = count].used = s.used
  BY Zenon
<1>4. /\ [s EXCEPT !.node = node, !.used = used].node = node
      /\ [s EXCEPT !.node = node, !.used = used].count = s.count
      /\ [s EXCEPT !.node = node, !.used = used].used = used
  BY Zenon
<1> QED BY <1>1, <1>2, <1>3, <1>4, Zenon DEF HasFields

(* The vnode w is v, but for owner and mode. *)
Restyles(w, v) ==
    /\ w.type = v.type /\ w.name = v.name /\ w.parent = v.parent /\ w.linked = v.linked
    /\ w.data = v.data /\ w.capacity = v.capacity /\ w.size = v.size

(* Owners and modes may change without disturbing the tree. *)
LEMMA Restyle ==
  ASSUME NEW s, TreeOK(s), NEW v \in Vnodes, NEW w \in VnodeSet, Restyles(w, s.node[v])
  PROVE  /\ TreeOK([s EXCEPT !.node[v] = w])
         /\ Restyled(s, [s EXCEPT !.node[v] = w])
<1> DEFINE t == [s EXCEPT !.node[v] = w]
<1>1. s \in FsSet
  BY Zenon DEF TreeOK
<1>2. /\ t \in FsSet /\ t.count = s.count /\ t.used = s.used /\ t.node[v] = w
      /\ \A u \in Vnodes : u # v => t.node[u] = s.node[u]
  <2> HIDE DEF VnodeSet
  <2> QED BY <1>1, Zenon DEF FsSet
<1> HIDE DEF t
<1>3. \A u \in Vnodes :
         /\ t.node[u].type = s.node[u].type /\ t.node[u].name = s.node[u].name
         /\ t.node[u].parent = s.node[u].parent /\ t.node[u].linked = s.node[u].linked
         /\ t.node[u].data = s.node[u].data /\ t.node[u].capacity = s.node[u].capacity
         /\ t.node[u].size = s.node[u].size
  BY <1>2, Zenon DEF Restyles
<1>4. Nodes \subseteq Vnodes /\ DOMAIN Devices \subseteq Vnodes
  BY Zenon DEF Vnodes
<1>5. TreeOK(t)
  <2>1. t.count \in 1 .. MAX_NODES
    BY <1>2, Zenon DEF TreeOK
  <2>2. \A u \in Vnodes : t.node[u].parent < t.count
    BY <1>2, <1>3, Zenon DEF TreeOK
  <2>3. \A n \in Nodes : n # ROOT => t.node[n].parent < n
    <3>1. \A n \in Nodes : n # ROOT => s.node[n].parent < n
      BY Zenon DEF TreeOK
    <3> QED BY <1>3, <1>4, <3>1, Zenon
  <2>4. \A n \in Nodes : n # ROOT /\ n < t.count => t.node[n].name \in Names
    BY <1>2, <1>3, <1>4, Zenon DEF TreeOK
  <2>5. \A n \in Nodes : n >= t.count => t.node[n].type = "none" /\ ~t.node[n].linked
    <3>1. \A n \in Nodes : n >= s.count => s.node[n].type = "none" /\ ~s.node[n].linked
      BY Zenon DEF TreeOK
    <3> QED BY <1>2, <1>3, <1>4, <3>1, Zenon
  <2>6. \A u \in DOMAIN Devices : t.node[u].type = "dev"
    BY <1>3, <1>4, Zenon DEF TreeOK
  <2>7. \A n \in Nodes : t.node[n].type = "file" => FileOK(t.node[n])
    BY <1>3, <1>4, ZenonT(60) DEF TreeOK, FileOK
  <2> QED BY <1>2, <2>1, <2>2, <2>3, <2>4, <2>5, <2>6, <2>7, Zenon DEF TreeOK
<1>6. Restyled(s, t)
  BY <1>2, <1>3, <1>4, Zenon DEF Restyled, SameFile
<1> QED BY <1>5, <1>6, Zenon DEF t

(* A new node takes the next place. *)
LEMMA NewNodeOK ==
  ASSUME NEW s, TreeOK(s), ~(s.count >= MAX_NODES), NEW w \in VnodeSet,
         w.parent \in Known(s), w.name \in Names, w.type \in {"file", "dir"},
         w.type = "file" => FileOK(w),
         NEW used \in SUBSET Frames
  PROVE  LET m == s.count
             t == [NewNode(s, w) EXCEPT !.used = used]
         IN  /\ TreeOK(t) /\ m \in Nodes /\ m # ROOT /\ t.count = m + 1 /\ t.used = used
             /\ t.node[m] = w /\ OnlyFile(s, t, m)
             /\ \A u \in Vnodes : u # m => t.node[u] = s.node[u]
<1> DEFINE m == s.count
           t == [NewNode(s, w) EXCEPT !.used = used]
<1>1. s \in FsSet /\ m \in Nat /\ m >= 1 /\ MAX_NODES \in Nat
  BY FsAssumption DEF TreeOK
<1>2. m \in Nodes /\ m # ROOT /\ m \in Vnodes /\ m < MAX_NODES
  BY <1>1 DEF Nodes, ROOT, Vnodes
<1>3. /\ t \in FsSet /\ t.count = m + 1 /\ t.used = used /\ t.node[m] = w
      /\ \A u \in Vnodes : u # m => t.node[u] = s.node[u]
  <2> DEFINE t1 == NewNode(s, w)
  <2>1. /\ t1 \in FsSet /\ t1.count = m + 1 /\ t1.node[m] = w
        /\ \A u \in Vnodes : u # m => t1.node[u] = s.node[u]
    <3> DEFINE node == [s.node EXCEPT ![m] = w]
    <3>1. t1 = [s EXCEPT !.node = node, !.count = m + 1]
      BY <1>1, Zenon DEF FsSet, NewNode
    <3>2. /\ node \in [Vnodes -> VnodeSet] /\ node[m] = w
          /\ \A u \in Vnodes : u # m => node[u] = s.node[u]
      BY <1>1, <1>2, Zenon DEF FsSet
    <3> HIDE DEF t1, node
    <3>3. m + 1 \in Nat /\ s.used \in SUBSET Frames
      BY <1>1 DEF FsSet
    <3>4. HasFields(t1, node, m + 1, s.used)
      BY <1>1, <3>1, <3>2, <3>3, SetFields, Zenon
    <3> QED BY <3>2, <3>4, Zenon DEF HasFields
  <2> HIDE DEF t1
  <2>2. t = [t1 EXCEPT !.used = used]
    BY Zenon DEF t1
  <2> HIDE DEF t
  <2> QED BY <2>1, <2>2, Zenon DEF FsSet
<1> HIDE DEF t
<1>4. \A n \in Nodes : n \in Vnodes /\ n \in Nat
  BY DEF Vnodes, Nodes
<1>5. w.parent < m /\ w.parent \in Nat
  BY DEF VnodeSet, Known, Nodes
<1>6. \A u \in Vnodes : t.node[u].parent \in Nat /\ s.node[u].parent \in Nat
  BY <1>1, <1>3 DEF FsSet, VnodeSet, Nodes
<1>7. \A u \in Vnodes : t.node[u].parent < t.count
  <2> TAKE u \in Vnodes
  <2>1. CASE u = m
    BY <1>1, <1>3, <1>5, <2>1
  <2>2. CASE u # m
    <3>1. s.node[u].parent < m
      BY Zenon DEF TreeOK
    <3> QED BY <1>1, <1>3, <1>6, <2>2, <3>1
  <2> QED BY <2>1, <2>2, Zenon
<1>8. \A n \in Nodes : n # ROOT => t.node[n].parent < n
  BY <1>3, <1>4, <1>5, Zenon DEF TreeOK
<1>9. ASSUME NEW n \in Nodes, n # ROOT, n < t.count
      PROVE  t.node[n].name \in Names
  <2>1. CASE n = m
    BY <1>3, <2>1, Zenon
  <2>2. CASE n # m
    <3>1. n < m
      BY <1>1, <1>3, <1>4, <1>9, <2>2
    <3> QED BY <1>3, <1>4, <1>9, <2>2, <3>1, Zenon DEF TreeOK
  <2> QED BY <2>1, <2>2, Zenon
<1>10. ASSUME NEW n \in Nodes, n >= t.count
       PROVE  t.node[n].type = "none" /\ ~t.node[n].linked
  <2>1. n >= m /\ n # m
    BY <1>1, <1>3, <1>4, <1>10
  <2>2. t.node[n] = s.node[n]
    BY <1>3, <1>4, <2>1, Zenon
  <2>3. s.node[n].type = "none" /\ ~s.node[n].linked
    BY <2>1, Zenon DEF TreeOK
  <2> QED BY <2>2, <2>3, Zenon
<1>11. \A v \in DOMAIN Devices : t.node[v].type = "dev"
  <2> TAKE v \in DOMAIN Devices
  <2>1. v \in Vnodes /\ v # m
    BY <1>1, Constants DEF Vnodes, NoNode
  <2> QED BY <1>3, <2>1, Zenon DEF TreeOK
<1>12. \A n \in Nodes : t.node[n].type = "file" => FileOK(t.node[n])
  BY <1>3, <1>4, Zenon DEF TreeOK, FileOK
<1>13. t.count \in 1 .. MAX_NODES
  BY <1>1, <1>2, <1>3
<1>14. TreeOK(t)
  BY <1>3, <1>7, <1>8, <1>9, <1>10, <1>11, <1>12, <1>13, Zenon DEF TreeOK
<1>15. OnlyFile(s, t, m)
  BY <1>3, <1>4, Zenon DEF OnlyFile, SameFile
<1> QED BY <1>2, <1>3, <1>14, <1>15, Zenon DEF t

(* What was just made is found again. *)
LEMMA FoundNew ==
  ASSUME NEW t, NEW d, t.node[d].type = "dir", t.node[d].ops = "tmpfs",
         NEW m \in Nodes, m # ROOT, t.node[m].linked, t.node[m].parent = d
  PROVE  lookup(t, d, t.node[m].name) \in Nodes
<1> DEFINE name == t.node[m].name
           S == {n \in Children(t, d) : t.node[n].name = name}
<1>1. m \in S /\ S \in SUBSET Nodes
  BY Zenon DEF Children
<1>2. Min(S) \in S
  BY <1>1, MinNode, Zenon
<1>3. S # {} /\ Min(S) \in Nodes
  BY <1>1, <1>2, Zenon
<1>4. lookup(t, d, name) = Min(S)
  BY <1>3, Zenon DEF lookup, tmpfs_dir_lookup, TheOne
<1> QED BY <1>3, <1>4, Zenon

(* pmm_alloc_pages gives a free run, or page 0. *)
LEMMA AllocRun ==
  ASSUME NEW used \in SUBSET Frames, NEW n \in Nat, n >= 1
  PROVE  /\ pmm_alloc_pages(used, n) \in Frames
         /\ \/ pmm_alloc_pages(used, n) = 0
            \/ Run(pmm_alloc_pages(used, n), n) \subseteq Frames \ used
<1> DEFINE free == {f \in Frames : Run(f, n) \subseteq Frames \ used}
<1>1. CASE free = {}
  BY <1>1, Constants, Zenon DEF pmm_alloc_pages
<1>2. CASE free # {}
  <2>1. free \in SUBSET Nat
    BY FsAssumption DEF Frames
  <2>2. Min(free) \in free
    BY <1>2, <2>1, MinIs, Zenon
  <2> QED BY <1>2, <2>2, Zenon DEF pmm_alloc_pages
<1> QED BY <1>1, <1>2, Zenon

Created(s, t) == t = s \/ \E m \in Nodes : AddedFile(s, t, m)
MadeDir(s, t) == t = s \/ \E m \in Nodes : AddedDir(s, t, m)
Unlinked(s, t) == t = s \/ \E n \in Nodes : Removed(s, t, n)

(* A directory to change is a known directory of tmpfs, and the name to    *)
(* change in it is a name.                                                 *)
Into(s, r) ==
    r.err = "ok" =>
        /\ r.dir \in Nodes /\ r.dir \in Known(s) /\ r.name \in Names
        /\ s.node[r.dir].type = "dir" /\ s.node[r.dir].ops = "tmpfs"

(* The parts of a result. *)
LEMMA ResultParts ==
  ASSUME NEW s, NEW err
  PROVE  Result(s, err).fs = s /\ Result(s, err).err = err
BY Zenon DEF Result

(* The owner of what is made is set without disturbing the tree. *)
LEMMA ChownedOK ==
  ASSUME NEW s, TreeOK(s), NEW v \in Vnodes, NEW p \in Procs, proc \in [Procs -> ProcSet]
  PROVE  TreeOK(Chowned(s, v, p)) /\ Restyled(s, Chowned(s, v, p))
<1> DEFINE uid == proc[p].uid
           gid == proc[p].gid
           w == [s.node[v] EXCEPT !.uid = uid, !.gid = gid]
<1>1. s \in FsSet /\ s.node[v] \in VnodeSet
  BY Zenon DEF TreeOK, FsSet
<1>2. uid \in Ids /\ gid \in Ids
  BY Zenon DEF ProcSet
<1> HIDE DEF uid, gid
<1>3. w \in VnodeSet /\ Restyles(w, s.node[v])
  BY <1>1, <1>2, Zenon DEF VnodeSet, Restyles
<1>4. Chowned(s, v, p) = [s EXCEPT !.node[v] = w]
  BY <1>1, Zenon DEF Chowned, FsSet, uid, gid
<1> HIDE DEF w
<1>5. TreeOK([s EXCEPT !.node[v] = w]) /\ Restyled(s, [s EXCEPT !.node[v] = w])
  BY <1>3, Restyle, Zenon
<1> QED BY <1>4, <1>5, Zenon

(* A changed owner does not matter to what was added. *)
LEMMA RestyleAdded ==
  ASSUME NEW s, NEW t, NEW u, NEW m, Restyled(t, u)
  PROVE  /\ AddedFile(s, t, m) => AddedFile(s, u, m)
         /\ AddedDir(s, t, m) => AddedDir(s, u, m)
<1>1. \A n \in Nodes : SameFile(t, u, n)
  BY Zenon DEF Restyled
<1>2. OnlyFile(s, t, m) => OnlyFile(s, u, m)
  BY <1>1, ZenonT(60) DEF OnlyFile, SameFile
<1>3. u.count = t.count /\ u.used = t.used
  BY Zenon DEF Restyled
<1> QED BY <1>1, <1>2, <1>3, Zenon DEF AddedFile, AddedDir, SameFile

(* A file made by tmpfs, with its owner. *)
LEMMA CreateOK ==
  ASSUME NEW s, TreeOK(s), NEW p \in Procs, proc \in [Procs -> ProcSet], NEW r, Into(s, r)
  PROVE  TreeOK(CreateIn(s, p, r).fs) /\ Created(s, CreateIn(s, p, r).fs)
<1> DEFINE d == r.dir
           name == r.name
           f == pmm_alloc_pages(s.used, 1)
           m == s.count
           t == tmpfs_create_file(s, d, name, f)
           w == [Vnode("file", name, d, VFS_DEFAULT_FILE_MODE) EXCEPT !.data = f, !.capacity = 1]
<1>1. CASE r.err # "ok"
  BY <1>1, ResultParts, Zenon DEF CreateIn, Created
<1>2. CASE r.err = "ok" /\ NameTaken(s, d, name)
  <2>1. tmpfs_dir_create(s, d, name) = Result(s, "EEXIST")
    BY <1>2, Zenon DEF tmpfs_dir_create
  <2>2. Owned(Result(s, "EEXIST"), p, r) = Result(s, "EEXIST")
    BY ResultParts DEF Owned
  <2>3. CreateIn(s, p, r) = Result(s, "EEXIST")
    BY <1>2, <2>1, <2>2, Zenon DEF CreateIn
  <2>4. CreateIn(s, p, r).fs = s
    BY <2>3, ResultParts
  <2> QED BY <2>4, Zenon DEF Created
<1>3. CASE r.err = "ok" /\ ~NameTaken(s, d, name) /\ s.count >= MAX_NODES
  <2>1. tmpfs_dir_create(s, d, name) = Result(s, "ENOMEM")
    BY <1>3, Zenon DEF tmpfs_dir_create
  <2>2. Owned(Result(s, "ENOMEM"), p, r) = Result(s, "ENOMEM")
    BY ResultParts DEF Owned
  <2>3. CreateIn(s, p, r) = Result(s, "ENOMEM")
    BY <1>3, <2>1, <2>2, Zenon DEF CreateIn
  <2>4. CreateIn(s, p, r).fs = s
    BY <2>3, ResultParts
  <2> QED BY <2>4, Zenon DEF Created
<1>4. CASE r.err = "ok" /\ ~NameTaken(s, d, name) /\ ~(s.count >= MAX_NODES)
  <2>1. tmpfs_dir_create(s, d, name) = Result(t, "ok")
    BY <1>4, Zenon DEF tmpfs_dir_create
  <2>2. d \in Nodes /\ d \in Known(s) /\ name \in Names
        /\ s.node[d].type = "dir" /\ s.node[d].ops = "tmpfs"
    BY <1>4, Zenon DEF Into
  <2>3. s.used \in SUBSET Frames /\ f \in Frames /\ (f = 0 \/ f \in Frames \ s.used)
    <3>1. s.used \in SUBSET Frames
      BY Zenon DEF TreeOK, FsSet
    <3>2. f \in Frames /\ (f = 0 \/ Run(f, 1) \subseteq Frames \ s.used)
      BY <3>1, AllocRun
    <3>3. f \in Run(f, 1)
      BY <3>2, FsAssumption DEF Run, Frames
    <3> QED BY <3>1, <3>2, <3>3, Zenon
  <2> HIDE DEF f
  <2>4. /\ w \in VnodeSet /\ w.parent = d /\ w.name = name /\ w.type = "file" /\ w.linked
        /\ w.capacity = 1 /\ w.size = 0 /\ w.data = f
    <3>0. name \in NodeNames
      BY <2>2, Zenon DEF NodeNames
    <3>1. f \in Nat /\ 0 \in Ids
      BY <2>3, FsAssumption DEF Frames
    <3>2. VFS_DEFAULT_FILE_MODE \in [u : Rwx, g : Rwx, o : Rwx]
      BY Zenon DEF VFS_DEFAULT_FILE_MODE, Perms, Rwx
    <3> HIDE DEF d, name
    <3> QED BY <2>2, <3>0, <3>1, <3>2, Zenon DEF Vnode, VnodeSet
  <2>5. t = [NewNode(s, w) EXCEPT !.used = s.used \cup {f}]
    <3>1. NewNode(s, w).used = s.used
      BY Zenon DEF NewNode, TreeOK, FsSet
    <3> QED BY <3>1, Zenon DEF tmpfs_create_file
  <2> HIDE DEF w
  <2>6. w.type = "file" => FileOK(w)
    <3>1. f \in Nat /\ f + 1 <= NFRAMES
      BY <2>3, FsAssumption DEF Frames
    <3> QED BY <2>4, <3>1, FsAssumption DEF FileOK
  <2>7. s.used \cup {f} \in SUBSET Frames
    BY <2>3, Zenon
  <2> HIDE DEF t
  <2>8. /\ TreeOK(t) /\ m \in Nodes /\ m # ROOT /\ t.count = m + 1 /\ t.used = s.used \cup {f}
        /\ t.node[m] = w /\ OnlyFile(s, t, m)
        /\ \A u \in Vnodes : u # m => t.node[u] = s.node[u]
    BY <1>4, <2>2, <2>4, <2>5, <2>6, <2>7, NewNodeOK
  <2>9. AddedFile(s, t, m)
    BY <2>3, <2>4, <2>8, Zenon DEF AddedFile
  <2>10. lookup(t, d, name) \in Nodes
    <3>1. d \in Vnodes /\ d # m
      BY <2>2 DEF Known, TreeOK
    <3>2. t.node[d].type = "dir" /\ t.node[d].ops = "tmpfs"
      BY <2>2, <2>8, <3>1, Zenon
    <3>3. t.node[m].linked /\ t.node[m].parent = d /\ t.node[m].name = name
      BY <2>4, <2>8, Zenon
    <3> QED BY <2>8, <3>2, <3>3, FoundNew
  <2> DEFINE u == Chowned(t, lookup(t, d, name), p)
  <2>11. TreeOK(u) /\ Restyled(t, u)
    BY <2>8, <2>10, ChownedOK, Zenon DEF Vnodes
  <2>12. CreateIn(s, p, r) = Result(u, "ok")
    BY <1>4, <2>1, ResultParts DEF CreateIn, Owned
  <2> HIDE DEF u
  <2>13. AddedFile(s, u, m)
    BY <2>9, <2>11, RestyleAdded, Zenon
  <2>14. CreateIn(s, p, r).fs = u
    BY <2>12, ResultParts
  <2> QED BY <2>8, <2>11, <2>13, <2>14, Zenon DEF Created
<1> QED BY <1>1, <1>2, <1>3, <1>4, Zenon

(* A directory made by tmpfs, with its owner. *)
LEMMA MkdirOK ==
  ASSUME NEW s, TreeOK(s), NEW p \in Procs, proc \in [Procs -> ProcSet], NEW r, Into(s, r)
  PROVE  TreeOK(MkdirIn(s, p, r).fs) /\ MadeDir(s, MkdirIn(s, p, r).fs)
<1> DEFINE d == r.dir
           name == r.name
           m == s.count
           w == Vnode("dir", name, d, VFS_DEFAULT_DIR_MODE)
           t == NewNode(s, w)
<1>1. CASE r.err # "ok"
  BY <1>1, ResultParts, Zenon DEF MkdirIn, MadeDir
<1>2. CASE r.err = "ok" /\ NameTaken(s, d, name)
  <2>1. tmpfs_dir_mkdir(s, d, name) = Result(s, "EEXIST")
    BY <1>2, Zenon DEF tmpfs_dir_mkdir
  <2>2. Owned(Result(s, "EEXIST"), p, r) = Result(s, "EEXIST")
    BY ResultParts DEF Owned
  <2>3. MkdirIn(s, p, r) = Result(s, "EEXIST")
    BY <1>2, <2>1, <2>2, Zenon DEF MkdirIn
  <2>4. MkdirIn(s, p, r).fs = s
    BY <2>3, ResultParts
  <2> QED BY <2>4, Zenon DEF MadeDir
<1>3. CASE r.err = "ok" /\ ~NameTaken(s, d, name) /\ s.count >= MAX_NODES
  <2>1. tmpfs_dir_mkdir(s, d, name) = Result(s, "ENOMEM")
    BY <1>3, Zenon DEF tmpfs_dir_mkdir
  <2>2. Owned(Result(s, "ENOMEM"), p, r) = Result(s, "ENOMEM")
    BY ResultParts DEF Owned
  <2>3. MkdirIn(s, p, r) = Result(s, "ENOMEM")
    BY <1>3, <2>1, <2>2, Zenon DEF MkdirIn
  <2>4. MkdirIn(s, p, r).fs = s
    BY <2>3, ResultParts
  <2> QED BY <2>4, Zenon DEF MadeDir
<1>4. CASE r.err = "ok" /\ ~NameTaken(s, d, name) /\ ~(s.count >= MAX_NODES)
  <2>1. tmpfs_dir_mkdir(s, d, name) = Result(t, "ok")
    BY <1>4, Zenon DEF tmpfs_dir_mkdir
  <2>2. d \in Nodes /\ d \in Known(s) /\ name \in Names
        /\ s.node[d].type = "dir" /\ s.node[d].ops = "tmpfs"
    BY <1>4, Zenon DEF Into
  <2>3. s \in FsSet /\ s.used \in SUBSET Frames
    BY Zenon DEF TreeOK, FsSet
  <2>4. /\ w \in VnodeSet /\ w.parent = d /\ w.name = name /\ w.type = "dir" /\ w.linked
        /\ w.capacity = 0 /\ w.size = 0
    <3>1. name \in NodeNames
      BY <2>2, Zenon DEF NodeNames
    <3>2. 0 \in Ids
      BY FsAssumption, Zenon
    <3>3. VFS_DEFAULT_DIR_MODE \in [u : Rwx, g : Rwx, o : Rwx]
      BY Zenon DEF VFS_DEFAULT_DIR_MODE, Perms, Rwx
    <3> HIDE DEF d, name
    <3> QED BY <2>2, <3>1, <3>2, <3>3, Zenon DEF Vnode, VnodeSet
  <2> HIDE DEF w
  <2>5. t = [NewNode(s, w) EXCEPT !.used = s.used]
    BY <2>3, Zenon DEF NewNode, FsSet
  <2> HIDE DEF t
  <2>6. w.type = "file" => FileOK(w)
    BY <2>4, Zenon
  <2>7. /\ TreeOK(t) /\ m \in Nodes /\ m # ROOT /\ t.count = m + 1 /\ t.used = s.used
        /\ t.node[m] = w /\ OnlyFile(s, t, m)
        /\ \A u \in Vnodes : u # m => t.node[u] = s.node[u]
    <3> DEFINE used == s.used
    <3>1. used \in SUBSET Frames /\ t = [NewNode(s, w) EXCEPT !.used = used]
      BY <2>3, <2>5, Zenon
    <3>2. w.parent \in Known(s) /\ w.name \in Names /\ w.type \in {"file", "dir"}
      BY <2>2, <2>4, Zenon
    <3> HIDE DEF used
    <3>3. /\ TreeOK(t) /\ m \in Nodes /\ m # ROOT /\ t.count = m + 1 /\ t.used = used
          /\ t.node[m] = w /\ OnlyFile(s, t, m)
          /\ \A u \in Vnodes : u # m => t.node[u] = s.node[u]
      BY <1>4, <2>4, <2>6, <3>1, <3>2, NewNodeOK
    <3> QED BY <3>3, Zenon DEF used
  <2>8. AddedDir(s, t, m)
    BY <2>4, <2>7, Zenon DEF AddedDir
  <2>9. lookup(t, d, name) \in Nodes
    <3>1. d \in Vnodes /\ d # m
      BY <2>2 DEF Known, TreeOK
    <3>2. t.node[d].type = "dir" /\ t.node[d].ops = "tmpfs"
      BY <2>2, <2>7, <3>1, Zenon
    <3>3. t.node[m].linked /\ t.node[m].parent = d /\ t.node[m].name = name
      BY <2>4, <2>7, Zenon
    <3> QED BY <2>7, <3>2, <3>3, FoundNew, Zenon
  <2> DEFINE u == Chowned(t, lookup(t, d, name), p)
  <2>10. TreeOK(u) /\ Restyled(t, u)
    BY <2>7, <2>9, ChownedOK, Zenon DEF Vnodes
  <2>11. MkdirIn(s, p, r) = Result(u, "ok")
    BY <1>4, <2>1, ResultParts DEF MkdirIn, Owned
  <2> HIDE DEF u
  <2>12. AddedDir(s, u, m)
    BY <2>8, <2>10, RestyleAdded, Zenon
  <2>13. MkdirIn(s, p, r).fs = u
    BY <2>11, ResultParts
  <2> QED BY <2>7, <2>10, <2>12, <2>13, Zenon DEF MadeDir
<1> QED BY <1>1, <1>2, <1>3, <1>4, Zenon

(* A name removed by tmpfs. *)
LEMMA UnlinkOK ==
  ASSUME NEW s, TreeOK(s), NEW r
  PROVE  TreeOK(UnlinkIn(s, r).fs) /\ Unlinked(s, UnlinkIn(s, r).fs)
<1> DEFINE n == tmpfs_dir_lookup(s, r.dir, r.name)
<1>1. CASE r.err # "ok"
  BY <1>1, ResultParts, Zenon DEF UnlinkIn, Unlinked
<1>2. CASE r.err = "ok" /\ n = NoNode
  <2>1. UnlinkIn(s, r) = Result(s, "ENOENT")
    BY <1>2, ZenonT(60) DEF UnlinkIn, tmpfs_dir_unlink
  <2>2. UnlinkIn(s, r).fs = s
    BY <2>1, ResultParts
  <2> QED BY <2>2, Zenon DEF Unlinked
<1>3. CASE r.err = "ok" /\ n # NoNode /\ Children(s, n) # {}
  <2>1. UnlinkIn(s, r) = Result(s, "ENOTEMPTY")
    BY <1>3, ZenonT(60) DEF UnlinkIn, tmpfs_dir_unlink
  <2>2. UnlinkIn(s, r).fs = s
    BY <2>1, ResultParts
  <2> QED BY <2>2, Zenon DEF Unlinked
<1>4. CASE r.err = "ok" /\ n # NoNode /\ ~(Children(s, n) # {})
  <2> DEFINE v == s.node[n]
             w == [v EXCEPT !.linked = FALSE]
             used == s.used \ Freed(v)
             node == [s.node EXCEPT ![n] = w]
             t == [s EXCEPT !.node = node, !.used = used]
  <2>1. n \in Children(s, r.dir)
    BY <1>4, LookupPlace, Zenon
  <2>2. n \in Nodes /\ n \in Vnodes /\ n # ROOT /\ v.linked
    BY <2>1, Zenon DEF Children, Vnodes
  <2> HIDE DEF n
  <2>3. s \in FsSet /\ v \in VnodeSet
    BY <2>2, Zenon DEF TreeOK, FsSet
  <2>4. UnlinkIn(s, r) = Result(t, "ok")
    <3>1. t = [s EXCEPT !.node[n].linked = FALSE, !.used = @ \ Freed(s.node[n])]
      BY <2>2, <2>3, Zenon DEF FsSet
    <3>2. UnlinkIn(s, r) = tmpfs_dir_unlink(s, n)
      BY <1>4, Zenon DEF UnlinkIn, n
    <3>3. tmpfs_dir_unlink(s, n) =
             Result([s EXCEPT !.node[n].linked = FALSE, !.used = @ \ Freed(s.node[n])], "ok")
      BY <1>4, Zenon DEF tmpfs_dir_unlink
    <3> QED BY <3>1, <3>2, <3>3, Zenon
  <2>5. /\ w \in VnodeSet /\ ~w.linked /\ w.type = v.type /\ w.name = v.name
        /\ w.parent = v.parent /\ w.data = v.data /\ w.capacity = v.capacity /\ w.size = v.size
    BY <2>3, Zenon DEF VnodeSet
  <2>6. used \in SUBSET Frames
    BY <2>3, Zenon DEF FsSet
  <2> HIDE DEF w
  <2>7. /\ node \in [Vnodes -> VnodeSet] /\ node[n] = w
        /\ \A u \in Vnodes : u # n => node[u] = s.node[u]
    BY <2>2, <2>3, <2>5, Zenon DEF FsSet
  <2> HIDE DEF node
  <2>8. HasFields(t, node, s.count, used)
    <3>1. s.count \in Nat
      BY <2>3, Zenon DEF FsSet
    <3> QED BY <2>3, <2>6, <2>7, <3>1, SetFields, Zenon
  <2> HIDE DEF t
  <2>9. /\ t \in FsSet /\ t.count = s.count /\ t.used = used /\ t.node[n] = w
        /\ \A u \in Vnodes : u # n => t.node[u] = s.node[u]
    BY <2>7, <2>8, Zenon DEF HasFields
  <2>10. \A u \in Vnodes :
            /\ t.node[u].type = s.node[u].type /\ t.node[u].name = s.node[u].name
            /\ t.node[u].parent = s.node[u].parent /\ (~s.node[u].linked => ~t.node[u].linked)
            /\ t.node[u].data = s.node[u].data /\ t.node[u].capacity = s.node[u].capacity
            /\ t.node[u].size = s.node[u].size
    BY <2>5, <2>9, Zenon
  <2>11. Nodes \subseteq Vnodes /\ DOMAIN Devices \subseteq Vnodes
    BY Zenon DEF Vnodes
  <2>12. TreeOK(t)
    <3>1. t.count \in 1 .. MAX_NODES
      BY <2>9, Zenon DEF TreeOK
    <3>2. \A u \in Vnodes : t.node[u].parent < t.count
      BY <2>9, <2>10, Zenon DEF TreeOK
    <3>3. \A k \in Nodes : k # ROOT => t.node[k].parent < k
      <4>1. \A k \in Nodes : k # ROOT => s.node[k].parent < k
        BY Zenon DEF TreeOK
      <4> QED BY <2>10, <2>11, <4>1, Zenon
    <3>4. \A k \in Nodes : k # ROOT /\ k < t.count => t.node[k].name \in Names
      BY <2>9, <2>10, <2>11, Zenon DEF TreeOK
    <3>5. \A k \in Nodes : k >= t.count => t.node[k].type = "none" /\ ~t.node[k].linked
      <4>1. \A k \in Nodes : k >= s.count => s.node[k].type = "none" /\ ~s.node[k].linked
        BY Zenon DEF TreeOK
      <4> QED BY <2>9, <2>10, <2>11, <4>1, Zenon
    <3>6. \A u \in DOMAIN Devices : t.node[u].type = "dev"
      BY <2>10, <2>11, Zenon DEF TreeOK
    <3>7. \A k \in Nodes : t.node[k].type = "file" => FileOK(t.node[k])
      BY <2>10, <2>11, ZenonT(60) DEF TreeOK, FileOK
    <3> QED BY <2>9, <3>1, <3>2, <3>3, <3>4, <3>5, <3>6, <3>7, Zenon DEF TreeOK
  <2>13. OnlyFile(s, t, n)
    BY <2>9, <2>11, Zenon DEF OnlyFile, SameFile
  <2>14. Removed(s, t, n)
    BY <2>2, <2>5, <2>9, <2>13, Zenon DEF Removed, Freed
  <2>15. UnlinkIn(s, r).fs = t
    BY <2>4, ResultParts
  <2> QED BY <2>2, <2>12, <2>14, <2>15, Zenon DEF Unlinked
<1> QED BY <1>1, <1>2, <1>3, <1>4, Zenon

-----------------------------------------------------------------------------
(* Paths given to the calls *)

(* A path from the working directory is a sequence of names, and leads to  *)
(* a known place.                                                          *)
LEMMA PathPlace ==
  ASSUME NEW s, TreeOK(s), NEW p \in Procs, proc \in [Procs -> ProcSet],
         NEW path \in Paths \cup OwnPaths
  PROVE  /\ vfs_combine_path(proc[p].cwd, path) \in Seq(Names)
         /\ vfs_resolve_path_cwd(s, p, path) \in Place(s)
<1> DEFINE names == vfs_combine_path(proc[p].cwd, path)
<1>1. path.names \in Seq(Names)
  BY FsAssumption, Zenon
<1>2. proc[p].cwd \in Seq(Names)
  BY Zenon DEF ProcSet
<1>3. proc[p].cwd \o path.names \in Seq(Names)
  BY <1>1, <1>2
<1>4. names \in Seq(Names)
  BY <1>1, <1>3, Zenon DEF vfs_combine_path
<1> HIDE DEF names
<1>5. Len(names) \in Nat
  BY <1>4
<1>6. vfs_resolve_path(s, names) \in Place(s)
  BY <1>5, ResolvePlace, Zenon
<1> QED BY <1>4, <1>6, Zenon DEF vfs_resolve_path_cwd, names

(* resolve_parent_dir finds a directory that can be changed, or an error. *)
LEMMA ParentOK ==
  ASSUME NEW s, TreeOK(s), NEW p \in Procs, proc \in [Procs -> ProcSet],
         NEW path \in Paths \cup OwnPaths
  PROVE  Into(s, resolve_parent_dir(s, p, path))
<1> DEFINE names == vfs_combine_path(proc[p].cwd, path)
           d == vfs_resolve_path(s, DirPart(names))
           name == BasePart(names)
           r == Changeable(s, p, d, name)
<1>1. names \in Seq(Names)
  BY PathPlace, Zenon
<1>2. resolve_parent_dir(s, p, path) = r
  BY Zenon DEF resolve_parent_dir, InParent
<1> HIDE DEF names
<1>3. d \in Place(s)
  <2>1. Len(names) \in Nat
    BY <1>1
  <2>2. Len(DirPart(names)) \in Nat
    <3>1. DirPart(names) \in Seq(Names)
      BY <1>1, <2>1 DEF DirPart
    <3> QED BY <3>1
  <2> QED BY <2>2, ResolvePlace, Zenon
<1>4. name = "" \/ name \in Names
  <2>1. CASE names = << >>
    BY <2>1, Zenon DEF BasePart
  <2>2. CASE names # << >>
    <3>1. Len(names) \in 1 .. Len(names)
      BY <1>1, <2>2
    <3>2. names[Len(names)] \in Names
      BY <1>1, <3>1
    <3>3. Parts[names[Len(names)]][1] \in Names
      BY <3>2, FsAssumption, Zenon
    <3> QED BY <2>2, <3>3, Zenon DEF BasePart
  <2> QED BY <2>1, <2>2, Zenon
<1> HIDE DEF d, name
<1>5. r.dir = d /\ r.name = name
  BY Zenon DEF Changeable
<1>6. r.err = IF name = "" THEN "EINVAL"
              ELSE IF d = NoNode THEN "ENOENT"
              ELSE IF s.node[d].type # "dir" THEN "ENOTDIR"
              ELSE IF s.node[d].ops # "tmpfs" THEN "EROFS"
              ELSE IF ~vfs_check_perm(s.node[d], p, "w") THEN "EACCES" ELSE "ok"
  BY Zenon DEF Changeable
<1> HIDE DEF r
<1>7. ASSUME r.err = "ok"
      PROVE  name # "" /\ d # NoNode /\ s.node[d].type = "dir" /\ s.node[d].ops = "tmpfs"
  <2>1. "EINVAL" # "ok" /\ "ENOENT" # "ok" /\ "ENOTDIR" # "ok" /\ "EROFS" # "ok"
    BY Zenon
  <2> QED BY <1>6, <1>7, <2>1, Zenon
<1>8. ASSUME r.err = "ok"
      PROVE  d \in Nodes
  <2>1. d \in Vnodes /\ s.node[d].type = "dir"
    BY <1>3, <1>7, <1>8, Zenon DEF Place, Known
  <2>2. \A v \in DOMAIN Devices : s.node[v].type = "dev"
    BY Zenon DEF TreeOK
  <2> QED BY <2>1, <2>2, Zenon DEF Vnodes
<1>9. d # NoNode => d \in Known(s)
  BY <1>3, Zenon DEF Place
<1> QED BY <1>2, <1>4, <1>5, <1>7, <1>8, <1>9, Zenon DEF Into

-----------------------------------------------------------------------------
(* The pages of files *)

Holds(s, n, f) == s.node[n].linked /\ f \in Backing(s.node[n])

(* Page 0 is nobody's; every other page in use is behind one linked file,  *)
(* and every page of a linked file is in use.                              *)
Ledger(s) ==
    /\ 0 \in s.used
    /\ \A n \in Nodes : s.node[n].type = "file" => s.node[n].data # 0
    /\ \A n \in Nodes : s.node[n].linked => Backing(s.node[n]) \subseteq s.used
    /\ \A f \in s.used : f # 0 => \E n \in Nodes : Holds(s, n, f)
    /\ \A n, m \in Nodes, f \in Frames : Holds(s, n, f) /\ Holds(s, m, f) => n = m

(* The file has the pages it had. *)
SamePages(s, t, n) ==
    /\ t.node[n].type = s.node[n].type /\ t.node[n].linked = s.node[n].linked
    /\ t.node[n].data = s.node[n].data /\ t.node[n].capacity = s.node[n].capacity

(* The pages behind the same file are the same. *)
LEMMA SameHolds ==
  ASSUME NEW s, NEW t, NEW n, SamePages(s, t, n) \/ SameFile(s, t, n)
  PROVE  /\ Backing(t.node[n]) = Backing(s.node[n])
         /\ \A f : Holds(t, n, f) <=> Holds(s, n, f)
<1>1. Backing(t.node[n]) = Backing(s.node[n])
  BY Zenon DEF SameFile, SamePages, Backing
<1> QED BY <1>1, Zenon DEF SameFile, SamePages, Holds

(* A file that has all its pages from 1 on does not hold page 0. *)
LEMMA NotPageZero ==
  ASSUME NEW s, s \in FsSet, NEW n \in Nodes,
         s.node[n].type = "file" => s.node[n].data # 0
  PROVE  0 \notin Backing(s.node[n])
<1>1. s.node[n].data \in Nat /\ s.node[n].capacity \in Nat
  BY Zenon DEF FsSet, VnodeSet, Vnodes
<1> QED BY <1>1 DEF Backing, Run

(* Page numbers are integers, and a run of one page is that page. *)
LEMMA FrameInt ==
  ASSUME NEW f \in Frames
  PROVE  f \in Int
BY FsAssumption DEF Frames
LEMMA OnePage ==
  ASSUME NEW f \in Int
  PROVE  Run(f, 1) = {f}
BY DEF Run

(* Adding a file with a page of its own keeps the ledger. *)
LEMMA LedgerAdded ==
  ASSUME NEW s, NEW t, TreeOK(s), TreeOK(t), Ledger(s), NEW m \in Nodes, AddedFile(s, t, m),
         t.node[m].data # 0
  PROVE  Ledger(t)
<1> DEFINE g == t.node[m].data
<1>1. /\ m = s.count /\ t.node[m].type = "file" /\ t.node[m].linked /\ t.node[m].capacity = 1
      /\ t.used = s.used \cup {g} /\ g \in Frames \ s.used
  BY Zenon DEF AddedFile
<1>2. \A n \in Nodes : n # m => SameFile(s, t, n)
  BY Zenon DEF AddedFile, OnlyFile
<1>3. Backing(t.node[m]) = {g}
  <2>1. g \in Int
    BY <1>1, FrameInt, Zenon
  <2>2. Run(g, 1) = {g}
    BY <2>1, OnePage, Zenon
  <2> QED BY <1>1, <2>2, Zenon DEF Backing
<1>4. \A f : Holds(t, m, f) <=> f = g
  BY <1>1, <1>3, Zenon DEF Holds
<1>5. s.count >= s.count /\ s.used \in SUBSET Frames
  BY DEF TreeOK, FsSet
<1>6. \A f : ~Holds(s, m, f)
  <2>1. ~s.node[m].linked
    BY <1>1, <1>5, Zenon DEF TreeOK
  <2> QED BY <2>1, Zenon DEF Holds
<1> HIDE DEF g
<1>7. 0 \in t.used
  BY <1>1, Zenon DEF Ledger
<1>8. \A n \in Nodes : t.node[n].type = "file" => t.node[n].data # 0
  BY <1>2, Zenon DEF Ledger, SameFile
<1>9. \A n \in Nodes : t.node[n].linked => Backing(t.node[n]) \subseteq t.used
  <2>1. \A n \in Nodes : n # m /\ t.node[n].linked => Backing(t.node[n]) \subseteq s.used
    BY <1>2, SameHolds, Zenon DEF Ledger, SameFile
  <2> QED BY <1>1, <1>3, <2>1, Zenon
<1>10. ASSUME NEW f \in t.used, f # 0
       PROVE  \E n \in Nodes : Holds(t, n, f)
  <2>1. CASE f = g
    BY <1>4, <2>1, Zenon
  <2>2. CASE f # g
    <3>1. f \in s.used
      BY <1>1, <2>2, Zenon
    <3>2. PICK n \in Nodes : Holds(s, n, f)
      BY <1>10, <3>1, Zenon DEF Ledger
    <3>3. n # m
      BY <1>6, <3>2, Zenon
    <3> QED BY <1>2, <3>2, <3>3, SameHolds, Zenon
  <2> QED BY <2>1, <2>2, Zenon
<1>11. ASSUME NEW n \in Nodes, n # m, NEW f, Holds(t, n, f)
       PROVE  Holds(s, n, f) /\ f \in s.used /\ f # g
  <2>1. Holds(s, n, f)
    BY <1>2, <1>11, SameHolds, Zenon
  <2>2. s.node[n].linked => Backing(s.node[n]) \subseteq s.used
    BY Zenon DEF Ledger
  <2>3. f \in s.used
    BY <2>1, <2>2, Zenon DEF Holds
  <2> QED BY <1>1, <2>1, <2>3, Zenon
<1>12. ASSUME NEW n \in Nodes, NEW k \in Nodes, NEW f \in Frames, Holds(t, n, f), Holds(t, k, f)
       PROVE  n = k
  <2>1. CASE n = m
    <3>1. f = g
      BY <1>4, <1>12, <2>1, Zenon
    <3> QED BY <1>11, <1>12, <2>1, <3>1, Zenon
  <2>2. CASE k = m
    <3>1. f = g
      BY <1>4, <1>12, <2>2, Zenon
    <3> QED BY <1>11, <1>12, <2>2, <3>1, Zenon
  <2>3. CASE n # m /\ k # m
    BY <1>11, <1>12, <2>3, Zenon DEF Ledger
  <2> QED BY <2>1, <2>2, <2>3, Zenon
<1> QED BY <1>7, <1>8, <1>9, <1>10, <1>12, Zenon DEF Ledger

(* Nodes that hold no pages do not matter to the ledger. *)
LEMMA LedgerSame ==
  ASSUME NEW s, NEW t, Ledger(s), t.used = s.used,
         \A n \in Nodes : t.node[n].type = "file" => s.node[n].type = "file"
                                                     /\ t.node[n].data = s.node[n].data,
         \A n \in Nodes : s.node[n].linked /\ s.node[n].type = "file"
                           => SamePages(s, t, n) \/ SameFile(s, t, n),
         \A n \in Nodes : t.node[n].linked /\ t.node[n].type = "file"
                           => SamePages(s, t, n) \/ SameFile(s, t, n)
  PROVE  Ledger(t)
<1>1. \A n \in Nodes : \A f : Holds(t, n, f) <=> Holds(s, n, f)
  BY SameHolds, Zenon DEF Holds, Backing, SamePages, SameFile
<1>2. \A n \in Nodes : t.node[n].linked => Backing(t.node[n]) \subseteq t.used
  <2> SUFFICES ASSUME NEW n \in Nodes, t.node[n].linked, NEW f \in Backing(t.node[n])
               PROVE  f \in t.used
    BY Zenon
  <2>1. Holds(s, n, f)
    BY <1>1, Zenon DEF Holds
  <2>2. s.node[n].linked => Backing(s.node[n]) \subseteq s.used
    BY Zenon DEF Ledger
  <2> QED BY <2>1, <2>2, Zenon DEF Holds
<1>3. \A n \in Nodes : t.node[n].type = "file" => t.node[n].data # 0
  BY Zenon DEF Ledger
<1>4. 0 \in t.used /\ \A f \in t.used : f # 0 => \E n \in Nodes : Holds(t, n, f)
  BY <1>1, Zenon DEF Ledger
<1>5. \A n, m \in Nodes, f \in Frames : Holds(t, n, f) /\ Holds(t, m, f) => n = m
  BY <1>1, Zenon DEF Ledger
<1> QED BY <1>2, <1>3, <1>4, <1>5, Zenon DEF Ledger

(* Removing a file gives back its pages and no others. *)
LEMMA LedgerRemoved ==
  ASSUME NEW s, NEW t, TreeOK(s), Ledger(s), NEW m \in Nodes, Removed(s, t, m)
  PROVE  Ledger(t)
<1> DEFINE B == Backing(s.node[m])
<1>1. /\ s.node[m].linked /\ ~t.node[m].linked /\ t.node[m].type = s.node[m].type
      /\ t.node[m].data = s.node[m].data /\ t.used = s.used \ B
  BY Zenon DEF Removed
<1>2. \A n \in Nodes : n # m => SameFile(s, t, n)
  BY Zenon DEF Removed, OnlyFile
<1>3. \A f : Holds(s, m, f) <=> f \in B
  BY <1>1, Zenon DEF Holds
<1>4. \A n \in Nodes : \A f : Holds(t, n, f) <=> n # m /\ Holds(s, n, f)
  BY <1>1, <1>2, SameHolds, Zenon DEF Holds
<1>5. s \in FsSet /\ s.used \in SUBSET Frames
  BY Zenon DEF TreeOK, FsSet
<1>6. 0 \notin B
  BY <1>5, NotPageZero, Zenon DEF Ledger
<1> HIDE DEF B
<1>7. 0 \in t.used
  BY <1>1, <1>6, Zenon DEF Ledger
<1>8. \A n \in Nodes : t.node[n].type = "file" => t.node[n].data # 0
  <2>1. \A n \in Nodes : t.node[n].type = s.node[n].type /\ t.node[n].data = s.node[n].data
    BY <1>1, <1>2, Zenon DEF SameFile
  <2> QED BY <2>1, Zenon DEF Ledger
<1>9. ASSUME NEW n \in Nodes, NEW f, Holds(s, n, f)
      PROVE  f \in s.used /\ f \in Frames
  <2>1. s.node[n].linked => Backing(s.node[n]) \subseteq s.used
    BY Zenon DEF Ledger
  <2> QED BY <1>5, <1>9, <2>1, Zenon DEF Holds
<1>10. \A n \in Nodes : t.node[n].linked => Backing(t.node[n]) \subseteq t.used
  <2> SUFFICES ASSUME NEW n \in Nodes, t.node[n].linked, NEW f \in Backing(t.node[n])
               PROVE  f \in t.used
    BY Zenon
  <2>1. n # m /\ Holds(s, n, f)
    BY <1>4, Zenon DEF Holds
  <2>2. f \in s.used /\ f \in Frames
    BY <1>9, <2>1, Zenon
  <2>3. f \notin B
    BY <1>3, <2>1, <2>2, Zenon DEF Ledger
  <2> QED BY <1>1, <2>2, <2>3, Zenon
<1>11. ASSUME NEW f \in t.used, f # 0
       PROVE  \E n \in Nodes : Holds(t, n, f)
  <2>1. f \in s.used /\ f \notin B
    BY <1>1, Zenon
  <2>2. PICK n \in Nodes : Holds(s, n, f)
    BY <1>11, <2>1, Zenon DEF Ledger
  <2> QED BY <1>3, <1>4, <2>1, <2>2, Zenon
<1>12. \A n, k \in Nodes, f \in Frames : Holds(t, n, f) /\ Holds(t, k, f) => n = k
  BY <1>4, Zenon DEF Ledger
<1> QED BY <1>7, <1>8, <1>10, <1>11, <1>12, Zenon DEF Ledger

(* t is s with file m in new pages, which were free. *)
MovedTo(s, t, m, new) ==
    /\ s.node[m].linked /\ s.node[m].type = "file" /\ OnlyFile(s, t, m)
    /\ t.node[m].linked /\ t.node[m].type = "file" /\ t.node[m].data # 0
    /\ Backing(t.node[m]) = new /\ new \subseteq Frames \ s.used
    /\ t.used = (s.used \cup new) \ Backing(s.node[m])

(* A file that moves takes its new pages and gives back its old ones. *)
LEMMA LedgerMoved ==
  ASSUME NEW s, NEW t, TreeOK(s), Ledger(s), NEW m \in Nodes, NEW new, MovedTo(s, t, m, new)
  PROVE  Ledger(t)
<1> DEFINE B == Backing(s.node[m])
<1>1. /\ s.node[m].linked /\ t.node[m].linked /\ t.node[m].data # 0
      /\ Backing(t.node[m]) = new /\ new \subseteq Frames \ s.used
      /\ t.used = (s.used \cup new) \ B
  BY Zenon DEF MovedTo
<1>2. \A n \in Nodes : n # m => SameFile(s, t, n)
  BY Zenon DEF MovedTo, OnlyFile
<1>3. \A f : (Holds(s, m, f) <=> f \in B) /\ (Holds(t, m, f) <=> f \in new)
  BY <1>1, Zenon DEF Holds
<1>4. \A n \in Nodes : \A f : n # m => (Holds(t, n, f) <=> Holds(s, n, f))
  BY <1>2, SameHolds, Zenon
<1>5. s \in FsSet /\ s.used \in SUBSET Frames
  BY Zenon DEF TreeOK, FsSet
<1>6. 0 \notin B
  BY <1>5, NotPageZero, Zenon DEF Ledger
<1> HIDE DEF B
<1>7. 0 \in t.used
  BY <1>1, <1>6, Zenon DEF Ledger
<1>8. \A n \in Nodes : t.node[n].type = "file" => t.node[n].data # 0
  BY <1>1, <1>2, ZenonT(60) DEF Ledger, SameFile
<1>9. ASSUME NEW n \in Nodes, NEW f, Holds(s, n, f)
      PROVE  f \in s.used /\ f \in Frames /\ f \notin new
  <2>1. s.node[n].linked => Backing(s.node[n]) \subseteq s.used
    BY Zenon DEF Ledger
  <2> QED BY <1>1, <1>5, <1>9, <2>1, Zenon DEF Holds
<1>10. B \subseteq s.used
  BY <1>3, <1>9, Zenon
<1>11. \A n \in Nodes : t.node[n].linked => Backing(t.node[n]) \subseteq t.used
  <2> SUFFICES ASSUME NEW n \in Nodes, t.node[n].linked, NEW f \in Backing(t.node[n])
               PROVE  f \in t.used
    BY Zenon
  <2>1. CASE n = m
    BY <1>1, <1>10, <2>1, Zenon
  <2>2. CASE n # m
    <3>1. Holds(s, n, f)
      BY <1>4, <2>2, Zenon DEF Holds
    <3>2. f \in s.used /\ f \in Frames
      BY <1>9, <3>1, Zenon
    <3>3. f \notin B
      BY <1>3, <2>2, <3>1, <3>2, Zenon DEF Ledger
    <3> QED BY <1>1, <3>2, <3>3, Zenon
  <2> QED BY <2>1, <2>2, Zenon
<1>12. ASSUME NEW f \in t.used, f # 0
       PROVE  \E n \in Nodes : Holds(t, n, f)
  <2>1. CASE f \in new
    BY <1>3, <2>1, Zenon
  <2>2. CASE f \notin new
    <3>1. f \in s.used /\ f \notin B
      BY <1>1, <2>2, Zenon
    <3>2. PICK n \in Nodes : Holds(s, n, f)
      BY <1>12, <3>1, Zenon DEF Ledger
    <3> QED BY <1>3, <1>4, <3>1, <3>2, Zenon
  <2> QED BY <2>1, <2>2, Zenon
<1>13. ASSUME NEW n \in Nodes, NEW k \in Nodes, NEW f \in Frames, Holds(t, n, f), Holds(t, k, f)
       PROVE  n = k
  <2>1. CASE n = m /\ k # m
    BY <1>3, <1>4, <1>9, <1>13, <2>1, Zenon
  <2>2. CASE n # m /\ k = m
    BY <1>3, <1>4, <1>9, <1>13, <2>2, Zenon
  <2>3. CASE n # m /\ k # m
    BY <1>4, <1>13, <2>3, Zenon DEF Ledger
  <2> QED BY <2>1, <2>2, <2>3, Zenon
<1> QED BY <1>7, <1>8, <1>11, <1>12, <1>13, Zenon DEF Ledger

-----------------------------------------------------------------------------
(* Boot *)

HasVnode(v, type, name, parent) ==
    /\ v \in VnodeSet /\ v.type = type /\ v.name = name /\ v.parent = parent /\ v.linked
    /\ v.data = 0 /\ v.capacity = 0 /\ v.size = 0

(* A vnode as it is made. *)
LEMMA VnodeMade ==
  ASSUME NEW type \in {"none", "file", "dir", "dev"}, NEW name \in NodeNames, NEW parent \in Nodes,
         NEW mode \in [u : Rwx, g : Rwx, o : Rwx]
  PROVE  HasVnode(Vnode(type, name, parent, mode), type, name, parent)
<1> DEFINE v == Vnode(type, name, parent, mode)
<1>1. 0 \in Ids
  BY FsAssumption, Zenon
<1>2. v \in VnodeSet
  BY <1>1, Zenon DEF Vnode, VnodeSet
<1>3. /\ v.type = type /\ v.name = name /\ v.parent = parent /\ v.linked
      /\ v.data = 0 /\ v.capacity = 0 /\ v.size = 0
  BY Zenon DEF Vnode
<1> QED BY <1>2, <1>3, Zenon DEF HasVnode

(* What boot makes of node n: a file per page from 1 on, then directories. *)
BootOK(n, v) ==
    /\ v \in VnodeSet /\ v.parent = ROOT
    /\ n # ROOT /\ n <= DevDir => v.name \in Names
    /\ n > DevDir => v.type = "none" /\ ~v.linked
    /\ v.type = "file" => n \in 1 .. Len(BootFiles)
    /\ n \in 1 .. Len(BootFiles) =>
          v.type = "file" /\ v.linked /\ v.data = n /\ v.capacity = 1 /\ v.size = 1

(* There is room for what boot makes. *)
LEMMA BootNumbers ==
  /\ Len(BootFiles) \in Nat /\ Len(BootDirs) \in Nat /\ DevDir \in Nat
  /\ Len(BootFiles) < DevDir /\ DevDir \in Nodes /\ DevDir + 1 \in 1 .. MAX_NODES
  /\ MAX_NODES \in Nat /\ NFRAMES \in Nat /\ Len(BootFiles) < NFRAMES /\ PAGE_SIZE \in Nat \ {0}
<1>1. BootDirs \in Seq(Names) /\ BootFiles \in Seq(Names)
  BY FsAssumption, Zenon
<1>2. Len(BootFiles) \in Nat /\ Len(BootDirs) \in Nat
  BY <1>1
<1>3. /\ MAX_NODES \in Nat /\ NFRAMES \in Nat /\ Len(BootFiles) < NFRAMES
      /\ PAGE_SIZE \in Nat \ {0} /\ Len(BootDirs) + Len(BootFiles) + 2 <= MAX_NODES
  BY FsAssumption, Zenon
<1>4. /\ DevDir \in Nat /\ Len(BootFiles) < DevDir /\ DevDir \in Nodes
      /\ DevDir + 1 \in 1 .. MAX_NODES
  BY <1>2, <1>3 DEF DevDir, Nodes
<1> QED BY <1>2, <1>3, <1>4, Zenon

(* The modes are modes, and the root's name is one. *)
LEMMA BootTypes ==
  /\ VFS_DEFAULT_FILE_MODE \in [u : Rwx, g : Rwx, o : Rwx]
  /\ VFS_DEFAULT_DIR_MODE \in [u : Rwx, g : Rwx, o : Rwx]
  /\ DeviceMode \in [u : Rwx, g : Rwx, o : Rwx]
  /\ "/" \in NodeNames /\ "" \in NodeNames /\ "dev" \in Names
  /\ Names \subseteq NodeNames
<1>1. /\ VFS_DEFAULT_FILE_MODE \in [u : Rwx, g : Rwx, o : Rwx]
      /\ VFS_DEFAULT_DIR_MODE \in [u : Rwx, g : Rwx, o : Rwx]
      /\ DeviceMode \in [u : Rwx, g : Rwx, o : Rwx]
  BY Zenon DEF VFS_DEFAULT_FILE_MODE, VFS_DEFAULT_DIR_MODE, DeviceMode, Perms, Rwx
<1>2. "/" \in NodeNames /\ "" \in NodeNames /\ Names \subseteq NodeNames
  BY Zenon DEF NodeNames
<1> QED BY <1>1, <1>2, FsAssumption, Zenon

(* The nodes of boot. *)
LEMMA BootNodes ==
  ASSUME NEW n \in Nodes
  PROVE  BootOK(n, BootNode(n))
<1> DEFINE nf == Len(BootFiles)
           v == BootNode(n)
<1>1. nf \in Nat /\ DevDir \in Nat /\ nf < DevDir /\ n \in Nat /\ ROOT = 0
  BY BootNumbers DEF Nodes, ROOT
<1>2. ROOT \in Nodes /\ Names \subseteq NodeNames /\ "dev" \in Names
  BY Constants, BootTypes, Zenon
<1>3. \A i \in 1 .. nf : BootFiles[i] \in Names
  BY FsAssumption
<1>4. \A i \in 1 .. Len(BootDirs) : BootDirs[i] \in Names
  BY FsAssumption
<1>5. CASE n = ROOT
  <2>1. v = Vnode("dir", "/", ROOT, VFS_DEFAULT_DIR_MODE)
    BY <1>5, Zenon DEF BootNode
  <2>2. HasVnode(v, "dir", "/", ROOT)
    BY <1>2, <2>1, BootTypes, VnodeMade, Zenon
  <2> HIDE DEF v
  <2>3. v \in VnodeSet /\ v.parent = ROOT /\ v.type = "dir"
    BY <2>2, Zenon DEF HasVnode
  <2>4. ~(n > DevDir) /\ n \notin 1 .. nf
    BY <1>1, <1>5
  <2>5. v.type # "file"
    BY <2>3, Zenon
  <2> QED BY <1>5, <2>3, <2>4, <2>5, Zenon DEF BootOK, v
<1>6. CASE n # ROOT /\ n <= nf
  <2> DEFINE u == Vnode("file", BootFiles[n], ROOT, VFS_DEFAULT_FILE_MODE)
  <2>1. v = [u EXCEPT !.data = n, !.capacity = 1, !.size = 1]
    BY <1>6, Zenon DEF BootNode
  <2>2. n \in 1 .. nf /\ ~(n > DevDir)
    BY <1>1, <1>6
  <2>3. BootFiles[n] \in Names
    BY <1>3, <2>2, Zenon
  <2>4. HasVnode(u, "file", BootFiles[n], ROOT)
    BY <1>2, <2>3, BootTypes, VnodeMade, Zenon
  <2> HIDE DEF v, u
  <2>5. u \in VnodeSet /\ u.type = "file" /\ u.name \in Names /\ u.parent = ROOT /\ u.linked
    BY <2>3, <2>4, Zenon DEF HasVnode
  <2>6. /\ v \in VnodeSet /\ v.type = u.type /\ v.name = u.name /\ v.parent = u.parent
        /\ v.linked = u.linked /\ v.data = n /\ v.capacity = 1 /\ v.size = 1
    BY <1>1, <2>1, <2>5, Zenon DEF VnodeSet
  <2> QED BY <2>2, <2>5, <2>6, Zenon DEF BootOK, v
<1>7. CASE n # ROOT /\ ~(n <= nf) /\ n < DevDir
  <2> DEFINE name == BootDirs[n - nf]
  <2>1. v = Vnode("dir", name, ROOT, VFS_DEFAULT_DIR_MODE)
    BY <1>7, Zenon DEF BootNode
  <2>2. n - nf \in 1 .. Len(BootDirs) /\ n \notin 1 .. nf /\ ~(n > DevDir)
    BY <1>1, <1>7, BootNumbers DEF DevDir
  <2>3. name \in Names
    BY <1>4, <2>2, Zenon
  <2> HIDE DEF name
  <2>4. HasVnode(v, "dir", name, ROOT)
    BY <1>2, <2>1, <2>3, BootTypes, VnodeMade, Zenon
  <2> HIDE DEF v
  <2>5. v \in VnodeSet /\ v.parent = ROOT /\ v.type = "dir" /\ v.name \in Names
    BY <2>3, <2>4, Zenon DEF HasVnode
  <2>6. v.type # "file"
    BY <2>5, Zenon
  <2> QED BY <2>2, <2>5, <2>6, Zenon DEF BootOK, v
<1>8. CASE n # ROOT /\ ~(n <= nf) /\ n = DevDir
  <2> DEFINE u == Vnode("dir", "dev", ROOT, VFS_DEFAULT_DIR_MODE)
  <2>1. ~(n < DevDir) /\ ~(n > DevDir) /\ n \notin 1 .. nf
    BY <1>1, <1>8
  <2>2. v = [u EXCEPT !.ops = "devfs"]
    BY <1>8, <2>1, Zenon DEF BootNode
  <2>3. HasVnode(u, "dir", "dev", ROOT)
    BY <1>2, BootTypes, VnodeMade, Zenon
  <2> HIDE DEF v, u
  <2>4. u \in VnodeSet /\ u.parent = ROOT /\ u.type = "dir" /\ u.name \in Names
    BY <1>2, <2>3, Zenon DEF HasVnode
  <2>5. v \in VnodeSet /\ v.parent = u.parent /\ v.type = u.type /\ v.name = u.name
    BY <2>2, <2>4, Zenon DEF VnodeSet
  <2>6. v.type # "file"
    BY <2>4, <2>5, Zenon
  <2> QED BY <2>1, <2>4, <2>5, <2>6, Zenon DEF BootOK, v
<1>9. CASE n # ROOT /\ ~(n <= nf) /\ ~(n < DevDir) /\ n # DevDir
  <2> DEFINE u == Vnode("none", "", ROOT, VFS_DEFAULT_FILE_MODE)
  <2>1. n > DevDir /\ ~(n <= DevDir) /\ n \notin 1 .. nf
    BY <1>1, <1>9
  <2>2. v = [u EXCEPT !.linked = FALSE]
    BY <1>9, Zenon DEF BootNode, NoVnode
  <2>3. HasVnode(u, "none", "", ROOT)
    BY <1>2, BootTypes, VnodeMade, Zenon
  <2> HIDE DEF v, u
  <2>4. u \in VnodeSet /\ u.parent = ROOT /\ u.type = "none"
    BY <2>3, Zenon DEF HasVnode
  <2>5. v \in VnodeSet /\ v.parent = u.parent /\ v.type = u.type /\ ~v.linked
    BY <2>2, <2>4, Zenon DEF VnodeSet
  <2>6. v.type # "file"
    BY <2>4, <2>5, Zenon
  <2> QED BY <2>1, <2>4, <2>5, <2>6, Zenon DEF BootOK, v
<1> QED BY <1>5, <1>6, <1>7, <1>8, <1>9, Zenon

(* The file system boot leaves. *)
LEMMA BootFs ==
  ASSUME Init
  PROVE  TreeOK(fs) /\ Ledger(fs) /\ DOMAIN Devices \subseteq Known(fs)
<1> DEFINE nf == Len(BootFiles)
<1>1. /\ nf \in Nat /\ DevDir \in Nat /\ nf < DevDir /\ DevDir \in Nodes
      /\ DevDir + 1 \in 1 .. MAX_NODES /\ MAX_NODES \in Nat /\ NFRAMES \in Nat
      /\ nf < NFRAMES /\ PAGE_SIZE \in Nat /\ PAGE_SIZE >= 1 /\ ROOT = 0
  BY BootNumbers DEF ROOT
<1>2. /\ fs = [node |-> [v \in Vnodes |-> IF v \in Nodes THEN BootNode(v) ELSE DeviceNode(v)],
               count |-> DevDir + 1, used |-> 0 .. nf]
  BY Zenon DEF Init
<1>3. \A d \in DOMAIN Devices : d \in Int /\ d < NoNode
  BY Constants, Zenon
<1>4. \A d \in DOMAIN Devices : d \notin Nodes
  BY <1>3 DEF NoNode, Nodes
<1>5. /\ fs.count = DevDir + 1 /\ fs.used = 0 .. nf
      /\ fs.node = [v \in Vnodes |-> IF v \in Nodes THEN BootNode(v) ELSE DeviceNode(v)]
  BY <1>2, Zenon
<1>6. \A n \in Nodes : BootOK(n, fs.node[n])
  BY <1>5, BootNodes, Zenon DEF Vnodes
<1>7. ASSUME NEW d \in DOMAIN Devices
      PROVE  fs.node[d] \in VnodeSet /\ fs.node[d].type = "dev" /\ fs.node[d].parent = DevDir
  <2>1. fs.node[d] = Vnode("dev", Devices[d], DevDir, DeviceMode)
    BY <1>4, <1>5, Zenon DEF Vnodes, DeviceNode
  <2>2. Devices[d] \in NodeNames
    BY FsAssumption, BootTypes, Zenon
  <2>3. HasVnode(fs.node[d], "dev", Devices[d], DevDir)
    BY <1>1, <2>1, <2>2, BootTypes, VnodeMade, Zenon
  <2> QED BY <2>3, Zenon DEF HasVnode
<1>8. fs \in FsSet
  <2>1. \A v \in Vnodes : fs.node[v] \in VnodeSet
    BY <1>6, <1>7, Zenon DEF BootOK, Vnodes
  <2>2. fs.node \in [Vnodes -> VnodeSet]
    BY <1>5, <2>1, Zenon
  <2>3. 0 .. nf \subseteq Frames
    BY <1>1 DEF Frames
  <2>4. fs.count \in Nat
    BY <1>1, <1>5
  <2> QED BY <1>2, <1>5, <2>2, <2>3, <2>4, Zenon DEF FsSet
<1>9. \A n \in Nodes : fs.node[n].parent = ROOT
  BY <1>6, Zenon DEF BootOK
<1>10. \A n \in Nodes : fs.node[n].type = "file" =>
          n \in 1 .. nf /\ fs.node[n].data = n /\ fs.node[n].capacity = 1 /\ fs.node[n].size = 1
  BY <1>6, Zenon DEF BootOK
<1>11. \A n \in Nodes : n \in 1 .. nf => fs.node[n].type = "file" /\ fs.node[n].linked
  BY <1>6, Zenon DEF BootOK
<1>12. TreeOK(fs)
  <2>1. fs.count \in 1 .. MAX_NODES
    BY <1>1, <1>5, Zenon
  <2>2. \A v \in Vnodes : fs.node[v].parent < fs.count
    <3>1. DevDir \in Nat /\ fs.count = DevDir + 1 /\ ROOT = 0
      BY <1>1, <1>5, Zenon DEF ROOT, Nodes
    <3>2. ROOT < fs.count /\ DevDir < fs.count
      BY <3>1
    <3> QED BY <1>7, <1>9, <3>2, Zenon DEF Vnodes
  <2>3. \A n \in Nodes : n # ROOT => fs.node[n].parent < n
    BY <1>1, <1>9 DEF Nodes
  <2>4. \A n \in Nodes : n # ROOT /\ n < fs.count => fs.node[n].name \in Names
    <3> SUFFICES ASSUME NEW n \in Nodes, n # ROOT, n < fs.count
                 PROVE  fs.node[n].name \in Names
      BY Zenon
    <3>1. n <= DevDir
      BY <1>1, <1>5 DEF Nodes
    <3> QED BY <1>6, <3>1, Zenon DEF BootOK
  <2>5. \A n \in Nodes : n >= fs.count => fs.node[n].type = "none" /\ ~fs.node[n].linked
    <3> SUFFICES ASSUME NEW n \in Nodes, n >= fs.count
                 PROVE  fs.node[n].type = "none" /\ ~fs.node[n].linked
      BY Zenon
    <3>1. n > DevDir
      BY <1>1, <1>5 DEF Nodes
    <3> QED BY <1>6, <3>1, Zenon DEF BootOK
  <2>6. \A v \in DOMAIN Devices : fs.node[v].type = "dev"
    BY <1>7, Zenon
  <2>7. ASSUME NEW n \in Nodes, fs.node[n].type = "file"
        PROVE  FileOK(fs.node[n])
    <3>1. n \in 1 .. nf /\ fs.node[n].data = n /\ fs.node[n].capacity = 1 /\ fs.node[n].size = 1
      BY <1>10, <2>7, Zenon
    <3> QED BY <1>1, <3>1 DEF FileOK
  <2> QED BY <1>8, <2>1, <2>2, <2>3, <2>4, <2>5, <2>6, <2>7, Zenon DEF TreeOK
<1>13. \A n \in Nodes : \A f : f \in Backing(fs.node[n]) <=> n \in 1 .. nf /\ f = n
  <2> SUFFICES ASSUME NEW n \in Nodes, NEW f
               PROVE  f \in Backing(fs.node[n]) <=> n \in 1 .. nf /\ f = n
    BY Zenon
  <2>1. CASE fs.node[n].type = "file"
    <3>1. n \in 1 .. nf /\ fs.node[n].data = n /\ fs.node[n].capacity = 1
      BY <1>10, <2>1, Zenon
    <3>2. Backing(fs.node[n]) = n .. n + 1 - 1
      BY <2>1, <3>1, Zenon DEF Backing, Run
    <3> QED BY <1>1, <3>1, <3>2
  <2>2. CASE fs.node[n].type # "file"
    BY <1>11, <2>2, Zenon DEF Backing
  <2> QED BY <2>1, <2>2, Zenon
<1>14. \A n \in Nodes : \A f : Holds(fs, n, f) <=> n \in 1 .. nf /\ f = n
  BY <1>11, <1>13, Zenon DEF Holds
<1>15. Ledger(fs)
  <2>1. 0 \in fs.used
    BY <1>1, <1>5
  <2>2. \A n \in Nodes : fs.node[n].type = "file" => fs.node[n].data # 0
    <3>1. 0 \notin 1 .. nf
      BY <1>1
    <3> QED BY <1>10, <3>1, Zenon
  <2>3. \A n \in Nodes : fs.node[n].linked => Backing(fs.node[n]) \subseteq fs.used
    <3>1. 1 .. nf \subseteq fs.used
      BY <1>1, <1>5
    <3>2. \A n \in Nodes : \A f \in Backing(fs.node[n]) : f \in 1 .. nf
      BY <1>13, Zenon
    <3> QED BY <3>1, <3>2, Zenon
  <2>4. ASSUME NEW f \in fs.used, f # 0
        PROVE  \E n \in Nodes : Holds(fs, n, f)
    <3>1. f \in 1 .. nf /\ f \in Nodes
      BY <1>1, <1>5, <2>4 DEF Nodes
    <3> QED BY <1>14, <3>1, Zenon
  <2>5. \A n, m \in Nodes, f \in Frames : Holds(fs, n, f) /\ Holds(fs, m, f) => n = m
    BY <1>14, Zenon
  <2> QED BY <2>1, <2>2, <2>3, <2>4, <2>5, Zenon DEF Ledger
<1>16. DOMAIN Devices \subseteq Known(fs)
  BY <1>1, <1>3, <1>5 DEF Known, Vnodes, NoNode
<1> QED BY <1>12, <1>15, <1>16, Zenon
=============================================================================
