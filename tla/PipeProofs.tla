----------------------------- MODULE PipeProofs -----------------------------
(***************************************************************************)
(* Theorems about Pipe, for any number of processes, descriptors and pipes *)
(* and any size of the ring: first the arithmetic of the ring and the      *)
(* counting of descriptors, then the invariant, action by action.          *)
(***************************************************************************)
EXTENDS Pipe, FiniteSetTheorems, TLAPS

(* The descriptors of one process, and those of the whole table, that hold *)
(* one end of a pipe.                                                      *)
RowRefs(row, end, i) == {fd \in Fds : row[fd].node = end /\ row[fd].pipe = i}
TableRefs(table, end, i) ==
    {u \in Procs \X Fds : table[u[1]][u[2]].node = end /\ table[u[1]][u[2]].pipe = i}
Tables == [Procs -> [Fds -> Entry]]

(* The two counts of a pipe are the numbers of descriptors of its ends.    *)
Counted(table, pool) ==
    \A i \in Pipes :
        /\ pool[i].read_refcount = Cardinality(TableRefs(table, "r", i))
        /\ pool[i].write_refcount = Cardinality(TableRefs(table, "w", i))
        /\ pool[i].in_use <=> pool[i].read_refcount + pool[i].write_refcount > 0

(* The ring holds the bytes sent and not yet received, in order.           *)
InOrder(pipe) ==
    /\ pipe.rcvd + pipe.count = pipe.sent
    /\ \A k \in 0 .. pipe.count - 1 :
          pipe.buf[(pipe.head + k) % PIPE_BUF_SIZE] = pipe.rcvd + 1 + k

-----------------------------------------------------------------------------
(* The ring. *)

(* Positions near the ring are brought back into it by adding or taking    *)
(* away its size.                                                          *)
LEMMA ModNear ==
  ASSUME NEW B \in Nat \ {0}, NEW x \in Int
  PROVE  /\ 0 <= x /\ x < B => x % B = x
         /\ B <= x /\ x < 2 * B => x % B = x - B
         /\ -B <= x /\ x < 0 => x % B = x + B
         /\ -(2 * B) <= x /\ x < -B => x % B = x + 2 * B
OBVIOUS

(* Reading n bytes moves the head over them. *)
LEMMA RingRead ==
  ASSUME NEW pipe \in PipeT, InOrder(pipe), NEW n \in 0 .. pipe.count, NEW new,
         new.head = (pipe.head + n) % PIPE_BUF_SIZE, new.count = pipe.count - n,
         new.buf = pipe.buf, new.rcvd = pipe.rcvd + n, new.sent = pipe.sent
  PROVE  InOrder(new) /\ (pipe.head + n) % PIPE_BUF_SIZE \in 0 .. PIPE_BUF_SIZE - 1
<1> DEFINE B == PIPE_BUF_SIZE
           h == pipe.head
           c == pipe.count
           h2 == (h + n) % B
<1>1. B \in Nat \ {0}
  BY PipeAssumption, Zenon
<1>2. /\ h \in 0 .. B - 1 /\ c \in 0 .. B /\ n \in 0 .. c /\ pipe.rcvd \in Nat /\ pipe.sent \in Nat
      /\ pipe.rcvd + c = pipe.sent
      /\ \A k \in 0 .. c - 1 : pipe.buf[(h + k) % B] = pipe.rcvd + 1 + k
  BY Zenon DEF PipeT, InOrder
<1> HIDE DEF B, h, c, h2
<1>3. (h + n < B => h2 = h + n) /\ (h + n >= B => h2 = h + n - B)
  <2> DEFINE x == h + n
  <2>1. x \in Int /\ 0 <= x /\ x < 2 * B
    BY <1>1, <1>2
  <2> HIDE DEF x
  <2>2. (x < B => x % B = x) /\ (x >= B => x % B = x - B)
    BY <2>1, <1>1, ModNear, Zenon
  <2>3. h2 = x % B
    BY Zenon DEF x, h2
  <2> QED
    BY <2>2, <2>3, <1>1, <1>2 DEF x
<1>4. h2 \in 0 .. B - 1
  BY <1>1, <1>2, <1>3
<1>5. ASSUME NEW k \in 0 .. c - n - 1
      PROVE  (h2 + k) % B = (h + (n + k)) % B
  <2> DEFINE x == h + (n + k)
             y == h2 + k
  <2>1. x \in Int /\ y \in Int /\ 0 <= x /\ x < 2 * B /\ 0 <= y /\ y < 2 * B
    BY <1>1, <1>2, <1>4, <1>5
  <2>2. y = x \/ (y = x - B /\ x >= B)
    BY <1>1, <1>2, <1>3, <1>5
  <2> HIDE DEF x, y
  <2>3. (x < B => x % B = x) /\ (x >= B => x % B = x - B) /\ (y < B => y % B = y)
    BY <2>1, <1>1, ModNear, Zenon
  <2>4. y % B = x % B
    BY <2>1, <2>2, <2>3, <1>1
  <2> QED
    BY <2>4, Zenon DEF x, y
<1>6. ASSUME NEW k \in 0 .. c - n - 1
      PROVE  pipe.buf[(h2 + k) % B] = pipe.rcvd + n + 1 + k
  <2>1. n + k \in 0 .. c - 1 /\ pipe.rcvd + 1 + (n + k) = pipe.rcvd + n + 1 + k
    BY <1>2, <1>6
  <2> QED
    BY <2>1, <1>2, <1>5, <1>6, Zenon
<1>7. pipe.rcvd + n + (c - n) = pipe.sent
  BY <1>2
<1> QED
  BY <1>4, <1>6, <1>7, Zenon DEF InOrder, B, h, c, h2

(* Writing n bytes behind the tail leaves the unread ones alone. *)
LEMMA RingWrite ==
  ASSUME NEW pipe \in PipeT, InOrder(pipe), NEW n \in 0 .. PIPE_BUF_SIZE - pipe.count, NEW new,
         new.head = pipe.head, new.count = pipe.count + n,
         new.buf = Filled(pipe, n), new.rcvd = pipe.rcvd, new.sent = pipe.sent + n
  PROVE  InOrder(new) /\ Filled(pipe, n) \in [0 .. PIPE_BUF_SIZE - 1 -> Nat]
<1> DEFINE B == PIPE_BUF_SIZE
           h == pipe.head
           c == pipe.count
           s == pipe.sent
           d(j) == (j - (h + c)) % B
<1>1. B \in Nat \ {0}
  BY PipeAssumption, Zenon
<1>2. /\ h \in 0 .. B - 1 /\ c \in 0 .. B /\ n \in 0 .. B - c /\ pipe.rcvd \in Nat /\ s \in Nat
      /\ pipe.rcvd + c = s /\ pipe.buf \in [0 .. B - 1 -> Nat]
      /\ \A k \in 0 .. c - 1 : pipe.buf[(h + k) % B] = pipe.rcvd + 1 + k
  BY Zenon DEF PipeT, InOrder
<1>3. Filled(pipe, n) = [j \in 0 .. B - 1 |-> IF d(j) < n THEN s + 1 + d(j) ELSE pipe.buf[j]]
  BY Zenon DEF Filled
<1> HIDE DEF B, h, c, s
<1>4. ASSUME NEW j \in 0 .. B - 1
      PROVE  d(j) \in 0 .. B - 1
  <2> DEFINE x == j - (h + c)
  <2>1. x \in Int /\ -(2 * B) <= x /\ x < B
    BY <1>1, <1>2, <1>4
  <2> HIDE DEF x
  <2>2. x % B \in 0 .. B - 1
    BY <2>1, <1>1, ModNear
  <2> QED
    BY <2>2, Zenon DEF x
<1>5. ASSUME NEW k \in 0 .. c + n - 1
      PROVE  /\ (h + k) % B \in 0 .. B - 1
             /\ d((h + k) % B) = IF k < c THEN B + k - c ELSE k - c
  <2> DEFINE y == h + k
             j == y % B
             x == j - (h + c)
  <2>1. y \in Int /\ 0 <= y /\ y < 2 * B
    BY <1>1, <1>2, <1>5
  <2> HIDE DEF y
  <2>2. (y < B => j = y) /\ (y >= B => j = y - B)
    BY <2>1, <1>1, ModNear, Zenon
  <2> HIDE DEF j
  <2>a. j \in 0 .. B - 1 /\ (j = y \/ j = y - B)
    BY <2>1, <2>2, <1>1
  <2>3. j \in 0 .. B - 1 /\ (j = h + k \/ j = h + k - B)
    BY <2>a, <1>1, <1>2, <1>5 DEF y
  <2>4. x \in Int /\ -(2 * B) <= x /\ x < B /\ (x = k - c \/ x = k - c - B)
    BY <2>3, <1>1, <1>2, <1>5
  <2> HIDE DEF x
  <2>5. /\ 0 <= x /\ x < B => x % B = x
        /\ -B <= x /\ x < 0 => x % B = x + B
        /\ -(2 * B) <= x /\ x < -B => x % B = x + 2 * B
    BY <2>4, <1>1, ModNear, Zenon
  <2>6. x % B = IF k < c THEN B + k - c ELSE k - c
    <3> DEFINE z == x % B
    <3>1. /\ 0 <= x /\ x < B => z = x
          /\ -B <= x /\ x < 0 => z = x + B
          /\ -(2 * B) <= x /\ x < -B => z = x + 2 * B
      BY <2>5, Zenon
    <3> HIDE DEF z
    <3>2. k \in Nat /\ c \in Nat /\ B \in Nat /\ B > 0 /\ c <= B /\ k < B
      BY <1>1, <1>2, <1>5
    <3>3. z = IF k < c THEN B + k - c ELSE k - c
      BY <3>1, <3>2, <2>4
    <3> QED
      BY <3>3, Zenon DEF z
  <2> QED
    BY <2>3, <2>6, Zenon DEF x, j, y
<1>6. Filled(pipe, n) \in [0 .. B - 1 -> Nat]
  <2>1. ASSUME NEW j \in 0 .. B - 1
        PROVE  (IF d(j) < n THEN s + 1 + d(j) ELSE pipe.buf[j]) \in Nat
    <3>1. d(j) \in 0 .. B - 1 /\ pipe.buf[j] \in Nat /\ s \in Nat
      BY <1>2, <1>4, Zenon
    <3> HIDE DEF d
    <3> QED
      BY <3>1
  <2> HIDE DEF d
  <2> QED
    BY <2>1, <1>3, Zenon
<1>7. ASSUME NEW k \in 0 .. c + n - 1
      PROVE  Filled(pipe, n)[(h + k) % B] = pipe.rcvd + 1 + k
  <2> DEFINE j == (h + k) % B
  <2>1. Filled(pipe, n)[j] = IF d(j) < n THEN s + 1 + d(j) ELSE pipe.buf[j]
    <3> HIDE DEF d, j
    <3>1. j \in 0 .. B - 1
      BY <1>5, Zenon DEF j
    <3> QED
      BY <3>1, <1>3, Zenon
  <2>2. d(j) = IF k < c THEN B + k - c ELSE k - c
    BY <1>5, Zenon
  <2> HIDE DEF d, j
  <2>3. CASE k < c
    <3>1. ~(d(j) < n) /\ k \in 0 .. c - 1
      <4>1. d(j) = B + k - c
        BY <2>2, <2>3, Zenon
      <4>2. B \in Nat /\ c \in Nat /\ n \in Nat /\ c + n <= B
        BY <1>1, <1>2
      <4> QED BY <4>1, <4>2, <2>3, <1>7
    <3> QED
      BY <3>1, <2>1, <1>2, Zenon DEF j
  <2>4. CASE k >= c
    <3>1. d(j) < n /\ s + 1 + d(j) = pipe.rcvd + 1 + k
      BY <2>2, <2>4, <1>1, <1>2, <1>7, SMTT(30)
    <3> QED
      BY <3>1, <2>1, Zenon DEF j
  <2> QED
    BY <2>3, <2>4, <1>2, <1>7
<1>8. pipe.rcvd + (c + n) = s + n
  BY <1>2
<1>9. /\ new.head = h /\ new.count = c + n /\ new.buf = Filled(pipe, n)
      /\ new.rcvd = pipe.rcvd /\ new.sent = s + n
  BY Zenon DEF h, c, s
<1>10. ASSUME NEW k \in 0 .. new.count - 1
       PROVE  new.buf[(new.head + k) % B] = new.rcvd + 1 + k
  <2>1. k \in 0 .. c + n - 1
    BY <1>1, <1>2, <1>9, <1>10
  <2>2. Filled(pipe, n)[(h + k) % B] = pipe.rcvd + 1 + k
    BY <2>1, <1>7, Zenon
  <2> QED
    BY <2>2, <1>9, Zenon
<1> QED
  BY <1>6, <1>8, <1>9, <1>10, Zenon DEF InOrder, B
-----------------------------------------------------------------------------
(* Counting descriptors. *)

(* The descriptors that refer to an end of a pipe can be counted. *)
LEMMA RefsFinite ==
  ASSUME NEW end, NEW i
  PROVE  /\ IsFiniteSet(Fds)
         /\ \A row : /\ IsFiniteSet(RowRefs(row, end, i))
                     /\ Cardinality(RowRefs(row, end, i)) \in Nat
         /\ \A table : /\ IsFiniteSet(TableRefs(table, end, i))
                       /\ Cardinality(TableRefs(table, end, i)) \in Nat
<1>1. IsFiniteSet(Fds)
  <2>1. MAX_FDS - 1 \in Int
    BY PipeAssumption
  <2> QED
    BY <2>1, FS_Interval DEF Fds
<1>2. IsFiniteSet(Procs \X Fds)
  BY <1>1, PipeAssumption, FS_Product, Zenon
<1>3. ASSUME NEW row
      PROVE  IsFiniteSet(RowRefs(row, end, i)) /\ Cardinality(RowRefs(row, end, i)) \in Nat
  <2>1. RowRefs(row, end, i) \subseteq Fds
    BY Zenon DEF RowRefs
  <2>2. IsFiniteSet(RowRefs(row, end, i))
    BY <2>1, <1>1, FS_Subset, Zenon
  <2> QED
    BY <2>2, FS_CardinalityType, Zenon
<1>4. ASSUME NEW table
      PROVE  IsFiniteSet(TableRefs(table, end, i)) /\ Cardinality(TableRefs(table, end, i)) \in Nat
  <2>1. TableRefs(table, end, i) \subseteq Procs \X Fds
    BY Zenon DEF TableRefs
  <2>2. IsFiniteSet(TableRefs(table, end, i))
    BY <2>1, <1>2, FS_Subset, Zenon
  <2> QED
    BY <2>2, FS_CardinalityType, Zenon
<1> QED
  BY <1>1, <1>3, <1>4, Zenon

(* What the other processes' descriptors refer to. *)
Elsewhere(table, p, end, i) ==
    {u \in Procs \X Fds : u[1] # p /\ table[u[1]][u[2]].node = end /\ table[u[1]][u[2]].pipe = i}

(* The references of all processes are those of p and those of the others. *)
LEMMA RowAndRest ==
  ASSUME NEW table, NEW p \in Procs, NEW end, NEW i
  PROVE  /\ Cardinality(Elsewhere(table, p, end, i)) \in Nat
         /\ Cardinality(TableRefs(table, end, i))
              = Cardinality(Elsewhere(table, p, end, i)) + Cardinality(RowRefs(table[p], end, i))
<1> DEFINE T == TableRefs(table, end, i)
           E == Elsewhere(table, p, end, i)
           R == RowRefs(table[p], end, i)
           P == {p} \X R
<1>1. IsFiniteSet(T) /\ IsFiniteSet(R) /\ Cardinality(R) \in Nat
  BY RefsFinite, Zenon
<1>2. E \subseteq T
  BY Zenon DEF TableRefs, Elsewhere
<1>3. IsFiniteSet(E) /\ Cardinality(E) \in Nat
  BY <1>1, <1>2, FS_Subset, FS_CardinalityType, Zenon
<1>4. IsFiniteSet(P) /\ Cardinality(P) = Cardinality(R)
  <2>1. IsFiniteSet({p}) /\ Cardinality({p}) = 1
    BY FS_Singleton, Zenon
  <2>2. IsFiniteSet(P) /\ Cardinality(P) = 1 * Cardinality(R)
    BY <2>1, <1>1, FS_Product, Zenon
  <2> QED
    BY <2>2, <1>1
<1>5. T = E \cup P
  <2>1. ASSUME NEW q \in Procs, NEW fd \in Fds
        PROVE  <<q, fd>> \in T <=> <<q, fd>> \in E \cup P
    BY Zenon DEF TableRefs, Elsewhere, RowRefs
  <2>2. T \subseteq Procs \X Fds /\ E \cup P \subseteq Procs \X Fds
    BY Zenon DEF TableRefs, Elsewhere, RowRefs
  <2> HIDE DEF T, E, P
  <2> QED
    BY <2>1, <2>2
<1>6. E \cap P = {}
  BY Zenon DEF Elsewhere
<1> HIDE DEF T, E, R, P
<1>7. Cardinality(E \cup P) = Cardinality(E) + Cardinality(P) - Cardinality(E \cap P)
  BY <1>3, <1>4, FS_Union, Zenon
<1>8. Cardinality(E \cap P) = 0
  BY <1>6, FS_EmptySet, Zenon
<1>9. Cardinality(T) = Cardinality(E) + Cardinality(R)
  BY <1>1, <1>3, <1>4, <1>5, <1>7, <1>8
<1> QED
  BY <1>3, <1>9, Zenon DEF T, E, R

OnlyRow(new, table, p) == \A q \in Procs \ {p} : new[q] = table[q]

(* When one process's descriptors change, the count changes by as much as  *)
(* its own.                                                                *)
LEMMA RowChange ==
  ASSUME NEW table, NEW new, NEW p \in Procs, OnlyRow(new, table, p), NEW end, NEW i
  PROVE  Cardinality(TableRefs(new, end, i))
           = Cardinality(TableRefs(table, end, i)) + Cardinality(RowRefs(new[p], end, i))
               - Cardinality(RowRefs(table[p], end, i))
<1>1. Elsewhere(new, p, end, i) = Elsewhere(table, p, end, i)
  BY Zenon DEF Elsewhere, OnlyRow
<1>2. /\ Cardinality(RowRefs(new[p], end, i)) \in Nat
      /\ Cardinality(RowRefs(table[p], end, i)) \in Nat
  BY RefsFinite, Zenon
<1>3. /\ Cardinality(Elsewhere(table, p, end, i)) \in Nat
      /\ Cardinality(TableRefs(table, end, i))
           = Cardinality(Elsewhere(table, p, end, i)) + Cardinality(RowRefs(table[p], end, i))
  BY RowAndRest, Zenon
<1>4. Cardinality(TableRefs(new, end, i))
        = Cardinality(Elsewhere(table, p, end, i)) + Cardinality(RowRefs(new[p], end, i))
  BY <1>1, RowAndRest
<1> QED
  BY <1>2, <1>3, <1>4

(* A pipe that a descriptor refers to is in use, and that end is counted. *)
LEMMA EndInUse ==
  ASSUME NEW table, NEW pool \in [Pipes -> PipeT], Counted(table, pool),
         NEW p \in Procs, NEW fd \in Fds, NEW i \in Pipes, table[p][fd].pipe = i
  PROVE  /\ table[p][fd].node = "r" => pool[i].read_refcount > 0 /\ pool[i].in_use
         /\ table[p][fd].node = "w" => pool[i].write_refcount > 0 /\ pool[i].in_use
<1>1. ASSUME NEW end, table[p][fd].node = end
      PROVE  Cardinality(TableRefs(table, end, i)) > 0
  <2>1. <<p, fd>> \in TableRefs(table, end, i)
    BY <1>1, Zenon DEF TableRefs
  <2>2. IsFiniteSet(TableRefs(table, end, i)) /\ Cardinality(TableRefs(table, end, i)) \in Nat
    BY RefsFinite, Zenon
  <2>3. Cardinality(TableRefs(table, end, i)) # 0
    BY <2>1, <2>2, FS_EmptySet, Zenon
  <2> QED
    BY <2>2, <2>3
<1>2. pool[i].read_refcount \in Nat /\ pool[i].write_refcount \in Nat
  BY Zenon DEF PipeT
<1>3. table[p][fd].node = "r" => pool[i].read_refcount > 0
  BY <1>1, Zenon DEF Counted
<1>4. table[p][fd].node = "w" => pool[i].write_refcount > 0
  BY <1>1, Zenon DEF Counted
<1>5. pool[i].in_use <=> pool[i].read_refcount + pool[i].write_refcount > 0
  BY Zenon DEF Counted
<1> QED
  BY <1>2, <1>3, <1>4, <1>5

SameRing(a, b) ==
    a.head = b.head /\ a.count = b.count /\ a.buf = b.buf /\ a.sent = b.sent /\ a.rcvd = b.rcvd

Closes(new, p, F) ==
    /\ OnlyRow(new, fds, p)
    /\ \A fd \in Fds : IF fd \in F THEN new[p][fd].node = "none"
                       ELSE /\ new[p][fd].node = fds[p][fd].node
                            /\ fds[p][fd].node \in Ends => new[p][fd].pipe = fds[p][fd].pipe

(* Closing takes from the counts what the descriptors closed were worth.   *)
(* Where no end lost its last reference, those that had one still have.    *)
LEMMA ReleasedOK ==
  ASSUME pipe_pool \in [Pipes -> PipeT], Counted(fds, pipe_pool), NEW p \in Procs,
         NEW F \in SUBSET Fds, NEW new, Closes(new, p, F)
  PROVE  /\ Released(p, F) \in [Pipes -> PipeT]
         /\ Counted(new, Released(p, F))
         /\ \A i \in Pipes : SameRing(Released(p, F)[i], pipe_pool[i])
         /\ \A i \in Pipes \ HungUp(p, F) :
              /\ pipe_pool[i].read_refcount > 0 => Released(p, F)[i].read_refcount > 0
              /\ pipe_pool[i].write_refcount > 0 => Released(p, F)[i].write_refcount > 0
<1>1. ASSUME NEW end \in Ends, NEW i
      PROVE  /\ Refs(p, F, end, i) \in Nat
             /\ Cardinality(TableRefs(new, end, i))
                  = Cardinality(TableRefs(fds, end, i)) - Refs(p, F, end, i)
             /\ Cardinality(TableRefs(new, end, i)) \in Nat
             /\ Cardinality(TableRefs(fds, end, i)) \in Nat
  <2> DEFINE D == {fd \in F : fds[p][fd].node = end /\ fds[p][fd].pipe = i}
             R == RowRefs(fds[p], end, i)
             S == RowRefs(new[p], end, i)
  <2>1. S = R \ D /\ R \cap D = D /\ D \subseteq R
    BY <1>1, Zenon DEF RowRefs, Closes, Ends
  <2>2. /\ IsFiniteSet(R) /\ Cardinality(R) \in Nat /\ Cardinality(S) \in Nat
        /\ Cardinality(TableRefs(new, end, i)) \in Nat
        /\ Cardinality(TableRefs(fds, end, i)) \in Nat
    BY RefsFinite, Zenon
  <2>3. Refs(p, F, end, i) = Cardinality(D)
    BY Zenon DEF Refs
  <2>4. Cardinality(TableRefs(new, end, i))
          = Cardinality(TableRefs(fds, end, i)) + Cardinality(S) - Cardinality(R)
    <3>1. OnlyRow(new, fds, p)
      BY Zenon DEF Closes
    <3> QED
      BY <3>1, RowChange
  <2> HIDE DEF D, R, S
  <2>5. IsFiniteSet(D) /\ Cardinality(D) \in Nat
    BY <2>1, <2>2, FS_Subset, FS_CardinalityType, Zenon
  <2>6. Cardinality(S) = Cardinality(R) - Cardinality(D)
    BY <2>1, <2>2, FS_Difference, ZenonT(90)
  <2> QED
    BY <2>2, <2>3, <2>4, <2>5, <2>6
<1>2. ASSUME NEW i \in Pipes
      PROVE  /\ Released(p, F)[i] \in PipeT
             /\ Released(p, F)[i].read_refcount = pipe_pool[i].read_refcount - Refs(p, F, "r", i)
             /\ Released(p, F)[i].write_refcount = pipe_pool[i].write_refcount - Refs(p, F, "w", i)
             /\ SameRing(Released(p, F)[i], pipe_pool[i])
             /\ Released(p, F)[i].read_refcount = Cardinality(TableRefs(new, "r", i))
             /\ Released(p, F)[i].write_refcount = Cardinality(TableRefs(new, "w", i))
             /\ Released(p, F)[i].in_use
                  <=> Released(p, F)[i].read_refcount + Released(p, F)[i].write_refcount > 0
  <2> DEFINE dr == Refs(p, F, "r", i)
             dw == Refs(p, F, "w", i)
             a == pipe_pool[i]
             b == Released(p, F)[i]
             r == a.read_refcount - dr
             w == a.write_refcount - dw
  <2>1. b = [a EXCEPT !.read_refcount = r, !.write_refcount = w,
                      !.in_use = @ /\ ~(dr + dw > 0 /\ GivenUp(r, w))]
    BY Zenon DEF Released
  <2>2. a \in PipeT
    BY Zenon
  <2>3. /\ a.read_refcount = Cardinality(TableRefs(fds, "r", i))
        /\ a.write_refcount = Cardinality(TableRefs(fds, "w", i))
        /\ a.in_use <=> a.read_refcount + a.write_refcount > 0
    BY Zenon DEF Counted
  <2>4. /\ dr \in Nat /\ r = Cardinality(TableRefs(new, "r", i)) /\ r \in Nat
        /\ dw \in Nat /\ w = Cardinality(TableRefs(new, "w", i)) /\ w \in Nat
    BY <2>3, <1>1, Zenon DEF Ends
  <2>5. a.read_refcount \in Nat /\ a.write_refcount \in Nat /\ a.in_use \in BOOLEAN
    BY <2>2, Zenon DEF PipeT
  <2>a. a.in_use /\ ~(dr + dw > 0 /\ r = 0 /\ w = 0) <=> r + w > 0
    <3> HIDE DEF dr, dw, a
    <3> QED
      BY <2>3, <2>4, <2>5
  <2> HIDE DEF dr, dw, a, b, r, w
  <2>6. /\ b \in PipeT /\ b.read_refcount = r /\ b.write_refcount = w /\ SameRing(b, a)
        /\ b.in_use = (a.in_use /\ ~(dr + dw > 0 /\ GivenUp(r, w)))
    BY <2>1, <2>2, <2>4, <2>5, Zenon DEF PipeT, SameRing
  <2>7. b.in_use <=> b.read_refcount + b.write_refcount > 0
    BY <2>6, <2>a, Zenon DEF GivenUp
  <2> QED
    BY <2>4, <2>6, <2>7, Zenon DEF r, w, a, b, dr, dw
<1>3. Released(p, F) \in [Pipes -> PipeT]
  <2>1. DOMAIN Released(p, F) = Pipes /\ Released(p, F) = [i \in Pipes |-> Released(p, F)[i]]
    BY Zenon DEF Released
  <2> QED
    BY <2>1, <1>2, Zenon
<1>4. Counted(new, Released(p, F))
  BY <1>2, Zenon DEF Counted
<1>5. ASSUME NEW i \in Pipes \ HungUp(p, F)
      PROVE  /\ pipe_pool[i].read_refcount > 0 => Released(p, F)[i].read_refcount > 0
             /\ pipe_pool[i].write_refcount > 0 => Released(p, F)[i].write_refcount > 0
  <2>1. /\ ~(Refs(p, F, "r", i) > 0 /\ Released(p, F)[i].read_refcount = 0)
        /\ ~(Refs(p, F, "w", i) > 0 /\ Released(p, F)[i].write_refcount = 0)
    BY Zenon DEF HungUp
  <2>2. Refs(p, F, "r", i) \in Nat /\ Refs(p, F, "w", i) \in Nat
    BY <1>1, Zenon DEF Ends
  <2>3. /\ Released(p, F)[i].read_refcount \in Nat /\ Released(p, F)[i].write_refcount \in Nat
        /\ pipe_pool[i].read_refcount \in Nat /\ pipe_pool[i].write_refcount \in Nat
    BY <1>2, Zenon DEF PipeT
  <2> QED
    BY <2>1, <2>2, <2>3, <1>2
<1> QED
  BY <1>2, <1>3, <1>4, <1>5, Zenon
Opens(new, table, p, entries) ==
    /\ DOMAIN entries \subseteq Fds
    /\ OnlyRow(new, table, p)
    /\ \A fd \in Fds : IF fd \in DOMAIN entries
                       THEN table[p][fd].node = "none" /\ new[p][fd] = entries[fd]
                       ELSE new[p][fd] = table[p][fd]

(* The dup() hooks add to the counts what the copies are worth, provided   *)
(* that these are copies of descriptors in use.                            *)
LEMMA CopiedOK ==
  ASSUME NEW table, NEW pool \in [Pipes -> PipeT], Counted(table, pool), NEW p \in Procs,
         NEW new, NEW entries, Opens(new, table, p, entries),
         \A fd \in DOMAIN entries :
            entries[fd].node \in Ends /\ entries[fd].pipe \in Pipes => pool[entries[fd].pipe].in_use
  PROVE  /\ Copied(pool, entries) \in [Pipes -> PipeT]
         /\ Counted(new, Copied(pool, entries))
         /\ \A i \in Pipes :
              /\ SameRing(Copied(pool, entries)[i], pool[i])
              /\ pool[i].read_refcount <= Copied(pool, entries)[i].read_refcount
              /\ pool[i].write_refcount <= Copied(pool, entries)[i].write_refcount
<1> DEFINE New(end, i) == {fd \in DOMAIN entries : entries[fd].node = end /\ entries[fd].pipe = i}
<1>1. ASSUME NEW end \in Ends, NEW i
      PROVE  /\ IsFiniteSet(New(end, i)) /\ Cardinality(New(end, i)) \in Nat
             /\ Cardinality(TableRefs(new, end, i))
                  = Cardinality(TableRefs(table, end, i)) + Cardinality(New(end, i))
             /\ Cardinality(TableRefs(table, end, i)) \in Nat
  <2> DEFINE D == New(end, i)
             R == RowRefs(table[p], end, i)
             S == RowRefs(new[p], end, i)
  <2>1. S = R \cup D /\ R \cap D = {} /\ D \subseteq S
    BY <1>1, Zenon DEF RowRefs, Opens, Ends
  <2>2. /\ IsFiniteSet(R) /\ Cardinality(R) \in Nat /\ IsFiniteSet(S) /\ Cardinality(S) \in Nat
        /\ Cardinality(TableRefs(new, end, i)) \in Nat
        /\ Cardinality(TableRefs(table, end, i)) \in Nat
    BY RefsFinite, Zenon
  <2>3. Cardinality(TableRefs(new, end, i))
          = Cardinality(TableRefs(table, end, i)) + Cardinality(S) - Cardinality(R)
    <3>1. OnlyRow(new, table, p)
      BY Zenon DEF Opens
    <3> QED
      BY <3>1, RowChange
  <2> HIDE DEF D, R, S
  <2>4. IsFiniteSet(D) /\ Cardinality(D) \in Nat
    BY <2>1, <2>2, FS_Subset, FS_CardinalityType, Zenon
  <2>5. Cardinality(R \cup D) = Cardinality(R) + Cardinality(D) - Cardinality(R \cap D)
    BY <2>2, <2>4, FS_Union, Zenon
  <2>6. Cardinality(S) = Cardinality(R) + Cardinality(D)
    BY <2>1, <2>2, <2>4, <2>5, FS_EmptySet
  <2> QED
    BY <2>2, <2>3, <2>4, <2>6 DEF D
<1>2. ASSUME NEW i \in Pipes, NEW end \in Ends, Cardinality(New(end, i)) > 0
      PROVE  pool[i].in_use
  <2>1. Cardinality(New(end, i)) # 0
    BY <1>1, <1>2
  <2>2. New(end, i) # {}
    <3> HIDE DEF New
    <3> QED
      BY <2>1, FS_EmptySet, Zenon
  <2> QED
    BY <2>2, <1>2, Zenon
<1>3. ASSUME NEW i \in Pipes
      PROVE  /\ Copied(pool, entries)[i] \in PipeT
             /\ SameRing(Copied(pool, entries)[i], pool[i])
             /\ pool[i].read_refcount <= Copied(pool, entries)[i].read_refcount
             /\ pool[i].write_refcount <= Copied(pool, entries)[i].write_refcount
             /\ Copied(pool, entries)[i].read_refcount = Cardinality(TableRefs(new, "r", i))
             /\ Copied(pool, entries)[i].write_refcount = Cardinality(TableRefs(new, "w", i))
             /\ Copied(pool, entries)[i].in_use <=>
                  Copied(pool, entries)[i].read_refcount + Copied(pool, entries)[i].write_refcount > 0
  <2> DEFINE dr == Cardinality(New("r", i))
             dw == Cardinality(New("w", i))
             a == pool[i]
             b == Copied(pool, entries)[i]
             r == a.read_refcount + dr
             w == a.write_refcount + dw
  <2>1. b = [a EXCEPT !.read_refcount = r, !.write_refcount = w]
    BY Zenon DEF Copied
  <2>2. a \in PipeT
    BY Zenon
  <2>3. /\ a.read_refcount = Cardinality(TableRefs(table, "r", i))
        /\ a.write_refcount = Cardinality(TableRefs(table, "w", i))
        /\ a.in_use <=> a.read_refcount + a.write_refcount > 0
    BY Zenon DEF Counted
  <2>4. /\ dr \in Nat /\ r = Cardinality(TableRefs(new, "r", i))
        /\ dw \in Nat /\ w = Cardinality(TableRefs(new, "w", i))
    <3> HIDE DEF New
    <3> QED
      BY <2>3, <1>1, Zenon DEF Ends
  <2>5. dr > 0 \/ dw > 0 => a.in_use
    <3> HIDE DEF New
    <3> QED
      BY <1>2, Zenon DEF Ends
  <2> HIDE DEF dr, dw, a, b
  <2>6. a.read_refcount \in Nat /\ a.write_refcount \in Nat /\ a.in_use \in BOOLEAN
    BY <2>2, Zenon DEF PipeT
  <2>7. a.in_use <=> r + w > 0
    BY <2>3, <2>4, <2>5, <2>6
  <2>8. r \in Nat /\ w \in Nat /\ a.read_refcount <= r /\ a.write_refcount <= w
    BY <2>4, <2>6
  <2> HIDE DEF r, w
  <2>9. /\ b \in PipeT /\ b.read_refcount = r /\ b.write_refcount = w /\ SameRing(b, a)
        /\ b.in_use = a.in_use
    BY <2>1, <2>2, <2>8, Zenon DEF PipeT, SameRing
  <2> QED
    BY <2>4, <2>7, <2>8, <2>9, Zenon DEF a, b
<1>4. Copied(pool, entries) \in [Pipes -> PipeT]
  <2>1. Copied(pool, entries) = [i \in Pipes |-> Copied(pool, entries)[i]]
    BY Zenon DEF Copied
  <2> QED
    BY <2>1, <1>3, Zenon
<1> QED
  BY <1>3, <1>4, Zenon DEF Counted

-----------------------------------------------------------------------------
(* The invariant. *)

(* An end in the table is one of an existing pipe.                         *)
EndsOK(table) ==
    \A p \in Procs, fd \in Fds : table[p][fd].node \in Ends => table[p][fd].pipe \in Pipes

(* A process that is no more holds nothing and waits for nothing.          *)
Gone ==
    \A p \in Procs : /\ state[p] = "none" => \A fd \in Fds : fds[p][fd].node = "none"
                     /\ kctx[p].op # "user" => Live(p)

(* A process inside pipe_read or pipe_write holds the end it uses.         *)
Holds(row, c) ==
    \E fd \in Fds : row[fd].pipe = c.pipe /\ row[fd].node = IF c.op = "read" THEN "r" ELSE "w"
Inside == \A p \in Procs : kctx[p].op # "user" => kctx[p].pipe \in Pipes /\ Holds(fds[p], kctx[p])

(* A process asleep has reason to: the ring is empty (full) and the other  *)
(* side is there.                                                          *)
Waits(c, pool) ==
    \/ c.op = "read" /\ pool[c.pipe].count = 0 /\ pool[c.pipe].write_refcount > 0
    \/ /\ c.op = "write"
       /\ pool[c.pipe].count = PIPE_BUF_SIZE /\ pool[c.pipe].read_refcount > 0
Asleep == \A p \in Procs : state[p] = "blocked" => Waits(kctx[p], pipe_pool)

Inv ==
    /\ TypeOK
    /\ Counted(fds, pipe_pool)
    /\ EndsOK(fds)
    /\ Gone
    /\ Inside
    /\ Asleep
    /\ \A i \in Pipes : InOrder(pipe_pool[i])

States == {"none", "ready", "blocked", "stopped", "phantom"}

(* Nobody is woken by this change who must be: the ring is as full as it   *)
(* was, and an end that had references has some.                           *)
Calm(a, b) ==
    /\ a.count = b.count
    /\ b.read_refcount > 0 => a.read_refcount > 0
    /\ b.write_refcount > 0 => a.write_refcount > 0

(* After task_wake on the pipes that changed, whoever still sleeps has     *)
(* reason to.                                                              *)
LEMMA WokenOK ==
  ASSUME TypeOK, Inside, Asleep, NEW I, NEW pool, \A i \in Pipes \ I : Calm(pool[i], pipe_pool[i])
  PROVE  /\ Woken(I) \in [Procs -> States]
         /\ \A p \in Procs : /\ Woken(I)[p] = "none" => state[p] = "none"
                             /\ state[p] \in {"ready", "blocked", "stopped"}
                                  => Woken(I)[p] \in {"ready", "blocked", "stopped"}
                             /\ Woken(I)[p] = "blocked" => Waits(kctx[p], pool)
<1>1. Woken(I) \in [Procs -> States]
  BY Zenon DEF TypeOK, Woken, States
<1>2. ASSUME NEW p \in Procs
      PROVE  /\ Woken(I)[p] = "none" => state[p] = "none"
             /\ state[p] \in {"ready", "blocked", "stopped"}
                                  => Woken(I)[p] \in {"ready", "blocked", "stopped"}
  BY Zenon DEF Woken
<1>3. ASSUME NEW p \in Procs, Woken(I)[p] = "blocked"
      PROVE  Waits(kctx[p], pool)
  <2>1. state[p] = "blocked" /\ kctx[p].pipe \notin I
    BY <1>3, Zenon DEF Woken
  <2>2. Waits(kctx[p], pipe_pool)
    BY <2>1, Zenon DEF Asleep
  <2>3. kctx[p].pipe \in Pipes
    BY <2>2, Zenon DEF Waits, Inside
  <2>4. Calm(pool[kctx[p].pipe], pipe_pool[kctx[p].pipe])
    BY <2>1, <2>3, Zenon
  <2> QED
    BY <2>2, <2>4, Zenon DEF Waits, Calm
<1> QED
  BY <1>1, <1>2, <1>3, Zenon

(* Only the ring matters for the order of the bytes. *)
LEMMA SameOrder ==
  ASSUME NEW a, NEW b, InOrder(b), SameRing(a, b)
  PROVE  InOrder(a)
BY Zenon DEF InOrder, SameRing

(* What the invariant says, with the types of the four variables. *)
LEMMA Facts ==
  ASSUME Inv
  PROVE  /\ TypeOK /\ Counted(fds, pipe_pool) /\ EndsOK(fds) /\ Gone /\ Inside /\ Asleep
         /\ \A i \in Pipes : InOrder(pipe_pool[i])
         /\ fds \in Tables /\ pipe_pool \in [Pipes -> PipeT] /\ state \in [Procs -> States]
         /\ kctx \in [Procs -> Context]
BY Zenon DEF Inv, TypeOK, Tables, States

(* Closing descriptors, by close, dup2 or the death of the process. *)
LEMMA Drops ==
  ASSUME Inv, NEW p \in Procs, NEW F \in SUBSET Fds, NEW new, Closes(new, p, F)
  PROVE  /\ Released(p, F) \in [Pipes -> PipeT]
         /\ Counted(new, Released(p, F))
         /\ EndsOK(new)
         /\ \A i \in Pipes : InOrder(Released(p, F)[i])
         /\ \A i \in Pipes \ HungUp(p, F) : Calm(Released(p, F)[i], pipe_pool[i])
<1>1. /\ Counted(fds, pipe_pool) /\ EndsOK(fds) /\ pipe_pool \in [Pipes -> PipeT]
      /\ \A i \in Pipes : InOrder(pipe_pool[i])
  BY Facts, Zenon
<1>2. /\ Released(p, F) \in [Pipes -> PipeT]
      /\ Counted(new, Released(p, F))
      /\ \A i \in Pipes : SameRing(Released(p, F)[i], pipe_pool[i])
      /\ \A i \in Pipes \ HungUp(p, F) :
           /\ pipe_pool[i].read_refcount > 0 => Released(p, F)[i].read_refcount > 0
           /\ pipe_pool[i].write_refcount > 0 => Released(p, F)[i].write_refcount > 0
  BY <1>1, ReleasedOK, Zenon
<1>3. EndsOK(new)
  <2> SUFFICES ASSUME NEW q \in Procs, NEW fd \in Fds, new[q][fd].node \in Ends
               PROVE  new[q][fd].pipe \in Pipes
    BY Zenon DEF EndsOK
  <2>1. CASE q = p
    BY <2>1, <1>1, Zenon DEF Closes, Ends, EndsOK
  <2>2. CASE q # p
    BY <2>2, <1>1, Zenon DEF Closes, OnlyRow, EndsOK
  <2> QED
    BY <2>1, <2>2, Zenon
<1>4. ASSUME NEW i \in Pipes
      PROVE  InOrder(Released(p, F)[i])
  BY <1>1, <1>2, SameOrder, Zenon
<1>5. ASSUME NEW i \in Pipes \ HungUp(p, F)
      PROVE  Calm(Released(p, F)[i], pipe_pool[i])
  BY <1>2, Zenon DEF Calm, SameRing
<1> QED
  BY <1>2, <1>3, <1>4, <1>5, Zenon

(* What process_close leaves of the descriptors F. *)
LEMMA EmptiedOK ==
  ASSUME fds \in Tables, NEW p \in Procs, NEW F \in SUBSET Fds
  PROVE  /\ Emptied(p, F) \in [Fds -> Entry]
         /\ \A fd \in Fds : IF fd \in F THEN Emptied(p, F)[fd].node = "none"
                                        ELSE Emptied(p, F)[fd] = fds[p][fd]
<1>1. ASSUME NEW fd \in Fds
      PROVE  /\ [fds[p][fd] EXCEPT !.node = "none", !.pipe = 0] \in Entry
             /\ [fds[p][fd] EXCEPT !.node = "none", !.pipe = 0].node = "none"
             /\ fds[p][fd] \in Entry
  <2>1. fds[p][fd] \in Entry
    BY Zenon DEF Tables
  <2> QED
    BY <2>1, Zenon DEF Entry
<1> QED
  BY <1>1, Zenon DEF Emptied

(* The conjuncts about processes, when only p's descriptors change and p   *)
(* is in no system call of its own.                                        *)
LEMMA OthersInside ==
  ASSUME Gone, Inside, NEW p \in Procs, kctx[p].op = "user", OnlyRow(fds', fds, p), kctx' = kctx,
         state'[p] # "none",
         \A q \in Procs : /\ state'[q] = "none" => state[q] = "none"
                          /\ state[q] \in {"ready", "blocked", "stopped"}
                               => state'[q] \in {"ready", "blocked", "stopped"}
  PROVE  Gone' /\ Inside'
<1>1. ASSUME NEW q \in Procs
      PROVE  /\ state'[q] = "none" => \A fd \in Fds : fds'[q][fd].node = "none"
             /\ kctx'[q].op # "user" => state'[q] \in {"ready", "blocked", "stopped"}
  BY DEF Gone, Live, OnlyRow
<1>2. ASSUME NEW q \in Procs, kctx'[q].op # "user"
      PROVE  kctx'[q].pipe \in Pipes /\ Holds(fds'[q], kctx'[q])
  BY <1>2, Zenon DEF Inside, OnlyRow
<1> QED
  BY <1>1, <1>2, Zenon DEF Gone, Live, Inside

(* open: a file is no pipe. *)
LEMMA OpenInv ==
  ASSUME Inv, NEW p \in Procs, process_open(p)
  PROVE  Inv'
<1>1. PICK fd \in Fds, mode \in OpenModes :
         /\ Least(FreeFds(p), fd)
         /\ fds' = [fds EXCEPT ![p][fd] = [node |-> "file", pipe |-> 0, access_mode |-> mode]]
  BY Zenon DEF process_open
<1>2. /\ state' = state /\ kctx' = kctx /\ pipe_pool' = pipe_pool
      /\ state[p] = "ready" /\ kctx[p].op = "user" /\ fds[p][fd].node = "none"
  BY <1>1, Zenon DEF process_open, InUser, Least, FreeFds, Used
<1>3. /\ fds' \in Tables
      /\ OnlyRow(fds', fds, p)
      /\ \A f \in Fds : f # fd => fds'[p][f] = fds[p][f]
      /\ fds'[p][fd].node = "file"
  <2>1. [node |-> "file", pipe |-> 0, access_mode |-> mode] \in Entry
    BY PipeAssumption, Zenon DEF Entry, Modes
  <2> QED
    BY <1>1, <2>1, Facts, Zenon DEF Tables, OnlyRow
<1>4. ASSUME NEW q \in Procs, NEW f \in Fds
      PROVE  \/ fds'[q][f] = fds[q][f]
             \/ fds'[q][f].node = "file" /\ fds[q][f].node = "none"
  BY <1>2, <1>3, Zenon DEF OnlyRow
<1>5. \A end \in Ends, i \in Pipes : TableRefs(fds', end, i) = TableRefs(fds, end, i)
  BY <1>4, SMTT(30) DEF TableRefs, Ends
<1>6. Counted(fds', pipe_pool')
  BY <1>2, <1>5, Facts, Zenon DEF Counted, Ends
<1>7. EndsOK(fds')
  BY <1>4, Facts, Zenon DEF EndsOK, Ends
<1>8. Gone' /\ Inside'
  BY <1>2, <1>3, Facts, OthersInside, Zenon
<1>9. Asleep' /\ TypeOK' /\ \A i \in Pipes : InOrder(pipe_pool'[i])
  BY <1>2, <1>3, Facts, Zenon DEF Asleep, TypeOK, Tables
<1> QED
  BY <1>6, <1>7, <1>8, <1>9, Zenon DEF Inv

(* close. *)
LEMMA CloseInv ==
  ASSUME Inv, NEW p \in Procs, process_close(p)
  PROVE  Inv'
<1>1. PICK fd \in Fds :
         /\ Used(p, fd)
         /\ pipe_pool' = Released(p, {fd})
         /\ state' = Woken(HungUp(p, {fd}))
         /\ fds' = [fds EXCEPT ![p] = Emptied(p, {fd})]
  BY Zenon DEF process_close
<1>2. kctx' = kctx /\ state[p] = "ready" /\ kctx[p].op = "user"
  BY Zenon DEF process_close, InUser
<1>3. /\ fds' \in Tables
      /\ fds'[p] = Emptied(p, {fd})
      /\ OnlyRow(fds', fds, p)
  <2>1. Emptied(p, {fd}) \in [Fds -> Entry]
    BY Facts, EmptiedOK
  <2> QED
    BY <1>1, <2>1, Facts, ZenonT(40) DEF Tables, OnlyRow
<1>4. Closes(fds', p, {fd})
  <2>1. \A f \in Fds : IF f \in {fd} THEN fds'[p][f].node = "none" ELSE fds'[p][f] = fds[p][f]
    BY <1>3, Facts, EmptiedOK
  <2> QED
    BY <2>1, <1>3, Zenon DEF Closes
<1>5. /\ Released(p, {fd}) \in [Pipes -> PipeT] /\ Counted(fds', Released(p, {fd})) /\ EndsOK(fds')
      /\ \A i \in Pipes : InOrder(Released(p, {fd})[i])
      /\ \A i \in Pipes \ HungUp(p, {fd}) : Calm(Released(p, {fd})[i], pipe_pool[i])
  BY <1>4, Drops, Zenon
<1>6. /\ state' \in [Procs -> States]
      /\ \A q \in Procs : /\ state'[q] = "none" => state[q] = "none"
                          /\ state[q] \in {"ready", "blocked", "stopped"}
                               => state'[q] \in {"ready", "blocked", "stopped"}
                          /\ state'[q] = "blocked" => Waits(kctx[q], pipe_pool')
  BY <1>1, <1>5, Facts, WokenOK, Zenon
<1>7. Gone' /\ Inside'
  BY <1>2, <1>3, <1>6, Facts, OthersInside, Zenon
<1>8. Asleep'
  BY <1>2, <1>6, Zenon DEF Asleep
<1>9. TypeOK'
  BY <1>1, <1>2, <1>3, <1>5, <1>6, Facts, Zenon DEF TypeOK, Tables, States
<1> QED
  BY <1>1, <1>5, <1>7, <1>8, <1>9, Zenon DEF Inv

(* dup2 closes, if it must, and copies. *)
LEMMA Dup2Inv ==
  ASSUME Inv, NEW p \in Procs, process_dup2(p)
  PROVE  Inv'
<1> DEFINE Old(newfd) == {fd \in {newfd} : Used(p, fd)}
           Copy(oldfd, newfd) == [fds[p][oldfd] EXCEPT !.access_mode = fds[p][newfd].access_mode]
<1>1. PICK oldfd \in Fds, newfd \in DupTargets :
         /\ Used(p, oldfd) /\ oldfd # newfd
         /\ pipe_pool' = Copied(Released(p, Old(newfd)), [fd \in {newfd} |-> Copy(oldfd, newfd)])
         /\ state' = Woken(HungUp(p, Old(newfd)))
         /\ fds' = [fds EXCEPT ![p][newfd] = Copy(oldfd, newfd)]
  BY Zenon DEF process_dup2
<1> DEFINE old == Old(newfd)
           copy == Copy(oldfd, newfd)
           mid == [fds EXCEPT ![p] = Emptied(p, old)]
           pool == Released(p, old)
           entries == [fd \in {newfd} |-> copy]
<1>2. kctx' = kctx /\ state[p] = "ready" /\ kctx[p].op = "user" /\ newfd \in Fds /\ old \subseteq Fds
  BY PipeAssumption, Zenon DEF process_dup2, InUser, Fds
<1>3. /\ copy \in Entry /\ copy.node = fds[p][oldfd].node /\ copy.pipe = fds[p][oldfd].pipe
  <2>1. fds[p][oldfd] \in Entry /\ fds[p][newfd] \in Entry
    BY <1>2, Facts, Zenon DEF Tables
  <2> QED
    BY <2>1, Zenon DEF Entry
<1>4. /\ fds' \in Tables /\ OnlyRow(fds', fds, p)
      /\ fds'[p][newfd] = copy
      /\ \A fd \in Fds \ {newfd} : fds'[p][fd] = fds[p][fd]
  <2> HIDE DEF copy, Copy
  <2>1. fds' = [fds EXCEPT ![p][newfd] = copy]
    BY <1>1, Zenon DEF copy
  <2> QED
    BY <2>1, <1>2, <1>3, Facts, Zenon DEF Tables, OnlyRow
<1>5. /\ mid \in Tables /\ OnlyRow(mid, fds, p)
      /\ \A fd \in Fds : IF fd \in old THEN mid[p][fd].node = "none" ELSE mid[p][fd] = fds[p][fd]
  <2> HIDE DEF old
  <2>1. /\ Emptied(p, old) \in [Fds -> Entry]
        /\ \A fd \in Fds : IF fd \in old THEN Emptied(p, old)[fd].node = "none"
                                         ELSE Emptied(p, old)[fd] = fds[p][fd]
    BY <1>2, Facts, EmptiedOK, SMTT(30)
  <2> QED
    BY <2>1, Facts, Zenon DEF Tables, OnlyRow
<1>6. mid[p][newfd].node = "none" /\ mid[p][oldfd] = fds[p][oldfd]
  <2>1. newfd \in old \/ fds[p][newfd].node = "none"
    BY Zenon DEF Used
  <2>2. oldfd \notin old
    BY <1>1, Zenon
  <2> HIDE DEF mid, old
  <2> QED
    BY <2>1, <2>2, <1>2, <1>5, Zenon
<1>7. pipe_pool' = Copied(pool, entries) /\ state' = Woken(HungUp(p, old))
  BY <1>1, Zenon
<1>8. DOMAIN entries = {newfd} /\ entries[newfd] = copy
  BY Zenon
<1> HIDE DEF mid, old, copy, pool, entries, Old, Copy
<1>9. Closes(mid, p, old)
  BY <1>5, Zenon DEF Closes
<1>10. /\ pool \in [Pipes -> PipeT] /\ Counted(mid, pool) /\ EndsOK(mid)
       /\ \A i \in Pipes : InOrder(pool[i])
       /\ \A i \in Pipes \ HungUp(p, old) : Calm(pool[i], pipe_pool[i])
  BY <1>2, <1>9, Drops, Zenon DEF pool
<1>11. Opens(fds', mid, p, entries)
  <2>1. OnlyRow(fds', mid, p)
    BY <1>4, <1>5, Zenon DEF OnlyRow
  <2>2. ASSUME NEW fd \in Fds, fd # newfd
        PROVE  fds'[p][fd] = mid[p][fd]
    <3>1. fd \notin old
      BY <2>2, Zenon DEF old, Old
    <3> QED
      BY <3>1, <2>2, <1>4, <1>5, Zenon
  <2> QED
    BY <2>1, <2>2, <1>2, <1>4, <1>6, <1>8, Zenon DEF Opens
<1>12. copy.node \in Ends => copy.pipe \in Pipes /\ pool[copy.pipe].in_use
  <2>1. copy.node \in Ends => copy.pipe \in Pipes
    BY <1>3, <1>1, Facts, Zenon DEF EndsOK
  <2>2. copy.node = mid[p][oldfd].node /\ copy.pipe = mid[p][oldfd].pipe
    BY <1>3, <1>6, Zenon
  <2> QED
    BY <2>1, <2>2, <1>1, <1>10, EndInUse, Zenon DEF Ends
<1>13. /\ pipe_pool' \in [Pipes -> PipeT] /\ Counted(fds', pipe_pool')
       /\ \A i \in Pipes : /\ SameRing(pipe_pool'[i], pool[i])
                           /\ pool[i].read_refcount <= pipe_pool'[i].read_refcount
                           /\ pool[i].write_refcount <= pipe_pool'[i].write_refcount
  <2>1. \A fd \in DOMAIN entries :
           entries[fd].node \in Ends /\ entries[fd].pipe \in Pipes => pool[entries[fd].pipe].in_use
    BY <1>8, <1>12, Zenon
  <2> QED
    BY <2>1, <1>7, <1>10, <1>11, CopiedOK, Zenon
<1>14. \A i \in Pipes : InOrder(pipe_pool'[i])
  BY <1>10, <1>13, SameOrder, Zenon
<1>15. ASSUME NEW i \in Pipes \ HungUp(p, old)
       PROVE  Calm(pipe_pool'[i], pipe_pool[i])
  <2>1. /\ pool[i].read_refcount \in Nat /\ pool[i].write_refcount \in Nat
        /\ pipe_pool'[i].read_refcount \in Nat /\ pipe_pool'[i].write_refcount \in Nat
    BY <1>10, <1>13, Zenon DEF PipeT
  <2> QED
    BY <2>1, <1>10, <1>13 DEF Calm, SameRing
<1>16. EndsOK(fds')
  <2> SUFFICES ASSUME NEW q \in Procs, NEW fd \in Fds, fds'[q][fd].node \in Ends
               PROVE  fds'[q][fd].pipe \in Pipes
    BY Zenon DEF EndsOK
  <2>1. CASE q = p /\ fd = newfd
    BY <2>1, <1>4, <1>12, Zenon
  <2>2. CASE ~(q = p /\ fd = newfd)
    BY <2>2, <1>4, Facts, Zenon DEF EndsOK, OnlyRow
  <2> QED
    BY <2>1, <2>2, Zenon
<1>17. /\ state' \in [Procs -> States]
       /\ \A q \in Procs : /\ state'[q] = "none" => state[q] = "none"
                           /\ state[q] \in {"ready", "blocked", "stopped"}
                                => state'[q] \in {"ready", "blocked", "stopped"}
                           /\ state'[q] = "blocked" => Waits(kctx[q], pipe_pool')
  BY <1>7, <1>15, Facts, WokenOK, Zenon
<1>18. Gone' /\ Inside'
  BY <1>2, <1>4, <1>17, Facts, OthersInside, Zenon
<1>19. Asleep'
  BY <1>2, <1>17, Zenon DEF Asleep
<1>20. TypeOK'
  BY <1>2, <1>4, <1>13, <1>17, Facts, Zenon DEF TypeOK, Tables, States
<1> QED
  BY <1>13, <1>14, <1>16, <1>18, <1>19, <1>20, Zenon DEF Inv

-----------------------------------------------------------------------------
(* A free slot of the pool has neither references nor sleepers. *)
LEMMA FreePipe ==
  ASSUME Inv, NEW i \in Pipes, ~pipe_pool[i].in_use
  PROVE  /\ pipe_pool[i].read_refcount = 0 /\ pipe_pool[i].write_refcount = 0
         /\ \A end \in Ends : TableRefs(fds, end, i) = {}
         /\ \A p \in Procs : kctx[p].op # "user" => kctx[p].pipe # i
<1>1. pipe_pool[i].read_refcount \in Nat /\ pipe_pool[i].write_refcount \in Nat
  BY Facts, Zenon DEF PipeT
<1>2. ~(pipe_pool[i].read_refcount + pipe_pool[i].write_refcount > 0)
  BY Facts, Zenon DEF Counted
<1>3. pipe_pool[i].read_refcount = 0 /\ pipe_pool[i].write_refcount = 0
  BY <1>1, <1>2
<1>4. ASSUME NEW end \in Ends
      PROVE  TableRefs(fds, end, i) = {}
  <2>1. Cardinality(TableRefs(fds, end, i)) = 0
    BY <1>3, <1>4, Facts, Zenon DEF Counted, Ends
  <2>2. IsFiniteSet(TableRefs(fds, end, i))
    BY RefsFinite, Zenon
  <2> QED
    BY <2>1, <2>2, FS_EmptySet, Zenon
<1>5. ASSUME NEW p \in Procs, kctx[p].op # "user", kctx[p].pipe = i
      PROVE  FALSE
  <2>1. PICK fd \in Fds : fds[p][fd].pipe = i /\ fds[p][fd].node \in Ends
    BY <1>5, Facts, Zenon DEF Inside, Holds, Ends
  <2>2. <<p, fd>> \in TableRefs(fds, fds[p][fd].node, i)
    BY <2>1, Zenon DEF TableRefs
  <2> QED
    BY <2>1, <2>2, <1>4, Zenon
<1> QED
  BY <1>3, <1>4, <1>5, Zenon

(* pipe(): a free pipe and two free descriptors, or nothing. *)
LEMMA PipeInv ==
  ASSUME Inv, NEW p \in Procs, process_pipe(p)
  PROVE  Inv'
<1> DEFINE Fresh == [ZeroPipe EXCEPT !.in_use = TRUE, !.read_refcount = 1, !.write_refcount = 1]
<1>1. PICK i \in Pipes :
         /\ Least({j \in Pipes : ~pipe_pool[j].in_use}, i)
         /\ \/ \E r, w \in Fds :
                 /\ Least(FreeFds(p), r) /\ Least(FreeFds(p) \ {r}, w)
                 /\ pipe_pool' = [pipe_pool EXCEPT ![i] = Fresh]
                 /\ fds' = [fds EXCEPT ![p][r].node = "r", ![p][r].pipe = i,
                                       ![p][w].node = "w", ![p][w].pipe = i]
                 /\ UNCHANGED state
            \/ /\ pipe_pool' = [pipe_pool EXCEPT ![i] = ZeroPipe]
               /\ state' = Woken({i})
               /\ UNCHANGED fds
  BY ZenonT(40) DEF process_pipe
<1>2. ~pipe_pool[i].in_use /\ kctx' = kctx /\ state[p] = "ready" /\ kctx[p].op = "user"
  BY <1>1, Zenon DEF process_pipe, InUser, Least
<1>3. /\ \A end \in Ends : TableRefs(fds, end, i) = {}
      /\ \A q \in Procs : kctx[q].op # "user" => kctx[q].pipe # i
  BY <1>2, FreePipe, Zenon
<1>4. /\ ZeroPipe \in PipeT /\ InOrder(ZeroPipe)
      /\ ZeroPipe.read_refcount = 0 /\ ZeroPipe.write_refcount = 0 /\ ~ZeroPipe.in_use
  <2>1. PIPE_BUF_SIZE \in Nat \ {0}
    BY PipeAssumption, Zenon
  <2> QED
    BY <2>1 DEF ZeroPipe, PipeT, InOrder
<1>5. /\ Fresh \in PipeT /\ SameRing(Fresh, ZeroPipe)
      /\ Fresh.read_refcount = 1 /\ Fresh.write_refcount = 1 /\ Fresh.in_use
  <2> DEFINE z == ZeroPipe
  <2>1. z \in PipeT
    BY <1>4, Zenon
  <2>2. Fresh = [z EXCEPT !.in_use = TRUE, !.read_refcount = 1, !.write_refcount = 1]
    BY Zenon
  <2> HIDE DEF Fresh, z
  <2>3. /\ Fresh \in PipeT /\ SameRing(Fresh, z)
        /\ Fresh.read_refcount = 1 /\ Fresh.write_refcount = 1 /\ Fresh.in_use
    BY <2>1, <2>2, Zenon DEF PipeT, SameRing
  <2> QED
    BY <2>3, Zenon DEF z
<1>6. InOrder(Fresh)
  <2> HIDE DEF Fresh
  <2> QED
    BY <1>4, <1>5, SameOrder, Zenon
<1> HIDE DEF Fresh
<1>7. ASSUME pipe_pool' = [pipe_pool EXCEPT ![i] = ZeroPipe], state' = Woken({i}), fds' = fds
      PROVE  Inv'
  <2>1. /\ pipe_pool' \in [Pipes -> PipeT] /\ pipe_pool'[i] = ZeroPipe
        /\ \A j \in Pipes \ {i} : pipe_pool'[j] = pipe_pool[j]
    BY <1>4, <1>7, Facts, Zenon
  <2>2. Counted(fds', pipe_pool')
    <3>1. ASSUME NEW end \in Ends
          PROVE  Cardinality(TableRefs(fds, end, i)) = 0
      BY <3>1, <1>3, FS_EmptySet, Zenon
    <3> QED
      BY <3>1, <2>1, <1>4, <1>7, Facts DEF Counted, Ends
  <2>3. \A j \in Pipes : InOrder(pipe_pool'[j])
    BY <2>1, <1>4, Facts, Zenon
  <2>4. /\ state' \in [Procs -> States]
        /\ \A q \in Procs : /\ state'[q] = "none" => state[q] = "none"
                            /\ state[q] \in {"ready", "blocked", "stopped"}
                                 => state'[q] \in {"ready", "blocked", "stopped"}
                            /\ state'[q] = "blocked" => Waits(kctx[q], pipe_pool')
    <3>1. \A j \in Pipes \ {i} : Calm(pipe_pool'[j], pipe_pool[j])
      BY <2>1, Zenon DEF Calm
    <3> QED
      BY <3>1, <1>7, Facts, WokenOK, Zenon
  <2>5. Gone' /\ Inside'
    <3>1. OnlyRow(fds', fds, p)
      BY <1>7, Zenon DEF OnlyRow
    <3> QED
      BY <3>1, <2>4, <1>2, Facts, OthersInside, Zenon
  <2>6. Asleep'
    BY <2>4, <1>2, Zenon DEF Asleep
  <2>7. TypeOK' /\ EndsOK(fds')
    BY <2>1, <2>4, <1>2, <1>7, Facts, Zenon DEF TypeOK, States
  <2> QED
    BY <2>2, <2>3, <2>5, <2>6, <2>7, Zenon DEF Inv
<1>8. ASSUME NEW r \in Fds, NEW w \in Fds, Least(FreeFds(p), r), Least(FreeFds(p) \ {r}, w),
             pipe_pool' = [pipe_pool EXCEPT ![i] = Fresh], state' = state,
             fds' = [fds EXCEPT ![p][r].node = "r", ![p][r].pipe = i,
                                ![p][w].node = "w", ![p][w].pipe = i]
      PROVE  Inv'
  <2>1. /\ pipe_pool' \in [Pipes -> PipeT] /\ pipe_pool'[i] = Fresh
        /\ \A j \in Pipes \ {i} : pipe_pool'[j] = pipe_pool[j]
    BY <1>5, <1>8, Facts, Zenon
  <2>2. r # w /\ fds[p][r].node = "none" /\ fds[p][w].node = "none"
    BY <1>8, Zenon DEF Least, FreeFds, Used
  <2>3. /\ fds' \in Tables /\ OnlyRow(fds', fds, p)
        /\ \A f \in Fds \ {r, w} : fds'[p][f] = fds[p][f]
        /\ fds'[p][r].node = "r" /\ fds'[p][r].pipe = i
        /\ fds'[p][w].node = "w" /\ fds'[p][w].pipe = i
    <3> DEFINE er == [fds[p][r] EXCEPT !.node = "r", !.pipe = i]
               ew == [fds[p][w] EXCEPT !.node = "w", !.pipe = i]
    <3>1. fds[p][r] \in Entry /\ fds[p][w] \in Entry
      BY Facts, Zenon DEF Tables
    <3>2. /\ er \in Entry /\ er.node = "r" /\ er.pipe = i
          /\ ew \in Entry /\ ew.node = "w" /\ ew.pipe = i
      BY <3>1, Zenon DEF Entry, Ends
    <3>3. fds' = [fds EXCEPT ![p] = [fds[p] EXCEPT ![r] = er, ![w] = ew]]
      BY <2>2, <1>8, Facts, ZenonT(40) DEF Tables
    <3> HIDE DEF er, ew
    <3> QED
      BY <3>2, <3>3, <2>2, Facts, Zenon DEF Tables, OnlyRow
  <2>4. ASSUME NEW end \in Ends, NEW j \in Pipes
        PROVE  Cardinality(TableRefs(fds', end, j))
                 = IF j = i THEN 1 ELSE Cardinality(TableRefs(fds, end, j))
    <3>1. ASSUME j # i
          PROVE  TableRefs(fds', end, j) = TableRefs(fds, end, j)
      <4>1. ASSUME NEW q \in Procs, NEW f \in Fds
            PROVE  \/ fds'[q][f] = fds[q][f]
                   \/ fds[q][f].node = "none" /\ fds'[q][f].pipe = i
        BY <2>2, <2>3, Zenon DEF OnlyRow
      <4> QED
        BY <4>1, <3>1, <2>4 DEF TableRefs, Ends
    <3>2. ASSUME j = i
          PROVE  \E u : TableRefs(fds', end, j) = {u}
      <4> DEFINE f == IF end = "r" THEN r ELSE w
      <4>1. f \in Fds /\ fds'[p][f].node = end /\ fds'[p][f].pipe = i
        BY <2>3, <2>4, Zenon DEF Ends
      <4>2. ASSUME NEW q \in Procs, NEW g \in Fds, fds'[q][g].node = end, fds'[q][g].pipe = i
            PROVE  q = p /\ g = f
        <5>1. fds'[q][g] # fds[q][g]
          <6> SUFFICES ASSUME fds'[q][g] = fds[q][g]
                       PROVE  FALSE
            BY Zenon
          <6>1. <<q, g>> \in TableRefs(fds, end, i)
            BY <4>2, Zenon DEF TableRefs
          <6> QED
            BY <6>1, <1>3, <2>4, Zenon
        <5> QED
          BY <5>1, <4>2, <2>3, <2>4, Zenon DEF OnlyRow, Ends
      <4> HIDE DEF f
      <4>3. ASSUME NEW u \in Procs \X Fds
            PROVE  u \in TableRefs(fds', end, i) <=> u = <<p, f>>
        BY <4>1, <4>2, SMTT(30) DEF TableRefs
      <4>4. TableRefs(fds', end, i) = {<<p, f>>}
        BY <4>1, <4>3, Zenon DEF TableRefs
      <4> QED
        BY <4>4, <3>2, ZenonT(40)
    <3> QED
      BY <3>1, <3>2, FS_Singleton, Zenon
  <2>5. Counted(fds', pipe_pool')
    BY <2>1, <2>4, <1>5, Facts, SMTT(30) DEF Counted, Ends
  <2>6. EndsOK(fds')
    <3> SUFFICES ASSUME NEW q \in Procs, NEW f \in Fds, fds'[q][f].node \in Ends
                 PROVE  fds'[q][f].pipe \in Pipes
      BY Zenon DEF EndsOK
    <3>1. fds'[q][f] = fds[q][f] \/ fds'[q][f].pipe = i
      BY <2>3, Zenon DEF OnlyRow
    <3> QED
      BY <3>1, Facts, Zenon DEF EndsOK
  <2>7. \A j \in Pipes : InOrder(pipe_pool'[j])
    BY <2>1, <1>6, Facts, Zenon
  <2>8. Gone' /\ Inside'
    BY <2>3, <1>2, <1>8, Facts, OthersInside, ZenonT(40)
  <2>9. Asleep'
    <3> SUFFICES ASSUME NEW q \in Procs, state[q] = "blocked"
                 PROVE  Waits(kctx[q], pipe_pool')
      BY <1>2, <1>8, Zenon DEF Asleep
    <3>1. Waits(kctx[q], pipe_pool)
      BY Facts, Zenon DEF Asleep
    <3>2. kctx[q].pipe \in Pipes \ {i}
      BY <3>1, <1>3, Facts, Zenon DEF Waits, Inside
    <3> QED
      BY <3>1, <3>2, <2>1, Zenon DEF Waits
  <2>10. TypeOK'
    BY <2>1, <2>3, <1>2, <1>8, Facts, Zenon DEF TypeOK, Tables
  <2> QED
    BY <2>5, <2>6, <2>7, <2>8, <2>9, <2>10, Zenon DEF Inv
<1>9. CASE /\ pipe_pool' = [pipe_pool EXCEPT ![i] = ZeroPipe]
           /\ state' = Woken({i})
           /\ UNCHANGED fds
  BY <1>7, <1>9, Zenon
<1>10. CASE \E r, w \in Fds :
              /\ Least(FreeFds(p), r) /\ Least(FreeFds(p) \ {r}, w)
              /\ pipe_pool' = [pipe_pool EXCEPT ![i] = Fresh]
              /\ fds' = [fds EXCEPT ![p][r].node = "r", ![p][r].pipe = i,
                                    ![p][w].node = "w", ![p][w].pipe = i]
              /\ UNCHANGED state
  <2>1. PICK r \in Fds, w \in Fds :
              /\ Least(FreeFds(p), r) /\ Least(FreeFds(p) \ {r}, w)
              /\ pipe_pool' = [pipe_pool EXCEPT ![i] = Fresh]
              /\ fds' = [fds EXCEPT ![p][r].node = "r", ![p][r].pipe = i,
                                    ![p][w].node = "w", ![p][w].pipe = i]
              /\ UNCHANGED state
    BY <1>10, ZenonT(40)
  <2>2. state' = state
    BY <2>1, Zenon
  <2> QED
    BY <2>1, <2>2, <1>8, ZenonT(40)
<1> QED
  BY <1>1, <1>9, <1>10, Zenon

(* fork: the child's descriptors are counted too. *), ZenonT(40)
LEMMA ForkInv ==
  ASSUME Inv, NEW p \in Procs, do_fork(p)
  PROVE  Inv'
<1>1. PICK q \in Procs, task \in TaskFound :
         /\ state[q] = "none"
         /\ state' = [state EXCEPT ![q] = IF task THEN "ready" ELSE "phantom"]
         /\ fds' = [fds EXCEPT ![q] = fds[p]]
  BY ZenonT(40) DEF do_fork
<1>2. /\ pipe_pool' = Copied(pipe_pool, fds[p]) /\ kctx' = kctx
      /\ state[p] = "ready" /\ kctx[p].op = "user" /\ p # q
  BY <1>1, Zenon DEF do_fork, InUser
<1>3. /\ fds' \in Tables /\ OnlyRow(fds', fds, q) /\ fds'[q] = fds[p] /\ DOMAIN fds[p] = Fds
  BY <1>1, Facts, Zenon DEF Tables, OnlyRow
<1>4. Opens(fds', fds, q, fds[p])
  BY <1>1, <1>3, Facts, Zenon DEF Opens, Gone
<1>5. \A fd \in DOMAIN fds[p] :
        fds[p][fd].node \in Ends /\ fds[p][fd].pipe \in Pipes => pipe_pool[fds[p][fd].pipe].in_use
  BY <1>3, Facts, EndInUse, Zenon DEF Ends
<1>6. /\ pipe_pool' \in [Pipes -> PipeT] /\ Counted(fds', pipe_pool')
      /\ \A i \in Pipes : /\ SameRing(pipe_pool'[i], pipe_pool[i])
                          /\ pipe_pool[i].read_refcount <= pipe_pool'[i].read_refcount
                          /\ pipe_pool[i].write_refcount <= pipe_pool'[i].write_refcount
  BY <1>2, <1>4, <1>5, Facts, CopiedOK, Zenon
<1>7. \A i \in Pipes : InOrder(pipe_pool'[i])
  BY <1>6, Facts, SameOrder, Zenon
<1>8. EndsOK(fds')
  BY <1>3, Facts, Zenon DEF EndsOK, OnlyRow
<1>9. /\ state' \in [Procs -> States] /\ state'[q] \in {"ready", "phantom"}
      /\ \A r \in Procs \ {q} : state'[r] = state[r]
  BY <1>1, Facts, Zenon DEF States
<1>10. kctx[q].op = "user"
  BY <1>1, Facts, Zenon DEF Gone, Live
<1>11. Gone'
  <2>1. ASSUME NEW r \in Procs
        PROVE  /\ state'[r] = "none" => \A fd \in Fds : fds'[r][fd].node = "none"
               /\ kctx'[r].op # "user" => state'[r] \in {"ready", "blocked", "stopped"}
    BY <1>2, <1>3, <1>9, <1>10, Facts, SMTT(30) DEF Gone, Live, OnlyRow
  <2> QED
    BY <2>1, Zenon DEF Gone, Live
<1>12. Inside'
  BY <1>2, <1>3, <1>10, Facts, Zenon DEF Inside, OnlyRow
<1>13. Asleep'
  <2> SUFFICES ASSUME NEW r \in Procs, state'[r] = "blocked"
               PROVE  Waits(kctx[r], pipe_pool')
    BY <1>2, Zenon DEF Asleep
  <2>1. Waits(kctx[r], pipe_pool)
    BY <1>9, Facts, Zenon DEF Asleep
  <2>2. kctx[r].pipe \in Pipes
    BY <2>1, Facts, Zenon DEF Waits, Inside
  <2> DEFINE a == pipe_pool[kctx[r].pipe]
             b == pipe_pool'[kctx[r].pipe]
  <2>3. /\ a.read_refcount \in Nat /\ a.write_refcount \in Nat
        /\ b.read_refcount \in Nat /\ b.write_refcount \in Nat
    BY <2>2, <1>6, Facts, Zenon DEF PipeT
  <2>4. b.count = a.count /\ a.read_refcount <= b.read_refcount /\ a.write_refcount <= b.write_refcount
    BY <2>2, <1>6, Zenon DEF SameRing
  <2>5. /\ a.write_refcount > 0 => b.write_refcount > 0
        /\ a.read_refcount > 0 => b.read_refcount > 0
    <3> HIDE DEF a, b
    <3> QED BY <2>3, <2>4
  <2> QED
    BY <2>1, <2>4, <2>5, Zenon DEF Waits
<1>14. TypeOK'
  BY <1>2, <1>3, <1>6, <1>9, Facts, Zenon DEF TypeOK, Tables, States
<1> QED
  BY <1>6, <1>7, <1>8, <1>11, <1>12, <1>13, <1>14, Zenon DEF Inv

(* A process dies, wherever it is, and its descriptors are closed. *)
LEMMA TerminateInv ==
  ASSUME Inv, NEW p \in Procs, process_terminate(p)
  PROVE  Inv'
<1> DEFINE open == {fd \in Fds : Used(p, fd)}
<1>1. /\ pipe_pool' = Released(p, open)
      /\ state' = [Woken(HungUp(p, open)) EXCEPT ![p] = "none"]
      /\ fds' = [fds EXCEPT ![p] = [fd \in Fds |-> Closed]]
      /\ kctx' = [kctx EXCEPT ![p] = User]
  BY Zenon DEF process_terminate
<1>2. Closed \in Entry /\ Closed.node = "none" /\ User \in Context /\ User.op = "user"
  BY Zenon DEF Closed, Entry, Modes, User, Context
<1>3. /\ fds' \in Tables /\ OnlyRow(fds', fds, p) /\ \A fd \in Fds : fds'[p][fd].node = "none"
  <2> HIDE DEF open
  <2> QED
    BY <1>1, <1>2, Facts, Zenon DEF Tables, OnlyRow
<1>4. Closes(fds', p, open)
  BY <1>3, Zenon DEF Closes, Used, Ends
<1> HIDE DEF open
<1>5. open \in SUBSET Fds
  BY Zenon DEF open
<1>6. /\ Released(p, open) \in [Pipes -> PipeT] /\ Counted(fds', Released(p, open)) /\ EndsOK(fds')
      /\ \A i \in Pipes : InOrder(Released(p, open)[i])
      /\ \A i \in Pipes \ HungUp(p, open) : Calm(Released(p, open)[i], pipe_pool[i])
  BY <1>4, <1>5, Drops, Zenon
<1> DEFINE woken == Woken(HungUp(p, open))
<1>7. /\ woken \in [Procs -> States]
      /\ \A q \in Procs : /\ woken[q] = "none" => state[q] = "none"
                          /\ state[q] \in {"ready", "blocked", "stopped"}
                               => woken[q] \in {"ready", "blocked", "stopped"}
                          /\ woken[q] = "blocked" => Waits(kctx[q], pipe_pool')
  BY <1>1, <1>6, Facts, WokenOK, Zenon
<1>8. state' = [woken EXCEPT ![p] = "none"]
  BY <1>1, Zenon
<1> HIDE DEF woken
<1>9. /\ state' \in [Procs -> States] /\ state'[p] = "none"
      /\ \A q \in Procs \ {p} : state'[q] = woken[q]
  BY <1>7, <1>8, Zenon DEF States
<1>10. /\ kctx' \in [Procs -> Context] /\ kctx'[p].op = "user"
       /\ \A q \in Procs \ {p} : kctx'[q] = kctx[q]
  BY <1>1, <1>2, Facts, Zenon
<1>11. Gone'
  <2>1. ASSUME NEW q \in Procs
        PROVE  /\ state'[q] = "none" => \A fd \in Fds : fds'[q][fd].node = "none"
               /\ kctx'[q].op # "user" => state'[q] \in {"ready", "blocked", "stopped"}
    <3>1. CASE q = p
      BY <3>1, <1>3, <1>10, Zenon
    <3>2. CASE q # p
      BY <3>2, <1>3, <1>7, <1>9, <1>10, Facts, SMTT(30) DEF Gone, Live, OnlyRow
    <3> QED
      BY <3>1, <3>2, Zenon
  <2> QED
    BY <2>1, Zenon DEF Gone, Live
<1>12. Inside'
  BY <1>3, <1>10, Facts, Zenon DEF Inside, OnlyRow
<1>13. Asleep'
  BY <1>7, <1>9, <1>10, Zenon DEF Asleep
<1>14. TypeOK'
  BY <1>1, <1>3, <1>6, <1>9, <1>10, ZenonT(40) DEF TypeOK, Tables, States
<1> QED
  BY <1>1, <1>6, <1>11, <1>12, <1>13, <1>14, Zenon DEF Inv

(* SIGTSTP and SIGCONT: a process is asleep no more, and has no reason to  *)
(* be woken.                                                               *)
LEMMA SignalInv ==
  ASSUME Inv, NEW p \in Procs, process_stop(p) \/ process_continue(p)
  PROVE  Inv'
<1>1. /\ kctx' = kctx /\ fds' = fds /\ pipe_pool' = pipe_pool
      /\ Live(p) /\ state'[p] \in {"ready", "stopped"} /\ state' \in [Procs -> States]
      /\ \A q \in Procs \ {p} : state'[q] = state[q]
  BY Facts, Zenon DEF process_stop, process_continue, Live, States
<1>2. Gone'
  BY <1>1, Facts, Zenon DEF Gone, Live
<1>3. Inside' /\ Asleep'
  BY <1>1, Facts, Zenon DEF Inside, Asleep
<1>4. TypeOK'
  BY <1>1, Facts, Zenon DEF TypeOK, States
<1> QED
  BY <1>1, <1>2, <1>3, <1>4, Facts, Zenon DEF Inv

(* A call on pipe i changes the ring of that pipe, if anything, and the    *)
(* place of p.                                                             *)
Call(p, i, b, c) ==
    /\ fds' = fds
    /\ kctx' = [kctx EXCEPT ![p] = c]
    /\ pipe_pool' = [pipe_pool EXCEPT ![i] = b]

(* What such a call has to establish.  Either nobody else need be woken or *)
(* everybody on the pipe is.                                               *)
LEMMA CallInv ==
  ASSUME Inv, NEW p \in Procs, state[p] = "ready", NEW i \in Pipes, NEW b \in PipeT,
         b.in_use = pipe_pool[i].in_use, InOrder(b),
         b.read_refcount = pipe_pool[i].read_refcount,
         b.write_refcount = pipe_pool[i].write_refcount,
         NEW c \in Context, c.op # "user" => c.pipe = i /\ Holds(fds[p], c),
         Call(p, i, b, c), NEW I, i \in I \/ Calm(b, pipe_pool[i]),
         NEW s \in {"ready", "blocked"}, state' = [Woken(I) EXCEPT ![p] = s],
         s = "blocked" => Waits(c, pipe_pool')
  PROVE  Inv'
<1>1. /\ pipe_pool' \in [Pipes -> PipeT] /\ pipe_pool'[i] = b
      /\ \A j \in Pipes \ {i} : pipe_pool'[j] = pipe_pool[j]
  BY Facts, Zenon DEF Call
<1>2. /\ kctx' \in [Procs -> Context] /\ kctx'[p] = c
      /\ \A q \in Procs \ {p} : kctx'[q] = kctx[q]
  BY Facts, Zenon DEF Call
<1>3. fds' = fds
  BY Zenon DEF Call
<1>4. Counted(fds', pipe_pool')
  BY <1>1, <1>3, Facts, ZenonT(40) DEF Counted
<1>5. /\ Woken(I) \in [Procs -> States]
      /\ \A q \in Procs : /\ Woken(I)[q] = "none" => state[q] = "none"
                          /\ state[q] \in {"ready", "blocked", "stopped"}
                               => Woken(I)[q] \in {"ready", "blocked", "stopped"}
                          /\ Woken(I)[q] = "blocked" => Waits(kctx[q], pipe_pool')
  <2>1. \A j \in Pipes \ I : Calm(pipe_pool'[j], pipe_pool[j])
    BY <1>1, Zenon DEF Calm
  <2> QED
    BY <2>1, Facts, WokenOK, Zenon
<1>6. /\ state' \in [Procs -> States] /\ state'[p] = s
      /\ \A q \in Procs \ {p} : state'[q] = Woken(I)[q]
  BY <1>5, Zenon DEF States
<1>7. Gone'
  <2>1. ASSUME NEW q \in Procs
        PROVE  /\ state'[q] = "none" => \A fd \in Fds : fds'[q][fd].node = "none"
               /\ kctx'[q].op # "user" => state'[q] \in {"ready", "blocked", "stopped"}
    <3>1. CASE q = p
      BY <3>1, <1>6, Zenon
    <3>2. CASE q # p
      BY <3>2, <1>2, <1>3, <1>5, <1>6, Facts, SMTT(30) DEF Gone, Live
    <3> QED
      BY <3>1, <3>2, Zenon
  <2> QED
    BY <2>1, ZenonT(40) DEF Gone, Live
<1>8. Inside'
  <2> SUFFICES ASSUME NEW q \in Procs, kctx'[q].op # "user"
               PROVE  kctx'[q].pipe \in Pipes /\ Holds(fds'[q], kctx'[q])
    BY ZenonT(40) DEF Inside
  <2>1. CASE q = p
    BY <2>1, <1>2, <1>3, ZenonT(40)
  <2>2. CASE q # p
    BY <2>2, <1>2, <1>3, Facts, Zenon DEF Inside
  <2> QED
    BY <2>1, <2>2, ZenonT(40)
<1>9. Asleep'
  <2> SUFFICES ASSUME NEW q \in Procs, state'[q] = "blocked"
               PROVE  Waits(kctx'[q], pipe_pool')
    BY Zenon DEF Asleep
  <2>1. CASE q = p
    BY <2>1, <1>2, <1>6, ZenonT(40)
  <2>2. CASE q # p
    BY <2>2, <1>2, <1>5, <1>6, ZenonT(40)
  <2> QED
    BY <2>1, <2>2, ZenonT(40)
<1>10. TypeOK' /\ EndsOK(fds')
  BY <1>1, <1>2, <1>3, <1>6, Facts, ZenonT(40) DEF TypeOK, States
<1>11. \A j \in Pipes : InOrder(pipe_pool'[j])
  BY <1>1, Facts, Zenon
<1> QED
  BY <1>4, <1>7, <1>8, <1>9, <1>10, <1>11, ZenonT(40) DEF Inv

(* Where nothing is woken, a process that is ready stays so or sleeps. *)
LEMMA NobodyWoken ==
  ASSUME TypeOK, NEW p \in Procs, state[p] = "ready"
  PROVE  /\ \A s : [Woken({}) EXCEPT ![p] = s] = [state EXCEPT ![p] = s]
         /\ [Woken({}) EXCEPT ![p] = "ready"] = state
         /\ \A I : [Woken(I) EXCEPT ![p] = "ready"] = Woken(I)
BY Zenon DEF TypeOK, Woken

(* pipe_read, from a descriptor or after a sleep. *)
LEMMA ReadInv ==
  ASSUME Inv, NEW p \in Procs, state[p] = "ready", NEW i \in Pipes, NEW count \in Nat,
         NEW fd \in Fds, fds[p][fd].node = "r", fds[p][fd].pipe = i,
         pipe_read(p, i, count), fds' = fds
  PROVE  Inv'
<1> DEFINE a == pipe_pool[i]
           n == Smaller(count, a.count)
           c == [op |-> "read", pipe |-> i, left |-> count]
<1>1. a \in PipeT /\ InOrder(a) /\ a = pipe_pool[i] /\ pipe_pool \in [Pipes -> PipeT]
  BY Facts, Zenon
<1>2. /\ User \in Context /\ User.op = "user"
      /\ c \in Context /\ c.op = "read" /\ c.pipe = i
  BY Zenon DEF User, Context
<1>3. Holds(fds[p], c)
  BY <1>2, Zenon DEF Holds
<1>4. /\ [Woken({}) EXCEPT ![p] = "blocked"] = [state EXCEPT ![p] = "blocked"]
      /\ [Woken({}) EXCEPT ![p] = "ready"] = state
      /\ [Woken({i}) EXCEPT ![p] = "ready"] = Woken({i})
  BY Facts, NobodyWoken, ZenonT(40)
<1>5. pipe_pool = [pipe_pool EXCEPT ![i] = a]
  BY <1>1, Zenon
<1>6. ASSUME pipe_pool' = pipe_pool, kctx' = [kctx EXCEPT ![p] = User], state' = state
      PROVE  Inv'
  <2>1. Call(p, i, a, User) /\ Calm(a, pipe_pool[i])
    BY <1>5, <1>6, Zenon DEF Call, Calm
  <2>2. state' = [Woken({}) EXCEPT ![p] = "ready"]
    BY <1>4, <1>6, Zenon
  <2> HIDE DEF a
  <2> QED
    BY <2>1, <2>2, <1>1, <1>2, CallInv, Zenon
<1>7. ASSUME pipe_pool' = pipe_pool, kctx' = [kctx EXCEPT ![p] = c],
             state' = [state EXCEPT ![p] = "blocked"], a.count = 0, a.write_refcount # 0
      PROVE  Inv'
  <2>1. Call(p, i, a, c) /\ Calm(a, pipe_pool[i])
    BY <1>5, <1>7, Zenon DEF Call, Calm
  <2>2. state' = [Woken({}) EXCEPT ![p] = "blocked"]
    BY <1>4, <1>7, Zenon
  <2>3. a.write_refcount \in Nat
    BY <1>1, Zenon DEF PipeT
  <2>4. Waits(c, pipe_pool')
    BY <2>3, <1>2, <1>7, SMTT(30) DEF Waits
  <2> HIDE DEF a, c
  <2> QED
    BY <2>1, <2>2, <2>4, <1>1, <1>2, <1>3, CallInv, ZenonT(40)
<1>8. ASSUME a.count > 0,
             pipe_pool' = [pipe_pool EXCEPT ![i].head = (@ + n) % PIPE_BUF_SIZE,
                                            ![i].count = @ - n, ![i].rcvd = @ + n],
             kctx' = [kctx EXCEPT ![p] = User], state' = Woken({i})
      PROVE  Inv'
  <2> DEFINE h == (a.head + n) % PIPE_BUF_SIZE
             b == [a EXCEPT !.head = h, !.count = a.count - n, !.rcvd = a.rcvd + n]
  <2>1. pipe_pool' = [pipe_pool EXCEPT ![i] = b]
    BY <1>1, <1>8, ZenonT(40)
  <2>2. n \in 0 .. a.count /\ n \in Nat
    BY <1>1 DEF Smaller, PipeT
  <2> HIDE DEF a, n, h
  <2>3. /\ b.head = h /\ b.count = a.count - n /\ b.rcvd = a.rcvd + n
        /\ b.buf = a.buf /\ b.sent = a.sent /\ b.in_use = a.in_use
        /\ b.read_refcount = a.read_refcount /\ b.write_refcount = a.write_refcount
    BY <1>1, Zenon DEF PipeT
  <2>4. InOrder(b) /\ h \in 0 .. PIPE_BUF_SIZE - 1
    <3> HIDE DEF b
    <3> QED
      BY <2>2, <2>3, <1>1, RingRead, Zenon DEF h
  <2>5. b \in PipeT
    <3>1. a.count \in 0 .. PIPE_BUF_SIZE /\ a.rcvd \in Nat /\ PIPE_BUF_SIZE \in Nat
      BY <1>1, PipeAssumption, Zenon DEF PipeT
    <3>2. a.count - n \in 0 .. PIPE_BUF_SIZE /\ a.rcvd + n \in Nat
      BY <3>1, <2>2
    <3> QED
      BY <3>2, <2>4, <1>1, ZenonT(40) DEF PipeT
  <2> HIDE DEF b
  <2>6. Call(p, i, b, User)
    BY <2>1, <1>8, Zenon DEF Call
  <2>7. state' = [Woken({i}) EXCEPT ![p] = "ready"]
    BY <1>4, <1>8, Zenon
  <2> QED
    BY <2>3, <2>4, <2>5, <2>6, <2>7, <1>1, <1>2, CallInv, ZenonT(40)
<1> QED
  BY <1>6, <1>7, <1>8, Zenon DEF pipe_read

(* pipe_write, to a descriptor or after a sleep. *)
LEMMA WriteInv ==
  ASSUME Inv, NEW p \in Procs, state[p] = "ready", NEW i \in Pipes, NEW count \in Nat,
         NEW fd \in Fds, fds[p][fd].node = "w", fds[p][fd].pipe = i,
         pipe_write(p, i, count), fds' = fds
  PROVE  Inv'
<1> DEFINE a == pipe_pool[i]
           n == Smaller(count, PIPE_BUF_SIZE - a.count)
           c == [op |-> "write", pipe |-> i, left |-> count - n]
           b == [a EXCEPT !.buf = Filled(a, n), !.count = a.count + n, !.sent = a.sent + n]
<1>1. a \in PipeT /\ InOrder(a) /\ a = pipe_pool[i] /\ pipe_pool \in [Pipes -> PipeT]
  BY Facts, Zenon
<1>2. /\ a.count \in 0 .. PIPE_BUF_SIZE /\ a.sent \in Nat /\ a.read_refcount \in Nat
      /\ PIPE_BUF_SIZE \in Nat
  BY <1>1, PipeAssumption, Zenon DEF PipeT
<1>3. /\ n \in 0 .. PIPE_BUF_SIZE - a.count /\ n \in 0 .. count /\ n \in Nat /\ count - n \in Nat
      /\ n # count => a.count + n = PIPE_BUF_SIZE /\ count # 0
  <2> HIDE DEF a
  <2> QED
    BY <1>2, SMTT(30) DEF Smaller
<1>4. User \in Context /\ User.op = "user"
  BY Zenon DEF User, Context
<1>5. pipe_pool = [pipe_pool EXCEPT ![i] = a]
  BY <1>1, Zenon
<1>6. ASSUME pipe_pool' = pipe_pool, kctx' = [kctx EXCEPT ![p] = User], state' = state
      PROVE  Inv'
  <2>1. Call(p, i, a, User) /\ Calm(a, pipe_pool[i])
    BY <1>5, <1>6, Zenon DEF Call, Calm
  <2>2. state' = [Woken({}) EXCEPT ![p] = "ready"]
    BY <1>6, Facts, NobodyWoken, Zenon
  <2> HIDE DEF a
  <2> QED
    BY <2>1, <2>2, <1>1, <1>4, CallInv, Zenon
<1>7. ASSUME pipe_pool' = [pipe_pool EXCEPT ![i].buf = Filled(a, n), ![i].count = @ + n,
                                            ![i].sent = @ + n]
      PROVE  pipe_pool' = [pipe_pool EXCEPT ![i] = b]
  BY <1>1, <1>7, Zenon
<1> HIDE DEF a, n
<1>8. /\ b.head = a.head /\ b.count = a.count + n /\ b.rcvd = a.rcvd
      /\ b.buf = Filled(a, n) /\ b.sent = a.sent + n /\ b.in_use = a.in_use
      /\ b.read_refcount = a.read_refcount /\ b.write_refcount = a.write_refcount
  BY <1>1, Zenon DEF PipeT
<1>9. InOrder(b) /\ Filled(a, n) \in [0 .. PIPE_BUF_SIZE - 1 -> Nat]
  <2> HIDE DEF b
  <2> QED
    BY <1>1, <1>3, <1>8, RingWrite, Zenon
<1>10. b \in PipeT
  <2>1. a.count + n \in 0 .. PIPE_BUF_SIZE /\ a.sent + n \in Nat
    BY <1>2, <1>3
  <2> QED
    BY <2>1, <1>1, <1>9, ZenonT(40) DEF PipeT
<1> HIDE DEF b
<1>11. ASSUME pipe_pool' = [pipe_pool EXCEPT ![i] = b], kctx' = [kctx EXCEPT ![p] = User],
              state' = Woken({i})
       PROVE  Inv'
  <2>1. Call(p, i, b, User)
    BY <1>11, ZenonT(40) DEF Call
  <2>2. state' = [Woken({i}) EXCEPT ![p] = "ready"]
    BY <1>11, Facts, NobodyWoken, ZenonT(40)
  <2> QED
    BY <2>1, <2>2, <1>1, <1>4, <1>8, <1>9, <1>10, CallInv, Zenon
<1>12. ASSUME pipe_pool' = [pipe_pool EXCEPT ![i] = b], kctx' = [kctx EXCEPT ![p] = c],
              state' = [Woken({i}) EXCEPT ![p] = "blocked"], n # count, a.read_refcount # 0
       PROVE  Inv'
  <2>1. c \in Context /\ c.op = "write" /\ c.pipe = i
    BY <1>3, ZenonT(40) DEF Context
  <2>2. Holds(fds[p], c)
    BY <2>1, ZenonT(40) DEF Holds
  <2> HIDE DEF c
  <2>3. pipe_pool'[i] = b
    BY <1>1, <1>12, ZenonT(40)
  <2>4. Waits(c, pipe_pool')
    <3>1. b.count = PIPE_BUF_SIZE /\ b.read_refcount > 0
      BY <1>2, <1>3, <1>8, <1>12, SMTT(30)
    <3> QED
      BY <2>1, <2>3, <3>1, Zenon DEF Waits
  <2>5. Call(p, i, b, c)
    BY <1>12, Zenon DEF Call
  <2> QED
    BY <2>1, <2>2, <2>4, <2>5, <1>1, <1>8, <1>9, <1>10, <1>12, CallInv, ZenonT(40)
<1>13. \/ /\ kctx' = [kctx EXCEPT ![p] = User]
          /\ UNCHANGED <<state, pipe_pool>>
       \/ /\ count = 0 \/ a.read_refcount # 0
          /\ pipe_pool' = [pipe_pool EXCEPT ![i].buf = Filled(a, n), ![i].count = @ + n,
                                            ![i].sent = @ + n]
          /\ IF n = count
             THEN kctx' = [kctx EXCEPT ![p] = User] /\ state' = Woken({i})
             ELSE kctx' = [kctx EXCEPT ![p] = c] /\ state' = [Woken({i}) EXCEPT ![p] = "blocked"]
  BY ZenonT(40) DEF pipe_write, WokenByWrite, a, n
<1>14. CASE /\ kctx' = [kctx EXCEPT ![p] = User]
            /\ UNCHANGED <<state, pipe_pool>>
  BY <1>6, <1>14, Zenon
<1>15. CASE /\ count = 0 \/ a.read_refcount # 0
            /\ pipe_pool' = [pipe_pool EXCEPT ![i].buf = Filled(a, n), ![i].count = @ + n,
                                              ![i].sent = @ + n]
            /\ IF n = count
               THEN kctx' = [kctx EXCEPT ![p] = User] /\ state' = Woken({i})
               ELSE kctx' = [kctx EXCEPT ![p] = c] /\ state' = [Woken({i}) EXCEPT ![p] = "blocked"]
  <2> HIDE DEF c
  <2>1. pipe_pool' = [pipe_pool EXCEPT ![i] = b]
    BY <1>7, <1>15, Zenon
  <2>2. CASE n = count
    BY <2>1, <2>2, <1>11, <1>15, Zenon
  <2>3. CASE n # count
    <3>1. /\ kctx' = [kctx EXCEPT ![p] = c] /\ state' = [Woken({i}) EXCEPT ![p] = "blocked"]
          /\ a.read_refcount # 0
      BY <2>3, <1>3, <1>15, ZenonT(40)
    <3> QED
      BY <3>1, <2>1, <2>3, <1>12, Zenon
  <2> QED
    BY <2>2, <2>3, Zenon
<1> QED
  BY <1>13, <1>14, <1>15, ZenonT(40)

(* The system calls read and write, and their second lives. *)
LEMMA TransferInv ==
  ASSUME Inv, NEW p \in Procs, process_read(p) \/ process_write(p) \/ resume(p)
  PROVE  Inv'
<1>1. CASE process_read(p)
  <2>1. PICK fd \in Fds, count \in Counts :
           fds[p][fd].node = "r" /\ pipe_read(p, fds[p][fd].pipe, count)
    BY <1>1, Zenon DEF process_read
  <2>2. state[p] = "ready" /\ fds' = fds
    BY <1>1, Zenon DEF process_read, InUser
  <2>3. fds[p][fd].pipe \in Pipes /\ count \in Nat
    BY <2>1, Facts, PipeAssumption, Zenon DEF EndsOK, Ends
  <2> QED
    BY <2>1, <2>2, <2>3, ReadInv, Zenon
<1>2. CASE process_write(p)
  <2>1. PICK fd \in Fds, count \in Counts :
           fds[p][fd].node = "w" /\ pipe_write(p, fds[p][fd].pipe, count)
    BY <1>2, Zenon DEF process_write
  <2>2. state[p] = "ready" /\ fds' = fds
    BY <1>2, Zenon DEF process_write, InUser
  <2>3. fds[p][fd].pipe \in Pipes /\ count \in Nat
    BY <2>1, Facts, PipeAssumption, Zenon DEF EndsOK, Ends
  <2> QED
    BY <2>1, <2>2, <2>3, WriteInv, Zenon
<1>3. CASE resume(p)
  <2>1. /\ state[p] = "ready" /\ fds' = fds
        /\ \/ kctx[p].op = "read" /\ pipe_read(p, kctx[p].pipe, kctx[p].left)
           \/ kctx[p].op = "write" /\ pipe_write(p, kctx[p].pipe, kctx[p].left)
    BY <1>3, Zenon DEF resume
  <2>2. kctx[p].op # "user"
    BY <2>1, Zenon
  <2>3. kctx[p].pipe \in Pipes /\ Holds(fds[p], kctx[p])
    BY <2>2, Facts, Zenon DEF Inside
  <2>4. kctx[p] \in Context
    BY Facts, Zenon
  <2>5. kctx[p].left \in Nat
    BY <2>4, Zenon DEF Context
  <2>6. PICK fd \in Fds : /\ fds[p][fd].pipe = kctx[p].pipe
                          /\ fds[p][fd].node = IF kctx[p].op = "read" THEN "r" ELSE "w"
    BY <2>3, Zenon DEF Holds
  <2>7. CASE kctx[p].op = "read" /\ pipe_read(p, kctx[p].pipe, kctx[p].left)
    <3>1. fds[p][fd].node = "r"
      BY <2>6, <2>7, Zenon
    <3> QED
      BY <3>1, <2>1, <2>3, <2>5, <2>6, <2>7, ReadInv, Zenon
  <2>8. CASE kctx[p].op = "write" /\ pipe_write(p, kctx[p].pipe, kctx[p].left)
    <3>1. fds[p][fd].node = "w"
      BY <2>6, <2>8, Zenon
    <3> QED
      BY <3>1, <2>1, <2>3, <2>5, <2>6, <2>8, WriteInv, Zenon
  <2> QED
    BY <2>1, <2>7, <2>8, Zenon
<1> QED
  BY <1>1, <1>2, <1>3, Zenon

(* One process with the console, no pipes. *)
LEMMA InitInv == Init => Inv
<1> SUFFICES ASSUME Init
             PROVE  Inv
  BY Zenon
<1>1. PICK p \in Procs :
         /\ state = [q \in Procs |-> IF q = p THEN "ready" ELSE "none"]
         /\ fds = [q \in Procs |-> IF q = p THEN process_init ELSE [fd \in Fds |-> Closed]]
  BY Zenon DEF Init
<1>2. kctx = [q \in Procs |-> User] /\ pipe_pool = [i \in Pipes |-> ZeroPipe]
  BY Zenon DEF Init
<1>3. Closed \in Entry /\ Closed.node = "none" /\ User \in Context /\ User.op = "user"
  BY Zenon DEF Closed, Entry, Modes, User, Context
<1>4. /\ ZeroPipe \in PipeT /\ InOrder(ZeroPipe)
      /\ ZeroPipe.read_refcount = 0 /\ ZeroPipe.write_refcount = 0 /\ ~ZeroPipe.in_use
  <2>1. PIPE_BUF_SIZE \in Nat \ {0}
    BY PipeAssumption, Zenon
  <2> QED
    BY <2>1 DEF ZeroPipe, PipeT, InOrder
<1>5. process_init \in [Fds -> Entry] /\ \A fd \in Fds : process_init[fd].node \in {"console", "none"}
  <2>1. /\ [node |-> "console", pipe |-> 0, access_mode |-> "O_RDWR"] \in Entry
        /\ [node |-> "console", pipe |-> 0, access_mode |-> "O_RDWR"].node = "console"
    BY Zenon DEF Entry, Modes
  <2> QED
    BY <2>1, <1>3, Zenon DEF process_init
<1>6. /\ fds \in Tables
      /\ \A q \in Procs, fd \in Fds : fds[q][fd].node \in {"console", "none"}
      /\ \A q \in Procs, fd \in Fds : q # p => fds[q][fd].node = "none"
  BY <1>1, <1>3, <1>5, Zenon DEF Tables
<1>7. \A end \in Ends, i \in Pipes : TableRefs(fds, end, i) = {}
  BY <1>6, SMTT(30) DEF TableRefs, Ends
<1>8. Counted(fds, pipe_pool)
  <2>1. \A end \in Ends, i \in Pipes : Cardinality(TableRefs(fds, end, i)) = 0
    BY <1>7, FS_EmptySet, Zenon
  <2> QED
    BY <2>1, <1>2, <1>4 DEF Counted, Ends
<1>9. EndsOK(fds)
  BY <1>6, Zenon DEF EndsOK, Ends
<1>10. Gone /\ Inside /\ Asleep
  BY <1>1, <1>2, <1>3, <1>6, Zenon DEF Gone, Inside, Asleep
<1>11. TypeOK /\ \A i \in Pipes : InOrder(pipe_pool[i])
  BY <1>1, <1>2, <1>3, <1>4, <1>6, Zenon DEF TypeOK, Tables
<1> QED
  BY <1>8, <1>9, <1>10, <1>11, Zenon DEF Inv

(* Every step keeps the invariant. *)
LEMMA NextInv == Inv /\ [Next]_vars => Inv'
<1> SUFFICES ASSUME Inv, [Next]_vars
             PROVE  Inv'
  BY Zenon
<1>1. CASE UNCHANGED vars
  <2>1. /\ state' = state /\ kctx' = kctx /\ fds' = fds /\ pipe_pool' = pipe_pool
    BY <1>1, Zenon DEF vars
  <2> QED
    BY <2>1, Zenon DEF Inv, TypeOK, Gone, Inside, Asleep, Live
<1>2. CASE \E p \in Procs :
              \/ process_open(p) \/ process_close(p) \/ process_dup2(p) \/ process_pipe(p)
              \/ process_read(p) \/ process_write(p) \/ resume(p)
              \/ do_fork(p) \/ process_terminate(p) \/ process_stop(p) \/ process_continue(p)
  BY <1>2, OpenInv, CloseInv, Dup2Inv, PipeInv, TransferInv, ForkInv, TerminateInv, SignalInv, Zenon
<1> QED
  BY <1>1, <1>2, Zenon DEF Next, idle

-----------------------------------------------------------------------------
(* The inductive invariant. *)
THEOREM PipeInvariant == Spec => []Inv
<1> QED
  BY InitInv, NextInv, PTL DEF Spec

(* No count of a pipe goes negative or beyond its buffer, for any number   *)
(* of processes and any sequence of calls (pipe_read_close and its like    *)
(* never check).                                                           *)
THEOREM PipeTypeOK == Spec => []TypeOK
<1>1. Inv => TypeOK
  BY Zenon DEF Inv
<1> QED
  BY <1>1, PipeInvariant, PTL

(* The counters of a pipe are the descriptors that refer to its ends, and  *)
(* it is in use exactly while there is one.                                *)
THEOREM PipeRefcountsMatch == Spec => []RefcountsMatch
<1>1. ASSUME Inv, NEW i \in Pipes
      PROVE  /\ pipe_pool[i].read_refcount = Cardinality(AllRefs("r", i))
             /\ pipe_pool[i].write_refcount = Cardinality(AllRefs("w", i))
             /\ pipe_pool[i].in_use <=> AllRefs("r", i) \cup AllRefs("w", i) # {}
  <2>1. \A end : AllRefs(end, i) = TableRefs(fds, end, i)
    BY Zenon DEF AllRefs, TableRefs
  <2> DEFINE R == TableRefs(fds, "r", i)
             W == TableRefs(fds, "w", i)
  <2>2. IsFiniteSet(R) /\ Cardinality(R) \in Nat /\ IsFiniteSet(W) /\ Cardinality(W) \in Nat
    BY RefsFinite, Zenon
  <2>3. /\ pipe_pool[i].read_refcount = Cardinality(R)
        /\ pipe_pool[i].write_refcount = Cardinality(W)
        /\ pipe_pool[i].in_use <=> pipe_pool[i].read_refcount + pipe_pool[i].write_refcount > 0
    BY <1>1, Facts, Zenon DEF Counted
  <2> HIDE DEF R, W
  <2>4. (Cardinality(R) = 0 <=> R = {}) /\ (Cardinality(W) = 0 <=> W = {})
    BY <2>2, FS_EmptySet, Zenon
  <2>5. pipe_pool[i].in_use <=> Cardinality(R) # 0 \/ Cardinality(W) # 0
    BY <2>2, <2>3
  <2>6. pipe_pool[i].in_use <=> R \cup W # {}
    BY <2>4, <2>5, Zenon
  <2> QED
    BY <2>1, <2>3, <2>6, SMTT(30) DEF R, W
<1>2. Inv => RefcountsMatch
  BY <1>1, Zenon DEF RefcountsMatch
<1> QED
  BY <1>2, PipeInvariant, PTL

(* Whoever sleeps in pipe_read or pipe_write has reason to: no wake-up is  *)
(* lost between any number of readers and writers.                         *)
THEOREM PipeNoLostWakeup == Spec => []NoLostWakeup
<1>1. Inv => NoLostWakeup
  BY ZenonT(40) DEF Inv, Asleep, Waits, NoLostWakeup
<1> QED
  BY <1>1, PipeInvariant, PTL

(* Bytes come out in the order in which they went in, each once, for any   *)
(* size of the ring.                                                       *)
THEOREM PipeFifoOrder == Spec => []FifoOrder
<1>1. Inv => FifoOrder
  BY ZenonT(40) DEF Inv, InOrder, FifoOrder
<1> QED
  BY <1>1, PipeInvariant, PTL

(* The pipe a process slept on is still its pipe when it wakes up. *)
THEOREM PipeSleeperHoldsPipe == Spec => []SleeperHoldsPipe
<1>1. ASSUME Inv, NEW p \in Procs, kctx[p].op # "user"
      PROVE  /\ pipe_pool[kctx[p].pipe].in_use
             /\ \E fd \in Fds : /\ fds[p][fd].pipe = kctx[p].pipe
                                /\ fds[p][fd].node = IF kctx[p].op = "read" THEN "r" ELSE "w"
  <2>1. kctx[p].pipe \in Pipes
    BY <1>1, Facts, Zenon DEF Inside
  <2>2. PICK fd \in Fds : /\ fds[p][fd].pipe = kctx[p].pipe
                          /\ fds[p][fd].node = IF kctx[p].op = "read" THEN "r" ELSE "w"
    BY <1>1, Facts, Zenon DEF Inside, Holds
  <2>3. pipe_pool[kctx[p].pipe].in_use
    BY <2>1, <2>2, <1>1, Facts, EndInUse, Zenon
  <2> QED
    BY <2>2, <2>3, Zenon
<1>2. Inv => SleeperHoldsPipe
  BY <1>1, Zenon DEF SleeperHoldsPipe
<1> QED
  BY <1>2, PipeInvariant, PTL
=============================================================================
