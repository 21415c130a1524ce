---------------------------- MODULE MCInstaller ----------------------------
(* An instance of Installer for TLC: MBR disks and GPT disks, good and bad. *)
EXTENDS Installer

Zeros(n) == [k \in 1..n |-> 0]

(* Block 0: file system hint, stamp, four fields, then flag and start of   *)
(* each partition.                                                         *)
Sector(fs, a1, s1, a2, s2) == <<fs, 5, 0, 0, 0, 0, a1, s1, a2, s2>>
Disk(sector, others) == [b \in 0..(NBLOCKS - 1) |->
                           IF b = 0 THEN sector
                           ELSE IF b \in DOMAIN others THEN others[b] ELSE Zeros(BLOCK)]

Mbr == { Disk(Sector(fs, a1, s1, a2, 2), [b \in {2} |-> <<0, ext, 7, 7, 7, 7, 7, 7, 7, 7>>])
         : fs \in {0, 4}, a1 \in {0, 1, 3}, s1 \in {0, 1}, a2 \in {0, 2}, ext \in {0, 6} }

(* A GPT: headers in blocks 1 and 11, arrays of six entries in 2-4 and     *)
(* 8-10, and a partition in 5-7.                                           *)
Used(i) == <<8, 5, 8, 8, 8>>
Entry(S, i) == IF i \in S THEN Used(i) ELSE <<0, 3, 0, 0, 0>>
Pair(S, i) == Entry(S, i) \o Entry(S, i + 1)
Array(S) == Pair(S, 0) \o Pair(S, 2) \o Pair(S, 4)
Hdr(S, entries, other, sig) == <<sig, entries, 6, crc32(Array(S)), other, 7, 7, 7, 7, 7>>
Gpt == { Disk(Sector(0, 0, 2, 0, 0),
              [b \in {1, 2, 3, 4, 8, 9, 10, 11} |->
                 IF b = 1 THEN Hdr(S, 2, 11, 1) ELSE IF b = 11 THEN Hdr(S, 8, 1, sig2)
                 ELSE Pair(S, 2 * ((b - 2) % 6))])
         : S \in {{}, {0}, {0, 3}}, sig2 \in {0, 1} }

MCDevices == Mbr \cup Gpt
MCOptions == [force : BOOLEAN, part : {0}] \cup [force : {FALSE}, part : {1, 2, 8}]
=============================================================================
