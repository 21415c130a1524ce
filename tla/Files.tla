------------------------------- MODULE Files --------------------------------
(***************************************************************************)
(* What the file system promises: a file is a sequence of bytes of its     *)
(* own.  A step creates a file empty, removes one, puts an empty file in   *)
(* another's place, or overwrites and extends one file from an offset      *)
(* inside it; nothing else changes any file.                               *)
(*                                                                         *)
(* The promise ends when sound becomes FALSE (Fs says when).               *)
(***************************************************************************)
EXTENDS Integers, Sequences

CONSTANTS Files, None

VARIABLES blob,    \* the bytes of each file, None when there is no such file
          sound

Init == sound = TRUE

Only(S) == \A m \in Files \ S : blob'[m] = blob[m]

Create(n) == blob[n] = None /\ blob'[n] = << >> /\ Only({n})
Remove(n) == blob'[n] = None /\ Only({n})
Replace(n, m) == blob'[n] = None /\ blob[m] = None /\ blob'[m] = << >> /\ Only({n, m})

(* The bytes off + 1 .. off + count become the same byte; the others stay. *)
Write(n) ==
    /\ blob[n] # None /\ blob'[n] # None
    /\ Len(blob'[n]) >= Len(blob[n])
    /\ \E off \in 0 .. Len(blob[n]) :
          /\ \A i \in 1 .. Len(blob[n]) :
                blob'[n][i] # blob[n][i] => i > off /\ blob'[n][i] = blob'[n][off + 1]
          /\ \A i \in Len(blob[n]) + 1 .. Len(blob'[n]) : blob'[n][i] = blob'[n][off + 1]
    /\ Only({n})

Next ==
    \/ ~sound'
    \/ /\ sound /\ sound'
       /\ \E n \in Files :
             \/ Create(n) \/ Remove(n) \/ Write(n)
             \/ \E m \in Files : Replace(n, m)

Spec == Init /\ [][Next]_<<blob, sound>>
=============================================================================
