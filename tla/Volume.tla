------------------------------- MODULE Volume -------------------------------
(***************************************************************************)
(* What a FAT volume promises of the bytes of its files across sector      *)
(* writes, power cuts and reboots: a step changes one file; a file is      *)
(* created empty and removed whole; an overwrite keeps the length; the     *)
(* bytes a call appends appear together, are the bytes of that call, and   *)
(* leave those before them alone.                                          *)
(***************************************************************************)
EXTENDS Integers, Sequences

CONSTANTS Locs,    \* places of directory entries
          Bytes    \* values a call writes

VARIABLES blob,    \* blob[l]: bytes of the file whose entry is at l, or None
          sound    \* FALSE once the volume has been damaged

None == <<-1>>

(* What a step may do to the one file it changes. *)
Create(old, new) == old = None /\ new = <<>>
Remove(old, new) == old # None /\ new = None
Overwrite(old, new) == old # None /\ new # None /\ Len(new) = Len(old)
Extend(old, new) ==
  /\ old # None /\ new # None
  /\ \E b \in Bytes : new = old \o [i \in 1..(Len(new) - Len(old)) |-> b]

Init == sound = TRUE /\ DOMAIN blob = Locs

Next ==
  \/ ~sound'
  \/ /\ sound
     /\ \E old \in {blob}, new \in {blob'} : old # new =>
          \A l \in {k \in Locs : old[k] # new[k]} :
            /\ \A k \in Locs \ {l} : old[k] = new[k]
            /\ \/ Create(old[l], new[l]) \/ Remove(old[l], new[l])
               \/ Overwrite(old[l], new[l]) \/ Extend(old[l], new[l])

Spec == Init /\ [][Next]_<<blob, sound>>
=============================================================================
