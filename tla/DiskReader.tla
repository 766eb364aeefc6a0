----------------------------- MODULE DiskReader -----------------------------
(***************************************************************************)
(* What the disk driver of the kernel promises to the loader: a request    *)
(* for a sector is answered by that sector of the disk.                    *)
(***************************************************************************)
CONSTANTS Sectors, Disk, None

VARIABLES want,     \* the sector asked for, or None
          answer    \* the contents of the sector asked for last, or None

Init == want = None /\ answer = None

Ask(s) == want = None /\ want' = s /\ answer' = None

Answer == want # None /\ answer' = Disk[want] /\ want' = None

Next == Answer \/ \E s \in Sectors : Ask(s)

Safety == Init /\ [][Next]_<<want, answer>>

Spec == Safety /\ WF_<<want, answer>>(Answer)
=============================================================================
