---------------------------- MODULE MCIdeDriver -----------------------------
(***************************************************************************)
(* Four sectors of two words, two for each of the two entries of the       *)
(* sector cache.  The timer and the keyboard may raise a request at any    *)
(* turn once Gap turns have passed since their last: six turns are enough  *)
(* for a handler to finish and too few for a sector to be read in between. *)
(***************************************************************************)
EXTENDS IdeDriver

MCWord == 0 .. 99
MCDisk == [s \in Sectors |-> [i \in 1 .. SectorWords |-> 10 * s + i]]
=============================================================================
