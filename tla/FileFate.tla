------------------------------ MODULE FileFate ------------------------------
(***************************************************************************)
(* What becomes of each file that is ever at a wallpaper's path: what      *)
(* removals, their replays and downloads promise together, however they    *)
(* die, fail and meet each other.                                          *)
(*                                                                         *)
(* A file comes once.  A removal takes it aside, into its claim or into    *)
(* the trash; from there it goes back over nothing, or, from a claim and   *)
(* only if the person asked for it, it is destroyed for good.  Everybody   *)
(* else may write over what is at the path, or take it away.               *)
(***************************************************************************)
CONSTANT Files

VARIABLES
  fate,  \* where each file is
  asked  \* those the person has asked to be removed

Places == {"new", "path", "claim", "trash", "gone", "elsewhere"}

AtPath(f) == fate[f] = "path"
Free      == \A f \in Files : ~AtPath(f)

FateInit ==
  /\ \E f \in Files : fate = [g \in Files |-> IF g = f THEN "path" ELSE "new"]
  /\ asked = {}

Becomes(f, place) == fate' = [fate EXCEPT ![f] = place] /\ UNCHANGED asked

\* The person asks for what is at the path.
Ask(f) == AtPath(f) /\ asked' = asked \cup {f} /\ UNCHANGED fate

\* A download comes to a free name; others write over what is there.
Comes(f) ==
  /\ fate[f] = "new"
  /\ fate' = [g \in Files |-> IF g = f THEN "path"
                              ELSE IF AtPath(g) THEN "elsewhere" ELSE fate[g]]
  /\ UNCHANGED asked

Leaves(f) == AtPath(f) /\ Becomes(f, "elsewhere")

\* A removal takes what it finds, after it was asked to; it claims one file at a time.
Claimed(f) == AtPath(f) /\ asked # {} /\ (\A g \in Files : fate[g] # "claim") /\ Becomes(f, "claim")
Trashed(f) == AtPath(f) /\ asked # {} /\ Becomes(f, "trash")

Returns(f) == fate[f] \in {"claim", "trash"} /\ Free /\ Becomes(f, "path")

Destroyed(f) == fate[f] = "claim" /\ f \in asked /\ Becomes(f, "gone")

FateNext ==
  \E f \in Files : \/ Ask(f) \/ Comes(f) \/ Leaves(f)
                   \/ Claimed(f) \/ Trashed(f) \/ Returns(f) \/ Destroyed(f)

FateSpec == FateInit /\ [][FateNext]_<<fate, asked>>
=============================================================================
