----------------------------- MODULE SharedList -----------------------------
(***************************************************************************)
(* What a store of the library promises of its file, whoever writes it: a  *)
(* list shared by every process, changed one entry at a time, in which     *)
(* nothing the application cannot read is ever written over.               *)
(*                                                                         *)
(* The person has the file too, in an editor, a backup or a newer version  *)
(* of the application; every change of theirs is counted in edits.         *)
(***************************************************************************)
EXTENDS Naturals

CONSTANT Paths

VARIABLES
  doc,    \* the document everybody sees
  kept,   \* documents set aside
  edits   \* changes somebody else has made

Kinds    == {"absent", "sound", "damaged", "newer"}
Document == [kind : Kinds, paths : SUBSET Paths, edit : Nat]

\* paths: what can be read of it.  edit: which change of somebody else's it is.
Absent    == [kind |-> "absent", paths |-> {}, edit |-> 0]
Sound(ps) == [kind |-> "sound", paths |-> ps, edit |-> 0]

Readable(d) == d.kind \in {"absent", "sound"}

ListInit ==
  /\ doc \in {Absent} \cup {Sound(ps) : ps \in SUBSET Paths}
  /\ kept = {}
  /\ edits = 0

\* One entry comes or goes.
Add(p) ==
  /\ Readable(doc)
  /\ doc' = Sound(doc.paths \cup {p})
  /\ UNCHANGED <<kept, edits>>

Discard(p) ==
  /\ Readable(doc)
  /\ doc' = Sound(doc.paths \ {p})
  /\ UNCHANGED <<kept, edits>>

\* A damaged document is replaced, with what can be read of it, once it is kept.
Renew(p) ==
  /\ doc.kind = "damaged" /\ doc \in kept
  /\ doc' = Sound(doc.paths \cup {p})
  /\ UNCHANGED <<kept, edits>>

\* Documents may be kept ...
Keep ==
  /\ kept \subseteq kept'
  /\ UNCHANGED <<doc, edits>>

\* ... and, when a renewal comes to nothing, be found only there.
SetAside ==
  /\ kept' = kept \cup {doc}
  /\ doc' = Absent
  /\ UNCHANGED edits

SomebodyElse ==
  /\ edits' = edits + 1
  /\ doc' \in Document
  /\ UNCHANGED kept

ListNext ==
  \/ \E p \in Paths : Add(p) \/ Discard(p) \/ Renew(p)
  \/ Keep \/ SetAside \/ SomebodyElse

ListSpec == ListInit /\ [][ListNext]_<<doc, kept, edits>>
=============================================================================
