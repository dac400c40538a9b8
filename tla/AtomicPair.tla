----------------------------- MODULE AtomicPair -----------------------------
(***************************************************************************)
(* What publication promises to whoever looks at the two runtime files     *)
(* while nobody writes them: one pair, replaced as a whole by what the     *)
(* authoring stores said at one moment, in the order of those moments.     *)
(*                                                                         *)
(* A publication reads the stores once and then publishes that or nothing. *)
(* Only a death or a failure half way can split the pair, and the next     *)
(* publication mends it.                                                   *)
(***************************************************************************)
EXTENDS Naturals

CONSTANT Overrides  \* what a pair's second file can say

VARIABLES
  stores,  \* [gen, over, web]: what the person saved
  pair,    \* [gen, over, web]: what the two files say together
  split,   \* they may say something else, since a publication was cut short
  read     \* what the one in progress read, as a set of at most one

StoresRead == [gen |-> stores.gen, over |-> stores.over]

PairInit ==
  /\ \E o \in Overrides : stores = [gen |-> 0, over |-> o, web |-> FALSE]
  /\ pair = stores
  /\ split = FALSE /\ read = {}

Saves ==
  /\ stores' \in [gen : {stores.gen, stores.gen + 1}, over : Overrides, web : BOOLEAN]
  /\ UNCHANGED <<pair, split, read>>

Reads ==
  /\ read = {} /\ read' = {StoresRead}
  /\ UNCHANGED <<stores, pair, split>>

\* Web wallpapers are allowed only while the person allows them.
Commits(r, web) ==
  /\ r.gen >= pair.gen
  /\ web => stores.web
  /\ pair' = [gen |-> r.gen, over |-> r.over, web |-> web]
  /\ split' = FALSE /\ read' = {}
  /\ UNCHANGED stores

GivesUp ==
  /\ read # {} /\ read' = {}
  /\ split' \in {split, TRUE}
  /\ UNCHANGED <<stores, pair>>

PairNext ==
  \/ Saves \/ Reads \/ GivesUp
  \/ \E r \in read, web \in BOOLEAN : Commits(r, web)

PairSpec == PairInit /\ [][PairNext]_<<stores, pair, split, read>>
=============================================================================
