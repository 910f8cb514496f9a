---------------------------- MODULE MCTailorRun -----------------------------
(***************************************************************************)
(* TailorRun with two runs of one offer, as the two lanes of the server    *)
(* may have them at once, one of them for another profile than the owner's.*)
(***************************************************************************)
EXTENDS TailorRun

CONSTANTS o1, r1, r2, default, other

SlugOf == [o \in {o1} |-> "offre"]

AsksOf == [r \in {r1, r2} |-> {<<o1, IF r = r1 THEN default ELSE other>>}]
=============================================================================
