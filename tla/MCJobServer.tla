---------------------------- MODULE MCJobServer ----------------------------
(***************************************************************************)
(* JobServer with one token more than there is room for visitors, one or   *)
(* two POSTs at once and up to two offers in each (the .cfg files).        *)
(***************************************************************************)
EXTENDS JobServer, TLC

\* Tokens and POSTs are only ever compared with one another.
Symmetry == Permutations(Tokens) \cup Permutations(Posts)
=============================================================================
