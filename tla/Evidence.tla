------------------------------ MODULE Evidence ------------------------------
(***************************************************************************)
(* cv/src/evidence.js: what the sources say of a skill, and so whether it  *)
(* may be shown.  An entry has a grade, A to C, and a stance; its quote    *)
(* and the scan that finds the C entries in the old CVs are left out.      *)
(***************************************************************************)
EXTENDS Naturals, FiniteSets, FiniteSetsExt

GradeRank == [A |-> 3, B |-> 2, C |-> 1]

BestGrade(entries) == IF entries = {} THEN 0 ELSE Max({GradeRank[e.grade] : e \in entries})

\* assess: A or B against outweighs any number of C for it.
Verdict(entries) ==
  LET supporting == {e \in entries : e.stance # "against"}
      opposing == entries \ supporting
  IN CASE BestGrade(opposing) >= GradeRank["B"] /\ BestGrade(opposing) >= BestGrade(supporting) -> "contradicted"
       [] supporting = {} -> IF opposing = {} THEN "unsupported" ELSE "contradicted"
       [] BestGrade(supporting) >= GradeRank["B"] -> "verified"
       [] opposing # {} -> "inconsistent"
       [] OTHER -> "self-declared"

Showable == {"verified", "self-declared", "inconsistent"}

\* blocked: neither shown nor claimed.
BlockedSkills(evidence) == {s \in DOMAIN evidence : Verdict(evidence[s]) \notin Showable}
=============================================================================
