---------------------------- MODULE MCChildRun -----------------------------
(***************************************************************************)
(* ChildRun on reports of claude that begin with one init message, or have *)
(* none, followed by up to two other messages.                             *)
(***************************************************************************)
EXTENDS ChildRun, TLC

Alike == Permutations(Calls)

\* The two names that the first call tries are taken.
TwoLeft == [dir : {"claude"}, stem : {"system"}, number : 0..1]

\* More errors than a pipe holds.
MoreErrors == [s \in Streams |-> IF s = "err" THEN 2 ELSE 1]

\* The wording of a result counts when it is an error without a status.
Others == Limits \cup {m \in ResultMessages :
                        /\ m.error # "yes" => m.status = "none"
                        /\ m.error # "yes" \/ m.status # "none" => m.wording = "plain"}

Tails == {<< >>} \cup {<<m>> : m \in Others} \cup {<<l, m>> : l \in Limits, m \in Others}
           \cup {<<m, l>> : l \in Limits, m \in Others}

MCOutputs == Tails \cup {<<i>> \o t : i \in Inits, t \in Tails}
=============================================================================
