------------------------------ MODULE Dispatch -----------------------------
(***************************************************************************)
(* What the router promises its callers, with no word on how: every        *)
(* request ends once, in one step, with the outcome that the backends'     *)
(* own answers call for, and with one journal line or a stated failure to  *)
(* write it.  Router implements this specification.                        *)
(***************************************************************************)
EXTENDS Routing, Sequences

CONSTANT Requests

VARIABLES kind,      \* the kind each request asks for
          only,      \* the backend each names, or NoName
          outcome,   \* outcome[r]: Pending, or how r ended
          said,      \* said[r][b]: what b answered r, "unasked" if not asked
          journal    \* the lines of the journal, oldest first

vars == <<kind, only, outcome, said, journal>>

Unasked == [b \in Backends |-> "unasked"]

Line(r, k, n, out, answers) ==
  [request |-> r, kind |-> k, asked |-> n, outcome |-> out,
   attempts |-> [b \in Backends |-> IF answers[b] \in Errors THEN answers[b]
                                                            ELSE "unasked"]]

(***************************************************************************)
(* The outcome the answers call for.  A backend that does not serve the    *)
(* request, or comes after the one that settled it, hears nothing of it;   *)
(* one that comes before failed with a quota or an outage.                 *)
(***************************************************************************)
SettledBy(b, S, answers) ==
  /\ b \in S
  /\ \A c \in S : c < b => AllowsFallback(answers[c])
  /\ \A c \in Backends : (c \notin S \/ c > b) => answers[c] = "unasked"

Deserved(k, n, out, answers) ==
  LET S == Serving(k, n) IN
  CASE out.what = "answered"  -> SettledBy(out.by, S, answers) /\ answers[out.by] = "ok"
    [] out.what = "stopped"   -> SettledBy(out.by, S, answers) /\ answers[out.by] = "other"
    [] out.what = "exhausted" -> /\ S # {}
                                 /\ \A b \in S : AllowsFallback(answers[b])
                                 /\ \A b \in Backends \ S : answers[b] = "unasked"
    [] out.what = "unserved"  -> Chosen(n) # {} /\ S = {} /\ answers = Unasked
    [] out.what = "unknown"   -> Chosen(n) = {} /\ answers = Unasked

Init == /\ kind \in [Requests -> Kinds]
        /\ only \in [Requests -> Names]
        /\ outcome = [r \in Requests |-> Pending]
        /\ said = [r \in Requests |-> Unasked]
        /\ journal = << >>

\* Request r ends: its line is written, unless the write fails or the
\* backend it names does not exist.
Finish(r) ==
  /\ outcome[r] = Pending
  /\ \E out \in Outcomes :
       /\ outcome' = [outcome EXCEPT ![r] = out]
       /\ \E answers \in [Backends -> Results \cup {"unasked"}] :
            /\ said' = [said EXCEPT ![r] = answers]
            /\ Deserved(kind[r], only[r], out, answers)
            /\ \/ /\ out.what # "unknown"
                  /\ journal' = Append(journal, Line(r, kind[r], only[r], out, answers))
               \/ UNCHANGED journal
  /\ UNCHANGED <<kind, only>>

Next == \E r \in Requests : Finish(r)

Spec == Init /\ [][Next]_vars
=============================================================================
