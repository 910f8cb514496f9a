------------------------------ MODULE Routing ------------------------------
(***************************************************************************)
(* The routing table of itsaresume-router: the configured backends, what   *)
(* each serves, and the pure choices router.rs makes over them.  Backends  *)
(* are numbered in the order of the configuration, which is the order the  *)
(* router tries them in.  A name a caller may ask for is compared with the *)
(* backends' names first and with their kinds ("claude-code") second.      *)
(***************************************************************************)
EXTENDS Naturals

CONSTANTS N,          \* how many backends are configured
          Kinds,      \* the kinds of request ("generate", "classify")
          Serves,     \* the kinds each backend serves
          NameOf,     \* each backend's configured name
          TypeOf,     \* each backend's kind ("claude-code", "lm-studio")
          Asked       \* the names a caller may ask for

Backends == 1..N

NoName == "any backend"       \* the caller names none: the whole order

ASSUME RoutingAssumption ==
         /\ N \in Nat \ {0}                   \* Router::new refuses none
         /\ Serves \in [Backends -> SUBSET Kinds]
         /\ NameOf \in [Backends -> STRING]
         /\ TypeOf \in [Backends -> STRING]
         /\ \A b, c \in Backends : NameOf[b] = NameOf[c] => b = c
         /\ Asked \subseteq STRING
         /\ NoName \notin Asked

Names == Asked \cup {NoName}

(***************************************************************************)
(* BackendError: three ways of failing, of which only the first two say    *)
(* something of the backend that the next one does not share.              *)
(***************************************************************************)
Errors == {"quota_exceeded", "unreachable", "other"}

Results == Errors \cup {"ok"}

\* Mutant: every error is worth another backend.
EveryErrorFallsBack(error) == error \in Errors

AllowsFallback(error) == error \in {"quota_exceeded", "unreachable"}

\* The earliest backend of a set, in the configured order.
IsFirst(b, S) == b \in S /\ \A c \in S : b <= c

\* complete_on: everyone, or the one backend of that name, or the first
\* backend of that kind; nobody when the name is unknown.
Chosen(name) ==
  LET named == {b \in Backends : NameOf[b] = name}
      typed == {b \in Backends : TypeOf[b] = name}
  IN  IF name = NoName THEN Backends
      ELSE IF named # {} THEN named
      ELSE {b \in typed : IsFirst(b, typed)}

\* route: the chosen backends that serve the request's kind.
Serving(kind, name) == {b \in Chosen(name) : kind \in Serves[b]}

(***************************************************************************)
(* How a request can end.  "unknown" is complete_on's UnknownBackend, the  *)
(* others are route's Ok and its three RouteErrors.                        *)
(***************************************************************************)

Outcome(what, by) == [what |-> what, by |-> by]

Outcomes == [what : {"answered", "stopped"}, by : Backends]
              \cup [what : {"exhausted", "unserved", "unknown"}, by : {0}]

Pending == [what |-> "pending", by |-> 0]
=============================================================================
