--------------------------- MODULE Classification ---------------------------
(***************************************************************************)
(* What the adapters of the two command-line backends make of what their   *)
(* CLI printed (claude_code.rs and gemini_cli.rs, classify): an answer, or *)
(* one of the ways of failing.  "tripwire" is the Other error that latches *)
(* the claude backend, "other" every other Other error.                    *)
(*                                                                         *)
(* Texts are reduced to what the wording tests look for in them.           *)
(***************************************************************************)
EXTENDS Naturals, Sequences

Verdicts == {"ok", "quota_exceeded", "unreachable", "other", "tripwire"}

----------------------------------------------------------------------------
(* Claude prints a JSON array of messages, of which three types matter.    *)

Inits == [type : {"init"}, source : {"none", "key"}, tools : BOOLEAN]

Limits == [type : {"rate_limit_event"}, overage : BOOLEAN]

ResultMessages == [type : {"result"}, error : {"no", "yes", "unclear"},
                   status : {"none", "429", "outage", "refused"},
                   wording : {"usage limit", "context limit", "connection", "plain"}]

Typed(out, type) == {i \in DOMAIN out : out[i].type = type}

FirstOf(out, type) == out[CHOOSE i \in Typed(out, type) : \A j \in Typed(out, type) : i <= j]

LastOf(out, type) == out[CHOOSE i \in Typed(out, type) : \A j \in Typed(out, type) : j <= i]

Overage(out) == \E i \in Typed(out, "rate_limit_event") : out[i].overage

\* classify_error: the HTTP status first (500-504 and 529 are an outage), then
\* the wording, where a limit of the context is no limit of the plan.
ClaudeError(m) ==
  CASE m.status = "429"     -> "quota_exceeded"
    [] m.status = "outage"  -> "unreachable"
    [] m.status = "refused" -> "other"
    [] m.status = "none"    -> CASE m.wording = "usage limit" -> "quota_exceeded"
                                 [] m.wording = "connection"  -> "unreachable"
                                 [] OTHER                     -> "other"

ClaudeResult(m) == CASE m.error = "no"      -> "ok"
                     [] m.error = "yes"     -> ClaudeError(m)
                     [] m.error = "unclear" -> "other"

\* Mutant: the tools and an error are looked at before the billing.
ClaudeErrorsFirst(out) ==
  CASE Typed(out, "init") = {}              -> "other"
    [] FirstOf(out, "init").tools           -> "other"
    [] Typed(out, "result") = {}            -> "other"
    [] LastOf(out, "result").error # "no"   -> ClaudeResult(LastOf(out, "result"))
    [] FirstOf(out, "init").source # "none" -> "tripwire"
    [] Overage(out)                         -> "tripwire"
    [] OTHER                                -> "ok"

\* classify_for: billing source, tools and overage before the result.
ClaudeVerdict(out) ==
  CASE Typed(out, "init") = {}              -> "other"
    [] FirstOf(out, "init").source # "none" -> "tripwire"
    [] FirstOf(out, "init").tools           -> "other"
    [] Overage(out)                         -> "tripwire"
    [] Typed(out, "result") = {}            -> "other"
    [] OTHER -> ClaudeResult(LastOf(out, "result"))

----------------------------------------------------------------------------
(* Gemini prints one JSON object; what went wrong is also told on stderr   *)
(* or in a report that stderr names.                                       *)

GeminiOutputs == [json : BOOLEAN, error : BOOLEAN, response : BOOLEAN,
                  quota : BOOLEAN, network : BOOLEAN]

\* An answer when there is a response and no error; else a quota before an
\* outage, by the wording of everything that was printed.
GeminiVerdict(out) ==
  CASE out.json /\ ~out.error /\ out.response -> "ok"
    [] OTHER -> CASE out.quota   -> "quota_exceeded"
                  [] out.network -> "unreachable"
                  [] OTHER       -> "other"

\* extract_json, when the request has a schema: an answer without JSON is none.
Extracted(verdict) == IF verdict = "ok" THEN {"ok", "other"} ELSE {verdict}
=============================================================================
