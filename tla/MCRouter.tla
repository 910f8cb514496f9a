------------------------------ MODULE MCRouter -----------------------------
(***************************************************************************)
(* Router on three backends: two Claude Code accounts, the first for       *)
(* generations only, and a local model for classifications only.           *)
(***************************************************************************)
EXTENDS Router, TLC

MCServes == 1 :> {"generate"} @@ 2 :> {"generate", "classify"} @@ 3 :> {"classify"}

MCNameOf == 1 :> "claude-a" @@ 2 :> "claude-b" @@ 3 :> "bionic"

MCTypeOf == 1 :> "claude-code" @@ 2 :> "claude-code" @@ 3 :> "lm-studio"
=============================================================================
