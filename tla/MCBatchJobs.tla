---------------------------- MODULE MCBatchJobs ----------------------------
(***************************************************************************)
(* Two jobs, one at a provider that serves everything and one at Gemini or *)
(* Fireworks, and a restart.                                               *)
(***************************************************************************)
EXTENDS BatchJobs, TLC

CONSTANTS j1, j2

OpenAIGemini    == (j1 :> "openai") @@ (j2 :> "gemini")
OpenAIFireworks == (j1 :> "openai") @@ (j2 :> "fireworks")
=============================================================================
