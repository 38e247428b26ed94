--------------------------- MODULE AnswerQuality ---------------------------
(***************************************************************************)
(* What is done about the quality of one answer (proxy.go, consensus.go,   *)
(* qualitygate.go, schema_validate.go, reflect.go): several opinions and   *)
(* an arbiter, or the first answer of a backend, the gate that asks a      *)
(* fallback, and a review by the backend that gave the answer.             *)
(*                                                                         *)
(* An answer is "good", "poor" (it fails the checks), "shapeless" (it      *)
(* violates the schema only), "blank" (or cannot be read), an HTTP error,  *)
(* or "lost": the call returns an error.                                   *)
(***************************************************************************)
EXTENDS Naturals

CONSTANTS
  Opinions,   \* the number of backends asked, at most defaultConsensusN
  Providers   \* the pairs of providers of the backend and of the gate's fallback

Backends == {"cheap", "fallback"}

ASSUME QualityAssumption ==
  Opinions \in 2..3 /\ Providers \subseteq [Backends -> {"openai", "gemini", "ollama"}]

Given == {"good", "poor", "shapeless", "blank"}
Answer == Given \cup {"error", "lost"}

\* What a provider replies: an answer with status 200, a body that is none, an error, nothing.
Reply == Given \cup {"garbled", "4xx", "5xx", "nothing"}

\* Passed on as it is.
ForwardToOpenAI(reply) ==
  CASE reply \in Given -> reply
    [] reply = "garbled" -> "blank"
    [] reply \in {"4xx", "5xx"} -> "error"
    [] reply = "nothing" -> "lost"

\* What cannot be parsed becomes an answer that says so.
ParseGeminiResponse(reply) == IF reply = "garbled" THEN "shapeless" ELSE reply

ForwardToGemini(reply) ==
  CASE reply = "4xx" -> "error"
    [] reply \in {"5xx", "nothing"} -> "lost"
    [] OTHER -> ParseGeminiResponse(reply)

ForwardToOllama(reply) == IF reply \in Given THEN reply ELSE "lost"

AnswersOf(kind) ==
  CASE kind = "openai" -> {ForwardToOpenAI(reply) : reply \in Reply}
    [] kind = "gemini" -> {ForwardToGemini(reply) : reply \in Reply}
    [] kind = "ollama" -> {ForwardToOllama(reply) : reply \in Reply}
Nothing == "nothing"

VARIABLES
  asked,      \* [consensus, schema, gate, reflect : BOOLEAN, mode] of the request and the gate
  provider,   \* their providers
  fallback,   \* the fallback backend of the gate is available
  stage,      \* where the request stands
  opinion,    \* [1..Opinions -> the answer that came, or Nothing]
  parallel,   \* ["cheap" and "fallback" -> the answer that came, or Nothing]
  answer,     \* the answer the client is to get
  heard,      \* history: the answers the gate had to choose from
  marks       \* the headers that say what was done

quality == <<asked, provider, fallback, stage, opinion, parallel, answer, heard, marks>>

SchemaValid(a) == asked.schema => a \notin {"shapeless", "blank"}
PassesChecks(a) == a \notin {"poor", "blank"}
Passes(a) == a \in Given /\ SchemaValid(a) /\ PassesChecks(a)

-----------------------------------------------------------------------------
\* runConsensus: all are asked side by side, and waited for.
GiveOpinion(i) ==
  /\ stage = "consensus" /\ opinion[i] = Nothing
  /\ \E a \in Answer : opinion' = [opinion EXCEPT ![i] = a]
  /\ UNCHANGED <<asked, provider, fallback, stage, parallel, answer, heard, marks>>

Heeded == {i \in 1..Opinions : opinion[i] \in Given \ {"blank"}}
FirstHeeded == opinion[CHOOSE i \in Heeded : \A j \in Heeded : i <= j]

Conclusion(a, mark) == answer' = a /\ stage' = "done" /\ marks' = marks \cup mark

\* Whether answers are alike is for the words to say; the arbiter's may fail.
Conclude ==
  /\ stage = "consensus" /\ \A i \in 1..Opinions : opinion[i] # Nothing
  /\ \/ Heeded = {} /\ stage' = "dispatch" /\ UNCHANGED <<answer, marks>>
     \/ Heeded # {} /\ Conclusion(FirstHeeded, {"agreed"})
     \/ /\ \E i, j \in Heeded : i # j
        /\ \E a \in Given \ {"blank"} : Conclusion(a, {"arbitrated"})
  /\ UNCHANGED <<asked, provider, fallback, opinion, parallel, heard>>

-----------------------------------------------------------------------------
\* The answer of the first candidate that neither fails nor returns a 5xx.
Dispatched ==
  /\ stage = "dispatch"
  /\ \E a \in AnswersOf(provider["cheap"]) :
       /\ answer' = a
       /\ stage' = IF a \in {"error", "lost"} THEN "done"
                   ELSE IF asked.schema \/ asked.gate THEN "gate" ELSE "reflect"
       /\ heard' = IF stage' = "gate" /\ asked.mode = "sequential" THEN {a} ELSE {}
  /\ UNCHANGED <<asked, provider, fallback, opinion, parallel, marks>>

Take(a, mark) ==
  IF a = "lost" THEN UNCHANGED <<answer, marks>> ELSE answer' = a /\ marks' = marks \cup mark

\* GateSequential.  What the fallback says is not looked at, its status neither.
GateSequential ==
  /\ stage = "gate" /\ asked.mode = "sequential"
  /\ stage' = "reflect"
  /\ \/ /\ Passes(answer) \/ ~fallback
        /\ UNCHANGED <<answer, heard, marks>>
     \/ /\ ~Passes(answer) /\ fallback
        /\ \E a \in AnswersOf(provider["fallback"]) :
             /\ heard' = heard \cup {a}
             /\ Take(a, {"retried"})
  /\ UNCHANGED <<asked, provider, fallback, opinion, parallel>>

\* GateParallel asks the cheap backend again, and the fallback beside it if there is one.
Call(b) ==
  /\ stage = "gate" /\ asked.mode = "parallel" /\ parallel[b] = Nothing
  /\ b = "fallback" => fallback
  /\ \E a \in AnswersOf(provider[b]) :
       /\ parallel' = [parallel EXCEPT ![b] = a]
       /\ heard' = heard \cup {a}
  /\ UNCHANGED <<asked, provider, fallback, stage, opinion, answer, marks>>

\* Mutant of Choose: the answer that comes first is taken.
ChooseFirst ==
  /\ stage = "gate" /\ asked.mode = "parallel" /\ parallel["cheap"] # Nothing
  /\ stage' = "reflect"
  /\ Take(parallel["cheap"], {})
  /\ UNCHANGED <<asked, provider, fallback, opinion, parallel, heard>>

Choose ==
  LET cheap == parallel["cheap"]
      other == parallel["fallback"]
  IN /\ stage = "gate" /\ asked.mode = "parallel" /\ cheap # Nothing /\ (fallback => other # Nothing)
     /\ stage' = "reflect"
     /\ IF ~fallback \/ Passes(cheap) \/ (other \notin Given /\ cheap # "lost")
        THEN Take(cheap, {}) ELSE Take(other, {"retried"})
     /\ UNCHANGED <<asked, provider, fallback, opinion, parallel, heard>>

-----------------------------------------------------------------------------
\* runReflection, best effort: any failure leaves the answer.
Reflect ==
  /\ stage = "reflect"
  /\ stage' = "done"
  /\ \/ UNCHANGED <<answer, marks>>
     \/ /\ asked.reflect /\ answer \in Given \ {"blank"}
        /\ \E a \in Given \ {"blank"} : answer' = a /\ marks' = marks \cup {"reflected"}
  /\ UNCHANGED <<asked, provider, fallback, opinion, parallel, heard>>

QualityStep ==
  \/ \E i \in 1..Opinions : GiveOpinion(i)
  \/ Conclude \/ Dispatched \/ GateSequential \/ Choose \/ Reflect
  \/ \E b \in Backends : Call(b)

QualityInit ==
  /\ asked \in [consensus : BOOLEAN, schema : BOOLEAN, gate : BOOLEAN, reflect : BOOLEAN,
                mode : {"sequential", "parallel"}]
  /\ provider \in Providers /\ fallback \in BOOLEAN
  /\ stage = IF asked.consensus THEN "consensus" ELSE "dispatch"
  /\ opinion = [i \in 1..Opinions |-> Nothing]
  /\ parallel = [b \in Backends |-> Nothing]
  /\ answer = Nothing /\ heard = {} /\ marks = {}

QualityTypeOK ==
  /\ provider \in Providers /\ fallback \in BOOLEAN
  /\ stage \in {"consensus", "dispatch", "gate", "reflect", "done"}
  /\ opinion \in [1..Opinions -> Answer \cup {Nothing}]
  /\ parallel \in [Backends -> Answer \cup {Nothing}]
  /\ answer \in Answer \cup {Nothing} /\ heard \subseteq Answer
  /\ marks \subseteq {"agreed", "arbitrated", "retried", "reflected"}

=============================================================================
