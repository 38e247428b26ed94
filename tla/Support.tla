------------------------------ MODULE Support -------------------------------
(***************************************************************************)
(* What works around the handling of requests: the live configuration, a   *)
(* pool of accounts of the gateway, the prefix tree of a backend, the care *)
(* for the quality of one answer, the keeping of the retrieval index, and  *)
(* one completion between program, adapter, handler and client.            *)
(* The parts share no state; each is explored by itself.                   *)
(***************************************************************************)
EXTENDS LiveConfig, AccountPools, PrefixTree, AnswerQuality, GraphIngest, Completion

VARIABLE part   \* the part that is explored

vars == <<configuration, accountPool, tree, quality, ingest, completion, part>>

Part == {"config", "pool", "tree", "quality", "ingest", "completion"}

-----------------------------------------------------------------------------
StepInConfig ==
  /\ part = "config"
  /\ ChangeConfig \/ WatchStep \/ \E r \in Request : CallStep(r)
  /\ UNCHANGED <<accountPool, tree, quality, ingest, completion, part>>

StepInPool ==
  /\ part = "pool" /\ PoolStep
  /\ UNCHANGED <<configuration, tree, quality, ingest, completion, part>>

StepInTree ==
  /\ part = "tree" /\ TreeStep
  /\ UNCHANGED <<configuration, accountPool, quality, ingest, completion, part>>

StepInQuality ==
  /\ part = "quality" /\ QualityStep
  /\ UNCHANGED <<configuration, accountPool, tree, ingest, completion, part>>

StepInIngest ==
  /\ part = "ingest" /\ IngestStep
  /\ UNCHANGED <<configuration, accountPool, tree, quality, completion, part>>

StepInCompletion ==
  /\ part = "completion" /\ CompletionStep
  /\ UNCHANGED <<configuration, accountPool, tree, quality, ingest, part>>

Init ==
  /\ ConfigInit /\ PoolInit /\ TreeInit /\ QualityInit /\ IngestInit
  /\ CompletionInit /\ part \in Part
  /\ part # "config" => onDisk = CHOOSE c \in Config : \E v \in Value : c = Filled(v)
  /\ part # "quality" =>
       asked = [[x \in DOMAIN asked |-> FALSE] EXCEPT !["mode"] = "sequential"]
       /\ provider = (CHOOSE p \in Providers : TRUE) /\ ~fallback
  /\ part # "completion" =>
       adapter = "claude" /\ streams /\ unwritten = CHOOSE s \in Script : TRUE

Next ==
  \/ StepInConfig \/ StepInPool \/ StepInTree \/ StepInQuality \/ StepInIngest
  \/ StepInCompletion

\* The polling of the configuration file and the calls of the API go on, and so do the
\* timers, the walkers and the workers of the index, and an adapter and its handler; a
\* program's time runs out.  What an API writes, and whether it does, is its own affair.
Spec ==
  /\ Init /\ [][Next]_vars
  /\ WF_vars(part = "config" /\ WatchStep /\ StepInConfig)
  /\ \A r \in Request : WF_vars(part = "config" /\ CallStep(r) /\ StepInConfig)
  /\ WF_vars(part = "ingest" /\ IngestRuns /\ StepInIngest)
  /\ WF_vars(part = "completion" /\ AdapterStep /\ StepInCompletion)
  /\ WF_vars(part = "completion" /\ HandlerStep /\ StepInCompletion)
  /\ WF_vars(part = "completion" /\ Cut /\ StepInCompletion)

-----------------------------------------------------------------------------
TypeOK ==
  /\ part \in Part
  /\ ConfigTypeOK /\ PoolTypeOK /\ TreeTypeOK /\ QualityTypeOK /\ IngestTypeOK
  /\ CompletionTypeOK

\* Changes that do not cross each other settle: in the end what the file holds, what is
\* in memory and what the router, the costs and the limits work by are the same, however
\* saves, the flag and the polling interleave (watchConfig, saveConfigToDisk).
Agrees == onDisk = Broken \/ (memory = onDisk /\ inUse = onDisk)
ConfigSettles == part = "config" => []<>(crossed \/ Agrees)

\* A caller is turned away only if no account was there for the whole of its search,
\* however the turns of other callers interleave; without cooldowns leases are even to
\* one once searches are over; and the wait a client is told of is long enough
\* (Manager.Checkout, Manager.Peek).
CheckoutFair ==
  /\ \A r \in Request : caller[r].pc = "refused" => caller[r].up = {}
  /\ (~cooled /\ \A r \in Request : caller[r].pc # "scan") => \A i \in Place : leases[i] <= 1
  /\ Peek.wait > 0 => \E i \in Place : IsActive(i, clock + Peek.wait)

\* What a backend was lately given is found again, by the prompt and those it begins,
\* through any interleaving with sweeps that did not touch its nodes behind its back,
\* and puts that backend first; and the count of nodes, by which sweeps are called for,
\* is off only by the nodes that were made below one swept away (Insert, Sweep).
IsPromised(p) ==
  Chunks(p) \in DOMAIN promised /\ \A i \in DOMAIN Chunks(p) : SubSeq(Chunks(p), 1, i) \notin setBack
Kept(p, q) == Len(Chunks(p)) - IF Len(p) % ChunkLen = 0 \/ p = q THEN 0 ELSE 1
PrefixKept ==
  /\ count = Cardinality(DOMAIN seen) + sweep.removed + leaked
  /\ \A p, q \in Prompt : IsPromised(p) /\ IsPrefix(p, q) =>
       /\ LookupDepth(q) >= Kept(p, q)
       /\ Kept(p, q) > 0 =>
            ChooseByKVDepth(<<"other", "this">>, [this |-> LookupDepth(q), other |-> 0]) = <<"this", "other">>

\* The gate lets an answer through that fails its checks only if it heard none that
\* passes them, in whatever order the answers come; an answer of the consensus without
\* its mark means nobody had one (GateSequential, GateParallel, runConsensus).
AnswerChecked ==
  stage = "done" =>
    /\ heard # {} /\ "reflected" \notin marks /\ ~Passes(answer) => \A a \in heard : ~Passes(a)
    /\ asked.consensus /\ marks \cap {"agreed", "arbitrated"} = {} => Heeded = {}
    /\ marks = {"agreed"} => \E i \in Heeded : opinion[i] = answer

\* Once the files are left alone the index has them whole, in their last version, but
\* for those that were passed over or the storing of which failed, of which nobody hears
\* and which nobody tries again (flushPending, chunkFile, graphifyIngest).
IndexSettles ==
  part = "ingest" =>
    []<>(/\ pipe = "idle" /\ events = {}
         /\ \A f \in File : pending[f] = "no" /\ (f \in missed \/ Indexed(f)))

\* A client that stays is told all that the program said up to its result, tool by tool
\* as it was said, and of a run that failed, unless the error found no room or the
\* parser failed: then it is logged only (parseClaudeStream, streamCompletion).
ToldInFull ==
  reader = "ended" /\ ~left =>
    /\ Contents(told, {"text"}) = SaidText /\ ToldTools = SaidTools
    /\ ~runErr /\ source = "ended" => (stdout = <<>> /\ unwritten = <<>>) \/ Last(said).is = "result"
    /\ IsCLI /\ ~runErr /\ source # "ended" =>
         unheard \/ \E i \in DOMAIN told : told[i].is = "error" /\ told[i].text = ""

\* A completion ends, and gives back what its request holds, whatever the program and
\* the client do, unless the client left a stream whose channel the adapter then filled,
\* or waits for an API that neither goes on nor ends (Run, which passes the API no
\* timeout), or the program is over and one it started keeps its output open.
Stuck == left /\ reader = "joining" /\ sending # NoEvent /\ Len(flow) = FlowCap
Endless == adapter = "anthropic" /\ source = "writing" /\ ~left
CompletionEnds == part = "completion" => []<>(reader = "ended" \/ Stuck \/ Endless \/ heldOpen)

=============================================================================
