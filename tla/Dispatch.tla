------------------------------ MODULE Dispatch ------------------------------
(***************************************************************************)
(* The request goroutines over the backend pool: RouteCandidates picks a   *)
(* list of backends once, then the handler's failover loop goes down that  *)
(* list, with one retry per backend, without asking the pool again.        *)
(*                                                                         *)
(* A handler is one of three kinds: "plain" runs the failover loop;        *)
(* "stream" relays an SSE stream from its first candidate, counts itself   *)
(* in flight and never reports to the health record; "once" makes a single *)
(* forwardToBackend call (a stream to a backend that cannot stream, an     *)
(* entry of the request batcher, a quality reference, fallback or arbiter,  *)
(* or one more call of the backend that has just answered).                *)
(***************************************************************************)
EXTENDS BackendPool, Sequences

CONSTANTS
  Handler,   \* request goroutines
  RuleLists, \* what routing may have to go through for a request: the names each
             \* matching rule lists, in rule order, the fallback chain last
  Downgrade  \* names that exhausted budgets downgrade to

ASSUME DispatchAssumption ==
  /\ IsFiniteSet(Handler)
  /\ RuleLists \subseteq Seq(SUBSET Name)
  /\ Downgrade \subseteq Name

VARIABLES
  pc,       \* where the handler is
  kind,     \* which of the three
  cands,    \* candidates not yet given up, the current one first
  attempt,  \* of the current candidate: 1, or 2 after a transport error
  result    \* of the call that has just been recorded

handlerVars == <<pc, kind, cands, attempt, result>>
vars == <<poolVars, handlerVars>>

Kind   == {"plain", "stream", "once"}
Result == {"ok", "5xx", "error"}

InFlight(h) == pc[h] \in {"calling", "recorded"}

\* Objects some handler still points to.
Held == {b \in Backend : \E h \in Handler : \E i \in 1..Len(cands[h]) : cands[h][i] = b}

\* Every part of the state keeps its type; ActiveReqs never goes negative, and a
\* goroutine of handleChatCompletions has a backend to call exactly while it is
\* at work.
TypeOK ==
  /\ PoolTypeOK
  /\ pc \in [Handler -> {"idle", "ready", "calling", "recorded"}]
  /\ kind \in [Handler -> Kind]
  /\ cands \in [Handler -> Seq(Backend)]
  /\ attempt \in [Handler -> 1..2]
  /\ result \in [Handler -> Result]
  /\ \A h \in Handler : pc[h] = "idle" <=> cands[h] = <<>>

-----------------------------------------------------------------------------
(* Routing: the first rule with an available backend, least busy first.    *)
(* Equally busy candidates may come in any order (the sort is not stable   *)
(* and the round-robin counter then swaps the first with one of its peers). *)

Candidates(rules) ==
  LET served == {i \in 1..Len(rules) : GetHealthy(rules[i]) # {}} IN
  IF served = {} THEN {}
  ELSE GetHealthy(rules[CHOOSE i \in served : \A j \in served : i <= j])

LeastConnFirst(S) ==
  {s \in [1..Cardinality(S) -> S] :
     \A i, j \in DOMAIN s : i < j => s[i] # s[j] /\ active[s[i]] <= active[s[j]]}

\* Over budget, the downgrade target goes in front of the list, which may
\* name it again.
Downgraded == {<<>>} \cup {<<b>> : b \in GetHealthy(Downgrade)}

RouteCandidates(rules) ==
  {d \o s : d \in Downgraded, s \in LeastConnFirst(Candidates(rules))}

Assign(h, k, s) ==
  /\ pc[h] = "idle"
  /\ pc' = [pc EXCEPT ![h] = "ready"]
  /\ kind' = [kind EXCEPT ![h] = k]
  /\ cands' = [cands EXCEPT ![h] = s]
  /\ UNCHANGED <<poolVars, attempt, result>>

\* With no candidate at all the answer is a 503 and nothing changes.
Route(h) ==
  \E rules \in RuleLists :
    /\ Candidates(rules) # {}
    /\ \E s \in RouteCandidates(rules) :
         \/ Assign(h, "plain", s)
         \/ Assign(h, "stream", <<s[1]>>)

\* Reviewers, references, arbiters and fallbacks are looked up by name and
\* asked IsAvailable.
RouteOnce(h) == \E b \in GetHealthy(Name) : Assign(h, "once", <<b>>)

-----------------------------------------------------------------------------
(* One call of the current candidate.                                      *)

Call(h) ==
  /\ pc[h] = "ready"
  /\ pc' = [pc EXCEPT ![h] = "calling"]
  /\ active' = [active EXCEPT ![Head(cands[h])] = @ + 1]
  /\ UNCHANGED <<pool, config, health, checking, probing, kind, cands, attempt, result>>

\* The answer updates the health record; the in-flight count follows in a
\* deferred call, after the record's lock has been released.
Answer(h, res) ==
  /\ pc[h] = "calling"
  /\ kind[h] # "stream"
  /\ result' = [result EXCEPT ![h] = res]
  /\ health' = [health EXCEPT ![Head(cands[h])] = AfterRequest(@, res = "ok")]
  /\ pc' = [pc EXCEPT ![h] = "recorded"]
  /\ UNCHANGED <<pool, config, active, checking, probing, kind, cands, attempt>>

\* The deferred decrement; the call's results are dead from here on.
Leave(h) ==
  /\ active' = [active EXCEPT ![Head(cands[h])] = @ - 1]
  /\ result' = [result EXCEPT ![h] = "ok"]
  /\ UNCHANGED <<pool, config, health, checking, probing>>

\* Mutant of Finish: the goroutine ends and its candidates stay referenced.
FinishKeepsCandidates(h) ==
  /\ Leave(h)
  /\ pc' = [pc EXCEPT ![h] = "idle"]
  /\ kind' = [kind EXCEPT ![h] = "plain"]
  /\ attempt' = [attempt EXCEPT ![h] = 1]
  /\ UNCHANGED cands

Finish(h) ==
  /\ Leave(h)
  /\ pc' = [pc EXCEPT ![h] = "idle"]
  /\ cands' = [cands EXCEPT ![h] = <<>>]
  /\ kind' = [kind EXCEPT ![h] = "plain"]
  /\ attempt' = [attempt EXCEPT ![h] = 1]

\* The stream has ended, well or not.
EndStream(h) ==
  /\ pc[h] = "calling"
  /\ kind[h] = "stream"
  /\ Finish(h)

\* forwardWithRetry's second attempt.
Retriable(h) == kind[h] = "plain" /\ result[h] = "error" /\ attempt[h] = 1

\* The failover loop has another candidate to try.
HasNext(h) == kind[h] = "plain" /\ result[h] # "ok" /\ Len(cands[h]) > 1

Respond(h) ==
  /\ pc[h] = "recorded"
  /\ ~Retriable(h)
  /\ ~HasNext(h)
  /\ Finish(h)

\* Mutant of Retry: the decrement happens only when the call is over for good.
RetryWithoutLeave(h) ==
  /\ pc[h] = "recorded"
  /\ Retriable(h)
  /\ pc' = [pc EXCEPT ![h] = "ready"]
  /\ attempt' = [attempt EXCEPT ![h] = 2]
  /\ result' = [result EXCEPT ![h] = "ok"]
  /\ UNCHANGED <<poolVars, kind, cands>>

Retry(h) ==
  /\ pc[h] = "recorded"
  /\ Retriable(h)
  /\ Leave(h)
  /\ pc' = [pc EXCEPT ![h] = "ready"]
  /\ attempt' = [attempt EXCEPT ![h] = 2]
  /\ UNCHANGED <<kind, cands>>

Failover(h) ==
  /\ pc[h] = "recorded"
  /\ ~Retriable(h)
  /\ HasNext(h)
  /\ Leave(h)
  /\ pc' = [pc EXCEPT ![h] = "ready"]
  /\ cands' = [cands EXCEPT ![h] = Tail(@)]
  /\ attempt' = [attempt EXCEPT ![h] = 1]
  /\ UNCHANGED kind

\* The reflection pass, or the parallel quality gate, sends another request to
\* the backend that answered, without asking IsAvailable.
CallAgain(h) ==
  /\ pc[h] = "recorded"
  /\ kind[h] = "plain" /\ result[h] = "ok"
  /\ Leave(h)
  /\ pc' = [pc EXCEPT ![h] = "ready"]
  /\ kind' = [kind EXCEPT ![h] = "once"]
  /\ cands' = [cands EXCEPT ![h] = <<Head(@)>>]
  /\ attempt' = [attempt EXCEPT ![h] = 1]

-----------------------------------------------------------------------------
\* newBackendPool: every configured name gets an object of its own.
Init ==
  /\ \E f \in ConfigFile :
       /\ pool \in {p \in [Name -> Backend \cup {NoBackend}] :
            /\ \A n \in Name : p[n] = NoBackend <=> n \notin DOMAIN f
            /\ \A m, n \in DOMAIN f : m # n => p[m] # p[n]}
       /\ config \in {c \in [Backend -> Config] :
            \A b \in Backend : IF b \in Registered
                               THEN \E n \in DOMAIN f : pool[n] = b /\ c[b] = f[n]
                               ELSE c[b] = CHOOSE d \in Config : TRUE}
  /\ health = [b \in Backend |-> Fit]
  /\ active = [b \in Backend |-> 0]
  /\ checking = [b \in Backend |-> 0]
  /\ probing = [b \in Backend |-> 0]
  /\ pc = [h \in Handler |-> "idle"]
  /\ kind = [h \in Handler |-> "plain"]
  /\ cands = [h \in Handler |-> <<>>]
  /\ attempt = [h \in Handler |-> 1]
  /\ result = [h \in Handler |-> "ok"]

Request(h) ==
  \/ Call(h) \/ EndStream(h) \/ \E res \in Result : Answer(h, res)
  \/ Respond(h) \/ Retry(h) \/ Failover(h) \/ CallAgain(h)

Next ==
  \/ \E h \in Handler : Route(h) \/ RouteOnce(h) \/ Request(h)
  \/ \E n \in Name, c \in Config : Register(n, c, Held) /\ UNCHANGED handlerVars
  \/ \E n \in Name : Deregister(n) /\ UNCHANGED handlerVars
  \/ \E f \in ConfigFile : UpdateBackends(f, Held) /\ UNCHANGED handlerVars
  \/ CheckAll /\ UNCHANGED handlerVars
  \/ \E b \in Backend : CheckCloud(b) /\ UNCHANGED handlerVars
  \/ \E b \in Backend : CheckNone(b) /\ UNCHANGED handlerVars
  \/ \E b \in Backend : SendProbe(b) /\ UNCHANGED handlerVars
  \/ \E b \in Backend, ok \in BOOLEAN : ProbeAnswer(b, ok) /\ UNCHANGED handlerVars

Spec == Init /\ [][Next]_vars

\* Calls and probes have client timeouts and the ticker keeps ticking, so
\* these steps are not put off forever.  Nothing makes a request arrive, an
\* operator act or an endpoint come back.
Fairness ==
  /\ \A h \in Handler : WF_vars(Request(h))
  /\ \A b \in Backend : WF_vars(CheckOne(b) /\ UNCHANGED handlerVars)
  /\ WF_vars(CheckAll /\ UNCHANGED handlerVars)

FairSpec == Spec /\ Fairness

-----------------------------------------------------------------------------
(* Properties.                                                             *)

\* The thresholds of backends.go:16-17 and of the README: degraded from the first
\* failure in a row, down from the third.  Those of the requests (forwardToBackend)
\* are the second and the fifth.
AsDocumented(h) ==
  h.status = IF h.failures = 0 THEN Healthy ELSE IF h.failures < 3 THEN Degraded ELSE Down
AsForRequests(h) ==
  h.status = IF h.failures < 2 THEN Healthy ELSE IF h.failures < 5 THEN Degraded ELSE Down

\* The status keeps to the documented thresholds as long as only probes have failed,
\* and to the others as long as only requests have; and in whatever order failures of
\* both arrive, it lies between the two (BackendPool.checkOne, forwardToBackend).
Consistent(h) ==
  /\ h.failures = 0 <=> h.by = {}
  /\ "request" \notin h.by => AsDocumented(h)
  /\ "probe" \notin h.by => AsForRequests(h)
  /\ h.status = Healthy => h.failures <= 1
  /\ h.status = Degraded => h.failures \in 1..4
  /\ h.status = Down => h.failures >= 3

HealthConsistent == \A b \in Backend : Consistent(health[b])

\* ActiveReqs of an object is the number of goroutines between the increment
\* and the deferred decrement at that object, through retries, failover,
\* streams, and the deregistration or replacement of the object meanwhile:
\* no path forgets the decrement, and none is charged to another object.
Calling(b) == {h \in Handler : InFlight(h) /\ Head(cands[h]) = b}

ActiveIsInFlight == \A b \in Backend : active[b] = Cardinality(Calling(b))

\* A backend that is down, is not probed, and has no request on its way.
Stranded(b) ==
  /\ b \in Registered
  /\ health[b].status = Down
  /\ config[b].check # "probe"
  /\ probing[b] = 0
  /\ b \notin Held

\* Such a backend, every cloud backend that went down, never comes back by
\* itself: routing skips it and the health check does nothing to an object with
\* failures, so no tick and no request brings it back, only an operator who
\* changes its configuration or removes it.  (README, "Health Checks", promises
\* down -> healthy after one success; there is no request left to succeed.)
StrandedForGood ==
  [][\A b \in Backend : Stranded(b) =>
       Stranded(b)' \/ config'[b] # config[b] \/ b \notin Registered']_vars

\* A call or a probe of b fails.
FailsAt(b) ==
  \/ ProbeAnswer(b, FALSE)
  \/ \E h \in Handler, res \in Result \ {"ok"} : Answer(h, res) /\ Head(cands[h]) = b

\* b stays in the map and probed, and from some point on whatever it is asked it
\* answers.
Settled(b) ==
  /\ <>[](b \in Registered /\ config[b].check = "probe")
  /\ <>[][~FailsAt(b)]_vars

\* A probed backend that stays in the map and answers from some point on ends
\* up healthy and stays so, whatever was in flight when it came back.
ProbedBackendRecovers ==
  \A b \in Backend : Settled(b) => <>[](health[b].status = Healthy)

\* README, "Health Checks": healthy -> degraded -> down -> healthy.  The only
\* way out of down is to healthy.
DownOnlyRecovers ==
  [][\A b \in Backend : health[b].status = Down => health'[b].status \in {Down, Healthy}]_vars
=============================================================================
