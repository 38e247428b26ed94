-------------------------- MODULE Dispatch_proofs --------------------------
(***************************************************************************)
(* Theorems about Dispatch, for any number of names, objects, handlers,    *)
(* rules and configurations.                                               *)
(*                                                                         *)
(* The type invariant is not inductive alone: that ActiveReqs stays a      *)
(* natural number when a call returns needs the accounting invariant, that *)
(* it equals the number of goroutines in flight at the object.  Both are   *)
(* proved together.  The last theorem, about steps, follows from the same  *)
(* invariant: a consistent health record gives the cloud check nothing to  *)
(* restore, and routing hands out only objects that are not down.          *)
(***************************************************************************)
EXTENDS Dispatch, FiniteSetTheorems, SequenceTheorems, TLAPS

-----------------------------------------------------------------------------
(* The health record.                                                      *)

LEMMA HealthTypes ==
  ASSUME NEW h \in Health, NEW ok \in BOOLEAN
  PROVE  /\ Fit \in Health
         /\ AfterRequest(h, ok) \in Health
         /\ AfterProbe(h, ok) \in Health
         /\ AfterCloudCheck(h) \in Health
BY FailureCapAssumption
   DEF Health, Fit, AfterRequest, AfterProbe, AfterCloudCheck, OneMore, Status, Writer,
       Healthy, Degraded, Down

\* Each writer of the health record keeps status and count within reach of
\* each other, and the cloud check has nothing to do on such a record: a count
\* of 0 comes with the status healthy.
LEMMA HealthSteps ==
  ASSUME NEW h \in Health, NEW ok \in BOOLEAN, Consistent(h)
  PROVE  /\ Consistent(AfterRequest(h, ok))
         /\ Consistent(AfterProbe(h, ok))
         /\ AfterCloudCheck(h) = h
BY FailureCapAssumption
   DEF Health, Fit, AfterRequest, AfterProbe, AfterCloudCheck, OneMore, Status, Writer,
       Consistent, AsDocumented, AsForRequests, Healthy, Degraded, Down

LEMMA FitConsistent == Fit \in Health /\ Consistent(Fit)
BY FailureCapAssumption DEF Health, Fit, Consistent, AsDocumented, AsForRequests, Status, Writer, Healthy, Degraded, Down

-----------------------------------------------------------------------------
(* Candidate lists.                                                        *)

LEMMA CandidatesType ==
  ASSUME NEW rules \in RuleLists
  PROVE  Candidates(rules) \in SUBSET Backend
BY DEF Candidates, GetHealthy

LEMMA LeastConnType ==
  ASSUME NEW S \in SUBSET Backend, S # {}, NEW s \in LeastConnFirst(S)
  PROVE  s \in Seq(S) /\ s # <<>>
<1>1. IsFiniteSet(S)
  BY PoolAssumption, FS_Subset
<1>2. Cardinality(S) \in Nat /\ Cardinality(S) # 0
  BY <1>1, FS_CardinalityType, FS_EmptySet
<1>3. s \in [1..Cardinality(S) -> S]
  BY DEF LeastConnFirst
<1>4. s \in Seq(S) /\ Len(s) = Cardinality(S)
  BY <1>2, <1>3
<1>5. QED
  BY <1>2, <1>3, <1>4

\* A downgrade target in front makes a list longer and no less a list of
\* objects; where it comes from matters to the last theorem only.
LEMMA RouteCandidatesType ==
  ASSUME NEW rules \in RuleLists, Candidates(rules) # {},
         NEW s \in RouteCandidates(rules)
  PROVE  /\ s \in Seq(Backend) /\ s # <<>>
         /\ <<s[1]>> \in Seq(Backend) /\ <<s[1]>> # <<>>
         /\ \A i \in 1..Len(s) : s[i] \in GetHealthy(Downgrade) \cup Candidates(rules)
         /\ s[1] \in GetHealthy(Downgrade) \cup Candidates(rules)
<1> DEFINE S == GetHealthy(Downgrade) \cup Candidates(rules)
<1>1. Candidates(rules) \in SUBSET Backend /\ S \in SUBSET Backend
  BY CandidatesType DEF GetHealthy
<1>2. PICK d \in Downgraded, t \in LeastConnFirst(Candidates(rules)) : s = d \o t
  BY DEF RouteCandidates
<1>3. t \in Seq(Candidates(rules)) /\ t # <<>>
  BY <1>1, <1>2, LeastConnType
<1> HIDE DEF S
<1>4. d \in Seq(S) /\ t \in Seq(S)
  <2>1. Candidates(rules) \subseteq S /\ GetHealthy(Downgrade) \subseteq S
    BY DEF S
  <2>2. d = <<>> \/ \E b \in S : d = <<b>>
    BY <1>2, <2>1 DEF Downgraded
  <2>3. d \in Seq(S)
    <3>1. <<>> \in Seq(S) /\ \A b \in S : <<b>> \in Seq(S)
      OBVIOUS
    <3>2. QED
      BY <2>2, <3>1
  <2>4. QED
    BY <1>3, <2>1, <2>3
<1>5. s \in Seq(S) /\ s # <<>>
  BY <1>2, <1>3, <1>4, EmptySeq
<1>6. Len(s) \in Nat /\ Len(s) # 0 /\ \A i \in 1..Len(s) : s[i] \in S
  BY <1>5, EmptySeq
<1>7. s[1] \in S /\ s \in Seq(Backend) /\ s[1] \in Backend
  BY <1>1, <1>5, <1>6
<1>8. QED
  BY <1>5, <1>6, <1>7 DEF S

LEMMA TailNonEmpty ==
  ASSUME NEW S, NEW s \in Seq(S), Len(s) > 1
  PROVE  /\ Tail(s) \in Seq(S) /\ Tail(s) # <<>>
         /\ \A i \in 1..Len(Tail(s)) : \E j \in 1..Len(s) : Tail(s)[i] = s[j]
<1>1. s # <<>> /\ Len(s) \in Nat
  BY EmptySeq
<1>2. /\ Tail(s) \in Seq(S) /\ Len(Tail(s)) = Len(s) - 1
      /\ \A i \in 1..Len(Tail(s)) : Tail(s)[i] = s[i+1]
  BY <1>1, HeadTailProperties
<1>3. Tail(s) # <<>>
  <2>1. PICK n \in Nat : n = Len(s)
    BY <1>1
  <2>2. PICK m \in Nat : m = n - 1 /\ m # 0
    BY <2>1
  <2>3. Len(Tail(s)) = m
    BY <1>2, <2>1, <2>2
  <2>4. QED
    BY <2>2, <2>3
<1>4. \A i \in 1..Len(Tail(s)) : i+1 \in 1..Len(s)
  BY <1>1, <1>2
<1>5. QED
  BY <1>2, <1>3, <1>4

-----------------------------------------------------------------------------
(* Steps of the pool that leave the handlers alone.                        *)

LEMMA HeadHeld ==
  ASSUME TypeOK, NEW h \in Handler, pc[h] # "idle"
  PROVE  /\ Head(cands[h]) \in Backend
         /\ Head(cands[h]) \in Held
         /\ cands[h] # <<>>
<1>1. cands[h] \in Seq(Backend) /\ cands[h] # <<>>
  BY DEF TypeOK
<1>2. Head(cands[h]) = cands[h][1] /\ 1 \in 1..Len(cands[h]) /\ cands[h][1] \in Backend
  BY <1>1
<1>3. QED
  BY <1>1, <1>2 DEF Held

LEMMA FreeUncalled ==
  ASSUME TypeOK, NEW b \in Backend, b \notin Held
  PROVE  Calling(b) = {}
BY HeadHeld DEF Calling, InFlight

\* Installing a configuration: the pool part of the type invariant, the
\* accounting, and what happens to each health record.
LEMMA InstallStep ==
  ASSUME TypeOK, ActiveIsInFlight, UNCHANGED handlerVars,
         NEW f, DOMAIN f \subseteq Name, \A n \in DOMAIN f : f[n] \in Config,
         NEW new \in NewObjects(DOMAIN f, Held),
         pool' \in [Name -> Backend \cup {NoBackend}],
         Registered' \subseteq Registered \cup {new[n] : n \in DOMAIN new},
         Install(f)
  PROVE  /\ TypeOK'
         /\ ActiveIsInFlight'
         /\ \A b \in Backend : health'[b] \in {health[b], Fit}
<1>1. config' \in [Backend -> Config]
  <2>1. \A b \in Backend : (\E n \in DOMAIN f : pool'[n] = b)
          => (CHOOSE n \in DOMAIN f : pool'[n] = b) \in DOMAIN f
    OBVIOUS
  <2>2. QED
    BY <2>1 DEF Install, TypeOK, PoolTypeOK
<1>2. health' \in [Backend -> Health] /\ \A b \in Backend : health'[b] \in {health[b], Fit}
  BY FitConsistent DEF Install, TypeOK, PoolTypeOK
<1>3. active' \in [Backend -> Nat]
  BY DEF Install, TypeOK, PoolTypeOK
<1>4. TypeOK'
  BY <1>1, <1>2, <1>3 DEF TypeOK, PoolTypeOK, Install, handlerVars
<1>5. ASSUME NEW b \in Backend
      PROVE  active'[b] = Cardinality(Calling(b)')
  <2>1. Calling(b)' = Calling(b)
    BY DEF Calling, InFlight, handlerVars
  <2>2. CASE b \in Registered' \ Registered
    <3>1. b \in Free(Held)
      BY <2>2 DEF NewObjects
    <3>2. b \notin Held
      BY <3>1 DEF Free
    <3>3. Calling(b) = {}
      BY <3>2, FreeUncalled
    <3>4. active'[b] = 0
      BY <2>2 DEF Install
    <3>5. QED
      BY <2>1, <3>3, <3>4, FS_EmptySet
  <2>3. CASE b \notin Registered' \ Registered
    BY <2>1, <2>3 DEF Install, ActiveIsInFlight
  <2>4. QED
    BY <2>2, <2>3
<1>6. QED
  BY <1>2, <1>4, <1>5 DEF ActiveIsInFlight

LEMMA RegisterStep ==
  ASSUME TypeOK, ActiveIsInFlight, UNCHANGED handlerVars,
         NEW n \in Name, NEW c \in Config, Register(n, c, Held)
  PROVE  /\ TypeOK' /\ ActiveIsInFlight'
         /\ \A b \in Backend : health'[b] \in {health[b], Fit}
<1> DEFINE f == [m \in {n} |-> c]
<1>1. DOMAIN f = {n} /\ \A m \in DOMAIN f : f[m] \in Config
  OBVIOUS
<1>2. PICK new \in NewObjects({n}, Held) : pool' = [pool EXCEPT ![n] = ObjectFor(n, new)]
  BY DEF Register
<1>3. new \in [DOMAIN new -> Backend]
  BY DEF NewObjects, Free
<1>4. pool' \in [Name -> Backend \cup {NoBackend}]
  BY <1>2, <1>3 DEF TypeOK, PoolTypeOK, ObjectFor
<1>5. Registered' \subseteq Registered \cup {new[m] : m \in DOMAIN new}
  BY <1>2, <1>4 DEF Registered, ObjectFor, TypeOK, PoolTypeOK
<1>6. Install(f)
  BY DEF Register
<1> HIDE DEF f
<1>7. new \in NewObjects(DOMAIN f, Held)
  BY <1>1, <1>2
<1>8. QED
  BY <1>1, <1>4, <1>5, <1>6, <1>7, InstallStep

LEMMA UpdateStep ==
  ASSUME TypeOK, ActiveIsInFlight, UNCHANGED handlerVars,
         NEW f \in ConfigFile, UpdateBackends(f, Held)
  PROVE  /\ TypeOK' /\ ActiveIsInFlight'
         /\ \A b \in Backend : health'[b] \in {health[b], Fit}
<1>1. DOMAIN f \subseteq Name /\ \A m \in DOMAIN f : f[m] \in Config
  BY PoolAssumption
<1>2. PICK new \in NewObjects(DOMAIN f, Held) :
        pool' = [n \in Name |->
          IF n \in DOMAIN f THEN ObjectFor(n, new)
          ELSE IF pool[n] # NoBackend /\ config[pool[n]].dynamic THEN pool[n]
          ELSE NoBackend]
  BY DEF UpdateBackends
<1>3. new \in [DOMAIN new -> Backend]
  BY DEF NewObjects, Free
<1>4. pool' \in [Name -> Backend \cup {NoBackend}]
  BY <1>2, <1>3 DEF TypeOK, PoolTypeOK, ObjectFor
<1>5. Registered' \subseteq Registered \cup {new[m] : m \in DOMAIN new}
  BY <1>2, <1>4 DEF Registered, ObjectFor, TypeOK, PoolTypeOK
<1>6. Install(f)
  BY DEF UpdateBackends
<1>7. QED
  BY <1>1, <1>2, <1>4, <1>5, <1>6, InstallStep

-----------------------------------------------------------------------------
(* Steps of the handlers: what each does to the calls in flight at an      *)
(* object, and to the counter.                                             *)

LEMMA CallingFinite ==
  ASSUME NEW b \in Backend
  PROVE  IsFiniteSet(Calling(b)) /\ Cardinality(Calling(b)) \in Nat
BY DispatchAssumption, FS_Subset, FS_CardinalityType DEF Calling

LEMMA RouteStep ==
  ASSUME TypeOK, ActiveIsInFlight, NEW h \in Handler, Route(h) \/ RouteOnce(h)
  PROVE  TypeOK' /\ ActiveIsInFlight' /\ health' = health
<1>1. PICK k \in Kind, s \in Seq(Backend) : s # <<>> /\ Assign(h, k, s)
  <2>1. CASE Route(h)
    <3>1. PICK rules \in RuleLists :
            /\ Candidates(rules) # {}
            /\ \E s \in RouteCandidates(rules) :
                 Assign(h, "plain", s) \/ Assign(h, "stream", <<s[1]>>)
      BY <2>1 DEF Route
    <3>2. PICK s \in RouteCandidates(rules) :
            Assign(h, "plain", s) \/ Assign(h, "stream", <<s[1]>>)
      BY <3>1
    <3>3. s \in Seq(Backend) /\ s # <<>> /\ <<s[1]>> \in Seq(Backend) /\ <<s[1]>> # <<>>
      BY <3>1, <3>2, RouteCandidatesType
    <3>4. QED
      BY <3>2, <3>3 DEF Kind
  <2>2. CASE RouteOnce(h)
    <3>1. PICK b \in Backend : Assign(h, "once", <<b>>)
      BY <2>2 DEF RouteOnce, GetHealthy
    <3>2. <<b>> \in Seq(Backend) /\ <<b>> # <<>> /\ "once" \in Kind
      BY DEF Kind
    <3>3. QED
      BY <3>1, <3>2
  <2>3. QED
    BY <2>1, <2>2
<1>2. TypeOK'
  BY <1>1 DEF Assign, TypeOK, PoolTypeOK, poolVars
<1>3. ASSUME NEW b \in Backend
      PROVE  Calling(b)' = Calling(b)
  BY <1>1 DEF Assign, Calling, InFlight, TypeOK
<1>4. QED
  BY <1>1, <1>2, <1>3 DEF Assign, ActiveIsInFlight, poolVars

LEMMA CallStep ==
  ASSUME TypeOK, ActiveIsInFlight, NEW h \in Handler, Call(h)
  PROVE  TypeOK' /\ ActiveIsInFlight' /\ health' = health
<1>0. PICK c \in Backend : c = Head(cands[h])
  BY HeadHeld DEF Call
<1>1. h \notin Calling(c)
  BY DEF Call, Calling, InFlight
<1>2. TypeOK'
  BY <1>0 DEF Call, TypeOK, PoolTypeOK
<1>3. Calling(c)' = Calling(c) \cup {h} /\ active'[c] = active[c] + 1
  BY <1>0, <1>1 DEF Call, Calling, InFlight, TypeOK, PoolTypeOK
<1>4. Cardinality(Calling(c) \cup {h}) = Cardinality(Calling(c)) + 1
  BY <1>1, CallingFinite, FS_AddElement
<1>5. ASSUME NEW b \in Backend, b # c
      PROVE  Calling(b)' = Calling(b) /\ active'[b] = active[b]
  BY <1>0, <1>1, <1>5 DEF Call, Calling, InFlight, TypeOK, PoolTypeOK
<1>6. ASSUME NEW b \in Backend
      PROVE  active'[b] = Cardinality(Calling(b)')
  <2>1. CASE b = c
    BY <1>1, <1>3, <1>4, <2>1 DEF ActiveIsInFlight
  <2>2. CASE b # c
    BY <1>5, <2>2 DEF ActiveIsInFlight
  <2>3. QED
    BY <2>1, <2>2
<1>7. health' = health
  BY DEF Call
<1>8. QED
  BY <1>2, <1>6, <1>7 DEF ActiveIsInFlight

LEMMA AnswerStep ==
  ASSUME TypeOK, ActiveIsInFlight, NEW h \in Handler, NEW res \in Result, Answer(h, res)
  PROVE  /\ TypeOK' /\ ActiveIsInFlight'
         /\ Head(cands[h]) \in Backend
         /\ health' = [health EXCEPT ![Head(cands[h])] = AfterRequest(@, res = "ok")]
<1>1. Head(cands[h]) \in Backend
  BY HeadHeld DEF Answer
<1>2. AfterRequest(health[Head(cands[h])], res = "ok") \in Health
  BY <1>1, HealthTypes DEF TypeOK, PoolTypeOK
<1>3. TypeOK'
  BY <1>1, <1>2 DEF Answer, TypeOK, PoolTypeOK
<1>4. ASSUME NEW b \in Backend
      PROVE  Calling(b)' = Calling(b)
  BY DEF Answer, Calling, InFlight, TypeOK
<1>5. QED
  BY <1>1, <1>3, <1>4 DEF Answer, ActiveIsInFlight

\* The three ways out of a call share Leave: the handler is no longer in
\* flight at the object it was at, and goes on with a list that may be shorter.
LEMMA LeaveStep ==
  ASSUME TypeOK, ActiveIsInFlight, NEW h \in Handler, InFlight(h), Leave(h),
         NEW p \in {"idle", "ready"}, pc' = [pc EXCEPT ![h] = p],
         NEW s \in Seq(Backend), cands' = [cands EXCEPT ![h] = s],
         p = "idle" <=> s = <<>>,
         kind' \in [Handler -> Kind], attempt' \in [Handler -> 1..2]
  PROVE  TypeOK' /\ ActiveIsInFlight' /\ health' = health
<1>0. PICK c \in Backend : c = Head(cands[h])
  BY HeadHeld DEF InFlight
<1>1. h \in Calling(c)
  BY <1>0 DEF Calling
<1>2. active[c] = Cardinality(Calling(c)) /\ Calling(c) # {}
  BY <1>1 DEF ActiveIsInFlight
<1>3. active[c] \in Nat /\ active[c] # 0
  BY <1>1, <1>2, CallingFinite, FS_EmptySet
<1>4. TypeOK'
  <2>1. active' \in [Backend -> Nat]
    <3>1. active \in [Backend -> Nat] /\ active[c] - 1 \in Nat
      BY <1>3 DEF TypeOK, PoolTypeOK
    <3>2. active' = [active EXCEPT ![c] = active[c] - 1]
      BY <1>0 DEF Leave
    <3>3. QED
      BY <3>1, <3>2
  <2>2. result' \in [Handler -> Result]
    BY DEF Leave, TypeOK, Result
  <2>3. PoolTypeOK'
    BY <2>1 DEF Leave, TypeOK, PoolTypeOK
  <2>4. QED
    BY <2>2, <2>3 DEF TypeOK
<1>5. Calling(c)' = Calling(c) \ {h} /\ active'[c] = active[c] - 1
  BY <1>0 DEF Leave, Calling, InFlight, TypeOK, PoolTypeOK
<1>6. Cardinality(Calling(c) \ {h}) = Cardinality(Calling(c)) - 1
  BY <1>1, CallingFinite, FS_RemoveElement
<1>7. ASSUME NEW b \in Backend, b # c
      PROVE  Calling(b)' = Calling(b) /\ active'[b] = active[b]
  BY <1>0, <1>7 DEF Leave, Calling, InFlight, TypeOK, PoolTypeOK
<1>8. ASSUME NEW b \in Backend
      PROVE  active'[b] = Cardinality(Calling(b)')
  <2>1. CASE b = c
    BY <1>1, <1>2, <1>5, <1>6, <2>1
  <2>2. CASE b # c
    BY <1>7, <2>2 DEF ActiveIsInFlight
  <2>3. QED
    BY <2>1, <2>2
<1>9. health' = health
  BY DEF Leave
<1>10. QED
  BY <1>4, <1>8, <1>9 DEF ActiveIsInFlight

LEMMA EndStep ==
  ASSUME TypeOK, ActiveIsInFlight, NEW h \in Handler,
         EndStream(h) \/ Respond(h) \/ Retry(h) \/ Failover(h) \/ CallAgain(h)
  PROVE  TypeOK' /\ ActiveIsInFlight' /\ health' = health
<1>1. InFlight(h) /\ Leave(h) /\ cands[h] \in Seq(Backend) /\ cands[h] # <<>>
  BY HeadHeld DEF EndStream, Respond, Retry, Failover, CallAgain, Finish, InFlight, TypeOK
<1>2. kind' \in [Handler -> Kind] /\ attempt' \in [Handler -> 1..2]
  <2>1. kind \in [Handler -> Kind] /\ attempt \in [Handler -> 1..2] /\ "plain" \in Kind
    BY DEF TypeOK, Kind
  <2>2. \/ kind' = kind \/ kind' = [kind EXCEPT ![h] = "plain"]
        \/ kind' = [kind EXCEPT ![h] = "once"]
    BY DEF EndStream, Respond, Retry, Failover, CallAgain, Finish
  <2>3. attempt' = [attempt EXCEPT ![h] = 1] \/ attempt' = [attempt EXCEPT ![h] = 2]
    BY DEF EndStream, Respond, Retry, Failover, CallAgain, Finish
  <2>4. QED
    BY <2>1, <2>2, <2>3 DEF Kind
<1>3. CASE EndStream(h) \/ Respond(h)
  <2>1. <<>> \in Seq(Backend)
    OBVIOUS
  <2>2. pc' = [pc EXCEPT ![h] = "idle"] /\ cands' = [cands EXCEPT ![h] = <<>>]
    BY <1>3 DEF EndStream, Respond, Finish
  <2>3. QED
    BY <1>1, <1>2, <2>1, <2>2, LeaveStep
<1>4. CASE Retry(h)
  <2>1. pc' = [pc EXCEPT ![h] = "ready"] /\ cands' = [cands EXCEPT ![h] = cands[h]]
    BY <1>4 DEF Retry, TypeOK
  <2>2. QED
    BY <1>1, <1>2, <2>1, LeaveStep
<1>5. CASE Failover(h)
  <2>1. Tail(cands[h]) \in Seq(Backend) /\ Tail(cands[h]) # <<>>
    <3>1. Len(cands[h]) > 1
      BY <1>5 DEF Failover, HasNext
    <3>2. QED
      BY <1>1, <3>1, TailNonEmpty
  <2>2. /\ pc' = [pc EXCEPT ![h] = "ready"]
        /\ cands' = [cands EXCEPT ![h] = Tail(cands[h])]
    BY <1>5 DEF Failover
  <2>3. QED
    BY <1>1, <1>2, <2>1, <2>2, LeaveStep
<1>6. CASE CallAgain(h)
  <2>1. Head(cands[h]) \in Backend
    BY <1>1, HeadHeld DEF InFlight
  <2>2. <<Head(cands[h])>> \in Seq(Backend) /\ <<Head(cands[h])>> # <<>>
    BY <2>1
  <2>3. /\ pc' = [pc EXCEPT ![h] = "ready"]
        /\ cands' = [cands EXCEPT ![h] = <<Head(cands[h])>>]
    BY <1>6 DEF CallAgain
  <2>4. QED
    BY <1>1, <1>2, <2>2, <2>3, LeaveStep
<1>7. QED
  BY <1>3, <1>4, <1>5, <1>6

-----------------------------------------------------------------------------
(* The inductive invariant: types, accounting and health together.         *)

Inv == TypeOK /\ ActiveIsInFlight /\ HealthConsistent

LEMMA InitInv == Init => Inv
<1> SUFFICES ASSUME Init PROVE Inv
  OBVIOUS
<1>1. TypeOK
  BY FitConsistent DEF Init, TypeOK, PoolTypeOK, Kind, Result
<1>2. \A b \in Backend : Calling(b) = {}
  BY DEF Init, Calling, InFlight
<1>3. ActiveIsInFlight
  BY <1>2, FS_EmptySet DEF Init, ActiveIsInFlight
<1>4. HealthConsistent
  BY FitConsistent DEF Init, HealthConsistent
<1>5. QED
  BY <1>1, <1>3, <1>4 DEF Inv

\* A health check step touches neither the handlers nor the counters.
LEMMA CheckStep ==
  ASSUME Inv, UNCHANGED handlerVars, UNCHANGED <<pool, config, active>>,
         checking' \in [Backend -> Nat], probing' \in [Backend -> Nat],
         health' \in [Backend -> Health], HealthConsistent'
  PROVE  Inv'
<1>1. TypeOK'
  BY DEF Inv, TypeOK, PoolTypeOK, handlerVars
<1>2. \A b \in Backend : Calling(b)' = Calling(b)
  BY DEF Calling, InFlight, handlerVars
<1>3. QED
  BY <1>1, <1>2 DEF Inv, ActiveIsInFlight

LEMMA NextInv == Inv /\ [Next]_vars => Inv'
<1> SUFFICES ASSUME Inv, [Next]_vars PROVE Inv'
  OBVIOUS
<1>1. TypeOK /\ ActiveIsInFlight /\ HealthConsistent /\ PoolTypeOK
  BY DEF Inv, TypeOK
<1>2. ASSUME NEW h \in Handler, Route(h) \/ RouteOnce(h) \/ Call(h) \/ EndStream(h)
                               \/ Respond(h) \/ Retry(h) \/ Failover(h) \/ CallAgain(h)
      PROVE  Inv'
  <2>1. TypeOK' /\ ActiveIsInFlight' /\ health' = health
    BY <1>1, <1>2, RouteStep, CallStep, EndStep
  <2>2. QED
    BY <1>1, <2>1 DEF Inv, HealthConsistent
<1>3. ASSUME NEW h \in Handler, NEW res \in Result, Answer(h, res)
      PROVE  Inv'
  <2> DEFINE c == Head(cands[h])
  <2>1. /\ TypeOK' /\ ActiveIsInFlight' /\ c \in Backend
        /\ health' = [health EXCEPT ![c] = AfterRequest(@, res = "ok")]
    BY <1>1, <1>3, AnswerStep
  <2>2. Consistent(AfterRequest(health[c], res = "ok"))
    BY <1>1, <2>1, HealthSteps DEF PoolTypeOK, HealthConsistent
  <2> HIDE DEF c
  <2>3. HealthConsistent'
    BY <1>1, <2>1, <2>2 DEF PoolTypeOK, HealthConsistent
  <2>4. QED
    BY <2>1, <2>3 DEF Inv
<1>4. ASSUME UNCHANGED handlerVars,
             \/ \E n \in Name, c \in Config : Register(n, c, Held)
             \/ \E f \in ConfigFile : UpdateBackends(f, Held)
      PROVE  Inv'
  <2>1. /\ TypeOK' /\ ActiveIsInFlight'
        /\ \A b \in Backend : health'[b] \in {health[b], Fit}
    BY <1>1, <1>4, RegisterStep, UpdateStep
  <2>2. HealthConsistent'
    BY <1>1, <2>1, FitConsistent DEF HealthConsistent
  <2>3. QED
    BY <2>1, <2>2 DEF Inv
<1>5. ASSUME NEW n \in Name, Deregister(n), UNCHANGED handlerVars
      PROVE  Inv'
  <2>1. TypeOK'
    BY <1>1, <1>5 DEF Deregister, TypeOK, PoolTypeOK, handlerVars
  <2>2. \A b \in Backend : Calling(b)' = Calling(b)
    BY <1>5 DEF Calling, InFlight, handlerVars
  <2>3. QED
    BY <1>1, <1>5, <2>1, <2>2 DEF Deregister, Inv, ActiveIsInFlight, HealthConsistent
<1>6. ASSUME CheckAll, UNCHANGED handlerVars
      PROVE  Inv'
  <2>1. checking' \in [Backend -> Nat] /\ UNCHANGED <<pool, config, health, active, probing>>
    BY <1>1, <1>6 DEF CheckAll, PoolTypeOK
  <2>2. QED
    BY <1>1, <1>6, <2>1, CheckStep DEF PoolTypeOK, HealthConsistent
<1>7. ASSUME NEW b \in Backend, CheckCloud(b) \/ CheckNone(b) \/ SendProbe(b),
             UNCHANGED handlerVars
      PROVE  Inv'
  <2>1. AfterCloudCheck(health[b]) = health[b]
    BY <1>1, HealthSteps DEF PoolTypeOK, HealthConsistent
  <2>2. health' = health /\ UNCHANGED <<pool, config, active>>
    BY <1>1, <1>7, <2>1 DEF CheckCloud, CheckNone, SendProbe, PoolTypeOK
  <2>3. checking' \in [Backend -> Nat] /\ probing' \in [Backend -> Nat]
    <3>1. checking[b] - 1 \in Nat /\ probing[b] + 1 \in Nat
      BY <1>1, <1>7 DEF CheckCloud, CheckNone, SendProbe, PoolTypeOK
    <3>2. checking' = [checking EXCEPT ![b] = @ - 1]
      BY <1>7 DEF CheckCloud, CheckNone, SendProbe
    <3>3. probing' = probing \/ probing' = [probing EXCEPT ![b] = @ + 1]
      BY <1>7 DEF CheckCloud, CheckNone, SendProbe
    <3>4. QED
      BY <1>1, <3>1, <3>2, <3>3 DEF PoolTypeOK
  <2>4. QED
    BY <1>1, <1>7, <2>2, <2>3, CheckStep DEF PoolTypeOK, HealthConsistent
<1>8. ASSUME NEW b \in Backend, NEW ok \in BOOLEAN, ProbeAnswer(b, ok),
             UNCHANGED handlerVars
      PROVE  Inv'
  <2>1. /\ health' = [health EXCEPT ![b] = AfterProbe(@, ok)]
        /\ probing' \in [Backend -> Nat]
        /\ UNCHANGED <<pool, config, active, checking>>
    BY <1>1, <1>8 DEF ProbeAnswer, PoolTypeOK
  <2>2. AfterProbe(health[b], ok) \in Health /\ Consistent(AfterProbe(health[b], ok))
    BY <1>1, HealthTypes, HealthSteps DEF PoolTypeOK, HealthConsistent
  <2>3. health' \in [Backend -> Health] /\ HealthConsistent'
    BY <1>1, <2>1, <2>2 DEF PoolTypeOK, HealthConsistent
  <2>4. QED
    BY <1>1, <1>8, <2>1, <2>3, CheckStep DEF PoolTypeOK
<1>9. CASE UNCHANGED vars
  <2>1. TypeOK'
    BY <1>1, <1>9 DEF vars, poolVars, handlerVars, TypeOK, PoolTypeOK
  <2>2. \A b \in Backend : Calling(b)' = Calling(b)
    BY <1>9 DEF Calling, InFlight, vars, handlerVars
  <2>3. QED
    BY <1>1, <1>9, <2>1, <2>2 DEF vars, poolVars, Inv, ActiveIsInFlight, HealthConsistent
<1>10. QED
  BY <1>2, <1>3, <1>4, <1>5, <1>6, <1>7, <1>8, <1>9 DEF Next, Request

LEMMA InvAlways == Spec => []Inv
BY InitInv, NextInv, PTL DEF Spec

\* Type correctness.  That ActiveReqs is never negative is the part that needs
\* an argument: forwardToBackend and handleStreaming pair each decrement with
\* an increment on the same object.
THEOREM TypeCorrect == Spec => []TypeOK
BY InvAlways, PTL DEF Inv

\* ActiveReqs counts exactly the calls in flight at each Backend object.
THEOREM ActiveAccounting == Spec => []ActiveIsInFlight
BY InvAlways, PTL DEF Inv

\* The status keeps to the thresholds of whoever has failed with the backend since the
\* last success, and between the two thresholds where both have
\* (BackendPool.checkOne, forwardToBackend).
THEOREM HealthAccounting == Spec => []HealthConsistent
BY InvAlways, PTL DEF Inv

-----------------------------------------------------------------------------
(* A stranded backend stays stranded.                                      *)

\* What has to be shown of a step for an object that was stranded before it.
LEMMA StrandedKept ==
  ASSUME NEW b \in Backend, Stranded(b),
         health'[b] = health[b], probing'[b] = probing[b], b \notin Held'
  PROVE  Stranded(b)' \/ config'[b] # config[b] \/ b \notin Registered'
BY DEF Stranded

LEMMA HeldUnchanged ==
  ASSUME UNCHANGED handlerVars
  PROVE  Held' = Held
BY DEF Held, handlerVars

\* Routing hands out only objects that are not down.
LEMMA RoutedNotDown ==
  ASSUME NEW rules \in RuleLists, Candidates(rules) # {},
         NEW s \in RouteCandidates(rules)
  PROVE  /\ \A i \in 1..Len(s) : health[s[i]].status # Down
         /\ health[s[1]].status # Down
<1>1. \A b \in GetHealthy(Downgrade) \cup Candidates(rules) : health[b].status # Down
  BY DEF Candidates, GetHealthy, IsAvailable
<1>2. QED
  BY <1>1, RouteCandidatesType

LEMMA AssignHeld ==
  ASSUME TypeOK, NEW h \in Handler, NEW k, NEW s \in Seq(Backend), Assign(h, k, s),
         NEW b \in Backend, b \notin Held, \A i \in 1..Len(s) : s[i] # b
  PROVE  b \notin Held'
<1>1. cands' = [cands EXCEPT ![h] = s] /\ cands \in [Handler -> Seq(Backend)]
  BY DEF Assign, TypeOK
<1>2. \A g \in Handler : cands'[g] = IF g = h THEN s ELSE cands[g]
  BY <1>1
<1>3. QED
  BY <1>2 DEF Held

LEMMA RouteHeld ==
  ASSUME TypeOK, NEW h \in Handler, Route(h) \/ RouteOnce(h),
         NEW b \in Backend, health[b].status = Down, b \notin Held
  PROVE  b \notin Held'
<1>1. CASE Route(h)
  <2>1. PICK rules \in RuleLists :
          /\ Candidates(rules) # {}
          /\ \E s \in RouteCandidates(rules) :
               Assign(h, "plain", s) \/ Assign(h, "stream", <<s[1]>>)
    BY <1>1 DEF Route
  <2>2. PICK s \in RouteCandidates(rules) :
          Assign(h, "plain", s) \/ Assign(h, "stream", <<s[1]>>)
    BY <2>1
  <2>3. s \in Seq(Backend) /\ s[1] \in Backend
    BY <2>1, <2>2, RouteCandidatesType, EmptySeq
  <2>4. (\A i \in 1..Len(s) : s[i] # b) /\ s[1] # b
    BY <2>1, <2>2, RoutedNotDown
  <2>5. CASE Assign(h, "plain", s)
    BY <2>3, <2>4, <2>5, AssignHeld
  <2>6. CASE Assign(h, "stream", <<s[1]>>)
    <3>1. <<s[1]>> \in Seq(Backend) /\ \A i \in 1..Len(<<s[1]>>) : <<s[1]>>[i] # b
      BY <2>3, <2>4
    <3>2. QED
      BY <2>6, <3>1, AssignHeld
  <2>7. QED
    BY <2>2, <2>5, <2>6
<1>2. CASE RouteOnce(h)
  <2>1. PICK c \in Backend : Assign(h, "once", <<c>>) /\ c # b
    BY <1>2 DEF RouteOnce, GetHealthy, IsAvailable
  <2>2. <<c>> \in Seq(Backend) /\ \A i \in 1..Len(<<c>>) : <<c>>[i] # b
    BY <2>1
  <2>3. QED
    BY <2>1, <2>2, AssignHeld
<1>3. QED
  BY <1>1, <1>2

\* Every other step of a handler keeps its list or drops entries from it, and
\* changes health only at an object of that list.
LEMMA RequestHeld ==
  ASSUME TypeOK, NEW h \in Handler, Request(h), NEW b \in Backend, b \notin Held
  PROVE  /\ b \notin Held'
         /\ health'[b] = health[b] /\ UNCHANGED <<pool, config, checking, probing>>
<1>1. pc[h] # "idle" /\ UNCHANGED <<pool, config, checking, probing>>
  BY DEF Request, Call, EndStream, Answer, Respond, Retry, Failover, CallAgain, Finish, Leave
<1>2. Head(cands[h]) \in Backend /\ Head(cands[h]) # b
  BY <1>1, HeadHeld
<1>3. \/ health' = health
      \/ \E r : health' = [health EXCEPT ![Head(cands[h])] = r]
  BY DEF Request, Call, EndStream, Answer, Respond, Retry, Failover, CallAgain, Finish, Leave
<1>4. health'[b] = health[b]
  BY <1>2, <1>3 DEF TypeOK, PoolTypeOK
<1>5. cands \in [Handler -> Seq(Backend)]
  BY DEF TypeOK
<1>6. CASE cands' = cands
  BY <1>1, <1>4, <1>6 DEF Held
<1>7. CASE cands' = [cands EXCEPT ![h] = <<>>]
  <2>1. b \notin Held'
    BY <1>5, <1>7 DEF Held
  <2>2. QED
    BY <1>1, <1>4, <2>1
<1>8. CASE Failover(h)
  <2>1. cands' = [cands EXCEPT ![h] = Tail(cands[h])] /\ Len(cands[h]) > 1
    BY <1>8 DEF Failover, HasNext
  <2>2. \A i \in 1..Len(Tail(cands[h])) :
          \E j \in 1..Len(cands[h]) : Tail(cands[h])[i] = cands[h][j]
    BY <1>5, <2>1, TailNonEmpty
  <2>3. b \notin Held'
    BY <1>5, <2>1, <2>2 DEF Held
  <2>4. QED
    BY <1>1, <1>4, <2>3
<1>9. CASE CallAgain(h)
  <2>1. cands' = [cands EXCEPT ![h] = <<Head(cands[h])>>]
    BY <1>9 DEF CallAgain
  <2>2. \A i \in 1..Len(<<Head(cands[h])>>) : <<Head(cands[h])>>[i] # b
    BY <1>2
  <2>3. b \notin Held'
    BY <1>5, <2>1, <2>2 DEF Held
  <2>4. QED
    BY <1>1, <1>4, <2>3
<1>10. QED
  BY <1>6, <1>7, <1>8, <1>9 DEF Request, Call, EndStream, Answer, Respond, Retry, Finish

LEMMA StrandedStep ==
  ASSUME Inv, [Next]_vars, NEW b \in Backend, Stranded(b)
  PROVE  Stranded(b)' \/ config'[b] # config[b] \/ b \notin Registered'
<1>1. TypeOK /\ PoolTypeOK /\ ActiveIsInFlight /\ HealthConsistent
  BY DEF Inv, TypeOK
<1>2. /\ b \in Registered /\ b \notin Held /\ probing[b] = 0
      /\ health[b].status = Down /\ config[b].check # "probe"
  BY DEF Stranded
<1>3. CASE \E h \in Handler : Route(h) \/ RouteOnce(h)
  <2>1. b \notin Held'
    BY <1>1, <1>2, <1>3, RouteHeld
  <2>2. health' = health /\ probing' = probing
    BY <1>3 DEF Route, RouteOnce, Assign, poolVars
  <2>3. QED
    BY <2>1, <2>2, StrandedKept
<1>4. CASE \E h \in Handler : Request(h)
  BY <1>1, <1>2, <1>4, RequestHeld, StrandedKept
<1>5. ASSUME UNCHANGED handlerVars, NEW f, Install(f)
      PROVE  Stranded(b)' \/ config'[b] # config[b] \/ b \notin Registered'
  <2>1. health'[b] = health[b] /\ probing'[b] = probing[b]
    BY <1>2, <1>5 DEF Install
  <2>2. QED
    BY <1>2, <1>5, <2>1, HeldUnchanged, StrandedKept
<1>6. ASSUME UNCHANGED handlerVars,
             \/ \E n \in Name : Deregister(n)
             \/ CheckAll
             \/ \E c \in Backend : CheckNone(c)
      PROVE  Stranded(b)' \/ config'[b] # config[b] \/ b \notin Registered'
  <2>1. health' = health /\ probing' = probing
    BY <1>6 DEF Deregister, CheckAll, CheckNone
  <2>2. QED
    BY <1>2, <1>6, <2>1, HeldUnchanged, StrandedKept
<1>7. ASSUME UNCHANGED handlerVars, NEW c \in Backend, NEW ok \in BOOLEAN,
             CheckCloud(c) \/ SendProbe(c) \/ ProbeAnswer(c, ok)
      PROVE  Stranded(b)' \/ config'[b] # config[b] \/ b \notin Registered'
  <2>1. AfterCloudCheck(health[c]) = health[c]
    BY <1>1, HealthSteps DEF PoolTypeOK, HealthConsistent
  <2>2. SendProbe(c) \/ ProbeAnswer(c, ok) => c # b
    BY <1>1, <1>2 DEF SendProbe, ProbeAnswer, PoolTypeOK
  <2>3. health'[b] = health[b] /\ probing'[b] = probing[b]
    BY <1>1, <1>7, <2>1, <2>2 DEF CheckCloud, SendProbe, ProbeAnswer, PoolTypeOK
  <2>4. QED
    BY <1>2, <1>7, <2>3, HeldUnchanged, StrandedKept
<1>8. CASE UNCHANGED vars
  <2>1. UNCHANGED handlerVars /\ health' = health /\ probing' = probing
    BY <1>8 DEF vars, poolVars
  <2>2. QED
    BY <1>2, <2>1, HeldUnchanged, StrandedKept
<1>9. QED
  BY <1>3, <1>4, <1>5, <1>6, <1>7, <1>8 DEF Next, Register, UpdateBackends

\* A backend that is down and not probed stays down whatever the router does:
\* GetHealthy skips it and checkOne leaves an object with failures alone.
THEOREM StrandedStays == Spec => StrandedForGood
<1>1. Inv /\ [Next]_vars =>
        [\A b \in Backend : Stranded(b) =>
           Stranded(b)' \/ config'[b] # config[b] \/ b \notin Registered']_vars
  BY StrandedStep
<1>2. QED
  BY <1>1, InvAlways, PTL DEF Spec, StrandedForGood
=============================================================================
