--------------------------- MODULE Support_proofs ---------------------------
(***************************************************************************)
(* Theorems about Support, for any backends, accounts, callers and texts.  *)
(*                                                                         *)
(* An answer is checked because the answers the quality gate judges are    *)
(* those of the mode asked for, all heard before it chooses.               *)
(*                                                                         *)
(* A checkout is fair because the fewest leases are subtracted from all    *)
(* whenever the accounts are evened out, because an account nobody has     *)
(* looked at since it was active stays so but for a cooldown reported in   *)
(* between, and because while no account fails the turns alone say who has *)
(* been leased how often.                                                  *)
(*                                                                         *)
(* A prefix is kept because what a record has walked through was reached,  *)
(* and stays so unless a slower record sets it back, and because what a    *)
(* sweep has still to visit lies beside its way: it drops nothing that is  *)
(* not older than its cutoff.                                              *)
(*                                                                         *)
(* A client is told in full because what was sent, arrived or not, agrees  *)
(* with what was said: tools are numbered as they begin, and a block has   *)
(* the number of the tool that is open in it.                              *)
(*                                                                         *)
(* The types of all parts come with these, and with what bounds the work   *)
(* of the configuration and of the retrieval index.                        *)
(***************************************************************************)
EXTENDS Support, FiniteSetTheorems, SequenceTheorems, WellFoundedInduction, TLAPS

-----------------------------------------------------------------------------
(* The quality of an answer.                                               *)

Provider == {"openai", "gemini", "ollama"}

\* Before the gate an answer is the backend's; in it, what was heard is what was asked for.
Gate ==
  /\ stage \in {"consensus", "dispatch"} => heard = {} /\ \A b \in Backends : parallel[b] = Nothing
  /\ stage = "gate" /\ asked.mode = "sequential" => heard = {answer}
  /\ stage = "gate" /\ asked.mode # "sequential" =>
       /\ \A a \in heard : \E b \in Backends : parallel[b] = a
       /\ parallel["fallback"] # Nothing => fallback
  /\ stage = "reflect" /\ heard # {} /\ ~Passes(answer) => \A a \in heard : ~Passes(a)

\* The marks of the consensus are set only when it was reached.
Marked ==
  /\ stage \in {"consensus", "dispatch"} => marks = {}
  /\ stage \in {"gate", "reflect"} => marks \subseteq {"retried"}
  /\ stage \in {"dispatch", "gate", "reflect"} /\ asked.consensus => Heeded = {}

QualityInv ==
  /\ QualityTypeOK
  /\ asked \in [consensus : BOOLEAN, schema : BOOLEAN, gate : BOOLEAN, reflect : BOOLEAN,
                mode : {"sequential", "parallel"}]
  /\ Gate /\ Marked /\ AnswerChecked

\* Whatever a provider replies, the adapter makes an answer of it.
LEMMA AnswersAreAnswers ==
  ASSUME NEW p \in Providers, NEW b \in Backends
  PROVE  AnswersOf(p[b]) \subseteq Answer /\ Nothing \notin Answer
<1>1. p[b] \in Provider
  BY QualityAssumption DEF Provider
<1>2. \A reply \in Reply : /\ ForwardToOpenAI(reply) \in Answer
                           /\ ForwardToOllama(reply) \in Answer
  BY DEF Reply, ForwardToOpenAI, ForwardToOllama, Answer, Given
<1>3. \A reply \in Reply : ForwardToGemini(reply) \in Answer
  BY DEF Reply, ForwardToGemini, ParseGeminiResponse, Answer, Given
<1>4. AnswersOf(p[b]) \subseteq Answer
  <2>1. CASE p[b] = "openai"
    BY <1>2, <2>1 DEF AnswersOf
  <2>2. CASE p[b] = "gemini"
    BY <1>3, <2>2 DEF AnswersOf
  <2>3. CASE p[b] = "ollama"
    BY <1>2, <2>3 DEF AnswersOf
  <2>4. QED
    BY <1>1, <2>1, <2>2, <2>3 DEF Provider
<1>5. QED
  BY <1>4 DEF Answer, Given, Nothing

\* The first opinion that is heeded is one of them.
LEMMA FirstIsHeeded ==
  ASSUME Heeded # {}
  PROVE  \E i \in Heeded : opinion[i] = FirstHeeded
<1>1. Opinions \in {2, 3}
  BY QualityAssumption
<1>2. \E i \in Heeded : \A j \in Heeded : i <= j
  <2>1. Heeded \subseteq 1..3
    BY <1>1 DEF Heeded
  <2>2. CASE 1 \in Heeded
    BY <2>1, <2>2
  <2>3. CASE 1 \notin Heeded /\ 2 \in Heeded
    BY <2>1, <2>3
  <2>4. CASE 1 \notin Heeded /\ 2 \notin Heeded
    <3>1. \A j \in Heeded : j = 3
      BY <2>1, <2>4
    <3>2. QED
      BY <3>1
  <2>5. QED
    BY <2>2, <2>3, <2>4
<1>3. QED
  BY <1>2 DEF FirstHeeded

LEMMA QualityInitially == QualityInit => QualityInv
<1> SUFFICES ASSUME QualityInit
             PROVE  QualityInv
  OBVIOUS
<1>1. QualityTypeOK
  BY DEF QualityInit, QualityTypeOK, Backends
<1>2. Gate /\ Marked
  BY DEF QualityInit, Gate, Marked, Backends
<1>3. stage # "done"
  BY DEF QualityInit
<1>4. QED
  BY <1>1, <1>2, <1>3 DEF QualityInit, QualityInv, AnswerChecked

LEMMA QualityAside ==
  ASSUME QualityInv, UNCHANGED quality
  PROVE  QualityInv'
BY DEF QualityInv, quality, QualityTypeOK, Gate, Marked, AnswerChecked, Heeded, Passes, SchemaValid, PassesChecks

LEMMA GiveOpinionKeeps ==
  ASSUME QualityInv, NEW i \in 1..Opinions, GiveOpinion(i)
  PROVE  QualityInv'
<1>1. opinion' \in [1..Opinions -> Answer \cup {Nothing}]
  BY DEF QualityInv, QualityTypeOK, GiveOpinion
<1>2. QED
  BY <1>1 DEF QualityInv, QualityTypeOK, Gate, Marked, AnswerChecked, Passes, SchemaValid, PassesChecks,
              GiveOpinion

LEMMA ConcludeKeeps ==
  ASSUME QualityInv, Conclude
  PROVE  QualityInv'
<1>1. stage = "consensus" /\ marks = {} /\ heard = {}
  BY DEF Conclude, QualityInv, Marked, Gate
<1>2. UNCHANGED <<asked, provider, fallback, opinion, parallel, heard>> /\ Heeded' = Heeded
  BY DEF Conclude, Heeded
<1>3. CASE Heeded = {} /\ stage' = "dispatch" /\ UNCHANGED <<answer, marks>>
  BY <1>1, <1>2, <1>3 DEF QualityInv, QualityTypeOK, Gate, Marked, AnswerChecked
<1>4. CASE Heeded # {} /\ Conclusion(FirstHeeded, {"agreed"})
  <2>1. answer' \in Answer /\ \E i \in Heeded : opinion[i] = answer'
    BY <1>4, FirstIsHeeded DEF Conclusion, Heeded, Answer
  <2>2. marks' = {"agreed"} /\ stage' = "done"
    BY <1>1, <1>4 DEF Conclusion
  <2>3. QED
    BY <1>1, <1>2, <2>1, <2>2 DEF QualityInv, QualityTypeOK, Gate, Marked, AnswerChecked
<1>5. CASE \E a \in Given \ {"blank"} : Conclusion(a, {"arbitrated"})
  <2>1. answer' \in Answer /\ marks' = {"arbitrated"} /\ stage' = "done"
    BY <1>1, <1>5 DEF Conclusion, Answer
  <2>2. QED
    BY <1>1, <1>2, <2>1 DEF QualityInv, QualityTypeOK, Gate, Marked, AnswerChecked
<1>6. QED
  BY <1>3, <1>4, <1>5 DEF Conclude

LEMMA DispatchedKeeps ==
  ASSUME QualityInv, Dispatched
  PROVE  QualityInv'
<1>1. stage = "dispatch" /\ marks = {} /\ heard = {} /\ (asked.consensus => Heeded = {})
  BY DEF Dispatched, QualityInv, Marked, Gate
<1>2. UNCHANGED <<asked, provider, fallback, opinion, parallel, marks>> /\ Heeded' = Heeded
  BY DEF Dispatched, Heeded
<1>3. answer' \in Answer
  BY AnswersAreAnswers DEF Dispatched, QualityInv, QualityTypeOK, Backends
<1>4. stage' \in {"done", "gate", "reflect"}
  BY DEF Dispatched
<1>5. heard' = IF stage' = "gate" /\ asked.mode = "sequential" THEN {answer'} ELSE {}
  BY DEF Dispatched
<1>6. \A b \in Backends : parallel[b] = Nothing
  BY DEF Dispatched, QualityInv, Gate
<1>7. Gate'
  BY <1>2, <1>4, <1>5, <1>6 DEF Gate, Backends
<1>8. AnswerChecked'
  BY <1>1, <1>2, <1>5 DEF AnswerChecked
<1>9. QED
  BY <1>1, <1>2, <1>3, <1>4, <1>5, <1>7, <1>8 DEF QualityInv, QualityTypeOK, Marked

LEMMA TakeTakes ==
  ASSUME NEW a \in Answer, NEW m, Take(a, m), answer \in Answer \cup {Nothing}
  PROVE  /\ answer' = IF a = "lost" THEN answer ELSE a
         /\ marks' = IF a = "lost" THEN marks ELSE marks \cup m
BY DEF Take

LEMMA GateSequentialKeeps ==
  ASSUME QualityInv, GateSequential
  PROVE  QualityInv'
<1>1. stage = "gate" /\ asked.mode = "sequential" /\ heard = {answer} /\ marks \subseteq {"retried"}
      /\ (asked.consensus => Heeded = {})
  BY DEF GateSequential, QualityInv, Marked, Gate
<1>2. UNCHANGED <<asked, provider, fallback, opinion, parallel>> /\ Heeded' = Heeded /\ stage' = "reflect"
  BY DEF GateSequential, Heeded
<1>3. \A x : Passes(x)' <=> Passes(x)
  BY <1>2 DEF Passes, SchemaValid, PassesChecks
<1>4. CASE UNCHANGED <<answer, heard, marks>>
  <2>1. Gate'
    BY <1>1, <1>2, <1>4 DEF Gate, Passes, SchemaValid, PassesChecks
  <2>2. QED
    BY <1>1, <1>2, <1>4, <2>1 DEF QualityInv, QualityTypeOK, Marked, AnswerChecked
<1>5. ASSUME ~Passes(answer), NEW a \in AnswersOf(provider["fallback"]),
             heard' = heard \cup {a}, Take(a, {"retried"})
      PROVE  QualityInv'
  <2>1. a \in Answer /\ answer \in Answer \cup {Nothing}
    BY <1>5, AnswersAreAnswers DEF QualityInv, QualityTypeOK, Backends
  <2>2. ((answer' = answer /\ a = "lost") \/ answer' = a) /\ marks' \subseteq {"retried"}
    BY <1>1, <1>5, <2>1, TakeTakes
  <2>3. ~Passes("lost")
    BY DEF Passes, Given
  <2>4. Gate'
    BY <1>1, <1>2, <1>5, <2>2, <2>3 DEF Gate, Passes, SchemaValid, PassesChecks
  <2>5. answer' \in Answer \cup {Nothing} /\ heard' \subseteq Answer
    BY <1>5, <2>1, <2>2 DEF QualityInv, QualityTypeOK
  <2>6. QED
    BY <1>1, <1>2, <2>2, <2>4, <2>5 DEF QualityInv, QualityTypeOK, Marked, AnswerChecked
<1>6. QED
  BY <1>4, <1>5 DEF GateSequential

LEMMA CallKeeps ==
  ASSUME QualityInv, NEW b \in Backends, Call(b)
  PROVE  QualityInv'
<1>1. stage = "gate" /\ asked.mode = "parallel" /\ parallel[b] = Nothing /\ (b = "fallback" => fallback)
  BY DEF Call
<1>2. PICK a \in AnswersOf(provider[b]) : parallel' = [parallel EXCEPT ![b] = a] /\ heard' = heard \cup {a}
  BY DEF Call
<1>3. a \in Answer /\ Nothing \notin Answer
  BY <1>2, AnswersAreAnswers DEF QualityInv, QualityTypeOK
<1>4. UNCHANGED <<asked, provider, fallback, stage, opinion, answer, marks>> /\ Heeded' = Heeded
  BY DEF Call, Heeded
<1>5. /\ parallel' \in [Backends -> Answer \cup {Nothing}] /\ heard' \subseteq Answer
      /\ parallel'[b] = a /\ \A c \in Backends \ {b} : parallel'[c] = parallel[c]
  BY <1>2, <1>3 DEF QualityInv, QualityTypeOK
<1>6. \A x \in heard : \E c \in Backends : parallel[c] = x
  BY <1>1 DEF QualityInv, Gate
<1>7. \A x \in heard' : \E c \in Backends : parallel'[c] = x
  <2>1. ASSUME NEW x \in heard, x # a
        PROVE  \E c \in Backends : parallel'[c] = x
    <3>1. PICK c \in Backends : parallel[c] = x
      BY <1>6
    <3>2. x # Nothing
      BY <1>3 DEF QualityInv, QualityTypeOK
    <3>3. QED
      BY <1>1, <1>5, <3>1, <3>2
  <2>2. QED
    BY <1>2, <1>5, <2>1
<1>8. parallel'["fallback"] # Nothing => fallback
  BY <1>1, <1>5 DEF QualityInv, Gate, Backends
<1>9. Gate'
  BY <1>1, <1>4, <1>7, <1>8 DEF Gate
<1>10. QED
  BY <1>1, <1>4, <1>5, <1>9 DEF QualityInv, QualityTypeOK, Marked, AnswerChecked

\* What comes of taking answer a; one that is lost changes nothing.
Takes(a) ==
  answer' = (IF a = "lost" THEN answer ELSE a) /\ marks' \in {marks, marks \cup {"retried"}}

LEMMA ChooseKeeps ==
  ASSUME QualityInv, Choose
  PROVE  QualityInv'
<1> DEFINE cheap == parallel["cheap"]
           other == parallel["fallback"]
<1>1. /\ stage = "gate" /\ asked.mode = "parallel" /\ cheap # Nothing /\ (fallback => other # Nothing)
      /\ marks \subseteq {"retried"} /\ (asked.consensus => Heeded = {})
  BY DEF Choose, QualityInv, Marked
<1>2. UNCHANGED <<asked, provider, fallback, opinion, parallel, heard>> /\ Heeded' = Heeded /\ stage' = "reflect"
  BY DEF Choose, Heeded
<1>3. cheap \in Answer /\ other \in Answer \cup {Nothing} /\ answer \in Answer \cup {Nothing}
  BY <1>1 DEF QualityInv, QualityTypeOK, Backends
<1>4. /\ \A x \in heard : x = cheap \/ x = other
      /\ other # Nothing => fallback
  BY <1>1 DEF QualityInv, Gate, Backends
<1>5. ~Passes("lost") /\ \A x : x \notin Given => ~Passes(x)
  BY DEF Passes, Given
<1>6. Takes(IF ~fallback \/ Passes(cheap) \/ (other \notin Given /\ cheap # "lost") THEN cheap ELSE other)
  BY SMT DEF Choose, Take, Takes
<1> HIDE DEF cheap, other
<1>7. answer' \in Answer \cup {Nothing} /\ marks' \subseteq {"retried"}
  BY <1>1, <1>3, <1>4, <1>6 DEF Takes, Answer, Nothing
<1>8. ASSUME ~Passes(answer'), NEW x \in heard
      PROVE  ~Passes(x)
  <2>1. CASE ~fallback \/ Passes(cheap)
    <3>1. other = Nothing \/ Passes(cheap)
      BY <1>4, <2>1
    <3>2. answer' = cheap \/ cheap = "lost"
      BY <1>6, <2>1 DEF Takes
    <3>3. ~Passes(cheap)
      BY <1>5, <1>8, <3>2
    <3>4. QED
      BY <1>4, <1>5, <3>1, <3>3 DEF Given, Nothing
  <2>2. CASE ~(~fallback \/ Passes(cheap)) /\ other \in Given
    <3>1. answer' = other
      BY <1>6, <2>2 DEF Takes, Given
    <3>2. QED
      BY <1>4, <1>8, <2>2, <3>1
  <2>3. CASE ~(~fallback \/ Passes(cheap)) /\ other \notin Given
    BY <1>4, <1>5, <2>3
  <2>4. QED
    BY <2>1, <2>2, <2>3
<1>9. \A x : Passes(x)' <=> Passes(x)
  BY <1>2 DEF Passes, SchemaValid, PassesChecks
<1>10. Gate'
  BY <1>2, <1>8 DEF Gate, Passes, SchemaValid, PassesChecks
<1>11. QED
  BY <1>1, <1>2, <1>7, <1>10 DEF QualityInv, QualityTypeOK, Marked, AnswerChecked

LEMMA ReflectKeeps ==
  ASSUME QualityInv, Reflect
  PROVE  QualityInv'
<1>1. /\ stage = "reflect" /\ stage' = "done" /\ marks \subseteq {"retried"} /\ (asked.consensus => Heeded = {})
      /\ heard # {} /\ ~Passes(answer) => \A a \in heard : ~Passes(a)
  BY DEF Reflect, QualityInv, Marked, Gate
<1>2. UNCHANGED <<asked, provider, fallback, opinion, parallel, heard>> /\ Heeded' = Heeded
  BY DEF Reflect, Heeded
<1>3. CASE UNCHANGED <<answer, marks>>
  <2>1. AnswerChecked'
    BY <1>1, <1>2, <1>3 DEF AnswerChecked, Passes, SchemaValid, PassesChecks
  <2>2. QED
    BY <1>1, <1>2, <1>3, <2>1 DEF QualityInv, QualityTypeOK, Gate, Marked
<1>4. CASE \E a \in Given \ {"blank"} : answer' = a /\ marks' = marks \cup {"reflected"}
  <2>1. "reflected" \in marks' /\ marks' # {"agreed"} /\ marks' \subseteq {"retried", "reflected"}
        /\ answer' \in Answer
    BY <1>1, <1>4 DEF Answer
  <2>2. AnswerChecked'
    BY <1>1, <1>2, <2>1 DEF AnswerChecked
  <2>3. QED
    BY <1>1, <1>2, <2>1, <2>2 DEF QualityInv, QualityTypeOK, Gate, Marked
<1>5. QED
  BY <1>3, <1>4 DEF Reflect

LEMMA QualityNext == QualityInv /\ [Next]_vars => QualityInv'
<1> SUFFICES ASSUME QualityInv, [Next]_vars
             PROVE  QualityInv'
  OBVIOUS
<1>1. CASE UNCHANGED quality
  BY <1>1, QualityAside
<1>2. CASE StepInQuality
  BY <1>2, GiveOpinionKeeps, ConcludeKeeps, DispatchedKeeps, GateSequentialKeeps, CallKeeps,
     ChooseKeeps, ReflectKeeps DEF StepInQuality, QualityStep
<1>3. CASE StepInConfig \/ StepInPool \/ StepInTree \/ StepInIngest \/ StepInCompletion
  BY <1>1, <1>3 DEF StepInConfig, StepInPool, StepInTree, StepInIngest, StepInCompletion
<1>4. QED
  BY <1>1, <1>2, <1>3 DEF Next, vars

\* The gate lets an answer through that fails its checks only if it heard none that
\* passes them, and an answer of the consensus without its mark means nobody had one,
\* for any number of opinions and any providers (GateSequential, GateParallel,
\* runConsensus, runReflection).
THEOREM AnswerIsChecked == Spec => []AnswerChecked
<1>1. Init => QualityInv
  BY QualityInitially DEF Init
<1>2. QED
  BY <1>1, QualityNext, PTL DEF Spec, QualityInv

-----------------------------------------------------------------------------
(* The places of the accounts, and the turns among them.                   *)

LEMMA LeastOf ==
  ASSUME NEW S \in SUBSET Nat, S # {}
  PROVE  Min(S) \in S /\ \A x \in S : Min(S) <= x
<1> DEFINE R == OpToRel(<, Nat)
<1>1. IsWellFoundedOn(R, Nat)
  BY NatLessThanWellFounded
<1>2. \A x, y \in Nat : <<x, y>> \in R <=> x < y
  BY DEF OpToRel
<1> HIDE DEF R
<1>3. PICK m \in S : \A x \in S : ~(<<x, m>> \in R)
  BY <1>1, WFMin
<1>4. \A x \in S : m <= x
  <2> SUFFICES ASSUME NEW x \in S
               PROVE  m <= x
    OBVIOUS
  <2>1. x \in Nat /\ m \in Nat /\ ~(x < m)
    BY <1>2, <1>3
  <2>2. QED
    BY <2>1
<1>5. QED
  BY <1>3, <1>4 DEF Min

-----------------------------------------------------------------------------
(* The pool of accounts.                                                   *)

N == Cardinality(FirstOfId)

\* There are N accounts, at least one.
LEMMA Size == N \in Nat \ {0} /\ Place = 1..N /\ Len(Accounts) = N
<1>1. Len(Entry) \in Nat \ {0} /\ DOMAIN Entry = 1..Len(Entry)
  BY PoolAssumption
<1>2. IsFiniteSet(FirstOfId)
  <2>1. IsFiniteSet(DOMAIN Entry)
    BY <1>1, FS_Interval
  <2>2. QED
    BY <2>1, FS_Subset DEF FirstOfId
<1>3. 1 \in FirstOfId
  <2>1. SameId(1) \in SUBSET Nat /\ 1 \in SameId(1) /\ \A x \in SameId(1) : 1 <= x
    BY <1>1 DEF SameId
  <2>2. Min(SameId(1)) = 1
    BY <2>1, LeastOf
  <2>3. QED
    BY <1>1, <2>2 DEF FirstOfId
<1>4. N \in Nat \ {0}
  BY <1>2, <1>3, FS_CardinalityType, FS_EmptySet DEF N
<1>5. DOMAIN Accounts = 1..N
  BY DEF Accounts, Place, N
<1>6. Len(Accounts) = N
  BY <1>4, <1>5 
<1>7. QED
  BY <1>4, <1>6 DEF Place, N

LEMMA Wrap ==
  /\ \A x \in 0..(N - 1) : x % N = x
  /\ \A x \in 0..(N - 1) : (x + N) % N = x
<1>1. \A n \in Nat \ {0} : /\ \A x \in 0..(n - 1) : x % n = x
                           /\ \A x \in 0..(n - 1) : (x + n) % n = x
  OBVIOUS
<1>2. QED
  BY <1>1, Size

-----------------------------------------------------------------------------
(* The checkout of accounts.                                               *)

CallerType ==
  [pc : {"away", "turn", "scan", "leased", "refused"}, now : 0..Horizon,
   start : 0..N, tried : 0..N, up : SUBSET Place]

\* The place a caller that took turn s looks at when it has tried k.
PlaceAt(s, k) == ((s + k) % N) + 1

\* A caller c, with the cooldowns d: whom it may count on was active when it read the
\* clock and has not been looked at; what it leased is enabled.
Fair(c, d) ==
  /\ \A i \in c.up : IsEnabled(i) /\ d[i] <= c.now
  /\ c.pc = "turn" => c.tried = 0
  /\ c.pc = "scan" => /\ c.start \in 0..(N - 1) /\ c.tried \in 0..(N - 1)
                      /\ \A k \in 0..(c.tried - 1) : PlaceAt(c.start, k) \notin c.up
  /\ c.pc = "leased" => c.start \in Place /\ IsEnabled(c.start)
  /\ c.pc = "refused" => c.up = {}

PoolTypes ==
  /\ clock \in 0..Horizon /\ rr \in 0..(N - 1) /\ cooled \in BOOLEAN
  /\ disabledUntil \in [Place -> 0..(Horizon + ShortCooldown + LongCooldown)]
  /\ caller \in [Request -> CallerType]
  /\ leases \in [Place -> Nat]

\* Only accounts that are enabled are ever leased, and so put in a cooldown.
Cooldowns == \A i \in Place : disabledUntil[i] > 0 => IsEnabled(i) /\ cooled

AllEnabled == \A i \in Place : IsEnabled(i)
ScanFrom(i) == {r \in Request : caller[r].pc = "scan" /\ caller[r].start = i - 1}

\* Without cooldowns a caller leases the account its turn points at: the leases given,
\* and those about to be, follow the counter of turns.
InTurn == \E base \in Int : \A i \in Place :
            leases[i] + Cardinality(ScanFrom(i)) = base + (IF i <= rr THEN 1 ELSE 0)
Even ==
  /\ ~AllEnabled => \A i \in Place : leases[i] = 0
  /\ AllEnabled /\ ~cooled => /\ \A r \in Request : caller[r].pc = "scan" => caller[r].tried = 0
                              /\ \E i \in Place : leases[i] = 0
                              /\ InTurn

PoolInv == PoolTypes /\ (\A r \in Request : Fair(caller[r], disabledUntil)) /\ Cooldowns /\ Even

\* A round of turns passes every place.
LEMMA Round ==
  ASSUME NEW s \in 0..(N - 1), NEW i \in Place
  PROVE  \E k \in 0..(N - 1) : PlaceAt(s, k) = i
<1>1. N \in Nat \ {0} /\ i \in 1..N
  BY Size
<1>2. CASE s <= i - 1
  <2>1. i - 1 - s \in 0..(N - 1) /\ s + (i - 1 - s) = i - 1 /\ i - 1 \in 0..(N - 1)
    BY <1>1, <1>2
  <2>2. (i - 1) % N = i - 1
    BY <2>1, Wrap
  <2>3. PlaceAt(s, i - 1 - s) = i
    BY <1>1, <2>1, <2>2 DEF PlaceAt
  <2>4. QED
    BY <2>1, <2>3
<1>3. CASE s > i - 1
  <2>1. i - 1 - s + N \in 0..(N - 1) /\ s + (i - 1 - s + N) = (i - 1) + N /\ i - 1 \in 0..(N - 1)
    BY <1>1, <1>3
  <2>2. ((i - 1) + N) % N = i - 1
    BY <2>1, Wrap
  <2>3. PlaceAt(s, i - 1 - s + N) = i
    BY <1>1, <2>1, <2>2 DEF PlaceAt
  <2>4. QED
    BY <2>1, <2>3
<1>4. QED
  BY <1>1, <1>2, <1>3

LEMMA PlaceAtIsPlace ==
  ASSUME NEW s \in 0..(N - 1), NEW k \in 0..(N - 1)
  PROVE  PlaceAt(s, k) \in Place /\ PlaceAt(s, 0) = s + 1
<1>1. N \in Nat \ {0}
  BY Size
<1>2. \A n \in Nat \ {0} : \A x \in Nat : x % n \in 0..(n - 1)
  OBVIOUS
<1>3. (s + k) % N \in 0..(N - 1)
  BY <1>1, <1>2
<1>4. (s + 0) % N = s
  BY <1>1, Wrap
<1>5. QED
  BY <1>1, <1>3, <1>4, Size DEF PlaceAt

LEMMA AwayIsFair ==
  /\ Away \in CallerType
  /\ \A d : Fair(Away, d)
<1>1. N \in Nat \ {0}
  BY Size
<1>2. Horizon \in Nat
  BY PoolAssumption
<1>3. QED
  BY <1>1, <1>2 DEF Away, CallerType, Fair

LEMMA CandidateIs ==
  ASSUME NEW r \in Request
  PROVE  Candidate(r) = PlaceAt(caller[r].start, caller[r].tried)
BY Size DEF Candidate, PlaceAt

LEMMA PoolInitially == PoolInit => PoolInv
<1> SUFFICES ASSUME PoolInit
             PROVE  PoolInv
  OBVIOUS
<1>1. N \in Nat \ {0} /\ Horizon \in Nat \ {0} /\ ShortCooldown \in Nat /\ LongCooldown \in Nat
  BY Size, PoolAssumption
<1>2. PoolTypes
  <2>1. 1 \in 0..Horizon /\ 0 \in 0..(N - 1) /\ 0 \in 0..(Horizon + ShortCooldown + LongCooldown)
    BY <1>1
  <2>2. QED
    BY <2>1, AwayIsFair DEF PoolInit, PoolTypes
<1>3. \A r \in Request : Fair(caller[r], disabledUntil)
  BY AwayIsFair DEF PoolInit
<1>4. Cooldowns
  BY DEF PoolInit, Cooldowns
<1>5. Even
  <2>1. \A i : ScanFrom(i) = {}
    BY DEF PoolInit, ScanFrom, Away
  <2>2. \A i \in Place : leases[i] + Cardinality(ScanFrom(i)) = 0 + (IF i <= rr THEN 1 ELSE 0)
    BY <1>1, <2>1, FS_EmptySet, Size DEF PoolInit
  <2>3. 1 \in Place
    BY <1>1, Size
  <2>4. QED
    BY <2>2, <2>3 DEF PoolInit, Even, InTurn, Away
<1>6. QED
  BY <1>2, <1>3, <1>4, <1>5 DEF PoolInv

\* One caller moves, and nobody begins or ends a scan.
LEMMA OneMoves ==
  ASSUME PoolInv, NEW r \in Request, NEW s \in CallerType, CallerIs(r, s), Fair(s, disabledUntil),
         s.pc # "scan", caller[r].pc # "scan",
         UNCHANGED <<clock, disabledUntil, rr, leases, cooled>>
  PROVE  PoolInv'
<1>1. caller' = [caller EXCEPT ![r] = s] /\ caller' \in [Request -> CallerType]
      /\ caller'[r] = s /\ \A q \in Request \ {r} : caller'[q] = caller[q]
  BY DEF CallerIs, PoolInv, PoolTypes
<1>2. PoolTypes'
  BY <1>1 DEF PoolInv, PoolTypes
<1>3. \A q \in Request : Fair(caller'[q], disabledUntil')
  BY <1>1 DEF PoolInv
<1>4. Cooldowns'
  BY DEF PoolInv, Cooldowns
<1>5. \A i : ScanFrom(i)' = ScanFrom(i)
  BY <1>1 DEF ScanFrom
<1>6. Even'
  BY <1>1, <1>5 DEF PoolInv, Even, InTurn
<1>7. QED
  BY <1>2, <1>3, <1>4, <1>6 DEF PoolInv

LEMMA CheckoutKeeps ==
  ASSUME PoolInv, NEW r \in Request, Checkout(r)
  PROVE  PoolInv'
<1> DEFINE up == {i \in Place : IsActive(i, clock)}
           s == [Away EXCEPT !.pc = "turn", !.now = clock, !.up = up]
<1>1. up \subseteq Place /\ \A i \in up : IsEnabled(i) /\ disabledUntil[i] <= clock
  BY DEF IsActive, PoolInv, PoolTypes
<1>2. CallerIs(r, s) /\ caller[r].pc = "away"
  BY DEF Checkout
<1>3. s.pc = "turn" /\ s.now = clock /\ s.up = up /\ s.tried = 0 /\ s \in CallerType
  <2>1. clock \in 0..Horizon /\ up \in SUBSET Place /\ 0 \in 0..N
    BY <1>1, Size DEF PoolInv, PoolTypes
  <2>2. \A n \in 0..Horizon, u \in SUBSET Place :
          /\ [Away EXCEPT !.pc = "turn", !.now = n, !.up = u] \in CallerType
          /\ [Away EXCEPT !.pc = "turn", !.now = n, !.up = u].pc = "turn"
          /\ [Away EXCEPT !.pc = "turn", !.now = n, !.up = u].now = n
          /\ [Away EXCEPT !.pc = "turn", !.now = n, !.up = u].up = u
          /\ [Away EXCEPT !.pc = "turn", !.now = n, !.up = u].tried = 0
    BY <2>1 DEF Away, CallerType
  <2> HIDE DEF up
  <2>3. QED
    BY <2>1, <2>2
<1> HIDE DEF s, up
<1>4. Fair(s, disabledUntil)
  BY <1>1, <1>3 DEF Fair
<1>5. QED
  BY <1>2, <1>3, <1>4, OneMoves DEF Checkout

LEMMA GoAwayKeeps ==
  ASSUME PoolInv, NEW r \in Request, GoAway(r)
  PROVE  PoolInv'
<1>1. Away.pc = "away"
  BY DEF Away
<1>2. QED
  BY <1>1, AwayIsFair, OneMoves DEF GoAway

LEMMA TakeTurnKeeps ==
  ASSUME PoolInv, NEW r \in Request, TakeTurn(r)
  PROVE  PoolInv'
<1> DEFINE s == [caller[r] EXCEPT !.pc = "scan", !.start = rr % Len(Accounts)]
<1>1. N \in Nat \ {0} /\ rr \in 0..(N - 1) /\ rr % N = rr /\ caller[r] \in CallerType /\ caller[r].pc = "turn"
  BY Size, Wrap DEF PoolInv, PoolTypes, TakeTurn
<1>2. /\ s.pc = "scan" /\ s.start = rr /\ s.now = caller[r].now /\ s.up = caller[r].up
      /\ s.tried = caller[r].tried /\ s \in CallerType
  <2>1. rr % Len(Accounts) = rr /\ rr \in 0..N
    BY <1>1, Size
  <2>2. \A n \in 0..N : [caller[r] EXCEPT !.pc = "scan", !.start = n] \in CallerType
    BY <1>1 DEF CallerType
  <2>3. QED
    BY <1>1, <2>1, <2>2 DEF CallerType
<1>3. caller' = [caller EXCEPT ![r] = s]
  BY DEF TakeTurn, CallerIs
<1> HIDE DEF s
<1>4. caller' \in [Request -> CallerType] /\ caller'[r] = s /\ \A q \in Request \ {r} : caller'[q] = caller[q]
  BY <1>2, <1>3 DEF PoolInv, PoolTypes
<1>5. rr' = IF rr = N - 1 THEN 0 ELSE rr + 1
  <2>1. rr' = (rr + 1) % N
    BY Size DEF TakeTurn
  <2>2. CASE rr = N - 1
    <3>1. (0 + N) % N = 0
      BY <1>1, Wrap
    <3>2. QED
      BY <1>1, <2>1, <2>2, <3>1
  <2>3. CASE rr # N - 1
    <3>1. (rr + 1) % N = rr + 1
      BY <1>1, <2>3, Wrap
    <3>2. QED
      BY <2>1, <2>3, <3>1
  <2>4. QED
    BY <2>2, <2>3
<1>6. UNCHANGED <<clock, disabledUntil, leases, cooled>>
  BY DEF TakeTurn
<1>7. PoolTypes'
  BY <1>1, <1>4, <1>5, <1>6 DEF PoolInv, PoolTypes
<1>8. caller[r].tried = 0 /\ Fair(s, disabledUntil)
  BY <1>1, <1>2 DEF PoolInv, Fair
<1>9. \A q \in Request : Fair(caller'[q], disabledUntil')
  BY <1>4, <1>6, <1>8 DEF PoolInv
<1>10. Cooldowns'
  BY <1>6 DEF PoolInv, Cooldowns
<1>11. Even'
  <2>1. CASE AllEnabled /\ ~cooled
    <3>1. PICK base \in Int : \A i \in Place :
            leases[i] + Cardinality(ScanFrom(i)) = base + (IF i <= rr THEN 1 ELSE 0)
      BY <2>1 DEF PoolInv, Even, InTurn
    <3>2. ASSUME NEW i \in Place
          PROVE  /\ Cardinality(ScanFrom(i)) \in Nat
                 /\ Cardinality(ScanFrom(i)') = Cardinality(ScanFrom(i)) + (IF i = rr + 1 THEN 1 ELSE 0)
      <4>1. r \notin ScanFrom(i) /\ IsFiniteSet(ScanFrom(i))
        BY <1>1, RequestAssumption, FS_Subset DEF ScanFrom
      <4>2. ScanFrom(i)' = IF i = rr + 1 THEN ScanFrom(i) \cup {r} ELSE ScanFrom(i)
        <5>1. i \in 1..N
          BY Size
        <5>2. QED
          BY <1>1, <1>2, <1>4, <5>1 DEF ScanFrom
      <4>3. QED
        BY <4>1, <4>2, FS_AddElement, FS_CardinalityType
    <3> DEFINE next == IF rr = N - 1 THEN base + 1 ELSE base
    <3>3. ASSUME NEW i \in Place
          PROVE  leases[i] + Cardinality(ScanFrom(i)') = next + (IF i <= rr' THEN 1 ELSE 0)
      <4>1. i \in 1..N /\ leases[i] \in Nat
        BY Size DEF PoolInv, PoolTypes
      <4>2. QED
        BY <1>1, <1>5, <3>1, <3>2, <4>1
    <3>4. next \in Int
      BY <3>1
    <3>5. InTurn'
      BY <1>6, <3>3, <3>4 DEF InTurn
    <3>6. \A q \in Request : caller'[q].pc = "scan" => caller'[q].tried = 0
      BY <1>2, <1>4, <1>8, <2>1 DEF PoolInv, Even
    <3>7. QED
      BY <1>6, <2>1, <3>5, <3>6 DEF PoolInv, Even, AllEnabled
  <2>2. CASE ~(AllEnabled /\ ~cooled)
    BY <1>6, <2>2 DEF PoolInv, Even, AllEnabled
  <2>3. QED
    BY <2>1, <2>2
<1>12. QED
  BY <1>7, <1>9, <1>10, <1>11 DEF PoolInv

-----------------------------------------------------------------------------
(* The steps of the pool.                                                  *)

\* An account more is leased; what all have in common is not counted.
LEMMA CountLeaseCounts ==
  ASSUME leases \in [Place -> Nat], NEW i \in Place, CountLease(i)
  PROVE  /\ leases' \in [Place -> Nat]
         /\ (cooled \/ ~AllEnabled) => \A j \in Place : leases'[j] = 0
         /\ (~cooled /\ AllEnabled) =>
              /\ \E j \in Place : leases'[j] = 0
              /\ \E least \in Nat : \A j \in Place :
                   leases'[j] = leases[j] + (IF j = i THEN 1 ELSE 0) - least
<1> DEFINE more == [leases EXCEPT ![i] = @ + 1]
           all == {more[j] : j \in Place}
           least == Min(all)
<1>1. \A j \in Place : more[j] = leases[j] + (IF j = i THEN 1 ELSE 0) /\ more[j] \in Nat
  OBVIOUS
<1>2. leases' = IF cooled \/ \E j \in Place : ~IsEnabled(j) THEN [j \in Place |-> 0]
                ELSE [j \in Place |-> more[j] - least]
  BY DEF CountLease
<1> HIDE DEF more
<1>3. least \in all /\ \A j \in Place : least <= more[j]
  <2>1. all \in SUBSET Nat /\ all # {} /\ \A j \in Place : more[j] \in all
    BY <1>1
  <2> HIDE DEF all
  <2>2. QED
    BY <2>1, LeastOf
<1> HIDE DEF least
<1>4. least \in Nat
  BY <1>1, <1>3
<1>5. CASE cooled \/ ~AllEnabled
  BY <1>2, <1>5 DEF AllEnabled
<1>6. CASE ~cooled /\ AllEnabled
  <2>1. \A j \in Place : leases'[j] = more[j] - least /\ leases'[j] \in Nat
    BY <1>1, <1>2, <1>3, <1>4, <1>6 DEF AllEnabled
  <2>2. leases' \in [Place -> Nat]
    BY <1>2, <1>6, <2>1 DEF AllEnabled
  <2>3. PICK j \in Place : more[j] = least
    BY <1>3
  <2>4. leases'[j] = 0
    BY <1>4, <2>1, <2>3
  <2>5. \A k \in Place : leases'[k] = leases[k] + (IF k = i THEN 1 ELSE 0) - least
    <3>1. ASSUME NEW k \in Place
          PROVE  leases'[k] = leases[k] + (IF k = i THEN 1 ELSE 0) - least
      <4>1. leases'[k] = more[k] - least /\ more[k] = leases[k] + (IF k = i THEN 1 ELSE 0) /\ leases[k] \in Nat
        BY <1>1, <2>1
      <4>2. QED
        BY <1>4, <4>1
    <3>2. QED
      BY <3>1
  <2>6. QED
    BY <1>4, <1>6, <2>2, <2>4, <2>5
<1>7. QED
  BY <1>5, <1>6

LEMMA LookKeeps ==
  ASSUME PoolInv, NEW r \in Request, Look(r)
  PROVE  PoolInv'
<1> DEFINE c == caller[r]
           i == Candidate(r)
<1>1. /\ c \in CallerType /\ c.pc = "scan" /\ Fair(c, disabledUntil)
      /\ c.start \in 0..(N - 1) /\ c.tried \in 0..(N - 1) /\ N \in Nat \ {0}
  BY Size DEF PoolInv, PoolTypes, Look, Fair
<1>2. i = PlaceAt(c.start, c.tried) /\ i \in Place /\ i \in 1..N
  BY <1>1, CandidateIs, PlaceAtIsPlace, Size
<1>3. UNCHANGED <<clock, disabledUntil, rr, cooled>> /\ Cooldowns'
  BY DEF Look, PoolInv, Cooldowns
<1>4. c.now \in Nat /\ disabledUntil[i] \in Nat /\ c.up \in SUBSET Place
  BY <1>1, <1>2, PoolAssumption DEF CallerType, PoolInv, PoolTypes
<1>5. CASE IsActive(i, c.now)
  <2> DEFINE s == [c EXCEPT !.pc = "leased", !.start = i]
  <2>1. s \in CallerType /\ s.pc = "leased" /\ s.start = i /\ s.up = c.up /\ s.now = c.now
    <3>1. \A n \in 0..N : /\ [c EXCEPT !.pc = "leased", !.start = n] \in CallerType
                          /\ [c EXCEPT !.pc = "leased", !.start = n].pc = "leased"
                          /\ [c EXCEPT !.pc = "leased", !.start = n].start = n
                          /\ [c EXCEPT !.pc = "leased", !.start = n].up = c.up
                          /\ [c EXCEPT !.pc = "leased", !.start = n].now = c.now
      BY <1>1 DEF CallerType
    <3>2. i \in 0..N
      BY <1>2
    <3> HIDE DEF i
    <3>3. QED
      BY <3>1, <3>2
  <2>2. caller' = [caller EXCEPT ![r] = s] /\ CountLease(i)
    BY <1>5 DEF Look, CallerIs
  <2> HIDE DEF s
  <2>3. caller' \in [Request -> CallerType] /\ caller'[r] = s /\ \A q \in Request \ {r} : caller'[q] = caller[q]
    BY <2>1, <2>2 DEF PoolInv, PoolTypes
  <2>4. Fair(s, disabledUntil)
    BY <1>1, <1>2, <1>5, <2>1 DEF Fair, IsActive
  <2>5. leases \in [Place -> Nat]
    BY DEF PoolInv, PoolTypes
  <2>6. /\ leases' \in [Place -> Nat]
        /\ (cooled \/ ~AllEnabled) => \A j \in Place : leases'[j] = 0
        /\ (~cooled /\ AllEnabled) =>
             /\ \E j \in Place : leases'[j] = 0
             /\ \E least \in Nat : \A j \in Place :
                  leases'[j] = leases[j] + (IF j = i THEN 1 ELSE 0) - least
    <3> HIDE DEF i
    <3>1. QED
      BY <1>2, <2>2, <2>5, CountLeaseCounts
  <2>7. Even'
    <3>1. CASE AllEnabled /\ ~cooled
      <4>1. c.tried = 0 /\ i = c.start + 1
        BY <1>1, <1>2, <3>1, PlaceAtIsPlace DEF PoolInv, Even
      <4>2. PICK base \in Int : \A j \in Place :
              leases[j] + Cardinality(ScanFrom(j)) = base + (IF j <= rr THEN 1 ELSE 0)
        BY <3>1 DEF PoolInv, Even, InTurn
      <4>3. PICK least \in Nat : \A j \in Place : leases'[j] = leases[j] + (IF j = i THEN 1 ELSE 0) - least
        BY <2>6, <3>1
      <4> HIDE DEF i
      <4>4. ASSUME NEW j \in Place
            PROVE  /\ Cardinality(ScanFrom(j)) \in Nat /\ Cardinality(ScanFrom(j)') \in Nat
                   /\ Cardinality(ScanFrom(j)') = Cardinality(ScanFrom(j)) - (IF j = i THEN 1 ELSE 0)
        <5>1. IsFiniteSet(ScanFrom(j))
          BY RequestAssumption, FS_Subset DEF ScanFrom
        <5>2. ScanFrom(j)' = ScanFrom(j) \ {r}
          BY <2>1, <2>3 DEF ScanFrom
        <5>3. r \in ScanFrom(j) <=> j = i
          <6>1. j \in Int
            BY Size
          <6>2. QED
            BY <1>1, <4>1, <6>1 DEF ScanFrom
        <5>4. QED
          BY <5>1, <5>2, <5>3, FS_RemoveElement, FS_CardinalityType
      <4>5. ASSUME NEW j \in Place
            PROVE  leases'[j] + Cardinality(ScanFrom(j)') = (base - least) + (IF j <= rr THEN 1 ELSE 0)
        <5>1. leases[j] \in Nat
          BY <2>5
        <5>2. QED
          BY <4>2, <4>3, <4>4, <5>1
      <4>6. base - least \in Int
        BY <4>2, <4>3
      <4>7. InTurn'
        BY <1>3, <4>5, <4>6 DEF InTurn
      <4>8. \A q \in Request : caller'[q].pc = "scan" => caller'[q].tried = 0
        BY <2>1, <2>3, <3>1 DEF PoolInv, Even
      <4>9. QED
        BY <1>3, <2>6, <3>1, <4>7, <4>8 DEF Even, AllEnabled
    <3>2. CASE ~(AllEnabled /\ ~cooled)
      BY <1>3, <2>6, <3>2 DEF Even, AllEnabled
    <3>3. QED
      BY <3>1, <3>2
  <2>8. PoolTypes'
    BY <1>3, <2>3, <2>6 DEF PoolInv, PoolTypes
  <2>9. QED
    BY <1>3, <2>3, <2>4, <2>7, <2>8 DEF PoolInv
<1>6. CASE ~IsActive(i, c.now)
  <2> DEFINE s == [c EXCEPT !.tried = @ + 1, !.pc = IF c.tried + 1 < Len(Accounts) THEN "scan" ELSE "refused"]
  <2>1. s \in CallerType /\ s.tried = c.tried + 1 /\ s.start = c.start /\ s.up = c.up /\ s.now = c.now
        /\ s.pc = IF c.tried + 1 < N THEN "scan" ELSE "refused"
    <3>1. \A n \in 0..N, p \in {"scan", "refused"} :
             /\ [c EXCEPT !.tried = n, !.pc = p] \in CallerType
             /\ [c EXCEPT !.tried = n, !.pc = p].tried = n
             /\ [c EXCEPT !.tried = n, !.pc = p].pc = p
             /\ [c EXCEPT !.tried = n, !.pc = p].start = c.start
             /\ [c EXCEPT !.tried = n, !.pc = p].up = c.up
             /\ [c EXCEPT !.tried = n, !.pc = p].now = c.now
      BY <1>1 DEF CallerType
    <3> DEFINE p == IF c.tried + 1 < N THEN "scan" ELSE "refused"
    <3>2. c.tried + 1 \in 0..N /\ p \in {"scan", "refused"} /\ s = [c EXCEPT !.tried = c.tried + 1, !.pc = p]
      BY <1>1, Size
    <3>3. s.pc = (IF c.tried + 1 < N THEN "scan" ELSE "refused") <=> s.pc = p
      OBVIOUS
    <3> HIDE DEF s, p
    <3>4. QED
      BY <3>1, <3>2, <3>3
  <2>2. caller' = [caller EXCEPT ![r] = s] /\ leases' = leases
    BY <1>6 DEF Look, CallerIs
  <2> HIDE DEF s
  <2>3. caller' \in [Request -> CallerType] /\ caller'[r] = s /\ \A q \in Request \ {r} : caller'[q] = caller[q]
    BY <2>1, <2>2 DEF PoolInv, PoolTypes
  <2>4. i \notin c.up
    BY <1>1, <1>4, <1>6 DEF Fair, IsActive
  <2>5. \A k \in 0..c.tried : PlaceAt(c.start, k) \notin c.up
    <3>1. \A k \in 0..c.tried : k = c.tried \/ k \in 0..(c.tried - 1)
      BY <1>1
    <3>2. QED
      BY <1>1, <1>2, <2>4, <3>1 DEF Fair
  <2>6. Fair(s, disabledUntil)
    <3>1. \A j \in s.up : IsEnabled(j) /\ disabledUntil[j] <= s.now
      BY <1>1, <2>1 DEF Fair
    <3>2. CASE c.tried + 1 < N
      <4>1. c.tried + 1 \in 0..(N - 1) /\ c.tried + 1 - 1 = c.tried
        BY <1>1, <3>2
      <4>2. QED
        BY <1>1, <2>1, <2>5, <3>1, <3>2, <4>1 DEF Fair
    <3>3. CASE ~(c.tried + 1 < N)
      <4>1. c.tried = N - 1
        BY <1>1, <3>3
      <4>2. \A j \in Place : j \notin c.up
        BY <1>1, <2>5, <4>1, Round
      <4>3. s.up = {}
        BY <1>4, <2>1, <4>2
      <4>4. QED
        BY <2>1, <3>3, <4>3 DEF Fair
    <3>4. QED
      BY <3>2, <3>3
  <2>7. ~(AllEnabled /\ ~cooled)
    BY <1>2, <1>4, <1>6 DEF AllEnabled, IsActive, PoolInv, Cooldowns
  <2>8. Even'
    BY <1>3, <2>2, <2>7 DEF PoolInv, Even, AllEnabled
  <2>9. PoolTypes'
    BY <1>3, <2>2, <2>3 DEF PoolInv, PoolTypes
  <2>10. QED
    BY <1>3, <2>3, <2>6, <2>8, <2>9 DEF PoolInv
<1>7. QED
  BY <1>5, <1>6

LEMMA ReleaseKeeps ==
  ASSUME PoolInv, NEW r \in Request, Release(r)
  PROVE  PoolInv'
<1> DEFINE i == caller[r].start
<1>1. PICK t \in {0, clock + ShortCooldown, clock + LongCooldown} :
        CoolUntil(i, t, [caller EXCEPT ![r] = Away])
  BY DEF Release
<1>2. UNCHANGED <<clock, rr, leases>> /\ caller[r].pc = "leased" /\ i \in Place /\ IsEnabled(i)
  BY DEF Release, PoolInv, Fair
<1>3. t \in 0..(Horizon + ShortCooldown + LongCooldown)
  BY PoolAssumption DEF PoolInv, PoolTypes
<1> HIDE DEF i
<1>4. /\ disabledUntil' \in [Place -> 0..(Horizon + ShortCooldown + LongCooldown)]
      /\ disabledUntil'[i] = t /\ \A j \in Place \ {i} : disabledUntil'[j] = disabledUntil[j]
  BY <1>1, <1>2, <1>3 DEF CoolUntil, PoolInv, PoolTypes
<1>5. /\ cooled' \in BOOLEAN /\ (cooled => cooled') /\ (t # 0 => cooled')
      /\ t = 0 => cooled' = cooled
  BY <1>1 DEF CoolUntil, PoolInv, PoolTypes
<1> DEFINE d == [caller EXCEPT ![r] = Away]
<1>6. d \in [Request -> CallerType] /\ d[r] = Away /\ \A q \in Request \ {r} : d[q] = caller[q]
  BY AwayIsFair DEF PoolInv, PoolTypes
<1>7. \A q \in Request : Fair(d[q], disabledUntil)
  BY <1>6, AwayIsFair DEF PoolInv
<1>8. caller' = IF t = 0 THEN d ELSE [q \in Request |-> [d[q] EXCEPT !.up = @ \ {i}]]
  BY <1>1 DEF CoolUntil
<1> HIDE DEF d
<1>9. ASSUME NEW q \in Request
      PROVE  /\ caller'[q] \in CallerType
             /\ caller'[q].pc = d[q].pc /\ caller'[q].now = d[q].now
             /\ caller'[q].start = d[q].start /\ caller'[q].tried = d[q].tried
             /\ caller'[q].up = IF t = 0 THEN d[q].up ELSE d[q].up \ {i}
  <2>1. d[q] \in CallerType
    BY <1>6
  <2>2. \A u \in SUBSET Place :
          /\ [d[q] EXCEPT !.up = u] \in CallerType /\ [d[q] EXCEPT !.up = u].pc = d[q].pc
          /\ [d[q] EXCEPT !.up = u].now = d[q].now /\ [d[q] EXCEPT !.up = u].start = d[q].start
          /\ [d[q] EXCEPT !.up = u].tried = d[q].tried /\ [d[q] EXCEPT !.up = u].up = u
    BY <2>1 DEF CallerType
  <2>3. d[q].up \ {i} \in SUBSET Place
    BY <2>1 DEF CallerType
  <2>4. t # 0 => caller'[q] = [d[q] EXCEPT !.up = d[q].up \ {i}]
    BY <1>8
  <2>5. QED
    BY <1>8, <2>1, <2>2, <2>3, <2>4
<1>10. caller' \in [Request -> CallerType]
  <2>1. \A q \in Request : caller'[q] \in CallerType
    BY <1>9
  <2>2. caller' = [q \in Request |-> caller'[q]]
    BY <1>6, <1>8
  <2>3. QED
    BY <2>1, <2>2
<1>11. PoolTypes'
  BY <1>2, <1>4, <1>5, <1>10 DEF PoolInv, PoolTypes
<1>12. ASSUME NEW q \in Request
       PROVE  Fair(caller'[q], disabledUntil')
  <2>1. Fair(d[q], disabledUntil) /\ d[q] \in CallerType
    BY <1>6, <1>7
  <2>2. \A j \in caller'[q].up : IsEnabled(j) /\ disabledUntil'[j] <= caller'[q].now
    <3>1. ASSUME NEW j \in caller'[q].up
          PROVE  IsEnabled(j) /\ disabledUntil'[j] <= caller'[q].now
      <4>1. j \in d[q].up /\ (t # 0 => j # i)
        BY <1>9, <3>1
      <4>2. j \in Place /\ d[q].now \in Nat
        BY <2>1, <4>1, PoolAssumption DEF CallerType
      <4>3. IsEnabled(j) /\ disabledUntil[j] <= d[q].now
        BY <2>1, <4>1 DEF Fair
      <4>4. disabledUntil'[j] = 0 \/ disabledUntil'[j] = disabledUntil[j]
        BY <1>4, <4>1, <4>2
      <4>5. disabledUntil'[j] <= d[q].now
        BY <4>2, <4>3, <4>4
      <4>6. caller'[q].now = d[q].now
        BY <1>9
      <4>7. QED
        BY <4>3, <4>5, <4>6
    <3>2. QED
      BY <3>1
  <2>3. caller'[q].up \subseteq d[q].up
    BY <1>9
  <2>4. QED
    BY <1>9, <2>1, <2>2, <2>3 DEF Fair
<1>13. Cooldowns'
  BY <1>2, <1>4, <1>5 DEF PoolInv, PoolTypes, Cooldowns
<1>14. Even'
  <2>1. CASE t = 0
    <3>1. \A j : ScanFrom(j)' = ScanFrom(j)
      BY <1>2, <1>6, <1>8, <2>1 DEF ScanFrom, Away
    <3>2. \A q \in Request : caller'[q].pc = "scan" => caller[q].pc = "scan" /\ caller'[q].tried = caller[q].tried
      BY <1>2, <1>6, <1>8, <2>1 DEF Away
    <3>3. QED
      BY <1>2, <1>5, <2>1, <3>1, <3>2 DEF PoolInv, Even, InTurn, AllEnabled
  <2>2. CASE t # 0
    BY <1>2, <1>5, <2>2 DEF PoolInv, Even, AllEnabled
  <2>3. QED
    BY <2>1, <2>2
<1>15. QED
  BY <1>11, <1>12, <1>13, <1>14 DEF PoolInv

LEMMA TickClockKeeps ==
  ASSUME PoolInv, TickClock
  PROVE  PoolInv'
<1>1. clock' \in 0..Horizon
  BY PoolAssumption DEF TickClock, PoolInv, PoolTypes
<1>2. UNCHANGED <<disabledUntil, rr, caller, leases, cooled>>
  BY DEF TickClock
<1>3. \A i : ScanFrom(i)' = ScanFrom(i)
  BY <1>2 DEF ScanFrom
<1>4. Even'
  BY <1>2, <1>3 DEF PoolInv, Even, InTurn, AllEnabled
<1>5. QED
  BY <1>1, <1>2, <1>4 DEF PoolInv, PoolTypes, Cooldowns

LEMMA PoolNext == PoolInv /\ [Next]_vars => PoolInv'
<1> SUFFICES ASSUME PoolInv, [Next]_vars
             PROVE  PoolInv'
  OBVIOUS
<1>1. CASE UNCHANGED accountPool
  <2>1. UNCHANGED <<clock, disabledUntil, rr, caller, leases, cooled>>
    BY <1>1 DEF accountPool
  <2>2. \A i : ScanFrom(i)' = ScanFrom(i)
    BY <2>1 DEF ScanFrom
  <2>3. Even'
    BY <2>1, <2>2 DEF PoolInv, Even, InTurn, AllEnabled
  <2>4. QED
    BY <2>1, <2>3 DEF PoolInv, PoolTypes, Cooldowns
<1>2. CASE StepInPool
  BY <1>2, CheckoutKeeps, TakeTurnKeeps, LookKeeps, ReleaseKeeps, GoAwayKeeps, TickClockKeeps
     DEF StepInPool, PoolStep
<1>3. CASE StepInConfig \/ StepInTree \/ StepInQuality \/ StepInIngest \/ StepInCompletion
  BY <1>1, <1>3 DEF StepInConfig, StepInTree, StepInQuality, StepInIngest, StepInCompletion
<1>4. QED
  BY <1>1, <1>2, <1>3 DEF Next, vars

LEMMA PoolInvariant == Spec => []PoolInv
<1>1. Init => PoolInv
  BY PoolInitially DEF Init
<1>2. QED
  BY <1>1, PoolNext, PTL DEF Spec

\* A caller is turned away only if no account was there for the whole of its search,
\* leases are even to one without cooldowns, and the wait a client is told of is long
\* enough, for any list of accounts, cooldowns and number of callers (Pool.checkout,
\* Pool.release, Manager.Peek).
THEOREM CheckoutIsFair == Spec => []CheckoutFair
<1>1. PoolInv => CheckoutFair
  <2> SUFFICES ASSUME PoolInv
               PROVE  CheckoutFair
    OBVIOUS
  <2>1. ASSUME NEW r \in Request, caller[r].pc = "refused"
        PROVE  caller[r].up = {}
    BY <2>1 DEF PoolInv, Fair
  <2>2. ASSUME ~cooled, \A r \in Request : caller[r].pc # "scan", NEW i \in Place
        PROVE  leases[i] <= 1
    <3>1. CASE AllEnabled
      <4>1. \A j : ScanFrom(j) = {}
        BY <2>2 DEF ScanFrom
      <4>2. PICK base \in Int : \A j \in Place : leases[j] + 0 = base + (IF j <= rr THEN 1 ELSE 0)
        BY <2>2, <3>1, <4>1, FS_EmptySet DEF PoolInv, Even, InTurn
      <4>3. PICK z \in Place : leases[z] = 0
        BY <2>2, <3>1 DEF PoolInv, Even
      <4>4. N \in Nat \ {0} /\ Place = 1..N /\ rr \in 0..(N - 1) /\ \A j \in Place : leases[j] \in Nat
        BY Size DEF PoolInv, PoolTypes
      <4>5. base <= 0
        <5>1. 0 + 0 = base + (IF z <= rr THEN 1 ELSE 0)
          BY <4>2, <4>3
        <5>2. CASE z <= rr
          BY <4>2, <5>1, <5>2
        <5>3. CASE ~(z <= rr)
          BY <4>2, <5>1, <5>3
        <5>4. QED
          BY <5>2, <5>3
      <4>6. QED
        BY <4>2, <4>4, <4>5
    <3>2. CASE ~AllEnabled
      BY <3>2 DEF PoolInv, Even
    <3>3. QED
      BY <3>1, <3>2
  <2>3. ASSUME Peek.wait > 0
        PROVE  \E i \in Place : IsActive(i, clock + Peek.wait)
    <3> DEFINE waits == {disabledUntil[j] - clock : j \in {k \in Place : disabledUntil[k] > clock}}
    <3>1. waits # {} /\ Peek.wait = Min(waits)
      BY <2>3 DEF Peek
    <3>2. waits \in SUBSET Nat /\ clock \in Nat
      BY PoolAssumption DEF PoolInv, PoolTypes
    <3>3. Peek.wait \in waits
      BY <3>1, <3>2, LeastOf
    <3>4. PICK j \in Place : disabledUntil[j] > clock /\ Peek.wait = disabledUntil[j] - clock
      BY <3>3
    <3>5. disabledUntil[j] \in Nat
      BY PoolAssumption DEF PoolInv, PoolTypes
    <3>6. IsEnabled(j) /\ clock + Peek.wait = disabledUntil[j]
      BY <3>2, <3>4, <3>5 DEF PoolInv, Cooldowns
    <3>7. QED
      BY <3>5, <3>6 DEF IsActive
  <2>4. QED
    BY <2>1, <2>2, <2>3 DEF CheckoutFair
<1>2. QED
  BY <1>1, PoolInvariant, PTL

-----------------------------------------------------------------------------
(* The live configuration.                                                 *)

LEMMA FilledIsConfig ==
  /\ Empty \in Config /\ Broken \notin Config
  /\ \A v \in Value : Filled(v) \in Config
<1>1. Empty \in Config /\ \A v \in Value : Filled(v) \in Config
  BY DEF Empty, Filled, Config
<1>2. Broken \notin Config
  BY DEF Broken, Config, Piece
<1>3. QED
  BY <1>1, <1>2

ApiCall == [pc : {"quiet", "marshal", "flag", "truncate", "fill", "load", "install"},
         puts : BOOLEAN, data : Config]
Watch == [pc : {"start", "quiet", "flag", "load", "install"}, data : Config]

LEMMA QuietIsCall ==
  /\ Quiet \in ApiCall
  /\ \A c \in Config : /\ [Quiet EXCEPT !.pc = "install", !.data = c] \in ApiCall
                       /\ [pc |-> "truncate", puts |-> TRUE, data |-> c] \in ApiCall
  /\ \A pc \in {"marshal", "load"} : [Quiet EXCEPT !.pc = pc] \in ApiCall
BY FilledIsConfig DEF Quiet, ApiCall

LEMMA CallGoesOn ==
  ASSUME NEW s \in ApiCall
  PROVE  /\ \A c \in Config : [s EXCEPT !.pc = "flag", !.data = c] \in ApiCall
         /\ [s EXCEPT !.pc = "truncate"] \in ApiCall /\ [s EXCEPT !.pc = "fill"] \in ApiCall
         /\ s.data \in Config
BY DEF ApiCall

LEMMA CallsKeep ==
  ASSUME NEW r \in Request, NEW s \in ApiCall, Calls(r, s), api \in [Request -> ApiCall]
  PROVE  api' \in [Request -> ApiCall]
BY DEF Calls

LEMMA ConfigNext == ConfigTypeOK /\ [Next]_vars => ConfigTypeOK'
<1> SUFFICES ASSUME ConfigTypeOK, [Next]_vars
             PROVE  ConfigTypeOK'
  OBVIOUS
<1>c. MayChange => edits + 1 \in 0..MaxEdits
  <2>1. edits \in 0..MaxEdits /\ MaxEdits \in Nat
    BY ConfigAssumption DEF ConfigTypeOK
  <2>2. QED
    BY <2>1 DEF MayChange
<1> USE FilledIsConfig, QuietIsCall, CallsKeep
<1>0. /\ api \in [Request -> ApiCall] /\ watcher \in Watch
      /\ onDisk \in Config \cup {Broken} /\ unseen \subseteq {"router", "other"}
      /\ memory \in Config /\ inUse \in Config
      /\ skip \in BOOLEAN /\ crossed \in BOOLEAN
      /\ edits \in 0..MaxEdits /\ MaxEdits \in Nat
  BY ConfigAssumption DEF ConfigTypeOK, ApiCall, Watch
<1>a. ASSUME /\ api' \in [Request -> ApiCall] /\ watcher' \in Watch
             /\ onDisk' \in Config \cup {Broken} /\ unseen' \subseteq {"router", "other"}
             /\ memory' \in Config /\ inUse' \in Config
             /\ skip' \in BOOLEAN /\ crossed' \in BOOLEAN /\ edits' \in 0..MaxEdits
      PROVE  ConfigTypeOK'
  BY <1>a DEF ConfigTypeOK, ApiCall, Watch
<1> HIDE DEF ConfigTypeOK
<1>b. \A r \in Request : /\ api[r].data \in Config /\ Writer(r) \in {"router", "other"}
                         /\ [api[r] EXCEPT !.pc = "flag", !.data = memory] \in ApiCall
                         /\ [api[r] EXCEPT !.pc = "truncate"] \in ApiCall
                         /\ [api[r] EXCEPT !.pc = "fill"] \in ApiCall
  BY <1>0, CallGoesOn DEF Writer
<1>1. ASSUME NEW r \in Request, ChangePiece(r)
      PROVE  ConfigTypeOK'
  <2>1. memory' \in Config /\ inUse' \in Config
    <3>1. PICK p \in Piece, v \in Value :
            memory' = [memory EXCEPT ![p] = v] /\ inUse' = [inUse EXCEPT ![p] = v]
      BY <1>1 DEF ChangePiece
    <3>2. QED
      BY <1>0, <3>1 DEF Config
  <2>2. QED
    BY <1>0, <1>a, <1>c, <1>1, <2>1 DEF ChangePiece
<1>2. ASSUME NEW r \in Request, PutFile(r)
      PROVE  ConfigTypeOK'
  <2>1. api' \in [Request -> ApiCall]
    BY <1>0, <1>2 DEF PutFile
  <2>2. QED
    BY <1>0, <1>a, <1>c, <1>2, <2>1 DEF PutFile
<1>3. ASSUME NEW r \in Request, AskReload(r)
      PROVE  ConfigTypeOK'
  BY <1>0, <1>a, <1>c, <1>3 DEF AskReload
<1>4. ASSUME NEW r \in Request, CallStep(r)
      PROVE  ConfigTypeOK'
  <2>1. CASE Marshal(r)
    BY <1>0, <1>a, <1>b, <2>1 DEF Marshal
  <2>2. CASE SetFlag(r)
    BY <1>0, <1>a, <1>b, <2>2 DEF SetFlag
  <2>3. CASE Truncate(r)
    <3>1. crossed' \in BOOLEAN
      BY <2>3 DEF Truncate
    <3>2. /\ api' \in [Request -> ApiCall]
          /\ onDisk' \in Config \cup {Broken} /\ unseen' \subseteq {"router", "other"}
      BY <1>0, <1>b, <2>3 DEF Truncate, Writes
    <3>3. QED
      BY <1>0, <1>a, <2>3, <3>1, <3>2 DEF Truncate
  <2>4. CASE Fill(r)
    <3>1. crossed' \in BOOLEAN
      BY <1>0, <2>4 DEF Fill
    <3>2. /\ api' \in [Request -> ApiCall]
          /\ onDisk' \in Config \cup {Broken} /\ unseen' \subseteq {"router", "other"}
      BY <1>0, <1>b, <2>4 DEF Fill, Writes
    <3>3. QED
      BY <1>0, <1>a, <2>4, <3>1, <3>2 DEF Fill
  <2>5. CASE LoadFile(r)
    BY <1>0, <1>a, <2>5 DEF LoadFile
  <2>6. CASE InstallLoaded(r)
    <3>1. inUse' \in Config
      BY <1>0, <1>b, <2>6 DEF InstallLoaded, Config, Piece
    <3>2. QED
      BY <1>0, <1>a, <1>b, <2>6, <3>1 DEF InstallLoaded
  <2>7. QED
    BY <1>4, <2>1, <2>2, <2>3, <2>4, <2>5, <2>6 DEF CallStep
<1>5. CASE EditFile
  <2>1. crossed' \in BOOLEAN
    BY <1>5 DEF EditFile
  <2>2. onDisk' \in Config \cup {Broken} /\ unseen' \subseteq {"router", "other"}
    BY <1>0, <1>5 DEF EditFile, Writes
  <2>3. QED
    BY <1>0, <1>a, <1>c, <1>5, <2>1, <2>2 DEF EditFile
<1>6. CASE WatchStep
  <2>1. \A pc \in {"quiet", "flag", "load", "install"} :
          [watcher EXCEPT !.pc = pc] \in Watch /\ \A c \in Config : [pc |-> pc, data |-> c] \in Watch
    BY <1>0 DEF Watch
  <2>2. watcher.data \in Config
    BY <1>0 DEF Watch
  <2>3. CASE Notice
    <3>1. crossed' \in BOOLEAN
      BY <2>3 DEF Notice
    <3>2. QED
      BY <1>0, <1>a, <2>1, <2>3, <3>1 DEF Notice
  <2>4. CASE CheckFlag
    BY <1>0, <1>a, <2>1, <2>4 DEF CheckFlag
  <2>5. CASE ReloadFile
    <3>1. crossed' \in BOOLEAN
      BY <2>5 DEF ReloadFile
    <3>2. QED
      BY <1>0, <1>a, <2>1, <2>5, <3>1 DEF ReloadFile
  <2>6. CASE InstallReloaded
    BY <1>0, <1>a, <2>1, <2>2, <2>6 DEF InstallReloaded
  <2>7. CASE StartWatching
    BY <1>0, <1>a, <2>1, <2>7 DEF StartWatching
  <2>8. QED
    BY <1>6, <2>3, <2>4, <2>5, <2>6, <2>7 DEF WatchStep
<1>7. CASE UNCHANGED configuration
  BY <1>0, <1>a, <1>7 DEF configuration
<1>8. CASE StepInPool \/ StepInTree \/ StepInQuality \/ StepInIngest \/ StepInCompletion
  BY <1>7, <1>8 DEF StepInPool, StepInTree, StepInQuality, StepInIngest, StepInCompletion
<1>9. QED
  BY <1>1, <1>2, <1>3, <1>4, <1>5, <1>6, <1>7, <1>8
     DEF Next, vars, StepInConfig, ChangeConfig

LEMMA ConfigInvariant == Spec => []ConfigTypeOK
<1>1. Init => ConfigTypeOK
  <2>1. SUFFICES ASSUME ConfigInit
                 PROVE  ConfigTypeOK
    BY DEF Init
  <2>2. onDisk \in Config /\ memory \in Config /\ inUse \in Config
    BY <2>1, FilledIsConfig DEF ConfigInit
  <2>3. api \in [Request -> ApiCall] /\ watcher \in Watch
    BY <2>1, FilledIsConfig, QuietIsCall DEF ConfigInit, Watch
  <2>4. edits \in 0..MaxEdits
    BY <2>1, ConfigAssumption DEF ConfigInit
  <2>5. QED
    BY <2>1, <2>2, <2>3, <2>4 DEF ConfigInit, ConfigTypeOK, ApiCall, Watch
<1>2. QED
  BY <1>1, ConfigNext, PTL DEF Spec

-----------------------------------------------------------------------------
(* The keeping of the retrieval index.                                     *)

Chunk == UNION {Range(ChunksOf(f, v)) : f \in File, v \in DOMAIN Text}
WorkerState == [pc : {"run", "drain", "end"}, buf : Seq(Chunk), rest : Seq(Chunk)]
Bounded(s) == Len(s.buf) <= BatchSize

IngestInv ==
  /\ IngestTypeOK
  /\ toSend \subseteq Seq(Chunk) /\ channel \in Seq(Seq(Chunk))
  /\ worker \in [Worker -> WorkerState] /\ \A w \in Worker : Bounded(worker[w])

\* The chunks of a version make up a sequence, each of them of the file.
LEMMA ChunksOfAFile ==
  ASSUME NEW f \in File, NEW v \in DOMAIN Text
  PROVE  ChunksOf(f, v) \in Seq(Chunk)
<1>1. Text[v].len \in Nat
  BY IngestAssumption
<1> DEFINE chunks == ChunksOf(f, v)
<1>2. PICK n \in Nat : DOMAIN Windows[v] = 1..n
  <2> DEFINE t == Text[v]
             reach[n \in 0..t.len] ==
               IF n = 0 THEN {0}
               ELSE LET before == reach[n - 1]
                    IN before \cup {NextStart(t, s) : s \in {x \in before : WindowEnd(t, x) < t.len}}
             starts == {s \in 0..(t.len - 1) : s \in reach[t.len]}
  <2>1. DOMAIN Windows[v] = 1..Cardinality(starts)
    BY DEF Windows
  <2> HIDE DEF reach
  <2>2. IsFiniteSet(starts)
    <3>1. IsFiniteSet(0..(t.len - 1))
      BY <1>1, FS_Interval
    <3>2. QED
      BY <3>1, FS_Subset
  <2> HIDE DEF starts
  <2>3. Cardinality(starts) \in Nat
    BY <2>2, FS_CardinalityType
  <2>4. QED
    BY <2>1, <2>3
<1>3. DOMAIN chunks = 1..n
  BY <1>2 DEF ChunksOf
<1>4. \A i \in 1..n : chunks[i] \in Chunk
  <2>1. ChunksOf(f, v) \in {ChunksOf(g, w) : g \in File, w \in DOMAIN Text} /\ Range(chunks) \subseteq Chunk
    BY DEF Chunk
  <2> HIDE DEF chunks
  <2>2. QED
    BY <1>3, <2>1 DEF Range
<1>5. chunks = [i \in 1..n |-> chunks[i]]
  BY <1>2 DEF ChunksOf
<1>6. QED
  <2> HIDE DEF chunks
  <2>1. chunks \in Seq(Chunk)
    BY <1>3, <1>4, <1>5, IsASeq
  <2>2. QED
    BY <2>1 DEF chunks

LEMMA FileOfChunk ==
  /\ \A c \in Chunk : c.file \in File
  /\ \A s \in Seq(Chunk) : FilesOf(s) \subseteq File
<1>1. \A c \in Chunk : c.file \in File
  <2>1. ASSUME NEW f \in File, NEW v \in DOMAIN Text, NEW c \in Range(ChunksOf(f, v))
        PROVE  c.file \in File
    <3>1. \A i \in DOMAIN Windows[v] : ChunksOf(f, v)[i].file = f
      BY DEF ChunksOf
    <3>2. DOMAIN ChunksOf(f, v) = DOMAIN Windows[v]
      BY DEF ChunksOf
    <3>3. QED
      BY <3>1, <3>2 DEF Range
  <2>2. QED
    BY <2>1 DEF Chunk
<1>2. \A s \in Seq(Chunk) : FilesOf(s) \subseteq File
  BY <1>1 DEF FilesOf
<1>3. QED
  BY <1>1, <1>2

LEMMA WorkerGoesOn ==
  ASSUME NEW s \in WorkerState, NEW pc \in {"run", "drain", "end"}, NEW c \in Seq(Chunk)
  PROVE  /\ [pc |-> pc, buf |-> <<>>, rest |-> <<>>] \in WorkerState
         /\ Bounded([pc |-> pc, buf |-> <<>>, rest |-> <<>>])
         /\ [s EXCEPT !.rest = c] \in WorkerState /\ [s EXCEPT !.rest = c].buf = s.buf
         /\ [s EXCEPT !.pc = pc] \in WorkerState /\ [s EXCEPT !.pc = pc].buf = s.buf
         /\ [s EXCEPT !.buf = <<>>, !.pc = pc] \in WorkerState
         /\ Bounded([s EXCEPT !.buf = <<>>, !.pc = pc])
<1>1. <<>> \in Seq(Chunk) /\ Len(<<>>) <= BatchSize
  BY IngestAssumption
<1>2. QED
  BY <1>1 DEF WorkerState, Bounded

LEMMA WorkerKeeps ==
  ASSUME IngestInv, NEW w \in Worker, NEW s \in WorkerState, Bounded(s), WorkerIs(w, s)
  PROVE  worker' \in [Worker -> WorkerState] /\ \A v \in Worker : Bounded(worker'[v])
BY DEF WorkerIs, IngestInv

\* The parts of the invariant, for a step that leaves the texts alone.
LEMMA IngestKept ==
  ASSUME /\ version' \in [File -> DOMAIN Text] /\ events' \subseteq File
         /\ pending' \in [File -> {"no", "fresh", "quiet"}] /\ pipe' \in {"idle", "open", "closed"}
         /\ toRead' \subseteq File /\ missed' \subseteq File
         /\ toSend' \subseteq Seq(Chunk) /\ channel' \in Seq(Seq(Chunk))
         /\ Len(channel') <= 2 * Cardinality(Worker)
         /\ worker' \in [Worker -> WorkerState] /\ \A w \in Worker : Bounded(worker'[w])
  PROVE  IngestInv'
<1>1. \A w \in Worker : worker'[w].pc \in {"run", "drain", "end"} /\ Len(worker'[w].buf) <= BatchSize
  BY DEF WorkerState, Bounded
<1>2. IngestTypeOK'
  BY <1>1 DEF IngestTypeOK
<1>3. QED
  BY <1>2 DEF IngestInv

LEMMA FlushKeeps ==
  ASSUME IngestInv, NEW w \in Worker, NEW next \in {"run", "end"}, Flush(w, next)
  PROVE  /\ worker' \in [Worker -> WorkerState] /\ \A v \in Worker : Bounded(worker'[v])
         /\ missed' \subseteq File
<1>1. worker[w] \in WorkerState /\ missed \subseteq File
  BY DEF IngestInv, IngestTypeOK
<1>2. FilesOf(worker[w].buf) \subseteq File /\ FilesOf(worker[w].rest) \subseteq File
  BY <1>1, FileOfChunk DEF WorkerState
<1>3. missed' \subseteq File
  BY <1>1, <1>2 DEF Flush
<1>4. <<>> \in Seq(Chunk)
  OBVIOUS
<1>5. /\ [worker[w] EXCEPT !.buf = <<>>, !.pc = next] \in WorkerState
      /\ Bounded([worker[w] EXCEPT !.buf = <<>>, !.pc = next])
  BY <1>1, <1>4, WorkerGoesOn
<1>6. \A pc \in {"drain", "end"} : /\ [pc |-> pc, buf |-> <<>>, rest |-> <<>>] \in WorkerState
                                   /\ Bounded([pc |-> pc, buf |-> <<>>, rest |-> <<>>])
  BY <1>1, <1>4, WorkerGoesOn
<1>7. (IF next = "run" THEN "drain" ELSE "end") \in {"drain", "end"}
  OBVIOUS
<1>8. QED
  BY <1>3, <1>5, <1>6, <1>7, WorkerKeeps DEF Flush

LEMMA IngestNext == IngestInv /\ [Next]_vars => IngestInv'
<1> SUFFICES ASSUME IngestInv, [Next]_vars
             PROVE  IngestInv'
  OBVIOUS
<1>0. /\ version \in [File -> DOMAIN Text] /\ events \subseteq File
      /\ pending \in [File -> {"no", "fresh", "quiet"}] /\ pipe \in {"idle", "open", "closed"}
      /\ toRead \subseteq File /\ missed \subseteq File
      /\ toSend \subseteq Seq(Chunk) /\ channel \in Seq(Seq(Chunk))
      /\ Len(channel) <= 2 * Cardinality(Worker)
      /\ worker \in [Worker -> WorkerState] /\ \A w \in Worker : Bounded(worker[w])
  BY DEF IngestInv, IngestTypeOK
<1>a. <<>> \in Seq(Chunk) /\ DOMAIN Text = 1..Len(Text) /\ Len(Text) \in Nat /\ Cardinality(Worker) \in Nat
  BY IngestAssumption, FS_CardinalityType
<1>1. ASSUME NEW f \in File, ChangeFile(f)
      PROVE  IngestInv'
  <2>1. version[f] + 1 \in DOMAIN Text
    BY <1>0, <1>a, <1>1 DEF ChangeFile
  <2>2. version' \in [File -> DOMAIN Text] /\ events' \subseteq File
    BY <1>0, <1>1, <2>1 DEF ChangeFile
  <2>3. QED
    BY <1>0, <1>1, <2>2, IngestKept DEF ChangeFile
<1>2. ASSUME NEW f \in File, HandleEvent(f)
      PROVE  IngestInv'
  BY <1>0, <1>2, IngestKept DEF HandleEvent
<1>3. ASSUME NEW f \in File, Quieten(f)
      PROVE  IngestInv'
  BY <1>0, <1>3, IngestKept DEF Quieten
<1>4. CASE FlushPending
  <2>1. pending' \in [File -> {"no", "fresh", "quiet"}] /\ pipe' = "open" /\ toRead' \subseteq File
    BY <1>0, <1>4 DEF FlushPending
  <2>2. [pc |-> "run", buf |-> <<>>, rest |-> <<>>] \in WorkerState
    BY <1>a DEF WorkerState
  <2>3. Bounded([pc |-> "run", buf |-> <<>>, rest |-> <<>>])
    BY IngestAssumption DEF Bounded
  <2>4. worker' = [w \in Worker |-> [pc |-> "run", buf |-> <<>>, rest |-> <<>>]]
    BY <1>4 DEF FlushPending
  <2>5. worker' \in [Worker -> WorkerState] /\ \A w \in Worker : Bounded(worker'[w])
    BY <2>2, <2>3, <2>4
  <2>6. QED
    BY <1>0, <1>4, <2>1, <2>5, IngestKept DEF FlushPending
<1>5. ASSUME NEW f \in File, ReadFile(f)
      PROVE  IngestInv'
  <2>1. ChunksOf(f, version[f]) \in Seq(Chunk)
    BY <1>0, ChunksOfAFile
  <2>2. toSend' \subseteq Seq(Chunk) /\ toRead' \subseteq File /\ missed' \subseteq File
    BY <1>0, <1>5, <2>1 DEF ReadFile
  <2>3. QED
    BY <1>0, <1>5, <2>2, IngestKept DEF ReadFile
<1>6. CASE SendChunks
  <2>1. PICK c \in toSend : channel' = Append(channel, c) /\ toSend' = toSend \ {c}
    BY <1>6 DEF SendChunks
  <2>2. Len(channel) < 2 * Cardinality(Worker)
    BY <1>6 DEF SendChunks
  <2>3. channel' \in Seq(Seq(Chunk)) /\ Len(channel') = Len(channel) + 1 /\ Len(channel) \in Nat
    BY <1>0, <2>1
  <2>4. Len(channel') <= 2 * Cardinality(Worker)
    BY <1>a, <2>2, <2>3
  <2>5. QED
    BY <1>0, <1>6, <2>1, <2>3, <2>4, IngestKept DEF SendChunks
<1>7. CASE CloseChannel
  BY <1>0, <1>7, IngestKept DEF CloseChannel
<1>8. CASE EndIngest
  BY <1>0, <1>8, IngestKept DEF EndIngest
<1>9. ASSUME NEW w \in Worker, Receive(w)
      PROVE  IngestInv'
  <2>1. channel # <<>> /\ channel' = Tail(channel)
    BY <1>9 DEF Receive
  <2>2. Head(channel) \in Seq(Chunk) /\ channel' \in Seq(Seq(Chunk)) /\ Len(channel') = Len(channel) - 1
    BY <1>0, <2>1
  <2>3. Len(channel') <= 2 * Cardinality(Worker)
    <3>1. Len(channel) \in Nat
      BY <1>0
    <3>2. QED
      BY <1>0, <1>a, <2>2, <3>1
  <2>4. CASE missed' = missed \cup FilesOf(Head(channel)) /\ UNCHANGED worker
    <3>1. missed' \subseteq File
      BY <1>0, <2>2, <2>4, FileOfChunk
    <3>2. QED
      BY <1>0, <1>9, <2>2, <2>3, <2>4, <3>1, IngestKept DEF Receive
  <2>5. CASE WorkerIs(w, [worker[w] EXCEPT !.rest = Head(channel)]) /\ UNCHANGED missed
    <3> DEFINE s == [worker[w] EXCEPT !.rest = Head(channel)]
    <3>1. s \in WorkerState /\ s.buf = worker[w].buf
      BY <1>0, <2>2, WorkerGoesOn
    <3>2. Bounded(s)
      BY <1>0, <3>1 DEF Bounded
    <3>3. worker' \in [Worker -> WorkerState] /\ \A v \in Worker : Bounded(worker'[v])
      BY <2>5, <3>1, <3>2, WorkerKeeps
    <3>4. QED
      BY <1>0, <1>9, <2>2, <2>3, <2>5, <3>3, IngestKept DEF Receive
  <2>6. QED
    BY <1>9, <2>4, <2>5 DEF Receive
<1>10. ASSUME NEW w \in Worker, FillBuffer(w)
       PROVE  IngestInv'
  <2> DEFINE buf == worker[w].buf
             rest == worker[w].rest
             room == BatchSize - Len(buf)
             n == Min({room, Len(rest)})
             s == [worker[w] EXCEPT !.buf = @ \o SubSeq(worker[w].rest, 1, n),
                                    !.rest = SubSeq(@, n + 1, Len(@))]
  <2>1. WorkerIs(w, s) /\ n > 0
    BY <1>10 DEF FillBuffer
  <2>2. buf \in Seq(Chunk) /\ rest \in Seq(Chunk) /\ worker[w] \in WorkerState
    BY <1>0 DEF WorkerState
  <2>3. Len(buf) <= BatchSize /\ BatchSize \in Nat
    BY <1>0, IngestAssumption DEF Bounded
  <2>4. n \in {room, Len(rest)} /\ n <= room /\ n <= Len(rest)
    <3>1. room \in Nat /\ Len(rest) \in Nat
      BY <2>2, <2>3
    <3> HIDE DEF room
    <3>2. QED
      BY <3>1, LeastOf
  <2>5. n \in Nat /\ n <= Len(rest) /\ Len(buf) + n <= BatchSize
    <3>1. Len(buf) \in Nat /\ Len(rest) \in Nat
      BY <2>2
    <3> HIDE DEF n, buf, rest
    <3>2. QED
      BY <2>3, <2>4, <3>1
  <2> HIDE DEF n
  <2>6. SubSeq(rest, 1, n) \in Seq(Chunk) /\ SubSeq(rest, n + 1, Len(rest)) \in Seq(Chunk)
    BY <2>2, <2>5
  <2>7. Len(SubSeq(rest, 1, n)) = n
    BY <2>2, <2>5, SubSeqProperties
  <2>8. buf \o SubSeq(rest, 1, n) \in Seq(Chunk) /\ Len(buf \o SubSeq(rest, 1, n)) = Len(buf) + n
    BY <2>2, <2>6, <2>7
  <2>9. s \in WorkerState /\ s.buf = buf \o SubSeq(rest, 1, n)
    BY <2>2, <2>6, <2>8 DEF WorkerState
  <2>10. Bounded(s)
    BY <2>5, <2>8, <2>9 DEF Bounded
  <2> HIDE DEF s
  <2>11. worker' \in [Worker -> WorkerState] /\ \A v \in Worker : Bounded(worker'[v])
    BY <2>1, <2>9, <2>10, WorkerKeeps
  <2>12. QED
    BY <1>0, <1>10, <2>11, IngestKept DEF FillBuffer
<1>11. ASSUME NEW w \in Worker, FlushFull(w)
       PROVE  IngestInv'
  <2>1. Flush(w, "run")
    BY <1>11 DEF FlushFull
  <2>2. QED
    BY <1>0, <1>11, <2>1, FlushKeeps, IngestKept DEF FlushFull
<1>12. ASSUME NEW w \in Worker, FlushRest(w)
       PROVE  IngestInv'
  <2>1. CASE Flush(w, "end")
    BY <1>0, <1>12, <2>1, FlushKeeps, IngestKept DEF FlushRest
  <2>2. CASE WorkerIs(w, [worker[w] EXCEPT !.pc = "end"]) /\ UNCHANGED <<rows, missed>>
    <3> DEFINE s == [worker[w] EXCEPT !.pc = "end"]
    <3>1. s \in WorkerState /\ s.buf = worker[w].buf
      BY <1>0, <1>a, WorkerGoesOn
    <3>2. Bounded(s)
      BY <1>0, <3>1 DEF Bounded
    <3>3. worker' \in [Worker -> WorkerState] /\ \A v \in Worker : Bounded(worker'[v])
      BY <2>2, <3>1, <3>2, WorkerKeeps
    <3>4. QED
      BY <1>0, <1>12, <2>2, <3>3, IngestKept DEF FlushRest
  <2>3. QED
    BY <1>12, <2>1, <2>2 DEF FlushRest
<1>13. CASE UNCHANGED ingest
  BY <1>0, <1>13, IngestKept DEF ingest
<1>14. CASE StepInConfig \/ StepInPool \/ StepInTree \/ StepInQuality \/ StepInCompletion
  BY <1>13, <1>14 DEF StepInConfig, StepInPool, StepInTree, StepInQuality, StepInCompletion
<1>15. CASE StepInIngest
  BY <1>1, <1>2, <1>3, <1>4, <1>5, <1>6, <1>7, <1>8, <1>9, <1>10, <1>11, <1>12, <1>15
     DEF StepInIngest, IngestStep, IngestRuns
<1>16. QED
  BY <1>13, <1>14, <1>15 DEF Next, vars

LEMMA IngestInvariant == Spec => []IngestInv
<1>1. Init => IngestInv
  <2> SUFFICES ASSUME IngestInit
               PROVE  IngestInv
    BY DEF Init
  <2>1. <<>> \in Seq(Chunk) /\ <<>> \in Seq(Seq(Chunk)) /\ Len(<<>>) = 0
    OBVIOUS
  <2>2. 1 \in DOMAIN Text /\ Cardinality(Worker) \in Nat /\ BatchSize \in Nat
    BY IngestAssumption, FS_CardinalityType
  <2>3. worker \in [Worker -> WorkerState] /\ \A w \in Worker : worker[w].buf = <<>>
    BY <2>1 DEF IngestInit, WorkerState
  <2>4. \A w \in Worker : Bounded(worker[w]) /\ worker[w].pc \in {"run", "drain", "end"}
    BY <2>1, <2>2, <2>3 DEF Bounded, WorkerState
  <2>5. Len(channel) <= 2 * Cardinality(Worker)
    BY <2>1, <2>2 DEF IngestInit
  <2>6. QED
    BY <2>1, <2>2, <2>3, <2>4, <2>5 DEF IngestInit, IngestInv, IngestTypeOK, Bounded
<1>2. QED
  BY <1>1, IngestNext, PTL DEF Spec

-----------------------------------------------------------------------------
(* One completion.                                                         *)

Lines == [is : Kind, block : Block, text : STRING]
Texts == STRING \cup {"", "end_turn", "stream_closed"}
Events == {NoEvent} \cup {Event(is, tool, text) : is \in Kind \cup {"done"}, tool \in Int, text \in Texts}
Steps == {"begin", "parsing", "waiting", "returned"}

ProgramOK ==
  /\ source \in {"none", "writing", "ended", "failed", "cut"} /\ unwritten \in Seq(Lines)
  /\ heldOpen \in BOOLEAN
StdoutOK == stdout \in Seq(Lines) /\ Len(stdout) <= StdoutCap
ParserOK ==
  /\ said \in Seq(Lines) /\ tools \in Nat /\ tools <= Len(said)
  /\ block \in [Block -> 0..tools \cup {NoTool}]
  /\ step \in Steps /\ sending \in Events /\ runErr \in BOOLEAN
FlowOK == flow \in Seq(Events) /\ Len(flow) <= FlowCap
ClientOK == reader \in {"hearing", "joining", "ended"} /\ left \in BOOLEAN

CompletionInv ==
  /\ adapter \in {"claude", "gemini", "anthropic"} /\ streams \in BOOLEAN /\ unheard \in BOOLEAN
  /\ ProgramOK /\ StdoutOK /\ ParserOK /\ FlowOK /\ ClientOK

LEMMA CompletionTyped == CompletionInv => CompletionTypeOK
BY DEF CompletionInv, CompletionTypeOK, ProgramOK, StdoutOK, ParserOK, FlowOK, ClientOK, Steps

LEMMA EventsAre ==
  /\ NoEvent \in Events
  /\ \A is \in Kind \cup {"done"}, tool \in Int, text \in Texts : Event(is, tool, text) \in Events
  /\ {"text", "start", "done", "error"} \subseteq Kind \cup {"done"}
  /\ {"", "end_turn", "stream_closed"} \subseteq Texts
  /\ NoTool \in Int
<1>1. NoTool \in Int
  BY DEF NoTool
<1>2. NoEvent \in Events /\ \A is \in Kind \cup {"done"}, tool \in Int, text \in Texts : Event(is, tool, text) \in Events
  BY DEF Events
<1>3. QED
  BY <1>1, <1>2 DEF Texts, Kind

\* A line is parsed: at most one more tool is begun, and one event is to be sent.
Parsed(b, n) ==
  /\ sending' \in Events /\ step' \in Steps /\ runErr' \in BOOLEAN
  /\ \/ block' = b /\ tools' = n
     \/ \E x \in Block : block' = [b EXCEPT ![x] = NoTool] /\ tools' = n
     \/ \E x \in Block : block' = [b EXCEPT ![x] = n] /\ tools' = n + 1

LEMMA ClaudeParses ==
  ASSUME ParserOK, NEW line \in Lines, ParseClaude(line)
  PROVE  Parsed(block, tools)
<1>0. line.block \in Block /\ line.text \in Texts /\ line.is \in Kind
  BY DEF Lines, Texts
<1>1. line.block \in Block /\ line.is \in Kind /\ tools \in Int /\ block[line.block] \in Int
  BY <1>0 DEF ParserOK, NoTool
<1>e. /\ Event("start", tools, "") \in Events /\ NoEvent \in Events
      /\ Event("text", NoTool, line.text) \in Events /\ Event("done", NoTool, "end_turn") \in Events
      /\ Event(line.is, block[line.block], line.text) \in Events
  BY <1>0, <1>1, EventsAre
<1>2. step \in Steps /\ runErr \in BOOLEAN /\ {"waiting", "returned"} \subseteq Steps
  BY DEF ParserOK, Steps
<1>3. CASE line.is = "start"
  <2>1. GoOn(Event("start", tools, "")) /\ block' = [block EXCEPT ![line.block] = tools] /\ tools' = tools + 1
    BY <1>3 DEF ParseClaude, StartTool, StartToolAs
  <2>2. QED
    BY <1>1, <1>2, <1>e, <2>1 DEF GoOn, Parsed
<1>4. CASE line.is \in {"args", "stop"}
  <2>1. InTool(line)
    BY <1>4 DEF ParseClaude
  <2>3. sending' \in Events /\ UNCHANGED <<step, runErr, tools>>
    BY <1>e, <2>1 DEF InTool, GoOn
  <2>4. block' = block \/ block' = [block EXCEPT ![line.block] = NoTool]
    BY <2>1 DEF InTool
  <2>5. QED
    BY <1>1, <1>2, <2>3, <2>4 DEF Parsed
<1>5. CASE line.is \notin {"start", "args", "stop"}
  <2>1. /\ UNCHANGED <<block, tools>>
        /\ CASE line.is = "text" -> GoOn(Event("text", NoTool, line.text))
             [] line.is = "result" -> Finish(Event("done", NoTool, "end_turn"), "waiting")
             [] line.is = "huge" -> Fail("waiting")
             [] OTHER -> GoOn(NoEvent)
    BY <1>5 DEF ParseClaude
  <2>2. \/ GoOn(Event("text", NoTool, line.text))
        \/ Finish(Event("done", NoTool, "end_turn"), "waiting")
        \/ Fail("waiting") \/ GoOn(NoEvent)
    BY <2>1
  <2>3. sending \in Events
    BY DEF ParserOK
  <2>4. sending' \in Events /\ step' \in Steps /\ runErr' \in BOOLEAN
    BY <1>2, <1>e, <2>2, <2>3 DEF GoOn, Finish, Fail
  <2>5. QED
    BY <2>1, <2>4 DEF Parsed
<1>6. QED
  BY <1>3, <1>4, <1>5

LEMMA OthersParse ==
  ASSUME ParserOK, NEW line \in Lines, ParseGemini(line) \/ ParseAnthropic(line)
  PROVE  Parsed(block, tools)
<1>1. line.text \in Texts /\ line.is \in Kind
  BY DEF Lines, Texts
<1>2. /\ step \in Steps /\ runErr \in BOOLEAN /\ {"waiting", "returned"} \subseteq Steps
      /\ sending \in Events
  BY DEF ParserOK, Steps
<1>e. /\ \A is \in Kind : Event(is, NoTool, line.text) \in Events
      /\ Event("text", NoTool, line.text) \in Events /\ Event(line.is, NoTool, line.text) \in Events
      /\ Event("done", NoTool, "end_turn") \in Events /\ NoEvent \in Events
  BY <1>1, EventsAre
<1>3. UNCHANGED <<block, tools>>
  BY DEF ParseGemini, ParseAnthropic
<1>4. \/ GoOn(Event("text", NoTool, line.text)) \/ GoOn(Event(line.is, NoTool, line.text))
      \/ Finish(Event("done", NoTool, "end_turn"), "returned")
      \/ Fail("returned") \/ GoOn(NoEvent)
  BY DEF ParseGemini, ParseAnthropic
<1>5. sending' \in Events /\ step' \in Steps /\ runErr' \in BOOLEAN
  BY <1>2, <1>e, <1>4 DEF GoOn, Finish, Fail
<1>6. QED
  BY <1>3, <1>5 DEF Parsed

LEMMA ParsedIsOK ==
  ASSUME ParserOK, NEW line \in Lines, Parsed(block, tools), said' = Append(said, line)
  PROVE  ParserOK'
<1>1. said' \in Seq(Lines) /\ Len(said') = Len(said) + 1 /\ Len(said) \in Nat
  BY DEF ParserOK
<1>2. tools' \in Nat /\ tools' <= Len(said') /\ tools <= tools'
  BY <1>1 DEF ParserOK, Parsed
<1>3. block' \in [Block -> 0..tools' \cup {NoTool}]
  <2>1. \A m, n \in Nat : m <= n => 0..m \subseteq 0..n /\ m \in 0..n
    OBVIOUS
  <2>2. 0..tools \subseteq 0..tools' /\ tools \in 0..tools'
    BY <1>2, <2>1 DEF ParserOK
  <2>3. block \in [Block -> 0..tools' \cup {NoTool}]
    BY <2>2 DEF ParserOK
  <2>4. QED
    BY <2>2, <2>3 DEF Parsed
<1>4. QED
  BY <1>1, <1>2, <1>3 DEF ParserOK, Parsed

LEMMA CompletionNext == CompletionInv /\ [Next]_vars => CompletionInv'
<1> SUFFICES ASSUME CompletionInv, [Next]_vars
             PROVE  CompletionInv'
  OBVIOUS
<1>e. /\ Event("error", NoTool, "") \in Events /\ Event("done", NoTool, "end_turn") \in Events
      /\ \A text \in {"", "stream_closed"} : Event("done", NoTool, text) \in Events
      /\ NoEvent \in Events
  BY EventsAre
<1>0. /\ adapter \in {"claude", "gemini", "anthropic"} /\ streams \in BOOLEAN /\ unheard \in BOOLEAN
      /\ ProgramOK /\ StdoutOK /\ ParserOK /\ FlowOK /\ ClientOK
  BY DEF CompletionInv
<1>a. StdoutCap \in Nat /\ FlowCap \in Nat /\ Len(<<>>) = 0 /\ <<>> \in Seq(Lines)
  BY CompletionAssumption
<1>b. /\ UNCHANGED program => ProgramOK'
      /\ UNCHANGED stdout => StdoutOK'
      /\ UNCHANGED <<said, block, tools, step, sending, runErr>> => ParserOK'
      /\ UNCHANGED flow => FlowOK'
      /\ UNCHANGED <<left, reader>> => ClientOK'
  BY <1>0 DEF program, ProgramOK, StdoutOK, ParserOK, FlowOK, ClientOK
<1>d. heldOpen' \in {FALSE, IsCLI} => heldOpen' \in BOOLEAN
  <2>1. IsCLI \in BOOLEAN
    BY DEF IsCLI
  <2>2. QED
    BY <2>1, Zenon
<1>c. ASSUME /\ adapter' \in {"claude", "gemini", "anthropic"} /\ streams' \in BOOLEAN /\ unheard' \in BOOLEAN
             /\ ProgramOK' /\ StdoutOK' /\ ParserOK' /\ FlowOK' /\ ClientOK'
      PROVE  CompletionInv'
  BY <1>c DEF CompletionInv
<1>1. CASE WriteLine
  <2>1. Head(unwritten) \in Lines /\ unwritten' \in Seq(Lines)
    BY <1>0, <1>1 DEF WriteLine, ProgramOK
  <2>2. ProgramOK'
    BY <1>0, <1>1, <2>1 DEF WriteLine, ProgramOK
  <2>3. Len(stdout) < StdoutCap /\ Len(stdout) \in Nat
    BY <1>0, <1>1 DEF WriteLine, StdoutOK
  <2>4. stdout' \in Seq(Lines) /\ Len(stdout') = Len(stdout) + 1
    BY <1>0, <1>1, <2>1 DEF WriteLine, StdoutOK
  <2>5. StdoutOK'
    BY <1>a, <2>3, <2>4 DEF StdoutOK
  <2>6. QED
    BY <1>0, <1>b, <1>c, <1>1, <2>2, <2>5 DEF WriteLine, ProgramOnly, client
<1>2. CASE EndWriting
  <2>1. ProgramOK'
    BY <1>0, <1>d, <1>2 DEF EndWriting, ProgramOK
  <2>2. QED
    BY <1>0, <1>b, <1>c, <1>2, <2>1 DEF EndWriting, ProgramOnly, client
<1>3. CASE Cut
  <2>1. ProgramOK'
    BY <1>0, <1>d, <1>3 DEF Cut, ProgramOK
  <2>2. stdout' = stdout \/ stdout' = <<>>
    BY <1>3 DEF Cut
  <2>3. StdoutOK'
    <3>1. CASE stdout' = stdout
      BY <1>b, <3>1
    <3>2. CASE stdout' = <<>>
      <4>1. 0 <= StdoutCap
        BY <1>a
      <4>2. QED
        BY <1>a, <3>2, <4>1 DEF StdoutOK
    <3>3. QED
      BY <2>2, <3>1, <3>2
  <2>4. QED
    BY <1>0, <1>b, <1>c, <1>3, <2>1, <2>3 DEF Cut, ProgramOnly, client
<1>3a. CASE LetGo
  <2>1. ProgramOK'
    BY <1>0, <1>3a DEF LetGo, ProgramOK
  <2>2. QED
    BY <1>0, <1>b, <1>c, <1>3a, <2>1 DEF LetGo, ProgramOnly, client
<1>4. CASE Begin
  <2>1. ProgramOK'
    BY <1>0, <1>4 DEF Begin, ProgramOK
  <2>2. step' \in Steps /\ runErr' \in BOOLEAN
    BY <1>0, <1>4 DEF Begin, ParserOK, Steps
  <2>3. said' = said /\ block' = block /\ tools' = tools /\ sending' = sending
    BY <1>4 DEF Begin
  <2>4. ParserOK'
    BY <1>0, <2>2, <2>3 DEF ParserOK
  <2>5. QED
    BY <1>0, <1>b, <1>c, <1>4, <2>1, <2>4 DEF Begin, AdapterOnly, client
<1>5. CASE SendEvent
  <2>1. ParserOK'
    BY <1>0, <1>e, <1>5 DEF SendEvent, ParserOK
  <2>2. Len(flow) < FlowCap /\ Len(flow) \in Nat /\ sending \in Events
    BY <1>0, <1>5 DEF SendEvent, FlowOK, ParserOK
  <2>3. flow' \in Seq(Events) /\ Len(flow') = Len(flow) + 1
    BY <1>0, <1>5, <2>2 DEF SendEvent, FlowOK
  <2>4. FlowOK'
    BY <1>a, <2>2, <2>3 DEF FlowOK
  <2>5. QED
    BY <1>0, <1>b, <1>c, <1>5, <2>1, <2>4 DEF SendEvent, AdapterOnly, client
<1>6. CASE ReadLine
  <2>1. stdout # <<>> /\ stdout' = Tail(stdout) /\ said' = Append(said, Head(stdout))
    BY <1>6 DEF ReadLine
  <2>2. Head(stdout) \in Lines /\ stdout' \in Seq(Lines) /\ Len(stdout') = Len(stdout) - 1 /\ Len(stdout) \in Nat
    BY <1>0, <2>1 DEF StdoutOK
  <2>3. StdoutOK'
    BY <1>0, <1>a, <2>2 DEF StdoutOK
  <2>4. ParseClaude(Head(stdout)) \/ ParseGemini(Head(stdout)) \/ ParseAnthropic(Head(stdout))
    BY <1>0, <1>6 DEF ReadLine
  <2>5. Parsed(block, tools)
    BY <1>0, <2>2, <2>4, ClaudeParses, OthersParse
  <2>6. ParserOK'
    BY <1>0, <2>1, <2>2, <2>5, ParsedIsOK
  <2>7. QED
    BY <1>0, <1>b, <1>c, <1>6, <2>3, <2>6 DEF ReadLine, AdapterOnly, client
<1>7. CASE ReadEnd
  <2>1. \/ \E next \in {"waiting", "returned"}, text \in {"", "stream_closed"} :
             Finish(Event("done", NoTool, text), next)
        \/ Finish(NoEvent, "waiting") \/ Fail("returned")
    BY <1>0, <1>7 DEF ReadEnd
  <2>2. sending' \in Events /\ step' \in Steps /\ runErr' \in BOOLEAN
    BY <1>0, <1>e, <2>1 DEF Finish, Fail, ParserOK, Steps
  <2>3. ParserOK'
    BY <1>0, <1>7, <2>2 DEF ReadEnd, ParserOK
  <2>4. QED
    BY <1>0, <1>b, <1>c, <1>7, <2>3 DEF ReadEnd, AdapterOnly, client
<1>8. CASE Reap
  <2>1. sending' \in Events /\ step' \in Steps
    BY <1>8, <1>e DEF Reap, Steps
  <2>2. ParserOK'
    BY <1>0, <1>8, <2>1 DEF Reap, ParserOK
  <2>3. unheard' \in BOOLEAN
    BY <1>8 DEF Reap
  <2>4. flow' = flow \/ (Len(flow) < FlowCap /\ flow' = Append(flow, Event("error", NoTool, "")))
    BY <1>8 DEF Reap
  <2>5. FlowOK'
    <3>1. CASE flow' = flow
      BY <1>b, <3>1
    <3>2. CASE Len(flow) < FlowCap /\ flow' = Append(flow, Event("error", NoTool, ""))
      <4>1. \A e \in Events : /\ Append(flow, e) \in Seq(Events) /\ Len(flow) \in Nat
                              /\ Len(Append(flow, e)) = Len(flow) + 1
        BY <1>0 DEF FlowOK
      <4>2. flow' \in Seq(Events) /\ Len(flow') = Len(flow) + 1 /\ Len(flow) \in Nat
        BY <1>e, <3>2, <4>1
      <4>3. Len(flow) < FlowCap /\ FlowCap \in Nat
        BY <1>a, <3>2
      <4>4. Len(flow') <= FlowCap
        BY <4>2, <4>3
      <4>5. QED
        BY <4>2, <4>4 DEF FlowOK
    <3>3. QED
      BY <2>4, <3>1, <3>2
  <2>6. QED
    BY <1>0, <1>b, <1>c, <1>8, <2>2, <2>3, <2>5 DEF Reap, AdapterOnly, client
<1>9. CASE Hear
  <2>1. flow # <<>> /\ flow' = Tail(flow)
    BY <1>9 DEF Hear
  <2>2. flow' \in Seq(Events) /\ Len(flow') = Len(flow) - 1 /\ Len(flow) \in Nat
    BY <1>0, <2>1 DEF FlowOK
  <2>3. FlowOK'
    BY <1>0, <1>a, <2>2 DEF FlowOK
  <2>4. QED
    BY <1>0, <1>b, <1>c, <1>9, <2>3 DEF Hear, HandlerOnly
<1>10. CASE StopHearing \/ Join \/ ClientLeaves
  <2>1. ClientOK'
    BY <1>0, <1>10 DEF StopHearing, Join, ClientLeaves, ClientOK
  <2>2. QED
    BY <1>0, <1>b, <1>c, <1>10, <2>1 DEF StopHearing, Join, ClientLeaves, HandlerOnly
<1>11. CASE UNCHANGED completion
  BY <1>0, <1>b, <1>c, <1>11 DEF completion, client, program
<1>12. CASE StepInConfig \/ StepInPool \/ StepInTree \/ StepInQuality \/ StepInIngest
  BY <1>11, <1>12 DEF StepInConfig, StepInPool, StepInTree, StepInQuality, StepInIngest
<1>13. CASE StepInCompletion
  BY <1>1, <1>2, <1>3, <1>3a, <1>4, <1>5, <1>6, <1>7, <1>8, <1>9, <1>10, <1>13
     DEF StepInCompletion, CompletionStep, AdapterStep, HandlerStep
<1>14. QED
  BY <1>11, <1>12, <1>13 DEF Next, vars

LEMMA CompletionInvariant == Spec => []CompletionInv
<1>1. Init => CompletionInv
  <2> SUFFICES ASSUME CompletionInit
               PROVE  CompletionInv
    BY DEF Init
  <2>1. unwritten \in Seq(Lines)
    BY CompletionAssumption DEF CompletionInit, Lines
  <2>2. <<>> \in Seq(Lines) /\ <<>> \in Seq(Events) /\ Len(<<>>) = 0
    OBVIOUS
  <2>a. 0 <= StdoutCap /\ 0 <= FlowCap
    BY CompletionAssumption
  <2>b. stdout = <<>> /\ flow = <<>> /\ said = <<>>
    BY DEF CompletionInit
  <2>c. StdoutOK /\ FlowOK
    BY <2>2, <2>a, <2>b DEF StdoutOK, FlowOK
  <2>3. ProgramOK /\ ClientOK
    BY <2>1 DEF CompletionInit, ProgramOK, ClientOK
  <2>4. block \in [Block -> 0..tools \cup {NoTool}]
    BY DEF CompletionInit
  <2>5. ParserOK
    <3>1. sending \in Events /\ step \in Steps /\ runErr \in BOOLEAN
      BY EventsAre DEF CompletionInit, Steps
    <3>2. tools \in Nat /\ tools <= Len(said) /\ said \in Seq(Lines)
      BY <2>2, <2>b DEF CompletionInit
    <3>3. QED
      BY <2>4, <3>1, <3>2 DEF ParserOK
  <2>6. QED
    BY <2>c, <2>3, <2>5 DEF CompletionInit, CompletionInv
<1>2. QED
  BY <1>1, CompletionNext, PTL DEF Spec

-----------------------------------------------------------------------------
(* The prefix tree.                                                        *)

Hash == UNION {Range(Chunks(p)) : p \in Prompt}
Path == {Chunks(p) : p \in Prompt \ {<<>>}}
RecordState == [pc : {"none", "full", "walk", "touch"}, path : Path \cup {Root}, depth : Nat, now : Nat,
                adrift : SUBSET Request, extra : SUBSET Nodes]
SweepState == [pc : {"none", "loop", "empty", "stale", "drop"}, at : Nodes \cup {Root}, cutoff : Nat,
               left : Seq(SUBSET Nodes), removed : Nat, late : BOOLEAN, by : SUBSET Request]

Types ==
  /\ time \in 1..LastTime /\ records \in 0..MaxRecords /\ leaked \in Nat
  /\ seen \in [DOMAIN seen -> 1..LastTime] /\ DOMAIN seen \subseteq Nodes /\ IsFiniteSet(DOMAIN seen)
  /\ promised \in [DOMAIN promised -> Nat] /\ DOMAIN promised \subseteq Nodes
  /\ setBack \subseteq Nodes
  /\ record \in [Request -> RecordState] /\ sweep \in SweepState

\* The nodes are a tree.
Closed(s) == \A q \in DOMAIN s : \A i \in 1..Len(q) : SubSeq(q, 1, i) \in DOMAIN s

\* Node n was given the time t, or a later one, unless it was set back.
Reached(s, b, n, t) == n \in DOMAIN s /\ (n \in b \/ s[n] >= t)

\* At time t a record c knows where it is, and that node is in the tree unless the record
\* is adrift; what it has walked through was given its time.
Walks(c, s, b, t) ==
  /\ c.pc = "none" => c = NoRecord
  /\ c.pc # "none" => c.path \in Path /\ c.now \in 1..t
  /\ c.pc = "full" => c.depth = 0 /\ c.adrift = {}
  /\ c.pc = "walk" => c.depth < Len(c.path)
  /\ c.pc = "touch" => c.depth \in 1..Len(c.path)
  /\ c.adrift = {} /\ c.depth > 0 => SubSeq(c.path, 1, c.depth) \in DOMAIN s
  /\ c.adrift = {} => \A i \in 1..(c.depth - IF c.pc = "touch" THEN 1 ELSE 0) :
                        Reached(s, b, SubSeq(c.path, 1, i), c.now)

\* What a sweep w has left to do are nodes of the tree beside its way down.
Beside(at, k, q) ==
  /\ Len(q) = k /\ SubSeq(q, 1, k - 1) = SubSeq(at, 1, k - 1)
  /\ k <= Len(at) => q # SubSeq(at, 1, k)
Left(w, s) == \A k \in 1..Len(w.left) : \A q \in w.left[k] : q \in DOMAIN s /\ Beside(w.at, k, q)
Sweeps(w, s, t) ==
  /\ w.pc = "none" => w = NoSweep
  /\ w.pc # "none" =>
       /\ w.at \in DOMAIN s \cup {Root} /\ (w.pc # "loop" => w.at # Root)
       /\ Len(w.left) = Len(w.at) + (IF w.pc = "loop" THEN 1 ELSE 0)
       /\ Left(w, s)
       /\ w.cutoff = 0 \/ w.cutoff + MaxAge <= t
  /\ w.pc = "drop" /\ ~w.late => s[w.at] < w.cutoff

\* What m promises was reached, and is not long ago.
Promises(m, s, b, t) == \A q \in DOMAIN m :
  /\ m[q] + MaxAge >= t
  /\ \A i \in 1..Len(q) : Reached(s, b, SubSeq(q, 1, i), m[q])

TreeInv ==
  /\ Types /\ Closed(seen)
  /\ \A r \in Request : Walks(record[r], seen, setBack, time)
  /\ \A r \in sweep.by : record[r].pc = "full"
  /\ Sweeps(sweep, seen, time) /\ Promises(promised, seen, setBack, time)
  /\ count = Cardinality(DOMAIN seen) + sweep.removed + leaked

LEMMA PrefixOf ==
  ASSUME NEW S, NEW s \in Seq(S), NEW i \in 0..Len(s)
  PROVE  /\ SubSeq(s, 1, i) \in Seq(S) /\ Len(SubSeq(s, 1, i)) = i
         /\ \A j \in 0..i : SubSeq(SubSeq(s, 1, i), 1, j) = SubSeq(s, 1, j)
         /\ i = Len(s) => SubSeq(s, 1, i) = s
<1>1. SubSeq(s, 1, i) \in Seq(S) /\ Len(SubSeq(s, 1, i)) = i /\ \A j \in 1..i : SubSeq(s, 1, i)[j] = s[j]
  <2>1. Len(s) \in Nat /\ i \in Int /\ 1 \in Int /\ \A j \in 1..i : s[j] \in S
    OBVIOUS
  <2>2. /\ SubSeq(s, 1, i) \in Seq(S)
        /\ Len(SubSeq(s, 1, i)) = IF 1 <= i THEN i - 1 + 1 ELSE 0
        /\ \A j \in 1..(i - 1 + 1) : SubSeq(s, 1, i)[j] = s[1 + j - 1]
    BY <2>1, SubSeqProperties
  <2>3. QED
    BY <2>1, <2>2
<1>2. ASSUME NEW j \in 0..i
      PROVE  SubSeq(SubSeq(s, 1, i), 1, j) = SubSeq(s, 1, j)
  <2>1. CASE j = 0
    BY <2>1, SubSeqEmpty
  <2>2. CASE j # 0
    <3>1. i \in 1..Len(s) /\ 1 \in 1..Len(s) /\ j \in 1..(i - 1 + 1) /\ 1 \in 1..(i - 1 + 1)
      BY <2>2
    <3>2. SubSeq(SubSeq(s, 1, i), 1, j) = SubSeq(s, 1 + 1 - 1, 1 + j - 1)
      BY <3>1, SubSeqOfSubSeq
    <3>3. QED
      BY <3>2
  <2>3. QED
    BY <2>1, <2>2
<1>3. i = Len(s) => SubSeq(s, 1, i) = s
  BY SubSeqFull
<1>4. QED
  BY <1>1, <1>2, <1>3

LEMMA ChunksAre ==
  ASSUME NEW p \in Prompt
  PROVE  /\ Chunks(p) \in Seq(Hash) /\ Len(Chunks(p)) = (Len(p) + ChunkLen - 1) \div ChunkLen
         /\ Len(p) \in Nat /\ p \in Seq(Range(p))
         /\ p # <<>> => Len(Chunks(p)) >= 1
<1>1. p \in Seq(Range(p)) /\ Len(p) \in Nat /\ ChunkLen \in Nat \ {0}
  BY TreeAssumption
<1> DEFINE n == (Len(p) + ChunkLen - 1) \div ChunkLen
<1>2. n \in Nat /\ (Len(p) >= 1 => n >= 1)
  <2>1. \A m \in Nat, c \in Nat \ {0} : m \div c \in Nat /\ (m >= c => m \div c >= 1)
    OBVIOUS
  <2>2. Len(p) + ChunkLen - 1 \in Nat
    BY <1>1
  <2>3. Len(p) >= 1 => Len(p) + ChunkLen - 1 >= ChunkLen
    BY <1>1
  <2>4. QED
    BY <1>1, <2>1, <2>2, <2>3
<1>3. DOMAIN Chunks(p) = 1..n
  BY DEF Chunks
<1> HIDE DEF n
<1>4. Len(Chunks(p)) = n
  BY <1>2, <1>3
<1>5. Range(Chunks(p)) \subseteq Hash
  BY DEF Hash
<1>6. \A i \in 1..n : Chunks(p)[i] \in Hash
  BY <1>3, <1>5 DEF Range
<1>7. Chunks(p) \in Seq(Hash)
  <2>1. Chunks(p) = [i \in 1..n |-> Chunks(p)[i]]
    BY <1>3 DEF Chunks, n
  <2>2. QED
    BY <1>2, <1>6, <2>1, IsASeq
<1>8. p # <<>> => Len(p) >= 1
  BY <1>1
<1>9. QED
  BY <1>1, <1>2, <1>4, <1>7, <1>8 DEF n

LEMMA PathsAre ==
  ASSUME NEW path \in Path
  PROVE  /\ path \in Seq(Hash) /\ Len(path) \in Nat \ {0}
         /\ \A i \in 1..Len(path) : SubSeq(path, 1, i) \in Nodes
<1>1. PICK p \in Prompt : p # <<>> /\ path = Chunks(p)
  BY DEF Path
<1>2. path \in Seq(Hash) /\ Len(path) \in Nat \ {0}
  BY <1>1, ChunksAre
<1>3. \A i \in 1..Len(path) : SubSeq(path, 1, i) \in Nodes
  BY <1>1 DEF Nodes
<1>4. QED
  BY <1>2, <1>3

LEMMA NodesAre ==
  ASSUME NEW q \in Nodes
  PROVE  /\ q \in Seq(Hash) /\ Len(q) \in Nat \ {0} /\ q # Root
         /\ \A i \in 1..Len(q) : SubSeq(q, 1, i) \in Nodes
<1>0. PICK p \in Prompt : \E k \in 1..Len(Chunks(p)) : q = SubSeq(Chunks(p), 1, k)
  BY DEF Nodes
<1>1. PICK i \in 1..Len(Chunks(p)) : q = SubSeq(Chunks(p), 1, i)
  BY <1>0
<1>2. Chunks(p) \in Seq(Hash) /\ i \in 0..Len(Chunks(p)) /\ i \in Nat \ {0}
  BY ChunksAre
<1>3. /\ q \in Seq(Hash) /\ Len(q) = i
      /\ \A j \in 0..i : SubSeq(q, 1, j) = SubSeq(Chunks(p), 1, j)
  BY <1>1, <1>2, PrefixOf
<1>4. \A j \in 1..Len(q) : SubSeq(q, 1, j) \in Nodes
  <2> SUFFICES ASSUME NEW j \in 1..Len(q)
               PROVE  SubSeq(q, 1, j) \in Nodes
    OBVIOUS
  <2>1. j \in 1..Len(Chunks(p)) /\ SubSeq(q, 1, j) = SubSeq(Chunks(p), 1, j)
    BY <1>2, <1>3
  <2>2. QED
    BY <2>1 DEF Nodes
<1>5. QED
  BY <1>2, <1>3, <1>4 DEF Root

\* q is below p if it has what p has, and as much.
LEMMA BelowIs ==
  ASSUME Types, NEW p \in Nodes
  PROVE  /\ \A q : q \in Below(p) <=> q \in DOMAIN seen /\ Len(p) <= Len(q) /\ SubSeq(q, 1, Len(p)) = p
         /\ Below(p) \subseteq DOMAIN seen
<1>1. p \in Seq(Hash)
  BY NodesAre
<1>2. SubSeq(p, 1, Len(p)) = p
  BY <1>1, SubSeqFull
<1>3. QED
  BY <1>2 DEF Below, IsPrefix

LEMMA ChildrenAre ==
  ASSUME Types, NEW p \in Nodes \cup {Root}, NEW q \in Children(p)
  PROVE  /\ q \in DOMAIN seen /\ q \in Nodes /\ Len(q) = Len(p) + 1 /\ SubSeq(q, 1, Len(p)) = p
<1>1. q \in DOMAIN seen /\ Len(q) = Len(p) + 1 /\ Front(q) = p
  BY DEF Children
<1>2. q \in Nodes
  BY <1>1 DEF Types
<1>3. Len(p) \in Nat
  BY NodesAre DEF Root
<1>4. Len(q) - 1 = Len(p)
  BY <1>1, <1>3
<1>5. SubSeq(q, 1, Len(p)) = p
  BY <1>1, <1>4 DEF Front
<1>6. QED
  BY <1>1, <1>2, <1>5

\* Nothing of the tree s, with what was set back b, is lost in s2 and b2.
Better(s, b, s2, b2) ==
  \A n \in DOMAIN s : n \in DOMAIN s2 /\ \A x \in Nat : Reached(s, b, n, x) => Reached(s2, b2, n, x)

LEMMA StaysWalking ==
  ASSUME NEW c \in RecordState, NEW s, NEW b, NEW s2, NEW b2, NEW t \in Nat, NEW t2 \in Nat,
         Walks(c, s, b, t), Better(s, b, s2, b2), t <= t2
  PROVE  Walks(c, s2, b2, t2)
<1>1. c.depth \in Nat /\ c.now \in Nat
  BY DEF RecordState
<1>2. c.now \in 1..t => c.now \in 1..t2
  BY <1>1
<1>3. c.adrift = {} /\ c.depth > 0 => SubSeq(c.path, 1, c.depth) \in DOMAIN s2
  BY DEF Walks, Better
<1>4. \A i : Reached(s, b, SubSeq(c.path, 1, i), c.now) => Reached(s2, b2, SubSeq(c.path, 1, i), c.now)
  <2> SUFFICES ASSUME NEW i, Reached(s, b, SubSeq(c.path, 1, i), c.now)
               PROVE  Reached(s2, b2, SubSeq(c.path, 1, i), c.now)
    OBVIOUS
  <2>1. SubSeq(c.path, 1, i) \in DOMAIN s
    BY DEF Reached
  <2>2. QED
    BY <1>1, <2>1 DEF Better
<1>5. QED
  BY <1>2, <1>3, <1>4 DEF Walks

LEMMA StaysPromised ==
  ASSUME NEW m, NEW s, NEW b, NEW s2, NEW b2, NEW t, m \in [DOMAIN m -> Nat],
         Promises(m, s, b, t), Better(s, b, s2, b2)
  PROVE  Promises(m, s2, b2, t)
<1> SUFFICES ASSUME NEW q \in DOMAIN m, NEW i \in 1..Len(q)
             PROVE  Reached(s2, b2, SubSeq(q, 1, i), m[q])
  BY DEF Promises
<1>1. Reached(s, b, SubSeq(q, 1, i), m[q]) /\ m[q] \in Nat
  BY DEF Promises
<1>2. SubSeq(q, 1, i) \in DOMAIN s
  BY <1>1 DEF Reached
<1>3. QED
  BY <1>1, <1>2 DEF Better

LEMMA StaysSweeping ==
  ASSUME NEW w \in SweepState, NEW s, NEW s2, NEW t \in Nat, NEW t2 \in Nat,
         Sweeps(w, s, t), DOMAIN s \subseteq DOMAIN s2, t <= t2,
         w.pc = "drop" /\ ~w.late => s2[w.at] = s[w.at]
  PROVE  Sweeps(w, s2, t2)
<1>1. w.cutoff \in Nat /\ MaxAge \in Nat
  BY TreeAssumption DEF SweepState
<1>2. w.cutoff = 0 \/ w.cutoff + MaxAge <= t => w.cutoff = 0 \/ w.cutoff + MaxAge <= t2
  BY <1>1
<1>3. Left(w, s) => Left(w, s2)
  BY DEF Left
<1>4. QED
  BY <1>2, <1>3 DEF Sweeps

LEMMA SameIsBetter == \A s, b : Better(s, b, s, b)
BY DEF Better

\* What holds of the variables and their ranges.
LEMMA InTypes ==
  ASSUME TreeInv
  PROVE  /\ time \in Nat /\ time >= 1 /\ count \in Nat /\ LastTime \in Nat /\ MaxAge \in Nat \ {0}
         /\ Cardinality(DOMAIN seen) \in Nat
         /\ \A r \in Request : record[r] \in RecordState /\ Walks(record[r], seen, setBack, time)
         /\ sweep \in SweepState /\ Sweeps(sweep, seen, time) /\ Promises(promised, seen, setBack, time)
         /\ \A q \in DOMAIN seen : q \in Nodes /\ seen[q] \in Nat /\ seen[q] \in 1..LastTime
<1>1. LastTime \in Nat /\ MaxAge \in Nat \ {0}
  BY TreeAssumption
<1>2. Cardinality(DOMAIN seen) \in Nat
  BY FS_CardinalityType DEF TreeInv, Types
<1>3. count \in Nat
  <2>1. sweep.removed \in Nat /\ leaked \in Nat
    BY DEF TreeInv, Types, SweepState
  <2>2. QED
    BY <1>2, <2>1 DEF TreeInv
<1>4. QED
  BY <1>1, <1>2, <1>3 DEF TreeInv, Types

LEMMA TreeTyped == TreeInv => TreeTypeOK
<1> SUFFICES ASSUME TreeInv
             PROVE  TreeTypeOK
  OBVIOUS
<1>1. count \in Nat
  BY InTypes
<1>2. \A r \in Request : /\ record[r].pc \in {"none", "full", "walk", "touch"}
                         /\ record[r].adrift \subseteq Request /\ record[r].extra \subseteq Nodes
  BY DEF TreeInv, Types, RecordState
<1>3. sweep.pc \in {"none", "loop", "empty", "stale", "drop"} /\ sweep.at \in Nodes \cup {Root}
  BY DEF TreeInv, Types, SweepState
<1>4. QED
  BY <1>1, <1>2, <1>3 DEF TreeInv, Types, TreeTypeOK

-----------------------------------------------------------------------------
(* Steps of the records.                                                   *)

LEMMA NoRecordIs == NoRecord \in RecordState /\ \A s, b, t : Walks(NoRecord, s, b, t)
<1>1. NoRecord \in RecordState
  BY DEF NoRecord, RecordState
<1>2. \A s, b, t : Walks(NoRecord, s, b, t)
  BY DEF NoRecord, Walks
<1>3. QED
  BY <1>1, <1>2

LEMMA StartRecordKeeps ==
  ASSUME TreeInv, NEW r \in Request, StartRecord(r)
  PROVE  TreeInv'
<1>1. PICK p \in Prompt \ {<<>>} :
        record' = [record EXCEPT ![r] = [NoRecord EXCEPT
                     !.pc = IF count > MaxNodes THEN "full" ELSE "walk", !.path = Chunks(p), !.now = time]]
  BY DEF StartRecord
<1> DEFINE c == [NoRecord EXCEPT !.pc = IF count > MaxNodes THEN "full" ELSE "walk",
                                 !.path = Chunks(p), !.now = time]
<1>2. Chunks(p) \in Path
  BY DEF Path
<1>3. time \in Nat /\ time \in 1..time
  BY InTypes
<1>4. /\ c.path = Chunks(p) /\ c.now = time /\ c.depth = 0 /\ c.adrift = {}
      /\ c.pc \in {"full", "walk"} /\ c.extra = {}
  BY DEF NoRecord
<1>5. c \in RecordState
  BY <1>2, <1>3 DEF RecordState, NoRecord
<1>6. Len(Chunks(p)) \in Nat /\ Len(Chunks(p)) > 0
  BY <1>2, PathsAre
<1> HIDE DEF c
<1>7. Walks(c, seen, setBack, time)
  BY <1>2, <1>3, <1>4, <1>6 DEF Walks
<1>8. /\ UNCHANGED <<time, seen, count, sweep, promised, setBack, leaked>>
      /\ records' = records + 1 /\ records < MaxRecords /\ record[r].pc = "none"
  BY DEF StartRecord
<1>9. record' \in [Request -> RecordState] /\ record'[r] = c /\ \A q \in Request \ {r} : record'[q] = record[q]
  BY <1>1, <1>5 DEF TreeInv, Types, c
<1>10. records' \in 0..MaxRecords
  BY <1>8, TreeAssumption DEF TreeInv, Types
<1>11. Types'
  BY <1>8, <1>9, <1>10 DEF TreeInv, Types
<1>12. \A q \in Request : Walks(record'[q], seen', setBack', time')
  BY <1>7, <1>8, <1>9 DEF TreeInv
<1>13. \A q \in sweep'.by : record'[q].pc = "full"
  <2>1. r \notin sweep.by /\ sweep.by \subseteq Request
    BY <1>8 DEF TreeInv, Types, SweepState
  <2>2. QED
    BY <1>8, <1>9, <2>1 DEF TreeInv
<1>14. QED
  BY <1>8, <1>11, <1>12, <1>13 DEF TreeInv

\* A node is added below one that is there, or below the root.
LEMMA GrowingIsBetter ==
  ASSUME NEW s, NEW b, NEW path \in Path, NEW d \in Nat, d < Len(path), NEW t, Closed(s),
         DOMAIN s \subseteq Nodes, d > 0 => SubSeq(path, 1, d) \in DOMAIN s,
         SubSeq(path, 1, d + 1) \notin DOMAIN s
  PROVE  /\ Better(s, b, With(s, SubSeq(path, 1, d + 1), t), b)
         /\ Closed(With(s, SubSeq(path, 1, d + 1), t))
<1> DEFINE child == SubSeq(path, 1, d + 1)
           s2 == With(s, child, t)
<1>1. path \in Seq(Hash) /\ Len(path) \in Nat /\ d + 1 \in 0..Len(path) /\ d + 1 \in 1..Len(path)
  BY PathsAre
<1>2. DOMAIN s2 = DOMAIN s \cup {child} /\ \A z \in DOMAIN s : s2[z] = s[z]
  <2>1. child \notin DOMAIN s
    OBVIOUS
  <2> HIDE DEF child
  <2>2. DOMAIN s2 = DOMAIN s \cup {child} /\ \A z \in DOMAIN s : z # child => s2[z] = s[z]
    BY DEF With
  <2>3. QED
    BY <2>1, <2>2
<1>3. Len(child) = d + 1 /\ \A j \in 0..(d + 1) : SubSeq(child, 1, j) = SubSeq(path, 1, j)
  BY <1>1, PrefixOf
<1> HIDE DEF s2
<1>4. Better(s, b, s2, b)
  BY <1>2 DEF Better, Reached
<1>5. ASSUME NEW i \in 1..(d + 1)
      PROVE  SubSeq(child, 1, i) \in DOMAIN s2
  <2>1. SubSeq(child, 1, i) = SubSeq(path, 1, i)
    BY <1>3
  <2>2. CASE i = d + 1
    BY <1>2, <2>1, <2>2
  <2>3. CASE i # d + 1
    <3>1. i \in 0..d /\ d \in 0..Len(path) /\ d > 0 /\ i \in 1..d
      BY <1>1, <2>3
    <3>2. SubSeq(path, 1, d) \in DOMAIN s /\ Len(SubSeq(path, 1, d)) = d
          /\ SubSeq(SubSeq(path, 1, d), 1, i) = SubSeq(path, 1, i)
      BY <1>1, <3>1, PrefixOf
    <3>3. QED
      BY <1>2, <2>1, <3>1, <3>2 DEF Closed
  <2>4. QED
    BY <2>2, <2>3
<1>6. Closed(s2)
  <2> SUFFICES ASSUME NEW q \in DOMAIN s2, NEW i \in 1..Len(q)
               PROVE  SubSeq(q, 1, i) \in DOMAIN s2
    BY DEF Closed
  <2>1. CASE q = child
    BY <1>3, <1>5, <2>1
  <2>2. CASE q \in DOMAIN s
    BY <1>2, <2>2 DEF Closed
  <2>3. QED
    BY <1>2, <2>1, <2>2
<1>7. QED
  BY <1>4, <1>6 DEF s2

LEMMA ExtraIs ==
  ASSUME NEW c \in RecordState, NEW x \in Nodes
  PROVE  /\ [c EXCEPT !.extra = @ \cup {x}] \in RecordState
         /\ \A s, b, t : Walks(c, s, b, t) /\ c.adrift # {} => Walks([c EXCEPT !.extra = @ \cup {x}], s, b, t)
         /\ [c EXCEPT !.extra = @ \cup {x}].pc = c.pc
<1> DEFINE d == [c EXCEPT !.extra = @ \cup {x}]
<1>1. /\ d \in RecordState /\ d.pc = c.pc /\ d.path = c.path /\ d.depth = c.depth
      /\ d.now = c.now /\ d.adrift = c.adrift
  BY DEF RecordState
<1> HIDE DEF d
<1>2. c.adrift # {} => c # NoRecord
  BY DEF NoRecord
<1>3. \A s, b, t : Walks(c, s, b, t) /\ c.adrift # {} => Walks(d, s, b, t)
  BY <1>1, <1>2 DEF Walks
<1>4. QED
  BY <1>1, <1>3 DEF d

LEMMA WalkDownKeeps ==
  ASSUME TreeInv, NEW r \in Request, WalkDown(r)
  PROVE  TreeInv'
<1> DEFINE c == record[r]
           child == SubSeq(c.path, 1, c.depth + 1)
           adrift == c.adrift # {}
           new == IF adrift THEN child \notin c.extra ELSE child \notin DOMAIN seen
           d == [c EXCEPT !.pc = "touch", !.depth = @ + 1]
           after(q) == IF q = r THEN d ELSE record[q]
           more(x) == [x EXCEPT !.extra = @ \cup {child}]
<1>1. c \in RecordState /\ Walks(c, seen, setBack, time) /\ c.pc = "walk"
  BY InTypes DEF WalkDown
<1>2. c.path \in Path /\ c.depth \in Nat /\ c.depth < Len(c.path) /\ c.now \in 1..time
  BY <1>1 DEF Walks, RecordState
<1>3. /\ c.path \in Seq(Hash) /\ Len(c.path) \in Nat /\ c.depth + 1 \in 1..Len(c.path)
      /\ c.depth + 1 \in Nat /\ c.depth \in 0..Len(c.path)
  BY <1>2, PathsAre
<1>4. child \in Nodes
  BY <1>2, <1>3, PathsAre
<1>5. /\ d \in RecordState /\ d.pc = "touch" /\ d.depth = c.depth + 1 /\ d.path = c.path
      /\ d.now = c.now /\ d.adrift = c.adrift
  BY <1>1, <1>3 DEF RecordState
<1>6. \A q \in Request : record'[q] = IF adrift /\ record[q].adrift = c.adrift
                                      THEN more(after(q)) ELSE after(q)
  <2>1. record \in [Request -> RecordState]
    BY DEF TreeInv, Types
  <2> DEFINE down(q) == [record EXCEPT ![r].pc = "touch", ![r].depth = @ + 1][q]
  <2>2. \A q \in Request : down(q) = after(q)
    BY <2>1 DEF RecordState
  <2>3. record' = [q \in Request |->
                     IF adrift /\ record[q].adrift = c.adrift THEN more(down(q)) ELSE down(q)]
    BY DEF WalkDown
  <2> HIDE DEF down, more, after
  <2>4. QED
    BY <2>2, <2>3
<1>7. /\ seen' = IF new /\ ~adrift THEN With(seen, child, c.now) ELSE seen
      /\ count' = IF new THEN count + 1 ELSE count
      /\ leaked' = IF new /\ adrift THEN leaked + 1 ELSE leaked
      /\ UNCHANGED <<records, time, sweep, promised, setBack>>
  BY DEF WalkDown
<1>8. record' = [q \in Request |-> record'[q]]
  BY DEF WalkDown
<1>9. Closed(seen) /\ DOMAIN seen \subseteq Nodes /\ IsFiniteSet(DOMAIN seen)
  BY DEF TreeInv, Types
<1> HIDE DEF d, child, more
<1>10. CASE new /\ ~adrift
  <2>1. seen' = With(seen, child, c.now) /\ count' = count + 1 /\ leaked' = leaked /\ child \notin DOMAIN seen
    BY <1>7, <1>10
  <2>2. c.depth > 0 => SubSeq(c.path, 1, c.depth) \in DOMAIN seen
    BY <1>1, <1>10 DEF Walks
  <2>3. Better(seen, setBack, seen', setBack') /\ Closed(seen')
    BY <1>2, <1>7, <1>9, <2>1, <2>2, GrowingIsBetter DEF child
  <2>4. /\ DOMAIN seen' = DOMAIN seen \cup {child} /\ seen'[child] = c.now
        /\ \A z \in DOMAIN seen : seen'[z] = seen[z]
    <3>1. /\ DOMAIN With(seen, child, c.now) = DOMAIN seen \cup {child}
          /\ With(seen, child, c.now)[child] = c.now
          /\ \A z \in DOMAIN seen : z # child => With(seen, child, c.now)[z] = seen[z]
      BY DEF With
    <3>2. QED
      BY <2>1, <3>1
  <2>5. c.now \in 1..LastTime
    <3>1. time \in 1..LastTime /\ LastTime \in Nat
      BY TreeAssumption DEF TreeInv, Types
    <3>2. QED
      BY <1>2, <3>1
  <2>6. seen' \in [DOMAIN seen' -> 1..LastTime]
    <3>1. seen' = [z \in DOMAIN seen \cup {child} |-> IF z = child THEN c.now ELSE seen[z]]
      BY <2>1 DEF With
    <3>2. \A z \in DOMAIN seen : seen[z] \in 1..LastTime
      BY InTypes
    <3>3. QED
      BY <2>4, <2>5, <3>1, <3>2
  <2>7. IsFiniteSet(DOMAIN seen') /\ Cardinality(DOMAIN seen') = Cardinality(DOMAIN seen) + 1
    BY <1>9, <2>1, <2>4, FS_AddElement
  <2>8. \A q \in Request : record'[q] = after(q)
    BY <1>6, <1>10
  <2>9. \A q \in Request : after(q) \in RecordState
    BY <1>5, InTypes
  <2>10. Types'
    <3>1. record' \in [Request -> RecordState]
      BY <1>8, <2>8, <2>9
    <3>2. DOMAIN seen' \subseteq Nodes
      BY <1>4, <1>9, <2>4
    <3>3. QED
      BY <1>7, <2>1, <2>6, <2>7, <3>1, <3>2 DEF TreeInv, Types
  <2>11. ASSUME NEW q \in Request
         PROVE  Walks(record'[q], seen', setBack', time')
    <3>1. record[q] \in RecordState /\ Walks(record[q], seen, setBack, time) /\ time \in Nat /\ time' = time
      BY <1>7, InTypes
    <3>2. Walks(record[q], seen', setBack', time')
      BY <2>3, <3>1, StaysWalking
    <3>3. CASE q # r
      BY <2>8, <3>2, <3>3
    <3>4. CASE q = r
      <4>1. Walks(c, seen', setBack', time')
        BY <3>2, <3>4
      <4>2. SubSeq(d.path, 1, d.depth) = child /\ child \in DOMAIN seen'
        BY <1>5, <2>4 DEF child
      <4>3. Walks(d, seen', setBack', time')
        <5>1. c.depth + 1 - 1 = c.depth /\ c.depth - 0 = c.depth
          BY <1>2
        <5>a. c.adrift = {} => \A i \in 1..c.depth : Reached(seen', setBack', SubSeq(c.path, 1, i), c.now)
          BY <1>1, <4>1, <5>1 DEF Walks
        <5>b. (d.depth - IF d.pc = "touch" THEN 1 ELSE 0) = c.depth
          BY <1>2, <1>5
        <5>2. d.adrift = {} => \A i \in 1..(d.depth - IF d.pc = "touch" THEN 1 ELSE 0) :
                                  Reached(seen', setBack', SubSeq(d.path, 1, i), d.now)
          BY <1>5, <5>a, <5>b
        <5>3. d.pc # "none" => d.path \in Path /\ d.now \in 1..time'
          BY <1>1, <1>5, <4>1 DEF Walks
        <5>4. QED
          BY <1>3, <1>5, <4>2, <5>2, <5>3 DEF Walks
      <4>4. QED
        BY <2>8, <3>4, <4>3
    <3>5. QED
      BY <3>3, <3>4
  <2>12. Sweeps(sweep', seen', time')
    <3>1. sweep \in SweepState /\ Sweeps(sweep, seen, time) /\ time \in Nat
      BY InTypes
    <3>2. sweep.pc = "drop" => sweep.at \in DOMAIN seen
      BY <3>1 DEF Sweeps
    <3>3. DOMAIN seen \subseteq DOMAIN seen'
      BY <2>4
    <3>4. QED
      BY <1>7, <2>4, <3>1, <3>2, <3>3, StaysSweeping
  <2>13. Promises(promised', seen', setBack', time')
    <3>1. promised \in [DOMAIN promised -> Nat]
      BY DEF TreeInv, Types
    <3>2. QED
      BY <1>7, <2>3, <3>1, InTypes, StaysPromised
  <2>14. \A q \in sweep'.by : record'[q].pc = "full"
    <3>1. sweep.by \subseteq Request /\ r \notin sweep.by
      BY <1>1 DEF TreeInv, Types, SweepState
    <3>2. QED
      BY <1>7, <2>8, <3>1 DEF TreeInv
  <2>15. count' = Cardinality(DOMAIN seen') + sweep'.removed + leaked'
    <3>1. sweep.removed \in Nat /\ leaked \in Nat /\ Cardinality(DOMAIN seen) \in Nat
      BY InTypes DEF TreeInv, Types, SweepState
    <3>2. QED
      BY <1>7, <2>1, <2>7, <3>1 DEF TreeInv
  <2>16. QED
    BY <2>3, <2>10, <2>11, <2>12, <2>13, <2>14, <2>15 DEF TreeInv
<1>11. CASE ~(new /\ ~adrift)
  <2>1. seen' = seen
    BY <1>7, <1>11
  <2>2. ASSUME NEW q \in Request
        PROVE  /\ record'[q] \in RecordState /\ Walks(record'[q], seen, setBack, time)
               /\ q # r => record'[q].pc = record[q].pc
    <3>1. record[q] \in RecordState /\ Walks(record[q], seen, setBack, time)
      BY InTypes
    <3>2. Walks(d, seen, setBack, time)
      <4>1. c.depth + 1 - 1 = c.depth /\ c.depth - 0 = c.depth
        BY <1>2
      <4>2. c.adrift = {} => child \in DOMAIN seen
        BY <1>11
      <4>a. c.adrift = {} => \A i \in 1..c.depth : Reached(seen, setBack, SubSeq(c.path, 1, i), c.now)
        BY <1>1, <4>1 DEF Walks
      <4>b. (d.depth - IF d.pc = "touch" THEN 1 ELSE 0) = c.depth
        BY <1>2, <1>5
      <4>3. d.adrift = {} => \A i \in 1..(d.depth - IF d.pc = "touch" THEN 1 ELSE 0) :
                                Reached(seen, setBack, SubSeq(d.path, 1, i), d.now)
        BY <1>5, <4>a, <4>b
      <4>4. SubSeq(d.path, 1, d.depth) = child
        BY <1>5 DEF child
      <4>5. QED
        BY <1>2, <1>3, <1>5, <4>2, <4>3, <4>4 DEF Walks
    <3>3. after(q) \in RecordState /\ Walks(after(q), seen, setBack, time)
      BY <1>5, <3>1, <3>2
    <3>4. after(q).adrift = record[q].adrift /\ (q # r => after(q) = record[q])
      BY <1>5
    <3>5. CASE adrift /\ record[q].adrift = c.adrift
      <4>1. record'[q] = more(after(q))
        BY <1>6, <3>5
      <4>2. after(q).adrift # {}
        BY <3>4, <3>5
      <4> HIDE DEF after
      <4>3. more(after(q)) \in RecordState /\ Walks(more(after(q)), seen, setBack, time)
            /\ more(after(q)).pc = after(q).pc
        BY <1>4, <3>3, <4>2, ExtraIs DEF more
      <4>4. QED
        BY <3>4, <4>1, <4>3
    <3>6. CASE ~(adrift /\ record[q].adrift = c.adrift)
      <4>1. record'[q] = after(q)
        BY <1>6, <3>6
      <4>2. QED
        BY <3>3, <3>4, <4>1
    <3>7. QED
      BY <3>5, <3>6
  <2>3. record' \in [Request -> RecordState]
    BY <1>8, <2>2
  <2>4. leaked' \in Nat /\ (count' - leaked' = count - leaked /\ count' \in Nat)
    <3>1. leaked \in Nat /\ count \in Nat
      BY InTypes DEF TreeInv, Types
    <3>2. (leaked' = leaked + 1 /\ count' = count + 1) \/ (leaked' = leaked /\ count' = count)
      BY <1>7, <1>11
    <3>3. QED
      BY <3>1, <3>2
  <2>5. count' = Cardinality(DOMAIN seen') + sweep'.removed + leaked'
    <3>1. sweep.removed \in Nat /\ leaked \in Nat /\ Cardinality(DOMAIN seen) \in Nat /\ count \in Nat
      BY InTypes DEF TreeInv, Types, SweepState
    <3>2. count = Cardinality(DOMAIN seen) + sweep.removed + leaked
      BY DEF TreeInv
    <3>3. QED
      BY <1>7, <2>1, <2>4, <3>1, <3>2
  <2>6. Types'
    BY <1>7, <2>1, <2>3, <2>4 DEF TreeInv, Types
  <2>7. \A q \in sweep'.by : record'[q].pc = "full"
    <3>1. sweep.by \subseteq Request /\ r \notin sweep.by
      BY <1>1 DEF TreeInv, Types, SweepState
    <3>2. QED
      BY <1>7, <2>2, <3>1 DEF TreeInv
  <2>8. QED
    BY <1>7, <2>1, <2>2, <2>5, <2>6, <2>7 DEF TreeInv
<1>12. QED
  BY <1>10, <1>11

\* What is touched was given the time, or later, or is set back.
LEMMA TouchingIsBetter ==
  ASSUME NEW s, NEW b, NEW p \in DOMAIN s, NEW x \in Nat, NEW b2, s[p] \in Nat,
         s = [q \in DOMAIN s |-> s[q]], b2 = IF s[p] > x THEN b \cup {p} ELSE b
  PROVE  /\ Better(s, b, [s EXCEPT ![p] = x], b2) /\ Reached([s EXCEPT ![p] = x], b2, p, x)
         /\ DOMAIN [s EXCEPT ![p] = x] = DOMAIN s
         /\ \A q \in DOMAIN s : q # p => [s EXCEPT ![p] = x][q] = s[q]
<1> DEFINE s2 == [s EXCEPT ![p] = x]
<1>1. DOMAIN s2 = DOMAIN s /\ s2[p] = x /\ \A q \in DOMAIN s : q # p => s2[q] = s[q]
  OBVIOUS
<1> HIDE DEF s2
<1>2. b \subseteq b2 /\ (p \in b2 \/ s[p] <= x)
  <2>1. s[p] > x \/ s[p] <= x
    OBVIOUS
  <2>2. QED
    BY <2>1
<1>3. Better(s, b, s2, b2)
  <2> SUFFICES ASSUME NEW n \in DOMAIN s, NEW y \in Nat, n \in b \/ s[n] >= y
               PROVE  n \in b2 \/ s2[n] >= y
    BY <1>1 DEF Better, Reached
  <2>1. CASE n # p
    BY <1>1, <1>2, <2>1
  <2>2. CASE n = p
    BY <1>1, <1>2, <2>2
  <2>3. QED
    BY <2>1, <2>2
<1>4. Reached(s2, b2, p, x)
  BY <1>1 DEF Reached
<1>5. QED
  BY <1>1, <1>3, <1>4 DEF s2

LEMMA TouchKeeps ==
  ASSUME TreeInv, NEW r \in Request, Touch(r)
  PROVE  TreeInv'
<1> DEFINE c == record[r]
           p == SubSeq(c.path, 1, c.depth)
           inTree == c.adrift = {}
           d == Onward(r)
<1>1. c \in RecordState /\ Walks(c, seen, setBack, time) /\ c.pc = "touch"
  BY InTypes DEF Touch
<1>2. c.path \in Path /\ c.depth \in 1..Len(c.path) /\ c.now \in 1..time
  BY <1>1 DEF Walks
<1>3. /\ c.path \in Seq(Hash) /\ Len(c.path) \in Nat /\ c.depth \in Nat /\ c.now \in Nat
      /\ time \in Nat /\ c.depth > 0
  BY <1>2, PathsAre, InTypes
<1>4. /\ record' = [record EXCEPT ![r] = d] /\ Promise(r)
      /\ seen' = IF inTree THEN [seen EXCEPT ![p] = c.now] ELSE seen
      /\ setBack' = IF inTree /\ seen[p] > c.now THEN setBack \cup {p} ELSE setBack
      /\ sweep' = IF inTree /\ sweep.pc = "drop" /\ sweep.at = p THEN [sweep EXCEPT !.late = TRUE] ELSE sweep
      /\ UNCHANGED <<records, time, count, leaked>>
  BY DEF Touch, NodeOf
<1>5. inTree => p \in DOMAIN seen
  BY <1>1, <1>3 DEF Walks
<1>6. seen = [q \in DOMAIN seen |-> seen[q]] /\ seen \in [DOMAIN seen -> 1..LastTime]
  BY DEF TreeInv, Types
<1>7. /\ Better(seen, setBack, seen', setBack') /\ DOMAIN seen' = DOMAIN seen
      /\ \A q \in DOMAIN seen : q # p => seen'[q] = seen[q]
      /\ inTree => Reached(seen', setBack', p, c.now)
  <2>1. CASE inTree
    <3>1. seen[p] \in Nat /\ p \in DOMAIN seen
      BY <1>5, <2>1, InTypes
    <3>2. seen' = [seen EXCEPT ![p] = c.now] /\ setBack' = IF seen[p] > c.now THEN setBack \cup {p} ELSE setBack
      BY <1>4, <2>1
    <3> HIDE DEF p, c
    <3>3. QED
      BY <1>3, <1>6, <3>1, <3>2, TouchingIsBetter
  <2>2. CASE ~inTree
    BY <1>4, <2>2, SameIsBetter
  <2>3. QED
    BY <2>1, <2>2
<1>8. inTree => \A i \in 1..c.depth : Reached(seen', setBack', SubSeq(c.path, 1, i), c.now)
  <2> SUFFICES ASSUME inTree, NEW i \in 1..c.depth
               PROVE  Reached(seen', setBack', SubSeq(c.path, 1, i), c.now)
    OBVIOUS
  <2>1. CASE i = c.depth
    BY <1>7, <2>1
  <2>2. CASE i # c.depth
    <3>1. i \in 1..(c.depth - 1)
      BY <1>3, <2>2
    <3>2. Reached(seen, setBack, SubSeq(c.path, 1, i), c.now)
      BY <1>1, <3>1 DEF Walks
    <3>3. SubSeq(c.path, 1, i) \in DOMAIN seen
      BY <3>2 DEF Reached
    <3>4. QED
      BY <1>3, <1>7, <3>2, <3>3 DEF Better
  <2>3. QED
    BY <2>1, <2>2
<1> HIDE DEF d
<1>9. d \in RecordState /\ Walks(d, seen', setBack', time) /\ d.pc # "full"
  <2>1. CASE c.depth = Len(c.path)
    <3>1. d = NoRecord
      BY <2>1 DEF d, Onward
    <3>2. QED
      BY <3>1, NoRecordIs DEF NoRecord
  <2>2. CASE c.depth # Len(c.path)
    <3>1. d = [c EXCEPT !.pc = "walk"]
      BY <2>2 DEF d, Onward
    <3>2. /\ d \in RecordState /\ d.pc = "walk" /\ d.path = c.path /\ d.depth = c.depth
          /\ d.now = c.now /\ d.adrift = c.adrift
      BY <1>1, <3>1 DEF RecordState
    <3>3. c.depth < Len(c.path)
      BY <1>2, <1>3, <2>2
    <3>4. inTree => p \in DOMAIN seen'
      BY <1>5, <1>7
    <3>5. c.depth - 0 = c.depth
      BY <1>3
    <3>6. (d.depth - IF d.pc = "touch" THEN 1 ELSE 0) = c.depth
      BY <3>2, <3>5
    <3>7. d.adrift = {} => \A i \in 1..(d.depth - IF d.pc = "touch" THEN 1 ELSE 0) :
                              Reached(seen', setBack', SubSeq(d.path, 1, i), d.now)
      BY <1>8, <3>2, <3>6
    <3>8. QED
      BY <1>2, <3>2, <3>3, <3>4, <3>7 DEF Walks
  <2>3. QED
    BY <2>1, <2>2
<1>10. record' \in [Request -> RecordState] /\ record'[r] = d /\ \A q \in Request \ {r} : record'[q] = record[q]
  BY <1>4, <1>9 DEF TreeInv, Types
<1>11. \A q \in Request : Walks(record'[q], seen', setBack', time')
  <2> SUFFICES ASSUME NEW q \in Request
               PROVE  Walks(record'[q], seen', setBack', time')
    OBVIOUS
  <2>1. record[q] \in RecordState /\ Walks(record[q], seen, setBack, time) /\ time' = time
    BY <1>4, InTypes
  <2>2. Walks(record[q], seen', setBack', time')
    BY <1>3, <1>7, <2>1, StaysWalking
  <2>3. QED
    BY <1>9, <1>10, <2>1, <2>2
<1>12. sweep' \in SweepState /\ sweep'.by = sweep.by /\ sweep'.removed = sweep.removed
  BY <1>4, InTypes DEF SweepState
<1>13. Sweeps(sweep', seen', time')
  <2>1. sweep \in SweepState /\ Sweeps(sweep, seen, time)
    BY InTypes
  <2>2. CASE inTree /\ sweep.pc = "drop" /\ sweep.at = p
    <3>1. sweep' = [sweep EXCEPT !.late = TRUE]
      BY <1>4, <2>2
    <3>2. /\ sweep'.pc = "drop" /\ sweep'.at = sweep.at /\ sweep'.left = sweep.left
          /\ sweep'.cutoff = sweep.cutoff /\ sweep'.late
      BY <2>1, <2>2, <3>1 DEF SweepState
    <3>3. Left(sweep', seen')
      BY <1>7, <2>1, <2>2, <3>2 DEF Sweeps, Left
    <3>4. QED
      BY <1>4, <1>7, <2>1, <2>2, <3>2, <3>3 DEF Sweeps
  <2>3. CASE ~(inTree /\ sweep.pc = "drop" /\ sweep.at = p)
    <3>1. sweep' = sweep
      BY <1>4, <2>3
    <3>2. sweep.pc = "drop" => seen'[sweep.at] = seen[sweep.at]
      <4>1. sweep.pc = "drop" => sweep.at \in DOMAIN seen
        BY <2>1 DEF Sweeps
      <4>2. CASE inTree
        BY <1>7, <2>3, <4>1, <4>2
      <4>3. CASE ~inTree
        BY <1>4, <4>3
      <4>4. QED
        BY <4>2, <4>3
    <3>3. time' = time /\ DOMAIN seen \subseteq DOMAIN seen' /\ time <= time
      BY <1>3, <1>4, <1>7
    <3>4. QED
      BY <1>3, <2>1, <3>1, <3>2, <3>3, StaysSweeping
  <2>4. QED
    BY <2>2, <2>3
<1>14. /\ promised' \in [DOMAIN promised' -> Nat] /\ DOMAIN promised' \subseteq Nodes
       /\ Promises(promised', seen', setBack', time')
  <2>1. promised \in [DOMAIN promised -> Nat] /\ DOMAIN promised \subseteq Nodes
    BY DEF TreeInv, Types
  <2>2. Promises(promised, seen', setBack', time')
    BY <1>4, <1>7, <2>1, InTypes, StaysPromised
  <2>3. CASE promised' = promised
    BY <2>1, <2>2, <2>3
  <2>4. CASE /\ inTree /\ ~(time - c.now > MaxAge) /\ ~(c.depth < Len(c.path))
             /\ promised' = With(promised, c.path, c.now)
    <3>1. c.depth = Len(c.path)
      BY <1>2, <1>3, <2>4
    <3>2. c.now + MaxAge >= time
      BY <1>3, <2>4, InTypes
    <3>3. DOMAIN promised' = DOMAIN promised \cup {c.path}
      BY <2>4 DEF With
    <3>4. promised'[c.path] = c.now /\ \A q \in DOMAIN promised : q # c.path => promised'[q] = promised[q]
      BY <2>4 DEF With
    <3>5. promised' \in [DOMAIN promised' -> Nat]
      <4>1. promised' = [q \in DOMAIN promised \cup {c.path} |-> IF q = c.path THEN c.now ELSE promised[q]]
        BY <2>4 DEF With
      <4>2. QED
        BY <1>3, <2>1, <3>3, <4>1
    <3>6. c.path \in Nodes
      <4>1. SubSeq(c.path, 1, Len(c.path)) = c.path
        BY <1>3, SubSeqFull
      <4>2. QED
        BY <1>2, <3>1, <4>1, PathsAre
    <3>7. Promises(promised', seen', setBack', time')
      <4> SUFFICES ASSUME NEW q \in DOMAIN promised'
                   PROVE  /\ promised'[q] + MaxAge >= time'
                          /\ \A i \in 1..Len(q) : Reached(seen', setBack', SubSeq(q, 1, i), promised'[q])
        BY DEF Promises
      <4>1. CASE q = c.path
        BY <1>4, <1>8, <2>4, <3>1, <3>2, <3>4, <4>1
      <4>2. CASE q # c.path
        BY <2>2, <3>3, <3>4, <4>2 DEF Promises
      <4>3. QED
        BY <4>1, <4>2
    <3>8. QED
      BY <2>1, <3>3, <3>5, <3>6, <3>7
  <2>5. QED
    BY <1>4, <2>3, <2>4 DEF Promise
<1>15. Types'
  <2>1. seen' \in [DOMAIN seen' -> 1..LastTime]
    <3>1. c.now \in 1..LastTime
      <4>1. time \in 1..LastTime /\ LastTime \in Nat
        BY TreeAssumption DEF TreeInv, Types
      <4>2. QED
        BY <1>2, <1>3, <4>1
    <3>2. QED
      BY <1>4, <1>6, <1>7, <3>1
  <2>2. setBack' \subseteq Nodes
    <3>1. setBack \subseteq Nodes /\ DOMAIN seen \subseteq Nodes
      BY DEF TreeInv, Types
    <3>2. QED
      BY <1>4, <1>5, <3>1
  <2>3. QED
    BY <1>4, <1>7, <1>10, <1>12, <1>14, <2>1, <2>2 DEF TreeInv, Types
<1>16. Closed(seen')
  BY <1>7 DEF TreeInv, Closed
<1>17. \A q \in sweep'.by : record'[q].pc = "full"
  <2>1. sweep.by \subseteq Request /\ r \notin sweep.by
    BY <1>1 DEF TreeInv, Types, SweepState
  <2>2. QED
    BY <1>10, <1>12, <2>1 DEF TreeInv
<1>18. QED
  BY <1>4, <1>7, <1>11, <1>12, <1>13, <1>14, <1>15, <1>16, <1>17 DEF TreeInv

-----------------------------------------------------------------------------
(* Steps of the sweeps.                                                    *)

LEMMA FrontIs ==
  ASSUME NEW at \in Nodes
  PROVE  /\ at \in Seq(Hash) /\ Len(at) \in Nat \ {0} /\ Len(Front(at)) = Len(at) - 1
         /\ \A j \in 0..(Len(at) - 1) : SubSeq(Front(at), 1, j) = SubSeq(at, 1, j)
         /\ Front(at) \in Nodes \cup {Root}
         /\ \A s : Closed(s) /\ at \in DOMAIN s => Front(at) \in DOMAIN s \cup {Root}
<1>1. at \in Seq(Hash) /\ Len(at) \in Nat \ {0}
  BY NodesAre
<1>2. Len(at) - 1 \in 0..Len(at)
  BY <1>1
<1>3. Front(at) = SubSeq(at, 1, Len(at) - 1)
  BY DEF Front
<1>4. /\ Len(Front(at)) = Len(at) - 1
      /\ \A j \in 0..(Len(at) - 1) : SubSeq(Front(at), 1, j) = SubSeq(at, 1, j)
  <2>1. Len(at) - 1 \in 0..Len(at) /\ at \in Seq(Hash)
    BY <1>1, <1>2
  <2> DEFINE n == Len(at) - 1
  <2> HIDE DEF n
  <2>2. n \in 0..Len(at)
    BY <2>1 DEF n
  <2>3. Len(SubSeq(at, 1, n)) = n /\ \A j \in 0..n : SubSeq(SubSeq(at, 1, n), 1, j) = SubSeq(at, 1, j)
    BY <2>1, <2>2, PrefixOf
  <2>4. QED
    BY <1>3, <2>3 DEF n
<1>5. Front(at) = Root \/ Len(at) - 1 \in 1..Len(at)
  <2>1. CASE Len(at) = 1
    <3>1. Len(at) - 1 = 0
      BY <2>1
    <3>2. Front(at) = SubSeq(at, 1, 0)
      BY <1>3, <3>1
    <3>3. QED
      BY <3>2, SubSeqEmpty DEF Root
  <2>2. CASE Len(at) # 1
    <3>1. Len(at) \in Nat \ {0}
      BY <1>1
    <3>2. Len(at) - 1 \in 1..Len(at)
      BY <2>2, <3>1
    <3>3. QED
      BY <3>2
  <2>3. QED
    BY <2>1, <2>2
<1>6. Front(at) \in Nodes \cup {Root}
  BY <1>3, <1>5, NodesAre
<1>7. ASSUME NEW s, Closed(s), at \in DOMAIN s
      PROVE  Front(at) \in DOMAIN s \cup {Root}
  BY <1>3, <1>5, <1>7 DEF Closed
<1>8. QED
  BY <1>1, <1>4, <1>6, <1>7

LEMMA SweepOnlyKeeps ==
  ASSUME TreeInv, UNCHANGED <<records, time, seen, count, record, promised, setBack, leaked>>,
         sweep' \in SweepState, Sweeps(sweep', seen, time), sweep'.removed = sweep.removed,
         \A r \in sweep'.by : record[r].pc = "full"
  PROVE  TreeInv'
<1>1. Types'
  BY DEF TreeInv, Types
<1>2. QED
  BY <1>1 DEF TreeInv

LEMMA BeginSweepKeeps ==
  ASSUME TreeInv, NEW by \in SUBSET Request, NEW now \in 1..time, BeginSweep(by, now),
         \A r \in by : record[r].pc = "full"
  PROVE  TreeInv'
<1> DEFINE cutoff == IF now > MaxAge THEN now - MaxAge ELSE 0
           w == [NoSweep EXCEPT !.pc = "loop", !.cutoff = cutoff, !.left = <<Children(Root)>>, !.by = by]
<1>1. sweep.pc = "none" /\ sweep' = w
  BY DEF BeginSweep
<1>2. sweep = NoSweep
  BY <1>1, InTypes DEF Sweeps
<1>3. cutoff \in Nat /\ (cutoff = 0 \/ cutoff + MaxAge <= time)
  BY InTypes
<1>4. \A q \in Children(Root) : q \in DOMAIN seen /\ q \in Nodes /\ Len(q) = 1
  <2>1. Types /\ Len(Root) + 1 = 1
    BY DEF TreeInv, Root
  <2>2. QED
    BY <2>1, ChildrenAre
<1> HIDE DEF cutoff
<1>5. /\ w.pc = "loop" /\ w.at = Root /\ w.left = <<Children(Root)>> /\ w.by = by /\ w.removed = 0
      /\ w.cutoff = cutoff
  BY DEF NoSweep
<1>6. w \in SweepState
  <2> DEFINE ch == <<Children(Root)>>
  <2>1. Children(Root) \in SUBSET Nodes
    BY <1>4
  <2>2. ch \in Seq(SUBSET Nodes)
    BY <2>1
  <2>3. w = [NoSweep EXCEPT !.pc = "loop", !.cutoff = cutoff, !.left = ch, !.by = by]
    OBVIOUS
  <2> HIDE DEF ch, w
  <2>4. QED
    BY <1>3, <2>2, <2>3 DEF NoSweep, SweepState
<1> HIDE DEF w
<1>7. Left(w, seen)
  <2> SUFFICES ASSUME NEW k \in 1..Len(w.left), NEW q \in w.left[k]
               PROVE  q \in DOMAIN seen /\ Beside(w.at, k, q)
    BY DEF Left
  <2>1. Len(w.left) = 1 /\ w.left[1] = Children(Root)
    BY <1>5
  <2>2. k = 1 /\ q \in Children(Root)
    BY <2>1
  <2>3. SubSeq(q, 1, k - 1) = <<>> /\ SubSeq(w.at, 1, k - 1) = <<>>
    BY <2>2, SubSeqEmpty
  <2>4. ~(k <= Len(w.at))
    BY <1>5, <2>2 DEF Root
  <2>5. QED
    BY <1>4, <2>2, <2>3, <2>4 DEF Beside
<1>8. Len(w.left) = Len(w.at) + 1
  BY <1>5 DEF Root
<1>9. Sweeps(w, seen, time)
  BY <1>3, <1>5, <1>7, <1>8 DEF Sweeps
<1>10. sweep.removed = 0
  BY <1>2 DEF NoSweep
<1>11. UNCHANGED <<records, time, seen, count, record, promised, setBack, leaked>>
  BY DEF BeginSweep
<1>12. QED
  BY <1>1, <1>5, <1>6, <1>9, <1>10, <1>11, SweepOnlyKeeps

LEMMA AllButLast ==
  ASSUME NEW T, NEW l \in Seq(T), NEW n \in Nat, Len(l) = n + 1
  PROVE  /\ Front(l) \in Seq(T) /\ Len(Front(l)) = n
         /\ \A k \in 1..n : Front(l)[k] = l[k]
<1>1. Len(l) - 1 = n /\ 1 \in Int /\ n \in Int /\ \A k \in 1..n : l[k] \in T
  OBVIOUS
<1>2. Front(l) = SubSeq(l, 1, n)
  BY <1>1 DEF Front
<1>3. /\ SubSeq(l, 1, n) \in Seq(T)
      /\ Len(SubSeq(l, 1, n)) = IF 1 <= n THEN n - 1 + 1 ELSE 0
      /\ \A i \in 1..(n - 1 + 1) : SubSeq(l, 1, n)[i] = l[1 + i - 1]
  BY <1>1, SubSeqProperties
<1>4. \A i \in 1..n : i \in 1..(n - 1 + 1) /\ 1 + i - 1 = i
  OBVIOUS
<1>5. Len(SubSeq(l, 1, n)) = n
  BY <1>3
<1>6. QED
  BY <1>2, <1>3, <1>4, <1>5

LEMMA ConcatIs ==
  ASSUME NEW S, NEW a \in Seq(S), NEW b \in Seq(S)
  PROVE  /\ a \o b \in Seq(S) /\ Len(a \o b) = Len(a) + Len(b)
         /\ \A i \in 1..(Len(a) + Len(b)) : (a \o b)[i] = IF i <= Len(a) THEN a[i] ELSE b[i - Len(a)]
BY ConcatProperties

LEMMA DescendKeeps ==
  ASSUME TreeInv, Descend
  PROVE  TreeInv'
<1> DEFINE at == sweep.at
           todos == sweep.left
           todo == Last(todos)
<1>1. sweep.pc = "loop" /\ sweep \in SweepState /\ Sweeps(sweep, seen, time)
  BY InTypes DEF Descend
<1>2. /\ todos \in Seq(SUBSET Nodes) /\ at \in Nodes \cup {Root} /\ Len(todos) = Len(at) + 1 /\ Left(sweep, seen)
      /\ Len(at) \in Nat
  BY <1>1, NodesAre DEF Sweeps, SweepState, Root
<1>3. todo = todos[Len(at) + 1]
  BY <1>2 DEF Last
<1>4. PICK p \in todo :
        sweep' = [sweep EXCEPT !.at = p, !.left = Append(Front(@), todo \ {p}) \o <<Children(p)>>]
  BY DEF Descend
<1> DEFINE rest == Append(Front(todos), todo \ {p}) \o <<Children(p)>>
           w == [sweep EXCEPT !.at = p, !.left = rest]
<1>5. p \in DOMAIN seen /\ Beside(at, Len(at) + 1, p) /\ p \in Nodes
  <2>1. Len(at) + 1 \in 1..Len(todos)
    BY <1>2
  <2>2. p \in DOMAIN seen /\ Beside(at, Len(at) + 1, p)
    BY <1>2, <1>3, <2>1 DEF Left
  <2>3. QED
    BY <2>2, InTypes
<1>6. /\ p \in Seq(Hash) /\ Len(p) = Len(at) + 1 /\ SubSeq(p, 1, Len(at)) = SubSeq(at, 1, Len(at))
      /\ SubSeq(p, 1, Len(p)) = p
  <2>1. Len(at) + 1 - 1 = Len(at)
    BY <1>2
  <2>2. p \in Seq(Hash)
    BY <1>5, NodesAre
  <2>3. QED
    BY <1>5, <2>1, <2>2, SubSeqFull DEF Beside
<1>7. /\ Front(todos) \in Seq(SUBSET Nodes) /\ Len(Front(todos)) = Len(at)
      /\ \A k \in 1..Len(at) : Front(todos)[k] = todos[k]
  <2> DEFINE T == SUBSET Nodes
  <2>1. todos \in Seq(T) /\ Len(at) \in Nat /\ Len(todos) = Len(at) + 1
    BY <1>2
  <2> HIDE DEF T, todos
  <2>2. /\ Front(todos) \in Seq(T) /\ Len(Front(todos)) = Len(at)
        /\ \A k \in 1..Len(at) : Front(todos)[k] = todos[k]
    BY <2>1, AllButLast
  <2>3. QED
    BY <2>2 DEF T
<1>8. todo \in SUBSET Nodes /\ Children(p) \in SUBSET Nodes
  <2>1. todos[Len(at) + 1] \in SUBSET Nodes
    BY <1>2
  <2>2. \A q \in Children(p) : q \in Nodes
    BY <1>5, ChildrenAre DEF TreeInv
  <2>3. QED
    BY <1>3, <2>1, <2>2
<1> HIDE DEF todo, todos
<1>9. /\ rest \in Seq(SUBSET Nodes) /\ Len(rest) = Len(at) + 2
      /\ \A k \in 1..Len(at) : rest[k] = todos[k]
      /\ rest[Len(at) + 1] = todo \ {p} /\ rest[Len(at) + 2] = Children(p)
  <2> DEFINE a == Append(Front(todos), todo \ {p})
  <2>1. todo \ {p} \in SUBSET Nodes
    BY <1>8
  <2>2. /\ a \in Seq(SUBSET Nodes) /\ Len(a) = Len(at) + 1
        /\ \A k \in 1..Len(at) : a[k] = todos[k]
        /\ a[Len(at) + 1] = todo \ {p}
    BY <1>7, <2>1, AppendProperties
  <2> HIDE DEF a
  <2>3. <<Children(p)>> \in Seq(SUBSET Nodes) /\ Len(<<Children(p)>>) = 1 /\ <<Children(p)>>[1] = Children(p)
    BY <1>8
  <2> DEFINE b == <<Children(p)>>
  <2> HIDE DEF b
  <2>4. b \in Seq(SUBSET Nodes) /\ Len(b) = 1 /\ b[1] = Children(p)
    BY <2>3 DEF b
  <2> DEFINE T == SUBSET Nodes
  <2>12. a \in Seq(T) /\ b \in Seq(T)
    BY <2>2, <2>4
  <2> HIDE DEF T
  <2>5. /\ a \o b \in Seq(T) /\ Len(a \o b) = Len(a) + Len(b)
        /\ \A i \in 1..(Len(a) + Len(b)) : (a \o b)[i] = IF i <= Len(a) THEN a[i] ELSE b[i - Len(a)]
    BY <2>12, ConcatIs
  <2>6. rest = a \o b
    BY DEF a, b
  <2> HIDE DEF rest
  <2>7. Len(rest) = Len(at) + 2
    BY <1>2, <2>2, <2>4, <2>5, <2>6
  <2>8. \A k \in 1..Len(at) : rest[k] = todos[k]
    <3> SUFFICES ASSUME NEW k \in 1..Len(at)
                 PROVE  rest[k] = todos[k]
      OBVIOUS
    <3>1. k \in 1..(Len(a) + Len(b)) /\ k <= Len(a)
      BY <1>2, <2>2, <2>4
    <3>2. QED
      BY <2>2, <2>5, <2>6, <3>1
  <2>9. rest[Len(at) + 1] = todo \ {p}
    <3>1. Len(at) + 1 \in 1..(Len(a) + Len(b)) /\ Len(at) + 1 <= Len(a)
      BY <1>2, <2>2, <2>4
    <3>2. QED
      BY <2>2, <2>5, <2>6, <3>1
  <2>10. rest[Len(at) + 2] = Children(p)
    <3>1. Len(at) + 2 \in 1..(Len(a) + Len(b)) /\ ~(Len(at) + 2 <= Len(a)) /\ Len(at) + 2 - Len(a) = 1
      BY <1>2, <2>2, <2>4
    <3>2. QED
      BY <2>4, <2>5, <2>6, <3>1
  <2>11. QED
    BY <2>5, <2>6, <2>7, <2>8, <2>9, <2>10 DEF T
<1> HIDE DEF rest
<1>10. /\ w \in SweepState /\ w.pc = "loop" /\ w.at = p /\ w.left = rest /\ w.cutoff = sweep.cutoff
       /\ w.removed = sweep.removed /\ w.by = sweep.by
  BY <1>1, <1>5, <1>9 DEF SweepState
<1>11. sweep' = w
  BY <1>4 DEF rest, todos
<1> HIDE DEF w
<1>12. Left(w, seen)
  <2> SUFFICES ASSUME NEW k \in 1..(Len(at) + 2), NEW q \in rest[k]
               PROVE  q \in DOMAIN seen /\ Beside(p, k, q)
    BY <1>9, <1>10 DEF Left
  <2>1. CASE k \in 1..Len(at)
    <3>1. q \in todos[k] /\ k \in 1..Len(todos) /\ k - 1 \in 0..Len(at) /\ k \in 0..Len(at)
      BY <1>2, <1>9, <2>1 DEF todos
    <3>2. q \in DOMAIN seen /\ Beside(at, k, q)
      BY <1>2, <3>1 DEF Left, todos
    <3>3. \A j \in 0..Len(at) : SubSeq(p, 1, j) = SubSeq(at, 1, j)
      <4> SUFFICES ASSUME NEW j \in 0..Len(at)
                   PROVE  SubSeq(p, 1, j) = SubSeq(at, 1, j)
        OBVIOUS
      <4>1. at \in Seq(Hash)
        <5>1. <<>> \in Seq(Hash)
          OBVIOUS
        <5>2. QED
          BY <1>2, <5>1, NodesAre DEF Root
      <4>2. Len(at) \in 0..Len(p) /\ Len(at) \in 0..Len(at)
        BY <1>2, <1>6
      <4>3. SubSeq(SubSeq(p, 1, Len(at)), 1, j) = SubSeq(p, 1, j)
        BY <1>6, <4>2, PrefixOf
      <4>4. SubSeq(SubSeq(at, 1, Len(at)), 1, j) = SubSeq(at, 1, j)
        BY <4>1, <4>2, PrefixOf
      <4>5. QED
        BY <1>6, <4>3, <4>4
    <3>4. k <= Len(at)
      BY <2>1
    <3>5. QED
      BY <3>1, <3>2, <3>3, <3>4 DEF Beside
  <2>2. CASE k = Len(at) + 1
    <3>1. q \in todo /\ q # p /\ k - 1 = Len(at) /\ k \in 1..Len(todos)
      BY <1>2, <1>9, <2>2 DEF todos
    <3>2. q \in DOMAIN seen /\ Beside(at, k, q)
      BY <1>2, <1>3, <2>2, <3>1 DEF Left, todos
    <3>3. QED
      BY <1>6, <2>2, <3>1, <3>2 DEF Beside
  <2>3. CASE k = Len(at) + 2
    <3>1. q \in Children(p)
      BY <1>9, <2>3
    <3>2. q \in DOMAIN seen /\ Len(q) = Len(p) + 1 /\ SubSeq(q, 1, Len(p)) = p
      BY <1>5, <3>1, ChildrenAre DEF TreeInv
    <3>3. k = Len(p) + 1 /\ k - 1 = Len(p) /\ ~(k <= Len(p))
      BY <1>2, <1>6, <2>3
    <3>4. QED
      BY <1>6, <3>2, <3>3 DEF Beside
  <2>4. k \in 1..Len(at) \/ k = Len(at) + 1 \/ k = Len(at) + 2
    BY <1>2
  <2>5. QED
    BY <2>1, <2>2, <2>3, <2>4
<1>13. Len(rest) = Len(p) + 1
  BY <1>2, <1>6, <1>9
<1>14. Sweeps(w, seen, time)
  BY <1>1, <1>5, <1>10, <1>12, <1>13 DEF Sweeps
<1>15. QED
  BY <1>10, <1>11, <1>14, SweepOnlyKeeps DEF Descend, TreeInv

LEMMA AscendKeeps ==
  ASSUME TreeInv, Ascend
  PROVE  TreeInv'
<1> DEFINE at == sweep.at
           todos == sweep.left
           w == [sweep EXCEPT !.pc = "empty", !.left = Front(@)]
<1>1. /\ sweep.pc = "loop" /\ sweep \in SweepState /\ Sweeps(sweep, seen, time) /\ at # Root
      /\ sweep' = w
  BY InTypes DEF Ascend
<1>2. /\ todos \in Seq(SUBSET Nodes) /\ at \in Nodes /\ Len(todos) = Len(at) + 1 /\ Left(sweep, seen)
      /\ at \in DOMAIN seen
  BY <1>1 DEF Sweeps, SweepState
<1>3. Len(at) \in Nat
  BY <1>2, NodesAre
<1>4. /\ Front(todos) \in Seq(SUBSET Nodes) /\ Len(Front(todos)) = Len(at)
      /\ \A k \in 1..Len(at) : Front(todos)[k] = todos[k]
  <2> DEFINE T == SUBSET Nodes
  <2>1. todos \in Seq(T) /\ Len(at) \in Nat /\ Len(todos) = Len(at) + 1
    BY <1>2, <1>3
  <2> HIDE DEF T, todos
  <2>2. /\ Front(todos) \in Seq(T) /\ Len(Front(todos)) = Len(at)
        /\ \A k \in 1..Len(at) : Front(todos)[k] = todos[k]
    BY <2>1, AllButLast
  <2>3. QED
    BY <2>2 DEF T
<1>5. /\ w \in SweepState /\ w.pc = "empty" /\ w.at = at /\ w.left = Front(todos) /\ w.cutoff = sweep.cutoff
      /\ w.removed = sweep.removed /\ w.by = sweep.by
  BY <1>1, <1>4 DEF SweepState
<1> HIDE DEF w
<1>6. Left(w, seen)
  <2> SUFFICES ASSUME NEW k \in 1..Len(at), NEW q \in todos[k]
               PROVE  q \in DOMAIN seen /\ Beside(at, k, q)
    BY <1>4, <1>5 DEF Left
  <2>1. k \in 1..Len(todos)
    BY <1>2, <1>3
  <2>2. QED
    BY <1>2, <2>1 DEF Left
<1>7. Sweeps(w, seen, time)
  BY <1>1, <1>2, <1>4, <1>5, <1>6 DEF Sweeps
<1>8. QED
  BY <1>1, <1>5, <1>7, SweepOnlyKeeps DEF Ascend, TreeInv

\* After a node was looked at, its parent is gone on with, in a tree s that may lack the node
\* and what is below it.
LEMMA GoingOn ==
  ASSUME TreeInv, sweep.pc \in {"empty", "stale", "drop"}, NEW s, DOMAIN s \subseteq DOMAIN seen,
         \A q \in DOMAIN seen : q \in DOMAIN s \/ q \in Below(sweep.at),
         NEW w \in SweepState, w.pc = "loop", w.at = Front(sweep.at), w.left = sweep.left,
         w.cutoff = sweep.cutoff
  PROVE  Sweeps(w, s, time) /\ Len(sweep.at) \in Nat \ {0} /\ sweep.at \in DOMAIN seen
<1> DEFINE at == sweep.at
<1>1. /\ at \in DOMAIN seen /\ Len(w.left) = Len(at) /\ Left(sweep, seen)
      /\ (w.cutoff = 0 \/ w.cutoff + MaxAge <= time) /\ Types /\ Closed(seen)
  <2>1. Sweeps(sweep, seen, time) /\ sweep.pc # "none" /\ sweep.pc # "loop"
    BY DEF TreeInv
  <2>2. at \in DOMAIN seen \cup {Root} /\ at # Root /\ Len(w.left) = Len(at) + 0
    BY <2>1 DEF Sweeps
  <2>3. at \in Nodes
    BY <2>2 DEF TreeInv, Types
  <2>4. QED
    BY <2>1, <2>2, <2>3, NodesAre DEF Sweeps, TreeInv
<1>2. at \in Nodes
  BY <1>1 DEF Types
<1>3. /\ Len(at) \in Nat \ {0} /\ Len(Front(at)) = Len(at) - 1
      /\ \A j \in 0..(Len(at) - 1) : SubSeq(Front(at), 1, j) = SubSeq(at, 1, j)
      /\ Front(at) \in DOMAIN seen \cup {Root} /\ at = SubSeq(at, 1, Len(at))
  BY <1>1, <1>2, FrontIs, SubSeqFull
<1>4. \A q : q \in Below(at) <=> q \in DOMAIN seen /\ Len(at) <= Len(q) /\ SubSeq(q, 1, Len(at)) = at
  BY <1>1, <1>2, BelowIs
<1>5. Front(at) \in DOMAIN s \cup {Root}
  <2>1. ~(Len(at) <= Len(Front(at)))
    BY <1>3
  <2>2. Front(at) \notin Below(at)
    BY <1>4, <2>1
  <2>3. QED
    BY <1>3, <2>2
<1>6. Len(w.left) = Len(w.at) + 1
  BY <1>1, <1>3
<1>7. Left(w, s)
  <2> SUFFICES ASSUME NEW k \in 1..Len(at), NEW q \in sweep.left[k]
               PROVE  q \in DOMAIN s /\ Beside(Front(at), k, q)
    BY <1>1 DEF Left
  <2>1. q \in DOMAIN seen /\ Beside(at, k, q)
    BY <1>1 DEF Left
  <2>2. Len(q) = k /\ SubSeq(q, 1, k - 1) = SubSeq(at, 1, k - 1) /\ q # SubSeq(at, 1, k)
    BY <1>3, <2>1 DEF Beside
  <2>3. q \in Seq(Hash) /\ SubSeq(q, 1, k) = q
    <3>1. q \in Nodes
      BY <2>1 DEF TreeInv, Types
    <3>2. QED
      BY <2>2, <3>1, NodesAre, SubSeqFull
  <2>4. q \notin Below(at)
    <3> SUFFICES ASSUME Len(at) <= Len(q), SubSeq(q, 1, Len(at)) = at
                 PROVE  FALSE
      BY <1>4
    <3>1. k = Len(at)
      BY <1>3, <2>2
    <3>2. QED
      BY <1>3, <2>2, <2>3, <3>1
  <2>5. k - 1 \in 0..(Len(at) - 1) /\ (k <= Len(at) - 1 => k \in 0..(Len(at) - 1))
    BY <1>3
  <2>6. Beside(Front(at), k, q)
    BY <1>3, <2>2, <2>5 DEF Beside
  <2>7. QED
    BY <2>1, <2>4, <2>6
<1>8. w.pc # "none" /\ w.pc # "drop"
  OBVIOUS
<1>9. QED
  BY <1>1, <1>3, <1>5, <1>6, <1>7, <1>8 DEF Sweeps

LEMMA KeepIs ==
  ASSUME TreeInv, sweep.pc \in {"empty", "stale", "drop"}
  PROVE  /\ Keep \in SweepState /\ Keep.pc = "loop" /\ Keep.at = Front(sweep.at) /\ Keep.left = sweep.left
         /\ Keep.cutoff = sweep.cutoff /\ Keep.removed = sweep.removed /\ Keep.by = sweep.by
<1>1. sweep \in SweepState /\ Sweeps(sweep, seen, time)
  BY InTypes
<1>2. sweep.at \in Nodes
  <2>1. sweep.pc # "none" /\ sweep.pc # "loop"
    OBVIOUS
  <2>2. QED
    BY <1>1, <2>1, InTypes DEF Sweeps
<1>3. Front(sweep.at) \in Nodes \cup {Root}
  BY <1>2, FrontIs
<1>4. QED
  BY <1>1, <1>3 DEF Keep, SweepState

LEMMA LookedAt ==
  ASSUME TreeInv, sweep.pc \in {"empty", "stale"}, NEW pc \in {"stale", "drop"},
         pc = "drop" => seen[sweep.at] < sweep.cutoff,
         sweep' = Keep \/ sweep' = [sweep EXCEPT !.pc = pc],
         UNCHANGED <<records, time, seen, count, record, promised, setBack, leaked>>
  PROVE  TreeInv'
<1>1. CASE sweep' = Keep
  <2>1. /\ Keep \in SweepState /\ Keep.pc = "loop" /\ Keep.at = Front(sweep.at) /\ Keep.left = sweep.left
        /\ Keep.cutoff = sweep.cutoff /\ Keep.removed = sweep.removed /\ Keep.by = sweep.by
    BY KeepIs
  <2>2. Sweeps(Keep, seen, time)
    BY <2>1, GoingOn
  <2>3. QED
    BY <1>1, <2>1, <2>2, SweepOnlyKeeps DEF TreeInv
<1>2. CASE sweep' = [sweep EXCEPT !.pc = pc]
  <2> DEFINE w == [sweep EXCEPT !.pc = pc]
  <2>1. sweep \in SweepState /\ Sweeps(sweep, seen, time)
    BY InTypes
  <2>2. /\ w \in SweepState /\ w.pc = pc /\ w.at = sweep.at /\ w.left = sweep.left /\ w.late = sweep.late
        /\ w.cutoff = sweep.cutoff /\ w.removed = sweep.removed /\ w.by = sweep.by
    BY <2>1 DEF SweepState
  <2> HIDE DEF w
  <2>3. Left(w, seen)
    BY <2>1, <2>2 DEF Left, Sweeps
  <2>4. Sweeps(w, seen, time)
    BY <2>1, <2>2, <2>3 DEF Sweeps
  <2>5. QED
    BY <1>2, <2>2, <2>4, SweepOnlyKeeps DEF TreeInv, w
<1>3. QED
  BY <1>1, <1>2

LEMMA IsEmptyKeeps ==
  ASSUME TreeInv, IsEmpty
  PROVE  TreeInv'
BY LookedAt DEF IsEmpty

LEMMA IsStaleKeeps ==
  ASSUME TreeInv, IsStale
  PROVE  TreeInv'
BY LookedAt DEF IsStale

LEMMA NoSweepIs == NoSweep \in SweepState /\ \A s, t : Sweeps(NoSweep, s, t)
<1>1. NoSweep \in SweepState
  BY DEF NoSweep, SweepState
<1>2. NoSweep.pc = "none"
  BY DEF NoSweep
<1>3. QED
  BY <1>1, <1>2 DEF Sweeps

LEMMA EndSweepKeeps ==
  ASSUME TreeInv, EndSweep
  PROVE  TreeInv'
<1> DEFINE walk(r) == [record[r] EXCEPT !.pc = "walk"]
<1>1. /\ count' = count - sweep.removed /\ sweep' = NoSweep
      /\ record' = [r \in Request |-> IF r \in sweep.by THEN walk(r) ELSE record[r]]
      /\ UNCHANGED <<records, time, seen, promised, setBack, leaked>>
  BY DEF EndSweep
<1>2. \A r \in Request : record[r] \in RecordState /\ Walks(record[r], seen, setBack, time)
  BY InTypes
<1>3. ASSUME NEW r \in Request, r \in sweep.by
      PROVE  walk(r) \in RecordState /\ Walks(walk(r), seen, setBack, time)
  <2> DEFINE c == record[r]
             d == walk(r)
  <2>1. c.pc = "full" /\ c \in RecordState /\ Walks(c, seen, setBack, time)
    BY <1>2, <1>3 DEF TreeInv
  <2>2. c.path \in Path /\ c.now \in 1..time /\ c.depth = 0 /\ c.adrift = {}
    BY <2>1 DEF Walks
  <2>3. /\ d \in RecordState /\ d.pc = "walk" /\ d.path = c.path /\ d.now = c.now /\ d.depth = c.depth
        /\ d.adrift = c.adrift
    BY <2>1 DEF RecordState
  <2>4. 0 < Len(c.path)
    BY <2>2, PathsAre
  <2> HIDE DEF d
  <2>5. Walks(d, seen, setBack, time)
    BY <2>2, <2>3, <2>4 DEF Walks
  <2>6. QED
    BY <2>3, <2>5 DEF d
<1> HIDE DEF walk
<1>4. record' \in [Request -> RecordState] /\ \A r \in Request : Walks(record'[r], seen, setBack, time)
  BY <1>1, <1>2, <1>3
<1>5. Types'
  BY <1>1, <1>4, NoSweepIs DEF TreeInv, Types
<1>6. count' = Cardinality(DOMAIN seen') + sweep'.removed + leaked'
  <2>1. Cardinality(DOMAIN seen) \in Nat
    BY InTypes
  <2>2. sweep.removed \in Nat /\ leaked \in Nat
    BY DEF TreeInv, Types, SweepState
  <2>3. count = Cardinality(DOMAIN seen) + sweep.removed + leaked
    BY DEF TreeInv
  <2>4. NoSweep.removed = 0
    BY DEF NoSweep
  <2>5. count - sweep.removed = Cardinality(DOMAIN seen) + NoSweep.removed + leaked
    BY <2>1, <2>2, <2>3, <2>4
  <2>6. QED
    BY <1>1, <2>5
<1>7. \A r \in sweep'.by : record'[r].pc = "full"
  BY <1>1 DEF NoSweep
<1>8. QED
  BY <1>1, <1>4, <1>5, <1>6, <1>7, NoSweepIs DEF TreeInv

LEMMA PassTimeKeeps ==
  ASSUME TreeInv, PassTime
  PROVE  TreeInv'
<1>1. /\ time' = time + 1 /\ time < LastTime
      /\ UNCHANGED <<records, seen, count, record, sweep, setBack, leaked>>
  BY DEF PassTime
<1> DEFINE old == {q \in DOMAIN promised : time + 1 - promised[q] > MaxAge}
<1>2. promised' = [q \in DOMAIN promised \ old |-> promised[q]]
  <2>1. promised' = Forget({q \in DOMAIN promised : time' - promised[q] > MaxAge})
    BY DEF PassTime
  <2>2. {q \in DOMAIN promised : time' - promised[q] > MaxAge} = old
    <3>3. time' = time + 1 /\ time \in Nat /\ MaxAge \in Nat /\ \A x \in DOMAIN promised : promised[x] \in Nat
      BY <1>1, InTypes DEF TreeInv, Types
    <3>1. \A q : q \in {x \in DOMAIN promised : time' - promised[x] > MaxAge} <=> q \in old
      BY <3>3
    <3> HIDE DEF old
    <3>2. QED
      BY <3>1
  <2> HIDE DEF old
  <2>3. promised' = Forget(old)
    BY <2>1, <2>2
  <2>4. QED
    BY <2>3 DEF Forget
<1>3. time \in Nat /\ time + 1 \in Nat /\ LastTime \in Nat /\ time <= time + 1 /\ MaxAge \in Nat
      /\ time + 1 \in 1..LastTime
  BY <1>1, InTypes
<1>4. \A r \in Request : Walks(record[r], seen, setBack, time + 1)
  BY <1>3, InTypes, StaysWalking, SameIsBetter
<1>5. Sweeps(sweep, seen, time + 1)
  <2> DEFINE t2 == time + 1
  <2>4. t2 \in Nat /\ time <= t2 /\ time \in Nat
    BY <1>3
  <2> HIDE DEF t2
  <2>1. sweep \in SweepState /\ Sweeps(sweep, seen, time)
    BY InTypes
  <2>2. DOMAIN seen \subseteq DOMAIN seen /\ seen[sweep.at] = seen[sweep.at]
    OBVIOUS
  <2>3. Sweeps(sweep, seen, t2)
    BY <2>1, <2>2, <2>4, StaysSweeping
  <2>5. QED
    BY <2>3 DEF t2
<1>6. \A q \in DOMAIN promised : promised[q] \in Nat /\ \A i \in 1..Len(q) : Reached(seen, setBack, SubSeq(q, 1, i), promised[q])
  BY DEF TreeInv, Types, Promises
<1>7. \A q \in DOMAIN promised : q \notin old => promised[q] + MaxAge >= time + 1
  <2> SUFFICES ASSUME NEW q \in DOMAIN promised, ~(time + 1 - promised[q] > MaxAge)
               PROVE  promised[q] + MaxAge >= time + 1
    OBVIOUS
  <2>1. promised[q] \in Nat
    BY <1>6
  <2>2. QED
    BY <1>3, <2>1
<1> HIDE DEF old
<1>8. DOMAIN promised' = DOMAIN promised \ old /\ \A q \in DOMAIN promised' : promised'[q] = promised[q]
  BY <1>2
<1>9. Promises(promised', seen, setBack, time + 1)
  BY <1>6, <1>7, <1>8 DEF Promises
<1>10. promised' \in [DOMAIN promised' -> Nat] /\ DOMAIN promised' \subseteq Nodes
  BY <1>2, <1>6 DEF TreeInv, Types
<1>11. Types'
  BY <1>1, <1>3, <1>10 DEF TreeInv, Types
<1>12. QED
  BY <1>1, <1>4, <1>5, <1>9, <1>11 DEF TreeInv

-----------------------------------------------------------------------------
\* What is not gone is as it was.
LEMMA CutKeeps ==
  ASSUME NEW s, NEW b, NEW gone, NEW n, n \notin gone, NEW x, Reached(s, b, n, x)
  PROVE  Reached([q \in DOMAIN s \ gone |-> s[q]], b \ gone, n, x)
BY DEF Reached

\* Who is below what is gone, is gone.
LEMMA GoneBelow ==
  ASSUME Types, NEW p \in Nodes, NEW path \in Seq(Hash), NEW d \in 1..Len(path), NEW i \in 1..d,
         SubSeq(path, 1, d) \in DOMAIN seen, SubSeq(path, 1, i) \in Below(p)
  PROVE  SubSeq(path, 1, d) \in Below(p) /\ Len(p) \in 1..i /\ SubSeq(path, 1, Len(p)) = p
<1>1. Len(p) \in Nat \ {0} /\ Len(path) \in Nat
  BY NodesAre
<1>2. d \in 0..Len(path) /\ i \in 0..Len(path)
  BY <1>1
<1>3. Len(SubSeq(path, 1, i)) = i /\ \A j \in 0..i : SubSeq(SubSeq(path, 1, i), 1, j) = SubSeq(path, 1, j)
  BY <1>2, PrefixOf
<1>4. Len(SubSeq(path, 1, d)) = d /\ \A j \in 0..d : SubSeq(SubSeq(path, 1, d), 1, j) = SubSeq(path, 1, j)
  BY <1>2, PrefixOf
<1>5. \A q : q \in Below(p) <=> q \in DOMAIN seen /\ Len(p) <= Len(q) /\ SubSeq(q, 1, Len(p)) = p
  BY BelowIs
<1>6. Len(p) <= i /\ SubSeq(SubSeq(path, 1, i), 1, Len(p)) = p
  BY <1>3, <1>5
<1>7. Len(p) \in 0..i /\ Len(p) \in 0..d /\ Len(p) <= d /\ Len(p) \in 1..i
  BY <1>1, <1>2, <1>6
<1>8. SubSeq(path, 1, Len(p)) = p
  BY <1>3, <1>6, <1>7
<1>9. QED
  BY <1>4, <1>5, <1>7, <1>8

LEMMA DropsWalking ==
  ASSUME TreeInv, NEW p \in Nodes, NEW r \in Request,
         record[r].adrift = {} /\ record[r].depth > 0 => NodeOf(r) \notin Below(p)
  PROVE  Walks(record[r], [q \in DOMAIN seen \ Below(p) |-> seen[q]], setBack \ Below(p), time)
<1> DEFINE c == record[r]
           gone == Below(p)
           s2 == [q \in DOMAIN seen \ gone |-> seen[q]]
           b2 == setBack \ gone
<1>1. c \in RecordState /\ Walks(c, seen, setBack, time) /\ Types
  BY InTypes DEF TreeInv
<1>2. c.depth \in Nat
  BY <1>1 DEF RecordState
<1>3. c.adrift = {} /\ c.depth > 0 =>
        SubSeq(c.path, 1, c.depth) \in DOMAIN seen /\ SubSeq(c.path, 1, c.depth) \notin gone
  BY <1>1 DEF Walks, NodeOf
<1>4. c.adrift = {} /\ c.depth > 0 => SubSeq(c.path, 1, c.depth) \in DOMAIN s2
  BY <1>3
<1>5. ASSUME c.adrift = {}, NEW i \in 1..(c.depth - IF c.pc = "touch" THEN 1 ELSE 0)
      PROVE  Reached(s2, b2, SubSeq(c.path, 1, i), c.now)
  <2>1. Reached(seen, setBack, SubSeq(c.path, 1, i), c.now)
    BY <1>1, <1>5 DEF Walks
  <2>2. i \in 1..c.depth /\ c.depth > 0
    BY <1>2
  <2>3. c.pc # "none" /\ c.pc # "full"
    BY <1>1, <2>2 DEF Walks, NoRecord
  <2>4. c.path \in Path /\ c.pc \in {"walk", "touch"}
    BY <1>1, <2>3 DEF Walks, RecordState
  <2>5. c.path \in Seq(Hash) /\ Len(c.path) \in Nat
    BY <2>4, PathsAre
  <2>6. c.depth \in 1..Len(c.path)
    BY <1>1, <1>2, <2>2, <2>4, <2>5 DEF Walks
  <2>7. SubSeq(c.path, 1, i) \notin gone
    <3> SUFFICES ASSUME SubSeq(c.path, 1, i) \in gone
                 PROVE  FALSE
      OBVIOUS
    <3>1. SubSeq(c.path, 1, c.depth) \in DOMAIN seen /\ SubSeq(c.path, 1, c.depth) \notin gone
      BY <1>3, <1>5, <2>2
    <3> HIDE DEF c
    <3>2. QED
      BY <1>1, <2>2, <2>5, <2>6, <3>1, GoneBelow
  <2> HIDE DEF gone, c
  <2>8. QED
    BY <2>1, <2>7, CutKeeps
<1> HIDE DEF s2, b2, c
<1>6. Walks(c, s2, b2, time)
  BY <1>1, <1>4, <1>5 DEF Walks
<1>7. QED
  BY <1>6 DEF s2, b2, c

LEMMA DropsPromised ==
  ASSUME TreeInv, sweep.pc = "drop", NEW p \in Nodes, p = sweep.at, Below(p) \subseteq DOMAIN seen,
         NEW m, m = IF sweep.late \/ p \in setBack THEN Forget(Below(p)) ELSE promised
  PROVE  /\ Promises(m, [q \in DOMAIN seen \ Below(p) |-> seen[q]], setBack \ Below(p), time)
         /\ m \in [DOMAIN m -> Nat] /\ DOMAIN m \subseteq Nodes
<1> DEFINE gone == Below(p)
           s2 == [q \in DOMAIN seen \ gone |-> seen[q]]
           b2 == setBack \ gone
<1>1. /\ Types /\ Sweeps(sweep, seen, time) /\ Promises(promised, seen, setBack, time)
      /\ sweep \in SweepState /\ time \in Nat /\ MaxAge \in Nat
  BY InTypes DEF TreeInv
<1>2. promised \in [DOMAIN promised -> Nat] /\ DOMAIN promised \subseteq Nodes
  BY <1>1 DEF Types
<1>3. /\ DOMAIN m \subseteq DOMAIN promised /\ \A q \in DOMAIN m : m[q] = promised[q]
      /\ m \in [DOMAIN m -> Nat]
      /\ (sweep.late \/ p \in setBack => \A q \in DOMAIN m : q \notin gone)
  <2>1. CASE sweep.late \/ p \in setBack
    <3>1. m = [q \in DOMAIN promised \ gone |-> promised[q]]
      BY <2>1 DEF Forget
    <3> HIDE DEF gone
    <3>2. QED
      BY <1>2, <3>1
  <2>2. CASE ~(sweep.late \/ p \in setBack)
    BY <1>2, <2>2
  <2>3. QED
    BY <2>1, <2>2
<1>4. ASSUME NEW q \in DOMAIN m, NEW i \in 1..Len(q)
      PROVE  SubSeq(q, 1, i) \notin gone
  <2> SUFFICES ASSUME SubSeq(q, 1, i) \in gone
               PROVE  FALSE
    OBVIOUS
  <2>1. q \in DOMAIN promised /\ q \in Nodes
    BY <1>2, <1>3
  <2>2. q \in Seq(Hash) /\ Len(q) \in Nat \ {0} /\ Len(q) \in 1..Len(q) /\ SubSeq(q, 1, Len(q)) = q
    BY <2>1, NodesAre, SubSeqFull
  <2>3. promised[q] + MaxAge >= time /\ \A k \in 1..Len(q) : Reached(seen, setBack, SubSeq(q, 1, k), promised[q])
    BY <1>1, <2>1 DEF Promises
  <2>4. q \in DOMAIN seen
    BY <2>2, <2>3 DEF Reached
  <2>5. q \in gone /\ Len(p) \in 1..i /\ SubSeq(q, 1, Len(p)) = p
    <3>1. SubSeq(q, 1, Len(q)) \in DOMAIN seen
      BY <2>2, <2>4
    <3>2. Types /\ q \in Seq(Hash) /\ Len(q) \in 1..Len(q) /\ SubSeq(q, 1, i) \in Below(p)
      BY <1>1, <2>2
    <3>3. SubSeq(q, 1, Len(q)) \in Below(p) /\ Len(p) \in 1..i /\ SubSeq(q, 1, Len(p)) = p
      <4> DEFINE d == Len(q)
      <4>1. d \in 1..Len(q) /\ i \in 1..d /\ SubSeq(q, 1, d) \in DOMAIN seen
        BY <3>1, <3>2
      <4> HIDE DEF d
      <4>2. SubSeq(q, 1, d) \in Below(p) /\ Len(p) \in 1..i /\ SubSeq(q, 1, Len(p)) = p
        BY <3>2, <4>1, GoneBelow
      <4>3. QED
        BY <4>2 DEF d
    <3>4. QED
      BY <2>2, <3>3
  <2>6. CASE sweep.late \/ p \in setBack
    BY <1>3, <2>5, <2>6
  <2>7. CASE ~(sweep.late \/ p \in setBack)
    <3>1. Len(p) \in 1..Len(q)
      BY <2>2, <2>5
    <3>2. Reached(seen, setBack, p, promised[q])
      BY <2>3, <2>5, <3>1
    <3>3. p \in DOMAIN seen /\ seen[p] >= promised[q]
      BY <2>7, <3>2 DEF Reached
    <3>4. seen[p] < sweep.cutoff /\ (sweep.cutoff = 0 \/ sweep.cutoff + MaxAge <= time)
      BY <1>1, <2>7 DEF Sweeps
    <3>5. seen[p] \in Nat /\ sweep.cutoff \in Nat /\ promised[q] \in Nat
      BY <1>1, <1>2, <2>1, <3>3, InTypes DEF SweepState
    <3>6. promised[q] + MaxAge >= time /\ time \in Nat /\ MaxAge \in Nat
      BY <1>1, <2>3
    <3>7. sweep.cutoff + MaxAge <= time
      BY <3>4, <3>5
    <3>8. sweep.cutoff <= promised[q]
      BY <3>5, <3>6, <3>7
    <3>9. QED
      BY <3>3, <3>4, <3>5, <3>8
  <2>8. QED
    BY <2>6, <2>7
<1>5. ASSUME NEW q \in DOMAIN m
      PROVE  m[q] + MaxAge >= time /\ \A i \in 1..Len(q) : Reached(s2, b2, SubSeq(q, 1, i), m[q])
  <2>1. m[q] + MaxAge >= time /\ \A i \in 1..Len(q) : Reached(seen, setBack, SubSeq(q, 1, i), m[q])
    BY <1>1, <1>3 DEF Promises
  <2> HIDE DEF gone
  <2>2. \A i \in 1..Len(q) : Reached(s2, b2, SubSeq(q, 1, i), m[q])
    BY <1>4, <2>1, CutKeeps
  <2>3. QED
    BY <2>1, <2>2
<1> HIDE DEF s2, b2
<1>6. Promises(m, s2, b2, time)
  BY <1>5 DEF Promises
<1>7. QED
  BY <1>2, <1>3, <1>6 DEF s2, b2

LEMMA DropKeeps ==
  ASSUME TreeInv, Drop
  PROVE  TreeInv'
<1> DEFINE p == sweep.at
           gone == Below(p)
           lost == {r \in Request : record[r].adrift = {} /\ record[r].depth > 0 /\ NodeOf(r) \in gone}
           s2 == [q \in DOMAIN seen \ gone |-> seen[q]]
           b2 == setBack \ gone
           m2 == IF sweep.late \/ p \in setBack THEN Forget(gone) ELSE promised
           w == [Keep EXCEPT !.removed = @ + 1]
           cast(r) == [record[r] EXCEPT !.adrift = lost, !.extra = gone]
<1>1. /\ sweep.pc = "drop" /\ seen' = s2 /\ setBack' = b2 /\ promised' = m2 /\ sweep' = w
      /\ record' = [r \in Request |-> IF r \in lost THEN cast(r) ELSE record[r]]
      /\ leaked' = leaked + Cardinality(gone) - 1
      /\ UNCHANGED <<records, time, count>>
  BY DEF Drop
<1>2. p \in Nodes /\ p \in DOMAIN seen /\ Types /\ Closed(seen)
  <2>1. sweep.pc # "none" /\ sweep.pc # "loop"
    BY <1>1
  <2>2. Sweeps(sweep, seen, time)
    BY InTypes
  <2>3. p \in DOMAIN seen
    BY <2>1, <2>2 DEF Sweeps
  <2>4. QED
    BY <2>3 DEF TreeInv, Types
<1>3. /\ \A q : q \in gone <=> q \in DOMAIN seen /\ Len(p) <= Len(q) /\ SubSeq(q, 1, Len(p)) = p
      /\ gone \subseteq DOMAIN seen
  BY <1>2, BelowIs
<1>4. p \in gone
  <2>1. Len(p) <= Len(p) /\ SubSeq(p, 1, Len(p)) = p
    BY <1>2, NodesAre, SubSeqFull
  <2>2. QED
    BY <1>2, <1>3, <2>1
<1>5. /\ w \in SweepState /\ w.pc = "loop" /\ w.at = Front(p) /\ w.left = sweep.left
      /\ w.cutoff = sweep.cutoff /\ w.removed = sweep.removed + 1 /\ w.by = sweep.by
      /\ sweep.removed \in Nat
  <2>1. /\ Keep \in SweepState /\ Keep.pc = "loop" /\ Keep.at = Front(sweep.at) /\ Keep.left = sweep.left
        /\ Keep.cutoff = sweep.cutoff /\ Keep.removed = sweep.removed /\ Keep.by = sweep.by
    BY <1>1, KeepIs
  <2>2. QED
    BY <2>1 DEF SweepState
<1>6. DOMAIN s2 = DOMAIN seen \ gone /\ \A q \in DOMAIN s2 : s2[q] = seen[q]
  OBVIOUS
<1> HIDE DEF w
<1>7. Sweeps(w, s2, time)
  <2>1. DOMAIN s2 \subseteq DOMAIN seen /\ \A q \in DOMAIN seen : q \in DOMAIN s2 \/ q \in Below(sweep.at)
    BY <1>6
  <2> HIDE DEF s2, gone
  <2>2. QED
    BY <1>1, <1>5, <2>1, GoingOn
<1>8. Promises(m2, s2, b2, time) /\ m2 \in [DOMAIN m2 -> Nat] /\ DOMAIN m2 \subseteq Nodes
  <2>1. Below(p) \subseteq DOMAIN seen /\ m2 = IF sweep.late \/ p \in setBack THEN Forget(Below(p)) ELSE promised
    BY <1>3
  <2> HIDE DEF m2
  <2>2. QED
    BY <1>1, <1>2, <2>1, DropsPromised
<1>9. /\ IsFiniteSet(DOMAIN s2) /\ Cardinality(gone) \in Nat \ {0} /\ Cardinality(DOMAIN seen) \in Nat
      /\ Cardinality(DOMAIN s2) = Cardinality(DOMAIN seen) - Cardinality(gone)
  <2>1. IsFiniteSet(DOMAIN seen) /\ gone \in SUBSET DOMAIN seen
    BY <1>2, <1>3 DEF Types
  <2> HIDE DEF gone
  <2>2. IsFiniteSet(gone) /\ Cardinality(gone) \in Nat /\ Cardinality(DOMAIN seen) \in Nat
    BY <2>1, FS_Subset, FS_CardinalityType
  <2>3. Cardinality(gone) # 0
    BY <1>4, <2>2, FS_EmptySet
  <2>4. /\ IsFiniteSet(DOMAIN seen \ gone)
        /\ Cardinality(DOMAIN seen \ gone) = Cardinality(DOMAIN seen) - Cardinality(DOMAIN seen \cap gone)
    BY <2>1, FS_Difference
  <2>5. DOMAIN seen \cap gone = gone
    BY <2>1
  <2>6. QED
    BY <1>6, <2>2, <2>3, <2>4, <2>5
<1>10. leaked' \in Nat /\ count' = Cardinality(DOMAIN seen') + sweep'.removed + leaked'
  <2> DEFINE g == Cardinality(gone)
             d == Cardinality(DOMAIN seen)
             e == Cardinality(DOMAIN s2)
  <2>1. /\ leaked \in Nat /\ count = d + sweep.removed + leaked
        /\ g \in Nat \ {0} /\ d \in Nat /\ e = d - g /\ sweep.removed \in Nat
    BY <1>2, <1>5, <1>9 DEF TreeInv, Types
  <2>2. count' = count /\ leaked' = leaked + g - 1 /\ Cardinality(DOMAIN seen') = e
        /\ sweep'.removed = sweep.removed + 1
    BY <1>1, <1>5
  <2> HIDE DEF g, d, e
  <2>3. leaked + g - 1 \in Nat /\ d + sweep.removed + leaked = e + (sweep.removed + 1) + (leaked + g - 1)
    BY <2>1
  <2>4. QED
    BY <2>1, <2>2, <2>3
<1>11. ASSUME NEW r \in Request, r \in lost
       PROVE  /\ cast(r) \in RecordState /\ cast(r).pc = record[r].pc
              /\ Walks(cast(r), s2, b2, time)
  <2> DEFINE c == record[r]
             d == cast(r)
  <2>1. c \in RecordState /\ Walks(c, seen, setBack, time)
    BY InTypes
  <2>2. lost \subseteq Request /\ lost # {} /\ gone \subseteq Nodes /\ c.depth > 0 /\ c.adrift = {}
    BY <1>2, <1>3, <1>11 DEF Types
  <2>3. c.pc # "none" /\ c.pc # "full"
    BY <2>1, <2>2 DEF Walks, NoRecord
  <2> HIDE DEF lost, gone
  <2>4. /\ d \in RecordState /\ d.pc = c.pc /\ d.path = c.path /\ d.depth = c.depth /\ d.now = c.now
        /\ d.adrift = lost
    BY <2>1, <2>2 DEF RecordState
  <2> HIDE DEF d
  <2>5. Walks(d, s2, b2, time)
    BY <2>1, <2>2, <2>3, <2>4 DEF Walks
  <2>6. QED
    BY <2>4, <2>5 DEF d
<1>12. ASSUME NEW r \in Request, r \notin lost
       PROVE  Walks(record[r], s2, b2, time)
  <2>1. record[r].adrift = {} /\ record[r].depth > 0 => NodeOf(r) \notin Below(p)
    BY <1>12
  <2>2. QED
    BY <1>2, <2>1, DropsWalking
<1>13. \A r \in Request : record[r] \in RecordState
  BY InTypes
<1> HIDE DEF lost, cast
<1>14. \A r \in Request : record'[r] \in RecordState /\ record'[r].pc = record[r].pc
                          /\ Walks(record'[r], s2, b2, time)
  BY <1>1, <1>11, <1>12, <1>13
<1>15. record' \in [Request -> RecordState]
  BY <1>1, <1>14
<1>16. seen' \in [DOMAIN seen' -> 1..LastTime] /\ DOMAIN seen' \subseteq Nodes /\ IsFiniteSet(DOMAIN seen')
  <2>1. \A q \in DOMAIN seen : q \in Nodes /\ seen[q] \in 1..LastTime
    BY InTypes
  <2>2. s2 \in [DOMAIN seen \ gone -> 1..LastTime]
    BY <2>1
  <2>3. QED
    BY <1>1, <1>6, <1>9, <2>1, <2>2
<1>17. setBack' \subseteq Nodes
  BY <1>1, <1>2 DEF Types
<1>18. promised' \in [DOMAIN promised' -> Nat] /\ DOMAIN promised' \subseteq Nodes
  BY <1>1, <1>8
<1>19. Types'
  <2>1. sweep' \in SweepState
    BY <1>1, <1>5
  <2>2. time \in 1..LastTime /\ records \in 0..MaxRecords
    BY <1>2 DEF Types
  <2> HIDE DEF s2, b2, m2, gone
  <2>3. QED
    BY <1>1, <1>10, <1>15, <1>16, <1>17, <1>18, <2>1, <2>2 DEF Types
<1>20. Closed(s2)
  <2> SUFFICES ASSUME NEW q \in DOMAIN s2, NEW i \in 1..Len(q)
               PROVE  SubSeq(q, 1, i) \in DOMAIN s2
    BY DEF Closed
  <2>1. q \in DOMAIN seen /\ q \notin gone /\ SubSeq(q, 1, i) \in DOMAIN seen
    BY <1>2, <1>6 DEF Closed
  <2>2. q \in Seq(Hash) /\ Len(q) \in Nat \ {0} /\ SubSeq(q, 1, Len(q)) = q
    <3>1. q \in Nodes
      BY <2>1, InTypes
    <3>2. QED
      BY <3>1, NodesAre, SubSeqFull
  <2>3. ASSUME SubSeq(q, 1, i) \in gone
        PROVE  FALSE
    <3> DEFINE d == Len(q)
    <3>1. d \in 1..Len(q) /\ i \in 1..d /\ SubSeq(q, 1, d) = q
      BY <2>2
    <3>2. SubSeq(q, 1, d) \in DOMAIN seen /\ SubSeq(q, 1, d) \notin Below(p) /\ SubSeq(q, 1, i) \in Below(p)
      BY <2>1, <2>3, <3>1
    <3> HIDE DEF d
    <3>3. QED
      BY <1>2, <2>2, <3>1, <3>2, GoneBelow
  <2>4. QED
    BY <1>6, <2>1, <2>3
<1>21. \A r \in sweep'.by : record'[r].pc = "full"
  <2>1. \A r \in sweep.by : r \in Request /\ record[r].pc = "full"
    BY <1>2 DEF TreeInv, Types, SweepState
  <2>2. QED
    BY <1>1, <1>5, <1>14, <2>1
<1> HIDE DEF s2, b2, m2, gone, p
<1>22. QED
  BY <1>1, <1>7, <1>8, <1>10, <1>14, <1>19, <1>20, <1>21 DEF TreeInv

-----------------------------------------------------------------------------
LEMMA TreeStepKeeps ==
  ASSUME TreeInv, TreeStep
  PROVE  TreeInv'
<1>1. ASSUME NEW r \in Request, SweepWhenFull(r)
      PROVE  TreeInv'
  <2>1. record[r].pc = "full" /\ BeginSweep({r}, record[r].now)
    BY <1>1 DEF SweepWhenFull
  <2>2. record[r].now \in 1..time
    BY <2>1, InTypes DEF Walks
  <2>3. {r} \in SUBSET Request /\ \A q \in {r} : record[q].pc = "full"
    BY <2>1
  <2>4. QED
    BY <2>1, <2>2, <2>3, BeginSweepKeeps
<1>2. ASSUME SweepOnTick
      PROVE  TreeInv'
  <2>1. {} \in SUBSET Request /\ time \in 1..time /\ \A r \in {} : record[r].pc = "full"
    BY InTypes
  <2>2. QED
    BY <1>2, <2>1, BeginSweepKeeps DEF SweepOnTick
<1>3. QED
  BY <1>1, <1>2, StartRecordKeeps, WalkDownKeeps, TouchKeeps, DescendKeeps, AscendKeeps, IsEmptyKeeps,
     IsStaleKeeps, DropKeeps, EndSweepKeeps, PassTimeKeeps DEF TreeStep

LEMMA TreeInitially == TreeInit => TreeInv
<1> SUFFICES ASSUME TreeInit
             PROVE  TreeInv
  OBVIOUS
<1>1. /\ time = 1 /\ seen = <<>> /\ count = 0 /\ promised = <<>> /\ records = 0 /\ setBack = {} /\ leaked = 0
      /\ record = [r \in Request |-> NoRecord] /\ sweep = NoSweep
  BY DEF TreeInit
<1>2. DOMAIN seen = {} /\ DOMAIN promised = {}
  BY <1>1
<1>3. IsFiniteSet({}) /\ Cardinality({}) = 0
  BY FS_EmptySet
<1>4. seen \in [DOMAIN seen -> 1..LastTime] /\ promised \in [DOMAIN promised -> Nat]
  BY <1>1, <1>2
<1>5. Types
  <2>1. time \in 1..LastTime /\ records \in 0..MaxRecords
    BY <1>1, TreeAssumption
  <2>2. record \in [Request -> RecordState] /\ sweep \in SweepState
    BY <1>1, NoRecordIs, NoSweepIs
  <2>3. QED
    BY <1>1, <1>2, <1>3, <1>4, <2>1, <2>2 DEF Types
<1>6. Closed(seen) /\ Promises(promised, seen, setBack, time)
  BY <1>2 DEF Closed, Promises
<1>7. NoSweep.by = {} /\ NoSweep.removed = 0
  BY DEF NoSweep
<1>8. count = Cardinality(DOMAIN seen) + sweep.removed + leaked
  BY <1>1, <1>2, <1>3, <1>7
<1>9. QED
  BY <1>1, <1>5, <1>6, <1>7, <1>8, NoRecordIs, NoSweepIs DEF TreeInv

LEMMA TreeUntouched ==
  ASSUME TreeInv, UNCHANGED tree
  PROVE  TreeInv'
BY DEF TreeInv, Types, tree

LEMMA TreeNext ==
  ASSUME TreeInv, [Next]_vars
  PROVE  TreeInv'
<1>1. CASE StepInTree
  BY <1>1, TreeStepKeeps DEF StepInTree
<1>2. CASE ~StepInTree
  BY <1>2, TreeUntouched DEF Next, vars, StepInConfig, StepInPool, StepInQuality, StepInIngest, StepInCompletion
<1>3. QED
  BY <1>1, <1>2

LEMMA TreeInvariant == Spec => []TreeInv
<1>1. Init => TreeInv
  BY TreeInitially DEF Init
<1>2. TreeInv /\ [Next]_vars => TreeInv'
  BY TreeNext
<1>3. QED
  BY <1>1, <1>2, PTL DEF Spec

-----------------------------------------------------------------------------
(* What is looked up in the tree.                                          *)

LEMMA GreatestOf ==
  ASSUME NEW n \in Nat, NEW S \in SUBSET (0..n), S # {}
  PROVE  Max(S) \in S /\ \A x \in S : Max(S) >= x
<1> DEFINE T == {n - x : x \in S}
<1>1. T \in SUBSET Nat /\ T # {}
  <2>1. \A x \in S : x \in 0..n /\ n - x \in Nat
    OBVIOUS
  <2>2. QED
    BY <2>1
<1>2. Min(T) \in T /\ \A y \in T : Min(T) <= y
  BY <1>1, LeastOf
<1>3. PICK m \in S : Min(T) = n - m
  BY <1>2
<1>4. \A x \in S : m >= x
  <2> SUFFICES ASSUME NEW x \in S
               PROVE  m >= x
    OBVIOUS
  <2>1. n - x \in T
    OBVIOUS
  <2> HIDE DEF T
  <2>2. n - m <= n - x /\ m \in 0..n /\ x \in 0..n
    BY <1>2, <1>3, <2>1
  <2>3. QED
    BY <2>2
<1>5. QED
  BY <1>4 DEF Max

LEMMA Products ==
  ASSUME NEW x \in Nat, NEW c \in Nat
  PROVE  x * c \in Nat /\ (x + 1) * c = x * c + c /\ \A y \in Nat : x <= y => x * c <= y * c
<1>1. x * c \in Nat
  OBVIOUS
<1>2. (x + 1) * c = x * c + c
  OBVIOUS
<1>3. ASSUME NEW y \in Nat, x <= y
      PROVE  x * c <= y * c
  <2>1. PICK d \in Nat : y = x + d
    <3>1. y - x \in Nat /\ y = x + (y - x)
      BY <1>3
    <3>2. QED
      BY <3>1
  <2>2. (x + d) * c = x * c + d * c
    OBVIOUS
  <2>3. d * c \in Nat
    OBVIOUS
  <2>4. QED
    BY <1>1, <2>1, <2>2, <2>3
<1>4. QED
  BY <1>1, <1>2, <1>3

LEMMA Quotient ==
  ASSUME NEW n \in Nat, NEW c \in Nat \ {0}
  PROVE  /\ n \div c \in Nat /\ (n \div c) * c \in Nat /\ (n \div c) * c <= n
         /\ n % c = 0 => (n \div c) * c = n
         /\ \A i \in Nat : i * c <= n <=> i <= n \div c
<1> DEFINE d == n \div c
<1>1. d \in Nat
  OBVIOUS
<1>2. d * c <= n
  OBVIOUS
<1>3. n < d * c + c
  OBVIOUS
<1>4. n = c * d + (n % c)
  OBVIOUS
<1>5. n % c \in Nat
  OBVIOUS
<1> HIDE DEF d
<1>6. c * d = d * c
  BY <1>1
<1>7. d * c \in Nat /\ (d + 1) * c = d * c + c
  BY <1>1, Products
<1>8. n % c = 0 => d * c = n
  BY <1>4, <1>6, <1>7
<1>9. ASSUME NEW i \in Nat
      PROVE  i * c <= n <=> i <= d
  <2>1. i * c \in Nat /\ (i <= d => i * c <= d * c)
    BY <1>1, Products
  <2>2. d + 1 <= i => (d + 1) * c <= i * c
    <3>1. d + 1 \in Nat
      BY <1>1
    <3> DEFINE e == d + 1
    <3> HIDE DEF e
    <3>2. e \in Nat
      BY <3>1 DEF e
    <3>3. e <= i => e * c <= i * c
      BY <3>2, Products
    <3>4. QED
      BY <3>3 DEF e
  <2> DEFINE dc == d * c
             ic == i * c
             ec == (d + 1) * c
  <2>3. /\ ic \in Nat /\ dc \in Nat /\ ec = dc + c /\ (i <= d => ic <= dc) /\ (d + 1 <= i => ec <= ic)
        /\ dc <= n /\ n < dc + c
    BY <1>2, <1>3, <1>7, <2>1, <2>2
  <2> HIDE DEF dc, ic, ec
  <2>4. ic <= n <=> i <= d
    <3>1. i <= d \/ d + 1 <= i
      BY <1>1
    <3>2. i <= d => ic <= n
      BY <2>3
    <3>3. d + 1 <= i => ~(ic <= n) /\ ~(i <= d)
      BY <1>1, <2>3
    <3>4. QED
      BY <3>1, <3>2, <3>3
  <2>5. QED
    BY <2>4 DEF ic
<1>10. QED
  BY <1>1, <1>2, <1>7, <1>8, <1>9 DEF d

\* What the path of a prompt has in common with that of one it begins.
LEMMA KeptIs ==
  ASSUME NEW p \in Prompt, NEW q \in Prompt, IsPrefix(p, q), p # <<>>
  PROVE  /\ Kept(p, q) \in 0..Len(Chunks(p)) /\ Kept(p, q) <= Len(Chunks(q))
         /\ \A i \in 1..Kept(p, q) : Chunks(p)[i] = Chunks(q)[i]
<1> DEFINE c == ChunkLen
           k == Kept(p, q)
           n == Len(p)
           m == Len(q)
<1>1. /\ c \in Nat \ {0} /\ n \in Nat /\ m \in Nat /\ p \in Seq(Range(p)) /\ q \in Seq(Range(q))
      /\ Len(Chunks(p)) = (n + c - 1) \div c /\ Len(Chunks(q)) = (m + c - 1) \div c
      /\ Len(Chunks(p)) >= 1
  BY ChunksAre, TreeAssumption
<1>2. n <= m /\ SubSeq(q, 1, n) = p
  <2>1. SubSeq(p, 1, n) = p
    BY <1>1, SubSeqFull
  <2>2. QED
    BY <2>1 DEF IsPrefix
<1>3. n + c - 1 \in Nat /\ m + c - 1 \in Nat /\ n + c - 1 <= m + c - 1
  BY <1>1, <1>2
<1>4. Len(Chunks(p)) \in Nat /\ Len(Chunks(q)) \in Nat
  BY <1>1, <1>3, Quotient
<1>5. CASE p = q
  <2>1. k = Len(Chunks(p))
    BY <1>4, <1>5 DEF Kept
  <2>2. QED
    BY <1>4, <1>5, <2>1
<1>6. CASE p # q
  <2>1. k \in Nat /\ k <= Len(Chunks(p)) /\ k * c <= n
    <3> DEFINE l == Len(Chunks(p))
    <3>1. l * c <= n + c - 1 /\ l \in Nat /\ l >= 1 /\ l * c \in Nat
      BY <1>1, <1>3, Quotient
    <3>2. (l - 1) * c = l * c - c /\ l - 1 \in Nat
      <4>1. l - 1 \in Nat
        BY <3>1
      <4>2. (l - 1) * c = l * c - c
        BY <1>1, <3>1
      <4>3. QED
        BY <4>1, <4>2
    <3> HIDE DEF l
    <3>3. CASE n % c = 0
      <4> DEFINE e == n \div c
      <4>1. e \in Nat /\ e * c = n
        BY <1>1, <3>3, Quotient
      <4> HIDE DEF e
      <4>2. l <= e
        <5>1. e + 1 \in Nat /\ (e + 1) * c = n + c
          BY <1>1, <4>1, Products
        <5> DEFINE f == e + 1
        <5> HIDE DEF f
        <5>2. f \in Nat /\ f * c = n + c
          BY <5>1 DEF f
        <5>3. f <= l => f * c <= l * c
          BY <1>1, <3>1, <5>2, Products
        <5>4. ~(f <= l)
          <6> DEFINE lc == l * c
          <6>1. f <= l => n + c <= lc
            BY <5>2, <5>3
          <6>2. lc <= n + c - 1 /\ lc \in Nat /\ n \in Nat /\ c \in Nat
            BY <1>1, <3>1
          <6> HIDE DEF lc
          <6>3. QED
            BY <6>1, <6>2
        <5>5. QED
          BY <3>1, <4>1, <5>4 DEF f
      <4>3. l * c <= n
        BY <1>1, <3>1, <4>1, <4>2, Products
      <4>4. k = l
        BY <3>1, <3>3 DEF Kept, l
      <4>5. QED
        BY <3>1, <4>3, <4>4 DEF l
    <3>4. CASE n % c # 0
      <4>1. k = l - 1
        BY <1>6, <3>4 DEF Kept, l
      <4>2. (l - 1) * c <= n
        BY <1>1, <3>1, <3>2
      <4>3. QED
        BY <3>1, <3>2, <4>1, <4>2 DEF l
    <3>5. QED
      BY <3>3, <3>4
  <2> HIDE DEF k
  <2>2. k <= Len(Chunks(q))
    <3>1. k * c <= m + c - 1
      <4>1. k * c \in Nat
        BY <1>1, <2>1
      <4>2. QED
        BY <1>1, <1>2, <2>1, <4>1
    <3> DEFINE x == m + c - 1
    <3>2. x \in Nat /\ k * c <= x /\ Len(Chunks(q)) = x \div c
      BY <1>1, <1>3, <3>1
    <3> HIDE DEF x
    <3>3. k <= x \div c
      BY <1>1, <2>1, <3>2, Quotient
    <3>4. QED
      BY <3>2, <3>3
  <2>3. ASSUME NEW i \in 1..k
        PROVE  Chunks(p)[i] = Chunks(q)[i]
    <3>1. i \in 1..Len(Chunks(p)) /\ i \in 1..Len(Chunks(q)) /\ i \in Nat /\ i - 1 \in Nat
      BY <1>4, <2>1, <2>2
    <3>2. i * c <= n /\ (i - 1) * c = i * c - c /\ i * c \in Nat /\ (i - 1) * c \in Nat
      <4>1. i * c <= k * c /\ k * c \in Nat /\ i * c \in Nat
        BY <1>1, <2>1, <3>1, Products
      <4>2. (i - 1) * c = i * c - c /\ (i - 1) * c \in Nat
        <5>1. (i - 1) * c = i * c - c
          BY <1>1, <3>1
        <5>2. QED
          BY <1>1, <3>1, <5>1, Products
      <4>3. QED
        BY <1>1, <2>1, <4>1, <4>2
    <3> DEFINE a == (i - 1) * c + 1
               b == i * c
    <3>3. a \in 1..n /\ b \in a..n /\ ~(b > n) /\ ~(b > m) /\ a \in 1..m /\ n \in 1..m /\ 1 \in 1..m
          /\ a \in 1..(n - 1 + 1) /\ b \in 1..(n - 1 + 1)
      BY <1>1, <1>2, <3>2
    <3>4. Chunks(p)[i] = SubSeq(p, a, b) /\ Chunks(q)[i] = SubSeq(q, a, b)
      <4>1. i \in 1..((n + c - 1) \div c) /\ i \in 1..((m + c - 1) \div c)
        BY <1>1, <3>1
      <4>2. QED
        BY <3>3, <4>1 DEF Chunks
    <3> HIDE DEF a, b
    <3>5. SubSeq(SubSeq(q, 1, n), a, b) = SubSeq(q, 1 + a - 1, 1 + b - 1)
      BY <1>1, <3>3, SubSeqOfSubSeq
    <3>6. 1 + a - 1 = a /\ 1 + b - 1 = b
      BY <3>3
    <3>7. QED
      BY <1>2, <3>4, <3>5, <3>6
  <2>4. QED
    BY <1>4, <2>1, <2>2, <2>3 DEF k
<1>7. QED
  BY <1>5, <1>6

\* The deeper of two is put first.
LEMMA DeeperFirst ==
  ASSUME NEW d \in Nat \ {0}
  PROVE  ChooseByKVDepth(<<"other", "this">>, [this |-> d, other |-> 0]) = <<"this", "other">>
<1> DEFINE list == <<"other", "this">>
           depth == [this |-> d, other |-> 0]
           before(i) == {j \in DOMAIN list :
                           \/ depth[list[j]] > depth[list[i]]
                           \/ depth[list[j]] = depth[list[i]] /\ j < i}
           at(k) == CHOOSE i \in DOMAIN list : Cardinality(before(i)) = k - 1
<1>1. DOMAIN list = 1..2 /\ list[1] = "other" /\ list[2] = "this" /\ 1..2 = {1, 2}
  OBVIOUS
<1>2. depth["other"] = 0 /\ depth["this"] = d
  OBVIOUS
<1> HIDE DEF list, depth
<1>3. before(1) = {2}
  <2>1. \A j : j \in before(1) <=> j = 2
    BY <1>1, <1>2
  <2> HIDE DEF before
  <2>2. QED
    BY <2>1
<1>4. before(2) = {}
  <2>1. \A j : j \notin before(2)
    BY <1>1, <1>2
  <2> HIDE DEF before
  <2>2. QED
    BY <2>1
<1> HIDE DEF before
<1>5. Cardinality(before(1)) = 1 /\ Cardinality(before(2)) = 0
  BY <1>3, <1>4, FS_EmptySet, FS_Singleton
<1>6. at(1) = 2
  BY <1>1, <1>5
<1>7. at(2) = 1
  BY <1>1, <1>5
<1>8. ChooseByKVDepth(list, depth) = [k \in DOMAIN list |-> list[at(k)]]
  BY DEF ChooseByKVDepth, before
<1> HIDE DEF at
<1>9. [k \in DOMAIN list |-> list[at(k)]] = <<"this", "other">>
  BY <1>1, <1>6, <1>7
<1>10. QED
  BY <1>8, <1>9 DEF list, depth

LEMMA PromisedIsFresh ==
  ASSUME TreeInv, NEW p \in Prompt, IsPromised(p)
  PROVE  /\ p # <<>>
         /\ \A i \in 1..Len(Chunks(p)) : /\ SubSeq(Chunks(p), 1, i) \in DOMAIN seen
                                         /\ time - seen[SubSeq(Chunks(p), 1, i)] <= MaxAge
<1> DEFINE c == Chunks(p)
<1>1. c \in DOMAIN promised /\ \A i \in DOMAIN c : SubSeq(c, 1, i) \notin setBack
  BY DEF IsPromised
<1>2. promised[c] \in Nat /\ c \in Nodes /\ Promises(promised, seen, setBack, time)
  BY <1>1 DEF TreeInv, Types
<1>3. c \in Seq(Hash) /\ Len(c) \in Nat \ {0} /\ DOMAIN c = 1..Len(c)
  BY <1>2, NodesAre
<1>4. p # <<>>
  <2> SUFFICES ASSUME p = <<>>
               PROVE  FALSE
    OBVIOUS
  <2>1. Len(p) = 0 /\ ChunkLen \in Nat \ {0}
    BY TreeAssumption
  <2>2. Len(c) = (0 + ChunkLen - 1) \div ChunkLen
    BY <2>1, ChunksAre
  <2>3. \A n \in Nat \ {0} : (0 + n - 1) \div n = 0
    OBVIOUS
  <2>4. QED
    BY <1>3, <2>1, <2>2, <2>3
<1>5. ASSUME NEW i \in 1..Len(c)
      PROVE  SubSeq(c, 1, i) \in DOMAIN seen /\ time - seen[SubSeq(c, 1, i)] <= MaxAge
  <2> DEFINE x == SubSeq(c, 1, i)
  <2>1. Reached(seen, setBack, x, promised[c]) /\ promised[c] + MaxAge >= time
    BY <1>1, <1>2 DEF Promises
  <2>2. x \notin setBack
    BY <1>1, <1>3
  <2>3. x \in DOMAIN seen /\ seen[x] >= promised[c]
    BY <2>1, <2>2 DEF Reached
  <2>4. seen[x] \in Nat /\ time \in Nat /\ MaxAge \in Nat
    BY <2>3, InTypes
  <2>5. QED
    BY <1>2, <2>1, <2>3, <2>4
<1>6. QED
  BY <1>4, <1>5

LEMMA DeepEnough ==
  ASSUME NEW q \in Prompt, NEW k \in 0..Len(Chunks(q)),
         \A i \in 1..k : /\ SubSeq(Chunks(q), 1, i) \in DOMAIN seen
                         /\ time - seen[SubSeq(Chunks(q), 1, i)] <= MaxAge
  PROVE  LookupDepth(q) >= k /\ LookupDepth(q) \in Nat
<1> DEFINE path == Chunks(q)
           fresh(i) == SubSeq(path, 1, i) \in DOMAIN seen /\ time - seen[SubSeq(path, 1, i)] <= MaxAge
           D == {0} \cup {d \in 1..Len(path) : \A i \in 1..d : fresh(i)}
<1>1. Len(path) \in Nat
  BY ChunksAre
<1>2. LookupDepth(q) = Max(D)
  BY DEF LookupDepth
<1>3. k \in D
  BY <1>1
<1>4. D \in SUBSET (0..Len(path)) /\ D # {}
  <2>1. \A d \in 1..Len(path) : d \in 0..Len(path)
    BY <1>1
  <2>2. 0 \in 0..Len(path)
    BY <1>1
  <2>3. {d \in 1..Len(path) : \A i \in 1..d : fresh(i)} \subseteq 0..Len(path)
    <3> HIDE DEF fresh, path
    <3>1. QED
      BY <2>1
  <2>4. QED
    BY <2>2, <2>3
<1> HIDE DEF D
<1>5. Max(D) \in D /\ Max(D) >= k
  <2> DEFINE n == Len(path)
  <2>1. n \in Nat /\ D \in SUBSET (0..n) /\ D # {} /\ k \in D
    BY <1>1, <1>3, <1>4
  <2> HIDE DEF n
  <2>2. Max(D) \in D /\ \A x \in D : Max(D) >= x
    BY <2>1, GreatestOf, ZenonT(30)
  <2>3. QED
    BY <2>1, <2>2
<1>6. Max(D) \in Nat
  <2> DEFINE m == Max(D)
  <2>1. m \in 0..Len(path)
    BY <1>4, <1>5, Zenon
  <2> HIDE DEF m
  <2>2. m \in Nat
    BY <1>1, <2>1
  <2>3. QED
    BY <2>2 DEF m
<1>7. QED
  BY <1>2, <1>5, <1>6

\* What a backend was lately given is found again, by the prompt and those it begins, and
\* puts that backend first, whatever the prompts, the size of a chunk, and however records
\* and sweeps interleave; the count of nodes is off only by those made below one swept
\* away (Insert, Sweep, LookupDepth, ChooseByKVDepth).
THEOREM PrefixIsKept == Spec => []PrefixKept
<1>1. TreeInv => PrefixKept
  <2> SUFFICES ASSUME TreeInv
               PROVE  PrefixKept
    OBVIOUS
  <2>1. count = Cardinality(DOMAIN seen) + sweep.removed + leaked
    BY DEF TreeInv
  <2>2. ASSUME NEW p \in Prompt, NEW q \in Prompt, IsPromised(p), IsPrefix(p, q)
        PROVE  /\ LookupDepth(q) >= Kept(p, q)
               /\ Kept(p, q) > 0 =>
                    ChooseByKVDepth(<<"other", "this">>, [this |-> LookupDepth(q), other |-> 0])
                      = <<"this", "other">>
    <3> DEFINE k == Kept(p, q)
               cp == Chunks(p)
               cq == Chunks(q)
    <3>1. p # <<>> /\ \A i \in 1..Len(cp) : /\ SubSeq(cp, 1, i) \in DOMAIN seen
                                            /\ time - seen[SubSeq(cp, 1, i)] <= MaxAge
      BY <2>2, PromisedIsFresh
    <3>2. k \in 0..Len(cp) /\ k <= Len(cq) /\ \A i \in 1..k : cp[i] = cq[i]
      BY <2>2, <3>1, KeptIs
    <3>3. cp \in Seq(Hash) /\ cq \in Seq(Hash) /\ Len(cp) \in Nat /\ Len(cq) \in Nat
      BY ChunksAre
    <3> HIDE DEF k, cp, cq
    <3>4. k \in 0..Len(cq)
      BY <3>2, <3>3
    <3>5. ASSUME NEW i \in 1..k
          PROVE  SubSeq(cq, 1, i) = SubSeq(cp, 1, i)
      <4>1. i \in 0..Len(cp) /\ i \in 0..Len(cq) /\ \A j \in 1..i : j \in 1..k
        BY <3>2, <3>3
      <4>2. /\ SubSeq(cp, 1, i) \in Seq(Hash) /\ Len(SubSeq(cp, 1, i)) = i
            /\ SubSeq(cq, 1, i) \in Seq(Hash) /\ Len(SubSeq(cq, 1, i)) = i
        BY <3>3, <4>1, PrefixOf
      <4>3. \A j \in 1..i : SubSeq(cp, 1, i)[j] = cp[j] /\ SubSeq(cq, 1, i)[j] = cq[j]
        BY <3>3, <4>1
      <4>4. \A j \in 1..i : SubSeq(cp, 1, i)[j] = SubSeq(cq, 1, i)[j]
        BY <3>2, <4>1, <4>3
      <4>5. QED
        BY <4>2, <4>4, SeqEqual
    <3>6. \A i \in 1..k : SubSeq(cq, 1, i) \in DOMAIN seen /\ time - seen[SubSeq(cq, 1, i)] <= MaxAge
      <4>1. \A i \in 1..k : i \in 1..Len(cp)
        BY <3>2, <3>3
      <4>2. QED
        BY <3>1, <3>5, <4>1
    <3>7. LookupDepth(q) >= k /\ LookupDepth(q) \in Nat
      BY <3>4, <3>6, DeepEnough DEF cq
    <3>8. k > 0 => LookupDepth(q) \in Nat \ {0}
      BY <3>2, <3>7
    <3>9. k > 0 => ChooseByKVDepth(<<"other", "this">>, [this |-> LookupDepth(q), other |-> 0])
                     = <<"this", "other">>
      BY <3>8, DeeperFirst
    <3>10. QED
      BY <3>7, <3>9 DEF k
  <2>3. QED
    BY <2>1, <2>2 DEF PrefixKept
<1>2. QED
  BY <1>1, TreeInvariant, PTL

-----------------------------------------------------------------------------
(* What is told of a completion.                                           *)

\* Every place has a rank of its own, and every rank up to the number of places a place.
LEMMA RankIs ==
  ASSUME NEW n \in Nat, NEW S \in SUBSET (1..n)
  PROVE  /\ IsFiniteSet(S) /\ Cardinality(S) \in Nat
         /\ \A i \in S : Rank(S, i) \in 1..Cardinality(S)
         /\ \A i, j \in S : i < j => Rank(S, i) < Rank(S, j)
         /\ \A m \in 1..Cardinality(S) : \E i \in S : Rank(S, i) = m
<1>1. IsFiniteSet(S) /\ Cardinality(S) \in Nat
  <2>1. IsFiniteSet(1..n)
    BY FS_Interval
  <2>2. QED
    BY <2>1, FS_Subset, FS_CardinalityType
<1>a. \A i \in S : i \in Int
  OBVIOUS
<1>2. \A i \in S : {j \in S : j <= i} \in SUBSET S /\ i \in {j \in S : j <= i}
  BY <1>a
<1>3. \A T \in SUBSET S : IsFiniteSet(T) /\ Cardinality(T) \in Nat /\ Cardinality(T) <= Cardinality(S)
                          /\ (Cardinality(T) = 0 => T = {})
  BY <1>1, FS_Subset, FS_CardinalityType, FS_EmptySet
<1>4. ASSUME NEW i \in S
      PROVE  Rank(S, i) \in 1..Cardinality(S)
  <2> DEFINE T == {j \in S : j <= i}
  <2>1. T \in SUBSET S /\ T # {}
    BY <1>2
  <2> HIDE DEF T
  <2>2. Cardinality(T) \in Nat /\ Cardinality(T) <= Cardinality(S) /\ Cardinality(T) # 0
    BY <1>3, <2>1
  <2>3. Cardinality(T) \in 1..Cardinality(S)
    BY <1>1, <2>2
  <2>4. QED
    BY <2>3 DEF Rank, T
<1>5. ASSUME NEW i \in S, NEW j \in S, i < j
      PROVE  Rank(S, i) < Rank(S, j)
  <2> DEFINE T == {k \in S : k <= i}
             U == {k \in S : k <= j}
  <2>1. T \in SUBSET U /\ U \in SUBSET S /\ j \in U /\ j \notin T /\ T \in SUBSET S
    <3>1. i \in Int /\ j \in Int /\ ~(j <= i) /\ j <= j
      BY <1>5, <1>a
    <3>2. \A k \in S : k <= i => k <= j
      BY <1>5, <1>a, <3>1
    <3>3. QED
      BY <3>1, <3>2
  <2> HIDE DEF T, U
  <2>2. IsFiniteSet(U) /\ Cardinality(U) \in Nat /\ Cardinality(T) \in Nat
    BY <1>3, <2>1
  <2>3. Cardinality(T) <= Cardinality(U) /\ Cardinality(T) # Cardinality(U)
    <3>1. Cardinality(T) <= Cardinality(U) /\ (Cardinality(U) = Cardinality(T) => U = T)
      BY <2>1, <2>2, FS_Subset
    <3>2. QED
      BY <2>1, <3>1
  <2>4. Cardinality(T) < Cardinality(U)
    BY <2>2, <2>3
  <2>5. QED
    BY <2>4 DEF Rank, T, U
<1>6. \A m \in 1..Cardinality(S) : \E i \in S : Rank(S, i) = m
  <2> DEFINE c == Cardinality(S)
             f == [i \in S |-> Rank(S, i)]
  <2>1. IsFiniteSet(1..c) /\ Cardinality(1..c) = c
    <3>1. 1 \in Int /\ c \in Int
      BY <1>1
    <3>2. IsFiniteSet(1..c) /\ Cardinality(1..c) = IF 1 > c THEN 0 ELSE c - 1 + 1
      BY <3>1, FS_Interval
    <3>3. QED
      BY <1>1, <3>2
  <2>2. f \in Injection(S, 1..c)
    <3>1. f \in [S -> 1..c]
      BY <1>4
    <3>2. \A i \in S : i \in Int
      OBVIOUS
    <3>3. ASSUME NEW i \in S, NEW j \in S, f[i] = f[j]
          PROVE  i = j
      <4>1. Rank(S, i) = Rank(S, j) /\ Rank(S, i) \in Int
        BY <1>4, <3>3
      <4>2. ~(i < j) /\ ~(j < i)
        BY <1>5, <4>1
      <4>3. QED
        BY <3>2, <4>2
    <3>4. QED
      BY <3>1, <3>3, Zenon DEF Injection, IsInjective
  <2>3. f \in Surjection(S, 1..c)
    <3> HIDE DEF f
    <3>1. Cardinality(S) = Cardinality(1..c)
      BY <2>1
    <3>2. QED
      BY <2>1, <2>2, <3>1, FS_Injection
  <2>4. \A m \in 1..c : \E i \in S : f[i] = m
    BY <2>3, Zenon DEF Surjection
  <2>5. QED
    BY <2>4
<1>7. QED
  BY <1>1, <1>4, <1>5, <1>6

\* The place of a rank.
PlaceOf(S, m) == Min({i \in S : Rank(S, i) = m})

LEMMA PlaceIs ==
  ASSUME NEW n \in Nat, NEW S \in SUBSET (1..n)
  PROVE  /\ \A m \in 1..Cardinality(S) : PlaceOf(S, m) \in S /\ Rank(S, PlaceOf(S, m)) = m
         /\ \A i \in S : PlaceOf(S, Rank(S, i)) = i
<1>a. /\ \A i \in S : i \in Nat /\ Rank(S, i) \in 1..Cardinality(S)
      /\ \A i, j \in S : i < j => Rank(S, i) < Rank(S, j)
      /\ \A m \in 1..Cardinality(S) : \E i \in S : Rank(S, i) = m
  BY RankIs
<1>1. ASSUME NEW m \in 1..Cardinality(S)
      PROVE  PlaceOf(S, m) \in S /\ Rank(S, PlaceOf(S, m)) = m
  <2> DEFINE T == {i \in S : Rank(S, i) = m}
  <2>1. T \in SUBSET Nat /\ T # {}
    BY <1>a
  <2> HIDE DEF T
  <2>2. Min(T) \in T
    BY <2>1, LeastOf
  <2>3. QED
    BY <2>2 DEF T, PlaceOf
<1>2. ASSUME NEW i \in S
      PROVE  PlaceOf(S, Rank(S, i)) = i
  <2> DEFINE j == PlaceOf(S, Rank(S, i))
  <2>1. Rank(S, i) \in 1..Cardinality(S)
    BY <1>a
  <2>2. j \in S /\ Rank(S, j) = Rank(S, i) /\ Rank(S, i) \in Int
    BY <1>1, <2>1
  <2> HIDE DEF j
  <2>3. ~(i < j) /\ ~(j < i) /\ i \in Int /\ j \in Int
    BY <1>a, <2>2
  <2>4. i = j
    BY <2>3
  <2>5. QED
    BY <2>4 DEF j
<1>3. QED
  BY <1>1, <1>2

\* A new place behind all others has the next rank and takes none from the others.
LEMMA RankBehind ==
  ASSUME NEW n \in Nat, NEW S \in SUBSET (1..n)
  PROVE  /\ Cardinality(S \cup {n + 1}) = Cardinality(S) + 1
         /\ Rank(S \cup {n + 1}, n + 1) = Cardinality(S) + 1
         /\ \A i \in S : Rank(S \cup {n + 1}, i) = Rank(S, i)
<1>1. IsFiniteSet(S) /\ n + 1 \notin S
  <2>1. IsFiniteSet(S)
    BY RankIs
  <2>2. \A i \in S : i # n + 1
    OBVIOUS
  <2>3. QED
    BY <2>1, <2>2
<1>2. Cardinality(S \cup {n + 1}) = Cardinality(S) + 1
  <2> DEFINE m == n + 1
  <2>1. m \notin S
    BY <1>1
  <2> HIDE DEF m
  <2>2. Cardinality(S \cup {m}) = Cardinality(S) + 1
    BY <1>1, <2>1, FS_AddElement
  <2>3. QED
    BY <2>2 DEF m
<1>a. \A i \in S : i \in Int /\ i <= n + 1 /\ ~(n + 1 <= i)
  OBVIOUS
<1>3. {j \in S \cup {n + 1} : j <= n + 1} = S \cup {n + 1}
  <2>1. n + 1 <= n + 1
    OBVIOUS
  <2>2. QED
    BY <1>a, <2>1
<1>4. \A i \in S : {j \in S \cup {n + 1} : j <= i} = {j \in S : j <= i}
  BY <1>a
<1>5. QED
  BY <1>2, <1>3, <1>4, Zenon DEF Rank

LEMMA TextsOfAppend ==
  ASSUME NEW T, NEW s \in Seq(T), NEW e \in T, NEW S \in SUBSET (1..Len(s))
  PROVE  /\ TextsAt(Append(s, e), S) = TextsAt(s, S)
         /\ TextsAt(Append(s, e), S \cup {Len(s) + 1}) = Append(TextsAt(s, S), e.text)
<1> DEFINE n == Len(s)
           a == Append(s, e)
           U == S \cup {n + 1}
           c == Cardinality(S)
           R == {d.text : d \in T}
<1>1. n \in Nat /\ S \in SUBSET (1..n) /\ \A i \in 1..n : a[i] = s[i] /\ s[i] \in T
  OBVIOUS
<1>2. a[n + 1] = e
  OBVIOUS
<1>3. \A i \in 1..n : s[i].text \in R
  BY <1>1
<1>4. e.text \in R
  OBVIOUS
<1> HIDE DEF n, a, R
<1>5. /\ c \in Nat /\ Cardinality(U) = c + 1 /\ \A i \in S : i \in 1..n
      /\ Rank(U, n + 1) = c + 1 /\ \A i \in S : Rank(U, i) = Rank(S, i)
  BY <1>1, RankIs, RankBehind
<1>6. \A m \in 1..c : PlaceOf(S, m) \in S /\ Rank(S, PlaceOf(S, m)) = m
  BY <1>1, PlaceIs
<1>7. n + 1 \in Nat /\ U \in SUBSET (1..(n + 1)) /\ n + 1 \in U
  <2>1. n + 1 \in Nat /\ n + 1 \in 1..(n + 1) /\ \A i \in 1..n : i \in 1..(n + 1)
    BY <1>1
  <2>2. QED
    BY <1>5, <2>1
<1>8. \A i \in U : PlaceOf(U, Rank(U, i)) = i
  <2> DEFINE m == n + 1
  <2>1. m \in Nat /\ U \in SUBSET (1..m)
    BY <1>7
  <2> HIDE DEF m, U
  <2>2. QED
    BY <2>1, PlaceIs
<1>9. ASSUME NEW m \in 1..c
      PROVE  PlaceOf(U, m) = PlaceOf(S, m)
  <2> DEFINE i == PlaceOf(S, m)
  <2>1. i \in S /\ Rank(S, i) = m
    BY <1>6
  <2> HIDE DEF i
  <2>2. Rank(U, i) = m /\ i \in U
    BY <1>5, <2>1
  <2>3. PlaceOf(U, m) = i
    BY <1>8, <2>2
  <2>4. QED
    BY <2>3 DEF i
<1>10. PlaceOf(U, c + 1) = n + 1
  BY <1>5, <1>7, <1>8
<1> HIDE DEF c, U
<1>11. TextsAt(s, S) = [m \in 1..c |-> s[PlaceOf(S, m)].text]
  BY DEF TextsAt, PlaceOf, c
<1>12. TextsAt(a, S) = [m \in 1..c |-> a[PlaceOf(S, m)].text]
  BY DEF TextsAt, PlaceOf, c
<1>13. TextsAt(a, U) = [m \in 1..(c + 1) |-> a[PlaceOf(U, m)].text]
  BY <1>5 DEF TextsAt, PlaceOf
<1>14. \A m \in 1..c : a[PlaceOf(S, m)] = s[PlaceOf(S, m)] /\ s[PlaceOf(S, m)].text \in R
  BY <1>1, <1>3, <1>5, <1>6
<1>15. TextsAt(a, S) = TextsAt(s, S)
  BY <1>11, <1>12, <1>14
<1>16. TextsAt(s, S) \in Seq(R) /\ Len(TextsAt(s, S)) = c
  BY <1>5, <1>11, <1>14
<1>17. \A m \in 1..(c + 1) : TextsAt(a, U)[m] = IF m = c + 1 THEN e.text ELSE TextsAt(s, S)[m]
  <2> SUFFICES ASSUME NEW m \in 1..(c + 1)
               PROVE  a[PlaceOf(U, m)].text = IF m = c + 1 THEN e.text ELSE TextsAt(s, S)[m]
    BY <1>13
  <2>1. CASE m = c + 1
    BY <1>2, <1>10, <2>1
  <2>2. CASE m # c + 1
    <3>1. m \in 1..c
      BY <1>5, <2>2
    <3>2. QED
      BY <1>9, <1>11, <1>14, <2>2, <3>1
  <2>3. QED
    BY <2>1, <2>2
<1>18. \A m \in 1..(c + 1) : Append(TextsAt(s, S), e.text)[m] = IF m = c + 1 THEN e.text ELSE TextsAt(s, S)[m]
  BY <1>4, <1>5, <1>16
<1>19. Append(TextsAt(s, S), e.text) \in Seq(R) /\ Len(Append(TextsAt(s, S), e.text)) = c + 1
  BY <1>4, <1>5, <1>16
<1>20. TextsAt(a, U) \in Seq(R) /\ Len(TextsAt(a, U)) = c + 1
  <2>1. \A m \in 1..(c + 1) : TextsAt(a, U)[m] \in R
    <3>1. \A m \in 1..c : TextsAt(s, S)[m] \in R
      BY <1>11, <1>14
    <3>2. \A m \in 1..(c + 1) : m = c + 1 \/ m \in 1..c
      BY <1>5
    <3>3. QED
      BY <1>4, <1>17, <3>1, <3>2
  <2>2. TextsAt(a, U) \in [1..(c + 1) -> R]
    BY <1>13, <2>1
  <2>3. QED
    BY <1>5, <2>2
<1>21. TextsAt(a, U) = Append(TextsAt(s, S), e.text)
  <2> DEFINE l == TextsAt(a, U)
             r == Append(TextsAt(s, S), e.text)
  <2>1. l \in Seq(R) /\ r \in Seq(R) /\ Len(l) = Len(r)
    BY <1>19, <1>20
  <2>2. \A m \in 1..Len(l) : l[m] = r[m]
    BY <1>17, <1>18, <1>20
  <2> HIDE DEF l, r
  <2>3. l = r
    BY <2>1, <2>2, SeqEqual
  <2>4. QED
    BY <2>3 DEF l, r
<1>22. QED
  BY <1>15, <1>21 DEF a, U, n

\* What was said in a block, by the lines: the arguments of the tool begun by line k are
\* those of its block before a line that ends it.
EndsIn(l, j, b) == l[j].is \in {"start", "stop"} /\ l[j].block = b
OpenIn(l, k, j) == \A i \in k + 1..j : ~EndsIn(l, i, l[k].block)
Own(l, k) == {j \in k + 1..Len(l) : l[j].is = "args" /\ l[j].block = l[k].block /\ OpenIn(l, k, j)}
Begun(l, dialect) == {k \in DOMAIN l : dialect = "claude" /\ l[k].is = "start"}
Index(l, dialect, k) == Rank(Begun(l, dialect), k) - 1

LEMMA SaidIs ==
  /\ \A k : SaidTool(k) = TextsAt(said, Own(said, k))
  /\ Starts = Begun(said, adapter)
<1>1. \A k, j : IsOpen(k, j) <=> OpenIn(said, k, j)
  BY DEF IsOpen, OpenIn, Ends, EndsIn
<1>2. \A k : {j \in k + 1..Len(said) : said[j].is = "args" /\ said[j].block = said[k].block /\ IsOpen(k, j)}
               = Own(said, k)
  BY <1>1 DEF Own
<1>3. QED
  BY <1>2, Zenon DEF SaidTool, Starts, Begun

LEMMA Appended ==
  ASSUME NEW T, NEW s \in Seq(T), NEW e \in T
  PROVE  /\ Append(s, e) \in Seq(T) /\ Len(Append(s, e)) = Len(s) + 1 /\ Len(s) \in Nat
         /\ DOMAIN Append(s, e) = 1..(Len(s) + 1) /\ DOMAIN s = 1..Len(s)
         /\ \A i \in 1..Len(s) : Append(s, e)[i] = s[i] /\ i \in 1..(Len(s) + 1)
         /\ Append(s, e)[Len(s) + 1] = e
         /\ \A i \in 1..(Len(s) + 1) : i \in 1..Len(s) \/ i = Len(s) + 1
         /\ Len(s) + 1 \in 1..(Len(s) + 1) /\ Len(s) + 1 \notin 1..Len(s)
OBVIOUS

LEMMA OfToolAppended ==
  ASSUME NEW T, NEW s \in Seq(T), NEW e \in T, NEW is, NEW tool
  PROVE  /\ OfTool(s, is, tool) \in SUBSET (1..Len(s))
         /\ e.is = is /\ e.tool = tool => OfTool(Append(s, e), is, tool) = OfTool(s, is, tool) \cup {Len(s) + 1}
         /\ ~(e.is = is /\ e.tool = tool) => OfTool(Append(s, e), is, tool) = OfTool(s, is, tool)
<1> DEFINE n == Len(s)
           a == Append(s, e)
           m == n + 1
<1>1. /\ DOMAIN a = 1..m /\ DOMAIN s = 1..n /\ a[m] = e
      /\ \A i \in 1..n : a[i] = s[i] /\ i \in 1..m
      /\ \A i \in 1..m : i \in 1..n \/ i = m
      /\ m \in 1..m /\ m \notin 1..n
  BY Appended
<1> HIDE DEF a, n, m
<1>2. OfTool(s, is, tool) = {i \in 1..n : s[i].is = is /\ s[i].tool = tool}
  BY <1>1 DEF OfTool
<1>3. OfTool(a, is, tool) = {i \in 1..m : a[i].is = is /\ a[i].tool = tool}
  BY <1>1 DEF OfTool
<1>4. /\ OfTool(s, is, tool) \in SUBSET (1..n)
      /\ e.is = is /\ e.tool = tool => OfTool(a, is, tool) = OfTool(s, is, tool) \cup {m}
      /\ ~(e.is = is /\ e.tool = tool) => OfTool(a, is, tool) = OfTool(s, is, tool)
  BY <1>1, <1>2, <1>3
<1>5. QED
  BY <1>4 DEF a, n, m

\* The texts of the kind `is` grow with each of that kind.
LEMMA ContentsOfAppend ==
  ASSUME NEW T, NEW s \in Seq(T), NEW e \in T, NEW is
  PROVE  Contents(Append(s, e), is) = IF e.is \in is THEN Append(Contents(s, is), e.text) ELSE Contents(s, is)
<1> DEFINE n == Len(s)
           a == Append(s, e)
           m == n + 1
           S == {i \in 1..n : s[i].is \in is}
           U == {i \in 1..m : a[i].is \in is}
<1>1. /\ DOMAIN a = 1..m /\ DOMAIN s = 1..n /\ a[m] = e
      /\ \A i \in 1..n : a[i] = s[i] /\ i \in 1..m
      /\ \A i \in 1..m : i \in 1..n \/ i = m
      /\ m \in 1..m /\ m \notin 1..n
  BY Appended
<1>2. S \in SUBSET (1..Len(s))
  OBVIOUS
<1> HIDE DEF a, m
<1>3. U = IF e.is \in is THEN S \cup {m} ELSE S
  BY <1>1
<1>4. Contents(a, is) = TextsAt(a, U) /\ Contents(s, is) = TextsAt(s, S)
  BY <1>1 DEF Contents
<1> HIDE DEF S, U
<1>5. TextsAt(a, S) = TextsAt(s, S) /\ TextsAt(a, S \cup {m}) = Append(TextsAt(s, S), e.text)
  BY <1>2, TextsOfAppend DEF a, m
<1>6. QED
  BY <1>3, <1>4, <1>5 DEF a

LEMMA OpenAppended ==
  ASSUME NEW l \in Seq(Lines), NEW line \in Lines, NEW k \in 1..Len(l)
  PROVE  /\ OpenIn(Append(l, line), k, Len(l) + 1)
              <=> OpenIn(l, k, Len(l)) /\ ~(line.is \in {"start", "stop"} /\ line.block = l[k].block)
         /\ \A j \in 1..Len(l) : OpenIn(Append(l, line), k, j) <=> OpenIn(l, k, j)
<1> DEFINE n == Len(l)
           a == Append(l, line)
           m == n + 1
<1>1. /\ n \in Nat /\ a[m] = line /\ \A i \in 1..n : a[i] = l[i]
  BY Appended
<1> HIDE DEF a, n
<1>2. k \in 1..n
  BY DEF n
<1>3. /\ \A i \in k + 1..m : i \in k + 1..n \/ i = m
      /\ \A j \in 1..n : \A i \in k + 1..j : i \in 1..n
      /\ \A i \in k + 1..n : i \in k + 1..m /\ i \in 1..n
      /\ m \in k + 1..m
  BY <1>1, <1>2
<1> HIDE DEF m
<1>4. /\ \A i \in 1..n : EndsIn(a, i, a[k].block) <=> EndsIn(l, i, l[k].block)
      /\ EndsIn(a, m, a[k].block) <=> line.is \in {"start", "stop"} /\ line.block = l[k].block
  BY <1>1, <1>2 DEF EndsIn
<1>5. OpenIn(a, k, m) <=> OpenIn(l, k, n) /\ ~(line.is \in {"start", "stop"} /\ line.block = l[k].block)
  BY <1>3, <1>4 DEF OpenIn
<1>6. \A j \in 1..n : OpenIn(a, k, j) <=> OpenIn(l, k, j)
  BY <1>3, <1>4 DEF OpenIn
<1>7. QED
  BY <1>5, <1>6 DEF a, m, n

LEMMA OwnAppended ==
  ASSUME NEW l \in Seq(Lines), NEW line \in Lines, NEW k \in 1..Len(l)
  PROVE  /\ Own(l, k) \in SUBSET (1..Len(l))
         /\ line.is = "args" /\ line.block = l[k].block /\ OpenIn(l, k, Len(l))
              => Own(Append(l, line), k) = Own(l, k) \cup {Len(l) + 1}
         /\ ~(line.is = "args" /\ line.block = l[k].block /\ OpenIn(l, k, Len(l)))
              => Own(Append(l, line), k) = Own(l, k)
<1> DEFINE n == Len(l)
           a == Append(l, line)
           m == n + 1
<1>1. /\ n \in Nat /\ Len(a) = m /\ a[m] = line /\ \A i \in 1..n : a[i] = l[i]
  BY Appended
<1>2. /\ OpenIn(a, k, m) <=> OpenIn(l, k, n) /\ ~(line.is \in {"start", "stop"} /\ line.block = l[k].block)
      /\ \A j \in 1..n : OpenIn(a, k, j) <=> OpenIn(l, k, j)
  BY OpenAppended
<1>3. k \in 1..n
  OBVIOUS
<1> HIDE DEF a, n
<1>4. /\ \A i \in k + 1..m : i \in k + 1..n \/ i = m
      /\ \A i \in k + 1..n : i \in k + 1..m /\ i \in 1..n
      /\ m \in k + 1..m /\ m \notin 1..n
  BY <1>1, <1>3
<1> HIDE DEF m
<1>5. Own(l, k) = {j \in k + 1..n : l[j].is = "args" /\ l[j].block = l[k].block /\ OpenIn(l, k, j)}
  BY DEF Own, n
<1>6. Own(a, k) = {j \in k + 1..m : a[j].is = "args" /\ a[j].block = l[k].block /\ OpenIn(a, k, j)}
  BY <1>1, <1>3 DEF Own
<1>7. /\ \A j \in 1..n : (j \in Own(a, k) <=> j \in Own(l, k))
      /\ m \in Own(a, k) <=> line.is = "args" /\ line.block = l[k].block /\ OpenIn(l, k, n)
      /\ \A j \in Own(a, k) : j \in 1..n \/ j = m
      /\ \A j \in Own(l, k) : j \in 1..n
  BY <1>1, <1>2, <1>4, <1>5, <1>6
<1>8. /\ Own(l, k) \in SUBSET (1..n)
      /\ line.is = "args" /\ line.block = l[k].block /\ OpenIn(l, k, n) => Own(a, k) = Own(l, k) \cup {m}
      /\ ~(line.is = "args" /\ line.block = l[k].block /\ OpenIn(l, k, n)) => Own(a, k) = Own(l, k)
  BY <1>4, <1>7
<1>9. QED
  BY <1>8 DEF a, n, m

\* A tool that has just begun is open and has no arguments yet.
LEMMA OwnOfLast ==
  ASSUME NEW l \in Seq(Lines), NEW line \in Lines
  PROVE  Own(Append(l, line), Len(l) + 1) = {} /\ OpenIn(Append(l, line), Len(l) + 1, Len(l) + 1)
<1> DEFINE m == Len(l) + 1
<1>1. m \in Nat /\ Len(Append(l, line)) = m
  BY Appended
<1> HIDE DEF m
<1>2. m + 1..m = {}
  BY <1>1
<1>3. Own(Append(l, line), m) = {} /\ OpenIn(Append(l, line), m, m)
  BY <1>1, <1>2 DEF Own, OpenIn
<1>4. QED
  BY <1>3 DEF m

LEMMA BegunAppended ==
  ASSUME NEW l \in Seq(Lines), NEW line \in Lines, NEW dialect
  PROVE  /\ Begun(l, dialect) \in SUBSET (1..Len(l))
         /\ dialect = "claude" /\ line.is = "start"
              => Begun(Append(l, line), dialect) = Begun(l, dialect) \cup {Len(l) + 1}
         /\ ~(dialect = "claude" /\ line.is = "start") => Begun(Append(l, line), dialect) = Begun(l, dialect)
<1> DEFINE n == Len(l)
           a == Append(l, line)
           m == n + 1
<1>1. /\ DOMAIN a = 1..m /\ DOMAIN l = 1..n /\ a[m] = line
      /\ \A i \in 1..n : a[i] = l[i] /\ i \in 1..m
      /\ \A i \in 1..m : i \in 1..n \/ i = m
      /\ m \in 1..m /\ m \notin 1..n
  BY Appended
<1> HIDE DEF a, n, m
<1>2. Begun(l, dialect) = {i \in 1..n : dialect = "claude" /\ l[i].is = "start"}
  BY <1>1 DEF Begun
<1>3. Begun(a, dialect) = {i \in 1..m : dialect = "claude" /\ a[i].is = "start"}
  BY <1>1 DEF Begun
<1>4. /\ Begun(l, dialect) \in SUBSET (1..n)
      /\ dialect = "claude" /\ line.is = "start" => Begun(a, dialect) = Begun(l, dialect) \cup {m}
      /\ ~(dialect = "claude" /\ line.is = "start") => Begun(a, dialect) = Begun(l, dialect)
  BY <1>1, <1>2, <1>3
<1>5. QED
  BY <1>4 DEF a, n, m

\* What was told by the events s agrees with what was said by the lines l: the tools are
\* numbered as they begin, each is told of once, and with the arguments of its own block;
\* the block of a tool that has not stopped holds its number.
TellsTools(s, l, dialect, b, n) ==
  /\ Cardinality(Begun(l, dialect)) = n
  /\ \A i \in DOMAIN s : s[i].tool \in 0..n - 1 \/ (s[i].tool = NoTool /\ s[i].is # "start")
  /\ \A t \in 0..n - 1 : Cardinality(OfTool(s, "start", t)) = 1
  /\ \A k \in Begun(l, dialect) :
       /\ TextsAt(s, OfTool(s, "args", Index(l, dialect, k))) = TextsAt(l, Own(l, k))
       /\ OpenIn(l, k, Len(l)) <=> b[l[k].block] = Index(l, dialect, k)
  /\ \A x \in Block : b[x] # NoTool =>
       \E k \in Begun(l, dialect) : l[k].block = x /\ Index(l, dialect, k) = b[x]

TellsText(s, l, dialect) ==
  Contents(s, {"text"}) = Contents(l, IF dialect = "gemini" THEN Kind ELSE {"text"})

LEMMA IndexIs ==
  ASSUME NEW l \in Seq(Lines), NEW dialect
  PROVE  /\ \A k \in Begun(l, dialect) : k \in 1..Len(l) /\ Index(l, dialect, k) \in 0..Cardinality(Begun(l, dialect)) - 1
         /\ \A j, k \in Begun(l, dialect) : Index(l, dialect, j) = Index(l, dialect, k) => j = k
         /\ Cardinality(Begun(l, dialect)) \in Nat
<1> DEFINE n == Len(l)
           S == Begun(l, dialect)
           c == Cardinality(S)
<1>1. n \in Nat /\ S \in SUBSET (1..n)
  BY DEF Begun
<1>2. \A k \in S : k \in 1..n
  BY <1>1
<1> HIDE DEF n, S
<1>3. /\ c \in Nat /\ \A i \in S : Rank(S, i) \in 1..c
      /\ \A i, j \in S : i < j => Rank(S, i) < Rank(S, j)
  BY <1>1, RankIs
<1> HIDE DEF c
<1>4. \A k \in S : Rank(S, k) - 1 \in 0..c - 1
  BY <1>3
<1>5. ASSUME NEW j \in S, NEW k \in S, Rank(S, j) - 1 = Rank(S, k) - 1
      PROVE  j = k
  <2>1. Rank(S, j) \in Int /\ Rank(S, k) \in Int /\ j \in Int /\ k \in Int
    BY <1>2, <1>3
  <2>2. ~(j < k) /\ ~(k < j)
    BY <1>3, <1>5, <2>1
  <2>3. QED
    BY <2>1, <2>2
<1>6. QED
  BY <1>2, <1>3, <1>4, <1>5 DEF Index, S, n, c

LEMMA TextsKept ==
  ASSUME NEW T, NEW s \in Seq(T), NEW e \in T
  PROVE  \A S \in SUBSET (1..Len(s)) : TextsAt(Append(s, e), S) = TextsAt(s, S)
<1> TAKE S \in SUBSET (1..Len(s))
<1>1. /\ TextsAt(Append(s, e), S) = TextsAt(s, S)
      /\ TextsAt(Append(s, e), S \cup {Len(s) + 1}) = Append(TextsAt(s, S), e.text)
  BY TextsOfAppend
<1>2. QED
  BY <1>1

\* An event that is no text, begins no tool and is no argument changes nothing.
LEMMA QuietEvent ==
  ASSUME NEW s \in Seq(Events), NEW e \in Events, NEW l \in Seq(Lines), NEW dialect, NEW b, NEW n \in Nat,
         e.is \notin {"start", "args"}, e.tool \in 0..n - 1 \/ e.tool = NoTool,
         TellsTools(s, l, dialect, b, n)
  PROVE  TellsTools(Append(s, e), l, dialect, b, n)
<1> DEFINE a == Append(s, e)
<1>1. /\ DOMAIN a = 1..(Len(s) + 1) /\ DOMAIN s = 1..Len(s) /\ a[Len(s) + 1] = e
      /\ \A i \in 1..Len(s) : a[i] = s[i]
      /\ \A i \in 1..(Len(s) + 1) : i \in 1..Len(s) \/ i = Len(s) + 1
  BY Appended
<1>2. \A t : OfTool(a, "start", t) = OfTool(s, "start", t) /\ OfTool(a, "args", t) = OfTool(s, "args", t)
  BY OfToolAppended
<1>3. \A t : TextsAt(a, OfTool(s, "args", t)) = TextsAt(s, OfTool(s, "args", t))
  <2>1. \A t : OfTool(s, "args", t) \in SUBSET (1..Len(s))
    BY OfToolAppended
  <2>2. \A S \in SUBSET (1..Len(s)) : TextsAt(a, S) = TextsAt(s, S)
    BY TextsKept
  <2>3. QED
    BY <2>1, <2>2
<1>4. \A i \in DOMAIN a : a[i].tool \in 0..n - 1 \/ (a[i].tool = NoTool /\ a[i].is # "start")
  BY <1>1 DEF TellsTools
<1> HIDE DEF a
<1>5. QED
  BY <1>2, <1>3, <1>4, Zenon DEF TellsTools, a

\* A line that neither begins nor ends a tool, and is no argument of an open one.
LEMMA QuietLine ==
  ASSUME NEW s, NEW l \in Seq(Lines), NEW line \in Lines, NEW dialect, NEW b, NEW n \in Nat,
         dialect = "claude" => /\ line.is \notin {"start", "stop"}
                               /\ line.is = "args" => b[line.block] = NoTool,
         TellsTools(s, l, dialect, b, n)
  PROVE  TellsTools(s, Append(l, line), dialect, b, n)
<1> DEFINE a == Append(l, line)
           m == Len(l)
           S == Begun(l, dialect)
<1>1. /\ Len(a) = m + 1 /\ \A i \in 1..m : a[i] = l[i]
  BY Appended
<1>2. Begun(a, dialect) = S
  BY BegunAppended
<1>3. \A k \in S : k \in 1..m /\ Index(l, dialect, k) # NoTool /\ dialect = "claude"
  <2>1. \A k \in S : Index(l, dialect, k) \in 0..Cardinality(S) - 1 /\ k \in 1..m /\ dialect = "claude"
    BY IndexIs DEF Begun
  <2>2. \A t \in 0..Cardinality(S) - 1 : t # NoTool
    BY DEF NoTool
  <2>3. QED
    BY <2>1, <2>2
<1>4. \A k \in S : Index(a, dialect, k) = Index(l, dialect, k)
  BY <1>2 DEF Index
<1>5. \A k \in S : OpenIn(l, k, m) <=> b[l[k].block] = Index(l, dialect, k)
  BY DEF TellsTools
<1>6. \A k \in S : ~(line.is = "args" /\ line.block = l[k].block /\ OpenIn(l, k, m))
  BY <1>3, <1>5
<1>7. \A k \in S : Own(a, k) = Own(l, k) /\ Own(l, k) \in SUBSET (1..m)
  BY <1>3, <1>6, OwnAppended
<1>8. \A k \in S : OpenIn(a, k, m + 1) <=> OpenIn(l, k, m)
  BY <1>3, OpenAppended
<1>9. \A k \in S : TextsAt(a, Own(l, k)) = TextsAt(l, Own(l, k))
  <2>1. \A O \in SUBSET (1..m) : TextsAt(a, O) = TextsAt(l, O)
    BY TextsKept
  <2>2. QED
    BY <1>7, <2>1
<1> HIDE DEF a, m, S
<1>10. \A k \in S : a[k].block = l[k].block
  BY <1>1, <1>3
<1>11. /\ Cardinality(S) = n
       /\ \A k \in S : TextsAt(s, OfTool(s, "args", Index(l, dialect, k))) = TextsAt(l, Own(l, k))
       /\ \A x \in Block : b[x] # NoTool => \E k \in S : l[k].block = x /\ Index(l, dialect, k) = b[x]
       /\ \A i \in DOMAIN s : s[i].tool \in 0..n - 1 \/ (s[i].tool = NoTool /\ s[i].is # "start")
       /\ \A t \in 0..n - 1 : Cardinality(OfTool(s, "start", t)) = 1
  BY DEF TellsTools, S
<1>12. Cardinality(Begun(a, dialect)) = n
  BY <1>2, <1>11
<1>13. \A k \in Begun(a, dialect) :
         /\ TextsAt(s, OfTool(s, "args", Index(a, dialect, k))) = TextsAt(a, Own(a, k))
         /\ OpenIn(a, k, Len(a)) <=> b[a[k].block] = Index(a, dialect, k)
  BY <1>1, <1>2, <1>4, <1>5, <1>7, <1>8, <1>9, <1>10, <1>11
<1>14. \A x \in Block : b[x] # NoTool => \E k \in Begun(a, dialect) : a[k].block = x /\ Index(a, dialect, k) = b[x]
  BY <1>2, <1>4, <1>10, <1>11
<1>15. QED
  BY <1>11, <1>12, <1>13, <1>14 DEF TellsTools, a

\* A line that ends the tool of its block, if it has one.
LEMMA ToolStops ==
  ASSUME NEW s, NEW l \in Seq(Lines), NEW line \in Lines, NEW n \in Nat,
         NEW b \in [Block -> 0..n \cup {NoTool}],
         line.is = "stop", TellsTools(s, l, "claude", b, n)
  PROVE  TellsTools(s, Append(l, line), "claude", [b EXCEPT ![line.block] = NoTool], n)
<1> DEFINE a == Append(l, line)
           m == Len(l)
           S == Begun(l, "claude")
           d == [b EXCEPT ![line.block] = NoTool]
<1>1. /\ Len(a) = m + 1 /\ \A i \in 1..m : a[i] = l[i]
  BY Appended
<1>2. Begun(a, "claude") = S
  BY BegunAppended
<1>3. \A k \in S : k \in 1..m /\ Index(l, "claude", k) # NoTool /\ l[k].block \in Block
  <2>1. \A k \in S : Index(l, "claude", k) \in 0..Cardinality(S) - 1 /\ k \in 1..m
    BY IndexIs
  <2>2. \A t \in 0..Cardinality(S) - 1 : t # NoTool
    BY DEF NoTool
  <2>3. \A k \in 1..m : l[k] \in Lines
    OBVIOUS
  <2>4. QED
    BY <2>1, <2>2, <2>3 DEF Lines
<1>4. \A k \in S : Index(a, "claude", k) = Index(l, "claude", k)
  BY <1>2 DEF Index
<1>5. \A k \in S : Own(a, k) = Own(l, k) /\ Own(l, k) \in SUBSET (1..m)
  BY <1>3, OwnAppended
<1>6. \A k \in S : OpenIn(a, k, m + 1) <=> OpenIn(l, k, m) /\ line.block # l[k].block
  BY <1>3, OpenAppended
<1>7. \A k \in S : TextsAt(a, Own(l, k)) = TextsAt(l, Own(l, k))
  <2>1. \A O \in SUBSET (1..m) : TextsAt(a, O) = TextsAt(l, O)
    BY TextsKept
  <2>2. QED
    BY <1>5, <2>1
<1>8. line.block \in Block
  BY DEF Lines
<1>9. \A x \in Block : d[x] = IF x = line.block THEN NoTool ELSE b[x]
  BY <1>8
<1> HIDE DEF a, m, S, d
<1>10. \A k \in S : a[k].block = l[k].block
  BY <1>1, <1>3
<1>11. /\ Cardinality(S) = n
       /\ \A k \in S : /\ TextsAt(s, OfTool(s, "args", Index(l, "claude", k))) = TextsAt(l, Own(l, k))
                       /\ OpenIn(l, k, m) <=> b[l[k].block] = Index(l, "claude", k)
       /\ \A x \in Block : b[x] # NoTool => \E k \in S : l[k].block = x /\ Index(l, "claude", k) = b[x]
       /\ \A i \in DOMAIN s : s[i].tool \in 0..n - 1 \/ (s[i].tool = NoTool /\ s[i].is # "start")
       /\ \A t \in 0..n - 1 : Cardinality(OfTool(s, "start", t)) = 1
  BY DEF TellsTools, S, m
<1>12. Cardinality(Begun(a, "claude")) = n
  BY <1>2, <1>11
<1>13. \A k \in Begun(a, "claude") :
         /\ TextsAt(s, OfTool(s, "args", Index(a, "claude", k))) = TextsAt(a, Own(a, k))
         /\ OpenIn(a, k, Len(a)) <=> d[a[k].block] = Index(a, "claude", k)
  BY <1>1, <1>2, <1>3, <1>4, <1>5, <1>6, <1>7, <1>9, <1>10, <1>11
<1>14. \A x \in Block : d[x] # NoTool =>
         \E k \in Begun(a, "claude") : a[k].block = x /\ Index(a, "claude", k) = d[x]
  BY <1>2, <1>4, <1>9, <1>10, <1>11
<1>15. QED
  BY <1>11, <1>12, <1>13, <1>14 DEF TellsTools, a, d

\* The number a block holds is that of one tool, and less than their number.
LEMMA HeldIs ==
  ASSUME NEW s, NEW l \in Seq(Lines), NEW dialect, NEW b, NEW n \in Nat, NEW x \in Block,
         TellsTools(s, l, dialect, b, n), b[x] # NoTool
  PROVE  /\ b[x] \in 0..n - 1
         /\ \A k \in Begun(l, dialect) :
              Index(l, dialect, k) = b[x] <=> l[k].block = x /\ OpenIn(l, k, Len(l))
<1>1. PICK k \in Begun(l, dialect) : l[k].block = x /\ Index(l, dialect, k) = b[x]
  BY DEF TellsTools
<1>2. /\ \A j \in Begun(l, dialect) : Index(l, dialect, j) = Index(l, dialect, k) => j = k
      /\ Index(l, dialect, k) \in 0..Cardinality(Begun(l, dialect)) - 1
  BY IndexIs
<1>3. \A j \in Begun(l, dialect) : OpenIn(l, j, Len(l)) <=> b[l[j].block] = Index(l, dialect, j)
  BY DEF TellsTools
<1>4. Cardinality(Begun(l, dialect)) = n
  BY DEF TellsTools
<1>5. QED
  BY <1>1, <1>2, <1>3, <1>4

LEMMA HeldByAll ==
  ASSUME NEW s, NEW l \in Seq(Lines), NEW b, NEW n \in Nat, TellsTools(s, l, "claude", b, n)
  PROVE  \A x \in Block : b[x] # NoTool =>
           /\ b[x] \in 0..n - 1
           /\ \A k \in Begun(l, "claude") :
                Index(l, "claude", k) = b[x] <=> l[k].block = x /\ OpenIn(l, k, Len(l))
<1> SUFFICES ASSUME NEW x \in Block, b[x] # NoTool
             PROVE  /\ b[x] \in 0..n - 1
                    /\ \A k \in Begun(l, "claude") :
                         Index(l, "claude", k) = b[x] <=> l[k].block = x /\ OpenIn(l, k, Len(l))
  OBVIOUS
<1> QED
  BY HeldIs

LEMMA TextsGrow ==
  ASSUME NEW T, NEW s \in Seq(T), NEW e \in T
  PROVE  \A S \in SUBSET (1..Len(s)) :
           /\ TextsAt(Append(s, e), S) = TextsAt(s, S)
           /\ TextsAt(Append(s, e), S \cup {Len(s) + 1}) = Append(TextsAt(s, S), e.text)
<1> TAKE S \in SUBSET (1..Len(s))
<1> QED
  BY TextsOfAppend

LEMMA TextsOfLine ==
  ASSUME NEW l \in Seq(Lines), NEW line \in Lines
  PROVE  \A O \in SUBSET (1..Len(l)) :
           /\ TextsAt(Append(l, line), O) = TextsAt(l, O)
           /\ TextsAt(Append(l, line), O \cup {Len(l) + 1}) = Append(TextsAt(l, O), line.text)
BY TextsGrow

\* An argument of the tool its block holds.
LEMMA ToolGoesOn ==
  ASSUME NEW s \in Seq(Events), NEW l \in Seq(Lines), NEW line \in Lines, NEW n \in Nat,
         NEW b, NEW e \in Events, e.is = "args", e.tool = b[line.block], e.text = line.text,
         line.is = "args", b[line.block] # NoTool, TellsTools(s, l, "claude", b, n)
  PROVE  TellsTools(Append(s, e), Append(l, line), "claude", b, n)
<1>0. line.block \in Block
  BY DEF Lines
<1>h. /\ b[line.block] \in 0..n - 1
      /\ \A k \in Begun(l, "claude") :
           Index(l, "claude", k) = b[line.block] <=> l[k].block = line.block /\ OpenIn(l, k, Len(l))
  <2>1. \A x \in Block : b[x] # NoTool =>
          /\ b[x] \in 0..n - 1
          /\ \A k \in Begun(l, "claude") :
               Index(l, "claude", k) = b[x] <=> l[k].block = x /\ OpenIn(l, k, Len(l))
    BY HeldByAll
  <2>2. QED
    BY <1>0, <2>1
<1>t. \A P \in SUBSET (1..Len(s)) :
        /\ TextsAt(Append(s, e), P) = TextsAt(s, P)
        /\ TextsAt(Append(s, e), P \cup {Len(s) + 1}) = Append(TextsAt(s, P), e.text)
  BY TextsGrow
<1>u. \A O \in SUBSET (1..Len(l)) :
        /\ TextsAt(Append(l, line), O) = TextsAt(l, O)
        /\ TextsAt(Append(l, line), O \cup {Len(l) + 1}) = Append(TextsAt(l, O), line.text)
  BY TextsOfLine
<1> DEFINE a == Append(l, line)
           r == Append(s, e)
           m == Len(l)
           S == Begun(l, "claude")
           At(k) == OfTool(s, "args", Index(l, "claude", k))
<1>1. /\ Len(a) = m + 1 /\ \A i \in 1..m : a[i] = l[i]
  BY Appended
<1>2. Begun(a, "claude") = S
  BY BegunAppended
<1>3. \A k \in S : k \in 1..m
  BY IndexIs
<1>4. \A k \in S : Index(a, "claude", k) = Index(l, "claude", k)
  BY <1>2 DEF Index
<1>5. /\ b[line.block] \in 0..n - 1
      /\ \A k \in S : Index(l, "claude", k) = b[line.block] <=> l[k].block = line.block /\ OpenIn(l, k, m)
  BY <1>h
<1>6. \A k \in S : OpenIn(a, k, m + 1) <=> OpenIn(l, k, m)
  BY <1>3, OpenAppended
<1>7. /\ DOMAIN r = 1..(Len(s) + 1) /\ DOMAIN s = 1..Len(s) /\ r[Len(s) + 1] = e
      /\ \A i \in 1..Len(s) : r[i] = s[i]
      /\ \A i \in 1..(Len(s) + 1) : i \in 1..Len(s) \/ i = Len(s) + 1
  BY Appended
<1>8. \A i \in DOMAIN r : r[i].tool \in 0..n - 1 \/ (r[i].tool = NoTool /\ r[i].is # "start")
  BY <1>5, <1>7 DEF TellsTools
<1>9. \A t : OfTool(r, "start", t) = OfTool(s, "start", t)
  BY OfToolAppended
<1>10. ASSUME NEW k \in S
       PROVE  TextsAt(r, OfTool(r, "args", Index(l, "claude", k))) = TextsAt(a, Own(a, k))
  <2> DEFINE P == At(k)
             O == Own(l, k)
  <2>1. TextsAt(s, P) = TextsAt(l, O)
    BY DEF TellsTools
  <2>2. P \in SUBSET (1..Len(s)) /\ O \in SUBSET (1..m)
    BY <1>3, OfToolAppended, OwnAppended
  <2>3. CASE Index(l, "claude", k) = b[line.block]
    <3>1. OfTool(r, "args", Index(l, "claude", k)) = P \cup {Len(s) + 1}
      BY <2>3, OfToolAppended
    <3>2. Own(a, k) = O \cup {Len(l) + 1}
      BY <1>3, <1>5, <2>3, OwnAppended
    <3> HIDE DEF P, O
    <3>3. /\ TextsAt(r, P) = TextsAt(s, P)
          /\ TextsAt(r, P \cup {Len(s) + 1}) = Append(TextsAt(s, P), e.text)
      BY <1>t, <1>u, <2>2
    <3>4. /\ TextsAt(a, O) = TextsAt(l, O)
          /\ TextsAt(a, O \cup {Len(l) + 1}) = Append(TextsAt(l, O), line.text)
      BY <1>t, <1>u, <2>2
    <3>5. QED
      BY <2>1, <3>1, <3>2, <3>3, <3>4, Zenon
  <2>4. CASE Index(l, "claude", k) # b[line.block]
    <3>1. OfTool(r, "args", Index(l, "claude", k)) = P
      BY <2>4, OfToolAppended
    <3>2. Own(a, k) = O
      BY <1>3, <1>5, <2>4, OwnAppended
    <3> HIDE DEF P, O
    <3>3. TextsAt(r, P) = TextsAt(s, P)
      BY <1>t, <1>u, <2>2
    <3>4. TextsAt(a, O) = TextsAt(l, O)
      BY <1>t, <1>u, <2>2
    <3>5. QED
      BY <2>1, <3>1, <3>2, <3>3, <3>4, Zenon
  <2>5. QED
    BY <2>3, <2>4
<1> HIDE DEF a, m, S, r
<1>11. \A k \in S : a[k].block = l[k].block
  BY <1>1, <1>3
<1>12. /\ Cardinality(S) = n
       /\ \A k \in S : OpenIn(l, k, m) <=> b[l[k].block] = Index(l, "claude", k)
       /\ \A x \in Block : b[x] # NoTool => \E k \in S : l[k].block = x /\ Index(l, "claude", k) = b[x]
       /\ \A t \in 0..n - 1 : Cardinality(OfTool(s, "start", t)) = 1
  BY DEF TellsTools, S, m
<1>13. \A k \in Begun(a, "claude") :
         /\ TextsAt(r, OfTool(r, "args", Index(a, "claude", k))) = TextsAt(a, Own(a, k))
         /\ OpenIn(a, k, Len(a)) <=> b[a[k].block] = Index(a, "claude", k)
  BY <1>1, <1>2, <1>4, <1>6, <1>10, <1>11, <1>12
<1>14. \A x \in Block : b[x] # NoTool =>
         \E k \in Begun(a, "claude") : a[k].block = x /\ Index(a, "claude", k) = b[x]
  BY <1>2, <1>4, <1>11, <1>12
<1>15. Cardinality(Begun(a, "claude")) = n /\ \A t \in 0..n - 1 : Cardinality(OfTool(r, "start", t)) = 1
  BY <1>2, <1>9, <1>12
<1>16. QED
  BY <1>8, <1>13, <1>14, <1>15 DEF TellsTools, a, r

\* A line that begins a tool: it is given the next number.
LEMMA ToolBegins ==
  ASSUME NEW s \in Seq(Events), NEW l \in Seq(Lines), NEW line \in Lines, NEW n \in Nat,
         NEW b \in [Block -> 0..n \cup {NoTool}],
         NEW e \in Events, e.is = "start", e.tool = n,
         line.is = "start", TellsTools(s, l, "claude", b, n)
  PROVE  TellsTools(Append(s, e), Append(l, line), "claude", [b EXCEPT ![line.block] = n], n + 1)
<1>t. /\ \A O \in SUBSET (1..Len(l)) : TextsAt(Append(l, line), O) = TextsAt(l, O)
  BY TextsOfLine
<1>u. \A P \in SUBSET (1..Len(s)) : TextsAt(Append(s, e), P) = TextsAt(s, P)
  BY TextsKept
<1>g. /\ Cardinality(Begun(l, "claude")) = n
      /\ \A i \in DOMAIN s : s[i].tool \in 0..n - 1 \/ (s[i].tool = NoTool /\ s[i].is # "start")
      /\ \A t \in 0..n - 1 : Cardinality(OfTool(s, "start", t)) = 1
      /\ \A k \in Begun(l, "claude") :
           /\ TextsAt(s, OfTool(s, "args", Index(l, "claude", k))) = TextsAt(l, Own(l, k))
           /\ OpenIn(l, k, Len(l)) <=> b[l[k].block] = Index(l, "claude", k)
      /\ \A x \in Block : b[x] # NoTool =>
           \E k \in Begun(l, "claude") : l[k].block = x /\ Index(l, "claude", k) = b[x]
  BY DEF TellsTools
<1> DEFINE a == Append(l, line)
           r == Append(s, e)
           m == Len(l)
           q == m + 1
           S == Begun(l, "claude")
           d == [b EXCEPT ![line.block] = n]
<1>1. /\ Len(a) = q /\ \A i \in 1..m : a[i] = l[i]
      /\ a[q] = line /\ q \notin 1..m
  BY Appended
<1>2. S \in SUBSET (1..m) /\ Begun(a, "claude") = S \cup {q}
  BY BegunAppended
<1>3. /\ \A k \in S : Index(a, "claude", k) = Index(l, "claude", k)
      /\ Index(a, "claude", q) = n /\ Cardinality(Begun(a, "claude")) = n + 1
  <2>1. /\ Cardinality(S \cup {m + 1}) = Cardinality(S) + 1
        /\ Rank(S \cup {m + 1}, m + 1) = Cardinality(S) + 1
        /\ \A i \in S : Rank(S \cup {m + 1}, i) = Rank(S, i)
    <3>1. m \in Nat /\ S \in SUBSET (1..m)
      BY <1>2
    <3> HIDE DEF m, S
    <3>2. QED
      BY <3>1, RankBehind
  <2>2. Cardinality(S) = n /\ Begun(l, "claude") = S
    BY <1>g
  <2>3. /\ Cardinality(S \cup {q}) = n + 1 /\ Rank(S \cup {q}, q) = n + 1
        /\ \A i \in S : Rank(S \cup {q}, i) = Rank(S, i)
    BY <2>1, <2>2
  <2> HIDE DEF a, S, q
  <2>4. \A k : Index(a, "claude", k) = Rank(S \cup {q}, k) - 1 /\ Index(l, "claude", k) = Rank(S, k) - 1
    BY <1>2, <2>2 DEF Index
  <2>5. n + 1 - 1 = n
    OBVIOUS
  <2>6. Index(a, "claude", q) = n
    <3>1. Index(a, "claude", q) = Rank(S \cup {q}, q) - 1 /\ Rank(S \cup {q}, q) = n + 1
      BY <2>3, <2>4, Zenon
    <3>2. QED
      BY <2>5, <3>1
  <2>7. Cardinality(Begun(a, "claude")) = n + 1
    BY <1>2, <2>3, Zenon
  <2>8. \A k \in S : Index(a, "claude", k) = Index(l, "claude", k)
    BY <2>3, <2>4, Zenon
  <2>9. QED
    BY <2>6, <2>7, <2>8
<1>4. \A k \in S : k \in 1..m /\ l[k].block \in Block /\ Index(l, "claude", k) \in 0..n - 1
  <2>1. \A k \in S : Index(l, "claude", k) \in 0..Cardinality(S) - 1 /\ k \in 1..m
    BY IndexIs
  <2>2. \A k \in 1..m : l[k] \in Lines
    OBVIOUS
  <2>3. QED
    BY <1>g, <2>1, <2>2 DEF Lines
<1>5. line.block \in Block
  BY DEF Lines
<1>6. \A x \in Block : d[x] = IF x = line.block THEN n ELSE b[x]
  BY <1>5
<1>7. \A k \in S : OpenIn(a, k, q) <=> OpenIn(l, k, m) /\ line.block # l[k].block
  BY <1>4, OpenAppended
<1>8. \A k \in S : Own(a, k) = Own(l, k) /\ Own(l, k) \in SUBSET (1..m)
  BY <1>4, OwnAppended
<1>9. Own(a, q) = {} /\ OpenIn(a, q, q)
  BY OwnOfLast
<1>10. \A k \in S : TextsAt(a, Own(a, k)) = TextsAt(l, Own(l, k))
  BY <1>8, <1>t
<1>11. /\ DOMAIN r = 1..(Len(s) + 1) /\ DOMAIN s = 1..Len(s) /\ r[Len(s) + 1] = e
       /\ \A i \in 1..Len(s) : r[i] = s[i]
       /\ \A i \in 1..(Len(s) + 1) : i \in 1..Len(s) \/ i = Len(s) + 1
  BY Appended
<1>12. \A t : /\ OfTool(r, "args", t) = OfTool(s, "args", t)
              /\ t # n => OfTool(r, "start", t) = OfTool(s, "start", t)
              /\ OfTool(r, "start", n) = OfTool(s, "start", n) \cup {Len(s) + 1}
  <2>1. \A is, t :
          /\ e.is = is /\ e.tool = t => OfTool(r, is, t) = OfTool(s, is, t) \cup {Len(s) + 1}
          /\ ~(e.is = is /\ e.tool = t) => OfTool(r, is, t) = OfTool(s, is, t)
    BY OfToolAppended
  <2> HIDE DEF r
  <2>2. QED
    BY <2>1
<1>13. OfTool(s, "start", n) = {} /\ OfTool(s, "args", n) = {}
  <2>1. n \notin 0..n - 1 /\ n # NoTool
    BY DEF NoTool
  <2>2. \A i \in DOMAIN s : s[i].tool # n
    BY <1>g, <2>1
  <2>3. QED
    BY <2>2 DEF OfTool
<1>14. \A t : TextsAt(r, OfTool(r, "args", t)) = TextsAt(s, OfTool(s, "args", t))
  <2>1. \A t : OfTool(s, "args", t) \in SUBSET (1..Len(s))
    BY OfToolAppended
  <2>2. QED
    BY <1>12, <1>u, <2>1
<1>15. \A x, y : TextsAt(x, {}) = TextsAt(y, {})
  <2>1. Cardinality({}) = 0 /\ 1..0 = {}
    BY FS_EmptySet
  <2>2. QED
    BY <2>1 DEF TextsAt
<1> HIDE DEF a, m, S, r, q, d
<1>16. \A k \in S : a[k].block = l[k].block
  BY <1>1, <1>4
<1>17. \A i \in DOMAIN r : r[i].tool \in 0..(n + 1) - 1 \/ (r[i].tool = NoTool /\ r[i].is # "start")
  <2>1. \A i \in 0..n - 1 : i \in 0..(n + 1) - 1
    OBVIOUS
  <2>2. n \in 0..(n + 1) - 1
    OBVIOUS
  <2>3. QED
    BY <1>11, <1>g, <2>1, <2>2
<1>18. \A t \in 0..(n + 1) - 1 : Cardinality(OfTool(r, "start", t)) = 1
  <2>1. \A t \in 0..(n + 1) - 1 : t = n \/ t \in 0..n - 1
    OBVIOUS
  <2>2. n \notin 0..n - 1
    OBVIOUS
  <2>3. Cardinality({Len(s) + 1}) = 1
    BY FS_Singleton
  <2>4. OfTool(r, "start", n) = {Len(s) + 1}
    BY <1>12, <1>13
  <2>5. QED
    BY <1>12, <1>g, <2>1, <2>2, <2>3, <2>4
<1>19. ASSUME NEW k \in S
       PROVE  /\ TextsAt(r, OfTool(r, "args", Index(a, "claude", k))) = TextsAt(a, Own(a, k))
              /\ OpenIn(a, k, q) <=> d[a[k].block] = Index(a, "claude", k)
  <2>1. TextsAt(r, OfTool(r, "args", Index(a, "claude", k))) = TextsAt(a, Own(a, k))
    BY <1>3, <1>10, <1>14, <1>g DEF S
  <2>2. OpenIn(a, k, q) <=> b[l[k].block] = Index(l, "claude", k) /\ line.block # l[k].block
    BY <1>7, <1>g DEF S, m
  <2>3. Index(l, "claude", k) # n
    BY <1>4
  <2>4. d[a[k].block] = IF l[k].block = line.block THEN n ELSE b[l[k].block]
    BY <1>4, <1>6, <1>16
  <2>5. QED
    BY <1>3, <2>1, <2>2, <2>3, <2>4
<1>20. /\ TextsAt(r, OfTool(r, "args", Index(a, "claude", q))) = TextsAt(a, Own(a, q))
       /\ OpenIn(a, q, q) <=> d[a[q].block] = Index(a, "claude", q)
  BY <1>1, <1>3, <1>5, <1>6, <1>9, <1>12, <1>13, <1>15
<1>21. \A x \in Block : d[x] # NoTool =>
         \E k \in Begun(a, "claude") : a[k].block = x /\ Index(a, "claude", k) = d[x]
  <2> SUFFICES ASSUME NEW x \in Block, d[x] # NoTool
               PROVE  \E k \in Begun(a, "claude") : a[k].block = x /\ Index(a, "claude", k) = d[x]
    OBVIOUS
  <2>1. CASE x = line.block
    BY <1>1, <1>2, <1>3, <1>6, <2>1
  <2>2. CASE x # line.block
    <3>1. b[x] # NoTool /\ d[x] = b[x]
      BY <1>6, <2>2
    <3>2. PICK k \in S : l[k].block = x /\ Index(l, "claude", k) = b[x]
      BY <1>g, <3>1 DEF S
    <3>3. QED
      BY <1>2, <1>3, <1>16, <3>1, <3>2
  <2>3. QED
    BY <2>1, <2>2
<1>22. \A k \in Begun(a, "claude") :
         /\ TextsAt(r, OfTool(r, "args", Index(a, "claude", k))) = TextsAt(a, Own(a, k))
         /\ OpenIn(a, k, Len(a)) <=> d[a[k].block] = Index(a, "claude", k)
  BY <1>1, <1>2, <1>19, <1>20
<1>23. TellsTools(r, a, "claude", d, n + 1)
  BY <1>3, <1>17, <1>18, <1>21, <1>22 DEF TellsTools
<1>24. QED
  BY <1>23 DEF r, a, d

\* What was sent, whether or not it has arrived.
Plus(s, e) == IF e = NoEvent THEN s ELSE Append(s, e)
Sent == Plus(told \o flow, sending)

Agreed == TellsTools(Sent, said, adapter, block, tools) /\ TellsText(Sent, said, adapter)

\* How a completion comes to its end.
Ending ==
  /\ source = "none" => step = "begin" \/ (step = "returned" /\ runErr)
  /\ source = "ended" => unwritten = <<>>
  /\ step \in {"waiting", "returned"} /\ ~runErr =>
       (stdout = <<>> /\ source # "writing") \/ (said # <<>> /\ Last(said).is = "result")
  /\ IsCLI /\ step = "returned" /\ ~runErr =>
       /\ source # "writing"
       /\ source # "ended" => unheard \/ \E i \in DOMAIN Sent : Sent[i].is = "error" /\ Sent[i].text = ""
  /\ reader \in {"joining", "ended"} /\ ~left => Returned /\ flow = <<>>

ToldInv == CompletionInv /\ told \in Seq(Events) /\ Agreed /\ Ending

LEMMA PipeIs ==
  ASSUME NEW T, NEW t \in Seq(T), NEW f \in Seq(T), NEW e \in T
  PROVE  /\ t \o f \in Seq(T) /\ t \o <<>> = t
         /\ t \o Append(f, e) = Append(t \o f, e)
         /\ f # <<>> => Append(t, Head(f)) \o Tail(f) = t \o f
<1>1. t \o f \in Seq(T) /\ t \o <<>> = t
  OBVIOUS
<1>2. t \o Append(f, e) = Append(t \o f, e)
  <2> DEFINE g == Append(f, e)
             l == t \o g
             r == Append(t \o f, e)
             m == Len(t)
             n == Len(f)
  <2>1. g \in Seq(T) /\ Len(g) = n + 1 /\ n \in Nat /\ m \in Nat /\ g[n + 1] = e /\ \A i \in 1..n : g[i] = f[i]
    OBVIOUS
  <2>2. /\ l \in Seq(T) /\ Len(l) = m + Len(g)
        /\ \A i \in 1..(m + Len(g)) : l[i] = IF i <= m THEN t[i] ELSE g[i - m]
    <3> HIDE DEF g
    <3>1. QED
      BY <2>1, ConcatIs
  <2>3. /\ t \o f \in Seq(T) /\ Len(t \o f) = m + n
        /\ \A i \in 1..(m + n) : (t \o f)[i] = IF i <= m THEN t[i] ELSE f[i - m]
    BY ConcatIs
  <2>4. /\ r \in Seq(T) /\ Len(r) = (m + n) + 1 /\ r[(m + n) + 1] = e
        /\ \A i \in 1..(m + n) : r[i] = (t \o f)[i]
    BY <2>3
  <2> HIDE DEF g, l, r, m, n
  <2>5. Len(l) = Len(r)
    BY <2>1, <2>2, <2>4
  <2>6. ASSUME NEW i \in 1..Len(l)
        PROVE  l[i] = r[i]
    <3>1. i \in 1..(m + n) \/ i = (m + n) + 1
      BY <2>1, <2>4, <2>5
    <3>2. CASE i = (m + n) + 1
      <4>1. i - m = n + 1 /\ ~(i <= m) /\ i \in 1..(m + Len(g))
        BY <2>1, <3>2
      <4>2. QED
        BY <2>1, <2>2, <2>4, <3>2, <4>1
    <3>3. CASE i \in 1..(m + n) /\ i <= m
      <4>1. i \in 1..(m + Len(g))
        BY <2>1, <3>3
      <4>2. QED
        BY <2>2, <2>3, <2>4, <3>3, <4>1
    <3>4. CASE i \in 1..(m + n) /\ ~(i <= m)
      <4>1. i \in 1..(m + Len(g)) /\ i - m \in 1..n
        BY <2>1, <3>4
      <4>2. QED
        BY <2>1, <2>2, <2>3, <2>4, <3>4, <4>1
    <3>5. QED
      BY <3>1, <3>2, <3>3, <3>4
  <2>7. l = r
    BY <2>2, <2>4, <2>5, <2>6, SeqEqual
  <2>8. QED
    BY <2>7 DEF l, r, g
<1>3. ASSUME f # <<>>
      PROVE  Append(t, Head(f)) \o Tail(f) = t \o f
  <2> DEFINE h == <<Head(f)>>
             g == Tail(f)
  <2>1. h \in Seq(T) /\ g \in Seq(T)
    BY <1>3
  <2>2. f = h \o g
    <3>1. /\ Len(h) = 1 /\ Len(g) = Len(f) - 1 /\ Len(f) \in Nat \ {0} /\ h[1] = f[1]
          /\ \A i \in 1..Len(g) : g[i] = f[i + 1]
      BY <1>3
    <3>2. h \o g \in Seq(T) /\ Len(h \o g) = Len(h) + Len(g)
          /\ \A i \in 1..(Len(h) + Len(g)) : (h \o g)[i] = IF i <= Len(h) THEN h[i] ELSE g[i - Len(h)]
      <4> HIDE DEF h, g
      <4>1. QED
        BY <2>1, ConcatIs
    <3> HIDE DEF h, g
    <3>3. Len(h \o g) = Len(f)
      BY <3>1, <3>2
    <3>4. ASSUME NEW i \in 1..Len(f)
          PROVE  f[i] = (h \o g)[i]
      <4>1. CASE i = 1
        BY <3>1, <3>2, <4>1
      <4>2. CASE i # 1
        <5>1. i - 1 \in 1..Len(g) /\ ~(i <= 1) /\ i \in 1..(Len(h) + Len(g)) /\ (i - 1) + 1 = i
          BY <3>1, <4>2
        <5>2. QED
          BY <3>1, <3>2, <5>1
      <4>3. QED
        BY <4>1, <4>2
    <3>5. QED
      BY <3>2, <3>3, <3>4, SeqEqual
  <2>3. Append(t, Head(f)) = t \o h
    BY <1>3
  <2> HIDE DEF h, g
  <2>4. (t \o h) \o g = t \o (h \o g)
    BY <2>1, ConcatAssociative
  <2>5. QED
    BY <2>2, <2>3, <2>4 DEF g
<1>4. QED
  BY <1>1, <1>2, <1>3

LEMMA PlusIs ==
  ASSUME NEW s \in Seq(Events), NEW e \in Events
  PROVE  /\ Plus(s, e) \in Seq(Events) /\ Plus(s, NoEvent) = s
         /\ e # NoEvent => Plus(s, e) = Append(s, e)
BY DEF Plus

\* The text sent and the text said grow together.
LEMMA TextGoesOn ==
  ASSUME NEW s \in Seq(Events), NEW e \in Events, NEW l \in Seq(Lines), NEW line \in Lines, NEW dialect,
         TellsText(s, l, dialect),
         e.is = "text" <=> line.is \in (IF dialect = "gemini" THEN Kind ELSE {"text"}),
         e.is = "text" => e.text = line.text
  PROVE  TellsText(Plus(s, e), Append(l, line), dialect)
<1> DEFINE K == IF dialect = "gemini" THEN Kind ELSE {"text"}
<1>1. Contents(Append(l, line), K) = IF line.is \in K THEN Append(Contents(l, K), line.text) ELSE Contents(l, K)
  <2> HIDE DEF K
  <2>1. QED
    BY ContentsOfAppend
<1>2. Contents(Append(s, e), {"text"})
        = IF e.is \in {"text"} THEN Append(Contents(s, {"text"}), e.text) ELSE Contents(s, {"text"})
  BY ContentsOfAppend
<1>3. Contents(s, {"text"}) = Contents(l, K)
  BY DEF TellsText
<1>4. e.is = "text" <=> line.is \in K
  OBVIOUS
<1> HIDE DEF K
<1>5. Contents(Append(s, e), {"text"}) = Contents(Append(l, line), K)
  BY <1>1, <1>2, <1>3, <1>4
<1>6. CASE e = NoEvent
  <2>1. e.is # "text"
    BY <1>6 DEF NoEvent
  <2>2. Plus(s, e) = s
    BY <1>6 DEF Plus
  <2>3. Contents(s, {"text"}) = Contents(Append(l, line), K)
    BY <1>1, <1>3, <1>4, <2>1
  <2>4. QED
    BY <2>2, <2>3 DEF TellsText, K
<1>7. CASE e # NoEvent
  <2>1. Plus(s, e) = Append(s, e)
    BY <1>7 DEF Plus
  <2>2. QED
    BY <1>5, <2>1 DEF TellsText, K
<1>8. QED
  BY <1>6, <1>7

\* An event of the program's end says nothing of the tools and adds no text.
LEMMA QuietPlus ==
  ASSUME NEW s \in Seq(Events), NEW e \in Events, NEW l \in Seq(Lines), NEW dialect, NEW b, NEW n \in Nat,
         e.is \notin {"text", "start", "args"}, e.tool \in 0..n - 1 \/ e.tool = NoTool,
         TellsTools(s, l, dialect, b, n), TellsText(s, l, dialect)
  PROVE  TellsTools(Plus(s, e), l, dialect, b, n) /\ TellsText(Plus(s, e), l, dialect)
<1>1. CASE e = NoEvent
  BY <1>1 DEF Plus
<1>2. CASE e # NoEvent
  <2>1. Plus(s, e) = Append(s, e)
    BY <1>2 DEF Plus
  <2>2. TellsTools(Append(s, e), l, dialect, b, n)
    BY QuietEvent
  <2>3. Contents(Append(s, e), {"text"}) = Contents(s, {"text"})
    BY ContentsOfAppend
  <2>4. QED
    BY <2>1, <2>2, <2>3 DEF TellsText
<1>3. QED
  BY <1>1, <1>2

LEMMA QuietTools ==
  ASSUME NEW s \in Seq(Events), NEW e \in Events, NEW l \in Seq(Lines), NEW dialect, NEW b, NEW n \in Nat,
         e.is \notin {"start", "args"}, e.tool \in 0..n - 1 \/ e.tool = NoTool,
         TellsTools(s, l, dialect, b, n)
  PROVE  TellsTools(Plus(s, e), l, dialect, b, n)
<1>1. CASE e = NoEvent
  BY <1>1 DEF Plus
<1>2. CASE e # NoEvent
  <2>1. Plus(s, e) = Append(s, e)
    BY <1>2 DEF Plus
  <2>2. TellsTools(Append(s, e), l, dialect, b, n)
    BY QuietEvent
  <2>3. QED
    BY <2>1, <2>2
<1>3. QED
  BY <1>1, <1>2

LEMMA EventIs == \A is, tool, text : /\ Event(is, tool, text).is = is
                                     /\ Event(is, tool, text).tool = tool
                                     /\ Event(is, tool, text).text = text
                                     /\ NoEvent.is = "none" /\ NoEvent.tool = NoTool
BY DEF Event, NoEvent

\* What is said of no tool, or is not read as a part of one.
LEMMA OtherLine ==
  ASSUME NEW s \in Seq(Events), NEW line \in Lines, NEW e \in Events, ParserOK,
         TellsTools(s, said, adapter, block, tools), TellsText(s, said, adapter),
         adapter = "claude" => line.is \notin {"start", "args", "stop"},
         e.tool = NoTool, e.is \notin {"start", "args"},
         e.is = "text" <=> line.is \in (IF adapter = "gemini" THEN Kind ELSE {"text"}),
         e.is = "text" => e.text = line.text
  PROVE  TellsTools(Plus(s, e), Append(said, line), adapter, block, tools)
           /\ TellsText(Plus(s, e), Append(said, line), adapter)
<1>1. said \in Seq(Lines) /\ tools \in Nat /\ Append(said, line) \in Seq(Lines)
  BY DEF ParserOK
<1>2. TellsTools(s, Append(said, line), adapter, block, tools)
  <2>1. adapter = "claude" => /\ line.is \notin {"start", "stop"}
                              /\ line.is = "args" => block[line.block] = NoTool
    OBVIOUS
  <2>2. QED
    BY <1>1, <2>1, QuietLine
<1>3. TellsTools(Plus(s, e), Append(said, line), adapter, block, tools)
  <2> DEFINE l == Append(said, line)
  <2>1. l \in Seq(Lines) /\ TellsTools(s, l, adapter, block, tools)
    BY <1>1, <1>2
  <2> HIDE DEF l
  <2>2. TellsTools(Plus(s, e), l, adapter, block, tools)
    BY <1>1, <2>1, QuietTools
  <2>3. QED
    BY <2>2 DEF l
<1>4. TellsText(Plus(s, e), Append(said, line), adapter)
  BY <1>1, TextGoesOn
<1>5. QED
  BY <1>3, <1>4

\* What is said of a tool is told of it, by its number.
LEMMA ToolLine ==
  ASSUME NEW s \in Seq(Events), NEW line \in Lines, ParserOK, adapter = "claude",
         TellsTools(s, said, adapter, block, tools), TellsText(s, said, adapter),
         line.is \in {"args", "stop"}, InTool(line), sending' \in Events
  PROVE  TellsTools(Plus(s, sending'), Append(said, line), adapter, block', tools')
           /\ TellsText(Plus(s, sending'), Append(said, line), adapter)
<1> DEFINE l == Append(said, line)
           x == line.block
           e == Event(line.is, block[x], line.text)
<1>1. said \in Seq(Lines) /\ tools \in Nat /\ l \in Seq(Lines) /\ block \in [Block -> 0..tools \cup {NoTool}]
  BY DEF ParserOK
<1>2. x \in Block
  BY DEF Lines
<1>3. /\ tools' = tools
      /\ sending' = IF block[x] = NoTool THEN NoEvent ELSE e
      /\ line.is = "stop" => block' = [block EXCEPT ![x] = NoTool]
      /\ line.is = "args" => block' = block
  BY DEF InTool, GoOn
<1>4. e.is = line.is /\ e.tool = block[x] /\ e.text = line.text /\ NoEvent.is = "none" /\ NoEvent.tool = NoTool
  BY EventIs
<1>5. TellsText(Plus(s, sending'), l, adapter)
  <2>1. sending'.is # "text"
    BY <1>3, <1>4
  <2>2. ~(sending'.is = "text") /\ ~(line.is \in (IF adapter = "gemini" THEN Kind ELSE {"text"}))
    BY <2>1
  <2> DEFINE f == sending'
  <2>3. f \in Events /\ f.is # "text"
    BY <2>1
  <2> HIDE DEF f
  <2>4. TellsText(Plus(s, f), l, adapter)
    BY <1>1, <2>2, <2>3, TextGoesOn
  <2>5. QED
    BY <2>4 DEF f
<1>6. block[x] # NoTool => block[x] \in 0..tools - 1
  <2> HIDE DEF x
  <2>1. QED
    BY <1>1, <1>2, HeldIs
<1>7. TellsTools(Plus(s, sending'), l, adapter, block', tools')
  <2>1. CASE line.is = "stop"
    <3>1. TellsTools(s, l, "claude", [block EXCEPT ![x] = NoTool], tools)
      BY <1>1, <2>1, ToolStops
    <3>2. sending'.is \notin {"start", "args"} /\ (sending'.tool \in 0..tools - 1 \/ sending'.tool = NoTool)
      BY <1>3, <1>4, <1>6, <2>1
    <3> DEFINE f == sending'
               c == [block EXCEPT ![x] = NoTool]
    <3>3. f \in Events /\ f.is \notin {"start", "args"} /\ (f.tool \in 0..tools - 1 \/ f.tool = NoTool)
          /\ TellsTools(s, l, "claude", c, tools)
      BY <3>1, <3>2
    <3> HIDE DEF f, l, c
    <3>4. TellsTools(Plus(s, f), l, "claude", c, tools)
      BY <1>1, <3>3, QuietTools
    <3>5. QED
      BY <1>3, <2>1, <3>4 DEF f, c
  <2>2. CASE line.is = "args" /\ block[x] = NoTool
    <3>1. TellsTools(s, l, adapter, block, tools)
      BY <1>1, <2>2, QuietLine
    <3>2. Plus(s, sending') = s
      BY <1>3, <2>2 DEF Plus
    <3>3. QED
      BY <1>3, <2>2, <3>1, <3>2
  <2>3. CASE line.is = "args" /\ block[x] # NoTool
    <3>1. sending' = e /\ e # NoEvent
      BY <1>3, <1>4, <2>3
    <3>2. Plus(s, sending') = Append(s, e) /\ e \in Events
      BY <3>1 DEF Plus
    <3> HIDE DEF e
    <3>3. TellsTools(Append(s, e), Append(said, line), "claude", block, tools)
      BY <1>1, <1>4, <2>3, <3>2, ToolGoesOn
    <3>4. QED
      BY <1>3, <2>3, <3>2, <3>3
  <2>4. QED
    BY <2>1, <2>2, <2>3
<1>8. QED
  BY <1>5, <1>7

LEMMA StartLine ==
  ASSUME NEW s \in Seq(Events), NEW line \in Lines, ParserOK, adapter = "claude",
         TellsTools(s, said, adapter, block, tools), TellsText(s, said, adapter),
         line.is = "start", StartTool(line.block), sending' \in Events
  PROVE  TellsTools(Plus(s, sending'), Append(said, line), adapter, block', tools')
           /\ TellsText(Plus(s, sending'), Append(said, line), adapter)
<1> DEFINE e == Event("start", tools, "")
<1>1. said \in Seq(Lines) /\ tools \in Nat /\ Append(said, line) \in Seq(Lines)
        /\ block \in [Block -> 0..tools \cup {NoTool}]
  BY DEF ParserOK
<1>2. /\ sending' = e /\ tools' = tools + 1 /\ block' = [block EXCEPT ![line.block] = tools]
  BY DEF StartTool, StartToolAs, GoOn
<1>3. e.is = "start" /\ e.tool = tools /\ e # NoEvent /\ e \in Events
  <2>1. e.is = "start" /\ e.tool = tools /\ NoEvent.is = "none"
    BY DEF Event, NoEvent
  <2>2. e \in Events
    BY <1>2
  <2> HIDE DEF e
  <2>3. QED
    BY <2>1, <2>2
<1>4. Plus(s, sending') = Append(s, e) /\ Plus(s, e) = Append(s, e)
  BY <1>2, <1>3 DEF Plus
<1> HIDE DEF e
<1>5. TellsTools(Append(s, e), Append(said, line), "claude", [block EXCEPT ![line.block] = tools], tools + 1)
  BY <1>1, <1>3, ToolBegins
<1>6. TellsText(Plus(s, e), Append(said, line), adapter)
  <2>1. e.is # "text" /\ ~(line.is \in (IF adapter = "gemini" THEN Kind ELSE {"text"}))
    BY <1>3
  <2>2. QED
    BY <1>1, <1>3, <2>1, TextGoesOn
<1>7. QED
  BY <1>2, <1>4, <1>5, <1>6

Parses(line) ==
  \/ adapter = "claude" /\ ParseClaude(line)
  \/ adapter = "gemini" /\ ParseGemini(line)
  \/ adapter = "anthropic" /\ ParseAnthropic(line)

\* What a line brings: a sent event, the end of the run, or its failure.
LEMMA LineTold ==
  ASSUME NEW s \in Seq(Events), NEW line \in Lines, ParserOK, sending = NoEvent, step = "parsing", Parses(line),
         TellsTools(s, said, adapter, block, tools), TellsText(s, said, adapter)
  PROVE  /\ TellsTools(Plus(s, sending'), Append(said, line), adapter, block', tools')
         /\ TellsText(Plus(s, sending'), Append(said, line), adapter)
         /\ step' = "parsing" \/ line.is = "result" \/ runErr'
         /\ step' = "returned" => adapter = "anthropic"
<1>0. line.block \in Block /\ line.is \in Kind /\ line.text \in Texts
  BY DEF Lines, Texts
<1>1. CASE adapter = "claude" /\ line.is = "start"
  <2>1. StartTool(line.block)
    BY <1>1 DEF Parses, ParseClaude
  <2>2. step' = "parsing" /\ sending' \in Events
    <3>1. Parsed(block, tools)
      BY <1>1, ClaudeParses DEF Parses
    <3>2. step' = step
      BY <2>1 DEF StartTool, StartToolAs, GoOn
    <3>3. QED
      BY <3>1, <3>2 DEF Parsed
  <2>3. QED
    BY <1>1, <2>1, <2>2, StartLine
<1>2. CASE adapter = "claude" /\ line.is \in {"args", "stop"}
  <2>1. InTool(line)
    BY <1>2 DEF Parses, ParseClaude
  <2>2. step' = "parsing" /\ sending' \in Events
    <3>1. Parsed(block, tools)
      BY <1>2, ClaudeParses DEF Parses
    <3>2. step' = step
      BY <2>1 DEF InTool, GoOn
    <3>3. QED
      BY <3>1, <3>2 DEF Parsed
  <2>3. QED
    BY <1>2, <2>1, <2>2, ToolLine
<1>3. CASE ~(adapter = "claude" /\ line.is \in {"start", "args", "stop"})
  <2>e. /\ \A is, tool, text : /\ Event(is, tool, text).is = is
                               /\ Event(is, tool, text).tool = tool
                               /\ Event(is, tool, text).text = text
        /\ NoEvent.is = "none" /\ NoEvent.tool = NoTool
    BY EventIs
  <2>1. sending' \in Events
    BY <1>3, ClaudeParses, OthersParse DEF Parses, Parsed
  <2>2. CASE adapter = "claude"
    <3>1. /\ UNCHANGED <<block, tools>>
          /\ CASE line.is = "text" -> GoOn(Event("text", NoTool, line.text))
               [] line.is = "result" -> Finish(Event("done", NoTool, "end_turn"), "waiting")
               [] line.is = "huge" -> Fail("waiting")
               [] OTHER -> GoOn(NoEvent)
      BY <1>3, <2>2 DEF Parses, ParseClaude
    <3>2. \/ line.is = "text" /\ GoOn(Event("text", NoTool, line.text))
          \/ line.is = "result" /\ Finish(Event("done", NoTool, "end_turn"), "waiting")
          \/ line.is = "huge" /\ Fail("waiting")
          \/ line.is \notin {"text", "result", "huge"} /\ GoOn(NoEvent)
      BY <3>1
    <3>3. /\ sending'.tool = NoTool /\ sending'.is \notin {"start", "args"}
          /\ sending'.is = "text" <=> line.is \in {"text"}
          /\ sending'.is = "text" => sending'.text = line.text
      BY <2>e, <3>2 DEF GoOn, Finish, Fail
    <3>4. (step' = "parsing" \/ line.is = "result" \/ runErr') /\ step' # "returned"
      BY <3>2 DEF GoOn, Finish, Fail
    <3> DEFINE f == sending'
    <3>5. f \in Events /\ f.tool = NoTool /\ f.is \notin {"start", "args"}
          /\ (f.is = "text" <=> line.is \in {"text"}) /\ (f.is = "text" => f.text = line.text)
      BY <2>1, <3>3
    <3> HIDE DEF f
    <3>6. /\ adapter = "claude" => line.is \notin {"start", "args", "stop"}
          /\ f.is = "text" <=> line.is \in (IF adapter = "gemini" THEN Kind ELSE {"text"})
      BY <1>3, <2>2, <3>5
    <3>7. TellsTools(Plus(s, f), Append(said, line), adapter, block, tools)
            /\ TellsText(Plus(s, f), Append(said, line), adapter)
      BY <3>5, <3>6, OtherLine
    <3>8. QED
      BY <2>2, <3>1, <3>4, <3>7 DEF f
  <2>3. CASE adapter = "gemini"
    <3>1. UNCHANGED <<block, tools>> /\ GoOn(Event("text", NoTool, line.text))
      BY <2>3 DEF Parses, ParseGemini
    <3>2. sending'.tool = NoTool /\ sending'.is = "text" /\ sending'.text = line.text /\ step' = "parsing"
      BY <2>e, <3>1 DEF GoOn
    <3> DEFINE f == sending'
    <3>3. f \in Events /\ f.tool = NoTool /\ f.is = "text" /\ f.text = line.text
      BY <2>1, <3>2
    <3> HIDE DEF f
    <3>4. /\ adapter = "claude" => line.is \notin {"start", "args", "stop"}
          /\ f.is = "text" <=> line.is \in (IF adapter = "gemini" THEN Kind ELSE {"text"})
          /\ f.is \notin {"start", "args"}
      BY <1>0, <2>3, <3>3
    <3>5. TellsTools(Plus(s, f), Append(said, line), adapter, block, tools)
            /\ TellsText(Plus(s, f), Append(said, line), adapter)
      BY <3>3, <3>4, OtherLine
    <3>6. QED
      BY <2>3, <3>1, <3>2, <3>5 DEF f
  <2>4. CASE adapter = "anthropic"
    <3>1. /\ UNCHANGED <<block, tools>>
          /\ CASE line.is \in {"text", "error"} -> GoOn(Event(line.is, NoTool, line.text))
               [] line.is = "result" -> Finish(Event("done", NoTool, "end_turn"), "returned")
               [] line.is = "huge" -> Fail("returned")
               [] OTHER -> GoOn(NoEvent)
      BY <2>4 DEF Parses, ParseAnthropic
    <3>2. \/ line.is \in {"text", "error"} /\ GoOn(Event(line.is, NoTool, line.text))
          \/ line.is = "result" /\ Finish(Event("done", NoTool, "end_turn"), "returned")
          \/ line.is = "huge" /\ Fail("returned")
          \/ line.is \notin {"text", "error", "result", "huge"} /\ GoOn(NoEvent)
      BY <3>1
    <3>3. /\ sending'.tool = NoTool /\ sending'.is \notin {"start", "args"}
          /\ sending'.is = "text" <=> line.is \in {"text"}
          /\ sending'.is = "text" => sending'.text = line.text
      BY <2>e, <3>2 DEF GoOn, Finish, Fail
    <3>4. step' = "parsing" \/ line.is = "result" \/ runErr'
      BY <3>2 DEF GoOn, Finish, Fail
    <3> DEFINE f == sending'
    <3>5. f \in Events /\ f.tool = NoTool /\ f.is \notin {"start", "args"}
          /\ (f.is = "text" <=> line.is \in {"text"}) /\ (f.is = "text" => f.text = line.text)
      BY <2>1, <3>3
    <3> HIDE DEF f
    <3>6. /\ adapter = "claude" => line.is \notin {"start", "args", "stop"}
          /\ f.is = "text" <=> line.is \in (IF adapter = "gemini" THEN Kind ELSE {"text"})
      BY <1>3, <2>4, <3>5
    <3>7. TellsTools(Plus(s, f), Append(said, line), adapter, block, tools)
            /\ TellsText(Plus(s, f), Append(said, line), adapter)
      BY <3>5, <3>6, OtherLine
    <3>8. QED
      BY <2>4, <3>1, <3>4, <3>7 DEF f
  <2>5. QED
    BY <2>2, <2>3, <2>4 DEF Parses
<1>4. QED
  BY <1>1, <1>2, <1>3

LEMMA ToldInitially == CompletionInit /\ CompletionInv => ToldInv
<1> SUFFICES ASSUME CompletionInit, CompletionInv
             PROVE  ToldInv
  OBVIOUS
<1>1. /\ told = <<>> /\ flow = <<>> /\ said = <<>> /\ sending = NoEvent /\ tools = 0
      /\ \A b \in Block : block[b] = NoTool
      /\ source = "none" /\ step = "begin" /\ reader = "hearing"
  BY DEF CompletionInit
<1>2. Sent = <<>> /\ told \in Seq(Events)
  BY <1>1 DEF Sent, Plus
<1>3. Begun(said, adapter) = {}
  BY <1>1 DEF Begun
<1>4. Cardinality({}) = 0 /\ 0..0 - 1 = {} /\ 1..0 = {}
  BY FS_EmptySet
<1>5. TellsTools(Sent, said, adapter, block, tools)
  <2>1. DOMAIN Sent = {} /\ 0..tools - 1 = {}
    BY <1>1, <1>2, <1>4
  <2>2. Cardinality(Begun(said, adapter)) = tools
    BY <1>1, <1>3, <1>4
  <2>3. QED
    BY <1>1, <1>3, <2>1, <2>2 DEF TellsTools
<1>6. TellsText(Sent, said, adapter)
  <2>1. \A is : Contents(<<>>, is) = TextsAt(<<>>, {})
    BY DEF Contents
  <2>2. QED
    BY <1>1, <1>2, <2>1 DEF TellsText
<1>7. Ending
  BY <1>1 DEF Ending
<1>8. QED
  BY <1>2, <1>5, <1>6, <1>7 DEF ToldInv, Agreed

LEMMA ToldNext == ToldInv /\ [Next]_vars => ToldInv'
<1> SUFFICES ASSUME ToldInv, [Next]_vars
             PROVE  ToldInv'
  OBVIOUS
<1>0. /\ CompletionInv /\ CompletionInv' /\ told \in Seq(Events) /\ Agreed /\ Ending
  BY CompletionNext DEF ToldInv
<1>a. /\ adapter \in {"claude", "gemini", "anthropic"}
      /\ stdout \in Seq(Lines) /\ said \in Seq(Lines) /\ flow \in Seq(Events)
      /\ sending \in Events /\ sending' \in Events /\ step \in Steps /\ tools \in Nat /\ ParserOK
  BY <1>0 DEF CompletionInv, StdoutOK, ParserOK, FlowOK
<1>b. /\ told \o flow \in Seq(Events) /\ Sent \in Seq(Events)
      /\ sending = NoEvent => Sent = told \o flow
  <2>1. told \o flow \in Seq(Events)
    BY <1>0, <1>a
  <2>2. QED
    BY <1>a, <2>1 DEF Sent, Plus
<1>p. \A e \in Events : told \o Append(flow, e) = Append(told \o flow, e)
  BY <1>0, <1>a, PipeIs
<1>r. \A e \in Events :
        /\ DOMAIN Append(Sent, e) = 1..(Len(Sent) + 1) /\ Len(Sent) + 1 \in 1..(Len(Sent) + 1)
        /\ Append(Sent, e)[Len(Sent) + 1] = e /\ Len(Append(Sent, e)) = Len(Sent) + 1 /\ Len(Sent) \in Nat
  BY <1>b, Appended
<1>k. ASSUME Sent' = Sent, UNCHANGED <<said, adapter, block, tools>>
      PROVE  Agreed'
  BY <1>0, <1>k DEF Agreed
<1>u. UNCHANGED <<told, flow, sending>> => Sent' = Sent
  BY DEF Sent, Plus
<1>e. /\ source = "none" => step = "begin" \/ (step = "returned" /\ runErr)
      /\ source = "ended" => unwritten = <<>>
      /\ step \in {"waiting", "returned"} /\ ~runErr =>
           (stdout = <<>> /\ source # "writing") \/ (said # <<>> /\ Last(said).is = "result")
      /\ IsCLI /\ step = "returned" /\ ~runErr =>
           /\ source # "writing"
           /\ source # "ended" => unheard \/ \E i \in DOMAIN Sent : Sent[i].is = "error" /\ Sent[i].text = ""
      /\ reader \in {"joining", "ended"} /\ ~left => step = "returned" /\ sending = NoEvent /\ flow = <<>>
  BY <1>0 DEF Ending, Returned
<1>q. ASSUME told' \in Seq(Events), Agreed', Ending'
      PROVE  ToldInv'
  BY <1>0, <1>q DEF ToldInv
<1>1. CASE WriteLine \/ EndWriting \/ Cut
  <2>1. /\ UNCHANGED <<adapter, streams, said, block, tools, step, sending, runErr, flow, unheard, left, reader, told>>
        /\ source = "writing" /\ source' \in {"writing", "ended", "failed", "cut"}
        /\ source' = "ended" => unwritten' = <<>>
    BY <1>1 DEF WriteLine, EndWriting, Cut, ProgramOnly, client
  <2>2. Sent' = Sent /\ Agreed'
    BY <1>k, <1>u, <2>1
  <2>3. Ending'
    BY <1>e, <2>1, <2>2 DEF Ending, Returned, IsCLI
  <2>4. QED
    BY <1>0, <1>q, <2>1, <2>2, <2>3
<1>1a. CASE LetGo
  <2>1. UNCHANGED <<adapter, source, unwritten, stdout, said, block, tools, step, sending, runErr, flow, left, reader, told, unheard>>
    BY <1>1a DEF LetGo, ProgramOnly, client
  <2>2. Sent' = Sent /\ Agreed'
    BY <1>k, <1>u, <2>1
  <2>3. Ending'
    BY <1>e, <2>1, <2>2 DEF Ending, Returned, IsCLI
  <2>4. QED
    BY <1>0, <1>q, <2>1, <2>2, <2>3
<1>2. CASE Begin
  <2>1. /\ UNCHANGED <<adapter, said, block, tools, sending, flow, unheard, left, reader, told>>
        /\ step = "begin"
        /\ (source' = "writing" /\ step' = "parsing") \/ (step' = "returned" /\ runErr')
        /\ unwritten' = unwritten /\ source' \in {source, "writing"}
    BY <1>2 DEF Begin, AdapterOnly, client
  <2>2. Sent' = Sent /\ Agreed'
    BY <1>k, <1>u, <2>1
  <2>3. Ending'
    BY <1>e, <2>1, <2>2 DEF Ending, Returned, IsCLI
  <2>4. QED
    BY <1>0, <1>q, <2>1, <2>2, <2>3
<1>3. CASE SendEvent
  <2>1. /\ UNCHANGED <<adapter, source, unwritten, stdout, said, block, tools, step, runErr, unheard, left, reader, told>>
        /\ sending # NoEvent /\ sending' = NoEvent /\ flow' = Append(flow, sending)
    BY <1>3 DEF SendEvent, AdapterOnly, program, client
  <2>2. told \o Append(flow, sending) = Append(told \o flow, sending)
    BY <1>a, <1>p
  <2>3. Sent' = Sent
    BY <2>1, <2>2 DEF Sent, Plus
  <2>4. Agreed'
    BY <1>k, <2>1, <2>3
  <2>5. Ending'
    BY <1>e, <2>1, <2>3 DEF Ending, Returned, IsCLI
  <2>6. QED
    BY <1>0, <1>q, <2>1, <2>4, <2>5
<1>4. CASE ReadLine
  <2> DEFINE line == Head(stdout)
  <2>1. /\ UNCHANGED <<adapter, source, unwritten, flow, unheard, left, reader, told>>
        /\ step = "parsing" /\ sending = NoEvent /\ stdout # <<>>
        /\ said' = Append(said, line)
    BY <1>4 DEF ReadLine, AdapterOnly, program, client
  <2>2. line \in Lines
    BY <1>a, <2>1
  <2>3. Parses(line)
    BY <1>4, <1>a DEF ReadLine, Parses
  <2>4. Sent' = Plus(Sent, sending')
    BY <1>b, <2>1 DEF Sent
  <2>5. TellsTools(Sent, said, adapter, block, tools) /\ TellsText(Sent, said, adapter)
    BY <1>0 DEF Agreed
  <2> HIDE DEF line
  <2>6. /\ TellsTools(Plus(Sent, sending'), Append(said, line), adapter, block', tools')
        /\ TellsText(Plus(Sent, sending'), Append(said, line), adapter)
        /\ step' = "parsing" \/ line.is = "result" \/ runErr'
        /\ step' = "returned" => adapter = "anthropic"
    BY <1>a, <1>b, <2>1, <2>2, <2>3, <2>5, LineTold
  <2>7. Agreed'
    BY <2>1, <2>4, <2>6 DEF Agreed
  <2>8. said' # <<>> /\ Last(said') = line
    <3>1. Len(said') = Len(said) + 1 /\ Len(said) \in Nat /\ said'[Len(said) + 1] = line /\ said' \in Seq(Lines)
      BY <1>a, <2>1, <2>2
    <3>2. QED
      BY <3>1 DEF Last
  <2>9. Ending'
    BY <1>e, <2>1, <2>6, <2>8 DEF Ending, Returned, IsCLI
  <2>10. QED
    BY <1>0, <1>q, <2>1, <2>7, <2>9
<1>5. CASE ReadEnd
  <2>1. /\ UNCHANGED <<adapter, source, unwritten, stdout, said, block, tools, flow, unheard, left, reader, told>>
        /\ step = "parsing" /\ sending = NoEvent /\ stdout = <<>> /\ source # "writing"
    BY <1>5 DEF ReadEnd, AdapterOnly, program, client
  <2>2. /\ \/ \E next \in {"waiting", "returned"} : \E text : Finish(Event("done", NoTool, text), next)
           \/ Finish(NoEvent, "waiting") \/ Fail("returned")
        /\ step' = "returned" => adapter = "anthropic"
    BY <1>5, <1>a DEF ReadEnd, Finish, Fail
  <2>3. sending'.is \in {"done", "none"} /\ sending'.tool = NoTool
    BY <2>1, <2>2, EventIs DEF Finish, Fail
  <2>4. Sent' = Plus(Sent, sending')
    BY <1>b, <2>1 DEF Sent
  <2>5. Agreed'
    <3> DEFINE f == sending'
    <3>1. f \in Events /\ f.is \notin {"text", "start", "args"} /\ f.tool = NoTool
      BY <1>a, <2>3
    <3>2. TellsTools(Sent, said, adapter, block, tools) /\ TellsText(Sent, said, adapter)
      BY <1>0 DEF Agreed
    <3> HIDE DEF f
    <3>3. TellsTools(Plus(Sent, f), said, adapter, block, tools) /\ TellsText(Plus(Sent, f), said, adapter)
      BY <1>a, <1>b, <3>1, <3>2, QuietPlus
    <3>4. QED
      BY <2>1, <2>4, <3>3 DEF Agreed, f
  <2>6. Ending'
    BY <1>e, <2>1, <2>2 DEF Ending, Returned, IsCLI
  <2>7. QED
    BY <1>0, <1>q, <2>1, <2>5, <2>6
<1>6. CASE Reap
  <2> DEFINE err == Event("error", NoTool, "")
             mid == told \o flow'
  <2>1. /\ UNCHANGED <<adapter, source, unwritten, stdout, said, block, tools, runErr, left, reader, told>>
        /\ step = "waiting" /\ sending = NoEvent /\ source # "writing" /\ step' = "returned"
        /\ sending' = IF adapter = "gemini" THEN Event("done", NoTool, "end_turn") ELSE NoEvent
    BY <1>6 DEF Reap, AdapterOnly, program, client
  <2>2. \/ flow' = Append(flow, err)
        \/ flow' = flow /\ (source \in {"failed", "cut"} /\ ~runErr => unheard')
    BY <1>6 DEF Reap
  <2>3. err \in Events /\ err.is = "error" /\ err.tool = NoTool /\ err.text = ""
    BY EventsAre DEF Event
  <2>4. sending'.is \in {"done", "none"} /\ sending'.tool = NoTool
    BY <2>1, EventIs
  <2>5. Sent' = Plus(mid, sending')
    BY <2>1 DEF Sent
  <2>6. TellsTools(Sent, said, adapter, block, tools) /\ TellsText(Sent, said, adapter) /\ Sent = told \o flow
    BY <1>0, <1>b, <2>1 DEF Agreed
  <2> HIDE DEF err
  <2>7. mid = Plus(Sent, err) \/ mid = Plus(Sent, NoEvent)
    <3>1. told \o Append(flow, err) = Append(told \o flow, err)
      BY <1>p, <2>3
    <3>2. err # NoEvent
      BY <2>3, EventIs
    <3>3. QED
      BY <2>2, <2>6, <3>1, <3>2 DEF Plus
  <2>8. mid \in Seq(Events) /\ TellsTools(mid, said, adapter, block, tools) /\ TellsText(mid, said, adapter)
    <3>1. \A e \in {err, NoEvent} : e \in Events /\ e.is \notin {"text", "start", "args"} /\ e.tool = NoTool
      BY <2>3, EventIs, EventsAre
    <3>2. \A e \in {err, NoEvent} : /\ TellsTools(Plus(Sent, e), said, adapter, block, tools)
                                    /\ TellsText(Plus(Sent, e), said, adapter)
                                    /\ Plus(Sent, e) \in Seq(Events)
      BY <1>a, <1>b, <2>6, <3>1, QuietPlus, PlusIs
    <3>3. QED
      BY <2>7, <3>2
  <2> HIDE DEF mid
  <2>9. Agreed'
    <3> DEFINE f == sending'
    <3>1. f \in Events /\ f.is \notin {"text", "start", "args"} /\ f.tool = NoTool
      BY <1>a, <2>4
    <3> HIDE DEF f
    <3>2. TellsTools(Plus(mid, f), said, adapter, block, tools) /\ TellsText(Plus(mid, f), said, adapter)
      BY <1>a, <2>8, <3>1, QuietPlus
    <3>3. QED
      BY <2>1, <2>5, <3>2 DEF Agreed, f
  <2>10. flow' = Append(flow, err) => \E i \in DOMAIN Sent' : Sent'[i].is = "error" /\ Sent'[i].text = ""
    <3> SUFFICES ASSUME flow' = Append(flow, err)
                 PROVE  \E i \in DOMAIN Sent' : Sent'[i].is = "error" /\ Sent'[i].text = ""
      OBVIOUS
    <3> DEFINE n == Len(Sent)
    <3>1. mid = Append(Sent, err)
      BY <1>p, <2>3, <2>6 DEF mid
    <3>2. n + 1 \in DOMAIN mid /\ mid[n + 1] = err /\ DOMAIN mid = 1..Len(mid) /\ Len(mid) \in Nat
      <4>1. /\ DOMAIN Append(Sent, err) = 1..(n + 1) /\ n + 1 \in 1..(n + 1)
            /\ Append(Sent, err)[n + 1] = err /\ Len(Append(Sent, err)) = n + 1 /\ n \in Nat
        BY <1>r, <2>3
      <4> HIDE DEF n
      <4>2. QED
        BY <3>1, <4>1
    <3>3. n + 1 \in DOMAIN Sent' /\ Sent'[n + 1] = mid[n + 1]
      <4> HIDE DEF n
      <4>1. CASE sending' = NoEvent
        <5>1. Sent' = mid
          BY <2>5, <4>1 DEF Plus
        <5>2. QED
          BY <3>2, <5>1
      <4>2. CASE sending' # NoEvent
        <5>1. Sent' = Append(mid, sending')
          BY <2>5, <4>2 DEF Plus
        <5>2. QED
          BY <1>a, <2>8, <3>2, <5>1, Appended
      <4>3. QED
        BY <4>1, <4>2
    <3>4. QED
      BY <2>3, <3>2, <3>3
  <2>11. source # "none" /\ (source # "ended" => source \in {"failed", "cut"})
    <3>1. source \in {"none", "writing", "ended", "failed", "cut"}
      BY <1>0 DEF CompletionInv, ProgramOK
    <3>2. QED
      BY <1>e, <2>1, <3>1
  <2>12. source # "ended" /\ ~runErr => unheard' \/ \E i \in DOMAIN Sent' : Sent'[i].is = "error" /\ Sent'[i].text = ""
    BY <2>2, <2>10, <2>11
  <2>13. Ending'
    BY <1>e, <2>1, <2>11, <2>12 DEF Ending, Returned, IsCLI
  <2>14. QED
    BY <1>0, <1>q, <2>1, <2>9, <2>13
<1>7. CASE Hear
  <2>1. /\ UNCHANGED <<adapter, source, unwritten, stdout, said, block, tools, step, sending, runErr, unheard, left, reader>>
        /\ reader = "hearing" /\ flow # <<>> /\ told' = Append(told, Head(flow)) /\ flow' = Tail(flow)
    BY <1>7 DEF Hear, HandlerOnly, program
  <2>2. Append(told, Head(flow)) \o Tail(flow) = told \o flow /\ told' \in Seq(Events)
    <3>1. Head(flow) \in Events
      BY <1>a, <2>1
    <3>2. QED
      BY <1>0, <1>a, <2>1, <3>1, PipeIs
  <2>3. Sent' = Sent
    BY <2>1, <2>2 DEF Sent, Plus
  <2>4. Agreed'
    BY <1>k, <2>1, <2>3
  <2>5. Ending'
    BY <1>e, <2>1, <2>3 DEF Ending, Returned, IsCLI
  <2>6. QED
    BY <1>q, <2>2, <2>4, <2>5
<1>8. CASE StopHearing \/ Join \/ ClientLeaves
  <2>1. /\ UNCHANGED <<adapter, source, unwritten, stdout, said, block, tools, step, sending, runErr, unheard, flow, told>>
        /\ (reader' \in {"joining", "ended"} /\ ~left' => step = "returned" /\ sending = NoEvent /\ flow = <<>>)
    BY <1>8, <1>e DEF StopHearing, Join, ClientLeaves, HandlerOnly, program, Returned
  <2>2. Sent' = Sent /\ Agreed'
    BY <1>k, <1>u, <2>1
  <2>3. Ending'
    BY <1>e, <2>1, <2>2 DEF Ending, Returned, IsCLI
  <2>4. QED
    BY <1>0, <1>q, <2>1, <2>2, <2>3
<1>9. CASE UNCHANGED completion
  <2>1. UNCHANGED <<adapter, source, unwritten, stdout, said, block, tools, step, sending, runErr, flow, left, reader, told, unheard>>
    BY <1>9 DEF completion
  <2>2. Sent' = Sent /\ Agreed'
    BY <1>k, <1>u, <2>1
  <2>3. Ending'
    BY <1>e, <2>1, <2>2 DEF Ending, Returned, IsCLI
  <2>4. QED
    BY <1>0, <1>q, <2>1, <2>2, <2>3
<1>10. CASE StepInConfig \/ StepInPool \/ StepInTree \/ StepInQuality \/ StepInIngest
  BY <1>9, <1>10 DEF StepInConfig, StepInPool, StepInTree, StepInQuality, StepInIngest
<1>11. CASE StepInCompletion
  BY <1>1, <1>1a, <1>2, <1>3, <1>4, <1>5, <1>6, <1>7, <1>8, <1>11
     DEF StepInCompletion, CompletionStep, AdapterStep, HandlerStep
<1>12. QED
  BY <1>9, <1>10, <1>11 DEF Next, vars

LEMMA ToldInvariant == Spec => []ToldInv
<1>1. Init => CompletionInit
  BY DEF Init
<1>2. QED
  BY <1>1, ToldInitially, ToldNext, CompletionInvariant, PTL DEF Spec

\* What is put together from what was told is what was said.
LEMMA ToolsMatch ==
  ASSUME NEW s \in Seq(Events), said \in Seq(Lines), tools \in Nat, told = s,
         TellsTools(s, said, adapter, block, tools)
  PROVE  ToldTools = SaidTools
<1> DEFINE S == Begun(said, adapter)
           D == {s[i].tool : i \in {k \in DOMAIN s : s[k].is = "start"}}
           TimesAndArgs(t) == <<Cardinality(OfTool(s, "start", t)), TextsAt(s, OfTool(s, "args", t))>>
           AsSaid(t) == <<1, TextsAt(said, Own(said, PlaceOf(S, t + 1)))>>
<1>1. /\ Cardinality(S) = tools
      /\ \A i \in DOMAIN s : s[i].tool \in 0..tools - 1 \/ (s[i].tool = NoTool /\ s[i].is # "start")
      /\ \A t \in 0..tools - 1 : Cardinality(OfTool(s, "start", t)) = 1
      /\ \A k \in S : TextsAt(s, OfTool(s, "args", Index(said, adapter, k))) = TextsAt(said, Own(said, k))
  BY DEF TellsTools
<1>2. D = 0..tools - 1
  <2>1. D \subseteq 0..tools - 1
    BY <1>1
  <2>2. ASSUME NEW t \in 0..tools - 1
        PROVE  t \in D
    <3>1. OfTool(s, "start", t) # {}
      <4>1. Cardinality(OfTool(s, "start", t)) = 1 /\ Cardinality({}) = 0
        BY <1>1, FS_EmptySet
      <4>2. 0 # 1
        OBVIOUS
      <4>3. QED
        BY <4>1, <4>2, Zenon
    <3>2. QED
      BY <3>1 DEF OfTool
  <2>3. QED
    BY <2>1, <2>2
<1>3. \A t \in 0..tools - 1 : TimesAndArgs(t) = AsSaid(t)
  <2> SUFFICES ASSUME NEW t \in 0..tools - 1
               PROVE  TextsAt(s, OfTool(s, "args", t)) = TextsAt(said, Own(said, PlaceOf(S, t + 1)))
    BY <1>1
  <2>1. t + 1 \in 1..tools /\ (t + 1) - 1 = t
    OBVIOUS
  <2>2. Len(said) \in Nat /\ S \in SUBSET (1..Len(said))
    BY DEF Begun
  <2> DEFINE k == PlaceOf(S, t + 1)
  <2> HIDE DEF S
  <2>3. k \in S /\ Rank(S, k) = t + 1
    BY <1>1, <2>1, <2>2, PlaceIs
  <2> HIDE DEF k
  <2>4. Index(said, adapter, k) = t
    BY <2>1, <2>3 DEF Index, S
  <2>5. QED
    BY <1>1, <2>3, <2>4 DEF k
<1>4. ToldTools = [t \in D |-> TimesAndArgs(t)]
  BY DEF ToldTools
<1>5. SaidTools = [t \in 0..tools - 1 |-> AsSaid(t)]
  <2>1. SaidTools = [t \in 0..Cardinality(S) - 1 |-> <<1, SaidTool(PlaceOf(S, t + 1))>>]
    BY SaidIs DEF SaidTools, PlaceOf
  <2>2. QED
    BY <1>1, <2>1, SaidIs
<1>6. QED
  BY <1>2, <1>3, <1>4, <1>5

\* Whatever the program says and however it ends, and however adapter, handler and client
\* interleave, a client that stays is told all of it, tool by tool, and of a run that
\* failed, but for what the program leaves to the log (parseClaudeStream, streamCompletion).
THEOREM ToldIsInFull == Spec => []ToldInFull
<1>1. ToldInv => ToldInFull
  <2> SUFFICES ASSUME ToldInv, reader = "ended", ~left
               PROVE  /\ Contents(told, {"text"}) = SaidText /\ ToldTools = SaidTools
                      /\ ~runErr /\ source = "ended" =>
                           (stdout = <<>> /\ unwritten = <<>>) \/ Last(said).is = "result"
                      /\ IsCLI /\ ~runErr /\ source # "ended" =>
                           unheard \/ \E i \in DOMAIN told : told[i].is = "error" /\ told[i].text = ""
    BY DEF ToldInFull
  <2>1. /\ told \in Seq(Events) /\ Agreed /\ Ending /\ said \in Seq(Lines) /\ tools \in Nat
    BY DEF ToldInv, CompletionInv, ParserOK
  <2>2. step = "returned" /\ sending = NoEvent /\ flow = <<>>
    BY <2>1 DEF Ending, Returned
  <2>3. Sent = told
    BY <2>1, <2>2 DEF Sent, Plus
  <2>4. ToldTools = SaidTools
    BY <2>1, <2>3, ToolsMatch DEF Agreed
  <2>5. Contents(told, {"text"}) = SaidText
    BY <2>1, <2>3 DEF Agreed, TellsText, SaidText
  <2>6. QED
    BY <2>1, <2>2, <2>3, <2>4, <2>5 DEF Ending
<1>2. QED
  BY <1>1, ToldInvariant, PTL

-----------------------------------------------------------------------------
(* All together.                                                           *)

LEMMA PoolTyped == PoolInv => PoolTypeOK
BY Size DEF PoolInv, PoolTypes, PoolTypeOK, CallerType

LEMMA PartInvariant == Spec => [](part \in Part)
<1>1. Init => part \in Part
  BY DEF Init
<1>2. part \in Part /\ [Next]_vars => (part \in Part)'
  BY DEF Next, vars, StepInConfig, StepInPool, StepInTree, StepInQuality, StepInIngest, StepInCompletion
<1>3. QED
  BY <1>1, <1>2, PTL DEF Spec

LEMMA QualityInvariant == Spec => []QualityInv
<1>1. Init => QualityInv
  BY QualityInitially DEF Init
<1>2. QED
  BY <1>1, QualityNext, PTL DEF Spec

\* Every part keeps to its types, whatever the constants.
THEOREM SupportTypes == Spec => []TypeOK
<1>1. QualityInv => QualityTypeOK
  BY DEF QualityInv
<1>2. IngestInv => IngestTypeOK
  BY DEF IngestInv
<1>3. ConfigTypeOK /\ PoolTypeOK /\ TreeTypeOK /\ QualityTypeOK /\ IngestTypeOK /\ CompletionTypeOK
        /\ part \in Part => TypeOK
  BY DEF TypeOK
<1>4. QED
  BY <1>1, <1>2, <1>3, ConfigInvariant, PoolInvariant, PoolTyped, TreeInvariant, TreeTyped, QualityInvariant,
     IngestInvariant, CompletionInvariant, CompletionTyped, PartInvariant, PTL

=============================================================================
