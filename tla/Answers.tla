------------------------------ MODULE Answers -------------------------------
(***************************************************************************)
(* What the proxy does around a call of a backend (proxy.go): it looks the *)
(* prompt up in the response cache (cache.go) and in the semantic cache    *)
(* (semcache.go), checks the service's daily budget (costs.go), chooses    *)
(* how to call, and after the call stores the answer and charges the       *)
(* service one unit.  Caching and charging are separately locked steps;    *)
(* midnight and a restart may come between any two.                        *)
(***************************************************************************)
EXTENDS Requests, Naturals, Sequences, SequencesExt

CONSTANTS
  Prompt,        \* the prompts; equal ones are equal in all that cacheKey looks at
  Alike,         \* pairs of prompts the semantic cache takes for one another
  CacheSize,
  DailyLimit,    \* the budgets that may be configured, in units
  MaxToday       \* bound on the units spent in a day

ASSUME AnswerAssumption ==
  /\ Prompt # {} /\ Alike \subseteq Prompt \X Prompt
  /\ CacheSize \in Nat /\ MaxToday \in Nat
  /\ DailyLimit \subseteq Nat /\ DailyLimit # {}

VARIABLES
  cache,     \* the cached prompts with their age, oldest first
  semantic,  \* the prompts the semantic cache has an answer to
  limit,     \* the service's budget
  action,    \* what is configured for a service at its limit; "other" is neither of the two
  spent,     \* dailyCosts
  dated,     \* dailyCosts is of the current day
  ans,       \* [Request -> how far the request has got]
  today,     \* history: units charged since midnight
  slack,     \* history: those of them dailyCosts does not know
  loose      \* history: since midnight the budget changed, or was not what held a request

answers == <<cache, semantic, limit, action, spent, dated, ans, today, slack, loose>>
money == <<limit, action, spent, dated, today, slack, loose>>
caches == <<cache, semantic>>

Action == {"reject", "downgrade", "other"}

Gone == [pc |-> "gone", prompt |-> CHOOSE p \in Prompt : TRUE, stores |-> FALSE, over |-> "no"]
Steps(r, pc) == ans' = [ans EXCEPT ![r].pc = pc]
Ends(r, pc) == ans' = [ans EXCEPT ![r] = [Gone EXCEPT !.pc = pc]]   \* its prompt no longer matters

\* The requests that have passed the check of the budget and are not charged yet.
Uncharged == {r \in Request : ans[r].pc \in {"route", "call", "downgraded", "store", "charge"}}

Cached(p) == \E i \in DOMAIN cache : cache[i].prompt = p
EntryOf(p) == CHOOSE e \in ToSet(cache) : e.prompt = p
Without(entries, p) == RemoveFirstMatch(entries, LAMBDA e : e.prompt = p)

-----------------------------------------------------------------------------
\* Only requests with temperature 0 that are not streamed are looked up.
EnterAnswers(r) ==
  /\ ans[r].pc = "gone"
  /\ \E p \in Prompt :
       ans' = [ans EXCEPT ![r] = [Gone EXCEPT !.pc = "look", !.prompt = p, !.stores = TRUE]]
     \/ ans' = [ans EXCEPT ![r] = [Gone EXCEPT !.pc = "budget"]]
  /\ UNCHANGED <<caches, money>>

\* Get: the entry is found under one lock and, if it has expired, its key is deleted
\* under the next.
LookInCache(r) ==
  /\ ans[r].pc = "look"
  /\ \/ ~Cached(ans[r].prompt) /\ Steps(r, "similar")
     \/ Cached(ans[r].prompt) /\ EntryOf(ans[r].prompt).old /\ Steps(r, "drop")
     \/ Cached(ans[r].prompt) /\ ~EntryOf(ans[r].prompt).old /\ Ends(r, "answered")
  /\ UNCHANGED <<caches, money>>

DropExpired(r) ==
  /\ ans[r].pc = "drop"
  /\ cache' = Without(cache, ans[r].prompt)
  /\ Steps(r, "similar")
  /\ UNCHANGED <<semantic, money>>

LookForSimilar(r) ==
  /\ ans[r].pc = "similar"
  /\ \/ (\E p \in semantic : <<ans[r].prompt, p>> \in Alike) /\ Ends(r, "answered")
     \/ Steps(r, "budget")   \* nothing like it, or a failure
  /\ UNCHANGED <<caches, money>>

\* What checkBudget answers, from the sum it has before or after turning the day: a
\* service at its limit is rejected, or goes on with the configured action noted.
GoesOn(r, over) == ans' = [ans EXCEPT ![r] = [@ EXCEPT !.pc = "route", !.over = over]]
Verdict(r, sum) ==
  \/ sum < limit /\ GoesOn(r, "no") /\ UNCHANGED loose
  \/ sum >= limit /\ action = "reject" /\ Ends(r, "rejected") /\ UNCHANGED loose
  \/ sum >= limit /\ action # "reject" /\ GoesOn(r, action) /\ loose' = TRUE

\* Mutant of CheckBudget: the day is turned after the check.
CheckStaleBudget(r) ==
  /\ ans[r].pc = "budget"
  /\ spent' = IF dated THEN spent ELSE 0
  /\ dated' = TRUE
  /\ Verdict(r, spent)
  /\ UNCHANGED <<caches, limit, action, today, slack>>

\* The first check of a day starts the sums again.
CheckBudget(r) ==
  /\ ans[r].pc = "budget"
  /\ spent' = IF dated THEN spent ELSE 0
  /\ dated' = TRUE
  /\ Verdict(r, spent')
  /\ UNCHANGED <<caches, limit, action, today, slack>>

\* Bulk work goes to a batch API, uncharged, or there is no backend at all; a consensus
\* is neither downgraded nor stored; any other request that is to be downgraded goes to
\* the cheaper backend first if that is known and available, and else as it would have.
RouteRequest(r) ==
  /\ ans[r].pc = "route"
  /\ \/ Ends(r, "answered")
     \/ Ends(r, "call")
     \/ \E pc \in {"call", "downgraded"} :
          /\ pc = "downgraded" => ans[r].over = "downgrade"
          /\ ans' = [ans EXCEPT ![r] = [@ EXCEPT !.pc = pc, !.over = "no"]]
  /\ UNCHANGED <<caches, money>>

\* The backend answers, or all of them fail.
CallBackend(r) ==
  /\ ans[r].pc \in {"call", "downgraded"}
  /\ Ends(r, "charge") \/ (ans[r].stores /\ Steps(r, "store"))
  /\ UNCHANGED <<caches, money>>

\* Mutant of StoreAnswer: room is made only once the cache is over its size.
StoreOver(r) ==
  /\ ans[r].pc = "store"
  /\ cache' = Append(IF Len(cache) > CacheSize THEN Tail(cache) ELSE cache,
                     [prompt |-> ans[r].prompt, old |-> FALSE])
  /\ \E q \in {semantic, semantic \cup {ans[r].prompt}} : semantic' = q
  /\ Ends(r, "charge")
  /\ UNCHANGED money

\* Set: a full cache gives up its oldest entry, even for a key it has already.  The
\* semantic cache stores the answer too, if it can.
StoreAnswer(r) ==
  /\ ans[r].pc = "store"
  /\ LET p == ans[r].prompt
         room == IF Len(cache) >= CacheSize /\ cache # <<>> THEN Tail(cache) ELSE cache
     IN cache' = IF CacheSize = 0 THEN cache
                 ELSE Append(Without(room, p), [prompt |-> p, old |-> FALSE])
  /\ \E q \in {semantic, semantic \cup {ans[r].prompt}} : semantic' = q
  /\ Ends(r, "charge")
  /\ UNCHANGED money

\* logRequest: a call that failed costs nothing.
Charge(r) ==
  /\ ans[r].pc = "charge"
  /\ Ends(r, "answered")
  /\ \/ UNCHANGED money
     \/ /\ today < MaxToday
        /\ spent' = spent + 1 /\ today' = today + 1
        /\ slack' = IF dated THEN slack ELSE slack + 1
        /\ UNCHANGED <<limit, action, dated, loose>>
  /\ UNCHANGED caches

LeaveAnswers(r) ==
  /\ ans[r].pc \in {"answered", "rejected"}
  /\ ans' = [ans EXCEPT ![r] = Gone]
  /\ UNCHANGED <<caches, money>>

-----------------------------------------------------------------------------
\* evictionLoop, and the entries' growing old: the oldest first.
AgeCache ==
  /\ \/ \E i \in DOMAIN cache :
          /\ ~cache[i].old /\ \A j \in 1..(i - 1) : cache[j].old
          /\ cache' = [cache EXCEPT ![i].old = TRUE]
     \/ /\ \E e \in ToSet(cache) : e.old
        /\ LET young == {i \in DOMAIN cache : ~cache[i].old}
           IN cache' = IF young = {} THEN <<>> ELSE SubSeq(cache, Min(young), Len(cache))
  /\ UNCHANGED <<semantic, money, ans>>

Midnight ==
  /\ today > 0 \/ dated
  /\ dated' = FALSE /\ today' = 0 /\ slack' = 0 /\ loose' = FALSE
  /\ UNCHANGED <<caches, limit, action, spent, ans>>

ReloadBudgets ==
  /\ limit' \in DailyLimit /\ action' \in Action
  /\ loose' = TRUE
  /\ UNCHANGED <<caches, spent, dated, ans, today, slack>>

\* seedFromDB: after a restart the sum is that of today's log, in which any of the
\* charges may be missing (logToDB gives up when the writers are busy or fail).
RestartAnswers ==
  /\ \E n \in 0..today : spent' = n /\ slack' = today - n
  /\ dated' = TRUE
  /\ cache' = <<>> /\ ans' = [r \in Request |-> Gone]
  /\ loose' = (loose \/ slack > 0)   \* the sum may have grown by what it did not know
  /\ UNCHANGED <<semantic, limit, action, today>>

AnswerStep(r) ==
  \/ LookInCache(r) \/ DropExpired(r) \/ LookForSimilar(r) \/ CheckBudget(r)
  \/ RouteRequest(r) \/ CallBackend(r) \/ StoreAnswer(r) \/ Charge(r) \/ LeaveAnswers(r)

AnswersInit ==
  /\ cache = <<>> /\ semantic = {}
  /\ limit \in DailyLimit /\ action \in Action /\ spent = 0 /\ dated = TRUE
  /\ ans = [r \in Request |-> Gone] /\ today = 0 /\ slack = 0 /\ loose = FALSE

AnswersTypeOK ==
  /\ cache \in Seq([prompt : Prompt, old : BOOLEAN]) /\ semantic \subseteq Prompt
  /\ Len(cache) <= CacheSize
  /\ \A i, j \in DOMAIN cache : cache[i].prompt = cache[j].prompt => i = j
  /\ limit \in DailyLimit /\ action \in Action /\ {dated, loose} \subseteq BOOLEAN
  /\ spent \in Nat /\ today \in 0..MaxToday /\ slack \in 0..today
  /\ ans \in [Request -> [pc : {"gone", "look", "drop", "similar", "budget", "route", "call",
                                "downgraded", "store", "charge", "answered", "rejected"},
                          prompt : Prompt, stores : BOOLEAN, over : {"no"} \cup Action]]

=============================================================================
