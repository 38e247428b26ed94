----------------------------- MODULE FrontDoor ------------------------------
(***************************************************************************)
(* What a request meets at the router besides the backends: rate limits,   *)
(* its session, the caches and the budget (main.go, proxy.go).  The parts  *)
(* share no state and a request is in one of them at a time, so that every *)
(* behaviour of a part is one it has alone: each is explored by itself,    *)
(* with whatever requests may reach it.                                    *)
(***************************************************************************)
EXTENDS RateLimits, Sessions, Answers

VARIABLE part   \* the part that is explored

vars == <<limits, sessions, answers, part>>

Part == {"limits", "sessions", "answers"}

-----------------------------------------------------------------------------
StepInLimits ==
  /\ part = "limits"
  /\ \/ \E r \in Request : EnterLimits(r) \/ LimitStep(r)
     \/ \E l \in Limiter, k \in Key : Refill(l, k)
     \/ ReloadLimits(Limiter)
     \/ ReloadLimits({"tenant"})
  /\ UNCHANGED <<sessions, answers, part>>

StepInSessions ==
  /\ part = "sessions"
  /\ (\E r \in Request : EnterSession(r) \/ SessionStep(r)) \/ PassTime
  /\ UNCHANGED <<limits, answers, part>>

Sweep == part = "sessions" /\ SweepSessions /\ UNCHANGED <<limits, answers, part>>

StepInAnswers ==
  /\ part = "answers"
  /\ \/ \E r \in Request : EnterAnswers(r) \/ AnswerStep(r)
     \/ AgeCache \/ Midnight \/ ReloadBudgets \/ RestartAnswers
  /\ UNCHANGED <<limits, sessions, part>>

Init == LimitsInit /\ SessionsInit /\ AnswersInit /\ part \in Part

Next == StepInLimits \/ StepInSessions \/ Sweep \/ StepInAnswers

Spec == Init /\ [][Next]_vars

-----------------------------------------------------------------------------
TypeOK == LimitsTypeOK /\ SessionsTypeOK /\ AnswersTypeOK /\ part \in Part

\* Between refills the requests of one caller are given no more tokens than the limits
\* in force allow, however reloads and the making of buckets interleave; of services,
\* as long as their limits do not change between the reading and the making
\* (TenantRateLimiter.getOrCreateBucket, RateLimiter.Allow).
WithinLimits ==
  \A l \in Limiter, k \in Key :
    (l = "service" => ~slipped) => granted[l][k] <= Burst[inForce[l]]

\* The conversation put before a backend is a beginning of the stored one; and while
\* no two requests work on the session together it holds every turn that was stored
\* before the request came (hydrateSessionRequest).
IsStored(seen) == row # <<>> => IsPrefix(seen, row)
Transcript ==
  /\ IsStored(copy)
  /\ \A r \in Request :
       ses[r].pc = "asked" /\ ses[r].seen # <<>> =>
         IsStored(ses[r].seen) /\ (~crowded => ses[r].known \subseteq ToSet(ses[r].seen))

\* A turn that comes after the session's deletion was acknowledged is not answered with
\* the conversation, whatever the cache still holds (SessionStoreImpl.Delete).
DeletedStays == \A r \in Request : ses[r].late /\ ses[r].pc = "asked" => ses[r].seen = <<>>

\* While nothing but the budget decides, it is overdrawn by less than the requests that
\* can be at work at once, whatever charges midnight and restarts hide from it.
Overdrawn ==
  limit > 0 /\ ~loose => today - slack + Cardinality(Uncharged) < limit + Cardinality(Request)

\* The budget bites on what was spent today, up to those charges.  A request is turned
\* down only at the limit and only where rejection is configured; it passes as one
\* within the budget only below the limit, and as one over it only at the limit and
\* where rejection is not configured; and the overdraft is that of Overdrawn
\* (CostTracker.checkBudget, handleChatCompletions).
BudgetHonest ==
  /\ []Overdrawn
  /\ [][\A r \in Request :
          ans[r].pc = "budget" =>
            /\ ans'[r].pc = "rejected" => today >= limit /\ action = "reject"
            /\ ans'[r].pc = "route" =>
                 IF ans'[r].over = "no" THEN today - slack < limit
                 ELSE today >= limit /\ action # "reject"]_vars

=============================================================================
