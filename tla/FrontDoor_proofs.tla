-------------------------- MODULE FrontDoor_proofs --------------------------
(***************************************************************************)
(* Theorems about FrontDoor, for any number of requests, callers, reloads  *)
(* and turns, any prompts, and any limits, budgets and sizes of the cache. *)
(*                                                                         *)
(* A bucket that was made under the limits in force has accounted for what *)
(* was granted since: the tokens it has left and those granted are within  *)
(* the capacity. That it was made under those limits has to be carried     *)
(* from the moment they were read: a service's request that has read them  *)
(* has the limits in force, or they slipped under it.                      *)
(*                                                                         *)
(* A conversation is a beginning of the stored one because all that        *)
(* anybody holds of it is (Begins): a row that stays only grows. It lacks  *)
(* no turn, as long as requests do not overlap, because the copy then is   *)
(* as long as the row unless a request is about to put it there (Alone).   *)
(*                                                                         *)
(* The budget is honest because what the tracker believes and what was     *)
(* lost to it are together what was spent (Money); what is known to be     *)
(* spent and what is at work grow only by a request that was found within  *)
(* the budget (Overdrawn).                                                 *)
(***************************************************************************)
EXTENDS FrontDoor, SequenceTheorems, FiniteSetTheorems, WellFoundedInduction, TLAPS

-----------------------------------------------------------------------------
(* The invariant.                                                          *)

Phase == {"out", "begin", "find", "make", "take", "passed", "refused"}
Progress == [pc : Phase, at : Limiter, caller : Caller, limit : Nat, born : Nat]
Bucket == [made : Nat, tokens : Nat]

Typed ==
  /\ config \in 1..Len(Burst) /\ inForce \in [Limiter -> 1..Len(Burst)]
  /\ bucket \in [Limiter -> [Key -> Bucket]]
  /\ lim \in [Request -> Progress]
  /\ granted \in [Limiter -> [Key -> Nat]] /\ slipped \in BOOLEAN

\* A bucket that exists was made under some configuration, and never holds more than
\* that allows; under the one in force it accounts for what was granted.
Accounts(b, g, now, bound) ==
  /\ b = NoBucket => g = 0
  /\ b # NoBucket => b.made \in 1..Len(Burst) /\ b.tokens <= Burst[b.made]
  /\ b # NoBucket /\ bound => b.made = now /\ g + b.tokens <= Burst[now]

Accounted ==
  \A l \in Limiter, k \in Key :
    Accounts(bucket[l][k], granted[l][k], inForce[l], l = "service" => ~slipped)

\* What a request of a service has read.
Reads(s, now, slip) ==
  s.at = "service" /\ s.pc \in {"find", "make"} =>
    s.limit \in 1..Len(Burst) /\ (~slip => s.limit = now)

Reading == \A r \in Request : Reads(lim[r], inForce["service"], slipped)

IInv == Typed /\ Accounted /\ Reading

-----------------------------------------------------------------------------
(* Facts about the constants and one request.                              *)

LEMMA Capacity ==
  /\ Len(Burst) \in Nat \ {0}
  /\ \A i \in 1..Len(Burst) : Burst[i] \in Nat \ {0}
BY LimitAssumption

LEMMA OutIsProgress ==
  /\ Out \in Progress /\ Out.pc = "out" /\ Out.at = "tenant"
  /\ \A p \in Phase : [Out EXCEPT !.pc = p] \in Progress /\ [Out EXCEPT !.pc = p].pc = p
  /\ \A c \in Caller : /\ [Out EXCEPT !.pc = "begin", !.caller = c] \in Progress
                       /\ [Out EXCEPT !.pc = "begin", !.caller = c].pc = "begin"
<1> DEFINE someone == CHOOSE c \in Caller : TRUE
<1>1. someone \in Caller
  BY LimitAssumption
<1>2. Out = [pc |-> "out", at |-> "tenant", caller |-> someone, limit |-> 0, born |-> 0]
  BY Zenon DEF Out
<1> HIDE DEF someone
<1>3. Out \in Progress /\ Out.pc = "out" /\ Out.at = "tenant"
  BY <1>1, <1>2 DEF Progress, Phase, Limiter
<1>4. QED
  BY <1>3 DEF Progress, Phase

LEMMA KeyIsKey ==
  ASSUME Typed, NEW r \in Request
  PROVE  lim[r].at \in Limiter /\ KeyAt(r) \in Key /\ lim[r].caller \in Caller
BY DEF Typed, Progress, KeyAt, Key

\* The configurations have numbers.
LEMMA InForce ==
  ASSUME Typed, NEW l \in Limiter
  PROVE  inForce[l] \in 1..Len(Burst) /\ inForce[l] \in Nat
BY Capacity DEF Typed

LEMMA NoBucketIsBucket == NoBucket \in Bucket
BY DEF NoBucket, Bucket

\* A request that gets on, without a look at the limits, leaves the rest in order.
LEMMA Onward ==
  ASSUME IInv, NEW r \in Request, NEW s \in Progress,
         lim' = [lim EXCEPT ![r] = s],
         Reads(s, inForce["service"], slipped),
         UNCHANGED <<inForce, slipped>>
  PROVE  (lim \in [Request -> Progress])' /\ Reading'
<1>1. (lim \in [Request -> Progress])'
  BY DEF IInv, Typed
<1>2. ASSUME NEW q \in Request
      PROVE  Reads(lim'[q], inForce["service"], slipped)
  <2>1. CASE q = r
    BY <2>1 DEF IInv, Typed
  <2>2. CASE q # r
    BY <2>2 DEF IInv, Typed, Reading
  <2>3. QED
    BY <2>1, <2>2
<1>3. QED
  BY <1>1, <1>2 DEF Reading

\* A token of the bucket in use is taken, or comes back: one bucket is another, the rest stays.
LEMMA OneBucket ==
  ASSUME IInv, NEW l \in Limiter, NEW k \in Key, NEW b \in Bucket, NEW g \in Nat,
         bucket' = [bucket EXCEPT ![l] = [bucket[l] EXCEPT ![k] = b]],
         granted' = [granted EXCEPT ![l] = [granted[l] EXCEPT ![k] = g]],
         Accounts(b, g, inForce[l], l = "service" => ~slipped),
         UNCHANGED <<inForce, slipped>>
  PROVE  /\ (bucket \in [Limiter -> [Key -> Bucket]])'
         /\ (granted \in [Limiter -> [Key -> Nat]])'
         /\ Accounted'
<1>1. (bucket \in [Limiter -> [Key -> Bucket]])'
  BY DEF IInv, Typed
<1>2. (granted \in [Limiter -> [Key -> Nat]])'
  BY DEF IInv, Typed
<1>3. ASSUME NEW m \in Limiter, NEW j \in Key
      PROVE  Accounts(bucket'[m][j], granted'[m][j], inForce[m], m = "service" => ~slipped)
  <2>1. CASE m = l /\ j = k
    <3>1. bucket'[m][j] = b /\ granted'[m][j] = g
      BY <2>1 DEF IInv, Typed
    <3>2. QED
      BY <2>1, <3>1
  <2>2. CASE ~(m = l /\ j = k)
    <3>1. bucket'[m][j] = bucket[m][j] /\ granted'[m][j] = granted[m][j]
      BY <2>2 DEF IInv, Typed
    <3>2. Accounts(bucket[m][j], granted[m][j], inForce[m], m = "service" => ~slipped)
      BY DEF IInv, Accounted
    <3>3. QED
      BY <3>1, <3>2
  <2>3. QED
    BY <2>1, <2>2
<1>4. QED
  BY <1>1, <1>2, <1>3 DEF Accounted

-----------------------------------------------------------------------------
(* The steps.                                                              *)

LEMMA EnterKeeps ==
  ASSUME IInv, NEW r \in Request, EnterLimits(r)
  PROVE  IInv'
<1>1. PICK c \in Caller : lim' = [lim EXCEPT ![r] = [Out EXCEPT !.pc = "begin", !.caller = c]]
  BY DEF EnterLimits
<1> DEFINE s == [Out EXCEPT !.pc = "begin", !.caller = c]
<1>2. s \in Progress /\ s.pc = "begin"
  BY OutIsProgress
<1>3. Reads(s, inForce["service"], slipped)
  BY <1>2 DEF Reads
<1> HIDE DEF s
<1>4. UNCHANGED <<config, inForce, bucket, granted, slipped>>
  BY DEF EnterLimits
<1>5. lim' = [lim EXCEPT ![r] = s]
  BY <1>1 DEF s
<1>6. (lim \in [Request -> Progress])' /\ Reading'
  BY <1>2, <1>3, <1>4, <1>5, Onward
<1>7. QED
  BY <1>4, <1>6 DEF IInv, Typed, Accounted

\* Going on to the next limiter, or out of them.
LEMMA PassesTo ==
  ASSUME IInv, NEW r \in Request, Passes(r), UNCHANGED <<inForce, slipped>>
  PROVE  (lim \in [Request -> Progress])' /\ Reading'
<1> DEFINE s == IF lim[r].at = "tenant" THEN [lim[r] EXCEPT !.pc = "begin", !.at = "service", !.born = 0]
                ELSE [Out EXCEPT !.pc = "passed"]
<1>1. lim[r] \in Progress
  BY DEF IInv, Typed
<1>2. [lim[r] EXCEPT !.pc = "begin", !.at = "service", !.born = 0] \in Progress
  BY <1>1 DEF Progress, Phase, Limiter
<1>3. [lim[r] EXCEPT !.pc = "begin", !.at = "service", !.born = 0].pc = "begin"
  BY <1>1 DEF Progress
<1>4. [Out EXCEPT !.pc = "passed"] \in Progress /\ [Out EXCEPT !.pc = "passed"].pc = "passed"
  BY OutIsProgress DEF Phase
<1>5. s \in Progress /\ s.pc \in {"begin", "passed"}
  BY <1>2, <1>3, <1>4
<1>6. lim' = [lim EXCEPT ![r] = s]
  BY DEF Passes
<1> HIDE DEF s
<1>7. Reads(s, inForce["service"], slipped)
  BY <1>5 DEF Reads
<1>8. QED
  BY <1>5, <1>6, <1>7, Onward

LEMMA ReadKeeps ==
  ASSUME IInv, NEW r \in Request, ReadLimits(r)
  PROVE  IInv'
<1> DEFINE s == [lim[r] EXCEPT !.pc = "find",
                               !.limit = IF lim[r].at = "service" THEN inForce["service"] ELSE 0]
<1>1. UNCHANGED <<config, inForce, bucket, granted, slipped>>
  BY DEF ReadLimits
<1>2. (lim \in [Request -> Progress])' /\ Reading'
  <2>1. CASE Passes(r)
    BY <1>1, <2>1, PassesTo
  <2>2. CASE lim' = [lim EXCEPT ![r] = s]
    <3> DEFINE n == IF lim[r].at = "service" THEN inForce["service"] ELSE 0
    <3>1. lim[r] \in Progress /\ inForce["service"] \in 1..Len(Burst) /\ n \in Nat
      BY InForce DEF IInv, Typed, Limiter
    <3> HIDE DEF n
    <3>2. [lim[r] EXCEPT !.pc = "find", !.limit = n] \in Progress
      BY <3>1 DEF Progress, Phase
    <3>3. [lim[r] EXCEPT !.pc = "find", !.limit = n].at = lim[r].at
          /\ [lim[r] EXCEPT !.pc = "find", !.limit = n].limit = n
      BY <3>1 DEF Progress
    <3> USE DEF n
    <3>4. Reads(s, inForce["service"], slipped)
      BY <3>1, <3>2, <3>3 DEF Reads
    <3>5. s \in Progress
      BY <3>2
    <3> HIDE DEF s
    <3>6. QED
      BY <1>1, <2>2, <3>4, <3>5, Onward
  <2>3. QED
    <3>1. lim[r] \in Progress
      BY DEF IInv, Typed
    <3>2. lim' = [lim EXCEPT ![r] = s]
          \/ Passes(r)
      BY <3>1 DEF ReadLimits, Progress, IInv, Typed
    <3>3. QED
      BY <2>1, <2>2, <3>2
<1>3. QED
  BY <1>1, <1>2 DEF IInv, Typed, Accounted

\* A request that takes hold of the bucket in use.
LEMMA HoldsKeeps ==
  ASSUME IInv, NEW r \in Request, HoldsCurrent(r), UNCHANGED <<inForce, slipped>>
  PROVE  (lim \in [Request -> Progress])' /\ Reading'
<1> DEFINE s == [lim[r] EXCEPT !.pc = "take", !.limit = 0, !.born = inForce[lim[r].at]]
<1>1. lim[r] \in Progress /\ inForce[lim[r].at] \in Nat
  BY KeyIsKey, InForce DEF IInv, Typed
<1>2. s \in Progress /\ s.pc = "take"
  BY <1>1 DEF Progress, Phase
<1>3. lim' = [lim EXCEPT ![r] = s]
  BY <1>1 DEF HoldsCurrent, IInv, Typed
<1> HIDE DEF s
<1>4. Reads(s, inForce["service"], slipped)
  BY <1>2 DEF Reads
<1>5. QED
  BY <1>2, <1>3, <1>4, Onward

LEMMA FindKeeps ==
  ASSUME IInv, NEW r \in Request, FindBucket(r)
  PROVE  IInv'
<1> DEFINE s == [lim[r] EXCEPT !.pc = "make"]
<1>1. UNCHANGED <<config, inForce, bucket, granted, slipped>>
  BY DEF FindBucket
<1>2. (lim \in [Request -> Progress])' /\ Reading'
  <2>1. CASE HoldsCurrent(r)
    BY <1>1, <2>1, HoldsKeeps
  <2>2. CASE At(r, "make")
    <3>1. lim[r] \in Progress /\ lim[r].pc = "find"
      BY DEF IInv, Typed, FindBucket
    <3>2. s \in Progress /\ s.at = lim[r].at /\ s.limit = lim[r].limit
      BY <3>1 DEF Progress, Phase
    <3>3. Reads(lim[r], inForce["service"], slipped)
      BY DEF IInv, Reading
    <3>4. Reads(s, inForce["service"], slipped)
      BY <3>1, <3>2, <3>3 DEF Reads
    <3>5. lim' = [lim EXCEPT ![r] = s]
      BY <2>2, <3>1 DEF At, IInv, Typed
    <3> HIDE DEF s
    <3>6. QED
      BY <1>1, <3>2, <3>4, <3>5, Onward
  <2>3. QED
    BY <2>1, <2>2 DEF FindBucket
<1>3. QED
  BY <1>1, <1>2 DEF IInv, Typed, Accounted

LEMMA MakeKeeps ==
  ASSUME IInv, NEW r \in Request, MakeBucket(r)
  PROVE  IInv'
<1> DEFINE l == lim[r].at
           k == KeyAt(r)
           m == IF l = "tenant" THEN inForce["tenant"] ELSE lim[r].limit
           b == [made |-> m, tokens |-> Burst[m]]
<1>1. UNCHANGED <<config, inForce, granted, slipped>> /\ HoldsCurrent(r) /\ lim[r].pc = "make"
  BY DEF MakeBucket, MakeIfMissing
<1>2. l \in Limiter /\ k \in Key
  BY KeyIsKey DEF IInv
<1>3. (lim \in [Request -> Progress])' /\ Reading'
  BY <1>1, HoldsKeeps
<1>4. (bucket \in [Limiter -> [Key -> Bucket]])' /\ (granted \in [Limiter -> [Key -> Nat]])' /\ Accounted'
  <2>1. CASE bucket[l][k] # NoBucket
    <3>1. bucket' = bucket
      BY <2>1 DEF MakeBucket, MakeIfMissing, Current
    <3>2. QED
      BY <1>1, <3>1 DEF IInv, Typed, Accounted
  <2>2. CASE bucket[l][k] = NoBucket
    <3>1. bucket' = [bucket EXCEPT ![l] = [bucket[l] EXCEPT ![k] = b]]
      BY <1>2, <2>2 DEF MakeBucket, MakeIfMissing, Current, IInv, Typed
    <3>2. m \in 1..Len(Burst) /\ ((l = "service" => ~slipped) => m = inForce[l])
      <4>1. CASE l = "tenant"
        BY <4>1, InForce DEF IInv, Limiter
      <4>2. CASE l = "service"
        <5>1. Reads(lim[r], inForce["service"], slipped)
          BY DEF IInv, Reading
        <5>2. QED
          BY <1>1, <4>2, <5>1 DEF Reads
      <4>3. QED
        BY <1>2, <4>1, <4>2 DEF Limiter
    <3>3. granted[l][k] = 0
      <4>1. Accounts(bucket[l][k], granted[l][k], inForce[l], l = "service" => ~slipped)
        BY <1>2 DEF IInv, Accounted
      <4>2. QED
        BY <2>2, <4>1 DEF Accounts
    <3> HIDE DEF m
    <3>4. b \in Bucket /\ b.made = m /\ b.tokens = Burst[m] /\ Burst[m] \in Nat \ {0}
      BY <3>2, Capacity DEF Bucket
    <3> DEFINE g == 0
    <3>5. Accounts(b, g, inForce[l], l = "service" => ~slipped)
      <4>1. b # NoBucket
        BY <3>2, Capacity DEF NoBucket
      <4>2. QED
        BY <3>2, <3>4, <4>1 DEF Accounts
    <3>6. granted' = [granted EXCEPT ![l] = [granted[l] EXCEPT ![k] = g]] /\ g \in Nat
      BY <1>1, <1>2, <3>3 DEF IInv, Typed
    <3>7. UNCHANGED <<inForce, slipped>>
      BY <1>1
    <3> HIDE DEF b, l, k, g
    <3>8. QED
      BY <1>2, <3>1, <3>4, <3>5, <3>6, <3>7, OneBucket
  <2>3. QED
    BY <2>1, <2>2
<1>5. QED
  BY <1>1, <1>3, <1>4 DEF IInv, Typed

LEMMA TakeKeeps ==
  ASSUME IInv, NEW r \in Request, TakeToken(r)
  PROVE  IInv'
<1> DEFINE l == lim[r].at
           k == KeyAt(r)
           b == [bucket[l][k] EXCEPT !.tokens = @ - 1]
           g == granted[l][k] + 1
           current == lim[r].born = inForce[l]
<1>1. UNCHANGED <<config, inForce, slipped>>
  BY DEF TakeToken
<1>2. l \in Limiter /\ k \in Key
  BY KeyIsKey DEF IInv
<1>3. bucket[l][k] \in Bucket /\ granted[l][k] \in Nat
  BY <1>2 DEF IInv, Typed
<1>4. Accounts(bucket[l][k], granted[l][k], inForce[l], l = "service" => ~slipped)
  BY <1>2 DEF IInv, Accounted
<1>5. CASE lim' = [lim EXCEPT ![r] = [Out EXCEPT !.pc = "refused"]] /\ UNCHANGED <<bucket, granted>>
  <2> DEFINE s == [Out EXCEPT !.pc = "refused"]
  <2>1. s \in Progress /\ s.pc = "refused"
    BY OutIsProgress DEF Phase
  <2>2. lim' = [lim EXCEPT ![r] = s]
    BY <1>5
  <2> HIDE DEF s
  <2>3. Reads(s, inForce["service"], slipped)
    BY <2>1 DEF Reads
  <2>4. (lim \in [Request -> Progress])' /\ Reading'
    BY <1>1, <2>1, <2>2, <2>3, Onward
  <2>5. QED
    BY <1>1, <1>5, <2>4 DEF IInv, Typed, Accounted
<1>6. CASE Passes(r) /\ ~current /\ UNCHANGED <<bucket, granted>>
  <2>1. (lim \in [Request -> Progress])' /\ Reading'
    BY <1>1, <1>6, PassesTo
  <2>2. QED
    BY <1>1, <1>6, <2>1 DEF IInv, Typed, Accounted
<1>7. CASE /\ Passes(r) /\ current /\ bucket[l][k].tokens > 0
           /\ bucket' = [bucket EXCEPT ![l][k].tokens = @ - 1]
           /\ granted' = [granted EXCEPT ![l][k] = @ + 1]
  <2>1. (lim \in [Request -> Progress])' /\ Reading'
    BY <1>1, <1>7, PassesTo
  <2>2. bucket' = [bucket EXCEPT ![l] = [bucket[l] EXCEPT ![k] = b]]
    BY <1>7
  <2>3. granted' = [granted EXCEPT ![l] = [granted[l] EXCEPT ![k] = g]]
    BY <1>7
  <2>4. b \in Bucket /\ b.made = bucket[l][k].made /\ b.tokens = bucket[l][k].tokens - 1 /\ g \in Nat
    BY <1>3, <1>7 DEF Bucket
  <2>5. bucket[l][k] # NoBucket
    BY <1>7 DEF NoBucket
  <2>6. b # NoBucket
    BY <1>4, <2>4, <2>5, Capacity DEF Accounts, NoBucket
  <2>7. inForce[l] \in 1..Len(Burst) /\ Burst[inForce[l]] \in Nat
    BY <1>2, InForce, Capacity DEF IInv
  <2>8. bucket[l][k].made \in 1..Len(Burst) => Burst[bucket[l][k].made] \in Nat
    BY Capacity
  <2>9. Accounts(b, g, inForce[l], l = "service" => ~slipped)
    <3>1. b.made \in 1..Len(Burst) /\ b.tokens <= Burst[b.made]
      BY <1>3, <1>4, <2>4, <2>5, <2>8 DEF Accounts, Bucket
    <3>2. ASSUME l = "service" => ~slipped
          PROVE  b.made = inForce[l] /\ g + b.tokens <= Burst[inForce[l]]
      <4>1. bucket[l][k].made = inForce[l] /\ granted[l][k] + bucket[l][k].tokens <= Burst[inForce[l]]
        BY <1>4, <2>5, <3>2 DEF Accounts
      <4>2. bucket[l][k].tokens \in Nat /\ granted[l][k] \in Nat
        BY <1>3 DEF Bucket
      <4>3. g + b.tokens = granted[l][k] + bucket[l][k].tokens
        BY <2>4, <4>2
      <4>4. QED
        BY <2>4, <4>1, <4>3
    <3>3. QED
      BY <2>6, <3>1, <3>2 DEF Accounts
  <2> HIDE DEF b, g, l, k
  <2>10. QED
    <3>1. (bucket \in [Limiter -> [Key -> Bucket]])' /\ (granted \in [Limiter -> [Key -> Nat]])' /\ Accounted'
      BY <1>1, <1>2, <2>2, <2>3, <2>4, <2>9, OneBucket
    <3>2. QED
      BY <1>1, <2>1, <3>1 DEF IInv, Typed
<1>8. QED
  BY <1>5, <1>6, <1>7 DEF TakeToken

LEMMA LeaveKeeps ==
  ASSUME IInv, NEW r \in Request, LeaveLimits(r)
  PROVE  IInv'
<1>1. UNCHANGED <<config, inForce, bucket, granted, slipped>> /\ lim' = [lim EXCEPT ![r] = Out]
  BY DEF LeaveLimits
<1>2. Reads(Out, inForce["service"], slipped)
  BY OutIsProgress DEF Reads
<1>3. (lim \in [Request -> Progress])' /\ Reading'
  BY <1>1, <1>2, OutIsProgress, Onward
<1>4. QED
  BY <1>1, <1>3 DEF IInv, Typed, Accounted

LEMMA RefillKeeps ==
  ASSUME IInv, NEW l \in Limiter, NEW k \in Key, Refill(l, k)
  PROVE  IInv'
<1> DEFINE b == [bucket[l][k] EXCEPT !.tokens = @ + 1]
           g == IF granted[l][k] = 0 THEN 0 ELSE granted[l][k] - 1
<1>1. UNCHANGED <<config, inForce, lim, slipped>>
  BY DEF Refill
<1>2. bucket[l][k] \in Bucket /\ granted[l][k] \in Nat
  BY DEF IInv, Typed
<1>3. Accounts(bucket[l][k], granted[l][k], inForce[l], l = "service" => ~slipped)
  BY DEF IInv, Accounted
<1>4. bucket[l][k] # NoBucket /\ bucket[l][k].tokens < Burst[bucket[l][k].made]
  BY DEF Refill
<1>5. bucket' = [bucket EXCEPT ![l] = [bucket[l] EXCEPT ![k] = b]]
  BY DEF Refill
<1>6. granted' = [granted EXCEPT ![l] = [granted[l] EXCEPT ![k] = g]]
  BY DEF Refill
<1>7. b \in Bucket /\ b.made = bucket[l][k].made /\ b.tokens = bucket[l][k].tokens + 1 /\ g \in Nat
  BY <1>2 DEF Bucket
<1>8. bucket[l][k].made \in 1..Len(Burst) /\ Burst[bucket[l][k].made] \in Nat
  BY <1>3, <1>4, Capacity DEF Accounts
<1>9. Accounts(b, g, inForce[l], l = "service" => ~slipped)
  <2>1. b # NoBucket
    BY <1>7, <1>8, Capacity DEF NoBucket
  <2>2. b.made \in 1..Len(Burst) /\ b.tokens <= Burst[b.made]
    BY <1>2, <1>4, <1>7, <1>8 DEF Bucket
  <2>3. ASSUME l = "service" => ~slipped
        PROVE  b.made = inForce[l] /\ g + b.tokens <= Burst[inForce[l]]
    <3>1. bucket[l][k].made = inForce[l] /\ granted[l][k] + bucket[l][k].tokens <= Burst[inForce[l]]
      BY <1>3, <1>4, <2>3 DEF Accounts
    <3>2. bucket[l][k].tokens \in Nat /\ granted[l][k] \in Nat
      BY <1>2 DEF Bucket
    <3>3. CASE granted[l][k] = 0
      BY <1>4, <1>7, <1>8, <3>1, <3>2, <3>3
    <3>4. CASE granted[l][k] # 0
      BY <1>7, <1>8, <3>1, <3>2, <3>4
    <3>5. QED
      BY <3>3, <3>4
  <2>4. QED
    BY <2>1, <2>2, <2>3 DEF Accounts
<1> HIDE DEF b, g
<1>10. (bucket \in [Limiter -> [Key -> Bucket]])' /\ (granted \in [Limiter -> [Key -> Nat]])' /\ Accounted'
  BY <1>1, <1>5, <1>6, <1>7, <1>9, OneBucket
<1>11. QED
  BY <1>1, <1>10 DEF IInv, Typed, Reading

\* The limiters that take up the new limits have no buckets and owe nothing; the others
\* are as they were.
LEMMA ReloadKeeps ==
  ASSUME IInv, NEW ls \in SUBSET Limiter, ReloadLimits(ls)
  PROVE  IInv'
<1>1. config + 1 \in 1..Len(Burst) /\ config' = config + 1 /\ lim' = lim
  BY Capacity DEF ReloadLimits, IInv, Typed
<1>2. slipped' = (slipped \/ /\ "service" \in ls
                             /\ \E r \in Request : lim[r].at = "service" /\ lim[r].pc \in {"find", "make"})
  BY DEF ReloadLimits
<1>3. \A l \in Limiter : inForce'[l] = IF l \in ls THEN config + 1 ELSE inForce[l]
  BY DEF ReloadLimits
<1>4. \A l \in Limiter, k \in Key :
        /\ bucket'[l][k] = IF l \in ls THEN NoBucket ELSE bucket[l][k]
        /\ granted'[l][k] = IF l \in ls THEN 0 ELSE granted[l][k]
  BY DEF ReloadLimits
<1>5. Typed'
  <2>1. (inForce \in [Limiter -> 1..Len(Burst)])'
    BY <1>1 DEF ReloadLimits, IInv, Typed
  <2>2. (bucket \in [Limiter -> [Key -> Bucket]])'
    BY NoBucketIsBucket DEF ReloadLimits, IInv, Typed
  <2>3. (granted \in [Limiter -> [Key -> Nat]])'
    BY DEF ReloadLimits, IInv, Typed
  <2>4. (slipped \in BOOLEAN)'
    BY <1>2 DEF IInv, Typed
  <2>5. QED
    BY <1>1, <2>1, <2>2, <2>3, <2>4 DEF IInv, Typed
<1>6. Accounted'
  <2> SUFFICES ASSUME NEW l \in Limiter, NEW k \in Key
               PROVE  Accounts(bucket'[l][k], granted'[l][k], inForce'[l], l = "service" => ~slipped')
    BY DEF Accounted
  <2>1. CASE l \in ls
    BY <1>4, <2>1 DEF Accounts
  <2>2. CASE l \notin ls
    <3>1. Accounts(bucket[l][k], granted[l][k], inForce[l], l = "service" => ~slipped)
      BY DEF IInv, Accounted
    <3>2. ~slipped' => ~slipped
      BY <1>2
    <3>3. QED
      BY <1>3, <1>4, <2>2, <3>1, <3>2 DEF Accounts
  <2>3. QED
    BY <2>1, <2>2
<1>7. Reading'
  <2> SUFFICES ASSUME NEW r \in Request
               PROVE  Reads(lim[r], inForce'["service"], slipped')
    BY <1>1 DEF Reading
  <2>1. Reads(lim[r], inForce["service"], slipped)
    BY DEF IInv, Reading
  <2>2. ~slipped' /\ lim[r].at = "service" /\ lim[r].pc \in {"find", "make"} =>
          ~slipped /\ inForce'["service"] = inForce["service"]
    BY <1>2, <1>3 DEF Limiter
  <2>3. QED
    BY <2>1, <2>2 DEF Reads
<1>8. QED
  BY <1>5, <1>6, <1>7 DEF IInv

-----------------------------------------------------------------------------
(* The theorems.                                                           *)

LEMMA InitIInv == Init => IInv
<1> SUFFICES ASSUME LimitsInit
             PROVE  IInv
  BY DEF Init
<1>1. Typed
  <2>1. config \in 1..Len(Burst) /\ inForce \in [Limiter -> 1..Len(Burst)] /\ slipped \in BOOLEAN
    <3>1. 1 \in 1..Len(Burst)
      BY Capacity
    <3>2. QED
      BY <3>1 DEF LimitsInit
  <2>2. bucket \in [Limiter -> [Key -> Bucket]] /\ granted \in [Limiter -> [Key -> Nat]]
    BY NoBucketIsBucket DEF LimitsInit
  <2>3. lim \in [Request -> Progress]
    BY OutIsProgress DEF LimitsInit
  <2>4. QED
    BY <2>1, <2>2, <2>3 DEF Typed
<1>2. Accounted
  BY DEF LimitsInit, Accounted, Accounts
<1>3. Reading
  BY OutIsProgress DEF LimitsInit, Reading, Reads
<1>4. QED
  BY <1>1, <1>2, <1>3 DEF IInv

LEMMA NextIInv == IInv /\ [Next]_vars => IInv'
<1> SUFFICES ASSUME IInv, [Next]_vars
             PROVE  IInv'
  OBVIOUS
<1>1. CASE UNCHANGED limits
  BY <1>1 DEF limits, IInv, Typed, Accounted, Reading
<1>2. CASE StepInLimits
  <2>1. CASE \E r \in Request : EnterLimits(r) \/ LimitStep(r)
    <3> PICK r \in Request : EnterLimits(r) \/ LimitStep(r)
      BY <2>1
    <3>1. CASE EnterLimits(r)
      BY <3>1, EnterKeeps
    <3>2. CASE ReadLimits(r)
      BY <3>2, ReadKeeps
    <3>3. CASE FindBucket(r)
      BY <3>3, FindKeeps
    <3>4. CASE MakeBucket(r)
      BY <3>4, MakeKeeps
    <3>5. CASE TakeToken(r)
      BY <3>5, TakeKeeps
    <3>6. CASE LeaveLimits(r)
      BY <3>6, LeaveKeeps
    <3>7. QED
      BY <3>1, <3>2, <3>3, <3>4, <3>5, <3>6 DEF LimitStep
  <2>2. CASE \E l \in Limiter, k \in Key : Refill(l, k)
    BY <2>2, RefillKeeps
  <2>3. CASE ReloadLimits(Limiter)
    BY <2>3, ReloadKeeps
  <2>4. CASE ReloadLimits({"tenant"})
    BY <2>4, ReloadKeeps DEF Limiter
  <2>5. QED
    BY <1>2, <2>1, <2>2, <2>3, <2>4 DEF StepInLimits
<1>3. CASE StepInSessions \/ Sweep \/ StepInAnswers
  BY <1>1, <1>3 DEF StepInSessions, Sweep, StepInAnswers
<1>4. QED
  BY <1>1, <1>2, <1>3 DEF Next, vars

\* The invariant holds throughout (RateLimiter, TenantRateLimiter).
THEOREM Invariant == Spec => []IInv
BY InitIInv, NextIInv, PTL DEF Spec

\* Whatever reloads, refills and makings of buckets interleave, no caller is granted
\* more than the limits in force allow: of services, as long as no reload came between
\* the reading of the limits and the making of the bucket (RateLimiter.Allow,
\* TenantRateLimiter.getOrCreateBucket).
THEOREM LimitsKept == Spec => []WithinLimits
<1>1. IInv => WithinLimits
  <2> SUFFICES ASSUME IInv, NEW l \in Limiter, NEW k \in Key, l = "service" => ~slipped
               PROVE  granted[l][k] <= Burst[inForce[l]]
    BY DEF WithinLimits
  <2>1. Accounts(bucket[l][k], granted[l][k], inForce[l], l = "service" => ~slipped)
    BY DEF IInv, Accounted
  <2>2. inForce[l] \in 1..Len(Burst) /\ Burst[inForce[l]] \in Nat
    BY InForce, Capacity DEF IInv
  <2>3. bucket[l][k].tokens \in Nat /\ granted[l][k] \in Nat
    BY DEF IInv, Typed, Bucket
  <2>4. CASE bucket[l][k] = NoBucket
    BY <2>1, <2>2, <2>4 DEF Accounts
  <2>5. CASE bucket[l][k] # NoBucket
    BY <2>1, <2>2, <2>3, <2>5 DEF Accounts
  <2>6. QED
    BY <2>4, <2>5
<1>2. QED
  BY <1>1, Invariant, PTL

-----------------------------------------------------------------------------
(* The limits are well typed.                                              *)

\* No number is of a configuration still to come.
Bounded ==
  /\ \A l \in Limiter : inForce[l] <= config
  /\ \A l \in Limiter, k \in Key : bucket[l][k].made <= config
  /\ \A r \in Request : lim[r].limit <= config /\ lim[r].born <= config

\* What one request has or makes stays within the configurations so far.
LEMMA BoundedStep ==
  ASSUME IInv, Bounded, NEW r \in Request, NEW s, s \in Progress, lim' = [lim EXCEPT ![r] = s],
         s.limit <= config, s.born <= config, UNCHANGED <<config, inForce>>,
         \A l \in Limiter, k \in Key : bucket'[l][k].made <= config
  PROVE  Bounded'
<1>1. lim \in [Request -> Progress]
  BY DEF IInv, Typed
<1>2. \A q \in Request : lim'[q] \in {s, lim[q]}
  BY <1>1
<1>3. QED
  BY <1>2 DEF Bounded

LEMMA Sizes ==
  ASSUME IInv, Bounded, NEW r \in Request
  PROVE  /\ config \in Nat /\ 0 <= config /\ lim[r] \in Progress
         /\ lim[r].limit <= config /\ lim[r].born <= config
         /\ \A l \in Limiter : inForce[l] <= config
         /\ lim[r].at \in Limiter /\ "tenant" \in Limiter /\ "service" \in Limiter
         /\ Out \in Progress /\ Out.limit = 0 /\ Out.born = 0
<1>1. config \in Nat /\ 0 <= config
  BY Capacity DEF IInv, Typed
<1>2. lim[r].at \in Limiter
  BY KeyIsKey DEF IInv
<1>3. Out \in Progress /\ Out.limit = 0 /\ Out.born = 0
  BY OutIsProgress DEF Out
<1>4. QED
  BY <1>1, <1>2, <1>3 DEF IInv, Typed, Bounded, Limiter

\* Where the request goes.
LEMMA BoundedMove ==
  ASSUME IInv, Bounded, NEW r \in Request, EnterLimits(r) \/ LimitStep(r)
  PROVE  \E s \in Progress : lim' = [lim EXCEPT ![r] = s] /\ s.limit <= config /\ s.born <= config
<1>1. /\ config \in Nat /\ 0 <= config /\ lim[r] \in Progress
      /\ lim[r].limit <= config /\ lim[r].born <= config
      /\ \A l \in Limiter : inForce[l] <= config
      /\ lim[r].at \in Limiter /\ "tenant" \in Limiter /\ "service" \in Limiter
      /\ Out \in Progress /\ Out.limit = 0 /\ Out.born = 0
  BY Sizes
<1>2. lim \in [Request -> Progress] /\ \A l \in Limiter : inForce[l] \in Nat
  BY InForce DEF IInv, Typed
<1>3. ASSUME NEW pc \in Phase
      PROVE  LET s == [lim[r] EXCEPT !.pc = pc]
             IN s \in Progress /\ s.limit = lim[r].limit /\ s.born = lim[r].born
  BY <1>1 DEF Progress
<1>4. ASSUME NEW pc \in Phase
      PROVE  LET s == [Out EXCEPT !.pc = pc] IN s \in Progress /\ s.limit = 0 /\ s.born = 0
  BY <1>1 DEF Progress
<1>5. ASSUME NEW n \in Nat
      PROVE  LET s == [lim[r] EXCEPT !.pc = "find", !.limit = n]
             IN s \in Progress /\ s.limit = n /\ s.born = lim[r].born
  BY <1>1 DEF Progress, Phase
<1>6. CASE EnterLimits(r)
  <2>1. PICK c \in Caller : lim' = [lim EXCEPT ![r] = [Out EXCEPT !.pc = "begin", !.caller = c]]
    BY <1>6 DEF EnterLimits
  <2> DEFINE s == [Out EXCEPT !.pc = "begin", !.caller = c]
  <2>2. s \in Progress /\ s.limit = 0 /\ s.born = 0
    BY <1>1 DEF Progress, Phase
  <2>3. QED
    BY <1>1, <2>1, <2>2
<1>7. CASE Passes(r)
  <2> DEFINE t == [lim[r] EXCEPT !.pc = "begin", !.at = "service", !.born = 0]
             o == [Out EXCEPT !.pc = "passed"]
             s == IF lim[r].at = "tenant" THEN t ELSE o
  <2>1. t \in Progress /\ t.limit = lim[r].limit /\ t.born = 0
    BY <1>1 DEF Progress, Phase
  <2>2. o \in Progress /\ o.limit = 0 /\ o.born = 0
    BY <1>4 DEF Phase
  <2>3. lim' = [lim EXCEPT ![r] = s]
    BY <1>7 DEF Passes
  <2> HIDE DEF t, o
  <2>4. s \in Progress /\ s.limit <= config /\ s.born <= config
    BY <1>1, <2>1, <2>2
  <2>5. QED
    BY <2>3, <2>4
<1>8. CASE HoldsCurrent(r)
  <2> DEFINE n == inForce[lim[r].at]
             s == [lim[r] EXCEPT !.pc = "take", !.limit = 0, !.born = n]
  <2>1. n \in Nat /\ n <= config
    BY <1>1, <1>2
  <2>2. lim' = [lim EXCEPT ![r] = s]
    BY <1>1, <1>2, <1>8 DEF HoldsCurrent
  <2> HIDE DEF n
  <2>3. s \in Progress /\ s.limit = 0 /\ s.born = n
    BY <1>1, <2>1 DEF Progress, Phase
  <2>4. QED
    BY <1>1, <2>1, <2>2, <2>3
<1>9. CASE ReadLimits(r) /\ ~Passes(r)
  <2> DEFINE n == IF lim[r].at = "service" THEN inForce["service"] ELSE 0
             s == [lim[r] EXCEPT !.pc = "find", !.limit = n]
  <2>1. n \in Nat /\ n <= config
    BY <1>1, <1>2
  <2>2. lim' = [lim EXCEPT ![r] = s]
    BY <1>1, <1>2, <1>9 DEF ReadLimits, Progress
  <2> HIDE DEF n
  <2>3. s \in Progress /\ s.limit = n /\ s.born = lim[r].born
    BY <1>5, <2>1
  <2>4. QED
    BY <1>1, <2>1, <2>2, <2>3
<1>10. CASE At(r, "make")
  <2> DEFINE s == [lim[r] EXCEPT !.pc = "make"]
  <2>1. s \in Progress /\ s.limit = lim[r].limit /\ s.born = lim[r].born
    BY <1>3 DEF Phase
  <2>2. lim' = [lim EXCEPT ![r] = s]
    BY <1>10, <1>2 DEF At
  <2>3. QED
    BY <1>1, <2>1, <2>2
<1>11. CASE lim' = [lim EXCEPT ![r] = [Out EXCEPT !.pc = "refused"]]
  BY <1>1, <1>4, <1>11 DEF Phase
<1>12. CASE lim' = [lim EXCEPT ![r] = Out]
  BY <1>1, <1>12
<1>13. QED
  BY <1>6, <1>7, <1>8, <1>9, <1>10, <1>11, <1>12
     DEF LimitStep, FindBucket, MakeBucket, MakeIfMissing, TakeToken, LeaveLimits

LEMMA BoundedBuckets ==
  ASSUME IInv, Bounded, NEW r \in Request, EnterLimits(r) \/ LimitStep(r)
  PROVE  (\A l \in Limiter, k \in Key : bucket'[l][k].made <= config) /\ UNCHANGED <<config, inForce>>
<1>1. CASE bucket' = bucket /\ UNCHANGED <<config, inForce>>
  BY <1>1 DEF Bounded
<1>2. lim[r].at \in Limiter /\ KeyAt(r) \in Key /\ bucket \in [Limiter -> [Key -> Bucket]]
  BY KeyIsKey DEF IInv, Typed
<1>3. CASE MakeBucket(r)
  <2> DEFINE m == IF lim[r].at = "tenant" THEN inForce["tenant"] ELSE lim[r].limit
             b == [made |-> m, tokens |-> Burst[m]]
  <2>1. m <= config
    BY Sizes
  <2> HIDE DEF m
  <2>2. bucket' = bucket \/ bucket' = [bucket EXCEPT ![lim[r].at][KeyAt(r)] = b]
    BY <1>3 DEF MakeBucket, MakeIfMissing, m
  <2>3. \A l \in Limiter, k \in Key : bucket'[l][k] \in {bucket[l][k], b}
    BY <1>2, <2>2
  <2>4. b.made = m
    OBVIOUS
  <2>5. QED
    BY <1>3, <2>1, <2>3, <2>4 DEF Bounded, MakeBucket, MakeIfMissing
<1>4. CASE TakeToken(r)
  <2> DEFINE l0 == lim[r].at
             k0 == KeyAt(r)
             b == [bucket[l0][k0] EXCEPT !.tokens = @ - 1]
  <2>1. bucket' = bucket \/ bucket' = [bucket EXCEPT ![l0] = [bucket[l0] EXCEPT ![k0] = b]]
    BY <1>2, <1>4 DEF TakeToken
  <2>2. b.made = bucket[l0][k0].made
    BY <1>2 DEF Bucket
  <2> HIDE DEF b, l0, k0
  <2>3. \A l \in Limiter, k \in Key : bucket'[l][k].made = bucket[l][k].made
    BY <1>2, <2>1, <2>2 DEF l0, k0
  <2>4. QED
    BY <1>4, <2>3 DEF Bounded, TakeToken
<1>5. QED
  BY <1>1, <1>3, <1>4 DEF EnterLimits, LimitStep, ReadLimits, FindBucket, LeaveLimits

LEMMA RefillBounded ==
  ASSUME IInv, Bounded, NEW l0 \in Limiter, NEW k0 \in Key, Refill(l0, k0)
  PROVE  Bounded'
<1> DEFINE b == [bucket[l0][k0] EXCEPT !.tokens = @ + 1]
<1>1. bucket \in [Limiter -> [Key -> Bucket]]
  BY DEF IInv, Typed
<1>2. bucket' = [bucket EXCEPT ![l0] = [bucket[l0] EXCEPT ![k0] = b]]
  BY <1>1 DEF Refill
<1>3. b.made = bucket[l0][k0].made
  BY <1>1 DEF Bucket
<1> HIDE DEF b
<1>4. \A l \in Limiter, k \in Key : bucket'[l][k].made = bucket[l][k].made
  BY <1>1, <1>2, <1>3
<1>5. UNCHANGED <<config, inForce, lim>>
  BY DEF Refill
<1>6. QED
  BY <1>4, <1>5 DEF Bounded

LEMMA ReloadBounded ==
  ASSUME IInv, Bounded, NEW ls, ReloadLimits(ls)
  PROVE  Bounded'
<1>1. /\ config \in Nat /\ config' = config + 1 /\ lim' = lim
      /\ inForce' = [l \in Limiter |-> IF l \in ls THEN config + 1 ELSE inForce[l]]
      /\ bucket' = [l \in Limiter |-> IF l \in ls THEN [k \in Key |-> NoBucket] ELSE bucket[l]]
  BY Capacity DEF ReloadLimits, IInv, Typed
<1>2. /\ \A l \in Limiter : inForce[l] \in Nat
      /\ \A l \in Limiter, k \in Key : bucket[l][k].made \in Nat
      /\ \A r \in Request : lim[r].limit \in Nat /\ lim[r].born \in Nat
  BY InForce DEF IInv, Typed, Bucket, Progress
<1>3. \A l \in Limiter : inForce'[l] <= config'
  BY <1>1, <1>2 DEF Bounded
<1>4. \A l \in Limiter, k \in Key : bucket'[l][k].made <= config'
  BY <1>1, <1>2 DEF Bounded, NoBucket
<1>5. \A r \in Request : lim'[r].limit <= config' /\ lim'[r].born <= config'
  BY <1>1, <1>2 DEF Bounded
<1>6. QED
  BY <1>3, <1>4, <1>5 DEF Bounded

LEMMA InitBounded == Init => Bounded
<1> SUFFICES ASSUME Init
             PROVE  Bounded
  OBVIOUS
<1>1. Out.limit = 0 /\ Out.born = 0 /\ NoBucket.made = 0
  BY DEF Out, NoBucket
<1>2. QED
  BY <1>1 DEF Init, LimitsInit, Bounded

LEMMA NextBounded == IInv /\ Bounded /\ [Next]_vars => Bounded'
<1> SUFFICES ASSUME IInv, Bounded, [Next]_vars
             PROVE  Bounded'
  OBVIOUS
<1>1. CASE UNCHANGED limits
  BY <1>1 DEF limits, Bounded
<1>2. CASE StepInLimits
  <2>1. ASSUME NEW r \in Request, EnterLimits(r) \/ LimitStep(r)
        PROVE  Bounded'
    BY <2>1, BoundedMove, BoundedBuckets, BoundedStep
  <2>2. QED
    BY <1>2, <2>1, RefillBounded, ReloadBounded DEF StepInLimits
<1>3. CASE StepInSessions \/ Sweep \/ StepInAnswers
  BY <1>1, <1>3 DEF StepInSessions, Sweep, StepInAnswers
<1>4. QED
  BY <1>1, <1>2, <1>3 DEF Next, vars

LEMMA LimitsTyped == IInv /\ Bounded => LimitsTypeOK
<1> SUFFICES ASSUME IInv, Bounded
             PROVE  LimitsTypeOK
  OBVIOUS
<1>1. config \in 1..Len(Burst) /\ config \in Nat
  BY Capacity DEF IInv, Typed
<1>2. inForce \in [Limiter -> 1..config]
  <2>1. \A l \in Limiter : inForce[l] \in 1..config
    BY <1>1, InForce DEF IInv, Bounded
  <2>2. QED
    BY <2>1 DEF IInv, Typed
<1>3. ASSUME NEW l \in Limiter, NEW k \in Key
      PROVE  LET b == bucket[l][k] IN b = NoBucket \/ (b.made \in 1..config /\ b.tokens \in 0..Burst[b.made])
  <2> DEFINE b == bucket[l][k]
  <2>1. b \in Bucket /\ b.made <= config
    BY DEF IInv, Typed, Bounded
  <2>2. b # NoBucket => b.made \in 1..Len(Burst) /\ b.tokens <= Burst[b.made]
    BY DEF IInv, Accounted, Accounts
  <2> HIDE DEF b
  <2>3. b # NoBucket => b.made \in 1..config /\ b.tokens \in 0..Burst[b.made]
    BY <1>1, <2>1, <2>2, Capacity DEF Bucket
  <2>4. QED
    BY <2>3 DEF b
<1>4. lim \in [Request -> [pc : Phase, at : Limiter, caller : Caller, limit : 0..config, born : 0..config]]
  <2>1. ASSUME NEW r \in Request
        PROVE  lim[r] \in [pc : Phase, at : Limiter, caller : Caller, limit : 0..config, born : 0..config]
    <3>1. lim[r] \in Progress /\ lim[r].limit <= config /\ lim[r].born <= config
      BY DEF IInv, Typed, Bounded
    <3>2. QED
      BY <1>1, <3>1 DEF Progress
  <2>2. QED
    BY <2>1 DEF IInv, Typed
<1>5. QED
  BY <1>1, <1>2, <1>3, <1>4 DEF LimitsTypeOK, IInv, Typed, Phase

-----------------------------------------------------------------------------
(* Beginnings of sequences.                                                *)

LEMMA PrefixMeans ==
  ASSUME NEW S, NEW s \in Seq(S), NEW t \in Seq(S)
  PROVE  IsPrefix(s, t) <=> Len(s) <= Len(t) /\ \A i \in 1..Len(s) : s[i] = t[i]
<1> SUFFICES ASSUME Len(s) <= Len(t)
             PROVE  SubSeq(s, 1, Len(s)) = SubSeq(t, 1, Len(s)) <=> \A i \in 1..Len(s) : s[i] = t[i]
  BY DEF IsPrefix
<1> DEFINE u == SubSeq(s, 1, Len(s))
           v == SubSeq(t, 1, Len(s))
<1>1. Len(s) \in Nat /\ Len(t) \in Nat
  BY LenProperties
<1>2. \A i \in 1..Len(s) : s[i] \in S /\ t[i] \in S
  BY <1>1, ElementOfSeq
<1>3. u \in Seq(S) /\ Len(u) = Len(s) /\ \A i \in 1..Len(s) : u[i] = s[i]
  BY <1>1, <1>2, SubSeqProperties
<1>4. v \in Seq(S) /\ Len(v) = Len(s) /\ \A i \in 1..Len(s) : v[i] = t[i]
  BY <1>1, <1>2, SubSeqProperties
<1>5. QED
  <2> HIDE DEF u, v
  <2>1. u = v <=> \A i \in 1..Len(s) : s[i] = t[i]
    BY <1>3, <1>4, SeqEqual
  <2>2. QED
    BY <2>1 DEF u, v

LEMMA EmptyIsPrefix ==
  ASSUME NEW S, NEW t \in Seq(S)
  PROVE  IsPrefix(<<>>, t)
<1>1. Len(<<>>) = 0 /\ Len(t) \in Nat
  BY EmptySeq, LenProperties
<1>2. SubSeq(<<>>, 1, 0) = <<>> /\ SubSeq(t, 1, 0) = <<>>
  BY SubSeqEmpty
<1>3. QED
  BY <1>1, <1>2 DEF IsPrefix

LEMMA PrefixOfItself ==
  ASSUME NEW S, NEW s \in Seq(S)
  PROVE  IsPrefix(s, s)
BY LenProperties DEF IsPrefix

LEMMA PrefixOfLonger ==
  ASSUME NEW S, NEW s \in Seq(S), NEW t \in Seq(S), NEW e \in S, IsPrefix(s, t)
  PROVE  IsPrefix(s, Append(t, e))
<1> DEFINE u == Append(t, e)
<1>1. /\ u \in Seq(S) /\ Len(u) = Len(t) + 1
      /\ \A i \in 1..Len(t) : u[i] = t[i]
  BY AppendProperties
<1>2. Len(s) \in Nat /\ Len(t) \in Nat
  BY LenProperties
<1>3. Len(s) <= Len(t) /\ \A i \in 1..Len(s) : s[i] = t[i]
  BY PrefixMeans
<1> HIDE DEF u
<1>4. Len(s) <= Len(u) /\ \A i \in 1..Len(s) : s[i] = u[i]
  BY <1>1, <1>2, <1>3
<1>5. IsPrefix(s, u)
  BY <1>1, <1>4, PrefixMeans
<1>6. QED
  BY <1>5 DEF u


-----------------------------------------------------------------------------
(* The invariant of the sessions.                                          *)

Visit(n) ==
  [pc : {"away", "get", "read", "keep", "append", "put", "asked", "delete", "forget"},
   turn : 0..n, seen : Seq(1..n), result : Seq(1..n), known : SUBSET (1..n),
   late : BOOLEAN, deletes : BOOLEAN, failed : BOOLEAN]

Begins(s, stored) == stored # <<>> => IsPrefix(s, stored)

Store ==
  /\ turns \in 0..MaxTurns
  /\ row \in Seq(1..turns) /\ copy \in Seq(1..turns)
  /\ expired \in BOOLEAN /\ aged \in BOOLEAN /\ sweeping \in BOOLEAN
  /\ deleted \in BOOLEAN /\ crowded \in BOOLEAN
  /\ (expired => row # <<>>) /\ (aged => copy # <<>>)
  /\ turns = 0 => row = <<>> /\ copy = <<>>
  /\ deleted => row = <<>> /\ turns > 0
  /\ Begins(copy, row)

\* As long as no two requests have been at the session together.
Whole(s, stored, cached) ==
  /\ s.pc = "put" /\ stored # <<>> => ToSet(stored) \subseteq ToSet(s.result)
  /\ s.pc = "keep" /\ stored # <<>> => ToSet(stored) \subseteq ToSet(s.seen)
  /\ s.pc = "get" /\ cached # <<>> => s.known \subseteq ToSet(cached)
  /\ s.pc \in {"get", "read"} /\ stored # <<>> => s.known \subseteq ToSet(stored)
  /\ s.pc \in {"keep", "append", "put"} \/ (s.pc = "asked" /\ s.seen # <<>>) => s.known \subseteq ToSet(s.seen)

Fits(s, stored, cached, gone, many) ==
  /\ Begins(s.seen, stored) /\ Begins(s.result, stored)
  /\ s.pc \in {"append", "put"} => s.turn > 0
  /\ s.late => gone /\ s.pc # "put" /\ (s.pc = "asked" => s.seen = <<>>)
  /\ s.pc = "forget" /\ ~s.failed => stored = <<>>
  /\ ~many => Whole(s, stored, cached)

AtWork(s) == s.pc \notin {"away", "asked"}

Alone ==
  ~crowded =>
    /\ \A r, q \in Request : AtWork(ses[r]) /\ AtWork(ses[q]) => r = q
    /\ (\A r \in Request : ses[r].pc # "put") /\ row # <<>> /\ copy # <<>> => ToSet(row) \subseteq ToSet(copy)

Visits ==
  /\ ses \in [Request -> Visit(turns)]
  /\ turns = 0 => \A r \in Request : ses[r] = Away
  /\ \A r \in Request : Fits(ses[r], row, copy, deleted, crowded)

SessionsInv == Store /\ Visits /\ Alone

\* What a request has stays true of it if ...
LEMMA FitsStill ==
  ASSUME NEW n \in Nat, NEW s \in Visit(n), NEW stored \in Seq(1..n), NEW cached, NEW gone, NEW many,
         NEW stored2, NEW cached2, NEW gone2, NEW many2,
         Fits(s, stored, cached, gone, many), gone => gone2 /\ stored = <<>>, many => many2,
         \/ stored2 \in {stored, <<>>} /\ cached2 \in {cached, <<>>}
         \/ stored2 = stored /\ (AtWork(s) => many2)
         \/ (\E e \in 1..n : stored2 = Append(stored, e)) /\ stored # <<>> /\ (AtWork(s) => many2)
  PROVE  Fits(s, stored2, cached2, gone2, many2)
<1>1. Begins(s.seen, stored2) /\ Begins(s.result, stored2)
  <2>1. s.seen \in Seq(1..n) /\ s.result \in Seq(1..n)
    BY DEF Visit
  <2>2. Begins(s.seen, stored) /\ Begins(s.result, stored)
    BY DEF Fits
  <2>3. CASE stored2 \in {stored, <<>>}
    BY <2>2, <2>3 DEF Begins
  <2>4. CASE (\E e \in 1..n : stored2 = Append(stored, e)) /\ stored # <<>>
    BY <2>1, <2>2, <2>4, PrefixOfLonger DEF Begins
  <2>5. QED
    BY <2>3, <2>4
<1>2. s.late => gone2 /\ s.pc # "put" /\ (s.pc = "asked" => s.seen = <<>>)
  BY DEF Fits
<1>3. s.pc = "forget" /\ ~s.failed => stored2 = <<>>
  BY DEF Fits
<1>4. ~many2 => Whole(s, stored2, cached2)
  BY DEF Fits, Whole, AtWork
<1>5. QED
  BY <1>1, <1>2, <1>3, <1>4 DEF Fits

LEMMA VisitGrows ==
  ASSUME NEW n \in Nat, NEW m \in Nat, n <= m
  PROVE  Visit(n) \subseteq Visit(m)
<1>1. 0..n \subseteq 0..m /\ 1..n \subseteq 1..m
  OBVIOUS
<1>2. Seq(1..n) \subseteq Seq(1..m)
  BY <1>1, SeqMonotonic
<1>3. SUBSET (1..n) \subseteq SUBSET (1..m)
  BY <1>1
<1> DEFINE A == 0..n  A2 == 0..m  B == Seq(1..n)  B2 == Seq(1..m)  C == SUBSET (1..n)  C2 == SUBSET (1..m)
<1> HIDE DEF A, A2, B, B2, C, C2
<1>4. A \subseteq A2 /\ B \subseteq B2 /\ C \subseteq C2
  BY <1>1, <1>2, <1>3 DEF A, A2, B, B2, C, C2
<1> DEFINE V(a, b, c) == 
  [pc : {"away", "get", "read", "keep", "append", "put", "asked", "delete", "forget"},
   turn : a, seen : b, result : b, known : c,
   late : BOOLEAN, deletes : BOOLEAN, failed : BOOLEAN]
<1>5. V(A, B, C) \subseteq V(A2, B2, C2)
  BY <1>4
<1>6. QED
  BY <1>5 DEF Visit, A, A2, B, B2, C, C2

\* One request moves to s.
LEMMA VisitMoves ==
  ASSUME SessionsInv, NEW r \in Request, NEW s, s \in Visit(turns'), Goes(r, s),
         turns' \in Nat, turns <= turns', turns' > 0,
         Fits(s, row', copy', deleted', crowded'),
         deleted => deleted', crowded => crowded',
         \/ row' \in {row, <<>>} /\ copy' \in {copy, <<>>}
         \/ row' = row /\ (AtWork(ses[r]) \/ crowded')
         \/ (\E e \in 1..turns : row' = Append(row, e)) /\ row # <<>> /\ (AtWork(ses[r]) \/ crowded')
  PROVE  Visits' /\ ses'[r] = s /\ \A q \in Request \ {r} : ses'[q] = ses[q]
<1>0. turns \in Nat /\ ses \in [Request -> Visit(turns)]
  BY SessionAssumption DEF SessionsInv, Visits, Store
<1>1. /\ ses' \in [Request -> Visit(turns')] /\ ses'[r] = s
      /\ \A q \in Request \ {r} : ses'[q] = ses[q]
  <2>1. Visit(turns) \subseteq Visit(turns')
    BY <1>0, VisitGrows
  <2>2. ses' = [ses EXCEPT ![r] = s]
    BY DEF Goes
  <2>3. QED
    BY <2>1, <2>2, <1>0
<1>2. ASSUME NEW q \in Request, q # r
      PROVE  Fits(ses[q], row', copy', deleted', crowded')
  <2>1. ses[q] \in Visit(turns) /\ Fits(ses[q], row, copy, deleted, crowded)
    BY DEF SessionsInv, Visits
  <2>2. AtWork(ses[q]) /\ AtWork(ses[r]) => crowded
    BY <1>2 DEF SessionsInv, Alone
  <2>3. turns \in Nat /\ row \in Seq(1..turns) /\ (deleted => deleted' /\ row = <<>>)
    BY SessionAssumption DEF SessionsInv, Store
  <2>4. QED
    BY <2>1, <2>2, <2>3, FitsStill
<1>3. \A q \in Request : Fits(ses'[q], row', copy', deleted', crowded')
  BY <1>1, <1>2
<1>4. QED
  BY <1>1, <1>3 DEF Visits

LEMMA AloneStays ==
  ASSUME SessionsInv, NEW r \in Request, crowded => crowded',
         \A q \in Request \ {r} : ses'[q] = ses[q],
         AtWork(ses'[r]) => AtWork(ses[r]) \/ crowded' \/ \A q \in Request \ {r} : ~AtWork(ses[q]),
         ~crowded' /\ (\A q \in Request : ses'[q].pc # "put") /\ row' # <<>> /\ copy' # <<>>
           => ToSet(row') \subseteq ToSet(copy')
  PROVE  Alone'
BY DEF SessionsInv, Alone

-----------------------------------------------------------------------------
(* The steps of the sessions.                                              *)

LEMMA SesFacts ==
  ASSUME SessionsInv, NEW r \in Request
  PROVE  /\ turns \in Nat /\ row \in Seq(1..turns) /\ copy \in Seq(1..turns)
         /\ ses[r] \in Visit(turns) /\ Fits(ses[r], row, copy, deleted, crowded)
         /\ ses[r].pc # "away" => turns > 0
<1>1. ses[r] = Away => ses[r].pc = "away"
  BY DEF Away
<1>2. QED
  BY <1>1, SessionAssumption DEF SessionsInv, Store, Visits

LEMMA AwayFits ==
  ASSUME NEW n \in Nat, NEW stored \in Seq(1..n), NEW cached, NEW gone, NEW many
  PROVE  /\ Away \in Visit(n) /\ Fits(Away, stored, cached, gone, many)
         /\ Away.pc = "away" /\ ~AtWork(Away)
<1>1. <<>> \in Seq(1..n) /\ 0 \in 0..n /\ {} \in SUBSET (1..n)
  BY EmptySeq
<1>2. Away \in Visit(n)
  BY <1>1 DEF Away, Visit
<1>3. Begins(<<>>, stored)
  BY EmptyIsPrefix DEF Begins
<1>4. /\ Away.seen = <<>> /\ Away.result = <<>> /\ Away.pc = "away" /\ Away.late = FALSE
  BY DEF Away
<1>5. Whole(Away, stored, cached)
  BY <1>4 DEF Whole
<1>6. QED
  BY <1>2, <1>3, <1>4, <1>5 DEF Fits, AtWork

\* Get has returned.
LEMMA HasFits ==
  ASSUME NEW r \in Request, NEW n \in Nat, ses[r] \in Visit(n), NEW stored \in Seq(1..n), NEW cached, NEW gone, NEW many,
         NEW cached2,
         Fits(ses[r], stored, cached, gone, many), ses[r].pc \in {"get", "keep"},
         NEW seen \in Seq(1..n), Begins(seen, stored), ~many => ses[r].known \subseteq ToSet(seen)
  PROVE  /\ Has(r, seen) \in Visit(n) /\ Fits(Has(r, seen), stored, cached2, gone, many)
         /\ Has(r, seen).pc \in {"away", "append"}
<1>1. CASE ses[r].turn = 0
  BY <1>1, AwayFits DEF Has
<1>2. CASE ses[r].turn # 0
  <2> DEFINE s == [ses[r] EXCEPT !.pc = "append", !.seen = seen]
  <2>1. /\ s.pc = "append" /\ s.seen = seen /\ s.result = ses[r].result /\ s.turn = ses[r].turn
        /\ s.known = ses[r].known /\ s.late = ses[r].late /\ s \in Visit(n)
    BY DEF Visit
  <2>2. ses[r].turn > 0
    BY <1>2 DEF Visit
  <2>3. Has(r, seen) = s
    BY <1>2 DEF Has
  <2> HIDE DEF s
  <2>4. Whole(s, stored, cached2) \/ many
    BY <2>1 DEF Whole
  <2>5. QED
    BY <2>1, <2>2, <2>3, <2>4 DEF Fits
<1>3. QED
  BY <1>1, <1>2

LEMMA GetCopyKeeps ==
  ASSUME SessionsInv, NEW r \in Request, GetCopy(r)
  PROVE  SessionsInv'
<1> DEFINE s == IF copy # <<>> /\ ~aged THEN Has(r, copy) ELSE [ses[r] EXCEPT !.pc = "read"]
<1>1. /\ turns \in Nat /\ row \in Seq(1..turns) /\ copy \in Seq(1..turns)
      /\ ses[r] \in Visit(turns) /\ Fits(ses[r], row, copy, deleted, crowded)
      /\ ses[r].pc = "get" /\ turns > 0
  BY SesFacts DEF GetCopy
<1>2. /\ Goes(r, s) /\ row' = row /\ expired' = expired /\ copy' = copy /\ aged' = aged
      /\ sweeping' = sweeping /\ turns' = turns /\ deleted' = deleted /\ crowded' = crowded
  BY DEF GetCopy
<1>3. s \in Visit(turns) /\ Fits(s, row, copy, deleted, crowded) /\ s.pc \in {"away", "append", "read"}
  <2>1. CASE copy # <<>> /\ ~aged
    <3>1. Begins(copy, row)
      BY DEF SessionsInv, Store
    <3>2. ~crowded => ses[r].known \subseteq ToSet(copy)
      BY <1>1, <2>1 DEF Fits, Whole
    <3>3. QED
      BY <1>1, <2>1, <3>1, <3>2, HasFits
  <2>2. CASE ~(copy # <<>> /\ ~aged)
    <3> DEFINE t == [ses[r] EXCEPT !.pc = "read"]
    <3>1. /\ t.pc = "read" /\ t.seen = ses[r].seen /\ t.result = ses[r].result /\ t.turn = ses[r].turn
          /\ t.known = ses[r].known /\ t.late = ses[r].late /\ t \in Visit(turns)
      BY <1>1 DEF Visit
    <3>2. s = t
      BY <2>2
    <3> HIDE DEF t
    <3>3. Whole(t, row, copy) \/ crowded
      BY <1>1, <3>1 DEF Whole, Fits
    <3>4. Fits(t, row, copy, deleted, crowded)
      BY <1>1, <3>1, <3>3 DEF Fits
    <3>5. QED
      BY <3>1, <3>2, <3>4
  <2>3. QED
    BY <2>1, <2>2
<1> HIDE DEF s
<1>4. Visits' /\ ses'[r] = s /\ \A q \in Request \ {r} : ses'[q] = ses[q]
  BY <1>1, <1>2, <1>3, VisitMoves
<1>5. Alone'
  <2>1. AtWork(ses[r]) /\ ~(\E q \in Request : q = r /\ ses[q].pc = "put")
    BY <1>1 DEF AtWork
  <2>2. ~crowded' /\ (\A q \in Request : ses'[q].pc # "put") /\ row' # <<>> /\ copy' # <<>>
           => ToSet(row') \subseteq ToSet(copy')
    BY <1>1, <1>2, <1>4 DEF SessionsInv, Alone
  <2>3. QED
    BY <1>2, <1>4, <2>1, <2>2, AloneStays
<1>6. Store'
  BY <1>2 DEF SessionsInv, Store
<1>7. QED
  BY <1>4, <1>5, <1>6 DEF SessionsInv

LEMMA KeepCopyKeeps ==
  ASSUME SessionsInv, NEW r \in Request, KeepCopy(r)
  PROVE  SessionsInv'
<1> DEFINE s == Has(r, ses[r].seen)
<1>1. /\ turns \in Nat /\ row \in Seq(1..turns) /\ copy \in Seq(1..turns)
      /\ ses[r] \in Visit(turns) /\ Fits(ses[r], row, copy, deleted, crowded)
      /\ ses[r].pc = "keep" /\ turns > 0
  BY SesFacts DEF KeepCopy
<1>2. /\ Goes(r, s) /\ row' = row /\ expired' = expired /\ copy' = ses[r].seen /\ aged' = FALSE
      /\ sweeping' = sweeping /\ turns' = turns /\ deleted' = deleted /\ crowded' = crowded
  BY DEF KeepCopy, Puts
<1>3. ses[r].seen \in Seq(1..turns) /\ Begins(ses[r].seen, row)
      /\ (~crowded => ses[r].known \subseteq ToSet(ses[r].seen))
      /\ (~crowded /\ row # <<>> => ToSet(row) \subseteq ToSet(ses[r].seen))
  BY <1>1 DEF Fits, Whole, Visit
<1>4. s \in Visit(turns) /\ Fits(s, row, copy', deleted, crowded) /\ s.pc \in {"away", "append"}
  BY <1>1, <1>3, HasFits
<1> HIDE DEF s
<1>5. Visits' /\ ses'[r] = s /\ \A q \in Request \ {r} : ses'[q] = ses[q]
  BY <1>1, <1>2, <1>4, VisitMoves DEF AtWork
<1>6. Alone'
  BY <1>1, <1>2, <1>3, <1>5, AloneStays DEF AtWork
<1>7. Store'
  <2>1. copy' \in Seq(1..turns') /\ Begins(copy', row') /\ aged' \in BOOLEAN
    BY <1>2, <1>3
  <2>2. (aged' => copy' # <<>>) /\ ~(turns' = 0)
    BY <1>1, <1>2
  <2>3. QED
    BY <1>2, <2>1, <2>2 DEF SessionsInv, Store
<1>8. QED
  BY <1>5, <1>6, <1>7 DEF SessionsInv

LEMMA ReadRowKeeps ==
  ASSUME SessionsInv, NEW r \in Request, ReadRow(r)
  PROVE  SessionsInv'
<1> DEFINE s == CASE row = <<>> -> Away
                  [] row # <<>> /\ expired -> [ses[r] EXCEPT !.pc = "delete"]
                  [] OTHER -> [ses[r] EXCEPT !.pc = "keep", !.seen = row]
<1>1. /\ turns \in Nat /\ row \in Seq(1..turns) /\ copy \in Seq(1..turns)
      /\ ses[r] \in Visit(turns) /\ Fits(ses[r], row, copy, deleted, crowded)
      /\ ses[r].pc = "read" /\ turns > 0
  BY SesFacts DEF ReadRow
<1>2. /\ Goes(r, s) /\ row' = row /\ expired' = expired /\ copy' = copy /\ aged' = aged
      /\ sweeping' = sweeping /\ turns' = turns /\ deleted' = deleted /\ crowded' = crowded
  BY DEF ReadRow
<1>3. s \in Visit(turns) /\ Fits(s, row, copy, deleted, crowded) /\ s.pc \in {"away", "delete", "keep"}
  <2>1. CASE row = <<>>
    BY <1>1, <2>1, AwayFits
  <2>2. CASE row # <<>> /\ expired
    <3> DEFINE t == [ses[r] EXCEPT !.pc = "delete"]
    <3>1. /\ t.pc = "delete" /\ t.seen = ses[r].seen /\ t.result = ses[r].result /\ t.turn = ses[r].turn
          /\ t.known = ses[r].known /\ t.late = ses[r].late /\ t \in Visit(turns)
      BY <1>1 DEF Visit
    <3>2. s = t
      BY <2>2
    <3> HIDE DEF t
    <3>3. Fits(t, row, copy, deleted, crowded)
      BY <1>1, <3>1 DEF Fits, Whole
    <3>4. QED
      BY <3>1, <3>2, <3>3
  <2>3. CASE row # <<>> /\ ~expired
    <3> DEFINE t == [ses[r] EXCEPT !.pc = "keep", !.seen = row]
    <3>1. /\ t.pc = "keep" /\ t.seen = row /\ t.result = ses[r].result /\ t.turn = ses[r].turn
          /\ t.known = ses[r].known /\ t.late = ses[r].late /\ t \in Visit(turns)
      BY <1>1 DEF Visit
    <3>2. s = t
      BY <2>3
    <3> HIDE DEF t
    <3>3. Begins(row, row)
      BY <1>1, PrefixOfItself DEF Begins
    <3>4. ~crowded => Whole(t, row, copy)
      BY <1>1, <2>3, <3>1 DEF Fits, Whole
    <3>5. Fits(t, row, copy, deleted, crowded)
      BY <1>1, <3>1, <3>3, <3>4 DEF Fits
    <3>6. QED
      BY <3>1, <3>2, <3>5
  <2>4. QED
    BY <2>1, <2>2, <2>3
<1> HIDE DEF s
<1>4. Visits' /\ ses'[r] = s /\ \A q \in Request \ {r} : ses'[q] = ses[q]
  BY <1>1, <1>2, <1>3, VisitMoves
<1>5. Alone'
  <2>1. AtWork(ses[r])
    BY <1>1 DEF AtWork
  <2>2. ~crowded' /\ (\A q \in Request : ses'[q].pc # "put") /\ row' # <<>> /\ copy' # <<>>
           => ToSet(row') \subseteq ToSet(copy')
    BY <1>1, <1>2, <1>4 DEF SessionsInv, Alone
  <2>3. QED
    BY <1>2, <1>4, <2>1, <2>2, AloneStays
<1>6. Store'
  BY <1>2 DEF SessionsInv, Store
<1>7. QED
  BY <1>4, <1>5, <1>6 DEF SessionsInv

\* A request that stops work on the session with what it has seen, or with nothing.
LEMMA AsksFits ==
  ASSUME NEW r \in Request, NEW n \in Nat, ses[r] \in Visit(n), NEW stored \in Seq(1..n),
         NEW cached, NEW gone, NEW many, NEW seen \in {ses[r].seen, <<>>},
         Fits(ses[r], stored, cached, gone, many),
         seen # <<>> => ses[r].pc = "put", NEW cached2
  PROVE  /\ Asks(r, seen) \in Visit(n) /\ Fits(Asks(r, seen), stored, cached2, gone, many)
         /\ Asks(r, seen).pc = "asked"
<1> DEFINE s == [ses[r] EXCEPT !.pc = "asked", !.seen = seen, !.result = <<>>]
<1>1. <<>> \in Seq(1..n) /\ seen \in Seq(1..n)
  BY EmptySeq DEF Visit
<1>2. /\ s.pc = "asked" /\ s.seen = seen /\ s.result = <<>> /\ s.turn = ses[r].turn
      /\ s.known = ses[r].known /\ s.late = ses[r].late /\ s \in Visit(n)
  BY <1>1 DEF Visit
<1>3. Asks(r, seen) = s
  BY DEF Asks
<1> HIDE DEF s
<1>4. Begins(<<>>, stored) /\ Begins(seen, stored)
  BY EmptyIsPrefix DEF Begins, Fits
<1>5. ~many => Whole(s, stored, cached2)
  BY <1>2 DEF Fits, Whole
<1>6. Fits(s, stored, cached2, gone, many)
  BY <1>2, <1>4, <1>5 DEF Fits
<1>7. QED
  BY <1>2, <1>3, <1>6

LEMMA GoesOnAloneKeeps ==
  ASSUME SessionsInv, NEW r \in Request, GoesOnAlone(r)
  PROVE  SessionsInv'
<1> DEFINE s == IF ses[r].turn = 0 THEN Away ELSE Asks(r, <<>>)
<1>1. /\ turns \in Nat /\ row \in Seq(1..turns) /\ copy \in Seq(1..turns)
      /\ ses[r] \in Visit(turns) /\ Fits(ses[r], row, copy, deleted, crowded)
      /\ ses[r].pc \in {"read", "append"} /\ turns > 0
  BY SesFacts DEF GoesOnAlone
<1>2. /\ Goes(r, s) /\ row' = row /\ expired' = expired /\ copy' = copy /\ aged' = aged
      /\ sweeping' = sweeping /\ turns' = turns /\ deleted' = deleted /\ crowded' = crowded
  BY DEF GoesOnAlone
<1>3. s \in Visit(turns) /\ Fits(s, row, copy, deleted, crowded) /\ s.pc \in {"away", "asked"}
  BY <1>1, AwayFits, AsksFits
<1> HIDE DEF s
<1>4. Visits' /\ ses'[r] = s /\ \A q \in Request \ {r} : ses'[q] = ses[q]
  BY <1>1, <1>2, <1>3, VisitMoves
<1>5. Alone'
  <2>1. ~AtWork(ses'[r])
    BY <1>3, <1>4 DEF AtWork
  <2>2. ~crowded' /\ (\A q \in Request : ses'[q].pc # "put") /\ row' # <<>> /\ copy' # <<>>
           => ToSet(row') \subseteq ToSet(copy')
    BY <1>1, <1>2, <1>4 DEF SessionsInv, Alone
  <2>3. QED
    BY <1>2, <1>4, <2>1, <2>2, AloneStays
<1>6. Store'
  BY <1>2 DEF SessionsInv, Store
<1>7. QED
  BY <1>4, <1>5, <1>6 DEF SessionsInv

LEMMA AppendTurnKeeps ==
  ASSUME SessionsInv, NEW r \in Request, AppendTurn(r)
  PROVE  SessionsInv'
<1>1. /\ turns \in Nat /\ row \in Seq(1..turns) /\ copy \in Seq(1..turns)
      /\ ses[r] \in Visit(turns) /\ Fits(ses[r], row, copy, deleted, crowded)
      /\ ses[r].pc = "append" /\ turns > 0
  BY SesFacts DEF AppendTurn
<1>2. /\ copy' = copy /\ aged' = aged
      /\ sweeping' = sweeping /\ turns' = turns /\ deleted' = deleted /\ crowded' = crowded
  BY DEF AppendTurn
<1>3. CASE row = <<>>
  <2>1. Goes(r, Away) /\ row' = row /\ expired' = expired
    BY <1>3 DEF AppendTurn
  <2>2. Away \in Visit(turns) /\ Fits(Away, row, copy, deleted, crowded) /\ ~AtWork(Away)
    BY <1>1, AwayFits
  <2>3. Visits' /\ ses'[r] = Away /\ \A q \in Request \ {r} : ses'[q] = ses[q]
    BY <1>1, <1>2, <2>1, <2>2, VisitMoves
  <2>4. Alone'
    BY <1>2, <1>3, <2>1, <2>2, <2>3, AloneStays
  <2>5. Store'
    BY <1>2, <2>1 DEF SessionsInv, Store
  <2>6. QED
    BY <2>3, <2>4, <2>5 DEF SessionsInv
<1>4. CASE row # <<>>
  <2> DEFINE e == ses[r].turn
             s == [ses[r] EXCEPT !.pc = "put", !.result = row']
  <2>1. Goes(r, s) /\ row' = Append(row, e) /\ expired' = FALSE
    BY <1>4 DEF AppendTurn
  <2>2. e \in 1..turns
    BY <1>1 DEF Fits, Visit
  <2>3. row' \in Seq(1..turns) /\ row' # <<>>
    BY <1>1, <2>1, <2>2, AppendProperties
  <2>4. /\ s.pc = "put" /\ s.seen = ses[r].seen /\ s.result = row' /\ s.turn = e
        /\ s.known = ses[r].known /\ s.late = ses[r].late /\ s \in Visit(turns)
    BY <1>1, <2>3 DEF Visit
  <2>5. ~deleted
    BY <1>4 DEF SessionsInv, Store
  <2> HIDE DEF s, e
  <2>6. Begins(s.seen, row') /\ Begins(s.result, row')
    <3>1. ses[r].seen \in Seq(1..turns) /\ IsPrefix(ses[r].seen, row)
      BY <1>1, <1>4 DEF Fits, Begins, Visit
    <3>2. IsPrefix(ses[r].seen, row')
      BY <1>1, <2>1, <2>2, <3>1, PrefixOfLonger
    <3>3. IsPrefix(row', row')
      BY <2>3, PrefixOfItself
    <3>4. QED
      BY <2>4, <3>2, <3>3 DEF Begins
  <2>7. ~crowded => Whole(s, row', copy)
    BY <1>1, <2>4 DEF Fits, Whole
  <2>8. Fits(s, row', copy, deleted, crowded)
    <3>1. ~s.late
      BY <1>1, <2>4, <2>5 DEF Fits
    <3>2. QED
      BY <2>2, <2>4, <2>6, <2>7, <3>1 DEF Fits
  <2>9. Visits' /\ ses'[r] = s /\ \A q \in Request \ {r} : ses'[q] = ses[q]
    BY <1>1, <1>2, <1>4, <2>1, <2>2, <2>4, <2>8, VisitMoves DEF AtWork
  <2>10. Alone'
    BY <1>1, <1>2, <2>4, <2>9, AloneStays DEF AtWork
  <2>11. Store'
    <3>1. Begins(copy', row')
      BY <1>1, <1>2, <1>4, <2>1, <2>2, PrefixOfLonger DEF SessionsInv, Store, Begins
    <3>2. row' \in Seq(1..turns') /\ ~(turns' = 0)
      BY <1>1, <1>2, <2>3
    <3>3. ~deleted' /\ expired' \in BOOLEAN /\ ~expired'
      BY <1>2, <2>1, <2>5
    <3>4. /\ turns' \in 0..MaxTurns /\ copy' \in Seq(1..turns') /\ aged' \in BOOLEAN
          /\ sweeping' \in BOOLEAN /\ deleted' \in BOOLEAN /\ crowded' \in BOOLEAN
          /\ (aged' => copy' # <<>>)
      BY <1>2 DEF SessionsInv, Store
    <3>5. QED
      BY <3>1, <3>2, <3>3, <3>4 DEF Store
  <2>12. QED
    BY <2>9, <2>10, <2>11 DEF SessionsInv
<1>5. QED
  BY <1>3, <1>4

LEMMA PutTurnKeeps ==
  ASSUME SessionsInv, NEW r \in Request, PutTurn(r)
  PROVE  SessionsInv'
<1> DEFINE s == Asks(r, ses[r].seen)
<1>1. /\ turns \in Nat /\ row \in Seq(1..turns) /\ copy \in Seq(1..turns)
      /\ ses[r] \in Visit(turns) /\ Fits(ses[r], row, copy, deleted, crowded)
      /\ ses[r].pc = "put" /\ turns > 0
  BY SesFacts DEF PutTurn
<1>2. /\ Goes(r, s) /\ row' = row /\ expired' = expired /\ copy' = ses[r].result /\ aged' = FALSE
      /\ sweeping' = sweeping /\ turns' = turns /\ deleted' = deleted /\ crowded' = crowded
  BY DEF PutTurn, Puts
<1>3. ses[r].result \in Seq(1..turns) /\ Begins(ses[r].result, row)
      /\ (~crowded /\ row # <<>> => ToSet(row) \subseteq ToSet(ses[r].result))
  BY <1>1 DEF Fits, Whole, Visit
<1>4. s \in Visit(turns) /\ Fits(s, row, copy', deleted, crowded) /\ s.pc = "asked"
  BY <1>1, AsksFits
<1> HIDE DEF s
<1>5. Visits' /\ ses'[r] = s /\ \A q \in Request \ {r} : ses'[q] = ses[q]
  BY <1>1, <1>2, <1>4, VisitMoves DEF AtWork
<1>6. Alone'
  BY <1>1, <1>2, <1>3, <1>4, <1>5, AloneStays DEF AtWork
<1>7. Store'
  <2>1. copy' \in Seq(1..turns') /\ Begins(copy', row') /\ aged' \in BOOLEAN
    BY <1>2, <1>3
  <2>2. (aged' => copy' # <<>>) /\ ~(turns' = 0)
    BY <1>1, <1>2
  <2>3. QED
    BY <1>2, <2>1, <2>2 DEF SessionsInv, Store
<1>8. QED
  BY <1>5, <1>6, <1>7 DEF SessionsInv

LEMMA LeaveSessionKeeps ==
  ASSUME SessionsInv, NEW r \in Request, LeaveSession(r)
  PROVE  SessionsInv'
<1>1. /\ turns \in Nat /\ row \in Seq(1..turns) /\ copy \in Seq(1..turns)
      /\ ses[r] \in Visit(turns) /\ Fits(ses[r], row, copy, deleted, crowded)
      /\ ses[r].pc = "asked" /\ turns > 0
  BY SesFacts DEF LeaveSession
<1>2. /\ Goes(r, Away) /\ row' = row /\ expired' = expired /\ copy' = copy /\ aged' = aged
      /\ sweeping' = sweeping /\ turns' = turns /\ deleted' = deleted /\ crowded' = crowded
  BY DEF LeaveSession
<1>3. Away \in Visit(turns) /\ Fits(Away, row, copy, deleted, crowded) /\ Away.pc = "away" /\ ~AtWork(Away)
  BY <1>1, AwayFits
<1>4. Visits' /\ ses'[r] = Away /\ \A q \in Request \ {r} : ses'[q] = ses[q]
  BY <1>1, <1>2, <1>3, VisitMoves
<1>5. Alone'
  <2>1. ~crowded' /\ (\A q \in Request : ses'[q].pc # "put") /\ row' # <<>> /\ copy' # <<>>
           => ToSet(row') \subseteq ToSet(copy')
    BY <1>1, <1>2, <1>4 DEF SessionsInv, Alone
  <2>2. QED
    BY <1>2, <1>3, <1>4, <2>1, AloneStays
<1>6. Store'
  BY <1>2 DEF SessionsInv, Store
<1>7. QED
  BY <1>4, <1>5, <1>6 DEF SessionsInv

LEMMA DeleteRowKeeps ==
  ASSUME SessionsInv, NEW r \in Request, DeleteRow(r)
  PROVE  SessionsInv'
<1>1. /\ turns \in Nat /\ row \in Seq(1..turns) /\ copy \in Seq(1..turns)
      /\ ses[r] \in Visit(turns) /\ Fits(ses[r], row, copy, deleted, crowded)
      /\ ses[r].pc = "delete" /\ turns > 0
  BY SesFacts DEF DeleteRow
<1>2. /\ copy' = copy /\ aged' = aged
      /\ sweeping' = sweeping /\ turns' = turns /\ deleted' = deleted /\ crowded' = crowded
  BY DEF DeleteRow
<1>3. PICK failed \in BOOLEAN :
        /\ IF failed THEN row' = row /\ expired' = expired ELSE row' = <<>> /\ expired' = FALSE
        /\ Goes(r, [ses[r] EXCEPT !.pc = "forget", !.failed = failed])
  BY DEF DeleteRow
<1> DEFINE s == [ses[r] EXCEPT !.pc = "forget", !.failed = failed]
<1>4. /\ s.pc = "forget" /\ s.seen = ses[r].seen /\ s.result = ses[r].result /\ s.turn = ses[r].turn
      /\ s.known = ses[r].known /\ s.late = ses[r].late /\ s.failed = failed /\ s \in Visit(turns)
  BY <1>1 DEF Visit
<1>5. Goes(r, s)
  BY <1>3
<1> HIDE DEF s
<1>6. row' \in {row, <<>>} /\ (~failed => row' = <<>>)
  BY <1>3
<1>7. Fits(s, row', copy, deleted, crowded)
  <2>1. Begins(s.seen, row') /\ Begins(s.result, row')
    BY <1>1, <1>4, <1>6 DEF Fits, Begins
  <2>2. Whole(s, row', copy)
    BY <1>4 DEF Whole
  <2>3. QED
    BY <1>1, <1>4, <1>6, <2>1, <2>2 DEF Fits
<1>8. Visits' /\ ses'[r] = s /\ \A q \in Request \ {r} : ses'[q] = ses[q]
  BY <1>1, <1>2, <1>4, <1>5, <1>6, <1>7, VisitMoves
<1>9. Alone'
  <2>1. AtWork(ses[r]) /\ ses[r].pc # "put"
    BY <1>1 DEF AtWork
  <2>2. ~crowded' /\ (\A q \in Request : ses'[q].pc # "put") /\ row' # <<>> /\ copy' # <<>>
           => ToSet(row') \subseteq ToSet(copy')
    BY <1>2, <1>6, <1>8, <2>1 DEF SessionsInv, Alone
  <2>3. QED
    BY <1>2, <1>8, <2>1, <2>2, AloneStays
<1>10. Store'
  <2>1. expired' \in BOOLEAN /\ (expired' => row' # <<>>)
    BY <1>3 DEF SessionsInv, Store
  <2>2. row' \in Seq(1..turns') /\ Begins(copy', row') /\ (deleted' => row' = <<>>)
        /\ (turns' = 0 => row' = <<>>)
    BY <1>2, <1>6, EmptySeq DEF SessionsInv, Store, Begins
  <2>3. QED
    BY <1>2, <2>1, <2>2 DEF SessionsInv, Store
<1>11. QED
  BY <1>8, <1>9, <1>10 DEF SessionsInv

LEMMA ForgetCopyKeeps ==
  ASSUME SessionsInv, NEW r \in Request, ForgetCopy(r)
  PROVE  SessionsInv'
<1>1. /\ turns \in Nat /\ row \in Seq(1..turns) /\ copy \in Seq(1..turns)
      /\ ses[r] \in Visit(turns) /\ Fits(ses[r], row, copy, deleted, crowded)
      /\ ses[r].pc = "forget" /\ turns > 0
  BY SesFacts DEF ForgetCopy
<1>2. /\ Goes(r, Away) /\ row' = row /\ expired' = expired /\ copy' = <<>> /\ aged' = FALSE
      /\ sweeping' = sweeping /\ turns' = turns /\ crowded' = crowded
      /\ deleted' = (deleted \/ (ses[r].deletes /\ ~ses[r].failed))
  BY DEF ForgetCopy
<1>3. Away \in Visit(turns) /\ Fits(Away, row, copy', deleted', crowded) /\ Away.pc = "away" /\ ~AtWork(Away)
  BY <1>1, AwayFits
<1>4. Visits' /\ ses'[r] = Away /\ \A q \in Request \ {r} : ses'[q] = ses[q]
  <2>1. (deleted => deleted') /\ (crowded => crowded')
    BY <1>2
  <2>2. Fits(Away, row', copy', deleted', crowded')
    BY <1>2, <1>3
  <2>3. row' \in {row, <<>>} /\ copy' \in {copy, <<>>} /\ turns' = turns /\ Goes(r, Away)
    BY <1>2
  <2>4. QED
    BY <1>1, <1>3, <2>1, <2>2, <2>3, VisitMoves
<1>5. Alone'
  BY <1>2, <1>3, <1>4, AloneStays
<1>6. Store'
  <2>1. deleted' \in BOOLEAN
    BY <1>1, <1>2 DEF SessionsInv, Store, Visit
  <2>2. deleted' => row' = <<>>
    BY <1>1, <1>2 DEF SessionsInv, Store, Fits
  <2>3. copy' \in Seq(1..turns') /\ Begins(copy', row') /\ aged' \in BOOLEAN /\ ~aged'
    BY <1>1, <1>2, EmptySeq, EmptyIsPrefix DEF Begins
  <2>4. ~(turns' = 0) /\ turns' > 0
    BY <1>1, <1>2
  <2>5. /\ turns' \in 0..MaxTurns /\ row' \in Seq(1..turns') /\ expired' \in BOOLEAN
        /\ sweeping' \in BOOLEAN /\ crowded' \in BOOLEAN
        /\ (expired' => row' # <<>>)
    BY <1>2 DEF SessionsInv, Store
  <2>6. QED
    BY <2>1, <2>2, <2>3, <2>4, <2>5 DEF Store
<1>7. QED
  BY <1>4, <1>5, <1>6 DEF SessionsInv

\* The store loses something, or only its age changes.
LEMMA VisitsStay ==
  ASSUME SessionsInv, ses' = ses, turns' = turns, deleted' = deleted, crowded' = crowded,
         row' \in {row, <<>>}, copy' \in {copy, <<>>}
  PROVE  Visits' /\ Alone'
<1>1. ASSUME NEW q \in Request
      PROVE  Fits(ses[q], row', copy', deleted', crowded')
  <2>1. /\ turns \in Nat /\ row \in Seq(1..turns) /\ ses[q] \in Visit(turns)
        /\ Fits(ses[q], row, copy, deleted, crowded)
    BY SesFacts
  <2>2. (deleted => row = <<>>) /\ (deleted => deleted') /\ (crowded => crowded')
    BY DEF SessionsInv, Store
  <2>3. QED
    BY <2>1, <2>2, FitsStill
<1>2. Visits'
  BY <1>1 DEF SessionsInv, Visits
<1>3. Alone'
  BY DEF SessionsInv, Alone
<1>4. QED
  BY <1>2, <1>3

LEMMA PassTimeKeeps ==
  ASSUME SessionsInv, PassTime
  PROVE  SessionsInv'
<1>1. /\ row' = row /\ copy' = copy /\ sweeping' = sweeping /\ turns' = turns /\ ses' = ses
      /\ deleted' = deleted /\ crowded' = crowded
  BY DEF PassTime
<1>2. Visits' /\ Alone'
  BY <1>1, VisitsStay
<1>3. Store'
  <2>1. expired \in BOOLEAN /\ aged \in BOOLEAN /\ (expired => row # <<>>) /\ (aged => copy # <<>>)
    BY DEF SessionsInv, Store
  <2>2. CASE row # <<>> /\ expired' = TRUE /\ aged' = aged
    BY <1>1, <2>1, <2>2 DEF SessionsInv, Store
  <2>3. CASE copy # <<>> /\ aged' = TRUE /\ expired' = expired
    BY <1>1, <2>1, <2>3 DEF SessionsInv, Store
  <2>4. QED
    BY <2>2, <2>3 DEF PassTime
<1>4. QED
  BY <1>2, <1>3 DEF SessionsInv

LEMMA SweepKeeps ==
  ASSUME SessionsInv, SweepSessions
  PROVE  SessionsInv'
<1>1. /\ row' \in {row, <<>>} /\ copy' \in {copy, <<>>} /\ turns' = turns /\ ses' = ses
      /\ deleted' = deleted /\ crowded' = crowded
  BY DEF SweepSessions
<1>2. Visits' /\ Alone'
  BY <1>1, VisitsStay
<1>3. Store'
  <2>0. expired \in BOOLEAN /\ aged \in BOOLEAN /\ (expired => row # <<>>) /\ (aged => copy # <<>>)
    BY DEF SessionsInv, Store
  <2>1. \/ row' = <<>> /\ expired' = FALSE /\ copy' = copy /\ aged' = aged
        \/ row' = row /\ expired' = expired /\ copy' = <<>> /\ aged' = FALSE
    BY DEF SweepSessions
  <2>2. /\ expired' \in BOOLEAN /\ (expired' => row' # <<>>)
        /\ aged' \in BOOLEAN /\ (aged' => copy' # <<>>)
    <3>1. CASE row' = <<>> /\ expired' = FALSE /\ copy' = copy /\ aged' = aged
      <4>1. aged' \in BOOLEAN /\ (aged' => copy' # <<>>)
        BY ONLY <2>0, <3>1
      <4>2. QED
        BY <3>1, <4>1
    <3>2. CASE row' = row /\ expired' = expired /\ copy' = <<>> /\ aged' = FALSE
      <4>1. expired' \in BOOLEAN /\ (expired' => row' # <<>>)
        BY ONLY <2>0, <3>2
      <4>2. QED
        BY <3>2, <4>1
    <3>3. QED
      BY <2>1, <3>1, <3>2
  <2>3. sweeping' \in BOOLEAN
    BY DEF SweepSessions
  <2>4. row' \in Seq(1..turns') /\ copy' \in Seq(1..turns') /\ Begins(copy', row')
        /\ (deleted' => row' = <<>>) /\ (turns' = 0 => row' = <<>> /\ copy' = <<>>)
    BY <1>1, SesFacts, EmptySeq, EmptyIsPrefix DEF SessionsInv, Store, Begins
  <2>5. turns' \in 0..MaxTurns /\ deleted' \in BOOLEAN /\ crowded' \in BOOLEAN /\ (deleted' => turns' > 0)
    BY <1>1 DEF SessionsInv, Store
  <2>6. QED
    BY <2>2, <2>3, <2>4, <2>5 DEF Store
<1>4. QED
  BY <1>2, <1>3 DEF SessionsInv

LEMMA CreateSessionKeeps ==
  ASSUME SessionsInv, NEW r \in Request, CreateSession(r)
  PROVE  SessionsInv'
<1> DEFINE s == [Away EXCEPT !.pc = "asked", !.turn = 1]
<1>1. /\ turns = 0 /\ turns' = 1 /\ row' = <<1>> /\ copy' = <<1>> /\ aged' = FALSE
      /\ expired' = expired /\ sweeping' = sweeping /\ deleted' = deleted /\ crowded' = crowded
      /\ ses' = [ses EXCEPT ![r] = s]
  BY DEF CreateSession, Puts, Goes
<1>2. /\ \A q \in Request : ses[q] = Away
      /\ ses \in [Request -> Visit(turns)] /\ 1 \in 0..MaxTurns
      /\ ~deleted /\ ~expired
  BY <1>1, SessionAssumption DEF SessionsInv, Visits, Store
<1>3. <<1>> \in Seq(1..1) /\ <<1>> # <<>>
  OBVIOUS
<1>4. Away \in Visit(1) /\ Fits(Away, <<1>>, <<1>>, deleted, crowded) /\ ~AtWork(Away)
  BY <1>3, AwayFits
<1>5. /\ s.pc = "asked" /\ s.seen = <<>> /\ s.result = <<>> /\ s.late = FALSE /\ s \in Visit(1)
  <2>1. <<>> \in Seq(1..1) /\ 1 \in 0..1 /\ {} \in SUBSET (1..1)
    BY EmptySeq
  <2>2. QED
    BY <2>1 DEF Away, Visit
<1> HIDE DEF s
<1>6. Fits(s, <<1>>, <<1>>, deleted, crowded)
  <2>1. Begins(<<>>, <<1>>)
    BY <1>3, EmptyIsPrefix DEF Begins
  <2>2. QED
    BY <1>5, <2>1 DEF Fits, Whole
<1>7. ses' \in [Request -> Visit(turns')] /\ \A q \in Request : ses'[q] \in {s, Away}
  <2>1. ses' = [q \in Request |-> IF q = r THEN s ELSE Away]
    BY <1>1, <1>2
  <2>2. QED
    BY <1>1, <1>4, <1>5, <2>1
<1>8. Visits'
  <2>1. \A q \in Request : Fits(ses'[q], row', copy', deleted', crowded')
    BY <1>1, <1>4, <1>6, <1>7
  <2>2. ~(turns' = 0)
    BY <1>1
  <2>3. QED
    BY <1>7, <2>1, <2>2 DEF Visits
<1>9. Alone'
  BY <1>1, <1>4, <1>5, <1>7 DEF Alone, AtWork
<1>10. Store'
  <2>1. Begins(copy', row')
    BY <1>1, <1>3, PrefixOfItself DEF Begins
  <2>2. turns' \in 0..MaxTurns /\ row' \in Seq(1..turns') /\ copy' \in Seq(1..turns')
        /\ ~(turns' = 0) /\ turns' > 0 /\ row' # <<>> /\ copy' # <<>>
    BY <1>1, <1>2, <1>3
  <2>3. expired' \in BOOLEAN /\ sweeping' \in BOOLEAN /\ deleted' \in BOOLEAN /\ crowded' \in BOOLEAN
    BY <1>1 DEF SessionsInv, Store
  <2>4. ~deleted' /\ aged' \in BOOLEAN
    BY <1>1, <1>2
  <2>5. QED
    BY <2>1, <2>2, <2>3, <2>4 DEF Store
<1>11. QED
  BY <1>8, <1>9, <1>10 DEF SessionsInv

LEMMA EnterSessionKeeps ==
  ASSUME SessionsInv, NEW r \in Request, EnterSession(r)
  PROVE  SessionsInv'
<1>1. /\ row' = row /\ expired' = expired /\ copy' = copy /\ aged' = aged /\ sweeping' = sweeping
      /\ deleted' = deleted /\ turns > 0 /\ ses[r].pc = "away"
      /\ crowded' = (crowded \/ \E q \in Request \ {r} : AtWork(ses[q]))
  BY DEF EnterSession, Busy, AtWork
<1>2. /\ turns \in Nat /\ row \in Seq(1..turns) /\ copy \in Seq(1..turns)
      /\ ToSet(row) \in SUBSET (1..turns) /\ deleted \in BOOLEAN
  <2>1. turns \in Nat /\ row \in Seq(1..turns) /\ copy \in Seq(1..turns) /\ deleted \in BOOLEAN
    BY SesFacts DEF SessionsInv, Store
  <2>2. DOMAIN row = 1..Len(row) /\ \A i \in 1..Len(row) : row[i] \in 1..turns
    BY <2>1, LenProperties, ElementOfSeq
  <2>3. QED
    BY <2>1, <2>2 DEF ToSet
<1>3. /\ turns' \in 0..MaxTurns /\ turns <= turns'
      /\ row \in Seq(1..turns') /\ copy \in Seq(1..turns') /\ ToSet(row) \in SUBSET (1..turns')
  <2>1. turns' \in 0..MaxTurns /\ turns <= turns'
    BY <1>2, SessionAssumption DEF EnterSession, SessionsInv, Store
  <2>2. 1..turns \subseteq 1..turns'
    BY <1>2, <2>1
  <2>3. QED
    BY <1>2, <2>1, <2>2, SeqMonotonic
<1>4. PICK s : /\ Goes(r, s) /\ s \in Visit(turns') /\ s.seen = <<>> /\ s.result = <<>>
               /\ s.pc \in {"get", "delete"} /\ (s.late => deleted) /\ s.known \in {{}, ToSet(row)}
  <2>1. <<>> \in Seq(1..turns') /\ 0 \in 0..turns' /\ {} \in SUBSET (1..turns')
    BY <1>3, EmptySeq
  <2>2. CASE /\ turns' = turns + 1
             /\ Goes(r, [Away EXCEPT !.pc = "get", !.turn = turns + 1, !.late = deleted,
                                     !.known = ToSet(row)])
    <3> DEFINE s == [Away EXCEPT !.pc = "get", !.turn = turns + 1, !.late = deleted, !.known = ToSet(row)]
    <3>1. turns + 1 \in 0..turns'
      BY <1>2, <2>2
    <3>2. s \in Visit(turns') /\ s.seen = <<>> /\ s.result = <<>> /\ s.pc = "get" /\ s.late = deleted
          /\ s.known = ToSet(row)
      BY <1>2, <1>3, <2>1, <3>1 DEF Away, Visit
    <3> HIDE DEF s
    <3>3. Goes(r, s)
      BY <2>2 DEF s
    <3>4. QED
      BY <3>2, <3>3
  <2>3. CASE Goes(r, [Away EXCEPT !.pc = "get"])
    <3> DEFINE s == [Away EXCEPT !.pc = "get"]
    <3>1. s \in Visit(turns') /\ s.seen = <<>> /\ s.result = <<>> /\ s.pc = "get" /\ ~s.late /\ s.known = {}
      BY <2>1 DEF Away, Visit
    <3>2. QED
      BY <2>3, <3>1
  <2>4. CASE Goes(r, [Away EXCEPT !.pc = "delete", !.deletes = TRUE])
    <3> DEFINE s == [Away EXCEPT !.pc = "delete", !.deletes = TRUE]
    <3>1. s \in Visit(turns') /\ s.seen = <<>> /\ s.result = <<>> /\ s.pc = "delete" /\ ~s.late /\ s.known = {}
      BY <2>1 DEF Away, Visit
    <3>2. QED
      BY <2>4, <3>1
  <2>5. QED
    BY <2>2, <2>3, <2>4 DEF EnterSession
<1>5. Fits(s, row, copy, deleted, crowded')
  <2>1. Begins(<<>>, row)
    BY <1>2, EmptyIsPrefix DEF Begins
  <2>2. ~crowded' => (row # <<>> /\ copy # <<>> => ToSet(row) \subseteq ToSet(copy))
    BY <1>1 DEF SessionsInv, Alone, AtWork
  <2>3. ~crowded' => Whole(s, row, copy)
    <3>1. CASE row = <<>>
      <4>1. ToSet(row) = {}
        BY <3>1 DEF ToSet
      <4>2. QED
        BY <1>4, <4>1 DEF Whole
    <3>2. CASE row # <<>>
      BY <1>4, <2>2, <3>2 DEF Whole
    <3>3. QED
      BY <3>1, <3>2
  <2>4. QED
    BY <1>4, <2>1, <2>3 DEF Fits
<1>6. Visits' /\ ses'[r] = s /\ \A q \in Request \ {r} : ses'[q] = ses[q]
  <2>1. turns' \in Nat /\ turns' > 0
    BY <1>1, <1>2, <1>3
  <2>2. (deleted => deleted') /\ (crowded => crowded')
    BY <1>1
  <2>3. row' \in {row, <<>>} /\ copy' \in {copy, <<>>} /\ Fits(s, row', copy', deleted', crowded')
    BY <1>1, <1>5
  <2>4. QED
    BY <1>3, <1>4, <2>1, <2>2, <2>3, VisitMoves
<1>7. Alone'
  <2>1. ~crowded' /\ (\A q \in Request : ses'[q].pc # "put") /\ row' # <<>> /\ copy' # <<>>
           => ToSet(row') \subseteq ToSet(copy')
    BY <1>1, <1>6 DEF SessionsInv, Alone, AtWork
  <2>2. (crowded => crowded') /\ (crowded' \/ \A q \in Request \ {r} : ~AtWork(ses[q]))
    BY <1>1
  <2>3. QED
    BY <1>6, <2>1, <2>2, AloneStays
<1>8. Store'
  <2>1. /\ row' \in Seq(1..turns') /\ copy' \in Seq(1..turns') /\ turns' > 0 /\ ~(turns' = 0)
    BY <1>1, <1>2, <1>3
  <2>2. crowded' \in BOOLEAN
    BY <1>1 DEF SessionsInv, Store
  <2>3. /\ expired' \in BOOLEAN /\ aged' \in BOOLEAN /\ sweeping' \in BOOLEAN /\ deleted' \in BOOLEAN
        /\ (expired' => row' # <<>>) /\ (aged' => copy' # <<>>) /\ (deleted' => row' = <<>>)
        /\ Begins(copy', row')
    BY <1>1 DEF SessionsInv, Store
  <2>4. QED
    BY <1>3, <2>1, <2>2, <2>3 DEF Store
<1>9. QED
  BY <1>6, <1>7, <1>8 DEF SessionsInv

LEMMA SessionsInitially == SessionsInit => SessionsInv
<1> SUFFICES ASSUME SessionsInit
             PROVE  SessionsInv
  OBVIOUS
<1>1. 0 \in 0..MaxTurns /\ <<>> \in Seq(1..0) /\ 0 \in Nat
  BY SessionAssumption, EmptySeq
<1>2. Away \in Visit(0) /\ ~AtWork(Away) /\ \A c, g, m : Fits(Away, <<>>, c, g, m)
  BY <1>1, AwayFits
<1>3. Store
  BY <1>1 DEF SessionsInit, Store, Begins
<1>4. Visits
  BY <1>2 DEF SessionsInit, Visits
<1>5. Alone
  BY <1>2 DEF SessionsInit, Alone
<1>6. QED
  BY <1>3, <1>4, <1>5 DEF SessionsInv

LEMMA SessionsNext == SessionsInv /\ [Next]_vars => SessionsInv'
<1> SUFFICES ASSUME SessionsInv, [Next]_vars
             PROVE  SessionsInv'
  OBVIOUS
<1>1. CASE UNCHANGED sessions
  BY <1>1 DEF sessions, SessionsInv, Store, Visits, Alone
<1>2. CASE StepInSessions
  <2>1. ASSUME NEW r \in Request, EnterSession(r) \/ SessionStep(r)
        PROVE  SessionsInv'
    BY <2>1, EnterSessionKeeps, CreateSessionKeeps, GetCopyKeeps, ReadRowKeeps, KeepCopyKeeps,
       GoesOnAloneKeeps, AppendTurnKeeps, PutTurnKeeps, LeaveSessionKeeps, DeleteRowKeeps,
       ForgetCopyKeeps DEF SessionStep
  <2>2. QED
    BY <1>2, <2>1, PassTimeKeeps DEF StepInSessions
<1>3. CASE Sweep
  BY <1>3, SweepKeeps DEF Sweep
<1>4. CASE StepInLimits \/ StepInAnswers
  BY <1>1, <1>4 DEF StepInLimits, StepInAnswers
<1>5. QED
  BY <1>1, <1>2, <1>3, <1>4 DEF Next, vars

LEMMA SessionsTyped == SessionsInv => SessionsTypeOK
<1> SUFFICES ASSUME SessionsInv
             PROVE  SessionsTypeOK
  OBVIOUS
<1>1. ASSUME NEW r \in Request
      PROVE  /\ ses[r].pc \in {"away", "get", "read", "keep", "append", "put", "asked", "delete", "forget"}
             /\ ses[r].turn \in 0..turns /\ ses[r].known \subseteq 1..turns
             /\ {ses[r].late, ses[r].deletes, ses[r].failed} \subseteq BOOLEAN
             /\ ses[r].seen \in Seq(1..turns) /\ ses[r].result \in Seq(1..turns)
  BY SesFacts DEF Visit
<1>2. QED
  BY <1>1 DEF SessionsInv, Store, SessionsTypeOK

-----------------------------------------------------------------------------
(* The invariant of the answers.                                           *)

Entry == [prompt : Prompt, old : BOOLEAN]

Distinct(entries) == \A i, j \in DOMAIN entries : entries[i].prompt = entries[j].prompt => i = j

Place == [pc : {"gone", "look", "drop", "similar", "budget", "route", "call", "downgraded",
                "store", "charge", "answered", "rejected"},
          prompt : Prompt, stores : BOOLEAN, over : {"no"} \cup Action]

Cache == cache \in Seq(Entry) /\ Len(cache) <= CacheSize /\ Distinct(cache) /\ semantic \subseteq Prompt

Money ==
  /\ limit \in DailyLimit /\ action \in Action /\ dated \in BOOLEAN /\ loose \in BOOLEAN
  /\ spent \in Nat /\ today \in 0..MaxToday /\ slack \in 0..today
  /\ IF dated THEN spent + slack = today ELSE slack = today

AnswersInv == Cache /\ Money /\ ans \in [Request -> Place]

LEMMA LeastOf ==
  ASSUME NEW S \in SUBSET Nat, S # {}
  PROVE  Min(S) \in S /\ \A x \in S : Min(S) <= x
<1> DEFINE R == OpToRel(<, Nat)
<1>1. IsWellFoundedOn(R, Nat)
  BY NatLessThanWellFounded
<1>2. \A x, y \in Nat : <<x, y>> \in R <=> x < y
  BY DEF OpToRel
<1> HIDE DEF R
<1>3. PICK m \in S : \A x \in S : ~(<<x, m>> \in R)
  BY <1>1, WFMin
<1>4. \A x \in S : m <= x
  <2> SUFFICES ASSUME NEW x \in S
               PROVE  m <= x
    OBVIOUS
  <2>1. x \in Nat /\ m \in Nat /\ ~(x < m)
    BY <1>2, <1>3
  <2>2. QED
    BY <2>1
<1>5. QED
  BY <1>3, <1>4 DEF Min

LEMMA WithoutMeans ==
  ASSUME NEW s \in Seq(Entry), NEW p, NEW k \in 1..Len(s), s[k].prompt = p,
         \A i \in 1..Len(s) : s[i].prompt = p => i = k
  PROVE  /\ Without(s, p) \in Seq(Entry) /\ Len(Without(s, p)) = Len(s) - 1
         /\ \A i \in 1..Len(s) - 1 : Without(s, p)[i] = s[IF i < k THEN i ELSE i + 1]
<1>1. Len(s) \in Nat /\ \A i \in 1..Len(s) : s[i] \in Entry
  BY LenProperties, ElementOfSeq
<1>2. {i \in 1..Len(s) : s[i].prompt = p} = {k}
  OBVIOUS
<1>3. Min({k}) = k
  BY <1>1 DEF Min
<1> DEFINE a == SubSeq(s, 1, k - 1)
           b == SubSeq(s, k + 1, Len(s))
<1>4. Without(s, p) = a \o b
  BY <1>2, <1>3 DEF Without, RemoveFirstMatch, SelectInSeq, RemoveAt
<1>5. a \in Seq(Entry) /\ Len(a) = k - 1 /\ \A i \in 1..k - 1 : a[i] = s[i]
  BY <1>1, SubSeqProperties
<1>6. b \in Seq(Entry) /\ Len(b) = Len(s) - k /\ \A i \in 1..Len(s) - k : b[i] = s[k + i]
  BY <1>1, SubSeqProperties
<1> HIDE DEF a, b
<1>7. /\ a \o b \in Seq(Entry) /\ Len(a \o b) = Len(s) - 1
      /\ \A i \in 1..Len(s) - 1 : (a \o b)[i] = IF i < k THEN a[i] ELSE b[i - (k - 1)]
  BY <1>1, <1>5, <1>6, ConcatProperties
<1>8. \A i \in 1..Len(s) - 1 : i >= k => b[i - (k - 1)] = s[i + 1]
  <2> SUFFICES ASSUME NEW i \in 1..Len(s) - 1, i >= k
               PROVE  b[i - (k - 1)] = s[i + 1]
    OBVIOUS
  <2>1. i - (k - 1) \in 1..Len(s) - k /\ k + (i - (k - 1)) = i + 1
    BY <1>1
  <2>2. QED
    BY <1>6, <2>1
<1>9. QED
  BY <1>1, <1>4, <1>5, <1>7, <1>8

LEMMA WithoutKeeps ==
  ASSUME NEW s \in Seq(Entry), Distinct(s), NEW p
  PROVE  /\ Without(s, p) \in Seq(Entry) /\ Len(Without(s, p)) <= Len(s) /\ Distinct(Without(s, p))
         /\ \A i \in 1..Len(Without(s, p)) : Without(s, p)[i].prompt # p
<1>1. Len(s) \in Nat /\ DOMAIN s = 1..Len(s)
  BY LenProperties
<1>2. CASE \A i \in 1..Len(s) : s[i].prompt # p
  <2>1. Without(s, p) = s
    BY <1>2 DEF Without, RemoveFirstMatch
  <2>2. QED
    BY <1>1, <1>2, <2>1
<1>3. CASE \E i \in 1..Len(s) : s[i].prompt = p
  <2>1. PICK k \in 1..Len(s) : s[k].prompt = p
    BY <1>3
  <2>2. \A i \in 1..Len(s) : s[i].prompt = p => i = k
    BY <1>1, <2>1 DEF Distinct
  <2> DEFINE u == Without(s, p)
  <2>3. /\ u \in Seq(Entry) /\ Len(u) = Len(s) - 1
        /\ \A i \in 1..Len(s) - 1 : u[i] = s[IF i < k THEN i ELSE i + 1]
    BY <2>1, <2>2, WithoutMeans
  <2> HIDE DEF u
  <2>4. DOMAIN u = 1..Len(s) - 1
    BY <2>3, LenProperties
  <2>5. Distinct(u)
    <3> SUFFICES ASSUME NEW i \in 1..Len(s) - 1, NEW j \in 1..Len(s) - 1, u[i].prompt = u[j].prompt
                 PROVE  i = j
      BY <2>4 DEF Distinct
    <3> DEFINE I == IF i < k THEN i ELSE i + 1
               J == IF j < k THEN j ELSE j + 1
    <3>1. I \in 1..Len(s) /\ J \in 1..Len(s)
      BY <1>1
    <3>2. s[I].prompt = s[J].prompt
      BY <2>3
    <3>3. I = J
      BY <1>1, <3>1, <3>2 DEF Distinct
    <3>4. QED
      BY <1>1, <3>3
  <2>6. \A i \in 1..Len(s) - 1 : u[i].prompt # p
    <3> SUFFICES ASSUME NEW i \in 1..Len(s) - 1
                 PROVE  u[i].prompt # p
      OBVIOUS
    <3> DEFINE I == IF i < k THEN i ELSE i + 1
    <3>1. I \in 1..Len(s) /\ I # k
      BY <1>1
    <3>2. QED
      BY <2>2, <2>3, <3>1
  <2>7. QED
    BY <1>1, <2>3, <2>5, <2>6 DEF u
<1>4. QED
  BY <1>2, <1>3

LEMMA TailKeeps ==
  ASSUME NEW s \in Seq(Entry), Distinct(s), NEW m \in 1..Len(s)
  PROVE  LET t == SubSeq(s, m, Len(s))
         IN t \in Seq(Entry) /\ Len(t) = Len(s) - m + 1 /\ Distinct(t)
<1> DEFINE t == SubSeq(s, m, Len(s))
<1>1. Len(s) \in Nat /\ DOMAIN s = 1..Len(s) /\ \A i \in 1..Len(s) : s[i] \in Entry
  BY LenProperties, ElementOfSeq
<1>2. /\ t \in Seq(Entry) /\ Len(t) = Len(s) - m + 1
      /\ \A i \in 1..Len(s) - m + 1 : t[i] = s[m + i - 1]
  BY <1>1, SubSeqProperties
<1> HIDE DEF t
<1>3. DOMAIN t = 1..Len(s) - m + 1
  BY <1>2, LenProperties
<1>4. Distinct(t)
  <2> SUFFICES ASSUME NEW i \in 1..Len(s) - m + 1, NEW j \in 1..Len(s) - m + 1, t[i].prompt = t[j].prompt
               PROVE  i = j
    BY <1>3 DEF Distinct
  <2>1. m + i - 1 \in 1..Len(s) /\ m + j - 1 \in 1..Len(s)
    BY <1>1
  <2>2. s[m + i - 1].prompt = s[m + j - 1].prompt
    BY <1>2
  <2>3. m + i - 1 = m + j - 1
    BY <1>1, <2>1, <2>2 DEF Distinct
  <2>4. QED
    BY <1>1, <2>3
<1>5. QED
  BY <1>2, <1>4 DEF t

LEMMA StoredKeeps ==
  ASSUME NEW s \in Seq(Entry), Distinct(s), NEW p \in Prompt
  PROVE  LET t == Append(Without(s, p), [prompt |-> p, old |-> FALSE])
         IN t \in Seq(Entry) /\ Len(t) <= Len(s) + 1 /\ Distinct(t)
<1> DEFINE u == Without(s, p)
           e == [prompt |-> p, old |-> FALSE]
           t == Append(u, e)
<1>1. /\ u \in Seq(Entry) /\ Len(u) <= Len(s) /\ Distinct(u) /\ Len(s) \in Nat /\ Len(u) \in Nat
      /\ \A i \in 1..Len(u) : u[i].prompt # p
  BY WithoutKeeps, LenProperties
<1>2. e \in Entry /\ e.prompt = p
  BY DEF Entry
<1> HIDE DEF u, e
<1>3. /\ t \in Seq(Entry) /\ Len(t) = Len(u) + 1 /\ t[Len(u) + 1] = e
      /\ \A i \in 1..Len(u) : t[i] = u[i]
  BY <1>1, <1>2, AppendProperties
<1> HIDE DEF t
<1>4. DOMAIN t = 1..Len(u) + 1 /\ DOMAIN u = 1..Len(u)
  BY <1>1, <1>3, LenProperties
<1>5. Distinct(t)
  <2> SUFFICES ASSUME NEW i \in 1..Len(u) + 1, NEW j \in 1..Len(u) + 1, t[i].prompt = t[j].prompt
               PROVE  i = j
    BY <1>4 DEF Distinct
  <2>1. \A x \in 1..Len(u) + 1 : x \in 1..Len(u) \/ x = Len(u) + 1
    BY <1>1
  <2>2. CASE i \in 1..Len(u) /\ j \in 1..Len(u)
    BY <1>1, <1>3, <1>4, <2>2 DEF Distinct
  <2>3. CASE i = Len(u) + 1 \/ j = Len(u) + 1
    BY <1>1, <1>2, <1>3, <2>1, <2>3
  <2>4. QED
    BY <2>1, <2>2, <2>3
<1>6. QED
  BY <1>1, <1>3, <1>5 DEF t, u, e

LEMMA AgedKeeps ==
  ASSUME NEW s \in Seq(Entry), Distinct(s), NEW k \in 1..Len(s)
  PROVE  LET t == [s EXCEPT ![k].old = TRUE]
         IN t \in Seq(Entry) /\ Len(t) = Len(s) /\ Distinct(t)
<1> DEFINE e == [s[k] EXCEPT !.old = TRUE]
           t == [s EXCEPT ![k] = e]
<1>1. s[k] \in Entry /\ Len(s) \in Nat /\ DOMAIN s = 1..Len(s)
  BY LenProperties, ElementOfSeq
<1>2. e \in Entry /\ e.prompt = s[k].prompt
  BY <1>1 DEF Entry
<1> HIDE DEF e
<1>3. /\ t \in Seq(Entry) /\ Len(t) = Len(s)
      /\ \A j \in 1..Len(s) : t[j] = IF j = k THEN e ELSE s[j]
  BY <1>2, ExceptSeq
<1> HIDE DEF t
<1>4. DOMAIN t = 1..Len(s) /\ \A j \in 1..Len(s) : t[j].prompt = s[j].prompt
  BY <1>2, <1>3, LenProperties
<1>5. Distinct(t)
  BY <1>1, <1>4 DEF Distinct
<1>6. QED
  BY <1>3, <1>5 DEF t, e

-----------------------------------------------------------------------------
(* The steps of the answers.                                               *)

Pcs == {"gone", "look", "drop", "similar", "budget", "route", "call", "downgraded",
        "store", "charge", "answered", "rejected"}

LEMMA GoneIsAPlace == Gone \in Place /\ Gone.pc = "gone"
<1>1. (CHOOSE p \in Prompt : TRUE) \in Prompt
  BY AnswerAssumption
<1>2. QED
  BY <1>1 DEF Gone, Place

\* A request's move is to another place, given by its name or by naming it anew.
Move(r) == \E a \in Place : ans' = [ans EXCEPT ![r] = a]

LEMMA StepsMoves ==
  ASSUME ans \in [Request -> Place], NEW r \in Request, NEW pc \in Pcs, Steps(r, pc) \/ Ends(r, pc)
  PROVE  Move(r) /\ ans'[r].pc = pc
<1>1. CASE Steps(r, pc)
  <2> DEFINE a == [ans[r] EXCEPT !.pc = pc]
  <2>1. a \in Place /\ a.pc = pc
    BY DEF Place, Pcs
  <2>2. ans' = [ans EXCEPT ![r] = a]
    BY <1>1 DEF Steps
  <2> HIDE DEF a
  <2>3. QED
    BY <2>1, <2>2 DEF Move
<1>2. CASE Ends(r, pc)
  <2> DEFINE a == [Gone EXCEPT !.pc = pc]
  <2>1. a \in Place /\ a.pc = pc
    BY GoneIsAPlace DEF Place, Pcs, Gone
  <2>2. ans' = [ans EXCEPT ![r] = a]
    BY <1>2 DEF Ends
  <2> HIDE DEF a
  <2>3. QED
    BY <2>1, <2>2 DEF Move
<1>3. QED
  BY <1>1, <1>2

\* And so is a request's that goes on with what was found of its budget noted.
LEMMA NotedMoves ==
  ASSUME ans \in [Request -> Place], NEW r \in Request, NEW pc \in Pcs, NEW over \in {"no"} \cup Action,
         ans' = [ans EXCEPT ![r] = [@ EXCEPT !.pc = pc, !.over = over]]
  PROVE  Move(r) /\ ans'[r].pc = pc /\ ans'[r].over = over
<1> DEFINE a == [ans[r] EXCEPT !.pc = pc, !.over = over]
<1>1. a \in Place /\ a.pc = pc /\ a.over = over
  BY DEF Place, Pcs
<1>2. ans' = [ans EXCEPT ![r] = a]
  OBVIOUS
<1> HIDE DEF a
<1>3. QED
  BY <1>1, <1>2 DEF Move

LEMMA EveryStepMoves ==
  ASSUME AnswersInv, NEW r \in Request, EnterAnswers(r) \/ AnswerStep(r)
  PROVE  Move(r)
<1>1. ans \in [Request -> Place] /\ action \in Action
  BY DEF AnswersInv, Money
<1>2. CASE EnterAnswers(r)
  <2>1. \A p \in Prompt : [Gone EXCEPT !.pc = "look", !.prompt = p, !.stores = TRUE] \in Place
    BY GoneIsAPlace DEF Place
  <2>2. [Gone EXCEPT !.pc = "budget"] \in Place
    BY GoneIsAPlace DEF Place
  <2>3. QED
    BY <1>2, <2>1, <2>2 DEF EnterAnswers, Move
<1>3. CASE LeaveAnswers(r)
  BY <1>3, GoneIsAPlace DEF LeaveAnswers, Move
<1>4. CASE \E pc \in Pcs : Steps(r, pc) \/ Ends(r, pc)
  BY <1>1, <1>4, StepsMoves
<1>5. CASE \E pc \in Pcs, over \in {"no"} \cup Action :
             ans' = [ans EXCEPT ![r] = [@ EXCEPT !.pc = pc, !.over = over]]
  BY <1>1, <1>5, NotedMoves
<1>6. CASE LookInCache(r)
  BY <1>4, <1>6 DEF LookInCache, Pcs
<1>7. CASE DropExpired(r)
  BY <1>4, <1>7 DEF DropExpired, Pcs
<1>8. CASE LookForSimilar(r)
  BY <1>4, <1>8 DEF LookForSimilar, Pcs
<1>9. CASE CheckBudget(r)
  <2>1. CASE Ends(r, "rejected")
    BY <1>4, <2>1 DEF Pcs
  <2>2. CASE GoesOn(r, "no") \/ GoesOn(r, action)
    BY <1>1, <1>5, <2>2 DEF GoesOn, Pcs
  <2>3. QED
    BY <1>9, <2>1, <2>2 DEF CheckBudget, Verdict
<1>10. CASE RouteRequest(r)
  <2>1. CASE Ends(r, "answered") \/ Ends(r, "call")
    BY <1>4, <2>1 DEF Pcs
  <2>2. CASE \E pc \in {"call", "downgraded"} :
               ans' = [ans EXCEPT ![r] = [@ EXCEPT !.pc = pc, !.over = "no"]]
    BY <1>5, <2>2 DEF Pcs
  <2>3. QED
    BY <1>10, <2>1, <2>2 DEF RouteRequest
<1>11. CASE CallBackend(r)
  BY <1>4, <1>11 DEF CallBackend, Pcs
<1>12. CASE StoreAnswer(r)
  BY <1>4, <1>12 DEF StoreAnswer, Pcs
<1>13. CASE Charge(r)
  BY <1>4, <1>13 DEF Charge, Pcs
<1>14. QED
  BY <1>2, <1>3, <1>6, <1>7, <1>8, <1>9, <1>10, <1>11, <1>12, <1>13 DEF AnswerStep

LEMMA MovesKeep ==
  ASSUME ans \in [Request -> Place], NEW r \in Request, Move(r)
  PROVE  ans' \in [Request -> Place] /\ \A q \in Request \ {r} : ans'[q] = ans[q]
BY DEF Move

\* Where the requests are stays well typed, and one request's step is its own.
LEMMA PlacesTyped ==
  ASSUME AnswersInv, NEW r \in Request, EnterAnswers(r) \/ AnswerStep(r)
  PROVE  ans' \in [Request -> Place] /\ \A q \in Request \ {r} : ans'[q] = ans[q]
BY EveryStepMoves, MovesKeep DEF AnswersInv

LEMMA CacheSame ==
  ASSUME AnswersInv, UNCHANGED caches
  PROVE  Cache'
BY DEF AnswersInv, Cache, caches, Distinct

LEMMA MoneySame ==
  ASSUME AnswersInv, UNCHANGED money
  PROVE  Money'
BY DEF AnswersInv, Money, money

LEMMA DropExpiredKeeps ==
  ASSUME AnswersInv, NEW r \in Request, DropExpired(r)
  PROVE  Cache' /\ Money'
<1>1. Money'
  BY MoneySame DEF DropExpired
<1>2. cache \in Seq(Entry) /\ Distinct(cache) /\ Len(cache) <= CacheSize /\ semantic \subseteq Prompt
  BY DEF AnswersInv, Cache
<1>3. cache' = Without(cache, ans[r].prompt) /\ semantic' = semantic
  BY DEF DropExpired
<1> DEFINE u == Without(cache, ans[r].prompt)
<1>4. u \in Seq(Entry) /\ Len(u) <= Len(cache) /\ Distinct(u)
  BY <1>2, WithoutKeeps
<1> HIDE DEF u
<1>5. Len(u) <= CacheSize
  BY <1>2, <1>4, LenProperties, AnswerAssumption
<1>6. Cache'
  BY <1>2, <1>3, <1>4, <1>5 DEF Cache, Distinct, u
<1>7. QED
  BY <1>1, <1>6

LEMMA StoreAnswerKeeps ==
  ASSUME AnswersInv, NEW r \in Request, StoreAnswer(r)
  PROVE  Cache' /\ Money'
<1> DEFINE p == ans[r].prompt
           room == IF Len(cache) >= CacheSize /\ cache # <<>> THEN Tail(cache) ELSE cache
           t == Append(Without(room, p), [prompt |-> p, old |-> FALSE])
<1>1. Money'
  BY MoneySame DEF StoreAnswer
<1>2. /\ cache \in Seq(Entry) /\ Distinct(cache) /\ Len(cache) <= CacheSize /\ Len(cache) \in Nat
      /\ CacheSize \in Nat /\ semantic \subseteq Prompt /\ p \in Prompt
  BY LenProperties, AnswerAssumption DEF AnswersInv, Cache, Place
<1>3. semantic' \subseteq Prompt
  BY <1>2 DEF StoreAnswer
<1>4. cache' = IF CacheSize = 0 THEN cache ELSE t
  BY DEF StoreAnswer
<1>5. CASE CacheSize = 0
  BY <1>1, <1>2, <1>3, <1>4, <1>5 DEF Cache, Distinct
<1>6. CASE CacheSize # 0
  <2>1. room \in Seq(Entry) /\ Distinct(room) /\ Len(room) <= CacheSize - 1
    <3>1. CASE Len(cache) >= CacheSize /\ cache # <<>>
      <4>1. Len(cache) > 0
        BY <1>2, <1>6, <3>1
      <4>2. room = SubSeq(cache, 2, Len(cache))
        BY <1>2, <3>1, TailIsSubSeq
      <4>3. CASE Len(cache) = 1
        <5>1. room = <<>>
          BY <4>2, <4>3, SubSeqEmpty
        <5>2. <<>> \in Seq(Entry) /\ Len(<<>>) = 0 /\ Distinct(<<>>)
          BY EmptySeq DEF Distinct
        <5> HIDE DEF room
        <5>3. 0 <= CacheSize - 1
          BY <1>2, <1>6
        <5>4. QED
          BY <5>1, <5>2, <5>3
      <4>4. CASE Len(cache) # 1
        <5>0. \A n \in Nat : n > 0 /\ n # 1 => 2 \in 1..n
          OBVIOUS
        <5>1. 2 \in 1..Len(cache)
          BY ONLY <1>2, <4>1, <4>4, <5>0
        <5>2. room \in Seq(Entry) /\ Len(room) = Len(cache) - 2 + 1 /\ Distinct(room)
          BY <1>2, <4>2, <5>1, TailKeeps
        <5>3. QED
          BY <1>2, <5>2
      <4>5. QED
        BY <4>3, <4>4
    <3>2. CASE cache = <<>> /\ Len(cache) >= CacheSize
      <4>1. Len(cache) = 0
        BY <3>2, EmptySeq
      <4>2. QED
        BY <1>2, <1>6, <3>2, <4>1
    <3>3. CASE ~(Len(cache) >= CacheSize)
      BY <1>2, <3>3
    <3>4. QED
      BY <3>1, <3>2, <3>3
  <2> HIDE DEF room, p
  <2>2. t \in Seq(Entry) /\ Len(t) <= Len(room) + 1 /\ Distinct(t)
    BY <1>2, <2>1, StoredKeeps
  <2> HIDE DEF t
  <2>3. Len(t) <= CacheSize
    BY <1>2, <2>1, <2>2, LenProperties
  <2>4. cache' = t
    BY <1>4, <1>6
  <2>5. QED
    BY <1>1, <1>3, <2>2, <2>3, <2>4 DEF Cache, Distinct
<1>7. QED
  BY <1>5, <1>6

LEMMA AgeCacheKeeps ==
  ASSUME AnswersInv, AgeCache
  PROVE  AnswersInv'
<1>1. Money' /\ ans' \in [Request -> Place]
  BY MoneySame DEF AgeCache, AnswersInv
<1>2. /\ cache \in Seq(Entry) /\ Distinct(cache) /\ Len(cache) <= CacheSize /\ Len(cache) \in Nat
      /\ CacheSize \in Nat /\ semantic \subseteq Prompt /\ DOMAIN cache = 1..Len(cache)
  BY LenProperties, AnswerAssumption DEF AnswersInv, Cache
<1>3. ASSUME NEW t, t \in Seq(Entry), Distinct(t), Len(t) <= Len(cache), cache' = t
      PROVE  Cache'
  <2>1. Len(t) <= CacheSize
    BY <1>2, <1>3, LenProperties
  <2>2. semantic' = semantic
    BY DEF AgeCache
  <2>3. QED
    BY <1>2, <1>3, <2>1, <2>2 DEF Cache, Distinct
<1>4. CASE \E i \in DOMAIN cache : cache' = [cache EXCEPT ![i].old = TRUE]
  <2>1. PICK i \in 1..Len(cache) : cache' = [cache EXCEPT ![i].old = TRUE]
    BY <1>2, <1>4
  <2> DEFINE t == [cache EXCEPT ![i].old = TRUE]
  <2>2. t \in Seq(Entry) /\ Len(t) = Len(cache) /\ Distinct(t)
    BY <1>2, AgedKeeps
  <2>3. cache' = t
    BY <2>1
  <2> HIDE DEF t
  <2>4. Cache'
    BY <1>2, <1>3, <2>2, <2>3
  <2>5. QED
    BY <1>1, <2>4 DEF AnswersInv
<1>5. CASE cache' = LET young == {i \in DOMAIN cache : ~cache[i].old}
                    IN IF young = {} THEN <<>> ELSE SubSeq(cache, Min(young), Len(cache))
  <2> DEFINE young == {i \in DOMAIN cache : ~cache[i].old}
             m == Min(young)
  <2>1. CASE young = {}
    <3>1. <<>> \in Seq(Entry) /\ Len(<<>>) = 0 /\ Distinct(<<>>)
      BY EmptySeq DEF Distinct
    <3>2. cache' = <<>>
      BY <1>5, <2>1
    <3> DEFINE t == <<>>
    <3>3. t \in Seq(Entry) /\ Distinct(t) /\ Len(t) <= Len(cache) /\ cache' = t
      BY <1>2, <3>1, <3>2
    <3> HIDE DEF t
    <3>4. Cache'
      BY <1>3, <3>3
    <3>5. QED
      BY <1>1, <3>4 DEF AnswersInv
  <2>2. CASE young # {}
    <3>1. m \in 1..Len(cache)
      <4>1. young \in SUBSET Nat /\ young \subseteq 1..Len(cache)
        BY <1>2
      <4> HIDE DEF young
      <4>2. QED
        BY <2>2, <4>1, LeastOf
    <3>2. cache' = SubSeq(cache, m, Len(cache))
      BY <1>5, <2>2
    <3> HIDE DEF m, young
    <3> DEFINE t == SubSeq(cache, m, Len(cache))
    <3>3. t \in Seq(Entry) /\ Len(t) = Len(cache) - m + 1 /\ Distinct(t)
      BY <1>2, <3>1, TailKeeps
    <3> HIDE DEF t
    <3>4. Len(t) <= Len(cache)
      BY <1>2, <3>1, <3>3
    <3>5. Cache'
      BY <1>3, <3>2, <3>3, <3>4 DEF t
    <3>6. QED
      BY <1>1, <3>5 DEF AnswersInv
  <2>3. QED
    BY <2>1, <2>2
<1>6. QED
  BY <1>4, <1>5 DEF AgeCache

LEMMA CheckBudgetKeeps ==
  ASSUME AnswersInv, NEW r \in Request, CheckBudget(r)
  PROVE  Cache' /\ Money' /\ (spent' < limit => today - slack < limit) /\ (spent' >= limit => today >= limit)
<1>1. Cache'
  BY CacheSame DEF CheckBudget
<1>2. /\ limit \in DailyLimit /\ limit \in Nat /\ action \in Action /\ dated \in BOOLEAN
      /\ spent \in Nat /\ MaxToday \in Nat /\ today \in 0..MaxToday /\ slack \in 0..today
  BY AnswerAssumption DEF AnswersInv, Money
<1>3. IF dated THEN spent + slack = today ELSE slack = today
  BY DEF AnswersInv, Money
<1>4. /\ spent' = IF dated THEN spent ELSE 0
      /\ dated' = TRUE /\ limit' = limit /\ action' = action /\ today' = today /\ slack' = slack
      /\ loose' \in BOOLEAN
  BY DEF CheckBudget, Verdict, AnswersInv, Money
<1>5. spent' \in Nat /\ spent' + slack = today
  BY <1>2, <1>3, <1>4
<1>6. Money'
  BY <1>2, <1>4, <1>5 DEF Money
<1>7. slack \in Nat /\ today \in Nat
  BY <1>2
<1>8. (spent' < limit => today - slack < limit) /\ (spent' >= limit => today >= limit)
  <2>1. \A a, b, c, d \in Nat : a + b = c => (a < d => c - b < d) /\ (a >= d => c >= d)
    OBVIOUS
  <2>2. QED
    BY <1>2, <1>5, <1>7, <2>1
<1>9. QED
  BY <1>1, <1>6, <1>8

LEMMA ChargeKeeps ==
  ASSUME AnswersInv, NEW r \in Request, Charge(r)
  PROVE  Cache' /\ Money'
<1>1. Cache'
  BY CacheSame DEF Charge
<1>2. CASE UNCHANGED money
  BY <1>1, <1>2, MoneySame
<1>3. CASE /\ today < MaxToday
           /\ spent' = spent + 1 /\ today' = today + 1
           /\ slack' = IF dated THEN slack ELSE slack + 1
           /\ UNCHANGED <<limit, action, dated, loose>>
  <2>1. /\ limit \in DailyLimit /\ action \in Action /\ dated \in BOOLEAN /\ loose \in BOOLEAN
        /\ spent \in Nat /\ MaxToday \in Nat /\ today \in 0..MaxToday /\ slack \in 0..today
    BY AnswerAssumption DEF AnswersInv, Money
  <2>2. IF dated THEN spent + slack = today ELSE slack = today
    BY DEF AnswersInv, Money
  <2>3. /\ today' \in 0..MaxToday /\ slack' \in 0..today' /\ spent' \in Nat
    BY <1>3, <2>1
  <2>4. IF dated THEN spent' + slack' = today' ELSE slack' = today'
    BY <1>3, <2>1, <2>2
  <2>5. Money'
    BY <1>3, <2>1, <2>3, <2>4 DEF Money
  <2>6. QED
    BY <1>1, <2>5
<1>4. QED
  BY <1>2, <1>3 DEF Charge

LEMMA AnswersStepKeeps ==
  ASSUME AnswersInv, NEW r \in Request, EnterAnswers(r) \/ AnswerStep(r)
  PROVE  AnswersInv'
<1>1. ans' \in [Request -> Place]
  BY PlacesTyped
<1>2. CASE UNCHANGED <<caches, money>>
  BY <1>1, <1>2, CacheSame, MoneySame DEF AnswersInv
<1>3. CASE DropExpired(r)
  BY <1>1, <1>3, DropExpiredKeeps DEF AnswersInv
<1>4. CASE CheckBudget(r)
  BY <1>1, <1>4, CheckBudgetKeeps DEF AnswersInv
<1>5. CASE StoreAnswer(r)
  BY <1>1, <1>5, StoreAnswerKeeps DEF AnswersInv
<1>6. CASE Charge(r)
  BY <1>1, <1>6, ChargeKeeps DEF AnswersInv
<1>7. (\/ EnterAnswers(r) \/ LookInCache(r) \/ LookForSimilar(r) \/ RouteRequest(r)
       \/ CallBackend(r) \/ LeaveAnswers(r))
        => UNCHANGED <<caches, money>>
  BY DEF EnterAnswers, LookInCache, LookForSimilar, RouteRequest, CallBackend, LeaveAnswers
<1>8. QED
  BY <1>2, <1>3, <1>4, <1>5, <1>6, <1>7 DEF AnswerStep

LEMMA MidnightKeeps ==
  ASSUME AnswersInv, Midnight \/ ReloadBudgets
  PROVE  AnswersInv'
<1>1. Cache' /\ ans' \in [Request -> Place]
  BY CacheSame DEF Midnight, ReloadBudgets, AnswersInv
<1>2. /\ limit \in DailyLimit /\ action \in Action /\ dated \in BOOLEAN /\ spent \in Nat
      /\ MaxToday \in Nat /\ today \in 0..MaxToday /\ slack \in 0..today
      /\ IF dated THEN spent + slack = today ELSE slack = today
  BY AnswerAssumption DEF AnswersInv, Money
<1>3. CASE Midnight
  <2>1. 0 \in 0..MaxToday /\ 0 \in 0..0
    BY <1>2
  <2>2. /\ dated' = FALSE /\ today' = 0 /\ slack' = 0 /\ limit' = limit /\ spent' = spent
        /\ action' = action /\ loose' = FALSE
    BY <1>3 DEF Midnight
  <2>3. Money'
    BY <1>2, <2>1, <2>2 DEF Money
  <2>4. QED
    BY <1>1, <2>3 DEF AnswersInv
<1>4. CASE ReloadBudgets
  <2>1. /\ limit' \in DailyLimit /\ action' \in Action /\ loose' = TRUE
        /\ spent' = spent /\ dated' = dated /\ today' = today /\ slack' = slack
    BY <1>4 DEF ReloadBudgets
  <2>2. Money'
    BY <1>2, <2>1 DEF Money
  <2>3. QED
    BY <1>1, <2>2 DEF AnswersInv
<1>5. QED
  BY <1>3, <1>4

LEMMA EmptyCache ==
  ASSUME NEW s, s = <<>>
  PROVE  s \in Seq(Entry) /\ Len(s) <= CacheSize /\ Distinct(s)
<1>1. <<>> \in Seq(Entry) /\ Len(<<>>) = 0 /\ Distinct(<<>>)
  BY EmptySeq DEF Distinct
<1>2. QED
  BY <1>1, AnswerAssumption

LEMMA RestartKeeps ==
  ASSUME AnswersInv, RestartAnswers
  PROVE  AnswersInv'
<1>1. PICK n \in 0..today : spent' = n /\ slack' = today - n
  BY DEF RestartAnswers
<1>2. /\ dated' = TRUE /\ cache' = <<>> /\ ans' = [r \in Request |-> Gone]
      /\ semantic' = semantic /\ limit' = limit /\ action' = action /\ today' = today
      /\ loose' = (loose \/ slack > 0)
  BY DEF RestartAnswers
<1>3. Cache'
  BY <1>2, EmptyCache DEF AnswersInv, Cache, Distinct
<1>4. Money'
  <2>1. /\ limit \in DailyLimit /\ action \in Action /\ loose' \in BOOLEAN
        /\ today \in 0..MaxToday /\ MaxToday \in Nat
    BY <1>2, AnswerAssumption DEF AnswersInv, Money
  <2>2. n \in Nat /\ today - n \in 0..today /\ n + (today - n) = today
    BY <2>1
  <2>3. QED
    BY <1>1, <1>2, <2>1, <2>2 DEF Money
<1>5. ans' \in [Request -> Place]
  BY <1>2, GoneIsAPlace
<1>6. QED
  BY <1>3, <1>4, <1>5 DEF AnswersInv

LEMMA AnswersInitially == AnswersInit => AnswersInv
<1> SUFFICES ASSUME AnswersInit
             PROVE  AnswersInv
  OBVIOUS
<1>1. Cache
  BY EmptyCache DEF AnswersInit, Cache
<1>2. Money
  <2>1. 0 \in 0..MaxToday /\ 0 \in 0..0 /\ 0 \in Nat /\ 0 + 0 = 0
    BY AnswerAssumption
  <2>2. QED
    BY <2>1 DEF AnswersInit, Money
<1>3. ans \in [Request -> Place]
  BY GoneIsAPlace DEF AnswersInit
<1>4. QED
  BY <1>1, <1>2, <1>3 DEF AnswersInv

LEMMA AnswersTyped == AnswersInv => AnswersTypeOK
BY DEF AnswersInv, Cache, Money, Entry, Distinct, Place, AnswersTypeOK

\* What BudgetHonest says of a request's step past the check of the budget.
Honest(r) ==
  /\ ans'[r].pc = "rejected" => today >= limit /\ action = "reject"
  /\ ans'[r].pc = "route" =>
       IF ans'[r].over = "no" THEN today - slack < limit ELSE today >= limit /\ action # "reject"

\* A step past the check of the budget is that check, and it is honest.
LEMMA HonestStep ==
  ASSUME AnswersInv, StepInAnswers, NEW r \in Request, ans[r].pc = "budget"
  PROVE  Honest(r)
<1>1. ans \in [Request -> Place] /\ action \in Action
  BY DEF AnswersInv, Money
<1>2. CASE \E q \in Request : q # r /\ (EnterAnswers(q) \/ AnswerStep(q))
  <2>1. ans'[r] = ans[r]
    BY <1>2, PlacesTyped
  <2>2. QED
    BY <2>1 DEF Honest
<1>3. CASE EnterAnswers(r) \/ AnswerStep(r)
  <2>1. CheckBudget(r)
    BY <1>3 DEF EnterAnswers, AnswerStep, LookInCache, DropExpired, LookForSimilar, RouteRequest,
         CallBackend, StoreAnswer, Charge, LeaveAnswers
  <2>2. (spent' < limit => today - slack < limit) /\ (spent' >= limit => today >= limit)
    BY <2>1, CheckBudgetKeeps
  <2>3. CASE spent' < limit /\ GoesOn(r, "no")
    <3>1. ans'[r].pc = "route" /\ ans'[r].over = "no"
      BY <1>1, <2>3, NotedMoves DEF GoesOn, Pcs
    <3>2. QED
      BY <2>2, <2>3, <3>1 DEF Honest
  <2>4. CASE spent' >= limit /\ action = "reject" /\ Ends(r, "rejected")
    <3>1. ans'[r].pc = "rejected"
      BY <1>1, <2>4, StepsMoves DEF Pcs
    <3>2. QED
      BY <2>2, <2>4, <3>1 DEF Honest
  <2>5. CASE spent' >= limit /\ action # "reject" /\ GoesOn(r, action)
    <3>1. ans'[r].pc = "route" /\ ans'[r].over = action
      BY <1>1, <2>5, NotedMoves DEF GoesOn, Pcs
    <3>2. action # "no"
      BY <1>1 DEF Action
    <3>3. QED
      BY <2>2, <2>5, <3>1, <3>2 DEF Honest
  <2>6. QED
    BY <2>1, <2>3, <2>4, <2>5 DEF CheckBudget, Verdict
<1>4. CASE AgeCache \/ Midnight \/ ReloadBudgets
  <2>1. ans' = ans
    BY <1>4 DEF AgeCache, Midnight, ReloadBudgets
  <2>2. QED
    BY <2>1 DEF Honest
<1>5. CASE RestartAnswers
  <2>1. ans'[r].pc = "gone"
    BY <1>5, GoneIsAPlace DEF RestartAnswers
  <2>2. QED
    BY <2>1 DEF Honest
<1>6. QED
  BY <1>2, <1>3, <1>4, <1>5 DEF StepInAnswers

LEMMA AnswersNext == AnswersInv /\ [Next]_vars => AnswersInv'
<1> SUFFICES ASSUME AnswersInv, [Next]_vars
             PROVE  AnswersInv'
  OBVIOUS
<1>1. CASE UNCHANGED answers
  <2>1. UNCHANGED caches /\ UNCHANGED money /\ ans' = ans
    BY <1>1 DEF answers, caches, money
  <2>2. QED
    BY <2>1, CacheSame, MoneySame DEF AnswersInv
<1>2. CASE StepInAnswers
  BY <1>2, AnswersStepKeeps, AgeCacheKeeps, MidnightKeeps, RestartKeeps DEF StepInAnswers
<1>3. CASE StepInLimits \/ StepInSessions \/ Sweep
  BY <1>1, <1>3 DEF StepInLimits, StepInSessions, Sweep
<1>4. QED
  BY <1>1, <1>2, <1>3 DEF Next, vars

-----------------------------------------------------------------------------
(* The overdraft.                                                          *)

Working == {"route", "call", "downgraded", "store", "charge"}

\* The requests at work are finitely many, and no more than there are.
LEMMA UnchargedCount ==
  /\ IsFiniteSet(Uncharged) /\ Cardinality(Uncharged) \in Nat
  /\ Cardinality(Uncharged) <= Cardinality(Request) /\ Cardinality(Request) \in Nat
<1>1. Uncharged \subseteq Request
  BY DEF Uncharged
<1>2. QED
  BY <1>1, RequestAssumption, FS_Subset, FS_CardinalityType

LEMMA UnchargedCountNext ==
  /\ IsFiniteSet(Uncharged') /\ Cardinality(Uncharged') \in Nat
  /\ Cardinality(Uncharged') <= Cardinality(Request)
<1>1. Uncharged' \subseteq Request
  BY DEF Uncharged
<1>2. QED
  BY <1>1, RequestAssumption, FS_Subset, FS_CardinalityType

LEMMA FewerUncharged ==
  ASSUME Uncharged' \subseteq Uncharged
  PROVE  Cardinality(Uncharged') <= Cardinality(Uncharged)
BY UnchargedCount, FS_Subset

\* A request at work that is not any longer makes one less.
LEMMA OneLessUncharged ==
  ASSUME NEW r \in Uncharged, Uncharged' \subseteq Uncharged \ {r}
  PROVE  Cardinality(Uncharged') + 1 <= Cardinality(Uncharged)
<1>1. IsFiniteSet(Uncharged \ {r}) /\ Cardinality(Uncharged \ {r}) = Cardinality(Uncharged) - 1
  BY UnchargedCount, FS_RemoveElement
<1>2. Cardinality(Uncharged') <= Cardinality(Uncharged \ {r})
  BY <1>1, FS_Subset
<1>3. QED
  BY <1>1, <1>2, UnchargedCount, UnchargedCountNext

\* Whoever is at work after another's step was so before.
LEMMA OthersUncharged ==
  ASSUME NEW r \in Request, \A q \in Request \ {r} : ans'[q] = ans[q]
  PROVE  Uncharged' \ {r} \subseteq Uncharged
BY DEF Uncharged

LEMMA Figures ==
  AnswersInv => /\ limit \in Nat /\ today \in Nat /\ slack \in Nat /\ slack <= today
                /\ loose \in BOOLEAN
<1> SUFFICES ASSUME AnswersInv
             PROVE  /\ limit \in Nat /\ today \in Nat /\ slack \in Nat /\ slack <= today
                    /\ loose \in BOOLEAN
  OBVIOUS
<1>1. /\ limit \in DailyLimit /\ today \in 0..MaxToday /\ slack \in 0..today /\ MaxToday \in Nat
      /\ loose \in BOOLEAN /\ DailyLimit \subseteq Nat
  BY AnswerAssumption DEF AnswersInv, Money
<1>2. QED
  BY <1>1

\* No more is overdrawn with fewer at work and the same sums.
LEMMA OverdrawnSame ==
  ASSUME AnswersInv, Overdrawn, UNCHANGED money, Uncharged' \subseteq Uncharged
  PROVE  Overdrawn'
<1>1. limit' = limit /\ loose' = loose /\ today' = today /\ slack' = slack
  BY DEF money
<1>2. CASE limit > 0 /\ ~loose
  <2>1. today - slack + Cardinality(Uncharged) < limit + Cardinality(Request)
    BY <1>2 DEF Overdrawn
  <2>2. today - slack + Cardinality(Uncharged') < limit + Cardinality(Request)
    BY <2>1, Figures, UnchargedCount, UnchargedCountNext, FewerUncharged
  <2>3. QED
    BY <1>1, <2>2 DEF Overdrawn
<1>3. QED
  BY <1>1, <1>2 DEF Overdrawn

LEMMA CheckBudgetOverdraws ==
  ASSUME AnswersInv, Overdrawn, NEW r \in Request, CheckBudget(r)
  PROVE  Overdrawn'
<1>1. limit' = limit /\ today' = today /\ slack' = slack
  BY DEF CheckBudget
<1>2. ans \in [Request -> Place]
  BY DEF AnswersInv
<1>3. CASE spent' < limit /\ loose' = loose
  <2>1. today - slack < limit
    BY <1>3, CheckBudgetKeeps
  <2>2. today - slack + Cardinality(Uncharged') < limit + Cardinality(Request)
    BY <2>1, Figures, UnchargedCount, UnchargedCountNext
  <2>3. QED
    BY <1>1, <2>2 DEF Overdrawn
<1>4. CASE Ends(r, "rejected") /\ loose' = loose
  <2>1. ans'[r].pc = "rejected" /\ Move(r)
    BY <1>2, <1>4, StepsMoves DEF Pcs
  <2>2. Uncharged' \subseteq Uncharged
    BY <1>2, <2>1, MovesKeep DEF Uncharged
  <2>3. CASE limit > 0 /\ ~loose
    <3>1. today - slack + Cardinality(Uncharged) < limit + Cardinality(Request)
      BY <2>3 DEF Overdrawn
    <3>2. today - slack + Cardinality(Uncharged') < limit + Cardinality(Request)
      BY <2>2, <3>1, Figures, UnchargedCount, UnchargedCountNext, FewerUncharged
    <3>3. QED
      BY <1>1, <3>2 DEF Overdrawn
  <2>4. QED
    BY <1>1, <1>4, <2>3 DEF Overdrawn
<1>5. CASE loose' = TRUE
  BY <1>5 DEF Overdrawn
<1>6. QED
  BY <1>3, <1>4, <1>5 DEF CheckBudget, Verdict

LEMMA ChargeOverdraws ==
  ASSUME AnswersInv, Overdrawn, NEW r \in Request, Charge(r)
  PROVE  Overdrawn'
<1>1. ans \in [Request -> Place]
  BY DEF AnswersInv
<1>2. Move(r) /\ ans'[r].pc = "answered"
  BY <1>1, StepsMoves DEF Charge, Pcs
<1>3. r \in Uncharged /\ Uncharged' \subseteq Uncharged \ {r}
  BY <1>1, <1>2, MovesKeep DEF Charge, Uncharged
<1>4. CASE UNCHANGED money
  BY <1>3, <1>4, OverdrawnSame
<1>5. CASE /\ today' = today + 1 /\ slack' = IF dated THEN slack ELSE slack + 1
           /\ UNCHANGED <<limit, action, dated, loose>>
  <2>1. CASE limit > 0 /\ ~loose
    <3>1. today - slack + Cardinality(Uncharged) < limit + Cardinality(Request)
      BY <2>1 DEF Overdrawn
    <3>2. Cardinality(Uncharged') + 1 <= Cardinality(Uncharged)
      BY <1>3, OneLessUncharged
    <3>3. slack' \in Nat /\ slack <= slack' /\ today' = today + 1
      BY <1>5, Figures
    <3>4. today' - slack' + Cardinality(Uncharged') < limit + Cardinality(Request)
      BY <3>1, <3>2, <3>3, Figures, UnchargedCount, UnchargedCountNext
    <3>5. QED
      BY <1>5, <3>4 DEF Overdrawn
  <2>2. QED
    BY <1>5, <2>1 DEF Overdrawn
<1>6. QED
  BY <1>4, <1>5 DEF Charge

\* The other steps of a request leave the sums, and put no one to work.
LEMMA StepOverdraws ==
  ASSUME AnswersInv, Overdrawn, NEW r \in Request, EnterAnswers(r) \/ AnswerStep(r)
  PROVE  Overdrawn'
<1>1. /\ ans \in [Request -> Place] /\ ans' \in [Request -> Place]
      /\ \A q \in Request \ {r} : ans'[q] = ans[q]
  BY PlacesTyped DEF AnswersInv
<1>2. Uncharged' \ {r} \subseteq Uncharged
  BY <1>1, OthersUncharged
<1>3. CASE UNCHANGED money /\ ans[r].pc \in Working
  <2>1. r \in Uncharged
    BY <1>3 DEF Uncharged, Working
  <2>2. Uncharged' \subseteq Uncharged
    BY <1>2, <2>1
  <2>3. QED
    BY <1>3, <2>2, OverdrawnSame
<1>4. CASE UNCHANGED money /\ ans'[r].pc \notin Working
  <2>1. r \notin Uncharged'
    BY <1>4 DEF Uncharged, Working
  <2>2. Uncharged' \subseteq Uncharged
    BY <1>2, <2>1
  <2>3. QED
    BY <1>4, <2>2, OverdrawnSame
<1>5. CASE CheckBudget(r)
  BY <1>5, CheckBudgetOverdraws
<1>6. CASE Charge(r)
  BY <1>6, ChargeOverdraws
<1>7. CASE RouteRequest(r) \/ CallBackend(r) \/ StoreAnswer(r)
  <2>1. UNCHANGED money /\ ans[r].pc \in Working
    BY <1>7 DEF RouteRequest, CallBackend, StoreAnswer, Working
  <2>2. QED
    BY <1>3, <2>1
<1>8. CASE EnterAnswers(r)
  <2>1. UNCHANGED money /\ ans'[r].pc \in {"look", "budget"}
    BY <1>1, <1>8 DEF EnterAnswers, Gone
  <2>2. QED
    BY <1>4, <2>1 DEF Working
<1>9. CASE LeaveAnswers(r)
  <2>1. UNCHANGED money /\ ans'[r].pc = "gone"
    BY <1>1, <1>9, GoneIsAPlace DEF LeaveAnswers
  <2>2. QED
    BY <1>4, <2>1 DEF Working
<1>10. CASE LookInCache(r) \/ DropExpired(r) \/ LookForSimilar(r)
  <2>1. \E pc \in {"similar", "drop", "answered", "budget"} : Steps(r, pc) \/ Ends(r, pc)
    BY <1>10 DEF LookInCache, DropExpired, LookForSimilar
  <2>2. ans'[r].pc \notin Working
    BY <1>1, <2>1, StepsMoves DEF Pcs, Working
  <2>3. UNCHANGED money
    BY <1>10 DEF LookInCache, DropExpired, LookForSimilar
  <2>4. QED
    BY <1>4, <2>2, <2>3
<1>11. QED
  BY <1>5, <1>6, <1>7, <1>8, <1>9, <1>10 DEF AnswerStep

LEMMA TimeOverdraws ==
  ASSUME AnswersInv, Overdrawn, AgeCache \/ Midnight \/ ReloadBudgets \/ RestartAnswers
  PROVE  Overdrawn'
<1>1. CASE AgeCache
  <2>1. UNCHANGED money /\ ans' = ans
    BY <1>1 DEF AgeCache
  <2>2. Uncharged' \subseteq Uncharged
    BY <2>1 DEF Uncharged
  <2>3. QED
    BY <2>1, <2>2, OverdrawnSame
<1>2. CASE Midnight
  <2>1. limit' = limit /\ today' = 0 /\ slack' = 0
    BY <1>2 DEF Midnight
  <2>2. limit > 0 => 0 - 0 + Cardinality(Uncharged') < limit + Cardinality(Request)
    BY Figures, UnchargedCount, UnchargedCountNext
  <2>3. QED
    BY <2>1, <2>2 DEF Overdrawn
<1>3. CASE ReloadBudgets
  BY <1>3 DEF ReloadBudgets, Overdrawn
<1>4. CASE RestartAnswers
  <2>1. PICK n \in 0..today : slack' = today - n
    BY <1>4 DEF RestartAnswers
  <2>2. limit' = limit /\ today' = today /\ loose' = (loose \/ slack > 0)
    BY <1>4 DEF RestartAnswers
  <2>3. Uncharged' \subseteq Uncharged
    BY <1>4, GoneIsAPlace DEF RestartAnswers, Uncharged
  <2>4. CASE limit > 0 /\ ~loose /\ slack = 0
    <3>1. today - slack + Cardinality(Uncharged) < limit + Cardinality(Request)
      BY <2>4 DEF Overdrawn
    <3>2. today - (today - n) <= today - slack
      BY <2>4, Figures
    <3>3. today - (today - n) + Cardinality(Uncharged') < limit + Cardinality(Request)
      BY <2>3, <3>1, <3>2, Figures, UnchargedCount, UnchargedCountNext, FewerUncharged
    <3>4. QED
      BY <2>1, <2>2, <3>3 DEF Overdrawn
  <2>5. CASE loose \/ slack # 0
    <3>1. loose \/ slack > 0
      BY <2>5, Figures
    <3>2. loose'
      BY <2>2, <3>1, Zenon
    <3>3. QED
      BY <3>2, Zenon DEF Overdrawn
  <2>6. CASE ~(limit > 0)
    BY <2>2, <2>6 DEF Overdrawn
  <2>7. QED
    BY <2>4, <2>5, <2>6
<1>5. QED
  BY <1>1, <1>2, <1>3, <1>4

LEMMA OverdrawnNext == AnswersInv /\ Overdrawn /\ [Next]_vars => Overdrawn'
<1> SUFFICES ASSUME AnswersInv, Overdrawn, [Next]_vars
             PROVE  Overdrawn'
  OBVIOUS
<1>1. CASE UNCHANGED answers
  <2>1. UNCHANGED money /\ ans' = ans
    BY <1>1 DEF answers, money
  <2>2. Uncharged' \subseteq Uncharged
    BY <2>1 DEF Uncharged
  <2>3. QED
    BY <2>1, <2>2, OverdrawnSame
<1>2. CASE StepInAnswers
  BY <1>2, StepOverdraws, TimeOverdraws DEF StepInAnswers
<1>3. CASE StepInLimits \/ StepInSessions \/ Sweep
  BY <1>1, <1>3 DEF StepInLimits, StepInSessions, Sweep
<1>4. QED
  BY <1>1, <1>2, <1>3 DEF Next, vars

LEMMA OverdrawnInitially == AnswersInit => Overdrawn
<1> SUFFICES ASSUME AnswersInit
             PROVE  Overdrawn
  OBVIOUS
<1>1. limit \in Nat /\ today = 0 /\ slack = 0
  BY AnswerAssumption DEF AnswersInit
<1>2. QED
  BY <1>1, UnchargedCount DEF Overdrawn

-----------------------------------------------------------------------------
(* What always holds at the front door.                                    *)

\* The invariants hold throughout, and a request stays with its part.
THEOREM AllInvariant ==
  Spec => [](IInv /\ Bounded /\ SessionsInv /\ AnswersInv /\ Overdrawn /\ part \in Part)
<1> DEFINE All == IInv /\ Bounded /\ SessionsInv /\ AnswersInv /\ Overdrawn /\ part \in Part
<1>1. Init => All
  BY InitIInv, InitBounded, SessionsInitially, AnswersInitially, OverdrawnInitially DEF Init
<1>2. part \in Part /\ [Next]_vars => part' \in Part
  BY DEF Next, StepInLimits, StepInSessions, Sweep, StepInAnswers, vars
<1>3. All /\ [Next]_vars => All'
  BY <1>2, NextIInv, NextBounded, SessionsNext, AnswersNext, OverdrawnNext
<1> HIDE DEF All
<1>4. Spec => []All
  BY <1>1, <1>3, PTL DEF Spec
<1>5. QED
  BY <1>4 DEF All

\* Limiters, sessions, caches and budget keep their state well typed: the response
\* cache never outgrows its size and holds each prompt once, and no copy of a session
\* holds a turn that never came (responseCache.Set, SessionStoreImpl.AppendTurn).
THEOREM TypeCorrect == Spec => []TypeOK
<1>1. IInv /\ Bounded /\ SessionsInv /\ AnswersInv /\ part \in Part => TypeOK
  BY LimitsTyped, SessionsTyped, AnswersTyped DEF TypeOK
<1>2. QED
  BY <1>1, AllInvariant, PTL

\* Whatever requests, sweeps and deletions interleave, the cached copy and what a
\* backend is shown are beginnings of the stored conversation, and a request that has
\* the session to itself is shown every turn stored before it came
\* (hydrateSessionRequest, SessionStoreImpl.Get).
THEOREM TranscriptTrue == Spec => []Transcript
<1>1. SessionsInv => Transcript
  <2> SUFFICES ASSUME SessionsInv
               PROVE  Transcript
    OBVIOUS
  <2>1. IsStored(copy)
    BY DEF SessionsInv, Store, Begins, IsStored
  <2>2. ASSUME NEW r \in Request, ses[r].pc = "asked", ses[r].seen # <<>>
        PROVE  IsStored(ses[r].seen) /\ (~crowded => ses[r].known \subseteq ToSet(ses[r].seen))
    BY <2>2, SesFacts DEF Fits, Begins, IsStored, Whole
  <2>3. QED
    BY <2>1, <2>2 DEF Transcript
<1>2. QED
  BY <1>1, AllInvariant, PTL

\* A turn that comes after a client was told that the session is deleted is answered
\* without it, whoever still holds a copy (SessionStoreImpl.Delete, AppendTurn).
THEOREM DeletionHolds == Spec => []DeletedStays
<1>1. SessionsInv => DeletedStays
  BY SesFacts DEF DeletedStays, Fits
<1>2. QED
  BY <1>1, AllInvariant, PTL

\* A request is turned down only at the limit and where rejection is configured, passes
\* as one within the budget only below the limit and as one over it only at the limit,
\* up to what midnight and restarts have hidden; and while nothing but the budget
\* decides, fewer units are overdrawn than there can be requests at work
\* (CostTracker.checkBudget, handleChatCompletions).
THEOREM BudgetIsHonest == Spec => BudgetHonest
<1> DEFINE AllHonest ==
      \A r \in Request :
        ans[r].pc = "budget" =>
          /\ ans'[r].pc = "rejected" => today >= limit /\ action = "reject"
          /\ ans'[r].pc = "route" =>
               IF ans'[r].over = "no" THEN today - slack < limit
               ELSE today >= limit /\ action # "reject"
<1>1. AnswersInv /\ [Next]_vars => [AllHonest]_vars
  <2> SUFFICES ASSUME AnswersInv, Next
               PROVE  AllHonest
    OBVIOUS
  <2>1. CASE StepInAnswers
    BY <2>1, HonestStep DEF Honest
  <2>2. CASE StepInLimits \/ StepInSessions \/ Sweep
    <3>1. ans' = ans
      BY <2>2 DEF StepInLimits, StepInSessions, Sweep, answers
    <3>2. QED
      BY <3>1
  <2>3. QED
    BY <2>1, <2>2 DEF Next
<1>2. QED
  BY <1>1, AllInvariant, PTL DEF Spec, BudgetHonest

=============================================================================
