----------------------------- MODULE RateLimits -----------------------------
(***************************************************************************)
(* The two token bucket limiters before the proxy: per tenant              *)
(* (tenant_ratelimit.go), then per service (ratelimit.go).  A bucket is    *)
(* looked up, made if it is missing, and asked for a token in three        *)
(* separately locked steps; a reload puts new limits into force and starts *)
(* again with no buckets, while requests may still hold an old one.        *)
(***************************************************************************)
EXTENDS Requests, Naturals, Sequences

CONSTANTS
  Caller,       \* the callers' headers: records with a tenant and a service, or ""
  Bypass,       \* tenants that are not limited
  Burst         \* the capacity of a bucket under each configuration, in their order

ASSUME LimitAssumption ==
  /\ Burst \in Seq(Nat \ {0}) /\ Burst # <<>> /\ Caller # {}
  /\ \A c \in Caller : c.tenant \in STRING /\ c.service \in STRING

VARIABLES
  config,    \* number of the latest configuration
  inForce,   \* [limiter -> number of the configuration it works by]
  bucket,    \* [limiter -> [key -> the bucket in use]]
  lim,       \* [Request -> how far the request has got]
  granted,   \* history: tokens taken and not refilled, under the limits in force
  slipped    \* history: the service limits changed under a request

limits == <<config, inForce, bucket, lim, granted, slipped>>

Limiter == {"tenant", "service"}

\* extractTenant and normaliseKey: a caller without a tenant counts as its service.
KeyOf(limiter, c) ==
  IF limiter = "tenant" /\ c.tenant # "" THEN c.tenant
  ELSE IF limiter = "service" \/ c.service # "" THEN c.service ELSE "unattributed"

Key == {KeyOf(l, c) : l \in Limiter, c \in Caller}
NoBucket == [made |-> 0, tokens |-> 0]
Out == [pc |-> "out", at |-> "tenant", caller |-> CHOOSE c \in Caller : TRUE, limit |-> 0, born |-> 0]

KeyAt(r) == KeyOf(lim[r].at, lim[r].caller)
At(r, pc) == lim' = [lim EXCEPT ![r].pc = pc]
Passes(r) ==
  lim' = [lim EXCEPT ![r] =
            IF lim[r].at = "tenant" THEN [lim[r] EXCEPT !.pc = "begin", !.at = "service", !.born = 0]
            ELSE [Out EXCEPT !.pc = "passed"]]

\* A request holds on to the bucket in use, also after a reload.
Current(r) == bucket[lim[r].at][KeyAt(r)]
HoldsCurrent(r) == lim' = [lim EXCEPT ![r].pc = "take", ![r].limit = 0, ![r].born = inForce[lim[r].at]]

-----------------------------------------------------------------------------
EnterLimits(r) ==
  /\ lim[r].pc = "out"
  /\ \E c \in Caller : lim' = [lim EXCEPT ![r] = [Out EXCEPT !.pc = "begin", !.caller = c]]
  /\ UNCHANGED <<config, inForce, bucket, granted, slipped>>

\* A bypassed tenant and a caller without a service are not limited.  The service
\* limiter reads its limits now and makes a bucket with them later.
ReadLimits(r) ==
  /\ lim[r].pc = "begin"
  /\ IF \/ lim[r].at = "tenant" /\ lim[r].caller.tenant \in Bypass
        \/ lim[r].at = "service" /\ KeyAt(r) = ""
     THEN Passes(r)
     ELSE lim' = [lim EXCEPT ![r].pc = "find", ![r].limit = IF lim[r].at = "service" THEN inForce["service"] ELSE 0]
  /\ UNCHANGED <<config, inForce, bucket, granted, slipped>>

FindBucket(r) ==
  /\ lim[r].pc = "find"
  /\ IF Current(r) # NoBucket THEN HoldsCurrent(r) ELSE At(r, "make")
  /\ UNCHANGED <<config, inForce, bucket, granted, slipped>>

\* Under the lock it is looked up once more.
MakeIfMissing(r, made) ==
  /\ lim[r].pc = "make"
  /\ bucket' = IF Current(r) # NoBucket THEN bucket
               ELSE [bucket EXCEPT ![lim[r].at][KeyAt(r)] =
                                     [made |-> made, tokens |-> Burst[made]]]
  /\ HoldsCurrent(r)
  /\ UNCHANGED <<config, inForce, granted, slipped>>

\* The tenant limiter reads its limits under the lock.
MakeBucket(r) ==
  MakeIfMissing(r, IF lim[r].at = "tenant" THEN inForce["tenant"] ELSE lim[r].limit)

\* A bucket from before a reload may or may not have a token left.
TakeToken(r) ==
  /\ lim[r].pc = "take"
  /\ LET l == lim[r].at
         k == KeyAt(r)
         current == lim[r].born = inForce[l]
         refused == [lim EXCEPT ![r] = [Out EXCEPT !.pc = "refused"]]
     IN \/ /\ current => bucket[l][k].tokens = 0
           /\ lim' = refused
           /\ UNCHANGED <<bucket, granted>>
        \/ /\ current => bucket[l][k].tokens > 0
           /\ bucket' = IF current THEN [bucket EXCEPT ![l][k].tokens = @ - 1] ELSE bucket
           /\ granted' = IF current THEN [granted EXCEPT ![l][k] = @ + 1] ELSE granted
           /\ Passes(r)
  /\ UNCHANGED <<config, inForce, slipped>>

LeaveLimits(r) ==
  /\ lim[r].pc \in {"passed", "refused"}
  /\ lim' = [lim EXCEPT ![r] = Out]
  /\ UNCHANGED <<config, inForce, bucket, granted, slipped>>

\* Time passes for a bucket in use.
Refill(l, k) ==
  /\ LET b == bucket[l][k] IN
       /\ b # NoBucket /\ b.tokens < Burst[b.made]
       /\ bucket' = [bucket EXCEPT ![l][k].tokens = @ + 1]
  /\ granted' = [granted EXCEPT ![l][k] = IF @ = 0 THEN 0 ELSE @ - 1]
  /\ UNCHANGED <<config, inForce, lim, slipped>>

\* Mutant of ReloadLimits: the buckets in use stay.
ReloadKeepsBuckets(ls) ==
  /\ config < Len(Burst)
  /\ config' = config + 1
  /\ inForce' = [l \in Limiter |-> IF l \in ls THEN config + 1 ELSE inForce[l]]
  /\ granted' = [l \in Limiter |-> IF l \in ls THEN [k \in Key |-> 0] ELSE granted[l]]
  /\ slipped' = (slipped \/ /\ "service" \in ls
                            /\ \E r \in Request : lim[r].at = "service" /\ lim[r].pc \in {"find", "make"})
  /\ UNCHANGED <<bucket, lim>>

\* The file's watcher updates both limiters, the reload of the API only the tenants'.
ReloadLimits(ls) ==
  /\ config < Len(Burst)
  /\ config' = config + 1
  /\ inForce' = [l \in Limiter |-> IF l \in ls THEN config + 1 ELSE inForce[l]]
  /\ bucket' = [l \in Limiter |-> IF l \in ls THEN [k \in Key |-> NoBucket] ELSE bucket[l]]
  /\ granted' = [l \in Limiter |-> IF l \in ls THEN [k \in Key |-> 0] ELSE granted[l]]
  /\ slipped' = (slipped \/ /\ "service" \in ls
                            /\ \E r \in Request : lim[r].at = "service" /\ lim[r].pc \in {"find", "make"})
  /\ UNCHANGED lim

LimitStep(r) ==
  \/ ReadLimits(r) \/ FindBucket(r) \/ MakeBucket(r) \/ TakeToken(r) \/ LeaveLimits(r)

LimitsInit ==
  /\ config = 1 /\ inForce = [l \in Limiter |-> 1]
  /\ bucket = [l \in Limiter |-> [k \in Key |-> NoBucket]]
  /\ lim = [r \in Request |-> Out]
  /\ granted = [l \in Limiter |-> [k \in Key |-> 0]] /\ slipped = FALSE

LimitsTypeOK ==
  /\ config \in 1..Len(Burst) /\ inForce \in [Limiter -> 1..config]
  /\ \A l \in Limiter, k \in Key :
       LET b == bucket[l][k] IN b = NoBucket \/ (b.made \in 1..config /\ b.tokens \in 0..Burst[b.made])
  /\ lim \in [Request -> [pc : {"out", "begin", "find", "make", "take", "passed", "refused"},
                          at : Limiter, caller : Caller, limit : 0..config, born : 0..config]]
  /\ granted \in [Limiter -> [Key -> Nat]] /\ slipped \in BOOLEAN

=============================================================================
