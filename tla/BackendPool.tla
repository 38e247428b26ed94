---------------------------- MODULE BackendPool ----------------------------
(***************************************************************************)
(* The pool of backends: which Backend object each configured name stands  *)
(* for, each object's configuration, health and in-flight counter, and the *)
(* operations on them (registration over the API, reload of the            *)
(* configuration file, periodic health checks).  Who sends requests is the *)
(* business of a module that extends this one.                             *)
(*                                                                         *)
(* A Backend is the heap object, not its name: a goroutine that holds the  *)
(* pointer keeps using the object after the name is gone or stands for     *)
(* another object.                                                         *)
(***************************************************************************)
EXTENDS BackendHealth, FiniteSets

CONSTANTS
  Name,        \* backend names
  Backend,     \* identities of Backend objects
  NoBackend,   \* "the map has no such key"
  Config,      \* configurations a backend may be given
  ConfigFile,  \* contents of the configuration file: names to Config
  MaxChecks    \* bound on checkOne goroutines of one object at a time

ASSUME PoolAssumption ==
  /\ IsFiniteSet(Backend)
  /\ NoBackend \notin Backend
  /\ Config \subseteq [check : {"cloud", "none", "probe"}, max : Nat,
                       dynamic : BOOLEAN]
  /\ \A f \in ConfigFile : DOMAIN f \subseteq Name /\ \A n \in DOMAIN f : f[n] \in Config
  /\ MaxChecks \in Nat

VARIABLES
  pool,      \* [Name -> Backend or NoBackend]
  config,    \* [Backend -> Config]
  health,    \* [Backend -> Health]
  active,    \* [Backend -> Nat], ActiveReqs
  checking,  \* [Backend -> Nat], checkOne goroutines that have not begun
  probing    \* [Backend -> Nat], checkOne goroutines that await an answer

poolVars == <<pool, config, health, active, checking, probing>>

\* The pool's part of the type invariant.
PoolTypeOK ==
  /\ pool \in [Name -> Backend \cup {NoBackend}]
  /\ config \in [Backend -> Config]
  /\ health \in [Backend -> Health]
  /\ active \in [Backend -> Nat]
  /\ checking \in [Backend -> Nat]
  /\ probing \in [Backend -> Nat]

Registered == {pool[n] : n \in Name} \ {NoBackend}

-----------------------------------------------------------------------------
(* Reads.                                                                  *)

IsAvailable(b) ==
  /\ health[b].status # Down
  /\ config[b].max > 0 => active[b] < config[b].max

GetHealthy(names) ==
  {b \in Backend : IsAvailable(b) /\ \E n \in names : pool[n] = b}

-----------------------------------------------------------------------------
(* Registration.  A new object is one nobody refers to: held is the set of *)
(* objects that request goroutines still point to.                         *)

Free(held) ==
  {b \in Backend \ (Registered \cup held) : checking[b] = 0 /\ probing[b] = 0}

\* Distinct new objects for the names of ns that the map does not have.
NewObjects(ns, held) ==
  {new \in [{n \in ns : pool[n] = NoBackend} -> Free(held)] :
     \A m, n \in DOMAIN new : m # n => new[m] # new[n]}

ObjectFor(n, new) == IF n \in DOMAIN new THEN new[n] ELSE pool[n]

\* Every name of f now has the configuration f gives it.  An object that was
\* there keeps its health and its count, a new one starts healthy and idle.
Install(f) ==
  /\ config' = [b \in Backend |->
       IF \E n \in DOMAIN f : pool'[n] = b
       THEN f[CHOOSE n \in DOMAIN f : pool'[n] = b]
       ELSE config[b]]
  /\ health' = [b \in Backend |-> IF b \in Registered' \ Registered THEN Fit ELSE health[b]]
  /\ active' = [b \in Backend |-> IF b \in Registered' \ Registered THEN 0 ELSE active[b]]
  /\ UNCHANGED <<checking, probing>>

Register(n, c, held) ==
  /\ c.dynamic
  /\ \E new \in NewObjects({n}, held) :
       pool' = [pool EXCEPT ![n] = ObjectFor(n, new)]
  /\ Install([m \in {n} |-> c])

Deregister(n) ==
  /\ pool[n] # NoBackend
  /\ pool' = [pool EXCEPT ![n] = NoBackend]
  /\ UNCHANGED <<config, health, active, checking, probing>>

\* Names the file no longer has are dropped, unless they were registered over
\* the API.
UpdateBackends(f, held) ==
  /\ \E new \in NewObjects(DOMAIN f, held) :
       pool' = [n \in Name |->
         IF n \in DOMAIN f THEN ObjectFor(n, new)
         ELSE IF pool[n] # NoBackend /\ config[pool[n]].dynamic THEN pool[n]
         ELSE NoBackend]
  /\ Install(f)

-----------------------------------------------------------------------------
(* Health checks: one tick starts a goroutine per object in the map.       *)

CheckAll ==
  /\ Registered # {}
  /\ \A b \in Registered : checking[b] + probing[b] < MaxChecks
  /\ checking' = [b \in Backend |-> IF b \in Registered THEN checking[b] + 1 ELSE checking[b]]
  /\ UNCHANGED <<pool, config, health, active, probing>>

\* What checkOne does without a request: all of it for a cloud backend,
\* nothing when no endpoint is configured, and the GET otherwise.
CheckCloud(b) ==
  /\ checking[b] > 0
  /\ config[b].check = "cloud"
  /\ checking' = [checking EXCEPT ![b] = @ - 1]
  /\ health' = [health EXCEPT ![b] = AfterCloudCheck(@)]
  /\ UNCHANGED <<pool, config, active, probing>>

CheckNone(b) ==
  /\ checking[b] > 0
  /\ config[b].check = "none"
  /\ checking' = [checking EXCEPT ![b] = @ - 1]
  /\ UNCHANGED <<pool, config, health, active, probing>>

SendProbe(b) ==
  /\ checking[b] > 0
  /\ config[b].check = "probe"
  /\ checking' = [checking EXCEPT ![b] = @ - 1]
  /\ probing' = [probing EXCEPT ![b] = @ + 1]
  /\ UNCHANGED <<pool, config, health, active>>

ProbeAnswer(b, ok) ==
  /\ probing[b] > 0
  /\ probing' = [probing EXCEPT ![b] = @ - 1]
  /\ health' = [health EXCEPT ![b] = AfterProbe(@, ok)]
  /\ UNCHANGED <<pool, config, active, checking>>

CheckOne(b) ==
  \/ CheckCloud(b) \/ CheckNone(b) \/ SendProbe(b)
  \/ \E ok \in BOOLEAN : ProbeAnswer(b, ok)
=============================================================================
