-------------------------- MODULE Profiles_proofs ---------------------------
(***************************************************************************)
(* Theorems about Profiles, for any number of requests, versions, edits    *)
(* and callbacks.                                                          *)
(*                                                                         *)
(* Counting holds for the limiters somebody refers to.  A new limiter is   *)
(* one nobody refers to, so that nobody is inside it; a request holds on   *)
(* to its own until it has left, whatever the store then has.              *)
(*                                                                         *)
(* A reload arrives because, as long as nothing raced, whatever the file   *)
(* says and is not in force yet has somebody on its way to apply it, and   *)
(* a limiter with other limits than the profile's a reset on its way.      *)
(***************************************************************************)
EXTENDS Profiles, FiniteSetTheorems, SequenceTheorems, TLAPS

-----------------------------------------------------------------------------
(* The invariant.                                                          *)

State == [pc : {"idle", "looked", "waiting", "inside"}, seen : Version \cup {"none"},
          lim : Limiter \cup {None}]

ProfileOK == profile = NoProfile \/ profile.version \in Version

LimitersOK ==
  /\ store \in Limiter \cup {None}
  /\ limiter \in [Limiter -> [max : Nat, taken : Nat]]
  /\ req \in [Request -> State]

\* A request has a limiter while it waits for a place or has one, and a version to build
\* one from while it is about to ask for it.
Linked(s) ==
  /\ s.pc \in {"waiting", "inside"} <=> s.lim \in Limiter
  /\ s.pc = "looked" => s.seen \in Version

IInv == ProfileOK /\ LimitersOK /\ (\A r \in Request : Linked(req[r])) /\ PlacesExact

-----------------------------------------------------------------------------
(* Facts.                                                                  *)

LEMMA Constants ==
  /\ IsFiniteSet(Request) /\ None \notin Limiter
  /\ \A v \in Version : Limit[v] \in Nat
BY ProfilesAssumption

LEMMA InsideFinite ==
  ASSUME NEW l PROVE IsFiniteSet(Inside(l))
<1>1. Inside(l) \subseteq Request
  BY DEF Inside
<1>2. QED
  BY <1>1, Constants, FS_Subset

LEMMA NotHoldingOK == NotHolding \in State /\ NotHolding.pc = "idle" /\ Linked(NotHolding)
BY Constants DEF NotHolding, State, Linked

\* Nobody has entered a limiter to which nobody refers.
LEMMA InsideReferred ==
  ASSUME NEW l, Inside(l) # {}
  PROVE  l \in Referred
BY DEF Inside, Referred

\* One request moves, and nobody goes in or out.
LEMMA Aside ==
  ASSUME IInv, NEW r \in Request, NEW s \in State, Linked(s),
         req' = [req EXCEPT ![r] = s],
         req[r].pc # "inside", s.pc # "inside",
         s.lim \in Referred \cup {None},
         UNCHANGED <<profile, store, limiter>>
  PROVE  IInv'
<1>1. ProfileOK' /\ LimitersOK'
  BY DEF IInv, ProfileOK, LimitersOK
<1>2. \A q \in Request : Linked(req'[q])
  BY DEF IInv, LimitersOK
<1>3. \A l : Inside(l)' = Inside(l)
  BY DEF Inside, IInv, LimitersOK
<1>4. Limiter \cap Referred' \subseteq Referred
  BY Constants DEF Referred, IInv, LimitersOK
<1>5. PlacesExact'
  BY <1>3, <1>4 DEF IInv, PlacesExact, Capped
<1>6. QED
  BY <1>1, <1>2, <1>5 DEF IInv

-----------------------------------------------------------------------------
(* The steps.                                                              *)

\* What is done to the profile leaves its versions versions.
LEMMA ProfileKept ==
  ASSUME IInv, \/ WriteFile \/ RemoveFile \/ Api \/ Watch \/ Shutdown
               \/ \E a \in Applier : Callback(a)
  PROVE  ProfileOK'
<1> USE DEF ProfileOK
<1>1. CASE UNCHANGED profile
  BY <1>1 DEF IInv
<1>2. CASE WriteFile \/ RemoveFile
  BY <1>1, <1>2 DEF WriteFile, RemoveFile, Edit
<1>3. CASE Api
  <2>1. CASE RegisterAgent
    BY <2>1 DEF RegisterAgent, SetProfile
  <2>2. CASE CommitProfile
    BY <1>1, <2>2 DEF CommitProfile, Edit, reg
  <2>3. CASE RemoveAgent
    BY <2>3 DEF RemoveAgent
  <2>4. CASE RemoveProfileFile
    BY <1>1, <2>4 DEF RemoveProfileFile, Edit, reg
  <2>5. QED
    BY <1>3, <2>1, <2>2, <2>3, <2>4 DEF Api
<1>4. CASE Watch
  <2>1. CASE HandleFileEvent
    BY <1>1, <2>1 DEF HandleFileEvent, SetProfile
  <2>2. CASE StartWatch \/ Announce \/ StopWatch \/ React \/ EndOfEvents
    BY <1>1, <2>2 DEF StartWatch, Announce, StopWatch, React, EndOfEvents, reg
  <2>3. QED
    BY <1>4, <2>1, <2>2 DEF Watch
<1>5. CASE Shutdown
  BY <1>1, <1>5 DEF Shutdown, reg
<1>6. ASSUME NEW a \in Applier, Callback(a)
      PROVE  ProfileOK'
  <2>1. CASE ApplyOverride(a)
    BY <1>1, <2>1 DEF ApplyOverride, SetProfile
  <2>2. CASE Fire(a) \/ ReadOverride(a) \/ SendEvent(a)
    BY <1>1, <2>2 DEF Fire, ReadOverride, SendEvent
  <2>3. QED
    BY <1>6, <2>1, <2>2 DEF Callback
<1>7. QED
  BY <1>2, <1>3, <1>4, <1>5, <1>6

\* The store may forget its limiter.
LEMMA StoreKept ==
  ASSUME IInv, ProfileOK', store' \in {store, None}, UNCHANGED <<limiter, req>>
  PROVE  IInv'
<1>1. LimitersOK' /\ \A r \in Request : Linked(req'[r])
  BY DEF IInv, LimitersOK
<1>2. \A l : Inside(l)' = Inside(l)
  BY DEF Inside
<1>3. Limiter \cap Referred' \subseteq Referred
  BY Constants DEF Referred
<1>4. PlacesExact'
  BY <1>2, <1>3 DEF IInv, PlacesExact, Capped
<1>5. QED
  BY <1>1, <1>4 DEF IInv

LEMMA OthersKeep ==
  ASSUME IInv, \/ WriteFile \/ RemoveFile \/ Api \/ Watch \/ Shutdown
               \/ \E a \in Applier : Callback(a)
  PROVE  IInv'
<1>1. store' \in {store, None} /\ UNCHANGED <<limiter, req>>
  <2>1. CASE WriteFile \/ RemoveFile \/ Shutdown
    BY <2>1 DEF WriteFile, RemoveFile, Shutdown
  <2>2. CASE Api
    BY <2>2 DEF Api, RegisterAgent, CommitProfile, RemoveAgent, RemoveProfileFile
  <2>3. CASE Watch
    BY <2>3 DEF Watch, StartWatch, HandleFileEvent, Announce, StopWatch, React, EndOfEvents
  <2>4. CASE \E a \in Applier : Callback(a)
    BY <2>4 DEF Callback, Fire, ReadOverride, ApplyOverride, SendEvent, WatcherUnchanged
  <2>5. QED
    BY <2>1, <2>2, <2>3, <2>4
<1>2. QED
  BY <1>1, ProfileKept, StoreKept

LEMMA LookKeeps ==
  ASSUME IInv, NEW r \in Request, Look(r)
  PROVE  IInv'
<1> DEFINE s == [pc |-> "looked", seen |-> profile.version, lim |-> None]
<1>1. profile.version \in Version
  BY DEF Look, Present, IInv, ProfileOK
<1>2. s \in State /\ Linked(s) /\ s.pc = "looked" /\ s.lim = None
  BY <1>1, Constants DEF State, Linked
<1>3. req' = [req EXCEPT ![r] = s] /\ req[r].pc # "inside" /\ UNCHANGED <<profile, store, limiter>>
  BY DEF Look, RequestUnchanged, reg
<1> HIDE DEF s
<1>4. QED
  BY <1>2, <1>3, Aside

LEMMA GetKeeps ==
  ASSUME IInv, NEW r \in Request, GetLimiter(r)
  PROVE  IInv'
<1>1. UNCHANGED profile /\ req[r].pc = "looked" /\ req[r] \in State /\ req[r].seen \in Version
  BY DEF GetLimiter, RequestUnchanged, reg, IInv, LimitersOK, Linked
<1>2. CASE store # None /\ req' = [req EXCEPT ![r].pc = "waiting", ![r].lim = store, ![r].seen = "none"]
                        /\ UNCHANGED <<store, limiter>>
  <2> DEFINE s == [req[r] EXCEPT !.pc = "waiting", !.lim = store, !.seen = "none"]
  <2>1. store \in Limiter /\ store \in Referred
    BY <1>2 DEF IInv, LimitersOK, Referred
  <2>2. s \in State /\ s.pc = "waiting" /\ s.lim = store
    BY <1>1, <2>1 DEF State
  <2>3. req' = [req EXCEPT ![r] = s]
    BY <1>1, <1>2 DEF IInv, LimitersOK
  <2> HIDE DEF s
  <2>4. Linked(s)
    BY <2>1, <2>2 DEF Linked
  <2>5. QED
    BY <1>1, <1>2, <2>1, <2>2, <2>3, <2>4, Aside
<1>3. ASSUME Limiter \ Referred # {}, NEW l0 \in Limiter \ Referred,
             store' = l0,
             limiter' = [limiter EXCEPT ![l0] = [max |-> Limit[req[r].seen], taken |-> 0]],
             req' = [req EXCEPT ![r].pc = "waiting", ![r].lim = l0, ![r].seen = "none"]
      PROVE  IInv'
  <2> DEFINE s == [req[r] EXCEPT !.pc = "waiting", !.lim = l0, !.seen = "none"]
  <2>1. s \in State /\ s.pc = "waiting" /\ s.lim = l0
    BY <1>1 DEF State
  <2>2. req' = [req EXCEPT ![r] = s]
    BY <1>1, <1>3 DEF IInv, LimitersOK
  <2> HIDE DEF s
  <2>3. ProfileOK'
    BY <1>1 DEF IInv, ProfileOK
  <2>4. LimitersOK'
    <3>1. [max |-> Limit[req[r].seen], taken |-> 0] \in [max : Nat, taken : Nat]
      BY <1>1, Constants
    <3>2. store' \in Limiter \cup {None}
      BY <1>3
    <3>3. limiter' \in [Limiter -> [max : Nat, taken : Nat]]
      BY <1>3, <3>1 DEF IInv, LimitersOK
    <3>4. req' \in [Request -> State]
      BY <2>1, <2>2 DEF IInv, LimitersOK
    <3>5. QED
      BY <3>2, <3>3, <3>4 DEF LimitersOK
  <2>5. \A q \in Request : Linked(req'[q])
    BY <2>1, <2>2 DEF IInv, LimitersOK, Linked
  <2>6. \A l : Inside(l)' = Inside(l)
    BY <1>1, <2>1, <2>2 DEF Inside, IInv, LimitersOK
  <2>7. Limiter \cap Referred' \subseteq Referred \cup {l0}
    BY <1>3, <2>1, <2>2 DEF Referred, IInv, LimitersOK
  <2>8. Inside(l0) = {}
    BY InsideReferred
  <2>9. PlacesExact'
    <3> SUFFICES ASSUME NEW l \in Limiter \cap Referred', Capped(l)'
                 PROVE  /\ limiter'[l].taken = Cardinality(Inside(l)')
                        /\ limiter'[l].taken <= limiter'[l].max
      BY DEF PlacesExact
    <3>1. CASE l = l0
      <4>1. limiter'[l] = [max |-> Limit[req[r].seen], taken |-> 0]
        BY <1>3, <3>1 DEF IInv, LimitersOK
      <4>2. Cardinality(Inside(l)') = 0
        BY <2>6, <2>8, <3>1, FS_EmptySet
      <4>3. QED
        BY <1>1, <4>1, <4>2, Constants
    <3>2. CASE l # l0
      BY <1>3, <2>6, <2>7, <3>2 DEF IInv, LimitersOK, PlacesExact, Capped
    <3>3. QED
      BY <3>1, <3>2
  <2>10. QED
    BY <2>3, <2>4, <2>5, <2>9 DEF IInv
<1>4. QED
  <2>1. CASE store = None
    <3> DEFINE l0 == CHOOSE l \in Limiter \ Referred : TRUE
    <3>1. Limiter \ Referred # {} /\ l0 \in Limiter \ Referred
      BY <1>2, <2>1 DEF GetLimiter
    <3>2. /\ store' = l0
          /\ limiter' = [limiter EXCEPT ![l0] = [max |-> Limit[req[r].seen], taken |-> 0]]
          /\ req' = [req EXCEPT ![r].pc = "waiting", ![r].lim = l0, ![r].seen = "none"]
      BY <2>1 DEF GetLimiter
    <3> HIDE DEF l0
    <3>3. QED
      BY <1>3, <3>1, <3>2
  <2>2. CASE store # None
    BY <1>2, <2>2 DEF GetLimiter
  <2>3. QED
    BY <2>1, <2>2

\* A request goes in or out of its limiter l, whose count becomes n.
LEMMA PassKeeps ==
  ASSUME IInv, NEW r \in Request, NEW l \in Limiter, req[r].lim = l,
         NEW s \in State, Linked(s), s.lim \in {l, None},
         NEW n \in Nat,
         req' = [req EXCEPT ![r] = s],
         limiter' = [limiter EXCEPT ![l].taken = n],
         UNCHANGED <<profile, store>>,
         Capped(l) => n = Cardinality(Inside(l)') /\ n <= limiter[l].max
  PROVE  IInv'
<1>1. ProfileOK'
  BY DEF IInv, ProfileOK
<1>2. /\ limiter' \in [Limiter -> [max : Nat, taken : Nat]]
      /\ limiter'[l].max = limiter[l].max /\ limiter'[l].taken = n
      /\ \A k \in Limiter : k # l => limiter'[k] = limiter[k]
  BY DEF IInv, LimitersOK
<1>3. LimitersOK'
  BY <1>2 DEF IInv, LimitersOK
<1>4. \A q \in Request : Linked(req'[q])
  BY DEF IInv, LimitersOK
<1>5. \A k : k # l => Inside(k)' = Inside(k)
  <2> SUFFICES ASSUME NEW k, k # l
               PROVE  Inside(k)' = Inside(k)
    OBVIOUS
  <2>1. \A q \in Request : req'[q] = IF q = r THEN s ELSE req[q]
    BY DEF IInv, LimitersOK
  <2>2. r \notin Inside(k)
    BY DEF Inside
  <2>3. ~(s.pc = "inside" /\ s.lim = k)
    BY Constants DEF Linked
  <2>4. QED
    BY <2>1, <2>2, <2>3 DEF Inside
<1>6. Limiter \cap Referred' \subseteq Referred
  <2>1. \A q \in Request : req'[q].lim \in {req[q].lim, l, None}
    BY DEF IInv, LimitersOK
  <2>2. l \in Referred
    BY DEF Referred
  <2>3. QED
    BY <2>1, <2>2, Constants DEF Referred
<1>7. PlacesExact'
  <2> SUFFICES ASSUME NEW k \in Limiter \cap Referred', Capped(k)'
               PROVE  /\ limiter'[k].taken = Cardinality(Inside(k)')
                      /\ limiter'[k].taken <= limiter'[k].max
    BY DEF PlacesExact
  <2>1. CASE k = l
    BY <1>2, <2>1 DEF Capped
  <2>2. CASE k # l
    BY <1>2, <1>5, <1>6, <2>2 DEF IInv, PlacesExact, Capped
  <2>3. QED
    BY <2>1, <2>2
<1>8. QED
  BY <1>1, <1>3, <1>4, <1>7 DEF IInv

LEMMA AcquireKeeps ==
  ASSUME IInv, NEW r \in Request, Acquire(r)
  PROVE  IInv'
<1>1. PICK l : l = req[r].lim
  OBVIOUS
<1>2. /\ req[r].pc = "waiting" /\ req[r] \in State /\ l \in Limiter /\ l \in Referred
      /\ UNCHANGED <<profile, store>>
  BY <1>1 DEF Acquire, RequestUnchanged, reg, IInv, LimitersOK, Linked, Referred
<1>3. limiter[l] \in [max : Nat, taken : Nat]
  BY <1>2 DEF IInv, LimitersOK
<1>4. CASE req' = [req EXCEPT ![r] = NotHolding] /\ UNCHANGED limiter
  <2>1. NotHolding.pc = "idle" /\ NotHolding.lim = None
    BY DEF NotHolding
  <2>2. QED
    BY <1>2, <1>4, <2>1, NotHoldingOK, Aside
<1>5. CASE /\ Capped(l) => limiter[l].taken < limiter[l].max
           /\ limiter' = [limiter EXCEPT ![l].taken = IF Capped(l) THEN @ + 1 ELSE @]
           /\ req' = [req EXCEPT ![r].pc = "inside"]
  <2>1. PICK s : s = [req[r] EXCEPT !.pc = "inside"]
    OBVIOUS
  <2>2. PICK n : n = IF Capped(l) THEN limiter[l].taken + 1 ELSE limiter[l].taken
    OBVIOUS
  <2>3. s \in State /\ s.pc = "inside" /\ s.lim = l
    BY <1>1, <1>2, <2>1 DEF State
  <2>4. req' = [req EXCEPT ![r] = s]
    BY <1>2, <1>5, <2>1 DEF IInv, LimitersOK
  <2>5. n \in Nat
    BY <1>3, <2>2
  <2>6. limiter' = [limiter EXCEPT ![l].taken = n]
    BY <1>2, <1>5, <2>2 DEF IInv, LimitersOK
  <2>7. ASSUME Capped(l)
        PROVE  n = Cardinality(Inside(l)') /\ n <= limiter[l].max
    <3>1. n = limiter[l].taken + 1 /\ n <= limiter[l].max
      BY <1>3, <1>5, <2>2, <2>7
    <3>2. limiter[l].taken = Cardinality(Inside(l))
      BY <1>2, <2>7 DEF IInv, PlacesExact
    <3>3. Inside(l)' = Inside(l) \cup {r}
      <4>1. \A q \in Request : req'[q] = IF q = r THEN s ELSE req[q]
        BY <2>4 DEF IInv, LimitersOK
      <4>2. QED
        BY <2>3, <4>1 DEF Inside
    <3>4. r \notin Inside(l)
      BY <1>2 DEF Inside
    <3>5. Cardinality(Inside(l) \cup {r}) = Cardinality(Inside(l)) + 1
      BY <3>4, InsideFinite, FS_AddElement
    <3>6. QED
      BY <3>1, <3>2, <3>3, <3>5
  <2>8. Linked(s)
    BY <1>2, <2>3 DEF Linked
  <2>9. QED
    BY <1>1, <1>2, <2>3, <2>4, <2>5, <2>6, <2>7, <2>8, PassKeeps
<1>6. QED
  BY <1>1, <1>4, <1>5 DEF Acquire

LEMMA LeaveKeeps ==
  ASSUME IInv, NEW r \in Request, Leave(r)
  PROVE  IInv'
<1>1. PICK l : l = req[r].lim
  OBVIOUS
<1>2. PICK n : n = IF Capped(l) THEN limiter[l].taken - 1 ELSE limiter[l].taken
  OBVIOUS
<1>3. /\ req[r].pc = "inside" /\ l \in Limiter /\ l \in Referred
      /\ req' = [req EXCEPT ![r] = NotHolding]
      /\ UNCHANGED <<profile, store>>
  BY <1>1 DEF Leave, RequestUnchanged, reg, IInv, LimitersOK, Linked, Referred
<1>4. limiter[l] \in [max : Nat, taken : Nat]
  BY <1>3 DEF IInv, LimitersOK
<1>5. NotHolding.pc = "idle" /\ NotHolding.lim = None
  BY DEF NotHolding
<1>6. limiter' = [limiter EXCEPT ![l].taken = n]
  BY <1>1, <1>2, <1>3 DEF Leave, IInv, LimitersOK
<1>7. r \in Inside(l) /\ Inside(l)' = Inside(l) \ {r}
  <2>1. \A q \in Request : req'[q] = IF q = r THEN NotHolding ELSE req[q]
    BY <1>3 DEF IInv, LimitersOK
  <2>2. QED
    BY <1>1, <1>3, <1>5, <2>1 DEF Inside
<1>8. Cardinality(Inside(l)') = Cardinality(Inside(l)) - 1 /\ Cardinality(Inside(l)) \in Nat \ {0}
  BY <1>7, InsideFinite, FS_RemoveElement, FS_CardinalityType, FS_EmptySet
<1>9. ASSUME Capped(l)
      PROVE  limiter[l].taken = Cardinality(Inside(l)) /\ limiter[l].taken <= limiter[l].max
  BY <1>3, <1>9 DEF IInv, PlacesExact
<1>10. n \in Nat
  BY <1>2, <1>4, <1>8, <1>9
<1>11. Capped(l) => n = Cardinality(Inside(l)') /\ n <= limiter[l].max
  BY <1>2, <1>4, <1>8, <1>9
<1>12. QED
  BY <1>1, <1>3, <1>5, <1>6, <1>10, <1>11, NotHoldingOK, PassKeeps

-----------------------------------------------------------------------------
(* The theorems.                                                           *)

LEMMA InitIInv ==
  Init => IInv
<1> SUFFICES ASSUME Init PROVE IInv
  OBVIOUS
<1>1. ProfileOK
  BY DEF Init, ProfileOK, NoProfile
<1>2. \A r \in Request : req[r] = NotHolding
  BY DEF Init
<1>3. LimitersOK /\ \A r \in Request : Linked(req[r])
  BY <1>2, NotHoldingOK DEF Init, LimitersOK
<1>4. Limiter \cap Referred = {}
  BY <1>2, Constants DEF Init, Referred, NotHolding
<1>5. QED
  BY <1>1, <1>3, <1>4 DEF IInv, PlacesExact

LEMMA NextIInv ==
  IInv /\ [Next]_vars => IInv'
<1> SUFFICES ASSUME IInv, [Next]_vars PROVE IInv'
  OBVIOUS
<1>1. CASE WriteFile \/ RemoveFile \/ Api \/ Watch \/ Shutdown \/ \E a \in Applier : Callback(a)
  BY <1>1, OthersKeep
<1>2. ASSUME NEW r \in Request, Client(r)
      PROVE  IInv'
  BY <1>2, LookKeeps, GetKeeps, AcquireKeeps, LeaveKeeps DEF Client
<1>3. CASE UNCHANGED vars
  <2>1. UNCHANGED <<profile, store, limiter, req>>
    BY <1>3 DEF vars, reg
  <2>2. ProfileOK' /\ store' \in {store, None} /\ UNCHANGED <<limiter, req>>
    BY <2>1 DEF IInv, ProfileOK
  <2>3. QED
    BY <2>2, StoreKept
<1>4. QED
  BY <1>1, <1>2, <1>3 DEF Next

\* The invariant holds whatever is edited, announced, reset and requested
\* (agent-gateway/agent_chat.go, profile_limits.go and registry/).
THEOREM Invariant == Spec => []IInv
BY InitIInv, NextIInv, PTL DEF Spec

\* A limiter in use counts exactly the requests that went in through it, and no more
\* than its limit are in, however often the registry replaces it under them
\* (profileLimiter.Acquire, its release, and limiterStore.Reset).
THEOREM LimitersExact == Spec => []PlacesExact
BY Invariant, PTL DEF IInv

-----------------------------------------------------------------------------
(* The types of the rest: the file, the watcher and its events.            *)

ProfileType == profile \in {NoProfile} \cup [version : Version, source : {"builtin", "override", "api"}]
FileType == file \in Content /\ fsq \in Seq({"write", "remove"}) /\ edits \in 0..MaxEdits
WatchType ==
  /\ watcher \in {"off", "on", "announcing", "closed"}
  /\ {timer, done, ended, panicked, raced} \subseteq BOOLEAN
  /\ api \in {"idle", "deleting"} \cup Version
ApplierType == applier \in [Applier -> {"idle", "started"} \cup Content \cup Event]
OutType == out \in Seq(Event) /\ Len(out) <= OutCap

LEMMA EditTypes ==
  ASSUME FileType, WatchType, NEW v \in Content, NEW kind \in {"write", "remove"}, Edit(v, kind)
  PROVE  FileType' /\ raced' \in BOOLEAN /\ UNCHANGED profile
<1>1. edits' \in 0..MaxEdits
  BY ProfilesAssumption DEF Edit, FileType
<1>2. fsq' \in Seq({"write", "remove"}) /\ file' \in Content
  BY DEF Edit, FileType
<1>3. raced' \in BOOLEAN
  BY DEF Edit, WatchType, Overtaken
<1>4. QED
  BY <1>1, <1>2, <1>3 DEF Edit, FileType

LEMMA TypesStep ==
  ASSUME TypeOK, Next
  PROVE  ProfileType' /\ FileType' /\ WatchType' /\ ApplierType' /\ OutType'
<1> USE DEF TypeOK, ProfileType, FileType, WatchType, ApplierType, OutType
<1>1. CASE WriteFile \/ RemoveFile
  <2>1. PICK v \in Content, kind \in {"write", "remove"} : Edit(v, kind)
    BY <1>1 DEF WriteFile, RemoveFile, Content
  <2>2. FileType' /\ raced' \in BOOLEAN /\ UNCHANGED profile
    BY <2>1, EditTypes
  <2>3. UNCHANGED <<watch, api>>
    BY <1>1 DEF WriteFile, RemoveFile
  <2>4. QED
    BY <2>2, <2>3 DEF watch
<1>2. CASE Api
  <2>1. CASE RegisterAgent
    BY <2>1 DEF RegisterAgent, SetProfile, watch, Looking
  <2>2. CASE CommitProfile
    <3>1. FileType' /\ raced' \in BOOLEAN /\ UNCHANGED profile
      BY <2>2, EditTypes DEF CommitProfile, reg, Content
    <3>2. QED
      BY <2>2, <3>1 DEF CommitProfile, watch
  <2>3. CASE RemoveAgent
    BY <2>3 DEF RemoveAgent, watch, Looking
  <2>4. CASE RemoveProfileFile
    <3>1. FileType' /\ raced' \in BOOLEAN /\ UNCHANGED profile
      BY <2>4, EditTypes DEF RemoveProfileFile, reg, Content
    <3>2. QED
      BY <2>4, <3>1 DEF RemoveProfileFile, watch
  <2>5. QED
    BY <1>2, <2>1, <2>2, <2>3, <2>4 DEF Api
<1>3. CASE Watch
  <2>1. CASE HandleFileEvent
    <3>1. fsq \in Seq({"write", "remove"}) /\ fsq' \in Seq({"write", "remove"})
      BY <2>1 DEF HandleFileEvent
    <3>2. profile' \in {profile, NoProfile} /\ raced' \in BOOLEAN
      BY <2>1 DEF HandleFileEvent, SetProfile
    <3>3. watcher' \in {"on", "announcing"} /\ timer' \in {timer, TRUE}
      BY <2>1 DEF HandleFileEvent
    <3>4. UNCHANGED <<file, edits, applier, out, done, ended, panicked, api>>
      BY <2>1 DEF HandleFileEvent
    <3>5. QED
      BY <3>1, <3>2, <3>3, <3>4
  <2>2. CASE Announce
    BY <2>2, ProfilesAssumption DEF Announce, reg, Event
  <2>3. CASE React
    <3>1. out \in Seq(Event) /\ out # <<>> /\ out' = Tail(out)
      BY <2>3 DEF React
    <3>2. out' \in Seq(Event) /\ Len(out') = Len(out) - 1
      BY <3>1
    <3>3. OutType'
      BY <3>2, ProfilesAssumption
    <3>4. UNCHANGED <<reg, watcher, timer, applier, done, ended, panicked, api, raced>>
      BY <2>3 DEF React
    <3>5. QED
      BY <3>3, <3>4 DEF reg
  <2>4. CASE StartWatch \/ StopWatch \/ EndOfEvents
    BY <2>4 DEF StartWatch, StopWatch, EndOfEvents, reg
  <2>5. QED
    BY <1>3, <2>1, <2>2, <2>3, <2>4 DEF Watch
<1>4. CASE Shutdown
  BY <1>4 DEF Shutdown, reg
<1>5. ASSUME NEW a \in Applier, Callback(a)
      PROVE  ProfileType' /\ FileType' /\ WatchType' /\ ApplierType' /\ OutType'
  <2>1. CASE Fire(a)
    BY <2>1 DEF Fire, WatcherUnchanged
  <2>2. CASE ReadOverride(a)
    BY <2>2 DEF ReadOverride, WatcherUnchanged
  <2>3. CASE ApplyOverride(a)
    <3>1. ProfileType' /\ raced' \in BOOLEAN
      <4>1. raced' \in BOOLEAN
        BY <2>3 DEF ApplyOverride, SetProfile
      <4>2. \/ profile' \in {profile, NoProfile}
            \/ applier[a] \in Version /\ profile' = [version |-> applier[a], source |-> "override"]
        BY <2>3 DEF ApplyOverride, SetProfile
      <4>3. QED
        BY <4>1, <4>2
    <3>2. PICK s \in {"idle"} \cup Event : applier' = [applier EXCEPT ![a] = s]
      BY <2>3 DEF ApplyOverride, Event
    <3>3. ApplierType'
      BY <3>2
    <3>4. UNCHANGED <<file, fsq, edits, watcher, timer, out, done, ended, panicked, api>>
      BY <2>3 DEF ApplyOverride, WatcherUnchanged
    <3>5. QED
      BY <3>1, <3>3, <3>4
  <2>4. CASE SendEvent(a)
    <3>1. ApplierType' /\ panicked' \in {panicked, TRUE}
      BY <2>4 DEF SendEvent
    <3>2. OutType'
      <4>1. CASE UNCHANGED out
        BY <4>1
      <4>2. CASE Len(out) < OutCap /\ out' = Append(out, applier[a])
        BY <2>4, <4>2, ProfilesAssumption DEF SendEvent
      <4>3. QED
        BY <2>4, <4>1, <4>2 DEF SendEvent
    <3>3. UNCHANGED <<profile, file, fsq, edits, watcher, timer, done, ended, api, raced>>
      BY <2>4 DEF SendEvent, WatcherUnchanged
    <3>4. QED
      BY <3>1, <3>2, <3>3
  <2>5. QED
    BY <1>5, <2>1, <2>2, <2>3, <2>4 DEF Callback
<1>6. ASSUME NEW r \in Request, Client(r)
      PROVE  ProfileType' /\ FileType' /\ WatchType' /\ ApplierType' /\ OutType'
  BY <1>6 DEF Client, Look, GetLimiter, Acquire, Leave, RequestUnchanged, reg, watch
<1>7. QED
  BY <1>1, <1>2, <1>3, <1>4, <1>5, <1>6 DEF Next

\* Every variable keeps to its type; the queue of announcements to its capacity
\* (Registry.Watch, applyOverrideFile, registerAgent, removeAgent).
THEOREM TypesKept == Spec => []TypeOK
<1>1. Init => TypeOK
  <2> SUFFICES ASSUME Init PROVE TypeOK
    OBVIOUS
  <2>1. profile \in {NoProfile} \cup [version : Version, source : {"builtin", "override", "api"}]
    BY DEF Init
  <2>2. LimitersOK
    BY InitIInv DEF IInv
  <2>3. out \in Seq(Event) /\ Len(out) <= OutCap /\ fsq \in Seq({"write", "remove"}) /\ edits \in 0..MaxEdits
    BY ProfilesAssumption DEF Init
  <2>4. QED
    BY <2>1, <2>2, <2>3 DEF Init, TypeOK, LimitersOK, State
<1>2. IInv' /\ TypeOK /\ [Next]_vars => TypeOK'
  <2> SUFFICES ASSUME IInv', TypeOK, [Next]_vars
               PROVE  TypeOK'
    OBVIOUS
  <2>1. CASE Next
    <3>1. LimitersOK'
      BY DEF IInv
    <3>2. ProfileType' /\ FileType' /\ WatchType' /\ ApplierType' /\ OutType'
      BY <2>1, TypesStep
    <3>3. QED
      BY <3>1, <3>2 DEF TypeOK, LimitersOK, State, ProfileType, FileType, WatchType, ApplierType, OutType
  <2>2. CASE UNCHANGED vars
    BY <2>2 DEF vars, reg, watch, TypeOK
  <2>3. QED
    BY <2>1, <2>2
<1>3. QED
  BY <1>1, <1>2, Invariant, PTL DEF Spec

-----------------------------------------------------------------------------
(* What a reload has still to do.                                          *)

Working == timer \/ \E a \in Applier : applier[a] \in {"started"} \cup Content

\* A reset of the limiter is on its way.
Due ==
  \/ \E i \in DOMAIN out : out[i] \in {"updated", "deleted"}
  \/ \E a \in Applier : applier[a] \in {"updated", "deleted"}
  \/ watcher = "announcing"

\* The last event still to be read is a removal only if the file is gone.
Queued ==
  /\ watcher = "off" => fsq = <<>>
  /\ watcher # "closed" /\ fsq # <<>> /\ fsq[Len(fsq)] = "remove" => file = "absent"

\* As long as nothing raced: what a callback has read is what the file says ...
ReadsFile == \A a \in Applier : applier[a] \in Content => applier[a] = file

\* ... a file that says something is in force, or will be, ...
Loaded == file \in Version => api # "idle" \/ Working \/ fsq # <<>> \/ profile.version = file

\* ... a file that is gone has left no trace, or its traces will be removed, ...
Cleared ==
  file = "absent" => api \in Version \/ Working \/ fsq # <<>> \/ profile.source \in {"none", "builtin"}

\* ... a request about to ask for its limiter has seen the profile, ...
LooksCurrent == \A r \in Looking : Present /\ req[r].seen = profile.version

\* ... and the limiter in the store is that of the profile, or will be reset.
Invalidated ==
  store # None =>
    Due \/ profile.source = "api" \/ (Present /\ limiter[store].max = Limit[profile.version])

Follows == ReadsFile /\ Loaded /\ Cleared /\ LooksCurrent /\ Invalidated

RInv == Queued /\ (~raced /\ watcher # "closed" => Follows)

-----------------------------------------------------------------------------
(* The steps.                                                              *)

LEMMA Apart ==
  /\ \A v \in Version : v \notin {"none", "idle", "started", "deleting", "absent", "broken",
                                  "added", "updated", "deleted", "error"}
  /\ \A v \in Content : v \notin {"none", "idle", "started", "added", "updated", "deleted", "error"}
  /\ NoProfile.version = "none" /\ NoProfile.source = "none"
  /\ \A v \in Version : \A s : [version |-> v, source |-> s] # NoProfile
BY ProfilesAssumption DEF Content, Event, NoProfile

\* The event an edit causes.
LEMMA EditQueues ==
  ASSUME TypeOK, RInv, NEW v \in Content, NEW kind \in {"write", "remove"}, Edit(v, kind),
         kind = "remove" => v = "absent", watcher' = watcher
  PROVE  /\ Queued' /\ file' = v /\ profile' = profile /\ (raced => raced')
         /\ ~raced' /\ watcher # "closed" => fsq' # <<>> /\ \A a \in Applier : applier[a] \notin Content
<1>1. fsq \in Seq({"write", "remove"}) /\ watcher \in {"off", "on", "announcing", "closed"}
      /\ raced \in BOOLEAN
  BY DEF TypeOK
<1>2. file' = v /\ profile' = profile /\ raced' = (raced \/ Overtaken)
      /\ fsq' = IF watcher \in {"on", "announcing"} THEN Append(fsq, kind) ELSE fsq
  BY DEF Edit
<1>3. CASE watcher \in {"on", "announcing"}
  <2> DEFINE q == Append(fsq, kind)
  <2>1. q \in Seq({"write", "remove"}) /\ q # <<>> /\ Len(q) = Len(fsq) + 1 /\ q[Len(fsq) + 1] = kind
    BY <1>1, AppendProperties
  <2>2. fsq' = q
    BY <1>2, <1>3
  <2> HIDE DEF q
  <2>3. Queued'
    BY <1>2, <1>3, <2>1, <2>2 DEF Queued
  <2>4. ~raced' => \A a \in Applier : applier[a] \notin Content
    BY <1>1, <1>2 DEF Overtaken
  <2>5. QED
    BY <1>1, <1>2, <2>1, <2>2, <2>3, <2>4
<1>4. CASE watcher = "off"
  <2>1. fsq = <<>> /\ fsq' = fsq
    BY <1>2, <1>4 DEF RInv, Queued
  <2>2. raced'
    BY <1>2, <1>4 DEF Overtaken
  <2>3. QED
    BY <1>2, <1>4, <2>1, <2>2 DEF Queued
<1>5. CASE watcher = "closed"
  BY <1>1, <1>2, <1>5 DEF Queued
<1>6. QED
  BY <1>1, <1>3, <1>4, <1>5

\* An edit is all that happens, but for the handler of the API becoming idle.
LEMMA EditFollows ==
  ASSUME TypeOK, RInv, NEW v \in Content, NEW kind \in {"write", "remove"}, Edit(v, kind),
         kind = "remove" => v = "absent", UNCHANGED <<watch, store, limiter, req>>
  PROVE  RInv'
<1>1. /\ Queued' /\ file' = v /\ profile' = profile /\ (raced => raced')
      /\ (~raced' /\ watcher # "closed" => fsq' # <<>> /\ \A a \in Applier : applier[a] \notin Content)
  BY EditQueues DEF watch
<1>2. watcher' = watcher /\ applier' = applier /\ out' = out /\ timer' = timer
  BY DEF watch
<1>3. SUFFICES ASSUME ~raced', watcher' # "closed"
               PROVE  Follows'
  BY <1>1 DEF RInv
<1>4. Follows
  BY <1>1, <1>2, <1>3 DEF RInv
<1>5. ReadsFile'
  BY <1>1, <1>2, <1>3 DEF ReadsFile
<1>6. Loaded' /\ Cleared'
  BY <1>1, <1>2, <1>3 DEF Loaded, Cleared
<1>7. LooksCurrent'
  BY <1>1, <1>4 DEF Follows, LooksCurrent, Looking, Present
<1>8. Invalidated'
  BY <1>1, <1>2, <1>4 DEF Follows, Invalidated, Due, Present
<1>9. QED
  BY <1>5, <1>6, <1>7, <1>8 DEF Follows

LEMMA ApiKeeps ==
  ASSUME TypeOK, RInv, WriteFile \/ RemoveFile \/ Api
  PROVE  RInv'
<1>0. file \in Content /\ fsq \in Seq({"write", "remove"}) /\ api \in {"idle", "deleting"} \cup Version
      /\ raced \in BOOLEAN
  BY DEF TypeOK
<1>1. CASE WriteFile
  <2>1. PICK v \in Content : Edit(v, "write") /\ UNCHANGED <<watch, store, limiter, req>>
    BY <1>1 DEF WriteFile, Content
  <2>2. QED
    BY <2>1, EditFollows
<1>2. CASE RemoveFile
  <2>1. PICK kind \in {"write", "remove"} : Edit("absent", kind) /\ UNCHANGED <<watch, store, limiter, req>>
    BY <1>2 DEF RemoveFile
  <2>2. QED
    BY <2>1, EditFollows DEF Content
<1>3. CASE CommitProfile
  <2>1. CASE Edit(api, "write")
    <3>1. api \in Content /\ UNCHANGED <<watch, store, limiter, req>>
      BY <1>3 DEF CommitProfile, Content
    <3>2. QED
      BY <2>1, <3>1, EditFollows
  <2>2. CASE raced' = TRUE /\ UNCHANGED reg
    <3>1. UNCHANGED <<fsq, file, watcher>>
      BY <1>3, <2>2 DEF CommitProfile, reg, watch
    <3>2. QED
      BY <2>2, <3>1 DEF RInv, Queued
  <2>3. QED
    BY <1>3, <2>1, <2>2 DEF CommitProfile
<1>4. CASE RemoveProfileFile
  <2>1. UNCHANGED <<watch, store, limiter, req>> /\ api' = "idle" /\ api = "deleting"
    BY <1>4 DEF RemoveProfileFile
  <2>2. CASE file = "absent"
    <3>1. UNCHANGED <<reg, raced>>
      BY <1>4, <2>2 DEF RemoveProfileFile
    <3>2. UNCHANGED <<fsq, file, profile, watcher, timer, applier, out, raced>>
      BY <2>1, <3>1 DEF reg, watch
    <3>3. Queued'
      BY <3>2 DEF RInv, Queued
    <3>4. ASSUME Follows
          PROVE  Follows'
      <4>1. ReadsFile'
        BY <3>2, <3>4 DEF Follows, ReadsFile
      <4>2. Working' = Working
        BY <3>2 DEF Working
      <4>3. Loaded' /\ Cleared'
        BY <2>1, <2>2, <3>2, <3>4, <4>2, Apart DEF Follows, Loaded, Cleared
      <4>4. LooksCurrent'
        BY <2>1, <3>2, <3>4 DEF Follows, LooksCurrent, Looking, Present
      <4>5. Invalidated'
        BY <2>1, <3>2, <3>4 DEF Follows, Invalidated, Due, Present
      <4>6. QED
        BY <4>1, <4>3, <4>4, <4>5 DEF Follows
    <3>5. QED
      BY <3>2, <3>3, <3>4 DEF RInv
  <2>3. CASE file # "absent"
    <3>1. Edit("absent", "remove")
      BY <1>4, <2>3 DEF RemoveProfileFile
    <3>2. QED
      BY <2>1, <3>1, EditFollows DEF Content
  <2>4. QED
    BY <2>2, <2>3
<1>5. CASE RegisterAgent
  <2>1. PICK v \in Version : SetProfile([version |-> v, source |-> "api"]) /\ api' = v
    BY <1>5 DEF RegisterAgent
  <2>2. UNCHANGED <<file, fsq, edits, watch, store, limiter, req>>
    BY <1>5 DEF RegisterAgent
  <2>3. UNCHANGED <<watcher, timer, applier, out>>
    BY <2>2 DEF watch
  <2>4. profile' = [version |-> v, source |-> "api"] /\ raced' = (raced \/ (profile' # profile /\ Looking # {}))
    BY <2>1 DEF SetProfile
  <2>5. Queued'
    BY <2>2, <2>3 DEF RInv, Queued
  <2>6. ASSUME ~raced', Follows
        PROVE  Follows'
    <3>1. ReadsFile'
      BY <2>2, <2>3, <2>6 DEF Follows, ReadsFile
    <3>2. Loaded' /\ Cleared'
      BY <2>1, Apart DEF Loaded, Cleared
    <3>3. LooksCurrent'
      BY <2>2, <2>4, <2>6 DEF Follows, LooksCurrent, Looking, Present
    <3>4. profile'.source = "api"
      BY <2>4
    <3>5. Invalidated'
      BY <3>4 DEF Invalidated
    <3>6. QED
      BY <3>1, <3>2, <3>3, <3>5 DEF Follows
  <2>7. QED
    BY <1>0, <2>3, <2>4, <2>5, <2>6 DEF RInv
<1>6. CASE RemoveAgent
  <2>1. UNCHANGED <<file, fsq, edits, watch, store, limiter, req>> /\ profile' = NoProfile /\ api' = "deleting"
        /\ raced' = (raced \/ store # None \/ Looking # {})
    BY <1>6 DEF RemoveAgent
  <2>2. UNCHANGED <<watcher, timer, applier, out>>
    BY <2>1 DEF watch
  <2>3. Queued'
    BY <2>1, <2>2 DEF RInv, Queued
  <2>4. ASSUME ~raced', Follows
        PROVE  Follows'
    <3>1. ReadsFile'
      BY <2>1, <2>2, <2>4 DEF Follows, ReadsFile
    <3>2. Loaded' /\ Cleared'
      BY <2>1, Apart DEF Loaded, Cleared
    <3>3. LooksCurrent'
      BY <2>1, <2>4 DEF LooksCurrent, Looking
    <3>4. Invalidated'
      BY <2>1, <2>4 DEF Invalidated
    <3>5. QED
      BY <3>1, <3>2, <3>3, <3>4 DEF Follows
  <2>5. QED
    BY <1>0, <2>1, <2>2, <2>3, <2>4 DEF RInv
<1>7. QED
  BY <1>1, <1>2, <1>3, <1>4, <1>5, <1>6 DEF Api

-----------------------------------------------------------------------------
(* The steps of the reload.                                               *)

\* Nothing the reload looks at has moved, but perhaps the watch has ended.
LEMMA NothingMoves ==
  ASSUME RInv, UNCHANGED <<file, profile, fsq, timer, applier, out, api, store, limiter, req, raced>>,
         watcher' = watcher \/ (watcher = "off" /\ watcher' = "on") \/ watcher' = "closed"
  PROVE  RInv'
<1>1. Queued'
  BY DEF RInv, Queued
<1>2. ASSUME Follows, watcher' # "closed"
      PROVE  Follows'
  <2>1. Working' = Working /\ Looking' = Looking /\ Present' = Present
    BY DEF Working, Looking, Present
  <2>2. Due => Due'
    BY <1>2 DEF Due
  <2>3. ReadsFile' /\ Loaded' /\ Cleared' /\ LooksCurrent' /\ Invalidated'
    BY <1>2, <2>1, <2>2 DEF Follows, ReadsFile, Loaded, Cleared, LooksCurrent, Invalidated
  <2>4. QED
    BY <2>3 DEF Follows
<1>3. QED
  BY <1>1, <1>2 DEF RInv

LEMMA HandleFileEventKeeps ==
  ASSUME TypeOK, RInv, HandleFileEvent
  PROVE  RInv'
<1>1. /\ watcher = "on" /\ fsq # <<>> /\ fsq' = Tail(fsq) /\ watcher' \in {"on", "announcing"}
      /\ UNCHANGED <<file, edits, applier, out, done, ended, panicked, api, store, limiter, req>>
  BY DEF HandleFileEvent
<1>2. fsq \in Seq({"write", "remove"}) /\ file \in Content /\ raced \in BOOLEAN
  BY DEF TypeOK
<1>3. /\ Len(fsq) \in Nat /\ Len(fsq) > 0 /\ Head(fsq) = fsq[1]
      /\ fsq' \in Seq({"write", "remove"}) /\ Len(fsq') = Len(fsq) - 1
      /\ \A i \in 1..Len(fsq') : fsq'[i] = fsq[i + 1]
  BY <1>1, <1>2, HeadTailProperties, EmptySeq
<1>4. fsq' = <<>> <=> Len(fsq) = 1
  BY <1>3, EmptySeq
<1>5. fsq' # <<>> => fsq'[Len(fsq')] = fsq[Len(fsq)]
  <2> SUFFICES ASSUME fsq' # <<>>
               PROVE  fsq'[Len(fsq')] = fsq[Len(fsq)]
    OBVIOUS
  <2>1. Len(fsq') \in 1..Len(fsq') /\ Len(fsq') + 1 = Len(fsq)
    BY <1>3, <1>4
  <2>2. QED
    BY <1>3, <2>1
<1>6. Queued'
  BY <1>1, <1>5 DEF RInv, Queued
<1>7. CASE Head(fsq) = "write" /\ timer' = TRUE /\ UNCHANGED <<profile, watcher, raced>>
  <2>1. Working'
    BY <1>7 DEF Working
  <2>2. ASSUME Follows
        PROVE  Follows'
    <3>1. ReadsFile' /\ Loaded' /\ Cleared'
      BY <1>1, <2>1, <2>2 DEF Follows, ReadsFile, Loaded, Cleared
    <3>2. LooksCurrent' /\ Invalidated'
      BY <1>1, <1>7, <2>2 DEF Follows, LooksCurrent, Looking, Present, Invalidated, Due
    <3>3. QED
      BY <3>1, <3>2 DEF Follows
  <2>3. QED
    BY <1>6, <1>7, <2>2 DEF RInv
<1>8. CASE /\ Head(fsq) = "remove" /\ SetProfile(NoProfile)
           /\ watcher' = IF Present THEN "announcing" ELSE "on"
           /\ UNCHANGED timer
  <2>1. profile' = NoProfile /\ raced' = (raced \/ (NoProfile # profile /\ Looking # {}))
    BY <1>8 DEF SetProfile
  <2>2. ASSUME ~raced', Follows
        PROVE  Follows'
    <3>1. ReadsFile'
      BY <1>1, <2>2 DEF Follows, ReadsFile
    <3>2. Loaded'
      <4>1. file \in Version => fsq' # <<>>
        BY <1>1, <1>3, <1>4, <1>8, Apart DEF RInv, Queued
      <4>2. QED
        BY <1>1, <4>1 DEF Loaded
    <3>3. Cleared'
      BY <2>1, Apart DEF Cleared
    <3>4. LooksCurrent'
      BY <1>1, <2>1, <2>2 DEF Follows, LooksCurrent, Looking, Present
    <3>5. Invalidated'
      BY <1>1, <1>8, <2>2, Apart DEF Follows, Invalidated, Due, Present
    <3>6. QED
      BY <3>1, <3>2, <3>3, <3>4, <3>5 DEF Follows
  <2>3. QED
    BY <1>1, <1>2, <1>6, <2>1, <2>2 DEF RInv
<1>9. QED
  BY <1>7, <1>8 DEF HandleFileEvent

\* An event is added to the channel's.
LEMMA Announced ==
  ASSUME out \in Seq(Event), NEW e \in Event
  PROVE  LET q == Append(out, e)
         IN /\ \A i \in DOMAIN out : i \in DOMAIN q /\ q[i] = out[i]
            /\ \E i \in DOMAIN q : q[i] = e
<1> DEFINE q == Append(out, e)
<1>1. /\ q \in Seq(Event) /\ Len(q) = Len(out) + 1 /\ q[Len(out) + 1] = e
      /\ \A i \in 1..Len(out) : q[i] = out[i]
  BY AppendProperties
<1>2. Len(out) \in Nat /\ DOMAIN out = 1..Len(out)
  BY LenProperties
<1> HIDE DEF q
<1>3. DOMAIN q = 1..Len(out) + 1
  BY <1>1, LenProperties
<1>4. /\ \A i \in DOMAIN out : i \in DOMAIN q /\ q[i] = out[i]
      /\ \E i \in DOMAIN q : q[i] = e
  BY <1>1, <1>2, <1>3
<1>5. QED
  BY <1>4 DEF q

LEMMA AnnounceKeeps ==
  ASSUME TypeOK, RInv, Announce
  PROVE  RInv'
<1>1. /\ watcher = "announcing" /\ out' = Append(out, "deleted") /\ watcher' = "on"
      /\ UNCHANGED <<file, profile, fsq, timer, applier, api, store, limiter, req, raced>>
  BY DEF Announce, reg
<1>2. Queued'
  BY <1>1 DEF RInv, Queued
<1>3. Due'
  BY <1>1, Announced DEF Due, TypeOK, Event
<1>4. ASSUME Follows
      PROVE  Follows'
  <2>1. Working' = Working /\ Looking' = Looking /\ Present' = Present
    BY <1>1 DEF Working, Looking, Present
  <2>2. ReadsFile' /\ Loaded' /\ Cleared' /\ LooksCurrent'
    BY <1>1, <1>4, <2>1 DEF Follows, ReadsFile, Loaded, Cleared, LooksCurrent
  <2>3. QED
    BY <1>3, <2>2 DEF Follows, Invalidated
<1>5. QED
  BY <1>1, <1>2, <1>4 DEF RInv

LEMMA ReactKeeps ==
  ASSUME TypeOK, RInv, React
  PROVE  RInv'
<1>1. /\ out # <<>> /\ out' = Tail(out)
      /\ store' = IF Head(out) \in {"updated", "deleted"} THEN None ELSE store
      /\ UNCHANGED <<file, profile, fsq, watcher, timer, applier, api, limiter, req, raced>>
  BY DEF React, reg
<1>2. Queued'
  BY <1>1 DEF RInv, Queued
<1>3. ASSUME Follows
      PROVE  Follows'
  <2>1. Working' = Working /\ Looking' = Looking /\ Present' = Present
    BY <1>1 DEF Working, Looking, Present
  <2>2. ReadsFile' /\ Loaded' /\ Cleared' /\ LooksCurrent'
    BY <1>1, <1>3, <2>1 DEF Follows, ReadsFile, Loaded, Cleared, LooksCurrent
  <2>3. Invalidated'
    <3>1. CASE Head(out) \in {"updated", "deleted"}
      BY <1>1, <3>1 DEF Invalidated
    <3>2. CASE Head(out) \notin {"updated", "deleted"}
      <4>1. Due => Due'
        <5>1. /\ out \in Seq(Event) /\ Len(out) \in Nat /\ DOMAIN out = 1..Len(out) /\ Head(out) = out[1]
              /\ out' \in Seq(Event) /\ Len(out') = Len(out) - 1 /\ DOMAIN out' = 1..Len(out')
              /\ \A i \in 1..Len(out') : out'[i] = out[i + 1]
          BY <1>1, HeadTailProperties, LenProperties DEF TypeOK
        <5>2. ASSUME NEW i \in DOMAIN out, out[i] \in {"updated", "deleted"}
              PROVE  \E j \in DOMAIN out' : out'[j] \in {"updated", "deleted"}
          <6>1. i # 1
            BY <3>2, <5>1, <5>2
          <6>2. i - 1 \in DOMAIN out' /\ (i - 1) + 1 = i
            BY <5>1, <5>2, <6>1
          <6>3. out'[i - 1] = out[i]
            BY <5>1, <6>2
          <6>4. QED
            BY <5>2, <6>2, <6>3
        <5>3. QED
          BY <1>1, <5>2 DEF Due
      <4>2. QED
        BY <1>1, <1>3, <2>1, <3>2, <4>1 DEF Follows, Invalidated
    <3>3. QED
      BY <3>1, <3>2
  <2>4. QED
    BY <2>2, <2>3 DEF Follows
<1>4. QED
  BY <1>1, <1>2, <1>3 DEF RInv

LEMMA WatchKeeps ==
  ASSUME TypeOK, RInv, Watch \/ Shutdown
  PROVE  RInv'
<1>1. StartWatch \/ StopWatch \/ EndOfEvents \/ Shutdown =>
        /\ UNCHANGED <<file, profile, fsq, timer, applier, out, api, store, limiter, req, raced>>
        /\ watcher' = watcher \/ (watcher = "off" /\ watcher' = "on") \/ watcher' = "closed"
  BY DEF StartWatch, StopWatch, EndOfEvents, Shutdown, reg
<1>2. QED
  BY <1>1, NothingMoves, HandleFileEventKeeps, AnnounceKeeps, ReactKeeps DEF Watch

LEMMA FireKeeps ==
  ASSUME TypeOK, RInv, NEW a \in Applier, Fire(a)
  PROVE  RInv'
<1>1. /\ applier[a] = "idle" /\ applier' = [applier EXCEPT ![a] = "started"]
      /\ UNCHANGED <<file, profile, fsq, watcher, out, api, store, limiter, req, raced>>
  BY DEF Fire, WatcherUnchanged
<1>2. applier'[a] = "started" /\ \A b \in Applier : b # a => applier'[b] = applier[b]
  BY <1>1 DEF TypeOK
<1>3. Queued'
  BY <1>1 DEF RInv, Queued
<1>4. ASSUME Follows
      PROVE  Follows'
  <2>1. Working' /\ Looking' = Looking /\ Present' = Present
    BY <1>1, <1>2 DEF Working, Looking, Present
  <2>2. ReadsFile'
    BY <1>1, <1>2, <1>4, Apart DEF Follows, ReadsFile
  <2>3. Due => Due'
    BY <1>1, <1>2 DEF Due
  <2>4. Loaded' /\ Cleared' /\ LooksCurrent' /\ Invalidated'
    BY <1>1, <1>4, <2>1, <2>3 DEF Follows, Loaded, Cleared, LooksCurrent, Invalidated
  <2>5. QED
    BY <2>2, <2>4 DEF Follows
<1>5. QED
  BY <1>1, <1>3, <1>4 DEF RInv

LEMMA ReadOverrideKeeps ==
  ASSUME TypeOK, RInv, NEW a \in Applier, ReadOverride(a)
  PROVE  RInv'
<1>1. /\ applier[a] = "started" /\ applier' = [applier EXCEPT ![a] = file]
      /\ UNCHANGED <<file, profile, fsq, watcher, timer, out, api, store, limiter, req, raced>>
  BY DEF ReadOverride, WatcherUnchanged
<1>2. applier'[a] = file /\ file \in Content /\ \A b \in Applier : b # a => applier'[b] = applier[b]
  BY <1>1 DEF TypeOK
<1>3. Queued'
  BY <1>1 DEF RInv, Queued
<1>4. ASSUME Follows
      PROVE  Follows'
  <2>1. Working' /\ Looking' = Looking /\ Present' = Present
    BY <1>1, <1>2 DEF Working, Looking, Present
  <2>2. ReadsFile'
    BY <1>1, <1>2, <1>4 DEF Follows, ReadsFile
  <2>3. Due => Due'
    BY <1>1, <1>2 DEF Due
  <2>4. Loaded' /\ Cleared' /\ LooksCurrent' /\ Invalidated'
    BY <1>1, <1>4, <2>1, <2>3 DEF Follows, Loaded, Cleared, LooksCurrent, Invalidated
  <2>5. QED
    BY <2>2, <2>4 DEF Follows
<1>5. QED
  BY <1>1, <1>3, <1>4 DEF RInv

LEMMA ApplyOverrideKeeps ==
  ASSUME TypeOK, RInv, NEW a \in Applier, ApplyOverride(a)
  PROVE  RInv'
<1>1. /\ applier[a] \in Content
      /\ UNCHANGED <<file, fsq, watcher, timer, out, api, store, limiter, req>>
  BY DEF ApplyOverride, WatcherUnchanged
<1>2. PICK s \in {"idle"} \cup Event : applier' = [applier EXCEPT ![a] = s]
  BY DEF ApplyOverride, Event
<1>3. applier'[a] = s /\ s \notin Content /\ \A b \in Applier : b # a => applier'[b] = applier[b]
  BY <1>2, Apart DEF TypeOK, Event
<1>4. Queued'
  BY <1>1 DEF RInv, Queued
<1>5. raced \in BOOLEAN
  BY DEF TypeOK
<1>6. ASSUME Follows
      PROVE  applier[a] = file /\ ReadsFile' /\ (Due => Due')
  <2>1. applier[a] = file /\ ReadsFile'
    BY <1>1, <1>3, <1>6 DEF Follows, ReadsFile
  <2>2. Due => Due'
    BY <1>1, <1>3, Apart DEF Due
  <2>3. QED
    BY <2>1, <2>2
<1>7. CASE /\ applier[a] \in Version
           /\ SetProfile([version |-> applier[a], source |-> "override"])
           /\ applier' = [applier EXCEPT ![a] = IF Present THEN "updated" ELSE "added"]
  <2>1. /\ profile' = [version |-> applier[a], source |-> "override"]
        /\ raced' = (raced \/ (profile' # profile /\ Looking # {}))
    BY <1>7 DEF SetProfile
  <2>2. profile'.version = applier[a] /\ profile' # NoProfile
    BY <1>7, <2>1, Apart
  <2>3. ASSUME ~raced', Follows
        PROVE  Follows'
    <3>1. Loaded' /\ Cleared'
      BY <1>1, <1>6, <1>7, <2>2, <2>3, Apart DEF Loaded, Cleared
    <3>2. LooksCurrent'
      BY <1>1, <2>1, <2>2, <2>3 DEF Follows, LooksCurrent, Looking, Present
    <3>3. Invalidated'
      <4>1. CASE Present
        <5>1. applier'[a] = "updated"
          BY <1>7, <4>1 DEF TypeOK
        <5>2. Due'
          BY <5>1 DEF Due
        <5>3. QED
          BY <5>2 DEF Invalidated
      <4>2. CASE ~Present
        <5>1. store # None => Due
          BY <2>3, <4>2, Apart DEF Follows, Invalidated, Present
        <5>2. QED
          BY <1>1, <1>6, <2>3, <5>1 DEF Invalidated
      <4>3. QED
        BY <4>1, <4>2
    <3>4. QED
      BY <1>6, <2>3, <3>1, <3>2, <3>3 DEF Follows
  <2>4. QED
    BY <1>1, <1>4, <1>5, <2>1, <2>3 DEF RInv
<1>8. CASE /\ applier[a] = "absent"
           /\ SetProfile(NoProfile)
           /\ applier' = [applier EXCEPT ![a] = IF Present THEN "deleted" ELSE "idle"]
  <2>1. /\ profile' = NoProfile
        /\ raced' = (raced \/ (NoProfile # profile /\ Looking # {}))
    BY <1>8 DEF SetProfile
  <2>2. ASSUME ~raced', Follows
        PROVE  Follows'
    <3>1. Loaded' /\ Cleared'
      BY <1>1, <1>6, <1>8, <2>1, <2>2, Apart DEF Loaded, Cleared
    <3>2. LooksCurrent'
      BY <1>1, <2>1, <2>2 DEF Follows, LooksCurrent, Looking, Present
    <3>3. Invalidated'
      <4>1. CASE Present
        <5>1. applier'[a] = "deleted"
          BY <1>8, <4>1 DEF TypeOK
        <5>2. Due'
          BY <5>1 DEF Due
        <5>3. QED
          BY <5>2 DEF Invalidated
      <4>2. CASE ~Present
        <5>1. store # None => Due
          BY <2>2, <4>2, Apart DEF Follows, Invalidated, Present
        <5>2. QED
          BY <1>1, <1>6, <2>2, <5>1 DEF Invalidated
      <4>3. QED
        BY <4>1, <4>2
    <3>4. QED
      BY <1>6, <2>2, <3>1, <3>2, <3>3 DEF Follows
  <2>3. QED
    BY <1>1, <1>4, <1>5, <2>1, <2>2 DEF RInv
<1>9. CASE applier[a] = "broken" /\ UNCHANGED <<profile, raced>>
  <2>1. ASSUME Follows
        PROVE  Follows'
    <3>1. Loaded' /\ Cleared'
      BY <1>1, <1>6, <1>9, <2>1, Apart DEF Loaded, Cleared
    <3>2. LooksCurrent' /\ Invalidated'
      BY <1>1, <1>6, <1>9, <2>1 DEF Follows, LooksCurrent, Looking, Present, Invalidated
    <3>3. QED
      BY <1>6, <2>1, <3>1, <3>2 DEF Follows
  <2>2. QED
    BY <1>1, <1>4, <1>9, <2>1 DEF RInv
<1>10. QED
  BY <1>7, <1>8, <1>9 DEF ApplyOverride

LEMMA SendEventKeeps ==
  ASSUME TypeOK, RInv, NEW a \in Applier, SendEvent(a)
  PROVE  RInv'
<1>1. /\ applier[a] \in Event /\ applier' = [applier EXCEPT ![a] = "idle"]
      /\ UNCHANGED <<file, profile, fsq, watcher, timer, api, store, limiter, req, raced>>
  BY DEF SendEvent, WatcherUnchanged
<1>2. applier'[a] = "idle" /\ \A b \in Applier : b # a => applier'[b] = applier[b]
  BY <1>1 DEF TypeOK
<1>3. Queued'
  BY <1>1 DEF RInv, Queued
<1>4. ASSUME Follows, watcher # "closed"
      PROVE  Follows'
  <2>1. Looking' = Looking /\ Present' = Present
    BY <1>1 DEF Looking, Present
  <2>2. Working' = Working
    <3>1. applier[a] \notin {"started"} \cup Content /\ applier'[a] \notin {"started"} \cup Content
      BY <1>1, <1>2, Apart DEF Event
    <3>2. \A b \in Applier : applier'[b] \in {"started"} \cup Content <=> applier[b] \in {"started"} \cup Content
      BY <1>2, <3>1
    <3>3. QED
      BY <1>1, <3>2 DEF Working
  <2>3. ReadsFile'
    BY <1>1, <1>2, <1>4, Apart DEF Follows, ReadsFile
  <2>4. Due => Due'
    <3>1. out' = Append(out, applier[a]) /\ out \in Seq(Event)
      BY <1>4 DEF SendEvent, TypeOK
    <3>2. /\ \A i \in DOMAIN out : i \in DOMAIN out' /\ out'[i] = out[i]
          /\ \E i \in DOMAIN out' : out'[i] = applier[a]
      BY <1>1, <3>1, Announced
    <3>3. CASE \E b \in Applier : applier[b] \in {"updated", "deleted"}
      BY <1>2, <3>2, <3>3 DEF Due
    <3>4. CASE watcher = "announcing" \/ \E i \in DOMAIN out : out[i] \in {"updated", "deleted"}
      BY <1>1, <3>2, <3>4 DEF Due
    <3>5. QED
      BY <3>3, <3>4 DEF Due
  <2>5. Loaded' /\ Cleared' /\ LooksCurrent' /\ Invalidated'
    BY <1>1, <1>4, <2>1, <2>2, <2>4 DEF Follows, Loaded, Cleared, LooksCurrent, Invalidated
  <2>6. QED
    BY <2>3, <2>5 DEF Follows
<1>5. QED
  BY <1>1, <1>3, <1>4 DEF RInv

LEMMA ClientKeepsReload ==
  ASSUME IInv, TypeOK, RInv, NEW r \in Request, Client(r)
  PROVE  RInv'
<1>1. UNCHANGED <<file, profile, fsq, watcher, timer, applier, out, api, raced>>
  BY DEF Client, Look, GetLimiter, Acquire, Leave, RequestUnchanged, reg, watch
<1>2. Queued'
  BY <1>1 DEF RInv, Queued
<1>3. /\ ReadsFile' = ReadsFile /\ Loaded' = Loaded /\ Cleared' = Cleared /\ Due' = Due /\ Present' = Present
  BY <1>1 DEF ReadsFile, Loaded, Cleared, Due, Present, Working
<1>4. LimitersOK /\ Linked(req[r])
  BY DEF IInv
<1>5. ASSUME Follows
      PROVE  LooksCurrent' /\ Invalidated'
  <2>1. CASE Look(r)
    <3>1. \A q \in Request : q # r => req'[q] = req[q]
      BY <1>4, <2>1 DEF Look, LimitersOK
    <3>2. req'[r].seen = profile.version /\ Present
      BY <1>4, <2>1 DEF Look, LimitersOK
    <3>3. LooksCurrent'
      BY <1>1, <1>3, <1>5, <3>1, <3>2 DEF Follows, LooksCurrent, Looking
    <3>4. UNCHANGED <<store, limiter>>
      BY <2>1 DEF Look
    <3>5. QED
      BY <1>1, <1>3, <1>5, <3>3, <3>4 DEF Follows, Invalidated
  <2>2. CASE GetLimiter(r)
    <3>1. r \in Looking /\ Present /\ req[r].seen = profile.version /\ req[r] \in State
      BY <1>4, <1>5, <2>2 DEF GetLimiter, Looking, Follows, LooksCurrent, LimitersOK
    <3>2. Looking' \subseteq Looking /\ \A q \in Looking' : req'[q] = req[q]
      <4>1. \A q \in Request : q # r => req'[q] = req[q]
        BY <1>4, <2>2 DEF GetLimiter, LimitersOK
      <4>2. req'[r].pc = "waiting"
        <5>1. PICK l : req' = [req EXCEPT ![r].pc = "waiting", ![r].lim = l, ![r].seen = "none"]
          BY <2>2 DEF GetLimiter
        <5>2. [req[r] EXCEPT !.pc = "waiting", !.lim = l, !.seen = "none"].pc = "waiting"
          BY <3>1 DEF State
        <5>3. req'[r] = [req[r] EXCEPT !.pc = "waiting", !.lim = l, !.seen = "none"]
          BY <1>4, <5>1 DEF LimitersOK
        <5>4. QED
          BY <5>2, <5>3
      <4>3. QED
        BY <4>1, <4>2 DEF Looking
    <3>3. LooksCurrent'
      BY <1>1, <1>3, <1>5, <3>2 DEF Follows, LooksCurrent
    <3>4. CASE store # None
      <4>1. UNCHANGED <<store, limiter>>
        BY <2>2, <3>4 DEF GetLimiter
      <4>2. QED
        BY <1>1, <1>3, <1>5, <3>3, <4>1 DEF Follows, Invalidated
    <3>5. CASE store = None
      <4>1. PICK l \in Limiter \ Referred :
              store' = l /\ limiter' = [limiter EXCEPT ![l] = [max |-> Limit[req[r].seen], taken |-> 0]]
        BY <2>2, <3>5 DEF GetLimiter
      <4>2. limiter'[store'].max = Limit[profile.version]
        BY <1>4, <3>1, <4>1 DEF LimitersOK
      <4>3. QED
        BY <1>1, <1>3, <3>1, <3>3, <4>2 DEF Invalidated
    <3>6. QED
      BY <3>4, <3>5
  <2>3. CASE Acquire(r) \/ Leave(r)
    <3>1. Looking' \subseteq Looking /\ \A q \in Looking' : req'[q] = req[q]
      <4>1. \A q \in Request : q # r => req'[q] = req[q]
        BY <1>4, <2>3 DEF Acquire, Leave, LimitersOK
      <4>2. req'[r].pc \in {"inside", "idle"}
        BY <1>4, <2>3 DEF Acquire, Leave, LimitersOK, NotHolding, State
      <4>3. QED
        BY <4>1, <4>2 DEF Looking
    <3>2. LooksCurrent'
      BY <1>1, <1>3, <1>5, <3>1 DEF Follows, LooksCurrent
    <3>3. store' = store
      BY <2>3 DEF Acquire, Leave
    <3>4. \A l \in Limiter : limiter'[l].max = limiter[l].max
      BY <1>4, <2>3 DEF Acquire, Leave, LimitersOK
    <3>5. QED
      BY <1>1, <1>3, <1>4, <1>5, <3>2, <3>3, <3>4 DEF Follows, Invalidated, LimitersOK
  <2>4. QED
    BY <2>1, <2>2, <2>3 DEF Client
<1>6. QED
  BY <1>1, <1>2, <1>3, <1>5 DEF RInv, Follows

LEMMA InitReload == Init => RInv
<1> SUFFICES ASSUME Init
             PROVE  RInv
  OBVIOUS
<1>1. Queued
  BY DEF Init, Queued
<1>2. ReadsFile
  BY Apart DEF Init, ReadsFile
<1>3. Loaded /\ Cleared
  BY Apart DEF Init, Loaded, Cleared, Content
<1>4. LooksCurrent /\ Invalidated
  BY DEF Init, LooksCurrent, Looking, Invalidated, NotHolding
<1>5. QED
  BY <1>1, <1>2, <1>3, <1>4 DEF RInv, Follows

\* When the reload has come to rest and no change came where it cannot be seen, the
\* profile is what the file says and the limiter in the store has its limits (Watch,
\* applyOverrideFile and the event loop of main.go).
THEOREM ReloadArrives == Spec => []ReloadSettles
<1>1. IInv /\ TypeOK /\ RInv /\ [Next]_vars => RInv'
  <2> SUFFICES ASSUME IInv, TypeOK, RInv, [Next]_vars
               PROVE  RInv'
    OBVIOUS
  <2>1. CASE UNCHANGED vars
    BY <2>1, NothingMoves DEF vars, reg, watch
  <2>2. ASSUME NEW a \in Applier, Callback(a)
        PROVE  RInv'
    BY <2>2, FireKeeps, ReadOverrideKeeps, ApplyOverrideKeeps, SendEventKeeps DEF Callback
  <2>3. QED
    BY <2>1, <2>2, ApiKeeps, WatchKeeps, ClientKeepsReload DEF Next
<1>2. TypeOK /\ RInv => ReloadSettles
  <2> SUFFICES ASSUME TypeOK, RInv, Quiet, ~raced
               PROVE  /\ file \in Version => profile.version = file
                      /\ file = "absent" => profile.source \in {"none", "builtin"}
                      /\ profile.source \in {"builtin", "override"} /\ store # None =>
                           limiter[store].max = Limit[profile.version]
    BY DEF ReloadSettles
  <2>1. Follows /\ api = "idle" /\ fsq = <<>>
    BY DEF RInv, Quiet
  <2>2. ~Working /\ ~Due
    BY Apart DEF Quiet, Working, Due
  <2>3. QED
    BY <2>1, <2>2, Apart DEF Follows, Loaded, Cleared, Invalidated
<1>3. QED
  BY <1>1, <1>2, InitReload, Invariant, TypesKept, PTL DEF Spec

=============================================================================
