------------------------------ MODULE Profiles ------------------------------
(***************************************************************************)
(* Profiles of the agent gateway: the registry with its override file, the *)
(* watcher that reloads it, the store of limiters built from the profiles, *)
(* and the requests that go through a limiter.  One profile name.          *)
(*                                                                         *)
(*   file --fsq--> watcher --timer--> appliers --out--> consumer --> store *)
(*                                       |                                 *)
(*                                    profile  <--- POST, DELETE           *)
(*                                                                         *)
(* Versions of the profile differ in their concurrency limit; 0 means no   *)
(* limit.  A limiter object nobody refers to may be handed out again as a  *)
(* new one.                                                                *)
(***************************************************************************)
EXTENDS Naturals, Sequences, FiniteSets

CONSTANTS
  Request, Applier, Limiter,
  Version,      \* versions of the profile
  Limit,        \* [Version -> the concurrency limit it declares]
  OutCap,       \* capacity of the event channel
  MaxEdits,     \* bound on changes to the override file, by hand or by a handler
  None

Event == {"added", "updated", "deleted", "error"}

ASSUME ProfilesAssumption ==
  /\ IsFiniteSet(Request) /\ IsFiniteSet(Limiter)
  /\ Limit \in [Version -> Nat]
  /\ Version \cap ({"none", "idle", "started", "deleting", "absent", "broken"} \cup Event) = {}
  /\ OutCap \in Nat \ {0} /\ MaxEdits \in Nat
  /\ None \notin Limiter

VARIABLES
  file,      \* the override file
  profile,   \* the registry's entry
  fsq,       \* file events the watcher has not read
  edits,     \* changes to the file so far
  watcher,   \* the loop of Watch
  timer,     \* the debounce timer runs
  applier,   \* its callbacks: not running, started, what they read, or what they announce
  out,       \* the event channel
  done,      \* the context is done
  ended,     \* the loop that reads the events has ended
  panicked,  \* the program has ended by a send on the closed channel
  api,       \* the handler of POST or DELETE
  store,     \* limiterStore: the limiter under the name
  limiter,   \* the limiter objects
  req,       \* the requests
  raced      \* a change came where the reload cannot see it (see Overtaken)

reg == <<file, profile, fsq, edits>>
watch == <<watcher, timer, applier, out, done, ended, panicked>>
vars == <<reg, watch, api, store, limiter, req, raced>>

NoProfile == [version |-> "none", source |-> "none"]
Present == profile # NoProfile
Content == Version \cup {"absent", "broken"}

\* Requests that have read the profile and not yet asked for its limiter.
Looking == {r \in Request : req[r].pc = "looked"}

\* A change of the file nobody will be told of in time: before the directory is
\* watched, or when a callback has read the file and not yet used it.
Overtaken == watcher = "off" \/ \E a \in Applier : applier[a] \in Content

SetProfile(p) ==
  /\ profile' = p
  /\ raced' = (raced \/ (p # profile /\ Looking # {}))

-----------------------------------------------------------------------------
(* The override file and the handlers that write it.                       *)

Edit(v, kind) ==
  /\ edits < MaxEdits
  /\ edits' = edits + 1
  /\ file' = v
  /\ fsq' = IF watcher \in {"on", "announcing"} THEN Append(fsq, kind) ELSE fsq
  /\ raced' = (raced \/ Overtaken)
  /\ UNCHANGED profile

\* An operator saves or removes the file (moving it away is a Rename event).
WriteFile == \E v \in Version \cup {"broken"} : Edit(v, "write") /\ UNCHANGED <<watch, api, store, limiter, req>>

RemoveFile ==
  /\ file # "absent"
  /\ \E kind \in {"write", "remove"} : Edit("absent", kind)
  /\ UNCHANGED <<watch, api, store, limiter, req>>

\* POST: the registry first ...
RegisterAgent ==
  /\ api = "idle"
  /\ edits < MaxEdits
  /\ \E v \in Version :
       /\ SetProfile([version |-> v, source |-> "api"])
       /\ api' = v
  /\ UNCHANGED <<file, fsq, edits, watch, store, limiter, req>>

\* ... then the file, by renaming a temporary one; any step of that may fail.
CommitProfile ==
  /\ api \in Version
  /\ api' = "idle"
  /\ \/ Edit(api, "write")
     \/ raced' = TRUE /\ UNCHANGED reg
  /\ UNCHANGED <<watch, store, limiter, req>>

\* DELETE: not for a built-in.  The watcher will find nothing to remove, and so
\* tell nobody that the limiter is out of date.
RemoveAgent ==
  /\ api = "idle"
  /\ Present /\ profile.source # "builtin"
  /\ profile' = NoProfile
  /\ api' = "deleting"
  /\ raced' = (raced \/ store # None \/ Looking # {})
  /\ UNCHANGED <<file, fsq, edits, watch, store, limiter, req>>

RemoveProfileFile ==
  /\ api = "deleting"
  /\ api' = "idle"
  /\ IF file = "absent" THEN UNCHANGED <<reg, raced>> ELSE Edit("absent", "remove")
  /\ UNCHANGED <<watch, store, limiter, req>>

-----------------------------------------------------------------------------
(* Registry.Watch: the loop, the debounce timer and its callbacks.         *)

StartWatch ==
  /\ watcher = "off"
  /\ watcher' = "on"
  /\ UNCHANGED <<reg, timer, applier, out, done, ended, panicked, api, store, limiter, req, raced>>

\* A write starts the timer again.  A removal takes effect at once, and leaves a
\* running timer alone; the loop then waits for room to announce it.
HandleFileEvent ==
  /\ watcher = "on"
  /\ fsq # <<>>
  /\ fsq' = Tail(fsq)
  /\ \/ /\ Head(fsq) = "write"
        /\ timer' = TRUE
        /\ UNCHANGED <<profile, watcher, raced>>
     \/ /\ Head(fsq) = "remove"
        /\ SetProfile(NoProfile)
        /\ watcher' = IF Present THEN "announcing" ELSE "on"
        /\ UNCHANGED timer
  /\ UNCHANGED <<file, edits, applier, out, done, ended, panicked, api, store, limiter, req>>

Announce ==
  /\ watcher = "announcing"
  /\ Len(out) < OutCap
  /\ out' = Append(out, "deleted")
  /\ watcher' = "on"
  /\ UNCHANGED <<reg, timer, applier, done, ended, panicked, api, store, limiter, req, raced>>

\* The context is done: the loop closes the channel.  It does not stop the timer.
StopWatch ==
  /\ done
  /\ watcher = "on"
  /\ watcher' = "closed"
  /\ UNCHANGED <<reg, timer, applier, out, done, ended, panicked, api, store, limiter, req, raced>>

WatcherUnchanged == UNCHANGED <<file, fsq, edits, watcher, done, ended, api, store, limiter, req>>

\* The timer's callback, applyOverrideFile, is a goroutine: it may be overtaken
\* by the callback of the next timer.
Fire(a) ==
  /\ timer
  /\ applier[a] = "idle"
  /\ timer' = FALSE
  /\ applier' = [applier EXCEPT ![a] = "started"]
  /\ UNCHANGED <<profile, out, panicked, raced>> /\ WatcherUnchanged

ReadOverride(a) ==
  /\ applier[a] = "started"
  /\ applier' = [applier EXCEPT ![a] = file]
  /\ UNCHANGED <<profile, timer, out, panicked, raced>> /\ WatcherUnchanged

\* What was read becomes the profile; a file that is gone takes it away.
ApplyOverride(a) ==
  /\ applier[a] \in Content
  /\ \/ /\ applier[a] \in Version
        /\ SetProfile([version |-> applier[a], source |-> "override"])
        /\ applier' = [applier EXCEPT ![a] = IF Present THEN "updated" ELSE "added"]
     \/ /\ applier[a] = "absent"
        /\ SetProfile(NoProfile)
        /\ applier' = [applier EXCEPT ![a] = IF Present THEN "deleted" ELSE "idle"]
     \/ /\ applier[a] = "broken"
        /\ applier' = [applier EXCEPT ![a] = "error"]
        /\ UNCHANGED <<profile, raced>>
  /\ UNCHANGED <<timer, out, panicked>> /\ WatcherUnchanged

\* Sending on a channel that has been closed meanwhile ends the program.
SendEvent(a) ==
  /\ applier[a] \in Event
  /\ applier' = [applier EXCEPT ![a] = "idle"]
  /\ \/ /\ watcher = "closed"
        /\ panicked' = TRUE
        /\ UNCHANGED out
     \/ /\ watcher # "closed"
        /\ Len(out) < OutCap
        /\ out' = Append(out, applier[a])
        /\ UNCHANGED panicked
  /\ UNCHANGED <<profile, timer, raced>> /\ WatcherUnchanged

\* Mutant of React: only deletions invalidate the limiter.
ReactToDeletion ==
  /\ ~ended
  /\ out # <<>>
  /\ out' = Tail(out)
  /\ store' = IF Head(out) = "deleted" THEN None ELSE store
  /\ UNCHANGED <<reg, watcher, timer, applier, done, ended, panicked, api, limiter, req, raced>>

\* Mutant of React: an event that carries an error ends the loop.
ReactAndGiveUp ==
  /\ ~ended
  /\ out # <<>>
  /\ out' = IF Head(out) = "error" THEN out ELSE Tail(out)
  /\ store' = IF Head(out) \in {"updated", "deleted"} THEN None ELSE store
  /\ UNCHANGED <<reg, watcher, timer, applier, done, ended, panicked, api, limiter, req, raced>>

\* main.go: the goroutine that reads the events.  An error is logged; an update or
\* a deletion resets the limiter.
React ==
  /\ ~ended
  /\ out # <<>>
  /\ out' = Tail(out)
  /\ store' = IF Head(out) \in {"updated", "deleted"} THEN None ELSE store
  /\ UNCHANGED <<reg, watcher, timer, applier, done, ended, panicked, api, limiter, req, raced>>

EndOfEvents ==
  /\ ~ended
  /\ out = <<>> /\ watcher = "closed"
  /\ ended' = TRUE
  /\ UNCHANGED <<reg, watcher, timer, applier, out, done, panicked, api, store, limiter, req, raced>>

Shutdown ==
  /\ ~done
  /\ done' = TRUE
  /\ UNCHANGED <<reg, watcher, timer, applier, out, ended, panicked, api, store, limiter, req, raced>>

-----------------------------------------------------------------------------
(* Requests and their limiter.                                             *)

RequestUnchanged == UNCHANGED <<reg, watch, api, raced>>

Look(r) ==
  /\ req[r].pc = "idle"
  /\ Present
  /\ req' = [req EXCEPT ![r] = [pc |-> "looked", seen |-> profile.version, lim |-> None]]
  /\ UNCHANGED <<store, limiter>> /\ RequestUnchanged

Referred == {store} \cup {req[r].lim : r \in Request}

\* limiterStore.Get: the one in the store, or a new one with the limits read above.
GetLimiter(r) ==
  /\ req[r].pc = "looked"
  /\ \/ /\ store # None
        /\ req' = [req EXCEPT ![r].pc = "waiting", ![r].lim = store, ![r].seen = "none"]
        /\ UNCHANGED <<store, limiter>>
     \/ /\ store = None
        /\ Limiter \ Referred # {}
        /\ LET l == CHOOSE l \in Limiter \ Referred : TRUE IN
             /\ store' = l
             /\ limiter' = [limiter EXCEPT ![l] = [max |-> Limit[req[r].seen], taken |-> 0]]
             /\ req' = [req EXCEPT ![r].pc = "waiting", ![r].lim = l, ![r].seen = "none"]
  /\ RequestUnchanged

NotHolding == [pc |-> "idle", seen |-> "none", lim |-> None]
Capped(l) == limiter[l].max > 0

\* A place in the channel, unless there is no limit; then the rate bucket, which may
\* refuse, and the place is given back.
Acquire(r) ==
  /\ req[r].pc = "waiting"
  /\ LET l == req[r].lim IN
       \/ /\ Capped(l) => limiter[l].taken < limiter[l].max
          /\ limiter' = [limiter EXCEPT ![l].taken = IF Capped(l) THEN @ + 1 ELSE @]
          /\ req' = [req EXCEPT ![r].pc = "inside"]
       \/ req' = [req EXCEPT ![r] = NotHolding] /\ UNCHANGED limiter
  /\ UNCHANGED store /\ RequestUnchanged

\* Mutant of Leave: the place is given back to the limiter now in the store.
LeaveCurrent(r) ==
  /\ req[r].pc = "inside"
  /\ req' = [req EXCEPT ![r] = NotHolding]
  /\ LET l == IF store # None THEN store ELSE req[r].lim IN
       limiter' = [limiter EXCEPT ![l].taken = IF Capped(l) /\ @ > 0 THEN @ - 1 ELSE @]
  /\ UNCHANGED store /\ RequestUnchanged

\* The deferred release, bound to the limiter that was acquired.
Leave(r) ==
  /\ req[r].pc = "inside"
  /\ req' = [req EXCEPT ![r] = NotHolding]
  /\ LET l == req[r].lim IN limiter' = [limiter EXCEPT ![l].taken = IF Capped(l) THEN @ - 1 ELSE @]
  /\ UNCHANGED store /\ RequestUnchanged

-----------------------------------------------------------------------------
\* LoadBuiltins, then LoadOverrides on top; the watch starts later.
Init ==
  /\ file \in Content
  /\ profile \in IF file \in Version THEN {[version |-> file, source |-> "override"]}
                 ELSE {NoProfile} \cup [version : Version, source : {"builtin"}]
  /\ fsq = <<>> /\ edits = 0
  /\ watcher = "off" /\ timer = FALSE /\ applier = [a \in Applier |-> "idle"]
  /\ out = <<>> /\ done = FALSE /\ ended = FALSE /\ panicked = FALSE
  /\ api = "idle"
  /\ store = None /\ limiter = [l \in Limiter |-> [max |-> 0, taken |-> 0]]
  /\ req = [r \in Request |-> NotHolding]
  /\ raced = FALSE

Api == RegisterAgent \/ CommitProfile \/ RemoveAgent \/ RemoveProfileFile
Watch == StartWatch \/ HandleFileEvent \/ Announce \/ StopWatch \/ React \/ EndOfEvents
Callback(a) == Fire(a) \/ ReadOverride(a) \/ ApplyOverride(a) \/ SendEvent(a)
Client(r) == Look(r) \/ GetLimiter(r) \/ Acquire(r) \/ Leave(r)

Next ==
  /\ ~panicked
  /\ \/ WriteFile \/ RemoveFile \/ Api \/ Watch \/ Shutdown
     \/ \E a \in Applier : Callback(a)
     \/ \E r \in Request : Client(r)

\* The watcher, the callbacks and the consumer keep going; edits, requests and a
\* shutdown may never come.
Fairness ==
  /\ WF_vars(~panicked /\ Watch)
  /\ \A a \in Applier : WF_vars(~panicked /\ Callback(a))

Spec == Init /\ [][Next]_vars /\ Fairness

-----------------------------------------------------------------------------
TypeOK ==
  /\ file \in Content
  /\ profile \in {NoProfile} \cup [version : Version, source : {"builtin", "override", "api"}]
  /\ fsq \in Seq({"write", "remove"})
  /\ edits \in 0..MaxEdits
  /\ watcher \in {"off", "on", "announcing", "closed"}
  /\ {timer, done, ended, panicked, raced} \subseteq BOOLEAN
  /\ applier \in [Applier -> {"idle", "started"} \cup Content \cup Event]
  /\ out \in Seq(Event) /\ Len(out) <= OutCap
  /\ api \in {"idle", "deleting"} \cup Version
  /\ store \in Limiter \cup {None}
  /\ limiter \in [Limiter -> [max : Nat, taken : Nat]]
  /\ req \in [Request -> [pc : {"idle", "looked", "waiting", "inside"},
                          seen : Version \cup {"none"}, lim : Limiter \cup {None}]]

Inside(l) == {r \in Request : req[r].pc = "inside" /\ req[r].lim = l}

\* Whatever resets, replacements and refusals happened, a limiter that is still in
\* use counts exactly the requests that entered through it, and never lets in more
\* than its limit (profileLimiter.Acquire and its release).
PlacesExact ==
  \A l \in Limiter \cap Referred : Capped(l) =>
    /\ limiter[l].taken = Cardinality(Inside(l))
    /\ limiter[l].taken <= limiter[l].max

Quiet ==
  /\ watcher = "on" /\ fsq = <<>> /\ ~timer /\ out = <<>> /\ api = "idle"
  /\ \A a \in Applier : applier[a] = "idle"

\* When the reload has come to rest, and no change slipped in where it cannot be
\* seen, the profile is what the file says and the limiter in force has the limits
\* of the profile (Watch, applyOverrideFile and the event loop of main.go).  A profile
\* still as POST left it, its file having been broken since, claims nothing.
ReloadSettles ==
  Quiet /\ ~raced =>
    /\ file \in Version => profile.version = file
    /\ file = "absent" => profile.source \in {"none", "builtin"}
    /\ profile.source \in {"builtin", "override"} /\ store # None =>
         limiter[store].max = Limit[profile.version]

\* A reload that has begun comes to rest: no event is stuck between the file system
\* and the store of limiters.  After a shutdown the channel is closed and the loop
\* that reads it ends, unless a callback was still to send: then the program ends by
\* the panic.
ReloadEnds ==
  []<>(ended \/ panicked \/ (~done /\ (Quiet \/ api # "idle")))

=============================================================================
