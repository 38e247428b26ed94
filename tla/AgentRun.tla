------------------------------ MODULE AgentRun ------------------------------
(***************************************************************************)
(* One agent-gateway request run by a profile's CLI, and the four          *)
(* goroutines it takes: the HTTP handler, the dispatcher (which is also    *)
(* the runner and the parser), the bridge between the runner's channel and *)
(* the handler's, and the CLI process.                                     *)
(*                                                                         *)
(*   CLI --pipe--> parser --rch--> bridge --events--> handler --> client   *)
(*                                                                         *)
(* When the client goes away the handler stops reading events and waits    *)
(* for the dispatcher's verdict, the bridge stops at its next event, and   *)
(* the CLI is killed; the parser sends to rch without looking at the       *)
(* context.                                                                *)
(***************************************************************************)
EXTENDS Naturals, FiniteSets

CONSTANTS
  Request,
  Concurrency,    \* the profile's limit
  MaxConcurrent,  \* the gateway's limit
  PipeCap,        \* lines the CLI's stdout pipe holds
  BridgeCap,      \* capacity of rch
  EventCap,       \* capacity of events
  MaxEvents       \* bound on the lines of output that make an event

ASSUME AgentAssumption ==
  /\ IsFiniteSet(Request)
  /\ {Concurrency, MaxConcurrent, PipeCap, BridgeCap, EventCap, MaxEvents} \subseteq Nat \ {0}

VARIABLES
  pc,     \* the handler of each request
  gone,   \* requests whose client has gone away
  slots,  \* places taken in the profile limiter's channel
  sem,    \* places taken in the gateway's channel
  run     \* [Request -> the run's state, a record]

vars == <<pc, gone, slots, sem, run>>

Run ==
  [step   : {"none", "checkout", "setup", "start", "parsing", "sending", "finishing",
             "waiting", "closing", "reported"},
   lease  : {"none", "held", "released"},
   dir    : BOOLEAN,                        \* the workspace exists
   cli    : {"none", "running", "exited"},
   pipe   : 0..PipeCap,
   rch    : 0..BridgeCap,
   bridge : {"off", "idle", "holding"},
   events : 0..EventCap,
   made   : Nat,                            \* events the runner has sent
   got    : Nat]                            \* events the handler has received

Fresh ==
  [step |-> "none", lease |-> "none", dir |-> FALSE, cli |-> "none", pipe |-> 0, rch |-> 0,
   bridge |-> "off", events |-> 0, made |-> 0, got |-> 0]

\* The request's context, which the handler, the bridge and the CLI watch.
Cancelled(r) == r \in gone

Becomes(r, s) == run' = [run EXCEPT ![r] = s]

-----------------------------------------------------------------------------
(* The handler.                                                            *)

\* The profile limiter: a place in the channel, then a token; without one the
\* place is given back.  (Both selects may also take a place for a client that
\* has gone.)
Acquire(r) ==
  /\ pc[r] = "new"
  /\ slots < Concurrency
  /\ \/ pc' = [pc EXCEPT ![r] = "admitted"] /\ slots' = slots + 1
     \/ pc' = [pc EXCEPT ![r] = "refused"] /\ UNCHANGED slots
  /\ UNCHANGED <<gone, sem, run>>

Serve(r) ==
  /\ pc[r] = "admitted"
  /\ sem < MaxConcurrent
  /\ sem' = sem + 1
  /\ pc' = [pc EXCEPT ![r] = "serving"]
  /\ Becomes(r, [run[r] EXCEPT !.step = "checkout"])
  /\ UNCHANGED <<gone, slots>>

\* The client leaves before there is a place for its request.
GiveUp(r) ==
  /\ r \in gone
  /\ pc[r] \in {"new", "admitted"}
  /\ slots' = IF pc[r] = "admitted" THEN slots - 1 ELSE slots
  /\ pc' = [pc EXCEPT ![r] = "refused"]
  /\ UNCHANGED <<gone, sem, run>>

Receive(r) ==
  /\ pc[r] = "serving"
  /\ run[r].events > 0
  /\ Becomes(r, [run[r] EXCEPT !.events = @ - 1, !.got = @ + 1])
  /\ UNCHANGED <<pc, gone, slots, sem>>

\* Mutant of StopReading: the loop ends when the runner has reported, with
\* events still in the channel.
StopReadingEarly(r) ==
  /\ pc[r] = "serving"
  /\ Cancelled(r) \/ run[r].step = "reported"
  /\ pc' = [pc EXCEPT ![r] = "joining"]
  /\ UNCHANGED <<gone, slots, sem, run>>

\* The context is done, or events is closed and empty.
StopReading(r) ==
  /\ pc[r] = "serving"
  /\ Cancelled(r) \/ (run[r].step = "reported" /\ run[r].events = 0)
  /\ pc' = [pc EXCEPT ![r] = "joining"]
  /\ UNCHANGED <<gone, slots, sem, run>>

\* Mutant of Join: the handler's early way out forgets the profile's place.
JoinKeepsSlot(r) ==
  /\ pc[r] = "joining"
  /\ run[r].step = "reported"
  /\ pc' = [pc EXCEPT ![r] = "done"]
  /\ sem' = sem - 1
  /\ Becomes(r, Fresh)
  /\ UNCHANGED <<gone, slots>>

\* The verdict has come; the deferred releases run, and nobody holds the run's
\* channels any more.
Join(r) ==
  /\ pc[r] = "joining"
  /\ run[r].step = "reported"
  /\ pc' = [pc EXCEPT ![r] = "done"]
  /\ slots' = slots - 1
  /\ sem' = sem - 1
  /\ Becomes(r, Fresh)
  /\ UNCHANGED gone

-----------------------------------------------------------------------------
(* The dispatcher up to the start of the CLI.                              *)

Dispatching(r, step) == run[r].step = step /\ UNCHANGED <<pc, gone, slots, sem>>

\* The profile is gone, the submodel is not allowed, or the pool is exhausted.
Checkout(r) ==
  /\ Dispatching(r, "checkout")
  /\ \/ Becomes(r, [run[r] EXCEPT !.step = "setup", !.lease = "held"])
     \/ Becomes(r, [run[r] EXCEPT !.step = "reported"])

\* Setup removes what it made when it fails; an unknown parser is found out
\* afterwards, and the deferred Cleanup removes the workspace.
Setup(r) ==
  /\ Dispatching(r, "setup")
  /\ \/ Becomes(r, [run[r] EXCEPT !.step = "start", !.dir = TRUE, !.bridge = "idle"])
     \/ Becomes(r, [run[r] EXCEPT !.step = "reported", !.lease = "released"])

\* Run returns early when the command does not split, the credential does not
\* resolve or the binary does not start, as it never does once the context is
\* done: the lease stays out.
Start(r) ==
  /\ Dispatching(r, "start")
  /\ \/ ~Cancelled(r) /\ Becomes(r, [run[r] EXCEPT !.step = "parsing", !.cli = "running"])
     \/ Becomes(r, [run[r] EXCEPT !.step = "closing"])

-----------------------------------------------------------------------------
(* Parsing.  A line makes an event, or none, or is the last one the parser *)
(* cares for, or is too long for it.                                       *)

ReadLine(r) ==
  /\ Dispatching(r, "parsing")
  /\ run[r].pipe > 0
  /\ \E next \in {"parsing", "sending", "finishing", "waiting"} :
       Becomes(r, [run[r] EXCEPT !.pipe = @ - 1, !.step = next])

EndOfOutput(r) ==
  /\ Dispatching(r, "parsing")
  /\ run[r].pipe = 0
  /\ run[r].cli = "exited"
  /\ Becomes(r, [run[r] EXCEPT !.step = "finishing"])

\* A send to rch, which waits for room however long that takes.
Send(r) ==
  /\ run[r].step \in {"sending", "finishing"}
  /\ run[r].rch < BridgeCap
  /\ Becomes(r, [run[r] EXCEPT !.rch = @ + 1, !.made = @ + 1,
                               !.step = IF @ = "sending" THEN "parsing" ELSE "waiting"])
  /\ UNCHANGED <<pc, gone, slots, sem>>

\* Mutant of Reap: an error is sent to a full channel as well.
ReapUnbounded(r) ==
  /\ Dispatching(r, "waiting")
  /\ run[r].cli = "exited"
  /\ \E n \in {0, 1} :
       Becomes(r, [run[r] EXCEPT !.step = "closing", !.lease = "released", !.pipe = 0,
                                 !.rch = @ + n, !.made = @ + n])

\* Mutant of Reap: only a run that ended well gives the lease back.
ReapKeepsLease(r) ==
  /\ Dispatching(r, "waiting")
  /\ run[r].cli = "exited"
  /\ \/ Becomes(r, [run[r] EXCEPT !.step = "closing", !.pipe = 0, !.lease = "released"])
     \/ Becomes(r, [run[r] EXCEPT !.step = "closing", !.pipe = 0])

\* The process has been waited for.  A non-zero exit is reported in one more
\* event, if there is room for it; the outcome goes to the account.
Reap(r) ==
  /\ Dispatching(r, "waiting")
  /\ run[r].cli = "exited"
  /\ \E n \in {0} \cup (IF run[r].rch < BridgeCap THEN {1} ELSE {}) :
       Becomes(r, [run[r] EXCEPT !.step = "closing", !.lease = "released", !.pipe = 0,
                                 !.rch = @ + n, !.made = @ + n])

\* rch is closed; once the bridge has gone the workspace is removed, the
\* verdict is sent (the channel has room for it) and events is closed.
Report(r) ==
  /\ Dispatching(r, "closing")
  /\ run[r].bridge = "off"
  /\ Becomes(r, [run[r] EXCEPT !.step = "reported", !.dir = FALSE])

-----------------------------------------------------------------------------
(* The bridge.                                                             *)

Take(r) ==
  /\ run[r].bridge = "idle"
  /\ run[r].rch > 0
  /\ Becomes(r, [run[r] EXCEPT !.rch = @ - 1, !.bridge = "holding"])
  /\ UNCHANGED <<pc, gone, slots, sem>>

Forward(r) ==
  /\ run[r].bridge = "holding"
  /\ run[r].events < EventCap
  /\ Becomes(r, [run[r] EXCEPT !.events = @ + 1, !.bridge = "idle"])
  /\ UNCHANGED <<pc, gone, slots, sem>>

\* The event in hand is dropped, and what is in rch stays there.
Quit(r) ==
  /\ run[r].bridge = "holding"
  /\ Cancelled(r)
  /\ Becomes(r, [run[r] EXCEPT !.bridge = "off"])
  /\ UNCHANGED <<pc, gone, slots, sem>>

\* Mutant of Drained: the dispatcher waits for the bridge before it closes rch.
DrainedAfterReport(r) ==
  /\ run[r].bridge = "idle"
  /\ run[r].step = "reported" /\ run[r].rch = 0
  /\ Becomes(r, [run[r] EXCEPT !.bridge = "off"])
  /\ UNCHANGED <<pc, gone, slots, sem>>

\* rch is closed and empty.
Drained(r) ==
  /\ run[r].bridge = "idle"
  /\ run[r].step = "closing" /\ run[r].rch = 0
  /\ Becomes(r, [run[r] EXCEPT !.bridge = "off"])
  /\ UNCHANGED <<pc, gone, slots, sem>>

-----------------------------------------------------------------------------
(* The process and the client.                                             *)

WriteLine(r) ==
  /\ run[r].cli = "running"
  /\ run[r].pipe < PipeCap
  /\ run[r].made + run[r].pipe < MaxEvents
  /\ Becomes(r, [run[r] EXCEPT !.pipe = @ + 1])
  /\ UNCHANGED <<pc, gone, slots, sem>>

\* By itself, or killed with its whole group when the context is done or the
\* profile's timeout has passed.
Exit(r) ==
  /\ run[r].cli = "running"
  /\ Becomes(r, [run[r] EXCEPT !.cli = "exited"])
  /\ UNCHANGED <<pc, gone, slots, sem>>

Disconnect(r) ==
  /\ pc[r] \notin {"refused", "done"}
  /\ r \notin gone
  /\ gone' = gone \cup {r}
  /\ UNCHANGED <<pc, slots, sem, run>>

-----------------------------------------------------------------------------
Init ==
  /\ pc = [r \in Request |-> "new"]
  /\ gone = {}
  /\ slots = 0 /\ sem = 0
  /\ run = [r \in Request |-> Fresh]

\* What the handler does of itself, once it has been admitted or given up on.
Handler(r) == Serve(r) \/ GiveUp(r) \/ Receive(r) \/ StopReading(r) \/ Join(r)

Dispatcher(r) ==
  \/ Checkout(r) \/ Setup(r) \/ Start(r)
  \/ ReadLine(r) \/ EndOfOutput(r) \/ Send(r) \/ Reap(r) \/ Report(r)

Bridge(r) == Take(r) \/ Forward(r) \/ Quit(r) \/ Drained(r)

Next ==
  \E r \in Request :
    \/ Acquire(r) \/ Handler(r) \/ Dispatcher(r) \/ Bridge(r)
    \/ WriteLine(r) \/ Exit(r) \/ Disconnect(r)

\* A goroutine that can go on does.  The CLI ends of itself or is killed at the
\* profile's timeout; it need not print, and a client need not leave.
Fairness ==
  \A r \in Request :
    WF_vars(Handler(r)) /\ WF_vars(Dispatcher(r)) /\ WF_vars(Bridge(r)) /\ WF_vars(Exit(r))

Spec == Init /\ [][Next]_vars
FairSpec == Spec /\ Fairness

-----------------------------------------------------------------------------
(* Properties.                                                             *)

\* Both channels of a run stay within their capacities (the runner's last event
\* is sent without waiting), and every field keeps its range.
TypeOK ==
  /\ pc \in [Request -> {"new", "admitted", "refused", "serving", "joining", "done"}]
  /\ gone \subseteq Request
  /\ slots \in 0..Concurrency
  /\ sem \in 0..MaxConcurrent
  /\ run \in [Request -> Run]

\* Both limits count exactly the requests that are inside them, by whichever
\* way the others went out (handleProfileChat's deferred releases): neither is
\* exceeded, and no place is lost.
SlotsHeld ==
  /\ slots = Cardinality({r \in Request : pc[r] \in {"admitted", "serving", "joining"}})
  /\ sem = Cardinality({r \in Request : pc[r] \in {"serving", "joining"}})

InFlight(s) == s.rch + (IF s.bridge = "holding" THEN 1 ELSE 0) + s.events

\* A client that stays gets every event the runner sent: what has been sent is
\* with the client or on its way through the two channels and the bridge, and
\* the handler stops reading only after the last.
NoEventLost ==
  \A r \in Request \ gone :
    /\ run[r].made = run[r].got + InFlight(run[r])
    /\ pc[r] = "joining" => InFlight(run[r]) = 0

\* When the verdict is out nothing of the run is left: no process, no bridge, no
\* workspace.  The account's lease has been given back too, unless the CLI was
\* never started: Run's early returns keep it.
NothingLeft ==
  \A r \in Request :
    run[r].step = "reported" =>
      /\ run[r].cli # "running" /\ run[r].bridge = "off" /\ ~run[r].dir
      /\ run[r].lease = "held" => run[r].cli = "none"

\* The parser waits for room in rch and there is no bridge to make any.
Stuck(r) ==
  /\ run[r].step \in {"sending", "finishing"}
  /\ run[r].bridge = "off" /\ run[r].rch = BridgeCap

\* A request that is being served ends, whatever the CLI and the client do,
\* except when the client left and the parser filled rch behind the bridge.
EndsOrStuck ==
  \A r \in Request : pc[r] = "serving" ~> (pc[r] = "done" \/ (r \in gone /\ Stuck(r)))

\* "Release MUST be called by the runner after the CLI invocation completes"
\* (accounts/pool.go): a lease whose CLI has ended is given back.
LeaseReturned ==
  \A r \in Request : run[r].cli = "exited" ~> run[r].lease = "released"
=============================================================================
