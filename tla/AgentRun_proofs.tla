-------------------------- MODULE AgentRun_proofs --------------------------
(***************************************************************************)
(* Theorems about AgentRun, for any number of requests, limits and channel *)
(* capacities.                                                             *)
(*                                                                         *)
(* What holds of a run depends on its own state, on where its handler is   *)
(* and on whether the client is still there, and on nothing else: Coherent *)
(* says so of one run, and a step of one run's goroutines has only to keep *)
(* it for that run (RunStep).                                              *)
(***************************************************************************)
EXTENDS AgentRun, FiniteSetTheorems, TLAPS

-----------------------------------------------------------------------------
(* The invariant.                                                          *)

\* The bridge of a run whose client is there goes away only after the last
\* event; the handler leaves its loop only after that.
Coherent(p, left, s) ==
  /\ p \notin {"serving", "joining"} => s = Fresh
  /\ p \in {"serving", "joining"} => s.step # "none"
  /\ s.step \in {"none", "checkout", "setup"} =>
       s.bridge = "off" /\ s.rch = 0 /\ ~s.dir /\ s.cli = "none"
  /\ s.step = "start" => s.cli = "none"
  /\ s.step \in {"closing", "reported"} => s.cli # "running" /\ (s.lease = "held" => s.cli = "none")
  /\ s.step = "reported" => s.bridge = "off" /\ ~s.dir
  /\ ~left => s.made = s.got + InFlight(s)
  /\ ~left /\ s.bridge = "off" =>
       s.rch = 0 /\ s.step \in {"none", "checkout", "setup", "closing", "reported"}
  /\ ~left /\ p = "joining" => s.step = "reported" /\ s.events = 0

IInv ==
  /\ TypeOK
  /\ SlotsHeld
  /\ \A r \in Request : Coherent(pc[r], r \in gone, run[r])

-----------------------------------------------------------------------------
(* Facts about one run.                                                    *)

LEMMA Capacities ==
  /\ Concurrency \in Nat \ {0} /\ MaxConcurrent \in Nat \ {0}
  /\ PipeCap \in Nat \ {0} /\ BridgeCap \in Nat \ {0} /\ EventCap \in Nat \ {0}
BY AgentAssumption

LEMMA FreshRun ==
  /\ Fresh \in Run
  /\ \A p \in {"new", "admitted", "refused", "done"}, r \in Request : Coherent(p, r \in gone, Fresh)
BY Capacities DEF Fresh, Run, Coherent, InFlight

\* What a goroutine of a run may rely on.
LEMMA Own ==
  ASSUME IInv, NEW r \in Request
  PROVE  /\ run[r] \in Run
         /\ Coherent(pc[r], r \in gone, run[r])
         /\ run[r].step # "none" => pc[r] \in {"serving", "joining"}
BY DEF IInv, TypeOK, Coherent, Fresh

\* A goroutine of one run leaves the other runs, and the limits, as they are.
LEMMA RunStep ==
  ASSUME IInv, NEW r \in Request, NEW s \in Run, Becomes(r, s),
         UNCHANGED <<pc, gone, slots, sem>>,
         Coherent(pc[r], r \in gone, s)
  PROVE  IInv'
<1>1. TypeOK'
  BY DEF IInv, TypeOK, Becomes
<1>2. SlotsHeld'
  BY DEF IInv, SlotsHeld
<1>3. \A q \in Request : Coherent(pc[q], q \in gone, run[q])'
  <2> SUFFICES ASSUME NEW q \in Request
               PROVE  Coherent(pc[q], q \in gone, run'[q])
    OBVIOUS
  <2>1. CASE q = r
    BY <2>1 DEF IInv, TypeOK, Becomes
  <2>2. CASE q # r
    BY <2>2 DEF IInv, TypeOK, Becomes
  <2>3. QED
    BY <2>1, <2>2
<1>4. QED
  BY <1>1, <1>2, <1>3 DEF IInv

-----------------------------------------------------------------------------
(* The dispatcher.                                                         *)

LEMMA CheckoutStep ==
  ASSUME IInv, NEW r \in Request, Checkout(r)
  PROVE  IInv'
<1>1. PICK s : s = run[r]
  OBVIOUS
<1>2. s \in Run /\ Coherent(pc[r], r \in gone, s) /\ s.step = "checkout"
      /\ pc[r] \in {"serving", "joining"}
  BY <1>1, Own DEF Checkout, Dispatching
<1>3. CASE Becomes(r, [s EXCEPT !.step = "setup", !.lease = "held"])
  <2>1. PICK t : t = [s EXCEPT !.step = "setup", !.lease = "held"]
    OBVIOUS
  <2>2. t \in Run /\ Coherent(pc[r], r \in gone, t)
    BY <1>2, <2>1 DEF Run, Coherent, InFlight
  <2>3. QED
    BY <1>3, <2>1, <2>2, RunStep DEF Checkout, Dispatching
<1>4. CASE Becomes(r, [s EXCEPT !.step = "reported"])
  <2>1. PICK t : t = [s EXCEPT !.step = "reported"]
    OBVIOUS
  <2>2. t \in Run /\ Coherent(pc[r], r \in gone, t)
    BY <1>2, <2>1 DEF Run, Coherent, InFlight
  <2>3. QED
    BY <1>4, <2>1, <2>2, RunStep DEF Checkout, Dispatching
<1>5. QED
  BY <1>1, <1>3, <1>4 DEF Checkout

LEMMA SetupStep ==
  ASSUME IInv, NEW r \in Request, Setup(r)
  PROVE  IInv'
<1>1. PICK s : s = run[r]
  OBVIOUS
<1>2. s \in Run /\ Coherent(pc[r], r \in gone, s) /\ s.step = "setup" /\ pc[r] \in {"serving", "joining"}
  BY <1>1, Own DEF Setup, Dispatching
<1>3. CASE Becomes(r, [s EXCEPT !.step = "start", !.dir = TRUE, !.bridge = "idle"])
  <2>1. PICK t : t = [s EXCEPT !.step = "start", !.dir = TRUE, !.bridge = "idle"] /\ Becomes(r, t)
    BY <1>3
  <2>2. t \in Run /\ Coherent(pc[r], r \in gone, t)
    BY <1>2, <2>1, Capacities DEF Run, Coherent, InFlight, Fresh
  <2>3. QED
    BY <2>1, <2>2, RunStep DEF Setup, Dispatching
<1>4. CASE Becomes(r, [s EXCEPT !.step = "reported", !.lease = "released"])
  <2>1. PICK t : t = [s EXCEPT !.step = "reported", !.lease = "released"] /\ Becomes(r, t)
    BY <1>4
  <2>2. t \in Run /\ Coherent(pc[r], r \in gone, t)
    BY <1>2, <2>1, Capacities DEF Run, Coherent, InFlight, Fresh
  <2>3. QED
    BY <2>1, <2>2, RunStep DEF Setup, Dispatching
<1>5. QED
  BY <1>1, <1>3, <1>4 DEF Setup, Dispatching

LEMMA StartStep ==
  ASSUME IInv, NEW r \in Request, Start(r)
  PROVE  IInv'
<1>1. PICK s : s = run[r]
  OBVIOUS
<1>2. s \in Run /\ Coherent(pc[r], r \in gone, s) /\ s.step = "start" /\ pc[r] \in {"serving", "joining"}
  BY <1>1, Own DEF Start, Dispatching
<1>3. CASE Becomes(r, [s EXCEPT !.step = "parsing", !.cli = "running"])
  <2>1. PICK t : t = [s EXCEPT !.step = "parsing", !.cli = "running"] /\ Becomes(r, t)
    BY <1>3
  <2>2. t \in Run /\ Coherent(pc[r], r \in gone, t)
    BY <1>2, <2>1, Capacities DEF Run, Coherent, InFlight, Fresh
  <2>3. QED
    BY <2>1, <2>2, RunStep DEF Start, Dispatching
<1>4. CASE Becomes(r, [s EXCEPT !.step = "closing"])
  <2>1. PICK t : t = [s EXCEPT !.step = "closing"] /\ Becomes(r, t)
    BY <1>4
  <2>2. t \in Run /\ Coherent(pc[r], r \in gone, t)
    BY <1>2, <2>1, Capacities DEF Run, Coherent, InFlight, Fresh
  <2>3. QED
    BY <2>1, <2>2, RunStep DEF Start, Dispatching
<1>5. QED
  BY <1>1, <1>3, <1>4 DEF Start, Dispatching

LEMMA ReadLineStep ==
  ASSUME IInv, NEW r \in Request, ReadLine(r)
  PROVE  IInv'
<1>1. PICK s : s = run[r]
  OBVIOUS
<1>2. /\ s \in Run /\ Coherent(pc[r], r \in gone, s)
      /\ s.step = "parsing" /\ s.pipe > 0 /\ pc[r] \in {"serving", "joining"}
  BY <1>1, Own DEF ReadLine, Dispatching
<1>3. PICK next \in {"parsing", "sending", "finishing", "waiting"} :
        Becomes(r, [s EXCEPT !.pipe = @ - 1, !.step = next])
  BY <1>1 DEF ReadLine
<1>4. PICK m \in 0..PipeCap : m = s.pipe - 1
  BY <1>2, Capacities DEF Run
<1>5. PICK t : t = [s EXCEPT !.pipe = m, !.step = next] /\ Becomes(r, t)
  BY <1>3, <1>4
<1>6. t \in Run
  BY <1>2, <1>5 DEF Run
<1>7. Coherent(pc[r], r \in gone, t)
  BY <1>2, <1>5 DEF Run, Coherent, InFlight, Fresh
<1>8. QED
  BY <1>5, <1>6, <1>7, RunStep DEF ReadLine, Dispatching

LEMMA EndOfOutputStep ==
  ASSUME IInv, NEW r \in Request, EndOfOutput(r)
  PROVE  IInv'
<1>1. PICK s : s = run[r]
  OBVIOUS
<1>2. s \in Run /\ Coherent(pc[r], r \in gone, s) /\ s.step = "parsing" /\ pc[r] \in {"serving", "joining"}
  BY <1>1, Own DEF EndOfOutput, Dispatching
<1>3. PICK t : t = [s EXCEPT !.step = "finishing"] /\ Becomes(r, t)
  BY <1>1 DEF EndOfOutput, Dispatching
<1>4. t \in Run /\ Coherent(pc[r], r \in gone, t)
  BY <1>2, <1>3, Capacities DEF Run, Coherent, InFlight, Fresh
<1>5. QED
  BY <1>3, <1>4, RunStep DEF EndOfOutput, Dispatching

LEMMA SendStep ==
  ASSUME IInv, NEW r \in Request, Send(r)
  PROVE  IInv'
<1>1. PICK s : s = run[r]
  OBVIOUS
<1>2. /\ s \in Run /\ Coherent(pc[r], r \in gone, s)
      /\ s.step \in {"sending", "finishing"} /\ s.rch < BridgeCap
      /\ pc[r] \in {"serving", "joining"}
  BY <1>1, Own DEF Send
<1>3. PICK next \in {"parsing", "waiting"} :
        Becomes(r, [s EXCEPT !.rch = @ + 1, !.made = @ + 1, !.step = next])
  BY <1>1 DEF Send
<1>4. PICK m \in 0..BridgeCap, k \in Nat : m = s.rch + 1 /\ k = s.made + 1
  BY <1>2, Capacities DEF Run
<1>5. PICK t : t = [s EXCEPT !.rch = m, !.made = k, !.step = next] /\ Becomes(r, t)
  BY <1>3, <1>4
<1>6. t \in Run
  BY <1>2, <1>5 DEF Run
<1>7. r \notin gone => s.bridge # "off" /\ s.made = s.got + InFlight(s)
  BY <1>2 DEF Coherent
<1>8. r \notin gone => t.made = t.got + InFlight(t)
  BY <1>2, <1>4, <1>5, <1>7, Capacities DEF Run, InFlight
<1>9. Coherent(pc[r], r \in gone, t)
  BY <1>2, <1>5, <1>7, <1>8 DEF Run, Coherent, Fresh
<1>10. QED
  BY <1>5, <1>6, <1>9, RunStep DEF Send

LEMMA ReapStep ==
  ASSUME IInv, NEW r \in Request, Reap(r)
  PROVE  IInv'
<1>1. PICK s : s = run[r]
  OBVIOUS
<1>2. /\ s \in Run /\ Coherent(pc[r], r \in gone, s)
      /\ s.step = "waiting" /\ s.cli = "exited" /\ pc[r] \in {"serving", "joining"}
  BY <1>1, Own DEF Reap, Dispatching
<1>3. PICK n \in {0} \cup (IF s.rch < BridgeCap THEN {1} ELSE {}) :
        Becomes(r, [s EXCEPT !.step = "closing", !.lease = "released", !.pipe = 0,
                             !.rch = @ + n, !.made = @ + n])
  BY <1>1 DEF Reap
<1>4. PICK m \in 0..BridgeCap, k \in Nat : m = s.rch + n /\ k = s.made + n
  BY <1>2, <1>3, Capacities DEF Run
<1>5. PICK t : /\ t = [s EXCEPT !.step = "closing", !.lease = "released", !.pipe = 0,
                                !.rch = m, !.made = k]
               /\ Becomes(r, t)
  BY <1>3, <1>4
<1>6. t \in Run
  <2>1. 0 \in 0..PipeCap
    BY Capacities
  <2>2. QED
    BY <1>2, <1>5, <2>1 DEF Run
<1>7. r \notin gone => s.bridge # "off" /\ s.made = s.got + InFlight(s)
  BY <1>2 DEF Coherent
<1>8. r \notin gone => t.made = t.got + InFlight(t)
  BY <1>2, <1>3, <1>4, <1>5, <1>7, Capacities DEF Run, InFlight
<1>9. Coherent(pc[r], r \in gone, t)
  BY <1>2, <1>5, <1>7, <1>8 DEF Run, Coherent, Fresh
<1>10. QED
  BY <1>5, <1>6, <1>9, RunStep DEF Reap, Dispatching

LEMMA ReportStep ==
  ASSUME IInv, NEW r \in Request, Report(r)
  PROVE  IInv'
<1>1. PICK s : s = run[r]
  OBVIOUS
<1>2. s \in Run /\ Coherent(pc[r], r \in gone, s) /\ s.step = "closing" /\ s.bridge = "off" /\ pc[r] \in {"serving", "joining"}
  BY <1>1, Own DEF Report, Dispatching
<1>3. PICK t : t = [s EXCEPT !.step = "reported", !.dir = FALSE] /\ Becomes(r, t)
  BY <1>1 DEF Report, Dispatching
<1>4. t \in Run /\ Coherent(pc[r], r \in gone, t)
  BY <1>2, <1>3, Capacities DEF Run, Coherent, InFlight, Fresh
<1>5. QED
  BY <1>3, <1>4, RunStep DEF Report, Dispatching

-----------------------------------------------------------------------------
(* The bridge, the process and the handler's reading.                      *)

LEMMA TakeStep ==
  ASSUME IInv, NEW r \in Request, Take(r)
  PROVE  IInv'
<1>1. PICK s : s = run[r]
  OBVIOUS
<1>2. s \in Run /\ Coherent(pc[r], r \in gone, s) /\ s.bridge = "idle" /\ s.rch > 0
  BY <1>1, Own DEF Take
<1>3. PICK m \in 0..BridgeCap : m = s.rch - 1
  BY <1>2, Capacities DEF Run
<1>4. PICK t : t = [s EXCEPT !.rch = m, !.bridge = "holding"] /\ Becomes(r, t)
  BY <1>1, <1>3 DEF Take
<1>5. t \in Run
  BY <1>2, <1>4 DEF Run
<1>6. r \notin gone => s.made = s.got + InFlight(s)
  BY <1>2 DEF Coherent
<1>7. r \notin gone => t.made = t.got + InFlight(t)
  BY <1>2, <1>3, <1>4, <1>6, Capacities DEF Run, InFlight
<1>8. Coherent(pc[r], r \in gone, t)
  BY <1>2, <1>4, <1>7, Capacities DEF Run, Coherent, Fresh
<1>9. QED
  BY <1>4, <1>5, <1>8, RunStep DEF Take

LEMMA ForwardStep ==
  ASSUME IInv, NEW r \in Request, Forward(r)
  PROVE  IInv'
<1>1. PICK s : s = run[r]
  OBVIOUS
<1>2. s \in Run /\ Coherent(pc[r], r \in gone, s) /\ s.bridge = "holding" /\ s.events < EventCap
  BY <1>1, Own DEF Forward
<1>3. PICK m \in 0..EventCap : m = s.events + 1
  BY <1>2, Capacities DEF Run
<1>4. PICK t : t = [s EXCEPT !.events = m, !.bridge = "idle"] /\ Becomes(r, t)
  BY <1>1, <1>3 DEF Forward
<1>5. t \in Run
  BY <1>2, <1>4 DEF Run
<1>6. r \notin gone => s.made = s.got + InFlight(s)
  BY <1>2 DEF Coherent
<1>7. r \notin gone => t.made = t.got + InFlight(t)
  BY <1>2, <1>3, <1>4, <1>6, Capacities DEF Run, InFlight
<1>8. Coherent(pc[r], r \in gone, t)
  BY <1>2, <1>4, <1>7, Capacities DEF Run, Coherent, Fresh
<1>9. QED
  BY <1>4, <1>5, <1>8, RunStep DEF Forward

LEMMA QuitStep ==
  ASSUME IInv, NEW r \in Request, Quit(r)
  PROVE  IInv'
<1>1. PICK s : s = run[r]
  OBVIOUS
<1>2. s \in Run /\ Coherent(pc[r], r \in gone, s) /\ s.bridge = "holding" /\ r \in gone
  BY <1>1, Own DEF Quit, Cancelled
<1>3. PICK t : t = [s EXCEPT !.bridge = "off"] /\ Becomes(r, t)
  BY <1>1 DEF Quit
<1>4. t \in Run /\ Coherent(pc[r], r \in gone, t)
  BY <1>2, <1>3, Capacities DEF Run, Coherent, InFlight, Fresh, Cancelled
<1>5. QED
  BY <1>3, <1>4, RunStep DEF Quit

LEMMA DrainedStep ==
  ASSUME IInv, NEW r \in Request, Drained(r)
  PROVE  IInv'
<1>1. PICK s : s = run[r]
  OBVIOUS
<1>2. s \in Run /\ Coherent(pc[r], r \in gone, s) /\ s.bridge = "idle" /\ s.step = "closing" /\ s.rch = 0
  BY <1>1, Own DEF Drained
<1>3. PICK t : t = [s EXCEPT !.bridge = "off"] /\ Becomes(r, t)
  BY <1>1 DEF Drained
<1>4. t \in Run /\ Coherent(pc[r], r \in gone, t)
  BY <1>2, <1>3, Capacities DEF Run, Coherent, InFlight, Fresh
<1>5. QED
  BY <1>3, <1>4, RunStep DEF Drained

LEMMA WriteLineStep ==
  ASSUME IInv, NEW r \in Request, WriteLine(r)
  PROVE  IInv'
<1>1. PICK s : s = run[r]
  OBVIOUS
<1>2. s \in Run /\ Coherent(pc[r], r \in gone, s) /\ s.cli = "running" /\ s.pipe < PipeCap
  BY <1>1, Own DEF WriteLine
<1>3. PICK t : t = [s EXCEPT !.pipe = @ + 1] /\ Becomes(r, t)
  BY <1>1 DEF WriteLine
<1>4. t \in Run /\ Coherent(pc[r], r \in gone, t)
  BY <1>2, <1>3, Capacities DEF Run, Coherent, InFlight, Fresh
<1>5. QED
  BY <1>3, <1>4, RunStep DEF WriteLine

LEMMA ExitStep ==
  ASSUME IInv, NEW r \in Request, Exit(r)
  PROVE  IInv'
<1>1. PICK s : s = run[r]
  OBVIOUS
<1>2. s \in Run /\ Coherent(pc[r], r \in gone, s) /\ s.cli = "running"
  BY <1>1, Own DEF Exit
<1>3. PICK t : t = [s EXCEPT !.cli = "exited"] /\ Becomes(r, t)
  BY <1>1 DEF Exit
<1>4. t \in Run /\ Coherent(pc[r], r \in gone, t)
  BY <1>2, <1>3, Capacities DEF Run, Coherent, InFlight, Fresh
<1>5. QED
  BY <1>3, <1>4, RunStep DEF Exit

LEMMA ReceiveStep ==
  ASSUME IInv, NEW r \in Request, Receive(r)
  PROVE  IInv'
<1>1. PICK s : s = run[r]
  OBVIOUS
<1>2. s \in Run /\ Coherent(pc[r], r \in gone, s) /\ pc[r] = "serving" /\ s.events > 0
  BY <1>1, Own DEF Receive
<1>3. PICK m \in 0..EventCap, k \in Nat : m = s.events - 1 /\ k = s.got + 1
  BY <1>2, Capacities DEF Run
<1>4. PICK t : t = [s EXCEPT !.events = m, !.got = k] /\ Becomes(r, t)
  BY <1>1, <1>3 DEF Receive
<1>5. t \in Run
  BY <1>2, <1>4 DEF Run
<1>6. r \notin gone => s.made = s.got + InFlight(s)
  BY <1>2 DEF Coherent
<1>7. r \notin gone => t.made = t.got + InFlight(t)
  BY <1>2, <1>3, <1>4, <1>6, Capacities DEF Run, InFlight
<1>8. Coherent(pc[r], r \in gone, t)
  BY <1>2, <1>4, <1>7, Capacities DEF Run, Coherent, Fresh
<1>9. QED
  BY <1>4, <1>5, <1>8, RunStep DEF Receive

-----------------------------------------------------------------------------
(* The handler's passage through the two limits.                           *)

Inside(P) == {q \in Request : pc[q] \in P}

\* A handler that moves changes the count of the handlers at P by what it
\* leaves and what it enters.
LEMMA Moves ==
  ASSUME TypeOK, NEW r \in Request, NEW p, pc' = [pc EXCEPT ![r] = p], NEW P
  PROVE  /\ Cardinality(Inside(P)) \in Nat
         /\ pc[r] \in P => Cardinality(Inside(P)) > 0
         /\ (pc[r] \in P <=> p \in P) => Cardinality(Inside(P)') = Cardinality(Inside(P))
         /\ pc[r] \notin P /\ p \in P => Cardinality(Inside(P)') = Cardinality(Inside(P)) + 1
         /\ pc[r] \in P /\ p \notin P => Cardinality(Inside(P)') = Cardinality(Inside(P)) - 1
<1>1. IsFiniteSet(Inside(P)) /\ IsFiniteSet(Inside(P)')
  BY AgentAssumption, FS_Subset DEF Inside
<1>2. Cardinality(Inside(P)) \in Nat
  BY <1>1, FS_CardinalityType
<1>3. pc[r] \in P => Cardinality(Inside(P)) > 0
  <2>1. pc[r] \in P => Inside(P) # {}
    BY DEF Inside
  <2>2. QED
    BY <1>1, <1>2, <2>1, FS_EmptySet
<1>4. (pc[r] \in P <=> p \in P) => Inside(P)' = Inside(P)
  BY DEF Inside, TypeOK
<1>5. pc[r] \notin P /\ p \in P => Inside(P)' = Inside(P) \cup {r} /\ r \notin Inside(P)
  BY DEF Inside, TypeOK
<1>6. pc[r] \in P /\ p \notin P => Inside(P)' = Inside(P) \ {r} /\ r \in Inside(P)
  BY DEF Inside, TypeOK
<1>7. QED
  BY <1>1, <1>2, <1>3, <1>4, <1>5, <1>6, FS_AddElement, FS_RemoveElement

\* What is left to show of a step of the handler: the counts, and its own run.
LEMMA HandlerStep ==
  ASSUME IInv, NEW r \in Request,
         NEW p \in {"new", "admitted", "refused", "serving", "joining", "done"}, NEW s \in Run,
         pc' = [pc EXCEPT ![r] = p], run' = [run EXCEPT ![r] = s], UNCHANGED gone,
         slots' \in 0..Concurrency, sem' \in 0..MaxConcurrent, SlotsHeld',
         Coherent(p, r \in gone, s)
  PROVE  IInv'
<1>1. TypeOK'
  BY DEF IInv, TypeOK
<1>2. \A q \in Request : Coherent(pc[q], q \in gone, run[q])'
  <2> SUFFICES ASSUME NEW q \in Request
               PROVE  Coherent(pc'[q], q \in gone, run'[q])
    OBVIOUS
  <2>1. CASE q = r
    BY <2>1 DEF IInv, TypeOK
  <2>2. CASE q # r
    BY <2>2 DEF IInv, TypeOK
  <2>3. QED
    BY <2>1, <2>2
<1>3. QED
  BY <1>1, <1>2 DEF IInv

LEMMA Counts ==
  /\ SlotsHeld <=> /\ slots = Cardinality(Inside({"admitted", "serving", "joining"}))
                   /\ sem = Cardinality(Inside({"serving", "joining"}))
  /\ SlotsHeld' <=> /\ slots' = Cardinality(Inside({"admitted", "serving", "joining"})')
                    /\ sem' = Cardinality(Inside({"serving", "joining"})')
BY DEF SlotsHeld, Inside

LEMMA SameRun ==
  ASSUME IInv, NEW r \in Request, run' = run
  PROVE  run' = [run EXCEPT ![r] = run[r]] /\ run[r] \in Run
BY DEF IInv, TypeOK

LEMMA AcquireStep ==
  ASSUME IInv, NEW r \in Request, Acquire(r)
  PROVE  IInv'
<1>1. TypeOK /\ SlotsHeld /\ pc[r] = "new" /\ slots \in Nat /\ slots < Concurrency
  BY DEF IInv, TypeOK, Acquire
<1>2. run[r] = Fresh /\ run' = [run EXCEPT ![r] = Fresh] /\ UNCHANGED gone
  BY <1>1, SameRun, Own DEF Acquire, Coherent
<1>3. CASE pc' = [pc EXCEPT ![r] = "admitted"] /\ slots' = slots + 1
  <2>1. SlotsHeld'
    BY <1>1, <1>3, Moves, Counts DEF Acquire
  <2> Coherent("admitted", r \in gone, Fresh)
    BY FreshRun
  <2>2. slots' \in 0..Concurrency /\ sem' \in 0..MaxConcurrent
    BY <1>1, <1>3, Capacities DEF IInv, TypeOK, Acquire
  <2>3. QED
    BY <1>2, <1>3, <2>1, <2>2, FreshRun, HandlerStep
<1>4. CASE pc' = [pc EXCEPT ![r] = "refused"] /\ UNCHANGED slots
  <2>1. SlotsHeld'
    <3>1. \A P : pc[r] \notin P /\ "refused" \notin P
                => Cardinality(Inside(P)') = Cardinality(Inside(P))
      BY <1>1, <1>4, Moves
    <3>2. QED
      BY <1>1, <1>4, <3>1, Counts DEF Acquire
  <2> Coherent("refused", r \in gone, Fresh)
    BY FreshRun
  <2>2. slots' \in 0..Concurrency /\ sem' \in 0..MaxConcurrent
    BY <1>1, <1>4 DEF IInv, TypeOK, Acquire
  <2>3. QED
    BY <1>2, <1>4, <2>1, <2>2, FreshRun, HandlerStep
<1>5. QED
  BY <1>3, <1>4 DEF Acquire

LEMMA ServeStep ==
  ASSUME IInv, NEW r \in Request, Serve(r)
  PROVE  IInv'
<1>1. /\ TypeOK /\ SlotsHeld /\ pc[r] = "admitted" /\ pc' = [pc EXCEPT ![r] = "serving"]
      /\ UNCHANGED <<gone, slots>> /\ sem' = sem + 1 /\ sem \in Nat /\ sem < MaxConcurrent
  BY DEF IInv, TypeOK, Serve
<1>2. run[r] = Fresh
  BY <1>1, Own DEF Coherent
<1>3. PICK t : t = [Fresh EXCEPT !.step = "checkout"] /\ run' = [run EXCEPT ![r] = t]
  BY <1>2 DEF Serve, Becomes
<1>4. t \in Run /\ Coherent("serving", r \in gone, t)
  BY <1>3, FreshRun, Capacities DEF Fresh, Run, Coherent, InFlight
<1>5. SlotsHeld'
  BY <1>1, Moves, Counts
<1>6. slots' \in 0..Concurrency /\ sem' \in 0..MaxConcurrent
  BY <1>1, Capacities DEF TypeOK
<1>7. QED
  BY <1>1, <1>3, <1>4, <1>5, <1>6, HandlerStep

LEMMA GiveUpStep ==
  ASSUME IInv, NEW r \in Request, GiveUp(r)
  PROVE  IInv'
<1>1. /\ TypeOK /\ SlotsHeld /\ pc[r] \in {"new", "admitted"}
      /\ pc' = [pc EXCEPT ![r] = "refused"] /\ UNCHANGED <<gone, sem>>
      /\ slots' = IF pc[r] = "admitted" THEN slots - 1 ELSE slots
  BY DEF IInv, GiveUp
<1>2. run[r] = Fresh /\ run' = [run EXCEPT ![r] = Fresh]
  BY <1>1, SameRun, Own DEF GiveUp, Coherent
<1>3. SlotsHeld' /\ slots' \in 0..Concurrency
  <2>1. \A P : "refused" \notin P /\ pc[r] \notin P
                => Cardinality(Inside(P)') = Cardinality(Inside(P))
    BY <1>1, Moves
  <2>2. \A P : "refused" \notin P /\ pc[r] \in P
                => /\ Cardinality(Inside(P)') = Cardinality(Inside(P)) - 1
                   /\ Cardinality(Inside(P)) > 0
    BY <1>1, Moves
  <2>3. slots \in 0..Concurrency
    BY <1>1 DEF TypeOK
  <2>4. CASE pc[r] = "new"
    BY <1>1, <2>1, <2>3, <2>4, Counts
  <2>5. CASE pc[r] = "admitted"
    BY <1>1, <2>1, <2>2, <2>3, <2>5, Counts, Capacities
  <2>6. QED
    BY <1>1, <2>4, <2>5
<1>4. Coherent("refused", r \in gone, Fresh)
  BY FreshRun
<1>5. sem' \in 0..MaxConcurrent
  BY <1>1 DEF TypeOK
<1>6. QED
  BY <1>1, <1>2, <1>3, <1>4, <1>5, FreshRun, HandlerStep

LEMMA StopReadingStep ==
  ASSUME IInv, NEW r \in Request, StopReading(r)
  PROVE  IInv'
<1>1. /\ TypeOK /\ SlotsHeld /\ pc[r] = "serving" /\ pc' = [pc EXCEPT ![r] = "joining"]
      /\ UNCHANGED <<gone, slots, sem>>
  BY DEF IInv, StopReading
<1>2. PICK s : s = run[r] /\ s \in Run /\ run' = [run EXCEPT ![r] = s]
  BY SameRun DEF StopReading
<1>3. Coherent("joining", r \in gone, s)
  BY <1>1, <1>2, Own DEF StopReading, Cancelled, Coherent
<1>4. SlotsHeld'
  BY <1>1, Moves, Counts
<1>5. slots' \in 0..Concurrency /\ sem' \in 0..MaxConcurrent
  BY <1>1 DEF TypeOK
<1>6. QED
  BY <1>1, <1>2, <1>3, <1>4, <1>5, HandlerStep

LEMMA JoinStep ==
  ASSUME IInv, NEW r \in Request, Join(r)
  PROVE  IInv'
<1>1. /\ TypeOK /\ SlotsHeld /\ pc[r] = "joining" /\ pc' = [pc EXCEPT ![r] = "done"]
      /\ UNCHANGED gone /\ slots' = slots - 1 /\ sem' = sem - 1
      /\ run' = [run EXCEPT ![r] = Fresh]
  BY DEF IInv, Join, Becomes
<1>2. SlotsHeld' /\ slots > 0 /\ sem > 0
  <2>1. \A P : "done" \notin P /\ pc[r] \in P
                => /\ Cardinality(Inside(P)') = Cardinality(Inside(P)) - 1
                   /\ Cardinality(Inside(P)) > 0
    BY <1>1, Moves
  <2>2. QED
    BY <1>1, <2>1, Counts
<1>3. Coherent("done", r \in gone, Fresh)
  BY FreshRun
<1>4. slots' \in 0..Concurrency /\ sem' \in 0..MaxConcurrent
  BY <1>1, <1>2, Capacities DEF TypeOK
<1>5. QED
  BY <1>1, <1>2, <1>3, <1>4, FreshRun, HandlerStep

LEMMA DisconnectStep ==
  ASSUME IInv, NEW r \in Request, Disconnect(r)
  PROVE  IInv'
<1>1. TypeOK' /\ SlotsHeld'
  BY DEF IInv, TypeOK, SlotsHeld, Disconnect
<1>2. \A q \in Request : Coherent(pc[q], q \in gone, run[q])'
  BY DEF IInv, Disconnect, Coherent
<1>3. QED
  BY <1>1, <1>2 DEF IInv

-----------------------------------------------------------------------------
(* The theorems.                                                           *)

LEMMA Initially == Init => IInv
<1> SUFFICES ASSUME Init PROVE IInv
  OBVIOUS
<1>1. TypeOK
  BY FreshRun, Capacities DEF Init, TypeOK
<1>2. SlotsHeld
  <2>1. Inside({"admitted", "serving", "joining"}) = {} /\ Inside({"serving", "joining"}) = {}
    BY DEF Init, Inside
  <2>2. QED
    BY <2>1, Counts, FS_EmptySet DEF Init
<1>3. \A r \in Request : Coherent(pc[r], r \in gone, run[r])
  BY FreshRun DEF Init
<1>4. QED
  BY <1>1, <1>2, <1>3 DEF IInv

LEMMA Inductive == IInv /\ [Next]_vars => IInv'
<1> SUFFICES ASSUME IInv, [Next]_vars PROVE IInv'
  OBVIOUS
<1>1. CASE UNCHANGED vars
  BY <1>1 DEF vars, IInv, TypeOK, SlotsHeld
<1>2. ASSUME NEW r \in Request, Acquire(r) \/ Handler(r)
      PROVE  IInv'
  BY <1>2, AcquireStep, ServeStep, GiveUpStep, ReceiveStep, StopReadingStep, JoinStep DEF Handler
<1>3. ASSUME NEW r \in Request, Dispatcher(r)
      PROVE  IInv'
  BY <1>3, CheckoutStep, SetupStep, StartStep, ReadLineStep, EndOfOutputStep, SendStep,
     ReapStep, ReportStep DEF Dispatcher
<1>4. ASSUME NEW r \in Request, Bridge(r)
      PROVE  IInv'
  BY <1>4, TakeStep, ForwardStep, QuitStep, DrainedStep DEF Bridge
<1>5. ASSUME NEW r \in Request, WriteLine(r) \/ Exit(r) \/ Disconnect(r)
      PROVE  IInv'
  BY <1>5, WriteLineStep, ExitStep, DisconnectStep
<1>6. QED
  BY <1>1, <1>2, <1>3, <1>4, <1>5 DEF Next

LEMMA Consequences == IInv => TypeOK /\ SlotsHeld /\ NoEventLost /\ NothingLeft
<1> SUFFICES ASSUME IInv PROVE TypeOK /\ SlotsHeld /\ NoEventLost /\ NothingLeft
  OBVIOUS
<1>1. TypeOK /\ SlotsHeld
  BY DEF IInv
<1>2. NothingLeft
  BY DEF IInv, Coherent, NothingLeft
<1>3. NoEventLost
  <2> SUFFICES ASSUME NEW r \in Request \ gone
               PROVE  /\ run[r].made = run[r].got + InFlight(run[r])
                      /\ pc[r] = "joining" => InFlight(run[r]) = 0
    BY DEF NoEventLost
  <2>1. Coherent(pc[r], r \in gone, run[r]) /\ run[r] \in Run
    BY Own
  <2>2. /\ run[r].made = run[r].got + InFlight(run[r])
        /\ pc[r] = "joining" => run[r].step = "reported" /\ run[r].events = 0
    BY <2>1 DEF Coherent
  <2>3. pc[r] = "joining" => run[r].bridge = "off" /\ run[r].rch = 0
    BY <2>1, <2>2 DEF Coherent
  <2>4. QED
    BY <2>2, <2>3 DEF InFlight
<1>4. QED
  BY <1>1, <1>2, <1>3

\* handleProfileChat and the goroutines it starts keep their state well typed:
\* neither channel of a run overflows, whatever the capacities.
THEOREM TypeCorrect == Spec => []TypeOK
BY Initially, Inductive, Consequences, PTL DEF Spec

\* The profile's and the gateway's limit count the requests inside them
\* (profileLimiter.Acquire, Server.sem and the deferred releases).
THEOREM LimitsHold == Spec => []SlotsHeld
BY Initially, Inductive, Consequences, PTL DEF Spec

\* The two channels and the bridge lose no event of a client that stays.
THEOREM EventsArrive == Spec => []NoEventLost
BY Initially, Inductive, Consequences, PTL DEF Spec

\* A run that has reported has no process, bridge or workspace left, and keeps
\* its lease only if the CLI never ran.
THEOREM RunsEndClean == Spec => []NothingLeft
BY Initially, Inductive, Consequences, PTL DEF Spec
=============================================================================
