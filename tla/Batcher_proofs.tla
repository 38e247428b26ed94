--------------------------- MODULE Batcher_proofs ---------------------------
(***************************************************************************)
(* Theorems about Batcher, for any entries, routes and batch sizes.        *)
(*                                                                         *)
(* That the batcher implements RequestReply needs to know that an entry is *)
(* in one place only (Placement): were it in two, it would be sent two     *)
(* replies; and the same of the answer to its prompt, which need not be    *)
(* where the entry is (Answers): were it in two, it would be sent to two   *)
(* entries.  That the queue's clock runs (WindowClock) is inductive with   *)
(* the types alone.                                                        *)
(***************************************************************************)
EXTENDS Batcher, SequenceTheorems, TLAPS

-----------------------------------------------------------------------------
(* Sequences of entries as places.                                         *)

LEMMA AppendIn ==
  ASSUME NEW S, NEW q \in Seq(S), NEW e \in S
  PROVE  /\ Append(q, e) \in Seq(S) /\ Append(q, e) # <<>>
         /\ Head(Append(q, e)) = IF q = <<>> THEN e ELSE Head(q)
         /\ In(Append(q, e)) = In(q) \cup {e}
         /\ NoDup(q) /\ e \notin In(q) => NoDup(Append(q, e))
<1>1. Len(q) \in Nat /\ Len(Append(q, e)) = Len(q) + 1 /\ Append(q, e) \in Seq(S)
  OBVIOUS
<1>2. \A i \in 1..Len(q)+1 : Append(q, e)[i] = IF i = Len(q)+1 THEN e ELSE q[i]
  OBVIOUS
<1>3. Append(q, e) # <<>>
  <2>1. PICK n \in Nat : n = Len(q) + 1 /\ n # 0
    BY <1>1
  <2>2. Len(Append(q, e)) = n
    BY <1>1, <2>1
  <2>3. QED
    BY <2>1, <2>2
<1>4. In(Append(q, e)) = In(q) \cup {e}
  BY <1>1, <1>2 DEF In
<1>5. NoDup(q) /\ e \notin In(q) => NoDup(Append(q, e))
  BY <1>1, <1>2 DEF In, NoDup
<1>6. Head(Append(q, e)) = IF q = <<>> THEN e ELSE Head(q)
  BY HeadTailAppend
<1>7. QED
  BY <1>1, <1>3, <1>4, <1>5, <1>6

LEMMA TailIn ==
  ASSUME NEW S, NEW b \in Seq(S), b # <<>>, NoDup(b)
  PROVE  /\ Head(b) \in S /\ Head(b) \in In(b)
         /\ In(Tail(b)) = In(b) \ {Head(b)} /\ NoDup(Tail(b))
         /\ Tail(b) \in Seq(S)
         /\ Len(b) > 1 => Tail(b) # <<>>
<1>1. PICK n \in Nat : n = Len(b) /\ n # 0
  BY EmptySeq
<1>2. /\ Head(b) \in S /\ Tail(b) \in Seq(S) /\ Len(Tail(b)) = n - 1
      /\ \A i \in 1..n-1 : Tail(b)[i] = b[i+1]
  BY <1>1, HeadTailProperties
<1>3. Head(b) = b[1]
  OBVIOUS
<1>4. Head(b) \in In(b)
  BY <1>1, <1>3 DEF In
<1>5. NoDup(Tail(b))
  BY <1>1, <1>2 DEF NoDup
<1>6. In(Tail(b)) = In(b) \ {Head(b)}
  <2>1. In(Tail(b)) = {b[i+1] : i \in 1..n-1}
    BY <1>2 DEF In
  <2>2. \A i \in 1..n : i # 1 => i-1 \in 1..n-1 /\ b[i] = b[(i-1)+1]
    BY <1>1
  <2>3. \A i \in 1..n-1 : i+1 \in 1..n /\ b[i+1] # b[1]
    BY <1>1 DEF NoDup
  <2>4. In(b) = {b[i] : i \in 1..n}
    BY <1>1 DEF In
  <2>5. QED
    BY <1>3, <2>1, <2>2, <2>3, <2>4
<1>7. Len(b) > 1 => Tail(b) # <<>>
  <2>1. PICK m : m = n - 1
    OBVIOUS
  <2>2. Len(Tail(b)) = m
    BY <1>2, <2>1
  <2>3. QED
    BY <1>1, <2>1, <2>2
<1>8. QED
  BY <1>2, <1>4, <1>5, <1>6, <1>7

LEMMA EmptyIn == In(<<>>) = {} /\ NoDup(<<>>)
BY DEF In, NoDup

LEMMA InEntry ==
  ASSUME NEW b \in Seq(Entry)
  PROVE  In(b) \subseteq Entry /\ (b # <<>> => Head(b) \in In(b))
BY DEF In
-----------------------------------------------------------------------------
(* Types, and the clock of the window.                                     *)

Inv == TypeOK /\ WindowClock

LEMMA InitInv == Init => Inv
BY DEF Init, Inv, TypeOK, WindowClock

\* The steps of dispatchBatch do not touch the queue.
LEMMA ClockKept ==
  ASSUME WindowClock, UNCHANGED queueVars
  PROVE  WindowClock'
BY DEF WindowClock, queueVars

\* An order of a batch has its entries, each at most once.
LEMMA OrdersAre ==
  ASSUME NEW b \in Seq(Entry), NEW c \in Orders(b)
  PROVE  c \in Seq(Entry) /\ Len(c) = Len(b) /\ In(c) \subseteq In(b) /\ NoDup(c)
<1>1. PICK n \in Nat : n = Len(b)
  OBVIOUS
<1>2. c \in [1..n -> In(b)] /\ NoDup(c)
  BY <1>1 DEF Orders
<1>3. In(b) \subseteq Entry
  BY DEF In
<1>4. c \in Seq(Entry) /\ Len(c) = n
  BY <1>2, <1>3
<1>5. QED
  BY <1>1, <1>2, <1>4 DEF In

LEMMA TailType ==
  ASSUME NEW b \in Seq(Entry), b # <<>>
  PROVE  /\ Head(b) \in Entry
         /\ Len(b) > 1 => Tail(b) \in Seq(Entry) /\ Len(Tail(b)) = Len(b) - 1 /\ Tail(b) # <<>>
<1>1. PICK n \in Nat : n = Len(b) /\ n # 0
  BY EmptySeq
<1>2. Head(b) \in Entry /\ Tail(b) \in Seq(Entry) /\ Len(Tail(b)) = n - 1
  BY <1>1, HeadTailProperties
<1>3. n > 1 => Tail(b) # <<>>
  <2>1. n > 1 => n - 1 # 0
    OBVIOUS
  <2>2. Tail(b) = <<>> => Len(Tail(b)) = 0
    BY EmptySeq
  <2>3. QED
    BY <1>2, <2>1, <2>2
<1>4. QED
  BY <1>1, <1>2, <1>3

LEMMA DispatchType ==
  ASSUME TypeOK, NEW b \in taken \cup posted, Dispatch(b) \/ BatchFailed(b)
  PROVE  TypeOK' /\ UNCHANGED queueVars
<1>1. b \in Seq(Entry) /\ In(b) \subseteq Entry
  <2>1. b \in Seq(Entry)
    BY DEF TypeOK
  <2>2. QED
    BY <2>1, InEntry
<1>2. /\ UNCHANGED <<maxSize, pc, route, sized, delivering, reply, shuffled>> /\ UNCHANGED queueVars
      /\ single' \subseteq single \cup In(b)
      /\ taken' \cup posted' \subseteq taken \cup posted
  BY DEF Dispatch, BatchFailed
<1>3. QED
  BY <1>1, <1>2 DEF TypeOK, queueVars

LEMMA AnsweredType ==
  ASSUME TypeOK, NEW b \in posted, BatchAnswered(b)
  PROVE  TypeOK' /\ UNCHANGED queueVars
<1>1. b \in Seq(Entry) /\ b # <<>>
  BY DEF TypeOK
<1>2. PICK c \in Orders(b) : /\ delivering' = delivering \cup {[to |-> b, choices |-> c]}
                             /\ shuffled' = IF c = b THEN shuffled ELSE shuffled \cup In(b)
  BY DEF BatchAnswered
<1>3. /\ UNCHANGED <<maxSize, pc, route, sized, taken, single, reply>> /\ UNCHANGED queueVars
      /\ posted' = posted \ {b}
  BY DEF BatchAnswered
<1>4. c \in Seq(Entry) /\ Len(c) = Len(b) /\ In(b) \subseteq Entry
  BY <1>1, OrdersAre, InEntry
<1> DEFINE new == [to |-> b, choices |-> c]
<1>5. new \in [to : Seq(Entry), choices : Seq(Entry)] /\ Len(new.to) = Len(new.choices) /\ new.to # <<>>
  BY <1>1, <1>4
<1> HIDE DEF new
<1>6. delivering' = delivering \cup {new}
  BY <1>2 DEF new
<1>7. /\ delivering' \subseteq [to : Seq(Entry), choices : Seq(Entry)]
      /\ \A d \in delivering' : Len(d.to) = Len(d.choices) /\ d.to # <<>>
  BY <1>5, <1>6 DEF TypeOK
<1>8. QED
  BY <1>2, <1>3, <1>4, <1>7 DEF TypeOK, queueVars

\* What is left of a delivery after its first choice.
LEMMA AfterIs ==
  ASSUME TypeOK, NEW d \in delivering
  PROVE  /\ d.to \in Seq(Entry) /\ d.choices \in Seq(Entry) /\ Len(d.to) = Len(d.choices)
         /\ d.to # <<>> /\ d.choices # <<>> /\ Head(d.to) \in Entry /\ Head(d.choices) \in Entry
         /\ \A r \in After(d) : /\ r.to = Tail(d.to) /\ r.choices = Tail(d.choices)
                                /\ r \in [to : Seq(Entry), choices : Seq(Entry)]
                                /\ Len(r.to) = Len(r.choices) /\ r.to # <<>>
         /\ \A r, q \in After(d) : r = q
<1> DEFINE t == d.to
           c == d.choices
<1>1. t \in Seq(Entry) /\ c \in Seq(Entry) /\ Len(t) = Len(c) /\ t # <<>>
  BY DEF TypeOK
<1>2. c # <<>>
  <2>1. PICK n \in Nat : n = Len(t) /\ n # 0
    BY <1>1, EmptySeq
  <2>2. Len(c) # 0
    BY <1>1, <2>1
  <2>3. QED
    BY <2>2, EmptySeq
<1> HIDE DEF t, c
<1>3. Head(t) \in Entry /\ Head(c) \in Entry
  BY <1>1, <1>2, TailType
<1>4. Len(t) > 1 => /\ Tail(t) \in Seq(Entry) /\ Tail(c) \in Seq(Entry)
                    /\ Len(Tail(t)) = Len(Tail(c)) /\ Tail(t) # <<>>
  BY <1>1, <1>2, TailType
<1>5. After(d) = IF Len(t) > 1 THEN {[to |-> Tail(t), choices |-> Tail(c)]} ELSE {}
  BY DEF After, t, c
<1>6. ASSUME NEW r \in After(d)
      PROVE  /\ r.to = Tail(t) /\ r.choices = Tail(c)
             /\ r \in [to : Seq(Entry), choices : Seq(Entry)]
             /\ Len(r.to) = Len(r.choices) /\ r.to # <<>>
  <2>1. Len(t) > 1 /\ r = [to |-> Tail(t), choices |-> Tail(c)]
    BY <1>5
  <2>2. QED
    BY <1>4, <2>1
<1>7. \A r, q \in After(d) : r = q
  BY <1>5
<1>8. QED
  BY <1>1, <1>2, <1>3, <1>6, <1>7 DEF t, c

LEMMA DeliverType ==
  ASSUME TypeOK, NEW d \in delivering, Deliver(d)
  PROVE  TypeOK' /\ UNCHANGED queueVars
<1>1. /\ UNCHANGED <<maxSize, pc, route, sized, taken, posted, single, shuffled>> /\ UNCHANGED queueVars
      /\ delivering' \subseteq delivering \cup After(d)
      /\ reply' = [reply EXCEPT ![Head(d.to)] = Head(d.choices)]
  BY DEF Deliver
<1>2. /\ delivering' \subseteq [to : Seq(Entry), choices : Seq(Entry)]
      /\ \A r \in delivering' : Len(r.to) = Len(r.choices) /\ r.to # <<>>
  BY <1>1, AfterIs DEF TypeOK
<1>3. reply' \in [Entry -> Entry \cup {None, Failed}]
  BY <1>1, AfterIs DEF TypeOK
<1>4. QED
  BY <1>1, <1>2, <1>3 DEF TypeOK, queueVars

LEMMA EnqueueInv ==
  ASSUME Inv, NEW e \in Entry, Enqueue(e)
  PROVE  Inv'
<1>1. TypeOK /\ queue \in Seq(Entry)
  BY DEF Inv, TypeOK
<1>2. /\ Append(queue, e) \in Seq(Entry) /\ Append(queue, e) # <<>>
      /\ Head(Append(queue, e)) = IF queue = <<>> THEN e ELSE Head(queue)
  BY <1>1, AppendIn
<1>3. /\ pc' = [pc EXCEPT ![e] = "waiting"] /\ sized' = [sized EXCEPT ![e] = None]
      /\ UNCHANGED <<maxSize, route, expired, posted, delivering, single, reply, shuffled>>
  BY DEF Enqueue
<1>4. CASE Len(queue) + 1 >= sized[e]
  <2>1. /\ taken' = taken \cup {Append(queue, e)} /\ queue' = <<>>
        /\ armed' = armed \ {timer} /\ timer' = None
    BY <1>4 DEF Enqueue
  <2>2. WindowClock'
    BY <2>1 DEF WindowClock
  <2>3. <<>> \in Seq(Entry)
    OBVIOUS
  <2>4. TypeOK'
    BY <1>1, <1>2, <1>3, <2>1, <2>3 DEF TypeOK
  <2>5. QED
    BY <2>2, <2>4 DEF Inv
<1>5. CASE ~(Len(queue) + 1 >= sized[e])
  <2>1. /\ queue' = Append(queue, e) /\ taken' = taken
        /\ IF timer = None THEN timer' = e /\ armed' = armed \cup {e}
           ELSE timer' = timer /\ armed' = armed
    BY <1>5 DEF Enqueue
  <2>2. queue # <<>> => timer = Head(queue) /\ Head(queue) \in Entry
    BY <1>1, InEntry DEF Inv, WindowClock
  <2>3. WindowClock'
    BY <1>2, <1>3, <2>1, <2>2, BatcherAssumption DEF Inv, WindowClock
  <2>4. TypeOK'
    BY <1>1, <1>2, <1>3, <2>1 DEF TypeOK
  <2>5. QED
    BY <2>3, <2>4 DEF Inv
<1>6. QED
  BY <1>4, <1>5

LEMMA CallbackInv ==
  ASSUME Inv, NEW t \in expired, Callback(t)
  PROVE  Inv'
<1>1. /\ queue' = <<>> /\ timer' = None /\ expired' = expired \ {t}
      /\ taken' = IF queue = <<>> THEN taken ELSE taken \cup {queue}
      /\ UNCHANGED <<maxSize, pc, route, sized, armed, posted, delivering, single, reply, shuffled>>
  BY DEF Callback
<1>2. <<>> \in Seq(Entry)
  OBVIOUS
<1>3. TypeOK'
  BY <1>1, <1>2 DEF Inv, TypeOK
<1>4. QED
  BY <1>1, <1>3 DEF Inv, WindowClock

LEMMA NextInv == Inv /\ [Next]_vars => Inv'
<1> SUFFICES ASSUME Inv, [Next]_vars PROVE Inv'
  OBVIOUS
<1>1. TypeOK /\ WindowClock
  BY DEF Inv
<1>2. ASSUME NEW m \in MaxSizes, UpdateConfig(m) PROVE Inv'
  BY <1>1, <1>2 DEF UpdateConfig, Inv, TypeOK, WindowClock, queueVars, callVars
<1>3. ASSUME NEW e \in Entry, ReadConfig(e) PROVE Inv'
  <2>1. TypeOK'
    BY <1>1, <1>3 DEF ReadConfig, TypeOK, queueVars, callVars
  <2>2. QED
    BY <1>1, <1>3, <2>1, ClockKept DEF ReadConfig, Inv
<1>4. ASSUME NEW e \in Entry, SingleAnswered(e) PROVE Inv'
  <2>1. TypeOK'
    BY <1>1, <1>4 DEF SingleAnswered, TypeOK, queueVars
  <2>2. QED
    BY <1>1, <1>4, <2>1, ClockKept DEF SingleAnswered, Inv
<1>5. ASSUME NEW t \in armed, Expire(t) PROVE Inv'
  <2>1. TypeOK'
    BY <1>1, <1>5 DEF Expire, TypeOK, callVars
  <2>2. QED
    BY <1>1, <1>5, <2>1 DEF Expire, Inv, WindowClock
<1>6. ASSUME NEW b \in taken, Dispatch(b) PROVE Inv'
  <2>1. TypeOK' /\ UNCHANGED queueVars
    BY <1>1, <1>6, DispatchType
  <2>2. QED
    BY <1>1, <2>1, ClockKept DEF Inv
<1>7. ASSUME NEW b \in posted, BatchFailed(b) PROVE Inv'
  <2>1. TypeOK' /\ UNCHANGED queueVars
    BY <1>1, <1>7, DispatchType
  <2>2. QED
    BY <1>1, <2>1, ClockKept DEF Inv
<1>8. ASSUME NEW b \in posted, BatchAnswered(b) PROVE Inv'
  <2>1. TypeOK' /\ UNCHANGED queueVars
    BY <1>1, <1>8, AnsweredType
  <2>2. QED
    BY <1>1, <2>1, ClockKept DEF Inv
<1>9. ASSUME NEW d \in delivering, Deliver(d) PROVE Inv'
  <2>1. TypeOK' /\ UNCHANGED queueVars
    BY <1>1, <1>9, DeliverType
  <2>2. QED
    BY <1>1, <2>1, ClockKept DEF Inv
<1>10. CASE UNCHANGED vars
  BY <1>1, <1>10 DEF vars, Inv, TypeOK, WindowClock
<1>11. QED
  BY <1>2, <1>3, <1>4, <1>5, <1>6, <1>7, <1>8, <1>9, <1>10, EnqueueInv, CallbackInv DEF Next

LEMMA InvAlways == Spec => []Inv
BY InitInv, NextInv, PTL DEF Spec

\* Types of the batcher's state: what an Enqueue has read, what is queued, and
\* batches that are never empty (dispatchBatch looks at entries[0]).
THEOREM TypeCorrect == Spec => []TypeOK
BY InvAlways, PTL DEF Inv

\* The clock of a window: queued entries always have their timer to come, so no
\* entry of the batcher is left without anything that will dispatch it.
THEOREM ClockRuns == Spec => []WindowClock
BY InvAlways, PTL DEF Inv
-----------------------------------------------------------------------------
(* An entry is in one place.                                               *)

To      == {d.to : d \in delivering}
Batches == taken \cup posted \cup To

Owed(e) == Waiting(e) /\ reply[e] = None

Placement ==
  /\ NoDup(queue) /\ \A b \in Batches : NoDup(b)
  /\ taken \cap posted = {} /\ taken \cap To = {} /\ posted \cap To = {}
  /\ \A b, c \in Batches : b # c => In(b) \cap In(c) = {}
  /\ \A b \in Batches : In(b) \cap In(queue) = {} /\ In(b) \cap single = {}
  /\ In(queue) \cap single = {}
  /\ \A e \in In(queue) \cup single : Owed(e)
  /\ \A b \in Batches : \A e \in In(b) : Owed(e)
  /\ \A e \in Entry : ~Waiting(e) => reply[e] = None

LEMMA BatchType ==
  ASSUME TypeOK
  PROVE  \A b \in Batches : b \in Seq(Entry) /\ b # <<>> /\ In(b) \subseteq Entry
<1>1. \A b \in Batches : b \in Seq(Entry) /\ b # <<>>
  BY AfterIs DEF TypeOK, Batches, To
<1>2. QED
  BY <1>1, InEntry

LEMMA InitPlacement == Init => Placement
BY EmptyIn DEF Init, Placement, Batches, To

LEMMA EnqueuePlacement ==
  ASSUME Inv, Placement, NEW e \in Entry, Enqueue(e)
  PROVE  Placement'
<1>1. TypeOK /\ queue \in Seq(Entry) /\ ~Waiting(e)
  BY DEF Inv, TypeOK, Enqueue, Waiting
<1>2. /\ e \notin In(queue) \cup single
      /\ \A b \in Batches : e \notin In(b) /\ b \in Seq(Entry) /\ b # <<>>
  BY <1>1, BatchType DEF Placement, Owed
<1> DEFINE c == Append(queue, e)
<1>3. In(c) = In(queue) \cup {e} /\ NoDup(c)
  BY <1>1, <1>2, AppendIn DEF Placement
<1>4. /\ UNCHANGED <<posted, To, single, reply>>
      /\ \A d \in Entry : Waiting(d)' <=> Waiting(d) \/ d = e
  BY <1>1 DEF Enqueue, Waiting, TypeOK, To
<1>5. In(c) \subseteq Entry /\ single \subseteq Entry /\ \A b \in Batches : In(b) \subseteq Entry
  BY <1>1, <1>2, <1>3, InEntry DEF TypeOK
<1>6. \A d \in Entry : Owed(d)' <=> Owed(d) \/ d = e
  BY <1>1, <1>4 DEF Owed, Placement
<1>7. CASE Len(queue) + 1 >= sized[e]
  <2>1. taken' = taken \cup {c} /\ queue' = <<>>
    BY <1>7 DEF Enqueue
  <2> HIDE DEF c
  <2>2. In(queue') = {} /\ NoDup(queue')
    BY <2>1, EmptyIn
  <2>3. c \notin Batches /\ Batches' = Batches \cup {c}
    BY <1>2, <1>3, <1>4, <2>1 DEF Batches
  <2>4. \A b \in Batches : In(b) \cap In(c) = {}
    BY <1>2, <1>3 DEF Placement
  <2>5. taken' \cap posted' = {} /\ taken' \cap To' = {} /\ posted' \cap To' = {}
    BY <1>4, <2>1, <2>3 DEF Placement, Batches
  <2>6. \A a, b \in Batches' : a # b => In(a) \cap In(b) = {}
    BY <2>3, <2>4 DEF Placement
  <2>7. \A b \in Batches' : NoDup(b) /\ In(b) \cap single' = {}
    BY <1>2, <1>3, <1>4, <2>3 DEF Placement
  <2>8. /\ \A d \in single' : Owed(d)'
        /\ \A b \in Batches' : \A d \in In(b) : Owed(d)'
    BY <1>3, <1>4, <1>5, <1>6, <2>3 DEF Placement
  <2>9. \A d \in Entry : ~Waiting(d)' => reply'[d] = None
    BY <1>4 DEF Placement
  <2>10. QED
    BY <2>2, <2>5, <2>6, <2>7, <2>8, <2>9 DEF Placement
<1>8. CASE ~(Len(queue) + 1 >= sized[e])
  <2>1. taken' = taken /\ queue' = c
    BY <1>8 DEF Enqueue
  <2> HIDE DEF c
  <2>2. Batches' = Batches
    BY <1>4, <2>1 DEF Batches
  <2>3. /\ NoDup(queue') /\ In(queue') \cap single' = {}
        /\ \A b \in Batches' : In(b) \cap In(queue') = {}
    BY <1>2, <1>3, <1>4, <2>1, <2>2 DEF Placement
  <2>4. /\ \A d \in In(queue') \cup single' : Owed(d)'
        /\ \A b \in Batches' : \A d \in In(b) : Owed(d)'
    BY <1>3, <1>4, <1>5, <1>6, <2>1, <2>2 DEF Placement
  <2>5. \A d \in Entry : ~Waiting(d)' => reply'[d] = None
    BY <1>4 DEF Placement
  <2>6. QED
    BY <1>4, <2>1, <2>2, <2>3, <2>4, <2>5 DEF Placement
<1>9. QED
  BY <1>7, <1>8

LEMMA CallbackPlacement ==
  ASSUME Inv, Placement, NEW t \in expired, Callback(t)
  PROVE  Placement'
<1>1. /\ queue' = <<>> /\ taken' = IF queue = <<>> THEN taken ELSE taken \cup {queue}
      /\ UNCHANGED <<pc, posted, To, single, reply>>
  BY DEF Callback, To
<1>2. In(queue') = {} /\ NoDup(queue')
  BY <1>1, EmptyIn
<1>3. \A d : Owed(d)' <=> Owed(d)
  BY <1>1 DEF Owed, Waiting
<1>4. \A d \in Entry : ~Waiting(d)' => reply'[d] = None
  BY <1>1 DEF Placement, Waiting
<1>5. CASE queue = <<>>
  <2>1. taken' = taken /\ Batches' = Batches
    BY <1>1, <1>5 DEF Batches
  <2>2. QED
    BY <1>1, <1>2, <1>3, <1>4, <2>1 DEF Placement
<1>6. CASE queue # <<>>
  <2>1. taken' = taken \cup {queue} /\ Batches' = Batches \cup {queue}
    BY <1>1, <1>6 DEF Batches
  <2>2. In(queue) # {}
    BY <1>6, InEntry DEF Inv, TypeOK
  <2>3. queue \notin Batches
    BY <2>2 DEF Placement
  <2>4. taken' \cap posted' = {} /\ taken' \cap To' = {} /\ posted' \cap To' = {}
    BY <1>1, <2>1, <2>3 DEF Placement, Batches
  <2>5. \A a, b \in Batches' : a # b => In(a) \cap In(b) = {}
    BY <2>1 DEF Placement
  <2>6. \A b \in Batches' : NoDup(b) /\ In(b) \cap single' = {}
    BY <1>1, <2>1 DEF Placement
  <2>7. /\ \A d \in single' : Owed(d)'
        /\ \A b \in Batches' : \A d \in In(b) : Owed(d)'
    BY <1>1, <1>3, <2>1 DEF Placement
  <2>8. QED
    BY <1>2, <1>4, <2>4, <2>5, <2>6, <2>7 DEF Placement
<1>7. QED
  BY <1>5, <1>6

\* A batch goes on to the next stage as a whole.
LEMMA MovePlacement ==
  ASSUME Placement, NEW b \in Batches, UNCHANGED <<pc, queue, single, reply>>,
         \/ b \in taken /\ taken' = taken \ {b} /\ posted' = posted \cup {b}
                       /\ To' = To
         \/ b \in posted /\ posted' = posted \ {b} /\ To' = To \cup {b}
                       /\ taken' = taken
  PROVE  Placement'
<1>1. Batches' = Batches
  BY DEF Batches
<1>2. taken' \cap posted' = {} /\ taken' \cap To' = {} /\ posted' \cap To' = {}
  BY DEF Placement
<1>3. \A d : (Owed(d)' <=> Owed(d)) /\ (Waiting(d)' <=> Waiting(d))
  BY DEF Owed, Waiting
<1>4. QED
  BY <1>1, <1>2, <1>3 DEF Placement

\* The entries of a batch get calls of their own.
LEMMA SplitPlacement ==
  ASSUME Placement, NEW b \in Batches, UNCHANGED <<pc, queue, To, reply>>,
         \/ b \in taken /\ taken' = taken \ {b} /\ posted' = posted
         \/ b \in posted /\ posted' = posted \ {b} /\ taken' = taken,
         single' = single \cup In(b)
  PROVE  Placement'
<1>1. Batches' = Batches \ {b}
  BY DEF Batches, Placement
<1>2. taken' \cap posted' = {} /\ taken' \cap To' = {} /\ posted' \cap To' = {}
  BY DEF Placement
<1>3. \A d : (Owed(d)' <=> Owed(d)) /\ (Waiting(d)' <=> Waiting(d))
  BY DEF Owed, Waiting
<1>4. \A c \in Batches' : NoDup(c) /\ In(c) \cap single' = {} /\ In(c) \cap In(queue') = {}
  BY <1>1 DEF Placement
<1>5. In(queue') \cap single' = {} /\ \A d \in In(queue') \cup single' : Owed(d)'
  BY <1>3 DEF Placement
<1>6. QED
  BY <1>1, <1>2, <1>3, <1>4, <1>5 DEF Placement

LEMMA DeliverPlacement ==
  ASSUME Inv, Placement, NEW d \in delivering, Deliver(d),
         \A c \in delivering : c.to = d.to => c = d
  PROVE  Placement' /\ Head(d.to) \in Entry /\ Owed(Head(d.to))
<1> TypeOK
  BY DEF Inv
<1>1. PICK b : b = d.to
  OBVIOUS
<1>2. b \in Seq(Entry) /\ b # <<>> /\ b \in To /\ b \in Batches
  BY <1>1, AfterIs DEF To, Batches
<1>3. PICK h \in Entry : h = Head(b)
  BY <1>2, InEntry
<1>4. h \in In(b) /\ In(Tail(b)) = In(b) \ {h} /\ NoDup(Tail(b))
  BY <1>2, <1>3, TailIn DEF Placement
<1>5. Owed(h)
  BY <1>2, <1>4 DEF Placement
<1> DEFINE rest == {r.to : r \in After(d)}
<1>6. \A c \in rest : c = Tail(b) /\ In(c) # {}
  BY <1>1, AfterIs, InEntry
<1>7. To' = (To \ {b}) \cup rest
  <2>1. delivering' = (delivering \ {d}) \cup After(d)
    BY DEF Deliver
  <2>2. \A c \in delivering : c.to = b <=> c = d
    BY <1>1
  <2>3. To' = {c.to : c \in delivering \ {d}} \cup rest
    BY <2>1 DEF To
  <2>4. {c.to : c \in delivering \ {d}} = To \ {b}
    BY <2>2 DEF To
  <2>5. QED
    BY <2>3, <2>4
<1> HIDE DEF rest
<1>8. /\ \E a : reply' = [reply EXCEPT ![h] = a]
      /\ UNCHANGED <<pc, queue, taken, posted, single>>
  BY <1>1, <1>3 DEF Deliver, queueVars
<1>9. Batches' = (Batches \ {b}) \cup rest
  BY <1>2, <1>7, <1>8 DEF Batches, Placement
<1>10. \A c \in Batches \ {b} : In(c) \cap In(b) = {}
  BY <1>2 DEF Placement
<1>11. \A c \in rest : c \notin Batches \ {b}
  BY <1>4, <1>6, <1>10
<1>12. taken' \cap posted' = {} /\ taken' \cap To' = {} /\ posted' \cap To' = {}
  BY <1>2, <1>7, <1>8, <1>11 DEF Placement, Batches
<1>13. \A c \in Batches' : NoDup(c) /\ In(c) \cap In(queue') = {} /\ In(c) \cap single' = {}
  BY <1>2, <1>4, <1>6, <1>8, <1>9 DEF Placement
<1>14. \A c, e \in Batches' : c # e => In(c) \cap In(e) = {}
  BY <1>4, <1>6, <1>9, <1>10 DEF Placement
<1>15. \A e \in Entry : e # h => (Owed(e)' <=> Owed(e))
  BY <1>8 DEF Owed, Waiting, TypeOK
<1>16. In(queue') \cup single' \subseteq Entry \ {h}
  BY <1>2, <1>4, <1>8, InEntry DEF Placement, TypeOK
<1>17. \A c \in Batches' : In(c) \subseteq Entry \ {h}
  <2>1. \A c \in Batches : In(c) \subseteq Entry
    BY BatchType
  <2>2. QED
    BY <1>2, <1>4, <1>6, <1>9, <1>10, <2>1
<1>18. /\ \A e \in In(queue') \cup single' : Owed(e)'
       /\ \A c \in Batches' : \A e \in In(c) : Owed(e)'
  <2>1. \A e \in In(queue') \cup single' : Owed(e)
    BY <1>8 DEF Placement
  <2>2. \A c \in Batches' : \A e \in In(c) : Owed(e)
    BY <1>2, <1>4, <1>6, <1>9 DEF Placement
  <2>3. QED
    BY <1>15, <1>16, <1>17, <2>1, <2>2
<1>19. \A e \in Entry : ~Waiting(e)' => reply'[e] = None
  BY <1>5, <1>8 DEF Placement, Waiting, Owed, TypeOK
<1>20. In(queue') \cap single' = {} /\ NoDup(queue')
  BY <1>8 DEF Placement
<1>21. QED
  BY <1>1, <1>3, <1>5, <1>12, <1>13, <1>14, <1>18, <1>19, <1>20 DEF Placement

LEMMA SinglePlacement ==
  ASSUME Inv, Placement, NEW e \in Entry, SingleAnswered(e)
  PROVE  Placement' /\ Owed(e)
<1>1. e \in single /\ Owed(e)
  BY DEF SingleAnswered, Placement
<1>2. /\ single' = single \ {e} /\ UNCHANGED <<pc, queue, taken, posted, To>>
      /\ \E a : reply' = [reply EXCEPT ![e] = a]
  BY DEF SingleAnswered, queueVars, To
<1>3. Batches' = Batches
  BY <1>2 DEF Batches
<1>4. \A d \in Entry : d # e => (Owed(d)' <=> Owed(d))
  BY <1>2 DEF Owed, Waiting, Inv, TypeOK
<1>5. /\ In(queue) \cup single' \subseteq Entry \ {e}
      /\ \A b \in Batches : In(b) \subseteq Entry \ {e}
  BY <1>1, <1>2, InEntry, BatchType DEF Placement, Inv, TypeOK
<1>6. /\ \A d \in In(queue') \cup single' : Owed(d)'
      /\ \A b \in Batches' : \A d \in In(b) : Owed(d)'
  BY <1>2, <1>3, <1>4, <1>5 DEF Placement
<1>7. \A d \in Entry : ~Waiting(d)' => reply'[d] = None
  BY <1>1, <1>2 DEF Placement, Waiting, Owed, Inv, TypeOK
<1>8. QED
  BY <1>1, <1>2, <1>3, <1>6, <1>7 DEF Placement

\* Steps before an entry is queued, and the timers, move nothing.
LEMMA StillPlacement ==
  ASSUME Inv, Placement, UNCHANGED <<queue, taken, posted, To, single, reply>>,
         \A e \in Entry : Waiting(e)' <=> Waiting(e)
  PROVE  Placement'
<1>1. Batches' = Batches
  BY DEF Batches
<1>2. \A e \in Entry : Owed(e)' <=> Owed(e)
  BY DEF Owed
<1>3. In(queue) \cup single \subseteq Entry /\ \A b \in Batches : In(b) \subseteq Entry
  BY InEntry, BatchType DEF Inv, TypeOK
<1>4. \A e \in In(queue') \cup single' : Owed(e)'
  BY <1>2, <1>3 DEF Placement
<1>5. \A b \in Batches' : \A e \in In(b) : Owed(e)'
  BY <1>1, <1>2, <1>3 DEF Placement
<1>6. \A e \in Entry : ~Waiting(e)' => reply'[e] = None
  BY DEF Placement
<1>7. QED
  BY <1>1, <1>4, <1>5, <1>6 DEF Placement

-----------------------------------------------------------------------------
(* The answer to a prompt is in one place too.                             *)

Said(a) == \E q \in Entry : reply[q] = a
Held(a) == \E d \in delivering : a \in In(d.choices)

\* No call with the prompt of a has been answered.
Unasked(a) ==
  \/ ~Waiting(a)
  \/ a \in In(queue) \cup single
  \/ \E b \in taken \cup posted : a \in In(b)

Answers ==
  /\ \A d \in delivering : NoDup(d.choices) /\ (d.to = d.choices \/ In(d.to) \subseteq shuffled)
  /\ \A d, c \in delivering : d # c => d.to # c.to /\ In(d.choices) \cap In(c.choices) = {}
  /\ \A a \in Entry : Unasked(a) => ~Said(a) /\ ~Held(a)
  /\ \A a \in Entry : Held(a) => Waiting(a) /\ ~Said(a)

LEMMA InitAnswers == Init => Answers
BY BatcherAssumption DEF Init, Answers, Said, Held

\* Until a call is answered nothing changes for the answers.
LEMMA AnswersKept ==
  ASSUME Answers, UNCHANGED <<delivering, reply, shuffled>>,
         \A a \in Entry : (Waiting(a) => Waiting(a)') /\ (Unasked(a)' => Unasked(a))
  PROVE  Answers'
BY DEF Answers, Said, Held

LEMMA EnqueueAnswers ==
  ASSUME Inv, Answers, NEW e \in Entry, Enqueue(e)
  PROVE  Answers'
<1>1. TypeOK /\ ~Waiting(e) /\ queue \in Seq(Entry)
  BY DEF Inv, TypeOK, Enqueue, Waiting
<1>2. UNCHANGED <<posted, delivering, single, reply, shuffled>>
  BY DEF Enqueue
<1>3. \A d \in Entry : Waiting(d)' <=> Waiting(d) \/ d = e
  BY <1>1 DEF Enqueue, Waiting, TypeOK
<1>4. In(Append(queue, e)) = In(queue) \cup {e}
  BY <1>1, AppendIn
<1>5. \/ taken' = taken \cup {Append(queue, e)} /\ queue' = <<>>
      \/ taken' = taken /\ queue' = Append(queue, e)
  BY DEF Enqueue
<1>6. ASSUME NEW a \in Entry, Unasked(a)' PROVE Unasked(a)
  <2>1. CASE a = e
    BY <1>1, <2>1 DEF Unasked
  <2>2. CASE a # e /\ Waiting(a)
    <3>1. In(queue') \subseteq In(queue) \cup {e}
      BY <1>4, <1>5, EmptyIn
    <3>2. \A b \in taken' \cup posted' : a \in In(b) => a \in In(queue) \/ b \in taken \cup posted
      BY <1>2, <1>4, <1>5, <2>2
    <3>3. QED
      BY <1>2, <1>3, <1>6, <2>2, <3>1, <3>2 DEF Unasked
  <2>3. QED
    BY <2>1, <2>2 DEF Unasked
<1>7. QED
  BY <1>2, <1>3, <1>6, AnswersKept

LEMMA CallbackAnswers ==
  ASSUME Answers, NEW t \in expired, Callback(t)
  PROVE  Answers'
<1>1. /\ queue' = <<>> /\ taken' = IF queue = <<>> THEN taken ELSE taken \cup {queue}
      /\ UNCHANGED <<pc, posted, delivering, single, reply, shuffled>>
  BY DEF Callback
<1>2. ASSUME NEW a \in Entry, Unasked(a)' PROVE Unasked(a)
  BY <1>1, <1>2, EmptyIn DEF Unasked, Waiting
<1>3. QED
  BY <1>1, <1>2, AnswersKept DEF Waiting

LEMMA CallAnswers ==
  ASSUME Answers, NEW b \in taken \cup posted, Dispatch(b) \/ BatchFailed(b)
  PROVE  Answers'
<1>1. /\ UNCHANGED <<pc, queue, delivering, reply, shuffled>>
      /\ single' \subseteq single \cup In(b)
      /\ taken' \cup posted' \subseteq taken \cup posted
  BY DEF Dispatch, BatchFailed, queueVars
<1>2. ASSUME NEW a \in Entry, Unasked(a)' PROVE Unasked(a)
  BY <1>1, <1>2 DEF Unasked, Waiting
<1>3. QED
  BY <1>1, <1>2, AnswersKept DEF Waiting

LEMMA BatchAnsweredAnswers ==
  ASSUME Inv, Placement, Answers, NEW b \in posted, BatchAnswered(b)
  PROVE  Answers'
<1>1. b \in Seq(Entry) /\ In(b) \subseteq Entry /\ b \in Batches
  BY BatchType DEF Inv, Batches
<1>2. PICK c \in Orders(b) : /\ delivering' = delivering \cup {[to |-> b, choices |-> c]}
                             /\ shuffled' = IF c = b THEN shuffled ELSE shuffled \cup In(b)
  BY DEF BatchAnswered
<1>3. UNCHANGED <<pc, queue, taken, single, reply>> /\ posted' = posted \ {b}
  BY DEF BatchAnswered, queueVars
<1>4. In(c) \subseteq In(b) /\ NoDup(c)
  BY <1>1, <1>2, OrdersAre
<1> DEFINE new == [to |-> b, choices |-> c]
<1>5. new.to = b /\ new.choices = c
  OBVIOUS
<1> HIDE DEF new
<1>6. delivering' = delivering \cup {new}
  BY <1>2 DEF new
<1>7. \A a \in In(b) : Unasked(a) /\ Waiting(a) /\ a \in Entry
  BY <1>1 DEF Unasked, Placement, Owed
<1>8. \A a \in In(b) : ~Said(a) /\ ~Held(a)
  BY <1>7 DEF Answers
<1>9. \A a \in Entry : /\ Held(a)' <=> Held(a) \/ a \in In(c)
                       /\ Said(a)' <=> Said(a)
                       /\ Waiting(a)' <=> Waiting(a)
  BY <1>3, <1>5, <1>6 DEF Held, Said, Waiting
<1>10. \A a \in Entry : Unasked(a)' => Unasked(a) /\ a \notin In(b)
  <2>1. \A a \in In(b) : /\ Waiting(a) /\ a \notin In(queue) \cup single
                         /\ \A x \in Batches : a \in In(x) => x = b
    BY <1>1, <1>7 DEF Placement
  <2>2. taken' = taken /\ b \notin taken
    BY <1>3 DEF Placement
  <2>3. QED
    BY <1>3, <2>1, <2>2 DEF Unasked, Batches, Waiting
<1>11. \A d \in delivering' : NoDup(d.choices) /\ (d.to = d.choices \/ In(d.to) \subseteq shuffled')
  BY <1>2, <1>4, <1>5, <1>6 DEF Answers
<1>12. \A d \in delivering : d.to # b /\ In(d.choices) \cap In(c) = {}
  <2>1. \A d \in delivering : d.to # b
    BY DEF Placement, To
  <2>2. QED
    BY <1>4, <1>8, <2>1 DEF Held
<1>13. \A d, e \in delivering' : d # e => d.to # e.to /\ In(d.choices) \cap In(e.choices) = {}
  BY <1>5, <1>6, <1>12 DEF Answers
<1>14. /\ \A a \in Entry : Unasked(a)' => ~Said(a)' /\ ~Held(a)'
       /\ \A a \in Entry : Held(a)' => Waiting(a)' /\ ~Said(a)'
  BY <1>4, <1>7, <1>8, <1>9, <1>10 DEF Answers
<1>15. QED
  BY <1>11, <1>13, <1>14 DEF Answers

\* The answer handed out is one nobody has had, and that of the entry's own prompt
\* unless the choices came in another order.
LEMMA DeliverAnswers ==
  ASSUME Inv, Placement, Answers, NEW d \in delivering, Deliver(d), Owed(Head(d.to))
  PROVE  /\ Answers'
         /\ Head(d.choices) \in Entry /\ Waiting(Head(d.choices)) /\ ~Said(Head(d.choices))
         /\ Head(d.to) \notin shuffled => Head(d.choices) = Head(d.to)
<1> TypeOK
  BY DEF Inv
<1>1. PICK t, c, h, a : t = d.to /\ c = d.choices /\ h = Head(t) /\ a = Head(c)
  OBVIOUS
<1>2. /\ t \in Seq(Entry) /\ c \in Seq(Entry) /\ t # <<>> /\ c # <<>>
      /\ h \in Entry /\ a \in Entry /\ t \in Batches /\ NoDup(t) /\ NoDup(c)
  <2>1. t \in Batches
    BY <1>1 DEF Batches, To
  <2>2. QED
    BY <1>1, <2>1, AfterIs DEF Answers, Placement
<1>3. /\ h \in In(t) /\ In(Tail(t)) = In(t) \ {h}
      /\ a \in In(c) /\ In(Tail(c)) = In(c) \ {a} /\ NoDup(Tail(c))
  BY <1>1, <1>2, TailIn
<1>4. Held(a) /\ Waiting(a) /\ ~Said(a) /\ ~Unasked(a) /\ Owed(h)
  BY <1>1, <1>2, <1>3 DEF Held, Answers
<1>5. h \notin shuffled => a = h
  BY <1>1, <1>3 DEF Answers
<1>6. /\ delivering' = (delivering \ {d}) \cup After(d) /\ reply' = [reply EXCEPT ![h] = a]
      /\ UNCHANGED <<pc, queue, taken, posted, single, shuffled>>
  BY <1>1 DEF Deliver, queueVars
<1>7. \A r \in After(d) : r.to = Tail(t) /\ r.choices = Tail(c) /\ r.to # <<>> /\ r.to \in Seq(Entry)
  BY <1>1, AfterIs
<1>8. \A x \in Entry : /\ Said(x)' <=> Said(x) \/ x = a
                       /\ Waiting(x)' <=> Waiting(x)
                       /\ Unasked(x)' <=> Unasked(x)
  <2>1. \A x \in Entry : Said(x)' <=> Said(x) \/ x = a
    BY <1>2, <1>4, <1>6, BatcherAssumption DEF Said, Owed, TypeOK
  <2>2. QED
    BY <1>6, <2>1 DEF Waiting, Unasked
<1>9. \A e \in delivering \ {d} : e.to # t /\ In(e.choices) \cap In(c) = {}
  BY <1>1 DEF Answers
<1>10. \A x \in Entry : Held(x)' => Held(x) /\ x # a
  BY <1>1, <1>3, <1>6, <1>7, <1>9 DEF Held
<1>11. \A e \in delivering' : NoDup(e.choices) /\ (e.to = e.choices \/ In(e.to) \subseteq shuffled')
  <2>1. \A r \in After(d) : NoDup(r.choices) /\ (r.to = r.choices \/ In(r.to) \subseteq shuffled)
    BY <1>1, <1>3, <1>7 DEF Answers
  <2>2. QED
    BY <1>6, <2>1 DEF Answers
<1>12. \A e \in delivering \ {d}, r \in After(d) : e.to # r.to /\ In(e.choices) \cap In(r.choices) = {}
  <2>1. ASSUME NEW e \in delivering \ {d}, NEW r \in After(d) PROVE e.to # r.to
    <3>1. e.to \in Batches /\ e.to # t
      BY <1>9 DEF Batches, To
    <3>2. In(e.to) \cap In(t) = {}
      BY <1>2, <3>1 DEF Placement
    <3>3. In(r.to) \subseteq In(t) /\ In(r.to) # {}
      BY <1>3, <1>7, InEntry
    <3>4. QED
      BY <3>2, <3>3
  <2>2. QED
    BY <1>3, <1>7, <1>9, <2>1
<1>13. \A e, r \in delivering' : e # r => e.to # r.to /\ In(e.choices) \cap In(r.choices) = {}
  <2>1. \A e, r \in After(d) : e = r
    BY AfterIs
  <2>2. QED
    BY <1>6, <1>12, <2>1 DEF Answers
<1>14. /\ \A x \in Entry : Unasked(x)' => ~Said(x)' /\ ~Held(x)'
       /\ \A x \in Entry : Held(x)' => Waiting(x)' /\ ~Said(x)'
  BY <1>4, <1>8, <1>10 DEF Answers
<1>15. Answers'
  BY <1>11, <1>13, <1>14 DEF Answers
<1>16. QED
  BY <1>1, <1>2, <1>4, <1>5, <1>15

LEMMA SingleAnswers ==
  ASSUME Inv, Placement, Answers, NEW e \in Entry, SingleAnswered(e)
  PROVE  Answers' /\ Waiting(e) /\ ~Said(e)
<1>1. e \in single /\ Owed(e) /\ Waiting(e) /\ Unasked(e)
  BY DEF SingleAnswered, Placement, Owed, Unasked
<1>2. ~Said(e) /\ ~Held(e)
  BY <1>1 DEF Answers
<1>3. /\ single' = single \ {e}
      /\ UNCHANGED <<pc, queue, taken, posted, delivering, shuffled>>
      /\ \E a \in {e, Failed} : reply' = [reply EXCEPT ![e] = a]
  BY DEF SingleAnswered, queueVars
<1>4. \A x \in Entry : /\ Said(x)' => Said(x) \/ x = e
                       /\ Held(x)' <=> Held(x)
                       /\ Waiting(x)' <=> Waiting(x)
  BY <1>3, BatcherAssumption DEF Said, Held, Waiting, Inv, TypeOK
<1>5. \A x \in Entry : Unasked(x)' => Unasked(x) /\ x # e
  <2>1. e \notin In(queue) /\ \A b \in Batches : e \notin In(b)
    BY <1>1 DEF Placement
  <2>2. QED
    BY <1>1, <1>3, <2>1 DEF Unasked, Batches, Waiting
<1>6. /\ \A x \in Entry : Unasked(x)' => ~Said(x)' /\ ~Held(x)'
      /\ \A x \in Entry : Held(x)' => Waiting(x)' /\ ~Said(x)'
  BY <1>2, <1>4, <1>5 DEF Answers
<1>7. QED
  BY <1>1, <1>2, <1>3, <1>6 DEF Answers

-----------------------------------------------------------------------------
(* The batcher implements RequestReply.                                    *)

asked == {e \in Entry : Waiting(e)}

LEMMA InitCaller == Init => Caller!Init
BY DEF Init, Caller!Init, Waiting

\* A reply to an entry that is owed one, with an answer nobody has had.
LEMMA AnswerCaller ==
  ASSUME TypeOK, NEW e \in Entry, Owed(e), NEW a \in Entry \cup {Failed},
         a \in Entry => Waiting(a) /\ ~Said(a),
         e \notin shuffled => a \in {e, Failed},
         reply' = [reply EXCEPT ![e] = a], UNCHANGED <<pc, shuffled>>
  PROVE  Caller!Answer(e)
<1>1. asked' = asked /\ e \in asked
  BY DEF asked, Waiting, Owed
<1>2. a # Failed => Caller!Fresh(a)
  BY DEF Caller!Fresh, Said
<1>3. QED
  BY <1>1, <1>2 DEF Caller!Answer, asked, Owed

\* What a step means to the callers: nothing, a request, one answer, or a call whose
\* answers the backend mixed up.
LEMMA NextCaller ==
  ASSUME Inv, Placement, Answers, [Next]_vars
  PROVE  Placement' /\ Answers' /\ [Caller!Next]_(Caller!vars)
<1>1. TypeOK
  BY DEF Inv
<1>2. ASSUME NEW e \in Entry, Enqueue(e)
      PROVE  Placement' /\ Answers' /\ Caller!Ask(e)
  <2>1. asked' = asked \cup {e} /\ e \notin asked /\ reply' = reply /\ shuffled' = shuffled
    BY <1>1, <1>2 DEF Enqueue, asked, Waiting, TypeOK
  <2>2. QED
    BY <1>2, <2>1, EnqueuePlacement, EnqueueAnswers DEF Caller!Ask, asked
<1>3. ASSUME NEW e \in Entry, SingleAnswered(e)
      PROVE  Placement' /\ Answers' /\ Caller!Answer(e)
  <2>1. Placement' /\ Owed(e) /\ Answers' /\ Waiting(e) /\ ~Said(e)
    BY <1>3, SinglePlacement, SingleAnswers
  <2>2. PICK a \in {e, Failed} : reply' = [reply EXCEPT ![e] = a]
    BY <1>3 DEF SingleAnswered
  <2>3. UNCHANGED <<pc, shuffled>> /\ Failed \notin Entry
    BY <1>3, BatcherAssumption DEF SingleAnswered
  <2>4. Caller!Answer(e)
    BY <1>1, <2>1, <2>2, <2>3, AnswerCaller
  <2>5. QED
    BY <2>1, <2>4
<1>4. ASSUME NEW d \in delivering, Deliver(d)
      PROVE  Placement' /\ Answers' /\ \E e \in Entry : Caller!Answer(e)
  <2>1. Placement' /\ Head(d.to) \in Entry /\ Owed(Head(d.to))
    BY <1>4, DeliverPlacement DEF Answers
  <2>2. /\ Answers'
        /\ Head(d.choices) \in Entry /\ Waiting(Head(d.choices)) /\ ~Said(Head(d.choices))
        /\ Head(d.to) \notin shuffled => Head(d.choices) = Head(d.to)
    BY <1>4, <2>1, DeliverAnswers
  <2>3. reply' = [reply EXCEPT ![Head(d.to)] = Head(d.choices)] /\ UNCHANGED <<pc, shuffled>>
    BY <1>4 DEF Deliver
  <2>4. Caller!Answer(Head(d.to))
    BY <1>1, <2>1, <2>2, <2>3, AnswerCaller
  <2>5. QED
    BY <2>1, <2>2, <2>4
<1>5. ASSUME UNCHANGED <<reply, shuffled>>, \A e \in Entry : Waiting(e)' <=> Waiting(e)
      PROVE  UNCHANGED Caller!vars
  BY <1>5 DEF Caller!vars
<1>6. ASSUME NEW b \in taken, Dispatch(b)
      PROVE  Placement' /\ Answers' /\ UNCHANGED Caller!vars
  <2>1. b \in Batches /\ b \in taken /\ taken' = taken \ {b}
    BY <1>6 DEF Batches, Dispatch
  <2>2. UNCHANGED <<pc, queue, delivering, To, reply, shuffled>>
    BY <1>6 DEF Dispatch, queueVars, To
  <2>3. \/ posted' = posted \cup {b} /\ single' = single
        \/ posted' = posted /\ single' = single \cup In(b)
    BY <1>6 DEF Dispatch
  <2>4. Placement' /\ Answers'
    BY <1>6, <2>1, <2>2, <2>3, MovePlacement, SplitPlacement, CallAnswers
  <2>5. QED
    BY <1>5, <2>2, <2>4 DEF Waiting
<1>7. ASSUME NEW b \in posted, BatchAnswered(b)
      PROVE  /\ Placement' /\ Answers'
             /\ UNCHANGED Caller!vars \/ \E S \in SUBSET Entry : Caller!MixUp(S)
  <2>1. b \in Batches /\ b \in posted /\ posted' = posted \ {b} /\ To' = To \cup {b}
    <3>1. PICK c : delivering' = delivering \cup {[to |-> b, choices |-> c]}
      BY <1>7 DEF BatchAnswered
    <3>2. [to |-> b, choices |-> c].to = b
      OBVIOUS
    <3> DEFINE new == [to |-> b, choices |-> c]
    <3> HIDE DEF new
    <3>3. delivering' = delivering \cup {new} /\ new.to = b
      BY <3>1, <3>2 DEF new
    <3>4. QED
      BY <1>7, <3>3 DEF BatchAnswered, Batches, To
  <2>2. UNCHANGED <<pc, queue, taken, single, reply>>
    BY <1>7 DEF BatchAnswered, queueVars
  <2>3. Placement' /\ Answers'
    BY <1>7, <2>1, <2>2, MovePlacement, BatchAnsweredAnswers
  <2>4. shuffled' = shuffled \/ shuffled' = shuffled \cup In(b)
    BY <1>7 DEF BatchAnswered
  <2>5. CASE shuffled' = shuffled
    BY <1>5, <2>2, <2>3, <2>5 DEF Waiting
  <2>6. CASE shuffled' = shuffled \cup In(b)
    <3>1. In(b) \in SUBSET Entry /\ \A e \in In(b) : Owed(e)
      BY <1>1, <2>1, BatchType DEF Placement
    <3>2. asked' = asked
      BY <2>2 DEF asked, Waiting
    <3>3. Caller!MixUp(In(b))
      BY <2>2, <2>6, <3>1, <3>2 DEF Caller!MixUp, asked, Owed
    <3>4. QED
      BY <2>3, <3>1, <3>3
  <2>7. QED
    BY <2>4, <2>5, <2>6
<1>8. ASSUME NEW b \in posted, BatchFailed(b)
      PROVE  Placement' /\ Answers' /\ UNCHANGED Caller!vars
  <2>1. b \in Batches /\ b \in posted /\ posted' = posted \ {b} /\ single' = single \cup In(b)
    BY <1>8 DEF Batches, BatchFailed
  <2>2. UNCHANGED <<pc, queue, taken, To, reply, shuffled>>
    BY <1>8 DEF BatchFailed, queueVars, To
  <2>3. Placement' /\ Answers'
    BY <1>8, <2>1, <2>2, SplitPlacement, CallAnswers
  <2>4. QED
    BY <1>5, <2>2, <2>3 DEF Waiting
<1>9. ASSUME NEW t \in expired, Callback(t)
      PROVE  Placement' /\ Answers' /\ UNCHANGED Caller!vars
  <2>1. Placement' /\ Answers'
    BY <1>9, CallbackPlacement, CallbackAnswers
  <2>2. QED
    BY <1>5, <1>9, <2>1 DEF Callback, Waiting
<1>10. ASSUME \/ \E m \in MaxSizes : UpdateConfig(m)
              \/ \E e \in Entry : ReadConfig(e)
              \/ \E t \in armed : Expire(t)
              \/ UNCHANGED vars
       PROVE  Placement' /\ Answers' /\ UNCHANGED Caller!vars
  <2>1. UNCHANGED <<queue, taken, posted, delivering, To, single, reply, shuffled>>
    BY <1>10 DEF UpdateConfig, ReadConfig, Expire, vars, queueVars, callVars, To
  <2>2. \A e \in Entry : Waiting(e)' <=> Waiting(e)
    BY <1>1, <1>10 DEF UpdateConfig, ReadConfig, Expire, vars, Waiting, TypeOK
  <2>3. \A e \in Entry : Unasked(e)' <=> Unasked(e)
    BY <2>1, <2>2 DEF Unasked
  <2>4. Placement' /\ Answers'
    BY <2>1, <2>2, <2>3, StillPlacement, AnswersKept
  <2>5. QED
    BY <1>5, <2>1, <2>2, <2>4
<1>11. QED
  BY <1>2, <1>3, <1>4, <1>6, <1>7, <1>8, <1>9, <1>10 DEF Next, Caller!Next

\* Whatever way a batch takes, its callers see requests answered once: no entry is
\* sent a second reply, no answer goes to two entries, and the answer is that to the
\* entry's own prompt wherever the endpoint kept the order of the prompts.
THEOREM RepliesOnce == Spec => OneReply
<1>1. Init => Inv /\ Placement /\ Answers /\ Caller!Init
  BY InitInv, InitPlacement, InitAnswers, InitCaller
<1>2. Inv /\ Placement /\ Answers /\ [Next]_vars
        => Inv' /\ Placement' /\ Answers' /\ [Caller!Next]_(Caller!vars)
  BY NextInv, NextCaller
<1>3. QED
  BY <1>1, <1>2, PTL DEF Spec, OneReply, Caller!Safe
=============================================================================
