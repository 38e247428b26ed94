------------------------------ MODULE Batcher ------------------------------
(***************************************************************************)
(* The throughput batcher: background and bulk requests for one backend    *)
(* name are collected until the batch is full or a timer started by the    *)
(* first of them expires, and are then dispatched, as one multi-prompt     *)
(* completions call where that is possible and one by one otherwise.       *)
(*                                                                         *)
(* The queues of different backend names share nothing but the             *)
(* configuration, so one queue is modelled.  A timer is known by the entry *)
(* that started it.  Stop() on a timer whose callback has begun does       *)
(* nothing: the callback still runs, on whatever the queue then holds.     *)
(***************************************************************************)
EXTENDS Sequences, Integers

CONSTANTS
  Entry,     \* batched requests, each used once
  None,      \* no timer, no reply yet
  Failed,    \* the reply carries an error (or the backend's error body)
  Routing,   \* ways routing may send the entries: functions from Entry to
             \* [model, vllm], the backend's type
  MaxSizes   \* values max_batch_size is ever configured to

ASSUME BatcherAssumption ==
  /\ None \notin Entry
  /\ Failed \notin Entry \cup {None}
  /\ MaxSizes \subseteq Int

VARIABLES
  maxSize,     \* the configured max_batch_size
  pc,          \* where the handler of each entry is
  route,       \* where each entry was routed
  sized,       \* the max_batch_size an Enqueue under way has read
  queue,       \* q.entries
  timer,       \* q.timer: the entry that started it, or None
  armed,       \* timers that run
  expired,     \* timers whose callback has begun and waits for the queue's lock
  taken,       \* batches given to a dispatchBatch goroutine that has not begun
  posted,      \* batches whose completions call is outstanding
  delivering,  \* what is left of batches whose replies are being handed out:
               \* entries to serve, and the choices that were not handed out yet
  single,      \* entries with a call of their own outstanding
  reply,       \* what the entry's channel was sent: the entry whose prompt it answers
  shuffled     \* entries whose batch was answered with the choices in another order

vars == <<maxSize, pc, route, sized, queue, timer, armed, expired, taken, posted,
          delivering, single, reply, shuffled>>

queueVars == <<queue, timer, armed, expired>>
callVars  == <<taken, posted, delivering, single, reply, shuffled>>

Waiting(e) == pc[e] = "waiting"
In(b)      == {b[i] : i \in 1..Len(b)}
NoDup(b)   == \A i, j \in 1..Len(b) : b[i] = b[j] => i = j

\* The entries of a batch b, each once, in any order.
Orders(b) == {c \in [1..Len(b) -> In(b)] : NoDup(c)}

Init ==
  /\ maxSize \in MaxSizes
  /\ pc = [e \in Entry |-> "new"]
  /\ route \in Routing
  /\ sized = [e \in Entry |-> None]
  /\ queue = <<>>
  /\ timer = None
  /\ armed = {} /\ expired = {}
  /\ taken = {} /\ posted = {} /\ delivering = {} /\ single = {}
  /\ reply = [e \in Entry |-> None]
  /\ shuffled = {}

UpdateConfig(m) ==
  /\ maxSize' = m
  /\ UNCHANGED <<pc, route, sized, queueVars, callVars>>

-----------------------------------------------------------------------------
(* Enqueue: the configuration is read under the batcher's lock, the queue  *)
(* is changed under its own.                                               *)

ReadConfig(e) ==
  /\ pc[e] = "new"
  /\ pc' = [pc EXCEPT ![e] = "sized"]
  /\ sized' = [sized EXCEPT ![e] = maxSize]
  /\ UNCHANGED <<maxSize, route, queueVars, callVars>>

\* Mutant of Enqueue: a full batch stops the timer and keeps the reference.
EnqueueKeepsTimer(e) ==
  /\ pc[e] = "sized"
  /\ pc' = [pc EXCEPT ![e] = "waiting"]
  /\ sized' = [sized EXCEPT ![e] = None]
  /\ IF Len(queue) + 1 >= sized[e]
     THEN /\ taken' = taken \cup {Append(queue, e)}
          /\ queue' = <<>>
          /\ armed' = armed \ {timer}
          /\ UNCHANGED timer
     ELSE /\ queue' = Append(queue, e)
          /\ IF timer = None
             THEN timer' = e /\ armed' = armed \cup {e}
             ELSE UNCHANGED <<timer, armed>>
          /\ UNCHANGED taken
  /\ UNCHANGED <<maxSize, route, expired, posted, delivering, single, reply, shuffled>>

Enqueue(e) ==
  /\ pc[e] = "sized"
  /\ pc' = [pc EXCEPT ![e] = "waiting"]
  /\ sized' = [sized EXCEPT ![e] = None]
  /\ IF Len(queue) + 1 >= sized[e]
     THEN /\ taken' = taken \cup {Append(queue, e)}
          /\ queue' = <<>>
          /\ armed' = armed \ {timer}
          /\ timer' = None
     ELSE /\ queue' = Append(queue, e)
          /\ IF timer = None
             THEN timer' = e /\ armed' = armed \cup {e}
             ELSE UNCHANGED <<timer, armed>>
          /\ UNCHANGED taken
  /\ UNCHANGED <<maxSize, route, expired, posted, delivering, single, reply, shuffled>>

Expire(t) ==
  /\ t \in armed
  /\ armed' = armed \ {t}
  /\ expired' = expired \cup {t}
  /\ UNCHANGED <<maxSize, pc, route, sized, queue, timer, callVars>>

Callback(t) ==
  /\ t \in expired
  /\ expired' = expired \ {t}
  /\ queue' = <<>>
  /\ timer' = None
  /\ taken' = IF queue = <<>> THEN taken ELSE taken \cup {queue}
  /\ UNCHANGED <<maxSize, pc, route, sized, armed, posted, delivering, single, reply, shuffled>>

-----------------------------------------------------------------------------
(* dispatchBatch.                                                          *)

Multi(b) ==
  /\ route[Head(b)].vllm
  /\ Len(b) > 1
  /\ \A e \in In(b) : route[e].model = route[Head(b)].model

Dispatch(b) ==
  /\ b \in taken
  /\ taken' = taken \ {b}
  /\ IF Multi(b)
     THEN posted' = posted \cup {b} /\ UNCHANGED single
     ELSE single' = single \cup In(b) /\ UNCHANGED posted
  /\ UNCHANGED <<maxSize, pc, route, sized, queueVars, delivering, reply, shuffled>>

\* The completions call returns as many choices as there were prompts, in any order.
\* A choice says which prompt it answers (index), which nobody looks at.
BatchAnswered(b) ==
  /\ b \in posted
  /\ posted' = posted \ {b}
  /\ \E choices \in Orders(b) :
       /\ delivering' = delivering \cup {[to |-> b, choices |-> choices]}
       /\ shuffled' = IF choices = b THEN shuffled ELSE shuffled \cup In(b)
  /\ UNCHANGED <<maxSize, pc, route, sized, queueVars, taken, single, reply>>

\* The rest of the loop over the choices after its first d.
After(d) ==
  IF Len(d.to) > 1 THEN {[to |-> Tail(d.to), choices |-> Tail(d.choices)]} ELSE {}

\* Mutant of Deliver: the loop goes on over the entries and not over the choices.
DeliverFirstChoice(d) ==
  /\ d \in delivering
  /\ delivering' = (delivering \ {d}) \cup {[r EXCEPT !.choices = d.choices] : r \in After(d)}
  /\ reply' = [reply EXCEPT ![Head(d.to)] = Head(d.choices)]
  /\ UNCHANGED <<maxSize, pc, route, sized, queueVars, taken, posted, single, shuffled>>

\* Mutant of Deliver: the loop goes on after the last entry.
DeliverPastEnd(d) ==
  /\ d \in delivering
  /\ delivering' = (delivering \ {d}) \cup {[to |-> Tail(d.to), choices |-> Tail(d.choices)]}
  /\ reply' = [reply EXCEPT ![Head(d.to)] = Head(d.choices)]
  /\ UNCHANGED <<maxSize, pc, route, sized, queueVars, taken, posted, single, shuffled>>

\* The choice at a position goes to the entry at that position.  The channel has
\* room for one reply, so the sender never waits.
Deliver(d) ==
  /\ d \in delivering
  /\ delivering' = (delivering \ {d}) \cup After(d)
  /\ reply' = [reply EXCEPT ![Head(d.to)] = Head(d.choices)]
  /\ UNCHANGED <<maxSize, pc, route, sized, queueVars, taken, posted, single, shuffled>>

\* Mutant of BatchFailed: an unusable answer counts as a success.
BatchFailedDropped(b) ==
  /\ b \in posted
  /\ posted' = posted \ {b}
  /\ UNCHANGED <<maxSize, pc, route, sized, queueVars, taken, delivering, single, reply, shuffled>>

\* A transport error, a body that does not parse, or another number of choices.
BatchFailed(b) ==
  /\ b \in posted
  /\ posted' = posted \ {b}
  /\ single' = single \cup In(b)
  /\ UNCHANGED <<maxSize, pc, route, sized, queueVars, taken, delivering, reply, shuffled>>

SingleAnswered(e) ==
  /\ e \in single
  /\ single' = single \ {e}
  /\ \E a \in {e, Failed} : reply' = [reply EXCEPT ![e] = a]
  /\ UNCHANGED <<maxSize, pc, route, sized, queueVars, taken, posted, delivering, shuffled>>

-----------------------------------------------------------------------------
Next ==
  \/ \E m \in MaxSizes : UpdateConfig(m)
  \/ \E e \in Entry : ReadConfig(e) \/ Enqueue(e) \/ SingleAnswered(e)
  \/ \E t \in armed : Expire(t)
  \/ \E t \in expired : Callback(t)
  \/ \E b \in taken : Dispatch(b)
  \/ \E b \in posted : BatchAnswered(b) \/ BatchFailed(b)
  \/ \E d \in delivering : Deliver(d)

Spec == Init /\ [][Next]_vars

\* Timers expire, goroutines run and calls end (the HTTP client gives up after
\* two minutes).  Nothing makes a request arrive.  An entry is used once, so a
\* batch cannot be passed over for ever in favour of others.
Fairness ==
  /\ \A e \in Entry : WF_vars(Expire(e)) /\ WF_vars(Callback(e)) /\ WF_vars(SingleAnswered(e))
  /\ WF_vars(\E b \in taken : Dispatch(b))
  /\ WF_vars(\E b \in posted : BatchAnswered(b) \/ BatchFailed(b))
  /\ WF_vars(\E d \in delivering : Deliver(d))

FairSpec == Spec /\ Fairness

-----------------------------------------------------------------------------
(* Properties.                                                             *)

\* Every part of the state keeps its type, and no batch is empty when
\* dispatchBatch, trueVLLMBatch or the loop over its choices has it in hand: all
\* three look at its first entry.
TypeOK ==
  /\ maxSize \in MaxSizes
  /\ pc \in [Entry -> {"new", "sized", "waiting"}]
  /\ route \in Routing
  /\ sized \in [Entry -> MaxSizes \cup {None}]
  /\ \A e \in Entry : pc[e] = "sized" => sized[e] \in MaxSizes
  /\ queue \in Seq(Entry)
  /\ timer \in Entry \cup {None}
  /\ armed \subseteq Entry
  /\ expired \subseteq Entry
  /\ \A b \in taken \cup posted : b \in Seq(Entry) /\ b # <<>>
  /\ delivering \subseteq [to : Seq(Entry), choices : Seq(Entry)]
  /\ \A d \in delivering : Len(d.to) = Len(d.choices) /\ d.to # <<>>
  /\ single \subseteq Entry
  /\ reply \in [Entry -> Entry \cup {None, Failed}]
  /\ shuffled \subseteq Entry

\* While entries are queued, the timer started by the first of them is the one
\* the queue refers to, and its callback is still to come: no entry is left
\* behind with nothing to dispatch it, or waits longer than one window.  This
\* must survive a full batch that stops a timer whose callback has already
\* begun, that callback draining the next batch, the timer it leaves behind
\* draining the one after, and a limit changed between the two locks of Enqueue.
WindowClock ==
  IF queue = <<>> THEN timer = None
  ELSE timer = Head(queue) /\ timer \in armed \cup expired

\* The batcher implements RequestReply: each entry gets one reply, an error or an
\* answer that nobody else gets, through batching, the fallback to single calls and
\* failures, and no dispatcher ever sends to a channel that was served.  The answer is
\* that to the entry's own prompt as long as the endpoint lists its choices in the
\* order of the prompts, which trueVLLMBatch relies on and does not look at.
Caller == INSTANCE RequestReply WITH
  Request <- Entry, NoReply <- None, mixed <- shuffled, asked <- {e \in Entry : Waiting(e)}

OneReply == Caller!Safe

\* Every entry that was queued is answered in the end.  The handler waits on the
\* channel without a timeout of its own.
AllAnswered == \A e \in Entry : Waiting(e) ~> reply[e] # None
=============================================================================
