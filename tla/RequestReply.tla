---------------------------- MODULE RequestReply ----------------------------
(***************************************************************************)
(* What a caller of the throughput batcher relies on: every request that   *)
(* is handed in is answered once, with an error or an answer nobody else   *)
(* is given, and what it was answered is not changed afterwards.  The      *)
(* answer is to its own prompt unless the backend mixed up the answers of  *)
(* a call the request shared with others.  Which requests share a call,    *)
(* and when, is the batcher's business.                                    *)
(***************************************************************************)
CONSTANTS
  Request,
  NoReply,   \* nothing has been answered yet
  Failed     \* the answer is an error

VARIABLES
  asked,     \* requests handed in so far
  mixed,     \* requests whose call's answers the backend mixed up
  reply      \* [Request -> Request (whose prompt is answered), Failed or NoReply]

vars == <<asked, mixed, reply>>

Init ==
  /\ asked = {} /\ mixed = {}
  /\ reply = [r \in Request |-> NoReply]

Ask(r) ==
  /\ r \notin asked
  /\ asked' = asked \cup {r}
  /\ UNCHANGED <<mixed, reply>>

\* The answers of requests that share a call come in any order, and no request of the
\* call has had its answer yet.
MixUp(S) ==
  /\ S \subseteq asked /\ \A r \in S : reply[r] = NoReply
  /\ mixed' = mixed \cup S
  /\ UNCHANGED <<asked, reply>>

Fresh(a) == a \in asked /\ \A q \in Request : reply[q] # a

Answer(r) ==
  /\ r \in asked /\ reply[r] = NoReply
  /\ \E a \in Request \cup {Failed} :
       /\ a # Failed => Fresh(a)
       /\ r \notin mixed => a \in {r, Failed}
       /\ reply' = [reply EXCEPT ![r] = a]
  /\ UNCHANGED <<asked, mixed>>

Next ==
  \/ \E r \in Request : Ask(r) \/ Answer(r)
  \/ \E S \in SUBSET Request : MixUp(S)

Safe == Init /\ [][Next]_vars
=============================================================================
