--------------------------- MODULE BackendHealth ---------------------------
(***************************************************************************)
(* The health record the router keeps for one backend, and the three       *)
(* places that write it: the answer to a proxied request, the answer to a  *)
(* probe, and the periodic check of a cloud backend, which sends nothing.  *)
(*                                                                         *)
(* Failures is an unbounded int in the code.  Only the comparisons with 0, *)
(* 1, 2, 3 and 5 are ever made, so a counter that saturates at FailureCap  *)
(* (at least 5) has exactly the code's behaviour and a finite range.       *)
(***************************************************************************)
EXTENDS Naturals

CONSTANT FailureCap

ASSUME FailureCapAssumption == FailureCap \in Nat /\ FailureCap >= 5

Healthy  == "healthy"
Degraded == "degraded"
Down     == "down"
Status   == {Healthy, Degraded, Down}

\* by is history: who has failed with the backend since the last success.
Writer == {"request", "probe"}
Health == [status : Status, failures : 0..FailureCap, by : SUBSET Writer]

Fit == [status |-> Healthy, failures |-> 0, by |-> {}]

OneMore(n) == IF n < FailureCap THEN n + 1 ELSE n

\* A request answered by the backend is a success unless it failed in
\* transport or came back as a 5xx.  The first failure leaves the status as
\* it was, and a status is written from the count alone: at a count of 3 or 4
\* "down" is overwritten with "degraded".
AfterRequest(h, ok) ==
  LET n == OneMore(h.failures) IN
  IF ok THEN Fit
  ELSE [failures |-> n, by |-> h.by \cup {"request"},
        status   |-> IF n >= 5 THEN Down
                     ELSE IF n >= 2 THEN Degraded ELSE h.status]

\* Mutants of AfterProbe: a success that forgets to clear the count, and one
\* that forgets to restore the status.
AfterProbeKeepsCount(h, ok) ==
  LET n == OneMore(h.failures) IN
  IF ok THEN [h EXCEPT !.status = Healthy, !.by = {}]
  ELSE [failures |-> n, by |-> h.by \cup {"probe"}, status |-> IF n >= 3 THEN Down ELSE Degraded]

AfterProbeKeepsStatus(h, ok) ==
  LET n == OneMore(h.failures) IN
  IF ok THEN [h EXCEPT !.failures = 0, !.by = {}]
  ELSE [failures |-> n, by |-> h.by \cup {"probe"}, status |-> IF n >= 3 THEN Down ELSE Degraded]

AfterProbe(h, ok) ==
  LET n == OneMore(h.failures) IN
  IF ok THEN Fit
  ELSE [failures |-> n, by |-> h.by \cup {"probe"}, status |-> IF n >= 3 THEN Down ELSE Degraded]

\* Mutant of AfterCloudCheck: the check does not look at the count.
AfterCloudCheckAlways(h) == [h EXCEPT !.status = Healthy]

\* A cloud backend is not probed: the check only restores a status that no
\* failure is held against.
AfterCloudCheck(h) ==
  IF h.failures = 0 THEN [h EXCEPT !.status = Healthy] ELSE h
=============================================================================
