----------------------------- MODULE MCDispatch -----------------------------
(***************************************************************************)
(* Small instances of Dispatch.  The file configures a probed and a cloud   *)
(* backend, each for one request at a time; the API can register either     *)
(* name without a health endpoint and, as it applies no default, without a  *)
(* limit.                                                                   *)
(***************************************************************************)
EXTENDS Dispatch, TLC

CONSTANTS n1, n2, b1, b2, h1, h2

Probe1  == [check |-> "probe", max |-> 1, dynamic |-> FALSE]
Cloud1  == [check |-> "cloud", max |-> 1, dynamic |-> FALSE]
NoneDyn == [check |-> "none", max |-> 0, dynamic |-> TRUE]

Configs == {Probe1, Cloud1, NoneDyn}

Both     == (n1 :> Probe1) @@ (n2 :> Cloud1)
OneFile  == {Both}
TwoFiles == {Both, n1 :> Probe1}

\* A request whose rule lists both names, and one whose rule lists the first
\* and whose fallback chain has the second.
Lists   == {<<{n1, n2}>>, <<{n1}, {n2}>>}
OneList == {<<{n1, n2}>>}

Symmetry == Permutations({b1, b2}) \cup Permutations({h1, h2})

\* Objects nobody refers to are garbage: states that differ only in what such
\* an object last held are one state.
Live(b) == b \in Registered \cup Held \/ checking[b] + probing[b] > 0

View ==
  <<pool, handlerVars,
    [b \in {c \in Backend : Live(c)} |->
       <<config[b], health[b], active[b], checking[b], probing[b]>>]>>
=============================================================================
