----------------------------- MODULE MCProfiles -----------------------------
(***************************************************************************)
(* Small instances of Profiles.                                            *)
(***************************************************************************)
EXTENDS Profiles

\* One version without a limit, one that lets a single request in.
MCVersion == {"free", "single"}
MCLimit == [v \in MCVersion |-> IF v = "free" THEN 0 ELSE 1]

=============================================================================
