----------------------------- MODULE Workspaces -----------------------------
(***************************************************************************)
(* Workspaces of the legacy path: the warm pool and its refill loop, the   *)
(* store of named workspaces, and the sweeper that removes directories by  *)
(* age.  A workspace is a directory under the root with a credential       *)
(* linked into it; directory names are never used twice, so a workspace    *)
(* nobody holds and whose directory is gone stands for a new one.          *)
(***************************************************************************)
EXTENDS Naturals, Sequences, FiniteSets

CONSTANTS
  Workspace,
  WarmPoolSize,
  NoWorkspace

ASSUME WorkspaceAssumption ==
  /\ IsFiniteSet(Workspace) /\ NoWorkspace \notin Workspace
  /\ WarmPoolSize \in Nat

VARIABLES
  dir,      \* workspaces whose directory exists
  cred,     \* [Workspace -> the credential linked into it]
  pool,     \* the warm pool's channel, and behind it the one the refill loop holds
  stored    \* the named workspaces

disk == <<dir, cred>>
spaces == <<disk, pool, stored>>

InPool == {pool[i] : i \in DOMAIN pool}
Kept == InPool \cup stored

\* newWorkspace and SeedAuth: a fresh directory with the host's login, if it has one.
MakeDirectory(w) ==
  /\ dir' = dir \cup {w}
  /\ cred' = [cred EXCEPT ![w] = "host"]

\* RemoveAll of the workspace's root.
Removed(w) ==
  /\ dir' = dir \ {w}
  /\ cred' = [cred EXCEPT ![w] = "host"]

\* Cleanup: the directory stays if the configuration retains workspaces, or if RemoveAll
\* fails, which is only logged.
CleanUp(w) == Removed(w) \/ UNCHANGED disk

\* refillLoop: it makes a workspace, then waits for a place in the channel.
Refill(w) ==
  /\ WarmPoolSize > 0 /\ Len(pool) <= WarmPoolSize
  /\ MakeDirectory(w)
  /\ pool' = Append(pool, w)
  /\ UNCHANGED stored

\* /v1/workspaces.
CreateWorkspace(w) ==
  /\ MakeDirectory(w)
  /\ stored' = stored \cup {w}
  /\ UNCHANGED pool

\* Stored workspaces are retained: Cleanup leaves the directory to the sweeper.
DeleteWorkspace(w) ==
  /\ w \in stored
  /\ stored' = stored \ {w}
  /\ UNCHANGED <<disk, pool>>

\* The sweeper removes directories by their age alone, whoever may refer to them.  One it
\* cannot remove it tries again at the next tick.
SweepDirectory(w) ==
  /\ w \in dir
  /\ Removed(w)
  /\ UNCHANGED <<pool, stored>>

SpacesInit ==
  /\ dir = {} /\ cred = [w \in Workspace |-> "host"]
  /\ pool = <<>> /\ stored = {}

=============================================================================
