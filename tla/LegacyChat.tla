----------------------------- MODULE LegacyChat -----------------------------
(***************************************************************************)
(* A chat request on the gateway's legacy path (server.go, handleChat): it *)
(* picks an account, waits for a place, takes or makes a workspace, links  *)
(* the account's credential into it, runs the CLI there, records the       *)
(* outcome on the account and cleans the workspace up unless it is a named *)
(* one.  The program may crash between any two steps.                      *)
(***************************************************************************)
EXTENDS AuthPool, Workspaces

CONSTANTS
  Request,
  MaxConcurrent

ASSUME LegacyAssumption ==
  /\ IsFiniteSet(Request)
  /\ MaxConcurrent \in Nat \ {0}

VARIABLE req   \* [Request -> the request's state]

vars == <<auth, spaces, req>>

Idle ==
  [pc |-> "idle", tries |-> 0, account |-> NoAccount, ws |-> NoWorkspace,
   origin |-> "none", linked |-> FALSE, shaken |-> FALSE]

Inside == {r \in Request : req[r].pc \in {"running", "recording"}}
Held == {req[r].ws : r \in Request} \ {NoWorkspace}
Fresh == Workspace \ (dir \cup Kept \cup Held)
Moves(r, s) == req' = [req EXCEPT ![r] = s]

\* Requests in the middle of Pick notice that the cursor or an account has changed.
Shaken(q) == IF req[q].pc = "picking" /\ req[q].tries > 0 THEN [req[q] EXCEPT !.shaken = TRUE] ELSE req[q]
Shaking(r, s) == req' = [q \in Request |-> IF q = r THEN s ELSE Shaken(q)]

-----------------------------------------------------------------------------
Arrive(r) ==
  /\ req[r].pc = "idle"
  /\ Moves(r, [Idle EXCEPT !.pc = "picking"])
  /\ UNCHANGED <<auth, spaces>>

\* A request that names its account gets that one, or is refused.
PickNamed(r) ==
  /\ req[r].pc = "picking" /\ req[r].tries = 0
  /\ \E a \in Accounts :
       Moves(r, IF IsAvailable(a) THEN [req[r] EXCEPT !.pc = "waiting", !.account = a, !.shaken = FALSE]
                ELSE Idle)
  /\ UNCHANGED <<auth, spaces>>

\* Mutant of PickNext: the loop gives up one turn early.
PickNextShort(r) ==
  /\ req[r].pc = "picking"
  /\ Advance
  /\ LET tries == req[r].tries + 1
         s == [req[r] EXCEPT !.tries = 0, !.shaken = FALSE, !.pc = "waiting"]
     IN Shaking(r, CASE IsAvailable(Candidate) -> [s EXCEPT !.account = Candidate]
                     [] ~IsAvailable(Candidate) /\ tries = Len(Account) - 1 -> s
                     [] OTHER -> [req[r] EXCEPT !.tries = tries])
  /\ UNCHANGED <<spaces>>

\* Otherwise the loop takes the accounts in turn, each from the shared counter; when
\* its turns are over the request goes on without one.
PickNext(r) ==
  /\ req[r].pc = "picking"
  /\ Advance
  /\ LET tries == req[r].tries + 1
         s == [req[r] EXCEPT !.tries = 0, !.shaken = FALSE, !.pc = "waiting"]
     IN Shaking(r, CASE IsAvailable(Candidate) -> [s EXCEPT !.account = Candidate]
                     [] ~IsAvailable(Candidate) /\ tries = Len(Account) -> s
                     [] OTHER -> [req[r] EXCEPT !.tries = tries])
  /\ UNCHANGED <<spaces>>

\* The client goes away while the request waits for a place, making a workspace fails,
\* or the request names one the store does not know.
Abandon(r) ==
  /\ req[r].pc = "waiting"
  /\ Moves(r, Idle)
  /\ UNCHANGED <<auth, spaces>>

Admitted(r) == req[r].pc = "waiting" /\ Cardinality(Inside) < MaxConcurrent

\* Mutant of Takes: a workspace from the pool is taken to be seeded.
TakesSeeded(r, w, origin, found) ==
  LET a == req[r].account
      link == a # NoAccount /\ w \in dir'
  IN /\ cred' = [cred EXCEPT ![w] = IF link /\ origin # "pooled" THEN a ELSE found]
     /\ Moves(r, [req[r] EXCEPT !.pc = "running", !.ws = w, !.origin = origin, !.linked = link /\ origin # "named"])

\* The request works in w, where a credential was found.  SeedAuthFrom replaces it by
\* the account's; if that fails the run goes on with what is there.
Takes(r, w, origin, found) ==
  LET a == req[r].account IN
  \E link \in {a # NoAccount /\ w \in dir', FALSE} :
    /\ cred' = [cred EXCEPT ![w] = IF link THEN a ELSE found]
    /\ Moves(r, [req[r] EXCEPT !.pc = "running", !.ws = w, !.origin = origin, !.linked = link /\ origin # "named"])

\* Mutant of UseNamed: a named workspace is treated like the others when the
\* request ends.
UseNamedAsOwn(r) ==
  /\ Admitted(r)
  /\ dir' = dir
  /\ \E w \in stored : Takes(r, w, "made", cred[w])
  /\ UNCHANGED <<auth, pool, stored>>

\* The request names a workspace of the store.
UseNamed(r) ==
  /\ Admitted(r)
  /\ dir' = dir
  /\ \E w \in stored : Takes(r, w, "named", cred[w])
  /\ UNCHANGED <<auth, pool, stored>>

TakePooled(r) ==
  /\ Admitted(r)
  /\ pool # <<>> /\ pool' = Tail(pool)
  /\ dir' = dir
  /\ Takes(r, Head(pool), "pooled", cred[Head(pool)])
  /\ UNCHANGED <<auth, stored>>

\* The pool is empty, or for another repository.
MakeOwn(r) ==
  /\ Admitted(r)
  /\ \E w \in Fresh : dir' = dir \cup {w} /\ Takes(r, w, "made", "host")
  /\ UNCHANGED <<auth, pool, stored>>

\* pickedAccountFor: the run has ended, and the account is looked up again by Pick,
\* which knows it only while it is available.
Known(r) == req[r].account # NoAccount /\ IsAvailable(req[r].account)

LookUp(r) ==
  /\ req[r].pc = "running" /\ Known(r)
  /\ Moves(r, [req[r] EXCEPT !.pc = "recording", !.linked = FALSE])
  /\ UNCHANGED <<auth, spaces>>

Record(r) ==
  /\ req[r].pc = "recording"
  /\ \E outcome \in Outcome : RecordOutcome(req[r].account, outcome)
  /\ Shaking(r, Idle)

PassOver(r) ==
  /\ req[r].pc = "running" /\ ~Known(r)
  /\ Moves(r, Idle)
  /\ UNCHANGED auth

\* The outcome is recorded on the account, if it was found, and the workspace is cleaned
\* up, which may leave its directory; a named one stays.
Finish(r) ==
  /\ Record(r) \/ PassOver(r)
  /\ IF req[r].origin = "named" THEN UNCHANGED disk ELSE CleanUp(req[r].ws)
  /\ UNCHANGED <<pool, stored>>

AccountRecovers(a) ==
  /\ Cool(a) \/ RollOver(a)
  /\ req' = [q \in Request |-> Shaken(q)]
  /\ UNCHANGED <<spaces>>

\* A directory made by a request that is still running is young: runs are shorter than
\* the maximal age.  (A named one was touched, but the sweeper may have looked before.)
Young == {req[r].ws : r \in {q \in Request : req[q].origin = "made"}}

\* Mutant of Sweep: directories are swept when the program starts, before it has any
\* of its own.
SweepAtStart(w) ==
  /\ Held \cup Kept = {} /\ \A r \in Request : req[r] = Idle
  /\ SweepDirectory(w)
  /\ UNCHANGED <<auth, req>>

Sweep(w) ==
  /\ w \notin Young
  /\ SweepDirectory(w)
  /\ UNCHANGED <<auth, req>>

Keep ==
  /\ \/ \E w \in Fresh : Refill(w) \/ CreateWorkspace(w)
     \/ \E w \in stored : DeleteWorkspace(w)
  /\ UNCHANGED <<auth, req>>

\* A crash leaves the directories; health, pool and store were in memory.
Restart ==
  /\ health' = [a \in Accounts |-> "ok"] /\ spent' = [a \in Accounts |-> 0] /\ cursor' = 0
  /\ pool' = <<>> /\ stored' = {}
  /\ req' = [r \in Request |-> Idle]
  /\ UNCHANGED disk

Chat(r) ==
  \/ Arrive(r) \/ PickNamed(r) \/ PickNext(r) \/ Abandon(r)
  \/ UseNamed(r) \/ TakePooled(r) \/ MakeOwn(r) \/ LookUp(r) \/ Finish(r)

Init == AuthInit /\ SpacesInit /\ req = [r \in Request |-> Idle]

Next ==
  \/ \E r \in Request : Chat(r)
  \/ \E a \in Accounts : AccountRecovers(a)
  \/ \E w \in Workspace : Sweep(w)
  \/ Keep \/ Restart

\* The sweeper's ticker; time goes on.  (A sweep of w always changes dir.)
Spec == Init /\ [][Next]_vars /\ \A w \in Workspace : WF_dir(Sweep(w))

-----------------------------------------------------------------------------
TypeOK ==
  /\ AuthTypeOK
  /\ dir \subseteq Workspace
  /\ cred \in [Workspace -> Accounts \cup {"host"}]
  /\ pool \in Seq(Workspace) /\ Len(pool) <= WarmPoolSize + 1
  /\ stored \subseteq Workspace
  /\ req \in [Request ->
       [pc : {"idle", "picking", "waiting", "running", "recording"},
        tries : 0..(Len(Account) - 1), account : Accounts \cup {NoAccount},
        ws : Workspace \cup {NoWorkspace},
        origin : {"none", "named", "pooled", "made"}, linked : BOOLEAN, shaken : BOOLEAN]]

\* A workspace has one owner: its place in the warm pool, the store, or the one request
\* that took or made it; only stored ones are shared, and a request that does not name
\* one never works in them (handleChat, WarmPool, WorkspaceStore).
OneOwner ==
  /\ \A i, j \in DOMAIN pool : pool[i] = pool[j] => i = j
  /\ InPool \cap stored = {}
  /\ \A r \in Request : req[r].origin \in {"pooled", "made"} =>
       /\ req[r].ws \notin Kept
       /\ \A q \in Request \ {r} : req[q].ws # req[r].ws

\* A run that linked its account's credential into a workspace of its own is charged
\* to the account it ran with, whoever else was seeded there before (SeedAuthFrom).
OwnCredential ==
  \A r \in Request :
    /\ req[r].pc = "running" /\ req[r].linked /\ req[r].origin # "named"
    /\ req[r].ws \in dir
    => cred[req[r].ws] = req[r].account

\* A request goes on without an account only if none is available, provided nothing
\* changed while it looked: the accounts or the shared cursor (AuthPool.Pick).
PickFinds ==
  [][\A r \in Request :
       /\ req[r].pc = "picking" /\ ~req[r].shaken
       /\ req'[r].pc = "waiting" /\ req'[r].account = NoAccount
       => \A a \in Accounts : ~IsAvailable(a)]_vars

\* A directory nobody refers to any more, after a crash or the deletion of a named
\* workspace, is removed in the end (startWorkspaceSweeper).
Orphans == dir \ (Kept \cup Held)
LeftoversSwept == \A w \in Workspace : (w \in Orphans) ~> (w \notin Orphans)

=============================================================================
