------------------------- MODULE LegacyChat_proofs --------------------------
(***************************************************************************)
(* Theorems about the legacy path, for any requests, accounts, workspaces  *)
(* and sizes of the pool, with crashes at any time.                        *)
(*                                                                         *)
(* A workspace that waits in the pool is held by nobody, and a new one is  *)
(* one that nobody has: so what a request took or made is its own for as   *)
(* long as it works there.  A credential is only ever written into a       *)
(* workspace that is new or just taken.                                    *)
(***************************************************************************)
EXTENDS LegacyChat, TLAPS

-----------------------------------------------------------------------------
(* The invariant.                                                          *)

State ==
  [pc : {"idle", "picking", "waiting", "running", "recording"},
   tries : 0..(Len(Account) - 1), account : Accounts \cup {NoAccount},
   ws : Workspace \cup {NoWorkspace},
   origin : {"none", "named", "pooled", "made"}, linked : BOOLEAN, shaken : BOOLEAN]

\* A request has a workspace from its admission to its end, links its credential only
\* while it runs, and records only on an account it has found again.
Fits(s) ==
  /\ s.pc \in {"running", "recording"} <=> s.ws # NoWorkspace
  /\ s.origin = "none" <=> s.ws = NoWorkspace
  /\ s.linked => s.pc = "running"
  /\ s.pc = "recording" => s.account # NoAccount

PoolUnheld == \A r \in Request : req[r].ws \notin InPool

IInv ==
  /\ TypeOK
  /\ \A r \in Request : Fits(req[r])
  /\ OneOwner
  /\ PoolUnheld
  /\ OwnCredential

-----------------------------------------------------------------------------
(* Facts.                                                                  *)

LEMMA SomeAccounts == Len(Account) \in Nat \ {0} /\ \A i \in 1..Len(Account) : Account[i] \in Accounts
  BY AuthAssumption DEF AuthAssumption, Accounts

LEMMA IdleFits == Idle \in State /\ Fits(Idle) /\ Idle.ws = NoWorkspace /\ Idle.origin = "none"
  BY SomeAccounts DEF Idle, State, Fits

LEMMA CandidateTyped ==
  ASSUME TypeOK
  PROVE  Candidate \in Accounts
  BY SomeAccounts DEF TypeOK, AuthTypeOK, Candidate

LEMMA CursorWraps ==
  ASSUME TypeOK, Advance
  PROVE  AuthTypeOK'
  <1>1. cursor \in Nat /\ Len(Account) \in Nat \ {0}
    BY SomeAccounts DEF TypeOK, AuthTypeOK
  <1>2. (cursor + 1) % Len(Account) \in 0..(Len(Account) - 1)
    BY <1>1
  <1> QED BY <1>2 DEF TypeOK, AuthTypeOK, Advance

LEMMA InitInv == Init => IInv
  <1> SUFFICES ASSUME Init PROVE IInv
      OBVIOUS
  <1>1. /\ req \in [Request -> State]
        /\ \A r \in Request : Fits(req[r]) /\ req[r].ws = NoWorkspace /\ req[r].origin = "none"
    BY IdleFits DEF Init
  <1>2. AuthTypeOK
    BY SomeAccounts DEF Init, AuthInit, AuthTypeOK
  <1>3. InPool = {} /\ dir = {} /\ pool = <<>> /\ stored = {} /\ cred \in [Workspace -> {"host"}]
    BY DEF Init, SpacesInit, InPool
  <1>4. TypeOK
    BY <1>1, <1>2, <1>3, WorkspaceAssumption DEF TypeOK, WorkspaceAssumption, State
  <1>5. OneOwner
    BY <1>1, <1>3 DEF OneOwner
  <1>6. PoolUnheld
    BY <1>3 DEF PoolUnheld
  <1>7. OwnCredential
    BY <1>3 DEF OwnCredential
  <1> QED BY <1>1, <1>4, <1>5, <1>6, <1>7 DEF IInv

-----------------------------------------------------------------------------
(* One request moves.                                                      *)

\* What a request does with its workspace stays the same.
Stays(q) ==
  /\ req'[q].pc = req[q].pc /\ req'[q].account = req[q].account /\ req'[q].ws = req[q].ws
  /\ req'[q].origin = req[q].origin /\ req'[q].linked = req[q].linked

Others(r) == \A q \in Request \ {r} : Stays(q)

LEMMA MoveTyped ==
  ASSUME IInv, NEW r \in Request, NEW s \in State, Moves(r, s)
  PROVE  req' \in [Request -> State] /\ req'[r] = s /\ Others(r)
  BY DEF IInv, TypeOK, State, Moves, Others, Stays

LEMMA ShakenStays ==
  ASSUME IInv, NEW q \in Request
  PROVE  /\ Shaken(q) \in State /\ Shaken(q).pc = req[q].pc /\ Shaken(q).account = req[q].account
         /\ Shaken(q).ws = req[q].ws /\ Shaken(q).origin = req[q].origin
         /\ Shaken(q).linked = req[q].linked
  <1>1. req[q] \in State
    BY DEF IInv, TypeOK, State
  <1> QED BY <1>1 DEF State, Shaken

LEMMA ShakingTyped ==
  ASSUME IInv, NEW r \in Request, NEW s \in State, Shaking(r, s)
  PROVE  req' \in [Request -> State] /\ req'[r] = s /\ Others(r)
  BY ShakenStays DEF Shaking, Others, Stays

\* A request that keeps its workspace, or gives it up.
LEMMA OwnersKept ==
  ASSUME IInv, NEW r \in Request, Others(r), UNCHANGED <<pool, stored>>, Fits(req'[r]),
         \/ req'[r].ws = req[r].ws /\ req'[r].origin = req[r].origin
         \/ req'[r].ws = NoWorkspace /\ req'[r].origin = "none"
  PROVE  OneOwner' /\ PoolUnheld' /\ \A q \in Request : Fits(req'[q])
  <1>1. InPool' = InPool /\ Kept' = Kept
    BY DEF InPool, Kept
  <1>2. NoWorkspace \notin InPool
    BY WorkspaceAssumption DEF WorkspaceAssumption, IInv, TypeOK, InPool
  <1>3. OneOwner'
    <2>1. ASSUME NEW q \in Request, req'[q].origin \in {"pooled", "made"}
          PROVE  /\ req[q].origin = req'[q].origin /\ req[q].ws = req'[q].ws
                 /\ req[q].ws # NoWorkspace
      BY <2>1 DEF IInv, Fits, Others, Stays
    <2>2. ASSUME NEW q \in Request PROVE req'[q].ws \in {req[q].ws, NoWorkspace}
      BY DEF Others, Stays
    <2> QED BY <1>1, <2>1, <2>2 DEF IInv, OneOwner
  <1>4. PoolUnheld'
    BY <1>1, <1>2 DEF IInv, PoolUnheld, Others, Stays
  <1>5. \A q \in Request : Fits(req'[q])
    BY DEF IInv, Fits, Others, Stays
  <1> QED BY <1>3, <1>4, <1>5

\* It does not start to run, and no directory is made.
LEMMA CredentialsKept ==
  ASSUME IInv, NEW r \in Request, Others(r), ~req'[r].linked, cred' = cred, dir' \subseteq dir
  PROVE  OwnCredential'
  BY DEF IInv, OwnCredential, Others, Stays

-----------------------------------------------------------------------------
(* Looking for an account.                                                 *)

\* A request with no workspace goes on without one.
LEMMA Without ==
  ASSUME IInv, NEW r \in Request, req[r].pc \in {"idle", "picking", "waiting"},
         req' \in [Request -> State], Others(r),
         req'[r].pc \in {"idle", "picking", "waiting"}, req'[r].ws = req[r].ws,
         req'[r].origin = req[r].origin, req'[r].linked = req[r].linked,
         AuthTypeOK', UNCHANGED spaces
  PROVE  IInv'
  <1>1. UNCHANGED <<dir, cred, pool, stored>>
    BY DEF spaces, disk
  <1>2. Fits(req'[r]) /\ ~req'[r].linked
    BY DEF IInv, Fits
  <1>3. TypeOK'
    BY <1>1 DEF IInv, TypeOK, State
  <1>4. OneOwner' /\ PoolUnheld' /\ \A q \in Request : Fits(req'[q])
    BY <1>1, <1>2, OwnersKept
  <1>5. OwnCredential'
    BY <1>1, <1>2, CredentialsKept
  <1> QED BY <1>3, <1>4, <1>5 DEF IInv

LEMMA ArriveInv ==
  ASSUME IInv, NEW r \in Request, Arrive(r)
  PROVE  IInv'
  <1> DEFINE s == [Idle EXCEPT !.pc = "picking"]
  <1>1. s \in State /\ s.pc = "picking" /\ s.ws = NoWorkspace /\ s.origin = "none" /\ s.linked = FALSE
    BY IdleFits DEF Idle, State
  <1>2. req[r].pc = "idle" /\ Moves(r, s) /\ UNCHANGED <<auth, spaces>>
    BY DEF Arrive
  <1>3. req[r].ws = NoWorkspace /\ req[r].origin = "none" /\ req[r].linked = FALSE
    BY <1>2 DEF IInv, Fits, TypeOK
  <1>4. AuthTypeOK'
    BY <1>2 DEF IInv, TypeOK, AuthTypeOK, auth
  <1> HIDE DEF s
  <1> QED BY <1>1, <1>2, <1>3, <1>4, MoveTyped, Without

LEMMA AbandonInv ==
  ASSUME IInv, NEW r \in Request, Abandon(r)
  PROVE  IInv'
  <1>1. req[r].pc = "waiting" /\ Moves(r, Idle) /\ UNCHANGED <<auth, spaces>>
    BY DEF Abandon
  <1>2. req[r].ws = NoWorkspace /\ req[r].origin = "none" /\ req[r].linked = FALSE
    BY <1>1 DEF IInv, Fits, TypeOK
  <1>3. AuthTypeOK'
    BY <1>1 DEF IInv, TypeOK, AuthTypeOK, auth
  <1>4. Idle.pc = "idle" /\ Idle.linked = FALSE
    BY DEF Idle
  <1> QED BY <1>1, <1>2, <1>3, <1>4, IdleFits, MoveTyped, Without

LEMMA PickNamedInv ==
  ASSUME IInv, NEW r \in Request, PickNamed(r)
  PROVE  IInv'
  <1>1. PICK a \in Accounts :
          Moves(r, IF IsAvailable(a) THEN [req[r] EXCEPT !.pc = "waiting", !.account = a, !.shaken = FALSE]
                   ELSE Idle)
    BY DEF PickNamed
  <1>2. req[r].pc = "picking" /\ UNCHANGED <<auth, spaces>> /\ req[r] \in State
    BY DEF PickNamed, IInv, TypeOK, State
  <1>3. req[r].ws = NoWorkspace /\ req[r].origin = "none" /\ req[r].linked = FALSE
    BY <1>2 DEF IInv, Fits, State
  <1>4. AuthTypeOK'
    BY <1>2 DEF IInv, TypeOK, AuthTypeOK, auth
  <1> DEFINE s == [req[r] EXCEPT !.pc = "waiting", !.account = a, !.shaken = FALSE]
  <1>5. s \in State /\ s.pc = "waiting" /\ s.ws = NoWorkspace /\ s.origin = "none" /\ s.linked = FALSE
    BY <1>2, <1>3 DEF State
  <1>6. Moves(r, s) \/ Moves(r, Idle)
    BY <1>1
  <1>7. Idle.pc = "idle" /\ Idle.linked = FALSE
    BY DEF Idle
  <1> HIDE DEF s
  <1> QED BY <1>2, <1>3, <1>4, <1>5, <1>6, <1>7, IdleFits, MoveTyped, Without

LEMMA PickNextInv ==
  ASSUME IInv, NEW r \in Request, PickNext(r)
  PROVE  IInv'
  <1> DEFINE tries == req[r].tries + 1
             s == [req[r] EXCEPT !.tries = 0, !.shaken = FALSE, !.pc = "waiting"]
             found == [s EXCEPT !.account = Candidate]
             on == [req[r] EXCEPT !.tries = tries]
             next == CASE IsAvailable(Candidate) -> found
                       [] ~IsAvailable(Candidate) /\ tries = Len(Account) -> s
                       [] OTHER -> on
  <1>1. req[r].pc = "picking" /\ Advance /\ Shaking(r, next) /\ UNCHANGED spaces /\ req[r] \in State
    BY DEF PickNext, IInv, TypeOK, State
  <1>2. req[r].ws = NoWorkspace /\ req[r].origin = "none" /\ req[r].linked = FALSE
    BY <1>1 DEF IInv, Fits, State
  <1>3. AuthTypeOK'
    BY <1>1, CursorWraps DEF IInv
  <1> DEFINE Seeks(q) == /\ q \in State /\ q.pc \in {"picking", "waiting"} /\ q.ws = NoWorkspace
                         /\ q.origin = "none" /\ q.linked = FALSE
  <1>4. Seeks(s) /\ Seeks(found)
    <2>1. Candidate \in Accounts
      BY CandidateTyped DEF IInv
    <2>2. 0 \in 0..(Len(Account) - 1)
      BY SomeAccounts
    <2>3. Seeks(s)
      BY <1>1, <1>2, <2>2 DEF State
    <2>4. Seeks(found)
      <3> HIDE DEF s
      <3> QED BY <2>1, <2>3 DEF State
    <2> QED BY <2>3, <2>4
  <1>5. tries # Len(Account) => Seeks(on)
    BY <1>1, <1>2, SomeAccounts DEF State
  <1>6. next \in {s, found} \/ (next = on /\ tries # Len(Account))
    OBVIOUS
  <1>7. Seeks(next)
    <2> HIDE DEF next, s, found, on, tries
    <2> QED BY <1>4, <1>5, <1>6
  <1> HIDE DEF next
  <1> QED BY <1>1, <1>2, <1>3, <1>7, ShakingTyped, Without

-----------------------------------------------------------------------------
(* Taking a workspace.                                                     *)

LEMMA TakesTyped ==
  ASSUME IInv, NEW r \in Request, req[r].pc = "waiting", NEW w \in Workspace,
         NEW origin \in {"named", "pooled", "made"}, NEW found \in Accounts \cup {"host"},
         Takes(r, w, origin, found)
  PROVE  /\ req' \in [Request -> State] /\ Others(r) /\ Fits(req'[r])
         /\ req'[r].ws = w /\ req'[r].origin = origin
         /\ cred' \in [Workspace -> Accounts \cup {"host"}]
         /\ req'[r].linked => cred'[w] = req'[r].account
         /\ \A v \in Workspace \ {w} : cred'[v] = cred[v]
  <1>1. PICK link \in {req[r].account # NoAccount /\ w \in dir', FALSE} :
          /\ cred' = [cred EXCEPT ![w] = IF link THEN req[r].account ELSE found]
          /\ Moves(r, [req[r] EXCEPT !.pc = "running", !.ws = w, !.origin = origin, !.linked = link /\ origin # "named"])
    BY Zenon DEF Takes
  <1> DEFINE s == [req[r] EXCEPT !.pc = "running", !.ws = w, !.origin = origin, !.linked = link /\ origin # "named"]
  <1>2. req[r] \in State /\ cred \in [Workspace -> Accounts \cup {"host"}]
    BY DEF IInv, TypeOK, State
  <1>3. link \in BOOLEAN /\ (link => req[r].account # NoAccount)
    OBVIOUS
  <1>4. s \in State /\ s.pc = "running" /\ s.ws = w /\ s.origin = origin /\ (s.linked => link)
        /\ s.account = req[r].account
    BY <1>2, <1>3 DEF State
  <1>5. Fits(s)
    BY <1>4, WorkspaceAssumption DEF Fits, WorkspaceAssumption
  <1>6. Moves(r, s)
    BY <1>1
  <1> HIDE DEF s
  <1>7. req' \in [Request -> State] /\ req'[r] = s /\ Others(r)
    BY <1>4, <1>6, MoveTyped
  <1>8. link => req[r].account \in Accounts
    BY <1>2, <1>3 DEF State
  <1> QED BY <1>1, <1>2, <1>4, <1>5, <1>7, <1>8

\* What was linked elsewhere is still there.
LEMMA TakenElsewhere ==
  ASSUME IInv, NEW r \in Request, NEW w \in Workspace, Others(r), req'[r].ws = w,
         \A v \in Workspace \ {w} : cred'[v] = cred[v],
         dir' \subseteq dir \cup {w},
         req'[r].linked => cred'[w] = req'[r].account,
         \A q \in Request \ {r} : req[q].origin \in {"pooled", "made"} => req[q].ws # w
  PROVE  OwnCredential'
  <1> SUFFICES ASSUME NEW q \in Request,
                      req'[q].pc = "running", req'[q].linked, req'[q].origin # "named", req'[q].ws \in dir'
               PROVE  cred'[req'[q].ws] = req'[q].account
      BY DEF OwnCredential
  <1>1. CASE q = r
    BY <1>1
  <1>2. CASE q # r
    <2>1. /\ req[q].pc = "running" /\ req[q].linked /\ req[q].origin # "named"
          /\ req'[q].ws = req[q].ws /\ req'[q].account = req[q].account
      BY <1>2 DEF Others, Stays
    <2>2. req[q].ws \in Workspace /\ req[q].origin \in {"pooled", "made"}
      BY <2>1 DEF IInv, TypeOK, Fits
    <2>3. req[q].ws # w
      BY <1>2, <2>2
    <2>4. req[q].ws \in dir
      BY <2>1, <2>3
    <2> QED BY <2>1, <2>2, <2>3, <2>4 DEF IInv, OwnCredential
  <1> QED BY <1>1, <1>2

LEMMA UseNamedInv ==
  ASSUME IInv, NEW r \in Request, UseNamed(r)
  PROVE  IInv'
  <1>1. PICK w \in stored : Takes(r, w, "named", cred[w])
    BY DEF UseNamed
  <1>2. w \in Workspace /\ cred[w] \in Accounts \cup {"host"} /\ req[r].pc = "waiting"
    BY DEF UseNamed, Admitted, IInv, TypeOK
  <1>3. /\ req' \in [Request -> State] /\ Others(r) /\ Fits(req'[r])
        /\ req'[r].ws = w /\ req'[r].origin = "named"
        /\ cred' \in [Workspace -> Accounts \cup {"host"}]
        /\ req'[r].linked => cred'[w] = req'[r].account
        /\ \A v \in Workspace \ {w} : cred'[v] = cred[v]
    BY <1>1, <1>2, TakesTyped
  <1>4. UNCHANGED <<auth, pool, stored>> /\ dir' = dir
    BY DEF UseNamed
  <1>5. InPool' = InPool /\ Kept' = Kept /\ w \in Kept /\ w \notin InPool
    BY <1>4 DEF InPool, Kept, IInv, OneOwner
  <1>6. TypeOK'
    BY <1>3, <1>4 DEF IInv, TypeOK, AuthTypeOK, State, auth
  <1>7. OneOwner'
    BY <1>3, <1>4, <1>5 DEF IInv, OneOwner, Others, Stays
  <1>8. PoolUnheld' /\ \A q \in Request : Fits(req'[q])
    BY <1>3, <1>5 DEF IInv, PoolUnheld, Others, Stays, Fits
  <1>9. \A q \in Request \ {r} : req[q].origin \in {"pooled", "made"} => req[q].ws # w
    BY <1>5 DEF IInv, OneOwner
  <1>10. OwnCredential'
    BY <1>2, <1>3, <1>4, <1>9, TakenElsewhere
  <1> QED BY <1>6, <1>7, <1>8, <1>10 DEF IInv

LEMMA TakePooledInv ==
  ASSUME IInv, NEW r \in Request, TakePooled(r)
  PROVE  IInv'
  <1> DEFINE w == Head(pool)
  <1>1. /\ pool # <<>> /\ pool' = Tail(pool) /\ dir' = dir /\ UNCHANGED <<auth, stored>>
        /\ Takes(r, w, "pooled", cred[w]) /\ req[r].pc = "waiting"
        /\ pool \in Seq(Workspace) /\ Len(pool) <= WarmPoolSize + 1
    BY DEF TakePooled, Admitted, IInv, TypeOK
  <1>2. w \in Workspace /\ w \in InPool /\ cred[w] \in Accounts \cup {"host"}
    <2>1. w = pool[1] /\ 1 \in DOMAIN pool
      BY <1>1
    <2> QED BY <1>1, <2>1 DEF InPool, IInv, TypeOK
  <1>3. /\ req' \in [Request -> State] /\ Others(r) /\ Fits(req'[r])
        /\ req'[r].ws = w /\ req'[r].origin = "pooled"
        /\ cred' \in [Workspace -> Accounts \cup {"host"}]
        /\ req'[r].linked => cred'[w] = req'[r].account
        /\ \A v \in Workspace \ {w} : cred'[v] = cred[v]
    BY <1>1, <1>2, TakesTyped
  <1>4. /\ pool' \in Seq(Workspace) /\ Len(pool') <= WarmPoolSize + 1
        /\ DOMAIN pool' = 1..(Len(pool) - 1)
        /\ \A i \in DOMAIN pool' : pool'[i] = pool[i + 1] /\ i + 1 \in DOMAIN pool
    BY <1>1, WorkspaceAssumption DEF WorkspaceAssumption
  <1>5. /\ \A i, j \in DOMAIN pool' : pool'[i] = pool'[j] => i = j
        /\ InPool' \subseteq InPool /\ w \notin InPool'
    <2>1. \A i, j \in DOMAIN pool : pool[i] = pool[j] => i = j
      BY DEF IInv, OneOwner
    <2>2. w = pool[1] /\ 1 \in DOMAIN pool
      BY <1>1
    <2> QED BY <1>4, <2>1, <2>2 DEF InPool
  <1>6. \A q \in Request \ {r} : req[q].ws # w
    BY <1>2 DEF IInv, PoolUnheld
  <1> HIDE DEF w
  <1>7. TypeOK'
    BY <1>1, <1>3, <1>4 DEF IInv, TypeOK, AuthTypeOK, State, auth
  <1>8. OneOwner'
    BY <1>1, <1>2, <1>3, <1>5, <1>6 DEF IInv, OneOwner, Kept, Others, Stays
  <1>9. PoolUnheld' /\ \A q \in Request : Fits(req'[q])
    BY <1>3, <1>5 DEF IInv, PoolUnheld, Others, Stays, Fits
  <1>10. OwnCredential'
    BY <1>1, <1>2, <1>3, <1>6, TakenElsewhere
  <1> QED BY <1>7, <1>8, <1>9, <1>10 DEF IInv

LEMMA MakeOwnInv ==
  ASSUME IInv, NEW r \in Request, MakeOwn(r)
  PROVE  IInv'
  <1>1. PICK w \in Fresh : dir' = dir \cup {w} /\ Takes(r, w, "made", "host")
    BY DEF MakeOwn
  <1>2. w \in Workspace /\ w \notin Kept /\ w \notin Held /\ req[r].pc = "waiting"
    BY DEF Fresh, MakeOwn, Admitted
  <1>3. /\ req' \in [Request -> State] /\ Others(r) /\ Fits(req'[r])
        /\ req'[r].ws = w /\ req'[r].origin = "made"
        /\ cred' \in [Workspace -> Accounts \cup {"host"}]
        /\ req'[r].linked => cred'[w] = req'[r].account
        /\ \A v \in Workspace \ {w} : cred'[v] = cred[v]
    BY <1>1, <1>2, TakesTyped
  <1>4. UNCHANGED <<auth, pool, stored>>
    BY DEF MakeOwn
  <1>5. InPool' = InPool /\ Kept' = Kept
    BY <1>4 DEF InPool, Kept
  <1>6. \A q \in Request \ {r} : req[q].ws # w
    BY <1>2, WorkspaceAssumption DEF Held, WorkspaceAssumption
  <1>7. TypeOK'
    BY <1>1, <1>2, <1>3, <1>4 DEF IInv, TypeOK, AuthTypeOK, State, auth
  <1>8. OneOwner'
    BY <1>2, <1>3, <1>4, <1>5, <1>6 DEF IInv, OneOwner, Others, Stays
  <1>9. PoolUnheld' /\ \A q \in Request : Fits(req'[q])
    BY <1>2, <1>3, <1>5 DEF IInv, PoolUnheld, Kept, Others, Stays, Fits
  <1>10. OwnCredential'
    BY <1>1, <1>2, <1>3, <1>6, TakenElsewhere
  <1> QED BY <1>7, <1>8, <1>9, <1>10 DEF IInv

-----------------------------------------------------------------------------
(* The end of a run.                                                       *)

LEMMA LookUpInv ==
  ASSUME IInv, NEW r \in Request, LookUp(r)
  PROVE  IInv'
  <1> DEFINE s == [req[r] EXCEPT !.pc = "recording", !.linked = FALSE]
  <1>1. /\ req[r].pc = "running" /\ req[r].account # NoAccount /\ Moves(r, s)
        /\ UNCHANGED <<auth, dir, cred, pool, stored>> /\ req[r] \in State
    BY DEF LookUp, Known, IInv, TypeOK, State, spaces, disk
  <1>2. /\ s \in State /\ s.pc = "recording" /\ s.linked = FALSE /\ s.account = req[r].account
        /\ s.ws = req[r].ws /\ s.origin = req[r].origin
    BY <1>1 DEF State
  <1> HIDE DEF s
  <1>3. Fits(s)
    BY <1>1, <1>2 DEF IInv, Fits
  <1>4. req' \in [Request -> State] /\ req'[r] = s /\ Others(r)
    BY <1>1, <1>2, MoveTyped
  <1>5. TypeOK'
    BY <1>1, <1>4 DEF IInv, TypeOK, AuthTypeOK, State, auth
  <1>6. OneOwner' /\ PoolUnheld' /\ \A q \in Request : Fits(req'[q])
    BY <1>1, <1>2, <1>3, <1>4, OwnersKept
  <1>7. OwnCredential'
    BY <1>1, <1>2, <1>4, CredentialsKept
  <1> QED BY <1>5, <1>6, <1>7 DEF IInv

LEMMA RecordTyped ==
  ASSUME IInv, NEW a \in Accounts, NEW outcome \in Outcome, RecordOutcome(a, outcome)
  PROVE  AuthTypeOK'
  <1>1. health' \in [Accounts -> {"ok", "cooling", "disabled"}]
    BY DEF IInv, TypeOK, AuthTypeOK, RecordOutcome
  <1>2. Charged(a) \in Nat
    BY DEF IInv, TypeOK, AuthTypeOK, Charged
  <1>3. spent' \in [Accounts -> Nat]
    BY <1>2 DEF IInv, TypeOK, AuthTypeOK, RecordOutcome
  <1> QED BY <1>1, <1>3 DEF IInv, TypeOK, AuthTypeOK, RecordOutcome

LEMMA FinishInv ==
  ASSUME IInv, NEW r \in Request, Finish(r)
  PROVE  IInv'
  <1>1. AuthTypeOK' /\ req' \in [Request -> State] /\ req'[r] = Idle /\ Others(r)
        /\ req[r].pc \in {"running", "recording"}
    <2>1. CASE Record(r)
      <3>1. PICK outcome \in Outcome : RecordOutcome(req[r].account, outcome)
        BY <2>1 DEF Record
      <3>2. req[r].pc = "recording" /\ Shaking(r, Idle) /\ req[r].account \in Accounts
        BY <2>1 DEF Record, IInv, TypeOK, Fits
      <3> QED BY <3>1, <3>2, RecordTyped, ShakingTyped, IdleFits
    <2>2. CASE PassOver(r)
      <3>1. req[r].pc = "running" /\ Moves(r, Idle) /\ UNCHANGED auth
        BY <2>2 DEF PassOver
      <3> QED BY <3>1, MoveTyped, IdleFits DEF IInv, TypeOK, AuthTypeOK, auth
    <2> QED BY <2>1, <2>2 DEF Finish
  <1> DEFINE w == req[r].ws
  <1>2. w \in Workspace
    BY <1>1 DEF IInv, TypeOK, Fits
  <1>3. /\ UNCHANGED <<pool, stored>> /\ dir' \subseteq dir
        /\ cred' \in [Workspace -> Accounts \cup {"host"}]
        /\ (cred' = cred /\ dir' = dir) \/ (dir' = dir \ {w} /\ cred' = [cred EXCEPT ![w] = "host"])
    BY <1>2 DEF Finish, CleanUp, Removed, disk, IInv, TypeOK
  <1>4. TypeOK'
    BY <1>1, <1>3 DEF IInv, TypeOK, State
  <1>5. OneOwner' /\ PoolUnheld' /\ \A q \in Request : Fits(req'[q])
    BY <1>1, <1>3, IdleFits, OwnersKept
  <1>6. Idle.linked = FALSE
    BY DEF Idle
  <1>7. OwnCredential'
    BY <1>1, <1>2, <1>3, <1>6 DEF IInv, OwnCredential, Others, Stays, TypeOK
  <1> QED BY <1>4, <1>5, <1>7 DEF IInv

-----------------------------------------------------------------------------
(* Steps of no request.                                                    *)

\* Requests stay as they are; the spaces change elsewhere.
LEMMA Elsewhere ==
  ASSUME IInv, req' = req, UNCHANGED auth,
         dir' \subseteq Workspace, cred' \in [Workspace -> Accounts \cup {"host"}],
         pool' \in Seq(Workspace), Len(pool') <= WarmPoolSize + 1, stored' \subseteq Workspace,
         \A i, j \in DOMAIN pool' : pool'[i] = pool'[j] => i = j,
         InPool' \cap stored' = {},
         \A v \in InPool' \ InPool : v \notin Held,
         \A v \in stored' \ stored : v \notin Held,
         \A v \in Held : v \in dir' => v \in dir /\ cred'[v] = cred[v]
  PROVE  IInv'
  <1>1. TypeOK'
    BY DEF IInv, TypeOK, AuthTypeOK, auth
  <1>2. \A r \in Request : req[r].ws \in Held \/ req[r].ws = NoWorkspace
    BY DEF Held
  <1>3. NoWorkspace \notin InPool'
    BY <1>1, WorkspaceAssumption DEF WorkspaceAssumption, TypeOK, InPool
  <1>4. PoolUnheld'
    BY <1>2, <1>3 DEF IInv, PoolUnheld
  <1>5. ASSUME NEW r \in Request, req[r].origin \in {"pooled", "made"} PROVE req[r].ws \in Held
    BY <1>2, <1>5 DEF IInv, Fits
  <1>6. OneOwner'
    BY <1>5 DEF IInv, OneOwner, Kept
  <1>7. OwnCredential'
    <2> SUFFICES ASSUME NEW q \in Request, req[q].pc = "running", req[q].linked,
                        req[q].origin # "named", req[q].ws \in dir'
                 PROVE  cred'[req[q].ws] = req[q].account
        BY DEF OwnCredential
    <2>1. req[q].ws \in Held
      BY <1>2 DEF IInv, Fits
    <2> QED BY <2>1 DEF IInv, OwnCredential
  <1> QED BY <1>1, <1>4, <1>6, <1>7 DEF IInv

LEMMA RecoversInv ==
  ASSUME IInv, NEW a \in Accounts, AccountRecovers(a)
  PROVE  IInv'
  <1>1. AuthTypeOK'
    <2>1. health' \in [Accounts -> {"ok", "cooling", "disabled"}]
      BY DEF IInv, TypeOK, AuthTypeOK, AccountRecovers, Cool, RollOver
    <2>2. spent' \in [Accounts -> Nat]
      BY DEF IInv, TypeOK, AuthTypeOK, AccountRecovers, Cool, RollOver
    <2>3. cursor' = cursor
      BY DEF AccountRecovers, Cool, RollOver
    <2> QED BY <2>1, <2>2, <2>3 DEF IInv, TypeOK, AuthTypeOK
  <1>2. req' \in [Request -> State] /\ \A q \in Request : Stays(q)
    BY ShakenStays DEF AccountRecovers, Stays
  <1>3. UNCHANGED <<dir, cred, pool, stored>>
    BY DEF AccountRecovers, spaces, disk
  <1>4. TypeOK'
    BY <1>1, <1>2, <1>3 DEF IInv, TypeOK, State
  <1>5. InPool' = InPool /\ Kept' = Kept
    BY <1>3 DEF InPool, Kept
  <1>6. OneOwner' /\ PoolUnheld' /\ \A q \in Request : Fits(req'[q])
    BY <1>2, <1>3, <1>5 DEF IInv, OneOwner, PoolUnheld, Fits, Stays
  <1>7. OwnCredential'
    BY <1>2, <1>3 DEF IInv, OwnCredential, Stays
  <1> QED BY <1>4, <1>6, <1>7 DEF IInv

LEMMA SweepInv ==
  ASSUME IInv, NEW w \in Workspace, Sweep(w)
  PROVE  IInv'
  <1>1. /\ req' = req /\ UNCHANGED <<auth, pool, stored>>
        /\ dir' = dir \ {w} /\ cred' = [cred EXCEPT ![w] = "host"]
    BY DEF Sweep, SweepDirectory, Removed
  <1>2. InPool' = InPool
    BY <1>1 DEF InPool
  <1>3. cred' \in [Workspace -> Accounts \cup {"host"}] /\ \A v \in dir' : cred'[v] = cred[v]
    BY <1>1 DEF IInv, TypeOK
  <1> QED BY <1>1, <1>2, <1>3, Elsewhere DEF IInv, TypeOK, OneOwner

LEMMA KeepInv ==
  ASSUME IInv, Keep
  PROVE  IInv'
  <1>1. req' = req /\ UNCHANGED auth
    BY DEF Keep
  <1>2. ASSUME NEW w \in Fresh, MakeDirectory(w)
        PROVE  /\ w \in Workspace /\ w \notin Held /\ w \notin Kept /\ dir' = dir \cup {w}
               /\ cred' \in [Workspace -> Accounts \cup {"host"}]
               /\ \A v \in Workspace \ {w} : cred'[v] = cred[v]
    BY <1>2 DEF MakeDirectory, Fresh, IInv, TypeOK
  <1>3. Held \subseteq Workspace
    BY DEF Held, IInv, TypeOK
  <1>4. ASSUME NEW w \in Fresh, Refill(w) PROVE IInv'
    <2>1. /\ MakeDirectory(w) /\ pool' = Append(pool, w) /\ stored' = stored
          /\ Len(pool) <= WarmPoolSize /\ pool \in Seq(Workspace) /\ WarmPoolSize \in Nat
      BY <1>4, WorkspaceAssumption DEF Refill, WorkspaceAssumption, IInv, TypeOK
    <2>2. /\ pool' \in Seq(Workspace) /\ Len(pool') <= WarmPoolSize + 1
          /\ DOMAIN pool' = 1..(Len(pool) + 1) /\ DOMAIN pool = 1..Len(pool)
          /\ pool'[Len(pool) + 1] = w
          /\ \A i \in 1..Len(pool) : pool'[i] = pool[i]
      BY <1>2, <2>1
    <2>3. \A i \in 1..Len(pool) : pool[i] # w
      BY <1>2, <2>1, <2>2 DEF Kept, InPool
    <2>4. InPool' = InPool \cup {w}
      <3>1. InPool' = {pool'[i] : i \in 1..(Len(pool) + 1)}
        BY <2>2 DEF InPool
      <3>2. InPool = {pool[i] : i \in 1..Len(pool)}
        BY <2>2 DEF InPool
      <3>3. 1..(Len(pool) + 1) = (1..Len(pool)) \cup {Len(pool) + 1}
        BY <2>1
      <3> QED BY <2>2, <3>1, <3>2, <3>3
    <2>5. \A i, j \in DOMAIN pool' : pool'[i] = pool'[j] => i = j
      <3>1. \A i, j \in 1..Len(pool) : pool[i] = pool[j] => i = j
        BY <2>2 DEF IInv, OneOwner
      <3> QED BY <2>1, <2>2, <2>3, <3>1
    <2>6. InPool' \cap stored' = {}
      BY <1>2, <2>1, <2>4 DEF IInv, OneOwner, Kept
    <2> QED BY <1>1, <1>2, <1>3, <2>1, <2>2, <2>4, <2>5, <2>6, Elsewhere DEF IInv, TypeOK
  <1>5. ASSUME NEW w \in Fresh, CreateWorkspace(w) PROVE IInv'
    <2>1. MakeDirectory(w) /\ stored' = stored \cup {w} /\ pool' = pool
      BY <1>5 DEF CreateWorkspace
    <2>2. InPool' = InPool
      BY <2>1 DEF InPool
    <2> QED BY <1>1, <1>2, <1>3, <2>1, <2>2, Elsewhere DEF IInv, TypeOK, OneOwner, Kept
  <1>6. ASSUME NEW w \in stored, DeleteWorkspace(w) PROVE IInv'
    <2>1. stored' = stored \ {w} /\ pool' = pool /\ dir' = dir /\ cred' = cred
      BY <1>6 DEF DeleteWorkspace, disk
    <2>2. InPool' = InPool
      BY <2>1 DEF InPool
    <2> QED BY <1>1, <2>1, <2>2, Elsewhere DEF IInv, TypeOK, OneOwner
  <1> QED BY <1>4, <1>5, <1>6 DEF Keep

LEMMA RestartInv ==
  ASSUME IInv, Restart
  PROVE  IInv'
  <1>1. /\ req' = [r \in Request |-> Idle] /\ pool' = <<>> /\ stored' = {}
        /\ dir' = dir /\ cred' = cred
    BY DEF Restart, disk
  <1>2. /\ req' \in [Request -> State]
        /\ \A r \in Request : Fits(req'[r]) /\ req'[r].ws = NoWorkspace /\ req'[r].origin = "none"
    BY <1>1, IdleFits
  <1>3. AuthTypeOK'
    <2>1. 0 \in 0..(Len(Account) - 1)
      BY SomeAccounts
    <2>2. /\ health' = [a \in Accounts |-> "ok"] /\ spent' = [a \in Accounts |-> 0]
          /\ cursor' = 0
      BY DEF Restart
    <2> QED BY <2>1, <2>2 DEF AuthTypeOK
  <1>4. InPool' = {}
    BY <1>1 DEF InPool
  <1>5. TypeOK'
    BY <1>1, <1>2, <1>3, WorkspaceAssumption DEF WorkspaceAssumption, IInv, TypeOK, State
  <1>6. OneOwner' /\ PoolUnheld'
    BY <1>1, <1>2, <1>4 DEF OneOwner, PoolUnheld
  <1>7. OwnCredential'
    BY <1>2, <1>5, WorkspaceAssumption DEF OwnCredential, WorkspaceAssumption, TypeOK
  <1> QED BY <1>2, <1>5, <1>6, <1>7 DEF IInv

-----------------------------------------------------------------------------
LEMMA NextInv == IInv /\ [Next]_vars => IInv'
  <1> SUFFICES ASSUME IInv, [Next]_vars PROVE IInv'
      OBVIOUS
  <1>1. ASSUME NEW r \in Request, Chat(r) PROVE IInv'
    BY <1>1, ArriveInv, PickNamedInv, PickNextInv, AbandonInv, UseNamedInv, TakePooledInv, MakeOwnInv,
       LookUpInv, FinishInv DEF Chat
  <1>2. ASSUME NEW a \in Accounts, AccountRecovers(a) PROVE IInv'
    BY <1>2, RecoversInv
  <1>3. ASSUME NEW w \in Workspace, Sweep(w) PROVE IInv'
    BY <1>3, SweepInv
  <1>4. CASE UNCHANGED vars
    BY <1>4 DEF vars, auth, spaces, disk, IInv, TypeOK, AuthTypeOK, Fits, OneOwner, PoolUnheld, OwnCredential,
                Kept, InPool
  <1> QED BY <1>1, <1>2, <1>3, <1>4, KeepInv, RestartInv DEF Next

THEOREM Invariance == Spec => []IInv
  <1> QED BY InitInv, NextInv, PTL DEF Spec

-----------------------------------------------------------------------------
(* The theorems.                                                           *)

\* Every part of the state keeps its type, and the pool its size.
THEOREM TypeCorrect == Spec => []TypeOK
  <1> QED BY Invariance, PTL DEF IInv

\* A workspace has one owner: a place in the warm pool, the store, or one request.
THEOREM Owners == Spec => []OneOwner
  <1> QED BY Invariance, PTL DEF IInv

\* What a request linked into a workspace of its own is still what is there: its run is
\* charged to the account it ran with.
THEOREM Credentials == Spec => []OwnCredential
  <1> QED BY Invariance, PTL DEF IInv

-----------------------------------------------------------------------------
(* A search nobody disturbed.                                              *)

\* Where the counter stood k turns ago.
Back(k) == IF k <= cursor THEN cursor - k ELSE cursor - k + Len(Account)

\* The accounts an undisturbed search has looked at are still not available.
Seen(r) ==
  req[r].pc = "picking" /\ ~req[r].shaken =>
    \A k \in 1..req[r].tries : ~IsAvailable(Account[Back(k) + 1])

\* A request that is not searching, or has just begun, has seen nothing.
LEMMA SeenNothing ==
  ASSUME NEW r \in Request, req[r].pc # "picking" \/ req[r].tries = 0
  PROVE  Seen(r)
  BY DEF Seen

LEMMA SeenInit == Init => \A r \in Request : Seen(r)
  <1> SUFFICES ASSUME Init, NEW r \in Request PROVE Seen(r)
      OBVIOUS
  <1>1. req[r].pc = "idle"
    BY DEF Init, Idle
  <1> QED BY <1>1, SeenNothing

\* One turn of the search.
LEMMA SeenTurn ==
  ASSUME IInv, NEW r \in Request, Seen(r), PickNext(r)
  PROVE  /\ Seen(r)'
         /\ req'[r].pc = "waiting" /\ req'[r].account = NoAccount /\ ~req[r].shaken =>
              \A a \in Accounts : ~IsAvailable(a)
  <1> DEFINE tries == req[r].tries + 1
             s == [req[r] EXCEPT !.tries = 0, !.shaken = FALSE, !.pc = "waiting"]
             found == [s EXCEPT !.account = Candidate]
             on == [req[r] EXCEPT !.tries = tries]
             n == Len(Account)
  <1>1. /\ req[r].pc = "picking" /\ req[r] \in State /\ Advance
        /\ \/ req'[r] = found /\ IsAvailable(Candidate)
           \/ req'[r] = s /\ ~IsAvailable(Candidate) /\ tries = n
           \/ req'[r] = on /\ ~IsAvailable(Candidate)
    BY DEF PickNext, Shaking, IInv, TypeOK, State
  <1>2. n \in Nat \ {0} /\ cursor \in 0..(n - 1) /\ req[r].tries \in 0..(n - 1)
    BY <1>1, SomeAccounts DEF IInv, TypeOK, AuthTypeOK, State
  <1>3. UNCHANGED <<health, spent>> /\ cursor' = IF cursor + 1 = n THEN 0 ELSE cursor + 1
    <2>1. cursor' = (cursor + 1) % n
      BY <1>1 DEF Advance
    <2>2. cursor + 1 < n => (cursor + 1) % n = cursor + 1
      BY <1>2
    <2>3. n % n = 0
      BY <1>2
    <2> QED BY <1>1, <1>2, <2>1, <2>2, <2>3 DEF Advance
  <1>4. found.pc = "waiting" /\ s.pc = "waiting" /\ found.account = Candidate
        /\ on.pc = "picking" /\ on.tries = tries /\ on.shaken = req[r].shaken
    BY <1>1 DEF State
  <1>5. Candidate # NoAccount
    <2>1. cursor + 1 \in DOMAIN Account
      BY <1>2, AuthAssumption DEF AuthAssumption
    <2> QED BY <2>1, AuthAssumption DEF AuthAssumption, Candidate
  <1>6. CASE req'[r] = on /\ ~IsAvailable(Candidate)
    <2> SUFFICES ASSUME ~req[r].shaken, NEW k \in 1..tries
                 PROVE  ~IsAvailable(Account[Back(k)' + 1])
        BY <1>3, <1>4, <1>6 DEF Seen, IsAvailable
    <2>1. CASE k = 1
      <3>1. Back(k)' = cursor
        BY <1>2, <1>3, <2>1 DEF Back
      <3> QED BY <1>6, <3>1 DEF Candidate
    <2>2. CASE k # 1
      <3>1. k - 1 \in 1..req[r].tries
        BY <1>2, <2>2
      <3>2. Back(k)' = Back(k - 1)
        BY <1>2, <1>3, <2>2 DEF Back
      <3> QED BY <1>1, <3>1, <3>2 DEF Seen
    <2> QED BY <2>1, <2>2
  <1>7. CASE req'[r] = s /\ ~IsAvailable(Candidate) /\ tries = n
    <2>1. Seen(r)'
      BY <1>4, <1>7 DEF Seen
    <2>2. ASSUME ~req[r].shaken, NEW a \in Accounts PROVE ~IsAvailable(a)
      <3>1. PICK i \in 1..n : a = Account[i]
        BY AuthAssumption DEF Accounts, AuthAssumption
      <3>2. CASE i = cursor + 1
        BY <1>7, <3>1, <3>2 DEF Candidate
      <3>3. CASE i # cursor + 1
        <4> DEFINE k == IF i - 1 < cursor THEN cursor - (i - 1) ELSE cursor - (i - 1) + n
        <4>3. n \in Nat /\ cursor \in 0..(n - 1) /\ req[r].tries = n - 1 /\ i \in 1..n /\ i # cursor + 1
          BY ONLY <1>2, <1>7, <3>3, i \in 1..n
        <4>1. k \in 1..req[r].tries
          BY ONLY <4>3
        <4>2. Back(k) + 1 = i
          BY ONLY <4>3 DEF Back
        <4> HIDE DEF k
        <4> QED BY <1>1, <2>2, <3>1, <4>1, <4>2 DEF Seen
      <3> QED BY <3>2, <3>3
    <2> QED BY <2>1, <2>2
  <1>8. CASE req'[r] = found
    BY <1>4, <1>5, <1>8 DEF Seen
  <1> HIDE DEF found, s, on
  <1> QED BY <1>1, <1>6, <1>7, <1>8

\* What moves under a search shakes it.
LEMMA SeenByOthers ==
  ASSUME IInv, NEW r \in Request, NEW s, Shaking(r, s), NEW q \in Request, q # r
  PROVE  Seen(q)'
  <1>1. req'[q] = Shaken(q) /\ req[q] \in State
    BY DEF Shaking, IInv, TypeOK, State
  <1>2. CASE req[q].pc = "picking" /\ req[q].tries > 0
    BY <1>1, <1>2 DEF Shaken, Seen, State
  <1>3. CASE req[q].pc # "picking" \/ req[q].tries = 0
    BY <1>1, <1>3 DEF Shaken, Seen
  <1> QED BY <1>1, <1>2, <1>3 DEF State

\* While the accounts and the counter stay as they are, a search has seen what it saw.
LEMMA SeenStill ==
  ASSUME NEW q \in Request, Seen(q), UNCHANGED auth, req'[q] = req[q]
  PROVE  Seen(q)'
  BY DEF Seen, Back, IsAvailable, auth

LEMMA SeenMove ==
  ASSUME IInv, NEW r \in Request, NEW s, Moves(r, s), s.pc # "picking" \/ s.tries = 0, UNCHANGED auth,
         \A q \in Request : Seen(q)
  PROVE  \A q \in Request : Seen(q)'
  <1> SUFFICES ASSUME NEW q \in Request PROVE Seen(q)'
      OBVIOUS
  <1>1. CASE q = r
    <2>1. req'[q] = s
      BY <1>1 DEF Moves, IInv, TypeOK
    <2>2. req'[q].pc # "picking" \/ req'[q].tries = 0
      BY <2>1
    <2>3. 1..0 = {}
      OBVIOUS
    <2> QED BY <2>2, <2>3 DEF Seen
  <1>2. CASE q # r
    BY <1>2, SeenStill DEF Moves, IInv, TypeOK
  <1> QED BY <1>1, <1>2

\* The steps of a request that neither take a turn nor record an outcome.
LEMMA Elsewhen ==
  ASSUME IInv, NEW r \in Request,
         \/ Arrive(r) \/ PickNamed(r) \/ Abandon(r) \/ UseNamed(r) \/ TakePooled(r) \/ MakeOwn(r)
         \/ LookUp(r) \/ (Finish(r) /\ PassOver(r))
  PROVE  /\ UNCHANGED auth
         /\ \E s : Moves(r, s) /\ (s.pc # "picking" \/ s.tries = 0)
         /\ req[r].pc = "picking" => (req'[r].pc = "waiting" => req'[r].account # NoAccount)
  <1>1. CASE Arrive(r)
    BY <1>1 DEF Arrive, Idle
  <1>2. CASE PickNamed(r)
    <2>1. PICK a \in Accounts :
            Moves(r, IF IsAvailable(a) THEN [req[r] EXCEPT !.pc = "waiting", !.account = a, !.shaken = FALSE]
                     ELSE Idle)
      BY <1>2 DEF PickNamed
    <2> DEFINE s == [req[r] EXCEPT !.pc = "waiting", !.account = a, !.shaken = FALSE]
    <2>2. s.pc = "waiting" /\ s.account = a /\ Idle.pc = "idle"
      BY DEF IInv, TypeOK, Idle
    <2>3. a # NoAccount
      BY AuthAssumption DEF AuthAssumption, Accounts
    <2>4. Moves(r, s) \/ Moves(r, Idle)
      BY <2>1
    <2> HIDE DEF s
    <2>5. \A t : Moves(r, t) => req'[r] = t
      BY DEF Moves, IInv, TypeOK
    <2>6. UNCHANGED auth
      BY <1>2 DEF PickNamed
    <2> QED BY <2>2, <2>3, <2>4, <2>5, <2>6
  <1>3. CASE Abandon(r)
    BY <1>3 DEF Abandon, Idle
  <1>4. CASE UseNamed(r) \/ TakePooled(r) \/ MakeOwn(r)
    <2>1. PICK w, origin, found : Takes(r, w, origin, found)
      BY <1>4 DEF UseNamed, TakePooled, MakeOwn
    <2>2. PICK link \in {req[r].account # NoAccount /\ w \in dir', FALSE} :
            Moves(r, [req[r] EXCEPT !.pc = "running", !.ws = w, !.origin = origin, !.linked = link /\ origin # "named"])
      BY <2>1, Zenon DEF Takes
    <2>3. [req[r] EXCEPT !.pc = "running", !.ws = w, !.origin = origin, !.linked = link /\ origin # "named"].pc = "running"
      BY DEF IInv, TypeOK
    <2>4. UNCHANGED auth /\ req[r].pc = "waiting"
      BY <1>4 DEF UseNamed, TakePooled, MakeOwn, Admitted
    <2> QED BY <2>2, <2>3, <2>4
  <1>5. CASE LookUp(r)
    <2>1. [req[r] EXCEPT !.pc = "recording", !.linked = FALSE].pc = "recording"
      BY DEF IInv, TypeOK
    <2> QED BY <1>5, <2>1 DEF LookUp
  <1>6. CASE Finish(r) /\ PassOver(r)
    BY <1>6 DEF PassOver, Idle
  <1> QED BY <1>1, <1>2, <1>3, <1>4, <1>5, <1>6

LEMMA SeenNext == IInv /\ (\A r \in Request : Seen(r)) /\ [Next]_vars => \A r \in Request : Seen(r)'
  <1> SUFFICES ASSUME IInv, \A r \in Request : Seen(r), [Next]_vars, NEW q \in Request PROVE Seen(q)'
      OBVIOUS
  <1>1. ASSUME NEW r \in Request, PickNext(r) PROVE Seen(q)'
    <2>1. q = r => Seen(q)'
      BY <1>1, SeenTurn
    <2>2. PICK s : Shaking(r, s)
      BY <1>1 DEF PickNext
    <2> QED BY <2>1, <2>2, SeenByOthers
  <1>2. ASSUME NEW r \in Request, Record(r) PROVE Seen(q)'
    <2>1. Shaking(r, Idle)
      BY <1>2 DEF Record
    <2>2. q = r => Seen(q)'
      BY <2>1 DEF Shaking, Idle, Seen
    <2> QED BY <2>1, <2>2, SeenByOthers
  <1>3. ASSUME NEW r \in Request, Chat(r), ~PickNext(r), ~Record(r) PROVE Seen(q)'
    <2>1. \/ Arrive(r) \/ PickNamed(r) \/ Abandon(r) \/ UseNamed(r) \/ TakePooled(r) \/ MakeOwn(r)
          \/ LookUp(r) \/ (Finish(r) /\ PassOver(r))
      BY <1>3 DEF Chat, Finish
    <2> QED BY <2>1, Elsewhen, SeenMove
  <1>4. ASSUME NEW a \in Accounts, AccountRecovers(a) PROVE Seen(q)'
    <2>1. req'[q] = Shaken(q) /\ req[q] \in State
      BY <1>4 DEF AccountRecovers, IInv, TypeOK, State
    <2>2. CASE req[q].pc = "picking" /\ req[q].tries > 0
      BY <2>1, <2>2 DEF Shaken, Seen, State
    <2>3. CASE req[q].pc # "picking" \/ req[q].tries = 0
      BY <2>1, <2>3 DEF Shaken, Seen
    <2> QED BY <2>1, <2>2, <2>3 DEF State
  <1>5. CASE \/ Keep \/ UNCHANGED vars
             \/ \E w \in Workspace : Sweep(w)
    BY <1>5, SeenStill DEF Keep, Sweep, vars
  <1>6. CASE Restart
    BY <1>6 DEF Restart, Idle, Seen
  <1> QED BY <1>1, <1>2, <1>3, <1>4, <1>5, <1>6 DEF Next

\* A request goes on without an account only if none was available, unless the accounts
\* or the shared counter moved while it looked.
THEOREM SearchFinds == Spec => PickFinds
  <1>1. ASSUME IInv, \A r \in Request : Seen(r), [Next]_vars, NEW r \in Request,
               req[r].pc = "picking", ~req[r].shaken, req'[r].pc = "waiting", req'[r].account = NoAccount
        PROVE  \A a \in Accounts : ~IsAvailable(a)
    <2>1. CASE PickNext(r)
      BY <1>1, <2>1, SeenTurn
    <2>2. CASE Chat(r) /\ ~PickNext(r)
      <3>1. ~Record(r)
        BY <1>1 DEF Record
      <3>2. \/ Arrive(r) \/ PickNamed(r) \/ Abandon(r) \/ UseNamed(r) \/ TakePooled(r) \/ MakeOwn(r)
            \/ LookUp(r) \/ (Finish(r) /\ PassOver(r))
        BY <2>2, <3>1 DEF Chat, Finish
      <3> QED BY <1>1, <3>2, Elsewhen
    <2>3. ASSUME NEW q \in Request, Chat(q), q # r PROVE FALSE
      <3>1. CASE \E s : Shaking(q, s)
        BY <1>1, <2>3, <3>1, ShakenStays DEF Shaking
      <3>2. CASE \E s : Moves(q, s)
        BY <1>1, <2>3, <3>2 DEF Moves, IInv, TypeOK
      <3>3. PickNext(q) \/ Record(q) => \E s : Shaking(q, s)
        BY DEF PickNext, Record
      <3>4. ~PickNext(q) /\ ~Record(q) => \E s : Moves(q, s)
        <4> SUFFICES ASSUME ~PickNext(q), ~Record(q) PROVE \E s : Moves(q, s)
            OBVIOUS
        <4>1. \/ Arrive(q) \/ PickNamed(q) \/ Abandon(q) \/ UseNamed(q) \/ TakePooled(q) \/ MakeOwn(q)
              \/ LookUp(q) \/ (Finish(q) /\ PassOver(q))
          BY <2>3 DEF Chat, Finish
        <4> QED BY <1>1, <4>1, Elsewhen
      <3> QED BY <3>1, <3>2, <3>3, <3>4
    <2>4. CASE \E a \in Accounts : AccountRecovers(a)
      BY <1>1, <2>4, ShakenStays DEF AccountRecovers
    <2>5. CASE Keep \/ UNCHANGED vars \/ \E w \in Workspace : Sweep(w)
      BY <1>1, <2>5 DEF Keep, Sweep, vars
    <2>6. CASE Restart
      BY <1>1, <2>6 DEF Restart, Idle
    <2> QED BY <1>1, <2>1, <2>2, <2>3, <2>4, <2>5, <2>6 DEF Next
  <1>2. IInv /\ (\A r \in Request : Seen(r)) /\ [Next]_vars =>
          [\A r \in Request :
             /\ req[r].pc = "picking" /\ ~req[r].shaken
             /\ req'[r].pc = "waiting" /\ req'[r].account = NoAccount
             => \A a \in Accounts : ~IsAvailable(a)]_vars
    BY <1>1
  <1>3. Spec => [](\A r \in Request : Seen(r))
    <2> DEFINE AllSeen == \A r \in Request : Seen(r)
    <2>1. Init => AllSeen
      BY SeenInit
    <2>2. IInv /\ AllSeen /\ [Next]_vars => AllSeen'
      BY SeenNext
    <2> HIDE DEF AllSeen
    <2>3. Spec => []AllSeen
      BY <2>1, <2>2, Invariance, PTL DEF Spec
    <2> QED BY <2>3 DEF AllSeen
  <1> QED BY <1>2, <1>3, Invariance, PTL DEF Spec, PickFinds
=============================================================================
