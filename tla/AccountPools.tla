---------------------------- MODULE AccountPools ----------------------------
(***************************************************************************)
(* A pool of accounts of the gateway (accounts/pool.go, account.go): what  *)
(* is loaded at startup, leases given out in turn by callers that scan the *)
(* pool side by side, and the cooldowns their outcomes bring.              *)
(*                                                                         *)
(* Time is a clock of Horizon ticks; the short cooldown is that of a       *)
(* transient failure, the long one that of a rate limit or of a failure to *)
(* authenticate.                                                           *)
(***************************************************************************)
EXTENDS Requests, Naturals, Sequences, FiniteSets, SequencesExt

CONSTANTS
  Entry,       \* the entries of the files, in the order they are read: [id, enabled]
  ShortCooldown, LongCooldown,
  Horizon      \* bound on the clock

ASSUME PoolAssumption ==
  /\ Entry \in Seq(Range(Entry)) /\ Entry # <<>> /\ \A i \in DOMAIN Entry : Entry[i].enabled \in BOOLEAN
  /\ ShortCooldown \in Nat \ {0} /\ LongCooldown \in Nat \ {0} /\ Horizon \in Nat \ {0}

SameId(i) == {j \in DOMAIN Entry : Entry[j].id = Entry[i].id}
FirstOfId == {i \in DOMAIN Entry : i = Min(SameId(i))}
Place == 1..Cardinality(FirstOfId)

\* An entry replaces the one with its id, in its place.
Accounts ==
  [k \in Place |->
     LET first == CHOOSE i \in FirstOfId : Cardinality({j \in FirstOfId : j <= i}) = k
     IN Entry[Max(SameId(first))]]

VARIABLES
  clock,          \* the time
  disabledUntil,  \* [place -> time its cooldown ends; 0 is none]
  rr,             \* the counter of turns taken
  caller,         \* [Request -> the state of a caller]
  leases,         \* history: [place -> leases given beyond the least]
  cooled          \* history: some account was put in a cooldown

accountPool == <<clock, disabledUntil, rr, caller, leases, cooled>>

IsEnabled(i) == Accounts[i].enabled
IsActive(i, now) == IsEnabled(i) /\ now >= disabledUntil[i]

Away == [pc |-> "away", now |-> 0, start |-> 0, tried |-> 0, up |-> {}]
CallerIs(r, s) == caller' = [caller EXCEPT ![r] = s]

\* Checkout: the time is read, then a turn is taken.
Checkout(r) ==
  /\ caller[r].pc = "away"
  /\ CallerIs(r, [Away EXCEPT !.pc = "turn", !.now = clock,
                              !.up = {i \in Place : IsActive(i, clock)}])
  /\ UNCHANGED <<clock, disabledUntil, rr, leases, cooled>>

TakeTurn(r) ==
  /\ caller[r].pc = "turn"
  /\ CallerIs(r, [caller[r] EXCEPT !.pc = "scan", !.start = rr % Len(Accounts)])
  /\ rr' = (rr + 1) % Len(Accounts)
  /\ UNCHANGED <<clock, disabledUntil, leases, cooled>>

Candidate(r) == ((caller[r].start + caller[r].tried) % Len(Accounts)) + 1

\* Leases are counted from the least, as long as the turns should be even.
CountLease(i) ==
  LET more == [leases EXCEPT ![i] = @ + 1]
      least == Min({more[j] : j \in Place})
  IN leases' = IF cooled \/ \E j \in Place : ~IsEnabled(j) THEN [j \in Place |-> 0]
               ELSE [j \in Place |-> more[j] - least]

\* Mutant of Look: the scan stops one account short.
LookShort(r) ==
  /\ caller[r].pc = "scan"
  /\ IF IsActive(Candidate(r), caller[r].now)
     THEN /\ CallerIs(r, [caller[r] EXCEPT !.pc = "leased", !.start = Candidate(r)])
          /\ CountLease(Candidate(r))
     ELSE /\ CallerIs(r, [caller[r] EXCEPT !.tried = @ + 1,
                            !.pc = IF caller[r].tried + 2 < Len(Accounts) THEN "scan" ELSE "refused"])
          /\ UNCHANGED leases
  /\ UNCHANGED <<clock, disabledUntil, rr, cooled>>

\* One turn of the loop.
Look(r) ==
  /\ caller[r].pc = "scan"
  /\ IF IsActive(Candidate(r), caller[r].now)
     THEN /\ CallerIs(r, [caller[r] EXCEPT !.pc = "leased", !.start = Candidate(r)])
          /\ CountLease(Candidate(r))
     ELSE /\ CallerIs(r, [caller[r] EXCEPT !.tried = @ + 1,
                            !.pc = IF caller[r].tried + 1 < Len(Accounts) THEN "scan" ELSE "refused"])
          /\ UNCHANGED leases
  /\ UNCHANGED <<clock, disabledUntil, rr, cooled>>

\* Nobody may count on an account another lease has just put in a cooldown.
CoolUntil(i, t, callers) ==
  /\ disabledUntil' = [disabledUntil EXCEPT ![i] = t]
  /\ caller' = IF t = 0 THEN callers
               ELSE [q \in Request |-> [callers[q] EXCEPT !.up = @ \ {i}]]
  /\ cooled' = (cooled \/ t # 0)

Release(r) ==
  /\ caller[r].pc = "leased"
  /\ \E t \in {0, clock + ShortCooldown, clock + LongCooldown} :
       CoolUntil(caller[r].start, t, [caller EXCEPT ![r] = Away])
  /\ UNCHANGED <<clock, rr, leases>>

GoAway(r) ==
  /\ caller[r].pc = "refused"
  /\ CallerIs(r, Away)
  /\ UNCHANGED <<clock, disabledUntil, rr, leases, cooled>>

TickClock ==
  /\ clock < Horizon
  /\ clock' = clock + 1
  /\ UNCHANGED <<disabledUntil, rr, caller, leases, cooled>>

\* /v1/accounts/test: an account that is active, or how long until one is.
Peek ==
  LET active == {i \in Place : IsActive(i, clock)}
      waits == {disabledUntil[i] - clock : i \in {j \in Place : disabledUntil[j] > clock}}
  IN IF active # {} THEN [at |-> Min(active), wait |-> 0]
     ELSE [at |-> 0, wait |-> IF waits = {} THEN 0 ELSE Min(waits)]

PoolStep == TickClock \/ \E r \in Request :
              Checkout(r) \/ TakeTurn(r) \/ Look(r) \/ Release(r) \/ GoAway(r)

PoolInit ==
  /\ clock = 1 /\ disabledUntil = [i \in Place |-> 0] /\ rr = 0
  /\ caller = [r \in Request |-> Away]
  /\ leases = [i \in Place |-> 0] /\ cooled = FALSE

PoolTypeOK ==
  /\ clock \in 0..Horizon /\ rr \in 0..(Len(Accounts) - 1) /\ cooled \in BOOLEAN
  /\ disabledUntil \in [Place -> 0..(Horizon + ShortCooldown + LongCooldown)]
  /\ caller \in [Request -> [pc : {"away", "turn", "scan", "leased", "refused"}, now : 0..Horizon,
                             start : 0..Len(Accounts), tried : 0..Len(Accounts), up : SUBSET Place]]
  /\ leases \in [Place -> Nat]

=============================================================================
