------------------------------ MODULE AuthPool ------------------------------
(***************************************************************************)
(* The legacy account pool of the gateway (auth_pool.go): accounts of one  *)
(* provider in a fixed order, a shared cursor, health and window budget.   *)
(*                                                                         *)
(* The costs of a run are one unit, and a budget of 0 means none.  Cooling *)
(* ends, and a budget window begins anew, at any time.                     *)
(***************************************************************************)
EXTENDS Naturals, Sequences

CONSTANTS
  Account,        \* the accounts, a sequence
  WindowMaxUSD,   \* [account -> units it may spend in a window]; 0 is no limit
  NoAccount

ASSUME AuthAssumption ==
  /\ Account \in Seq({Account[i] : i \in DOMAIN Account}) /\ Account # <<>>
  /\ WindowMaxUSD \in [{Account[i] : i \in DOMAIN Account} -> Nat]
  /\ \A i \in DOMAIN Account : Account[i] # NoAccount

VARIABLES
  health,   \* [account -> "ok", "cooling" or "disabled"]
  spent,    \* [account -> units spent in the current window]
  cursor    \* the counter of the round robin, modulo the number of accounts

auth == <<health, spent, cursor>>

Accounts == {Account[i] : i \in DOMAIN Account}

\* Without a budget nothing is counted.
Charged(a) == IF WindowMaxUSD[a] = 0 THEN spent[a] ELSE spent[a] + 1

IsAvailable(a) == health[a] = "ok" /\ (WindowMaxUSD[a] > 0 => spent[a] < WindowMaxUSD[a])

\* One turn of the loop of Pick: the counter moves on, and the account it stood at
\* is looked at.
Candidate == Account[cursor + 1]

\* Mutant of Advance: the counter is taken as the index without its remainder.
AdvanceOn == cursor' = cursor + 1 /\ UNCHANGED <<health, spent>>

Advance == cursor' = (cursor + 1) % Len(Account) /\ UNCHANGED <<health, spent>>

\* recordOutcome after classifyAccountError.  Nothing enables an account again that was
\* disabled for good.
Outcome == {"ok", "rate_limit", "transient", "auth", "credit", "other"}

RecordOutcome(a, outcome) ==
  /\ health' = [health EXCEPT ![a] =
                  CASE outcome \in {"auth", "credit"} -> "disabled"
                    [] outcome \in {"rate_limit", "transient"} /\ @ # "disabled" -> "cooling"
                    [] OTHER -> @]
  /\ spent' = [spent EXCEPT ![a] = IF outcome = "ok" THEN Charged(a) ELSE @]
  /\ UNCHANGED cursor

Cool(a) ==
  /\ health[a] = "cooling"
  /\ health' = [health EXCEPT ![a] = "ok"]
  /\ UNCHANGED <<spent, cursor>>

RollOver(a) ==
  /\ spent[a] > 0
  /\ spent' = [spent EXCEPT ![a] = 0]
  /\ UNCHANGED <<health, cursor>>

AuthInit ==
  /\ health = [a \in Accounts |-> "ok"]
  /\ spent = [a \in Accounts |-> 0]
  /\ cursor = 0

AuthTypeOK ==
  /\ health \in [Accounts -> {"ok", "cooling", "disabled"}]
  /\ spent \in [Accounts -> Nat]
  /\ cursor \in 0..(Len(Account) - 1)

=============================================================================
