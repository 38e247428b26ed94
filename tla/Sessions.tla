------------------------------ MODULE Sessions ------------------------------
(***************************************************************************)
(* Conversations kept on the server (sessions.go, sessions_http.go): a row *)
(* in the database, a copy in a cache that is trusted while it is young,   *)
(* and requests that read the conversation, append their turn and put the  *)
(* result back into the cache, each in a step of its own.  One session is  *)
(* modelled; turns are numbered in the order in which they arrive.         *)
(***************************************************************************)
EXTENDS Requests, Naturals, Sequences, SequencesExt

CONSTANT
  MaxTurns   \* bound on the number of turns

ASSUME SessionAssumption == MaxTurns \in Nat \ {0}

VARIABLES
  row,        \* the stored turns: <<>> before the session is made and after it is gone
  expired,    \* the row has not been used for longer than its time to live
  copy,       \* the cached turns, <<>> if there are none
  aged,       \* the copy is too old to be used
  sweeping,   \* the sweeper has deleted rows and is about to empty the cache
  turns,      \* number of turns so far
  ses,        \* [Request -> the request's state]
  deleted,    \* history: a client was told that the session is deleted
  crowded     \* history: two requests were at work on the session together

sessions == <<row, expired, copy, aged, sweeping, turns, ses, deleted, crowded>>

Away == [pc |-> "away", turn |-> 0, seen |-> <<>>, result |-> <<>>, known |-> {}, late |-> FALSE,
         deletes |-> FALSE, failed |-> FALSE]

Goes(r, s) == ses' = [ses EXCEPT ![r] = s]
Puts(turnsOf) == copy' = turnsOf /\ aged' = FALSE
Busy(r) == ses[r].pc \notin {"away", "asked"}

\* Get has returned: a turn goes on, a reader is answered.
Has(r, seen) == IF ses[r].turn = 0 THEN Away ELSE [ses[r] EXCEPT !.pc = "append", !.seen = seen]

\* The request will be answered with the turns it has seen, or only its own.
Asks(r, seen) == [ses[r] EXCEPT !.pc = "asked", !.seen = seen, !.result = <<>>]

-----------------------------------------------------------------------------
CreateSession(r) ==
  /\ ses[r].pc = "away" /\ turns = 0
  /\ turns' = 1 /\ row' = <<1>> /\ Puts(<<1>>)
  /\ Goes(r, [Away EXCEPT !.pc = "asked", !.turn = 1])
  /\ UNCHANGED <<expired, sweeping, deleted, crowded>>

\* A turn; or, with turn 0, a request to read the session or to delete it.
EnterSession(r) ==
  /\ ses[r].pc = "away" /\ turns > 0
  /\ \/ /\ turns < MaxTurns /\ turns' = turns + 1
        /\ Goes(r, [Away EXCEPT !.pc = "get", !.turn = turns + 1, !.late = deleted,
                                !.known = ToSet(row)])
     \/ Goes(r, [Away EXCEPT !.pc = "get"]) /\ UNCHANGED turns
     \/ Goes(r, [Away EXCEPT !.pc = "delete", !.deletes = TRUE]) /\ UNCHANGED turns
  /\ crowded' = (crowded \/ \E q \in Request \ {r} : Busy(q))
  /\ UNCHANGED <<row, expired, copy, aged, sweeping, deleted>>

\* Any failure of the database but a missing row is logged, and the request goes on
\* with its own messages alone; a reader is told.
GoesOnAlone(r) ==
  /\ ses[r].pc \in {"read", "append"}
  /\ Goes(r, IF ses[r].turn = 0 THEN Away ELSE Asks(r, <<>>))
  /\ UNCHANGED <<row, expired, copy, aged, sweeping, turns, deleted, crowded>>

GetCopy(r) ==
  /\ ses[r].pc = "get"
  /\ Goes(r, IF copy # <<>> /\ ~aged THEN Has(r, copy) ELSE [ses[r] EXCEPT !.pc = "read"])
  /\ UNCHANGED <<row, expired, copy, aged, sweeping, turns, deleted, crowded>>

ReadRow(r) ==
  /\ ses[r].pc = "read"
  /\ Goes(r, CASE row = <<>> -> Away
               [] row # <<>> /\ expired -> [ses[r] EXCEPT !.pc = "delete"]
               [] OTHER -> [ses[r] EXCEPT !.pc = "keep", !.seen = row])
  /\ UNCHANGED <<row, expired, copy, aged, sweeping, turns, deleted, crowded>>

KeepCopy(r) ==
  /\ ses[r].pc = "keep"
  /\ Puts(ses[r].seen)
  /\ Goes(r, Has(r, ses[r].seen))
  /\ UNCHANGED <<row, expired, sweeping, turns, deleted, crowded>>

\* Mutant of AppendTurn: a session that is gone is answered from the copy.
AppendAnyhow(r) ==
  /\ ses[r].pc = "append"
  /\ IF row = <<>> THEN Goes(r, Asks(r, ses[r].seen)) /\ UNCHANGED <<row, expired>>
     ELSE /\ row' = Append(row, ses[r].turn) /\ expired' = FALSE
          /\ Goes(r, [ses[r] EXCEPT !.pc = "put", !.result = row'])
  /\ UNCHANGED <<copy, aged, sweeping, turns, deleted, crowded>>

\* One UPDATE appends, bumps the time of use and returns the row.
AppendTurn(r) ==
  /\ ses[r].pc = "append"
  /\ IF row = <<>> THEN Goes(r, Away) /\ UNCHANGED <<row, expired>>
     ELSE /\ row' = Append(row, ses[r].turn) /\ expired' = FALSE
          /\ Goes(r, [ses[r] EXCEPT !.pc = "put", !.result = row'])
  /\ UNCHANGED <<copy, aged, sweeping, turns, deleted, crowded>>

\* Mutant of PutTurn: what was seen and the request's own turn are put into the cache.
PutOwnTurn(r) ==
  /\ ses[r].pc = "put"
  /\ Puts(Append(ses[r].seen, ses[r].turn))
  /\ Goes(r, Asks(r, ses[r].seen))
  /\ UNCHANGED <<row, expired, sweeping, turns, deleted, crowded>>

PutTurn(r) ==
  /\ ses[r].pc = "put"
  /\ Puts(ses[r].result)
  /\ Goes(r, Asks(r, ses[r].seen))
  /\ UNCHANGED <<row, expired, sweeping, turns, deleted, crowded>>

LeaveSession(r) ==
  /\ ses[r].pc = "asked"
  /\ Goes(r, Away)
  /\ UNCHANGED <<row, expired, copy, aged, sweeping, turns, deleted, crowded>>

\* Delete: the row, if the database does not fail, then the copy; for a client, or by
\* one that found the session expired.
DeleteRow(r) ==
  /\ ses[r].pc = "delete"
  /\ \E failed \in BOOLEAN :
       /\ IF failed THEN UNCHANGED <<row, expired>> ELSE row' = <<>> /\ expired' = FALSE
       /\ Goes(r, [ses[r] EXCEPT !.pc = "forget", !.failed = failed])
  /\ UNCHANGED <<copy, aged, sweeping, turns, deleted, crowded>>

ForgetCopy(r) ==
  /\ ses[r].pc = "forget"
  /\ copy' = <<>> /\ aged' = FALSE
  /\ deleted' = (deleted \/ (ses[r].deletes /\ ~ses[r].failed))
  /\ Goes(r, Away)
  /\ UNCHANGED <<row, expired, sweeping, turns, crowded>>

\* Time passes for the row and for the copy.
PassTime ==
  /\ \/ row # <<>> /\ ~expired /\ expired' = TRUE /\ UNCHANGED aged
     \/ copy # <<>> /\ ~aged /\ aged' = TRUE /\ UNCHANGED expired
  /\ UNCHANGED <<row, copy, sweeping, turns, ses, deleted, crowded>>

SweepSessions ==
  \/ /\ ~sweeping /\ expired
     /\ row' = <<>> /\ expired' = FALSE /\ sweeping' = TRUE
     /\ UNCHANGED <<copy, aged, turns, ses, deleted, crowded>>
  \/ /\ sweeping
     /\ copy' = <<>> /\ aged' = FALSE /\ sweeping' = FALSE
     /\ UNCHANGED <<row, expired, turns, ses, deleted, crowded>>

SessionStep(r) ==
  \/ CreateSession(r) \/ GetCopy(r) \/ ReadRow(r) \/ KeepCopy(r) \/ GoesOnAlone(r)
  \/ AppendTurn(r) \/ PutTurn(r) \/ LeaveSession(r) \/ DeleteRow(r) \/ ForgetCopy(r)

SessionsInit ==
  /\ row = <<>> /\ expired = FALSE /\ copy = <<>> /\ aged = FALSE /\ sweeping = FALSE
  /\ turns = 0 /\ ses = [r \in Request |-> Away] /\ deleted = FALSE /\ crowded = FALSE

SessionsTypeOK ==
  /\ turns \in 0..MaxTurns
  /\ row \in Seq(1..turns) /\ copy \in Seq(1..turns)
  /\ (expired => row # <<>>) /\ (aged => copy # <<>>)
  /\ sweeping \in BOOLEAN /\ deleted \in BOOLEAN /\ crowded \in BOOLEAN
  /\ \A r \in Request :
       /\ ses[r].pc \in {"away", "get", "read", "keep", "append", "put", "asked", "delete", "forget"}
       /\ ses[r].turn \in 0..turns /\ ses[r].known \subseteq 1..turns
       /\ {ses[r].late, ses[r].deletes, ses[r].failed} \subseteq BOOLEAN
       /\ ses[r].seen \in Seq(1..turns) /\ ses[r].result \in Seq(1..turns)

=============================================================================
