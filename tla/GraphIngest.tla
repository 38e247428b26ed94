---------------------------- MODULE GraphIngest ----------------------------
(***************************************************************************)
(* Keeping the retrieval index up to date (graphify_watcher.go,            *)
(* graphify_ingest.go, graphify_chunks.go): a watcher collects the files   *)
(* that change, and, once they have been quiet, ingests them: walkers cut  *)
(* the files into chunks and send them to workers, which embed and store   *)
(* them in batches.                                                        *)
(*                                                                         *)
(* A text is its length with the places of its newlines, of the bytes that *)
(* continue a character, and of the headings or declarations a section     *)
(* begins with.  A row of the index tells of which version of the file it  *)
(* holds the bytes from `from` to `to`.                                    *)
(***************************************************************************)
EXTENDS Naturals, Sequences, FiniteSets, SequencesExt

CONSTANTS
  File, Worker,
  Text,        \* the texts of the versions of a file, a sequence
  Target, Overlap,   \* of a chunk, in bytes
  BatchSize

ASSUME IngestAssumption ==
  /\ IsFiniteSet(File) /\ Worker # {} /\ IsFiniteSet(Worker) /\ BatchSize \in Nat \ {0}
  /\ Overlap \in Nat /\ Target \in Nat /\ 2 * Overlap < Target
  /\ Text \in Seq(Range(Text)) /\ Text # <<>>
  /\ \A v \in DOMAIN Text : Text[v].len \in Nat /\ Text[v].newlines \subseteq Nat
                            /\ Text[v].inside \subseteq Nat /\ Text[v].heads \subseteq Nat

VARIABLES
  version,   \* [File -> its version]
  events,    \* the files a change of which was not looked at
  pending,   \* [File -> "no", "fresh" or "quiet"]
  pipe,      \* "idle", or the state of an ingest: "open", "closed"
  toRead,    \* the files whose walkers have not read them
  toSend,    \* [file -> chunks its walker is about to send]
  channel,   \* chunkCh
  worker,    \* [Worker -> [pc, buf, rest]]
  rows,      \* the index: [File -> [index -> row]]
  missed     \* history: files that were passed over, or not all stored, when last read

ingest == <<version, events, pending, pipe, toRead, toSend, channel, worker, rows, missed>>

-----------------------------------------------------------------------------
\* snapRuneBoundary.
Snap(t, i) == IF i >= t.len THEN t.len ELSE Max({j \in 0..i : j \notin t.inside})

\* Where the section around s ends.
SectionEnd(t, s) == Min({h \in t.heads : h > s} \cup {t.len})

\* Where the window that starts at s ends: at the last newline of its second half, if any.
WindowEnd(t, s) ==
  LET section == SectionEnd(t, s)
      end == IF s + Target > section THEN section ELSE s + Target
      breaks == {n \in t.newlines : s + Target \div 2 < n /\ n < end}
  IN Snap(t, IF end < section /\ breaks # {} THEN Max(breaks) ELSE end)

\* The next window of a section overlaps with this one; sections do not.
NextStart(t, s) ==
  LET end == WindowEnd(t, s)
  IN IF end = SectionEnd(t, s) THEN end ELSE Snap(t, end - Overlap)

\* chunkMarkdown, chunkCode, chunkCharWindow: where the windows start, in order, for each version.
Windows ==
  [v \in DOMAIN Text |->
     LET t == Text[v]
         reach[n \in 0..t.len] ==
           IF n = 0 THEN {0}
           ELSE LET before == reach[n - 1]
                IN before \cup {NextStart(t, s) : s \in {x \in before : WindowEnd(t, x) < t.len}}
         starts == {s \in 0..(t.len - 1) : s \in reach[t.len]}
     IN [k \in 1..Cardinality(starts) |->
           CHOOSE s \in starts : Cardinality({x \in starts : x < s}) = k - 1]]

\* chunkFile: the chunks of a version, numbered.
ChunksOf(f, v) ==
  [i \in DOMAIN Windows[v] |-> [file |-> f, idx |-> i - 1, v |-> v,
                                from |-> Windows[v][i], to |-> WindowEnd(Text[v], Windows[v][i])]]

-----------------------------------------------------------------------------
\* Someone writes a file, and the watcher will hear of it.
ChangeFile(f) ==
  /\ version[f] < Len(Text)
  /\ version' = [version EXCEPT ![f] = @ + 1]
  /\ events' = events \cup {f}
  /\ UNCHANGED <<pending, pipe, toRead, toSend, channel, worker, rows, missed>>

\* handleEvent, of the loop that also waits for an ingest to end.
HandleEvent(f) ==
  /\ pipe = "idle" /\ f \in events
  /\ events' = events \ {f}
  /\ pending' = [pending EXCEPT ![f] = "fresh"]
  /\ UNCHANGED <<version, pipe, toRead, toSend, channel, worker, rows, missed>>

\* Two seconds pass since the last event of a file.
Quieten(f) ==
  /\ pending[f] = "fresh"
  /\ pending' = [pending EXCEPT ![f] = "quiet"]
  /\ UNCHANGED <<version, events, pipe, toRead, toSend, channel, worker, rows, missed>>

\* flushPending: the due files are no longer pending, whatever comes of it.
FlushPending ==
  LET due == {f \in File : pending[f] = "quiet"}
  IN /\ pipe = "idle" /\ due # {}
     /\ pending' = [f \in File |-> IF f \in due THEN "no" ELSE pending[f]]
     /\ pipe' = "open" /\ toRead' = due
     /\ worker' = [w \in Worker |-> [pc |-> "run", buf |-> <<>>, rest |-> <<>>]]
     /\ UNCHANGED <<version, events, toSend, channel, rows, missed>>

-----------------------------------------------------------------------------
\* A walker reads its file.  One that cannot be read, is too large or does not look like
\* text is passed over without an error: it is not pending any more, and its rows stay.
ReadFile(f) ==
  /\ f \in toRead
  /\ toRead' = toRead \ {f}
  /\ \/ /\ toSend' = IF ChunksOf(f, version[f]) = <<>> THEN toSend
                     ELSE toSend \cup {ChunksOf(f, version[f])}
        /\ missed' = missed \ {f}
     \/ toSend' = toSend /\ missed' = missed \cup {f}
  /\ UNCHANGED <<version, events, pending, pipe, channel, worker, rows>>

SendChunks ==
  /\ Len(channel) < 2 * Cardinality(Worker)
  /\ \E c \in toSend : channel' = Append(channel, c) /\ toSend' = toSend \ {c}
  /\ UNCHANGED <<version, events, pending, pipe, toRead, worker, rows, missed>>

CloseChannel ==
  /\ pipe = "open" /\ toRead = {} /\ toSend = {}
  /\ pipe' = "closed"
  /\ UNCHANGED <<version, events, pending, toRead, toSend, channel, worker, rows, missed>>

WorkerIs(w, s) == worker' = [worker EXCEPT ![w] = s]
FilesOf(chunks) == {chunks[i].file : i \in DOMAIN chunks}

\* The worker takes the chunks of a file; one that failed only drains the channel.
Receive(w) ==
  /\ channel # <<>> /\ worker[w].pc \in {"run", "drain"} /\ worker[w].rest = <<>>
  /\ channel' = Tail(channel)
  /\ IF worker[w].pc = "drain" THEN missed' = missed \cup FilesOf(Head(channel)) /\ UNCHANGED worker
     ELSE WorkerIs(w, [worker[w] EXCEPT !.rest = Head(channel)]) /\ UNCHANGED missed
  /\ UNCHANGED <<version, events, pending, pipe, toRead, toSend, rows>>

\* Mutant of FillBuffer: whatever the room.
FillAll(w) ==
  /\ worker[w].pc = "run" /\ worker[w].rest # <<>> /\ Len(worker[w].buf) < BatchSize
  /\ WorkerIs(w, [worker[w] EXCEPT !.buf = @ \o worker[w].rest, !.rest = <<>>])
  /\ UNCHANGED <<version, events, pending, pipe, toRead, toSend, channel, rows, missed>>

\* As much of it as there is room for goes to the buffer.
FillBuffer(w) ==
  LET n == Min({BatchSize - Len(worker[w].buf), Len(worker[w].rest)})
  IN /\ worker[w].pc = "run" /\ worker[w].rest # <<>> /\ n > 0
     /\ WorkerIs(w, [worker[w] EXCEPT !.buf = @ \o SubSeq(worker[w].rest, 1, n),
                                      !.rest = SubSeq(@, n + 1, Len(@))])
     /\ UNCHANGED <<version, events, pending, pipe, toRead, toSend, channel, rows, missed>>

\* flush: one transaction, an upsert on the path and the index of the chunk.
Stored(chunks) ==
  [f \in File |-> [i \in DOMAIN rows[f] \cup {chunks[k].idx : k \in {j \in DOMAIN chunks : chunks[j].file = f}} |->
     LET new == {k \in DOMAIN chunks : chunks[k].file = f /\ chunks[k].idx = i}
     IN IF new = {} THEN rows[f][i] ELSE chunks[Max(new)]]]

Flush(w, next) ==
  \/ /\ rows' = Stored(worker[w].buf)
     /\ WorkerIs(w, [worker[w] EXCEPT !.buf = <<>>, !.pc = next])
     /\ UNCHANGED missed
  \/ /\ missed' = missed \cup FilesOf(worker[w].buf) \cup FilesOf(worker[w].rest)
     /\ WorkerIs(w, [pc |-> IF next = "run" THEN "drain" ELSE "end", buf |-> <<>>, rest |-> <<>>])
     /\ UNCHANGED rows

FlushFull(w) ==
  /\ worker[w].pc = "run" /\ Len(worker[w].buf) >= BatchSize
  /\ Flush(w, "run")
  /\ UNCHANGED <<version, events, pending, pipe, toRead, toSend, channel>>

\* Mutant of FlushRest: what is left in the buffer is not flushed.
FlushNoRest(w) ==
  /\ pipe = "closed" /\ channel = <<>> /\ worker[w].pc \in {"run", "drain"} /\ worker[w].rest = <<>>
  /\ WorkerIs(w, [worker[w] EXCEPT !.pc = "end", !.buf = <<>>])
  /\ UNCHANGED <<version, events, pending, pipe, toRead, toSend, channel, rows, missed>>

\* The channel is closed and empty: the last flush.
FlushRest(w) ==
  /\ pipe = "closed" /\ channel = <<>> /\ worker[w].pc \in {"run", "drain"} /\ worker[w].rest = <<>>
  /\ Len(worker[w].buf) < BatchSize
  /\ IF worker[w].buf = <<>> THEN WorkerIs(w, [worker[w] EXCEPT !.pc = "end"]) /\ UNCHANGED <<rows, missed>>
     ELSE Flush(w, "end")
  /\ UNCHANGED <<version, events, pending, pipe, toRead, toSend, channel>>

EndIngest ==
  /\ pipe = "closed" /\ \A w \in Worker : worker[w].pc = "end"
  /\ pipe' = "idle"
  /\ UNCHANGED <<version, events, pending, toRead, toSend, channel, worker, rows, missed>>

\* What runs by itself: the timers, the watcher, the walkers and the workers.
IngestRuns ==
  \/ \E f \in File : HandleEvent(f) \/ Quieten(f) \/ ReadFile(f)
  \/ FlushPending \/ SendChunks \/ CloseChannel \/ EndIngest
  \/ \E w \in Worker : Receive(w) \/ FillBuffer(w) \/ FlushFull(w) \/ FlushRest(w)

IngestStep == IngestRuns \/ \E f \in File : ChangeFile(f)

IngestInit ==
  /\ version = [f \in File |-> 1] /\ events = File
  /\ pending = [f \in File |-> "no"] /\ pipe = "idle"
  /\ toRead = {} /\ toSend = {} /\ channel = <<>>
  /\ worker = [w \in Worker |-> [pc |-> "end", buf |-> <<>>, rest |-> <<>>]]
  /\ rows = [f \in File |-> <<>>] /\ missed = {}

\* Every byte of a file lies in a row of its version.
Indexed(f) == \A b \in 0..(Text[version[f]].len - 1) :
  \E i \in DOMAIN rows[f] : rows[f][i].v = version[f] /\ rows[f][i].from <= b /\ b < rows[f][i].to

IngestTypeOK ==
  /\ version \in [File -> DOMAIN Text] /\ events \subseteq File
  /\ pending \in [File -> {"no", "fresh", "quiet"}] /\ pipe \in {"idle", "open", "closed"}
  /\ toRead \subseteq File /\ missed \subseteq File /\ Len(channel) <= 2 * Cardinality(Worker)
  /\ \A w \in Worker : worker[w].pc \in {"run", "drain", "end"} /\ Len(worker[w].buf) <= BatchSize

=============================================================================
