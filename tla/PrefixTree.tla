----------------------------- MODULE PrefixTree -----------------------------
(***************************************************************************)
(* What one backend is thought to have in its key-value cache (kvtree.go,  *)
(* kv_index.go, prefix_hash.go): a tree of the chunks of the prompts it    *)
(* answered, walked hand over hand by those that record a prompt, and      *)
(* swept of what is stale.                                                 *)
(*                                                                         *)
(* A node is named by its path of chunks, a chunk stands for its hash.  A  *)
(* record whose node is swept away under it goes on below a node that is   *)
(* no longer in the tree: it is `adrift`.                                  *)
(***************************************************************************)
EXTENDS Requests, Naturals, Sequences, FiniteSets, SequencesExt

CONSTANTS
  Conversation,   \* sequences of messages: [role, parts], a part being [kind, text]
  ChunkLen,       \* chunkBytes
  MaxAge,         \* maxAge
  MaxNodes,       \* maxNodes
  LastTime,       \* bound on the time
  MaxRecords      \* bound on the records

\* FlattenMessages: of the contents, the texts and the names of images.
FlattenMessages(messages) ==
  FlattenSeq([i \in DOMAIN messages |->
     <<messages[i].role>> \o
     FlattenSeq([k \in DOMAIN messages[i].parts |->
        IF messages[i].parts[k].kind \in {"text", "image"} THEN messages[i].parts[k].text ELSE <<>>])])

Prompt == {FlattenMessages(c) : c \in Conversation}

ASSUME TreeAssumption ==
  /\ ChunkLen \in Nat \ {0} /\ MaxAge \in Nat \ {0} /\ MaxNodes \in Nat
  /\ LastTime \in Nat \ {0} /\ MaxRecords \in Nat
  /\ \A p \in Prompt : p \in Seq(Range(p))

\* ChunkedPrefixHash: the last chunk may be short.
Chunks(prompt) ==
  [i \in 1..((Len(prompt) + ChunkLen - 1) \div ChunkLen) |->
     SubSeq(prompt, (i - 1) * ChunkLen + 1, IF i * ChunkLen > Len(prompt) THEN Len(prompt) ELSE i * ChunkLen)]

Nodes == UNION {{SubSeq(Chunks(p), 1, i) : i \in 1..Len(Chunks(p))} : p \in Prompt}
Root == <<>>

VARIABLES
  time,      \* the time
  seen,      \* [node of the tree -> lastSeenNano]
  count,     \* nodeCount
  record,    \* [Request -> the state of an Insert]
  sweep,     \* the state of the Sweep that holds the root
  promised,  \* history: [node -> the time of the last record through it that ended in the tree]
  records,   \* number of records so far
  setBack,   \* history: nodes a slow record gave an older time than they had
  leaked     \* history: number of nodes counted but not, or no longer, in the tree

tree == <<time, seen, count, record, sweep, promised, records, setBack, leaked>>

With(f, x, y) == [z \in DOMAIN f \cup {x} |-> IF z = x THEN y ELSE f[z]]
Children(p) == {q \in DOMAIN seen : Len(q) = Len(p) + 1 /\ Front(q) = p}

NoRecord == [pc |-> "none", path |-> Root, depth |-> 0, now |-> 0, adrift |-> {}, extra |-> {}]
NoSweep == [pc |-> "none", at |-> Root, cutoff |-> 0, left |-> <<>>, removed |-> 0, late |-> FALSE, by |-> {}]
NodeOf(r) == SubSeq(record[r].path, 1, record[r].depth)
Below(p) == {q \in DOMAIN seen : IsPrefix(p, q)}

\* The nodes a sweep holds locked: those whose children it goes through.
Held ==
  IF sweep.pc = "none" THEN {}
  ELSE {SubSeq(sweep.at, 1, i) : i \in 0..(Len(sweep.at) - IF sweep.pc = "loop" THEN 0 ELSE 1)}

-----------------------------------------------------------------------------
\* Record, after a prompt was answered, but for an empty one.  A full tree is swept first.
StartRecord(r) ==
  /\ record[r].pc = "none" /\ records < MaxRecords
  /\ \E p \in Prompt \ {<<>>} :
       record' = [record EXCEPT ![r] = [NoRecord EXCEPT
                    !.pc = IF count > MaxNodes THEN "full" ELSE "walk", !.path = Chunks(p), !.now = time]]
  /\ records' = records + 1
  /\ UNCHANGED <<time, seen, count, sweep, promised, setBack, leaked>>

\* One turn of the loop of Insert: under the lock of the parent, the child is found or made.
WalkDown(r) ==
  LET child == SubSeq(record[r].path, 1, record[r].depth + 1)
      adrift == record[r].adrift # {}
      new == IF adrift THEN child \notin record[r].extra ELSE child \notin DOMAIN seen
      down == [record EXCEPT ![r].pc = "touch", ![r].depth = @ + 1]
  IN /\ record[r].pc = "walk" /\ (adrift \/ NodeOf(r) \notin Held)
     /\ record' = [q \in Request |->
                     IF adrift /\ record[q].adrift = record[r].adrift
                     THEN [down[q] EXCEPT !.extra = @ \cup {child}] ELSE down[q]]
     /\ seen' = IF new /\ ~adrift THEN With(seen, child, record[r].now) ELSE seen
     /\ count' = IF new THEN count + 1 ELSE count
     /\ leaked' = IF new /\ adrift THEN leaked + 1 ELSE leaked
     /\ UNCHANGED <<records, time, sweep, promised, setBack>>

Forget(gone) == [q \in DOMAIN promised \ gone |-> promised[q]]

\* The record ends in the tree: every node on its way was touched at its time.
Promise(r) ==
  promised' = IF record[r].adrift # {} \/ time - record[r].now > MaxAge
                 \/ record[r].depth < Len(record[r].path) THEN promised
              ELSE With(promised, record[r].path, record[r].now)

Onward(r) == IF record[r].depth = Len(record[r].path) THEN NoRecord ELSE [record[r] EXCEPT !.pc = "walk"]

\* Mutant of Touch: only a node that is new bears the time.
TouchNew(r) ==
  /\ record[r].pc = "touch"
  /\ record' = [record EXCEPT ![r] = Onward(r)] /\ Promise(r)
  /\ UNCHANGED <<records, time, seen, count, sweep, setBack, leaked>>

\* Outside the lock.  The time of a slow record may be older than that of the node.
Touch(r) ==
  LET p == NodeOf(r)
      inTree == record[r].adrift = {}
  IN /\ record[r].pc = "touch"
     /\ record' = [record EXCEPT ![r] = Onward(r)] /\ Promise(r)
     /\ seen' = IF inTree THEN [seen EXCEPT ![p] = record[r].now] ELSE seen
     /\ setBack' = IF inTree /\ seen[p] > record[r].now THEN setBack \cup {p} ELSE setBack
     /\ sweep' = IF inTree /\ sweep.pc = "drop" /\ sweep.at = p THEN [sweep EXCEPT !.late = TRUE] ELSE sweep
     /\ UNCHANGED <<records, time, count, leaked>>

-----------------------------------------------------------------------------
\* Sweep, of the ticker or of a record that found the tree full; the root stays locked.
BeginSweep(by, now) ==
  /\ sweep.pc = "none"
  /\ sweep' = [NoSweep EXCEPT !.pc = "loop", !.cutoff = IF now > MaxAge THEN now - MaxAge ELSE 0,
                              !.left = <<Children(Root)>>, !.by = by]
  /\ UNCHANGED <<records, time, seen, count, record, promised, setBack, leaked>>

SweepOnTick == BeginSweep({}, time)
SweepWhenFull(r) == record[r].pc = "full" /\ BeginSweep({r}, record[r].now)

\* pruneStale of a child, which is locked.
Descend ==
  LET todo == Last(sweep.left)
  IN /\ sweep.pc = "loop" /\ todo # {}
     /\ \E p \in todo :
          sweep' = [sweep EXCEPT !.at = p, !.left = Append(Front(@), todo \ {p}) \o <<Children(p)>>]
     /\ UNCHANGED <<records, time, seen, count, record, promised, setBack, leaked>>

\* The loop over the children of a node is over, and its lock let go.
Ascend ==
  /\ sweep.pc = "loop" /\ Last(sweep.left) = {} /\ sweep.at # Root
  /\ sweep' = [sweep EXCEPT !.pc = "empty", !.left = Front(@)]
  /\ UNCHANGED <<records, time, seen, count, record, promised, setBack, leaked>>

Keep == [sweep EXCEPT !.pc = "loop", !.at = Front(@), !.late = FALSE]

IsEmpty ==
  /\ sweep.pc = "empty"
  /\ sweep' = IF Children(sweep.at) = {} THEN [sweep EXCEPT !.pc = "stale"] ELSE Keep
  /\ UNCHANGED <<records, time, seen, count, record, promised, setBack, leaked>>

IsStale ==
  /\ sweep.pc = "stale"
  /\ sweep' = IF seen[sweep.at] < sweep.cutoff THEN [sweep EXCEPT !.pc = "drop"] ELSE Keep
  /\ UNCHANGED <<records, time, seen, count, record, promised, setBack, leaked>>

\* Whatever was done to the node since it was looked at goes with it.
Drop ==
  LET gone == Below(sweep.at)
      lost == {r \in Request : record[r].adrift = {} /\ record[r].depth > 0 /\ NodeOf(r) \in gone}
  IN /\ sweep.pc = "drop"
     /\ seen' = [q \in DOMAIN seen \ gone |-> seen[q]]
     /\ record' = [r \in Request |->
                     IF r \in lost THEN [record[r] EXCEPT !.adrift = lost, !.extra = gone] ELSE record[r]]
     /\ leaked' = leaked + Cardinality(gone) - 1
     /\ promised' = IF sweep.late \/ sweep.at \in setBack THEN Forget(gone) ELSE promised
     /\ setBack' = setBack \ gone
     /\ sweep' = [Keep EXCEPT !.removed = @ + 1]
     /\ UNCHANGED <<records, time, count>>

\* The count is put right at the end.
EndSweep ==
  /\ sweep.pc = "loop" /\ sweep.at = Root /\ Last(sweep.left) = {}
  /\ count' = count - sweep.removed
  /\ record' = [r \in Request |-> IF r \in sweep.by THEN [record[r] EXCEPT !.pc = "walk"] ELSE record[r]]
  /\ sweep' = NoSweep
  /\ UNCHANGED <<records, time, seen, promised, setBack, leaked>>

\* Promises of long ago are forgotten.
PassTime ==
  /\ time < LastTime
  /\ time' = time + 1
  /\ promised' = Forget({q \in DOMAIN promised : time' - promised[q] > MaxAge})
  /\ UNCHANGED <<records, seen, count, record, sweep, setBack, leaked>>

\* LookupDepth, of a request that sees no change meanwhile.
LookupDepth(prompt) ==
  LET path == Chunks(prompt)
      fresh(i) == SubSeq(path, 1, i) \in DOMAIN seen /\ time - seen[SubSeq(path, 1, i)] <= MaxAge
  IN Max({0} \cup {d \in 1..Len(path) : \A i \in 1..d : fresh(i)})

\* ChooseByKVDepth: the deepest first, the others in the order they had.
ChooseByKVDepth(candidates, depth) ==
  LET before(i) == {j \in DOMAIN candidates :
                      \/ depth[candidates[j]] > depth[candidates[i]]
                      \/ depth[candidates[j]] = depth[candidates[i]] /\ j < i}
  IN [k \in DOMAIN candidates |->
        candidates[CHOOSE i \in DOMAIN candidates : Cardinality(before(i)) = k - 1]]

TreeStep ==
  \/ \E r \in Request : StartRecord(r) \/ WalkDown(r) \/ Touch(r) \/ SweepWhenFull(r)
  \/ SweepOnTick \/ Descend \/ Ascend \/ IsEmpty \/ IsStale \/ Drop \/ EndSweep \/ PassTime

TreeInit ==
  /\ time = 1 /\ seen = <<>> /\ count = 0 /\ promised = <<>> /\ records = 0 /\ setBack = {} /\ leaked = 0
  /\ record = [r \in Request |-> NoRecord] /\ sweep = NoSweep

TreeTypeOK ==
  /\ time \in 1..LastTime /\ DOMAIN seen \subseteq Nodes /\ DOMAIN promised \subseteq Nodes /\ setBack \subseteq Nodes
  /\ \A p \in DOMAIN seen : seen[p] \in 1..LastTime
  /\ count \in Nat /\ leaked \in Nat /\ records \in 0..MaxRecords
  /\ \A r \in Request : /\ record[r].pc \in {"none", "full", "walk", "touch"}
                        /\ record[r].adrift \subseteq Request /\ record[r].extra \subseteq Nodes
  /\ sweep.pc \in {"none", "loop", "empty", "stale", "drop"} /\ sweep.at \in Nodes \cup {Root}

=============================================================================
