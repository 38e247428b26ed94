-------------------------- MODULE BatchJobs_proofs --------------------------
(***************************************************************************)
(* Proofs about the batch API, for any set of jobs, any providers and any  *)
(* number of restarts.                                                     *)
(*                                                                         *)
(* The argument: what a goroutine is about to write, and what the file     *)
(* has, is an earlier view of the jobs.  Told says what an earlier view    *)
(* still has right; it survives every step that only moves jobs forward    *)
(* (Forward), and a restart, which makes the view the present.             *)
(***************************************************************************)
EXTENDS BatchJobs, TLAPS

-----------------------------------------------------------------------------
Saving == {"save", "listed", "open"}

\* Where the goroutines of a job can be, and what the job is while they are there.
Stages(j) ==
  /\ pc[Submitter(j)] \in Saving \cup {"idle", "saved", "submitted"}
  /\ pc[Poller(j)] \in Saving \cup {"idle", "waiting"}
  /\ pc[Downloader(j)] \in Saving \cup {"idle", "fetching", "posting"}
  /\ pc[Submitter(j)] # "idle" => jobs[j] # NoJob /\ client[j] # "new"
  /\ pc[Submitter(j)] \in Saving \cup {"saved"} =>
       /\ jobs[j].status \in {"submitted", "failed"}
       /\ pc[Poller(j)] = "idle" /\ pc[Downloader(j)] = "idle"
  /\ pc[Poller(j)] # "idle" => jobs[j] # NoJob
  /\ pc[Downloader(j)] # "idle" => jobs[j] # NoJob /\ jobs[j].status = "completed"
  /\ pc[Downloader(j)] = "fetching" => remote[j] = "completed"
  /\ pc[Downloader(j)] = "posting" => j \in hook
  /\ j \in hook => pc[Downloader(j)] # "idle"
  /\ j \in posted => j \notin hook /\ Is(j, {"completed"})
  /\ client[j] = "new" => jobs[j] = NoJob /\ remote[j] = "none"

WatchedOnce(j) ==
  LET starting == IsLive(j) /\ pc[Submitter(j)] \in Saving \cup {"saved"}
      polling  == pc[Poller(j)] = "waiting"
  IN /\ ~(starting /\ polling)
     /\ j \in watchless => ~starting /\ ~polling
     /\ IsLive(j) <=> (starting \/ polling \/ j \in watchless)

\* A job with its goroutines.
Sound(j) ==
  /\ Stages(j)
  /\ WatchedOnce(j)
  /\ Honest(jobs[j], j)
  /\ j \in output => remote[j] = "completed"

\* What an earlier view r of job j still has right.
Told(r, j) ==
  r # NoJob =>
    /\ jobs[j] # NoJob
    /\ r.status \in Ended => jobs[j].status = r.status
    /\ Honest(r, j)

Types ==
  /\ jobs \in Contents
  /\ file \in Contents \cup {Empty, Mixed}
  /\ output \subseteq Job /\ hook \subseteq Job /\ posted \subseteq Job /\ watchless \subseteq Job
  /\ remote \in [Job -> {"none", "running", "unknown", "nameless", "completed", "empty", "failed"}]
  /\ client \in [Job -> {"new", "waiting", "told", "refused", "broken"}]
  /\ pc \in [Thread -> {"idle", "save", "listed", "open", "saved", "submitted", "waiting",
                        "fetching", "posting"}]
  /\ listed \in [Thread -> SUBSET Job]
  /\ text \in [Thread -> Contents \cup {None}]
  /\ restarts \in 0..MaxRestarts

\* What the goroutines that save have in hand, and what the file has.
Snapshots ==
  /\ \A t \in Thread :
       /\ \A j \in listed[t] : jobs[j] # NoJob
       /\ pc[t] = "open" => text[t] # None /\ \A j \in Job : Told(text[t][j], j)
       /\ pc[t] # "open" => text[t] = None
  /\ \A j \in Job : Told(OnDisk[j], j)

IInv ==
  /\ Types
  /\ \A j \in Job : Sound(j)
  /\ Snapshots

-----------------------------------------------------------------------------
LEMMA Threads ==
  ASSUME NEW j \in Job
  PROVE  /\ Submitter(j) \in Thread /\ Poller(j) \in Thread /\ Downloader(j) \in Thread
         /\ \A k \in Job :
              /\ Submitter(j) # Poller(k) /\ Submitter(j) # Downloader(k) /\ Poller(j) # Downloader(k)
              /\ Submitter(j) = Submitter(k) => j = k
              /\ Poller(j) = Poller(k) => j = k
              /\ Downloader(j) = Downloader(k) => j = k
         /\ Downloader(j)[2] = j
  BY DEF Thread, Submitter, Poller, Downloader

LEMMA Kinds ==
  ASSUME NEW t \in Thread
  PROVE  \E j \in Job : t \in {Submitter(j), Poller(j), Downloader(j)} /\ t[2] = j
  BY DEF Thread, Submitter, Poller, Downloader

LEMMA NoJobIsNoRecord == NoJob \notin Record
  BY MarkAssumption DEF MarkAssumption

LEMMA DiskTyped ==
  ASSUME Types
  PROVE  OnDisk \in Contents
  BY DEF Types, OnDisk, NoJobs, Contents

LEMMA InitInv == Init => IInv
  <1> SUFFICES ASSUME Init PROVE IInv
      OBVIOUS
  <1>1. Types
    BY BatchAssumption DEF Init, Types, NoJobs, Idle, Contents, BatchAssumption
  <1>2. ASSUME NEW j \in Job PROVE Sound(j)
    BY Threads DEF Init, Sound, Stages, Is, WatchedOnce, Honest, IsLive, Is, NoJobs, Idle, Saving
  <1>3. OnDisk = NoJobs
    BY DEF Init, OnDisk
  <1>4. Snapshots
    BY <1>3 DEF Init, Snapshots, Told, NoJobs, Idle
  <1> QED BY <1>1, <1>2, <1>4 DEF IInv

-----------------------------------------------------------------------------
(* Moving jobs forward.                                                    *)

\* A step keeps the job, its end if it has ended, and what the provider said.
Forward(j) ==
  jobs[j] # NoJob =>
    /\ jobs'[j] # NoJob
    /\ jobs[j].status \in Ended => jobs'[j].status = jobs[j].status
    /\ \/ remote'[j] = remote[j]
       \/ remote[j] = "running" /\ remote'[j] \in {"completed", "empty", "failed"}

\* Then earlier views stay right.
LEMMA StillSnapshots ==
  ASSUME IInv, \A j \in Job : Forward(j), UNCHANGED <<file, listed, text>>,
         \A t \in Thread : pc'[t] = "open" <=> pc[t] = "open"
  PROVE  Snapshots'
  <1>1. ASSUME NEW t \in Thread, NEW j \in listed[t] PROVE jobs'[j] # NoJob
    BY <1>1 DEF IInv, Types, Snapshots, Forward
  <1>2. ASSUME NEW t \in Thread, pc[t] = "open", NEW j \in Job PROVE Told(text[t][j], j)'
    <2> DEFINE r == text[t][j]
    <2>1. Told(r, j)
      BY <1>2 DEF IInv, Snapshots
    <2>2. r' = r
      OBVIOUS
    <2>3. Told(r, j)'
      <3> HIDE DEF r
      <3> QED BY <2>1, <2>2 DEF Told, Forward, Honest, Live, Ended
    <2> QED BY <2>3
  <1>3. ASSUME NEW j \in Job PROVE Told(OnDisk[j], j)'
    <2> DEFINE r == OnDisk[j]
    <2>1. Told(r, j)
      BY DEF IInv, Snapshots
    <2>2. r' = r
      BY DEF OnDisk
    <2>3. Told(r, j)'
      <3> HIDE DEF r
      <3> QED BY <2>1, <2>2 DEF Told, Forward, Honest, Live, Ended
    <2> QED BY <2>3
  <1> QED BY <1>1, <1>2, <1>3 DEF Snapshots, IInv

\* A job a step does not touch.
LEMMA Untouched ==
  ASSUME NEW j \in Job, Sound(j),
         jobs'[j] = jobs[j], remote'[j] = remote[j], client'[j] = client[j],
         pc'[Submitter(j)] = pc[Submitter(j)], pc'[Poller(j)] = pc[Poller(j)],
         pc'[Downloader(j)] = pc[Downloader(j)],
         j \in output' <=> j \in output, j \in hook' <=> j \in hook,
         j \in posted' <=> j \in posted, j \in watchless' <=> j \in watchless
  PROVE  Sound(j)'
  BY DEF Sound, Stages, Is, WatchedOnce, Honest, IsLive, Is, Submitter, Poller, Downloader
-----------------------------------------------------------------------------
(* saveJobs.                                                               *)

\* A goroutine that goes on with its saving leaves every job sound.
LEMMA SavingOn ==
  ASSUME IInv, NEW t \in Thread, NEW p \in Saving, pc[t] \in Saving, pc' = [pc EXCEPT ![t] = p],
         UNCHANGED <<jobs, output, remote, client, hook, posted, watchless>>,
         NEW j \in Job
  PROVE  Sound(j)'
  <1>1. Sound(j)
    BY DEF IInv
  <1>2. \A q \in {Submitter(j), Poller(j), Downloader(j)} :
          pc'[q] = pc[q] \/ (pc[q] \in Saving /\ pc'[q] \in Saving)
    BY Threads DEF IInv, Types
  <1>3. Stages(j)'
    BY <1>1, <1>2 DEF Sound, Stages, Is, Saving, Submitter, Poller, Downloader
  <1>4. WatchedOnce(j)'
    BY <1>1, <1>2 DEF Sound, WatchedOnce, IsLive, Is, Saving, Submitter, Poller
  <1> QED BY <1>1, <1>3, <1>4 DEF Sound, Honest

LEMMA ListJobsInv ==
  ASSUME IInv, NEW t \in Thread, ListJobs(t)
  PROVE  IInv'
  <1>1. Types'
    BY DEF IInv, Types, ListJobs, Goto
  <1>2. ASSUME NEW j \in Job PROVE Sound(j)'
    BY SavingOn DEF ListJobs, Goto, Saving
  <1>3. OnDisk' = OnDisk
    BY DEF ListJobs, OnDisk
  <1>4. ASSUME NEW q \in Thread, NEW j \in listed'[q] PROVE jobs'[j] # NoJob
    BY <1>4 DEF IInv, Types, Snapshots, ListJobs
  <1>5. ASSUME NEW q \in Thread
        PROVE  /\ pc'[q] = "open" => text[q] # None /\ \A j \in Job : Told(text[q][j], j)
               /\ pc'[q] # "open" => text[q] = None
    BY DEF IInv, Types, Snapshots, ListJobs, Goto
  <1>6. Snapshots'
    BY <1>3, <1>4, <1>5 DEF IInv, Snapshots, Told, Honest, ListJobs
  <1> QED BY <1>1, <1>2, <1>6 DEF IInv

LEMMA TruncateInv ==
  ASSUME IInv, NEW t \in Thread, Truncate(t)
  PROVE  IInv'
  <1> PICK torn \in SUBSET {j \in listed[t] : pc[Poller(j)] = "waiting"} :
        text' = [text EXCEPT ![t] =
                   [j \in Job |-> IF j \notin listed[t] THEN NoJob
                                  ELSE IF j \in torn THEN [jobs[j] EXCEPT !.status = "torn"]
                                  ELSE jobs[j]]]
      BY DEF Truncate
  <1> DEFINE new == [j \in Job |-> IF j \notin listed[t] THEN NoJob
                                   ELSE IF j \in torn THEN [jobs[j] EXCEPT !.status = "torn"]
                                   ELSE jobs[j]]
  <1>1. ASSUME NEW j \in Job
        PROVE  new[j] \in Record \cup {NoJob} /\ Told(new[j], j)
    <2>1. CASE j \notin listed[t]
      BY <2>1 DEF Told
    <2>2. CASE j \in listed[t]
      <3>1. jobs[j] \in Record /\ jobs[j] # NoJob
        BY <2>2 DEF IInv, Types, Snapshots, Contents
      <3>2. Honest(jobs[j], j)
        BY DEF IInv, Sound
      <3>3. CASE j \in torn
        BY <2>2, <3>1, <3>3 DEF Told, Honest, Record, Live, Ended
      <3>4. CASE j \notin torn
        BY <2>2, <3>1, <3>2, <3>4 DEF Told
      <3> QED BY <3>3, <3>4
    <2> QED BY <2>1, <2>2
  <1>2. new \in Contents /\ new # None
    <2>1. new \in Contents
      BY <1>1 DEF Contents
    <2> QED BY <2>1, MarkAssumption DEF MarkAssumption
  <1>3. text' = [text EXCEPT ![t] = new]
    OBVIOUS
  <1> HIDE DEF new
  <1>4. Types'
    BY <1>2, <1>3 DEF IInv, Types, Truncate, Goto
  <1>5. ASSUME NEW j \in Job PROVE Sound(j)'
    BY SavingOn DEF Truncate, Goto, Saving
  <1>6. OnDisk' = NoJobs
    BY DEF Truncate, OnDisk
  <1>7. ASSUME NEW q \in Thread
        PROVE  /\ \A j \in listed'[q] : jobs'[j] # NoJob
               /\ pc'[q] = "open" => text'[q] # None /\ \A j \in Job : Told(text'[q][j], j)
               /\ pc'[q] # "open" => text'[q] = None
    <2>1. CASE q = t
      BY <1>1, <1>2, <1>3, <2>1 DEF IInv, Types, Truncate, Goto
    <2>2. CASE q # t
      BY <1>3, <2>2 DEF IInv, Types, Snapshots, Truncate, Goto
    <2> QED BY <2>1, <2>2
  <1>8. Snapshots'
    BY <1>6, <1>7 DEF Snapshots, Told, Honest, NoJobs, Truncate
  <1> QED BY <1>4, <1>5, <1>8 DEF IInv

\* The last step of a save, whatever comes next.
LEMMA Written ==
  ASSUME IInv, NEW t \in Thread, NEW next \in {"saved", "idle", "posting"}, Write(t, next),
         UNCHANGED <<jobs, remote>>
  PROVE  /\ file' \in Contents \cup {Empty, Mixed}
         /\ text' \in [Thread -> Contents \cup {None}]
         /\ Snapshots'
  <1>1. text[t] \in Contents /\ \A j \in Job : Told(text[t][j], j)
    BY DEF IInv, Types, Snapshots, Write
  <1>2. file' \in {text[t], Mixed}
    BY DEF Write
  <1>3. text' = [text EXCEPT ![t] = None] /\ pc' = [pc EXCEPT ![t] = next]
    BY DEF Write, Goto
  <1>4. ASSUME NEW j \in Job PROVE Told(OnDisk'[j], j)
    <2>1. OnDisk' \in {text[t], NoJobs}
      BY <1>2 DEF OnDisk
    <2> QED BY <1>1, <2>1 DEF NoJobs, Told
  <1>5. ASSUME NEW q \in Thread
        PROVE  /\ \A j \in listed'[q] : jobs[j] # NoJob
               /\ pc'[q] = "open" => text'[q] # None /\ \A j \in Job : Told(text'[q][j], j)
               /\ pc'[q] # "open" => text'[q] = None
    <2>1. CASE q = t
      BY <1>3, <2>1 DEF IInv, Types, Snapshots, Write
    <2>2. CASE q # t
      BY <1>3, <2>2 DEF IInv, Types, Snapshots, Write
    <2> QED BY <2>1, <2>2
  <1>6. Snapshots'
    BY <1>4, <1>5 DEF Snapshots, Told, Honest
  <1> QED BY <1>1, <1>2, <1>3, <1>6 DEF IInv, Types

-----------------------------------------------------------------------------
(* Steps of one job.                                                       *)

\* The step touches no other job.
Alone(j) ==
  \A k \in Job \ {j} :
    /\ jobs'[k] = jobs[k] /\ remote'[k] = remote[k] /\ client'[k] = client[k]
    /\ \A t \in {Submitter(k), Poller(k), Downloader(k)} : pc'[t] = pc[t]
    /\ k \in output' <=> k \in output
    /\ k \in hook' <=> k \in hook
    /\ k \in posted' <=> k \in posted
    /\ k \in watchless' <=> k \in watchless

LEMMA AllSound ==
  ASSUME IInv, NEW j \in Job, Alone(j), Sound(j)'
  PROVE  \A k \in Job : Sound(k)'
  <1> SUFFICES ASSUME NEW k \in Job, k # j PROVE Sound(k)'
      OBVIOUS
  <1>1. Sound(k)
    BY DEF IInv
  <1> QED BY <1>1, Untouched DEF Alone

LEMMA JobStep ==
  ASSUME IInv, NEW j \in Job, Types', Alone(j), Forward(j), Sound(j)',
         UNCHANGED <<file, listed, text>>,
         \A t \in Thread : pc'[t] = "open" <=> pc[t] = "open"
  PROVE  IInv'
  <1>1. \A k \in Job : Forward(k)
    BY DEF Alone, Forward
  <1>2. Snapshots'
    BY <1>1, StillSnapshots
  <1> QED BY <1>2, AllSound DEF IInv

LEMMA SubmitInv ==
  ASSUME IInv, NEW j \in Job, NEW outcome \in Outcome, Submit(j, outcome)
  PROVE  IInv'
  <1> DEFINE new == [status |-> AfterSubmit(outcome), cb |-> FALSE]
  <1>1. new \in Record /\ new # NoJob
    <2>1. \A s \in Live \cup Ended : [status |-> s, cb |-> FALSE] \in Record
      BY DEF Record
    <2>2. AfterSubmit(outcome) \in Live \cup Ended
      BY DEF AfterSubmit, Live, Ended
    <2> QED BY <2>1, <2>2, NoJobIsNoRecord
  <1>2. /\ Sound(j) /\ client[j] = "new" /\ jobs[j] = NoJob
        /\ pc[Submitter(j)] = "idle" /\ pc[Poller(j)] = "idle" /\ pc[Downloader(j)] = "idle"
        /\ j \notin hook /\ j \notin posted
    BY DEF IInv, Sound, Stages, Is, Submit
  <1>3. Types'
    BY <1>1, Threads DEF IInv, Types, Submit, Goto, Contents, Outcome
  <1>4. Alone(j)
    BY Threads DEF Alone, IInv, Types, Submit, Goto, Contents
  <1>5. Forward(j)
    BY <1>2 DEF Forward
  <1>6. /\ jobs'[j] = new /\ remote'[j] = outcome /\ client'[j] = "waiting"
        /\ pc'[Submitter(j)] = "save" /\ pc'[Poller(j)] = "idle" /\ pc'[Downloader(j)] = "idle"
    BY <1>2, Threads DEF IInv, Types, Submit, Goto, Contents
  <1>7. Sound(j)'
    <2>1. Stages(j)'
      BY <1>1, <1>2, <1>6 DEF Stages, Is, Saving, AfterSubmit, Submit, Submitter, Poller, Downloader
    <2>2. j \notin watchless
      BY <1>2 DEF Sound, WatchedOnce, IsLive, Is
    <2>3. WatchedOnce(j)'
      BY <1>1, <1>6, <2>2 DEF WatchedOnce, IsLive, Is, Saving, Live, Submit, Submitter, Poller
    <2>4. j \notin output
      BY <1>2 DEF Sound, Stages, Is
    <2> QED BY <1>1, <1>6, <2>1, <2>3, <2>4 DEF Sound, Honest, Live, AfterSubmit, Outcome, Submit
  <1>8. \A t \in Thread : pc'[t] = "open" <=> pc[t] = "open"
    BY <1>2 DEF IInv, Types, Submit, Goto
  <1> QED BY <1>3, <1>4, <1>5, <1>7, <1>8, JobStep DEF Submit

LEMMA StartPollerInv ==
  ASSUME IInv, NEW j \in Job, StartPoller(j)
  PROVE  IInv'
  <1>1. Sound(j) /\ pc[Submitter(j)] = "saved"
    BY DEF IInv, StartPoller
  <1>2. /\ pc[Poller(j)] = "idle" /\ pc[Downloader(j)] = "idle"
        /\ jobs[j] # NoJob /\ jobs[j].status \in {"submitted", "failed"}
    BY <1>1 DEF Sound, Stages, Is
  <1>3. Types'
    BY <1>2, Threads DEF IInv, Types, StartPoller
  <1>4. Alone(j)
    BY Threads DEF Alone, IInv, Types, StartPoller
  <1>5. Forward(j)
    BY DEF Forward, StartPoller
  <1>6. /\ pc'[Submitter(j)] = "submitted" /\ pc'[Downloader(j)] = "idle"
        /\ pc'[Poller(j)] = IF jobs[j].status = "submitted" THEN "waiting" ELSE "idle"
    BY <1>2, Threads DEF IInv, Types, StartPoller
  <1>7. Sound(j)'
    <2>1. Stages(j)'
      BY <1>1, <1>2, <1>6 DEF Sound, Stages, Is, Saving, StartPoller, Submitter, Poller, Downloader
    <2>2. WatchedOnce(j)'
      BY <1>1, <1>2, <1>6 DEF Sound, WatchedOnce, IsLive, Is, Saving, Live, StartPoller, Submitter, Poller
    <2> QED BY <1>1, <2>1, <2>2 DEF Sound, Honest, StartPoller
  <1>8. \A t \in Thread : pc'[t] = "open" <=> pc[t] = "open"
    BY <1>1, <1>2 DEF IInv, Types, StartPoller
  <1> QED BY <1>3, <1>4, <1>5, <1>7, <1>8, JobStep DEF StartPoller

LEMMA AcknowledgeInv ==
  ASSUME IInv, NEW j \in Job, Acknowledge(j)
  PROVE  IInv'
  <1>1. Sound(j) /\ pc[Submitter(j)] = "submitted"
    BY DEF IInv, Acknowledge
  <1>2. jobs[j] # NoJob /\ jobs[j] \in Record
    BY <1>1 DEF Sound, Stages, Is, IInv, Types, Contents
  <1>3. /\ jobs'[j] \in Record /\ jobs'[j].status = jobs[j].status
        /\ \A k \in Job \ {j} : jobs'[k] = jobs[k]
        /\ jobs' \in Contents
    <2> DEFINE r == [jobs[j] EXCEPT !.cb = j \in WithCallback]
    <2>1. \A b \in BOOLEAN : [jobs[j] EXCEPT !.cb = b] \in Record
                             /\ [jobs[j] EXCEPT !.cb = b].status = jobs[j].status
      BY <1>2 DEF Record
    <2>2. r \in Record /\ r.status = jobs[j].status
      <3>1. (j \in WithCallback) \in BOOLEAN
        OBVIOUS
      <3> QED BY <2>1, <3>1, Zenon
    <2>3. jobs' = jobs \/ jobs' = [jobs EXCEPT ![j] = r]
      BY <1>2 DEF Acknowledge, IInv, Types, Contents
    <2>4. jobs \in Contents
      BY DEF IInv, Types
    <2> HIDE DEF r
    <2> QED BY <1>2, <2>2, <2>3, <2>4 DEF Contents
  <1>4. client'[j] # "new" /\ client' \in [Job -> {"new", "waiting", "told", "refused", "broken"}]
        /\ \A k \in Job \ {j} : client'[k] = client[k]
    BY DEF Acknowledge, IInv, Types
  <1>5. Types'
    BY <1>3, <1>4, Threads DEF IInv, Types, Acknowledge, Goto
  <1>6. Alone(j)
    BY <1>3, <1>4, Threads DEF Alone, IInv, Types, Acknowledge, Goto
  <1>7. Forward(j)
    BY <1>3, NoJobIsNoRecord DEF Forward, Acknowledge
  <1>8. /\ pc'[Submitter(j)] = "idle" /\ pc'[Poller(j)] = pc[Poller(j)]
        /\ pc'[Downloader(j)] = pc[Downloader(j)]
    BY Threads DEF IInv, Types, Acknowledge, Goto
  <1>9. Sound(j)'
    <2>1. Stages(j)'
      BY <1>1, <1>2, <1>3, <1>4, <1>8, NoJobIsNoRecord
         DEF Sound, Stages, Is, Saving, Acknowledge, Submitter, Poller, Downloader
    <2>2. WatchedOnce(j)'
      BY <1>1, <1>2, <1>3, <1>8, NoJobIsNoRecord
         DEF Sound, WatchedOnce, IsLive, Is, Saving, Acknowledge, Submitter, Poller
    <2> QED BY <1>1, <1>2, <1>3, <2>1, <2>2 DEF Sound, Honest, Acknowledge
  <1>10. \A t \in Thread : pc'[t] = "open" <=> pc[t] = "open"
    BY <1>1 DEF IInv, Types, Acknowledge, Goto
  <1> QED BY <1>5, <1>6, <1>7, <1>9, <1>10, JobStep DEF Acknowledge

-----------------------------------------------------------------------------
(* The poller.                                                             *)

\* What SetStatus does to a job that is there.
LEMMA StatusSet ==
  ASSUME IInv, NEW j \in Job, jobs[j] # NoJob, NEW s \in Live \cup Ended, SetStatus(j, s)
  PROVE  /\ jobs' \in Contents
         /\ jobs'[j] # NoJob /\ jobs'[j].status = s
         /\ \A k \in Job \ {j} : jobs'[k] = jobs[k]
  <1> DEFINE r == [jobs[j] EXCEPT !.status = s]
  <1>1. jobs \in Contents /\ jobs[j] \in Record
    BY DEF IInv, Types, Contents
  <1>2. r \in Record /\ r.status = s
    BY <1>1 DEF Record
  <1>3. jobs' = [jobs EXCEPT ![j] = r]
    BY DEF SetStatus
  <1> HIDE DEF r
  <1> QED BY <1>1, <1>2, <1>3, NoJobIsNoRecord DEF Contents

\* A poller that waits has its job to itself.
LEMMA Waiting ==
  ASSUME IInv, NEW j \in Job, pc[Poller(j)] = "waiting"
  PROVE  /\ Sound(j)
         /\ jobs[j] # NoJob /\ jobs[j].status \in Live
         /\ remote[j] \notin {"none", "unknown"}
         /\ pc[Submitter(j)] \in {"idle", "submitted"} /\ pc[Downloader(j)] = "idle"
         /\ client[j] # "new"
         /\ j \notin watchless /\ j \notin hook /\ j \notin posted
  <1>1. Sound(j)
    BY DEF IInv
  <1>2. jobs[j] # NoJob /\ jobs[j].status \in Live
    BY <1>1 DEF Sound, WatchedOnce, IsLive, Is
  <1>3. remote[j] \notin {"none", "unknown"}
    BY <1>1, <1>2 DEF Sound, Honest
  <1> QED BY <1>1, <1>2, <1>3 DEF Sound, Stages, Is, WatchedOnce, Saving, Live

LEMMA PollRunningInv ==
  ASSUME IInv, NEW j \in Job, PollRunning(j)
  PROVE  IInv'
  <1>1. pc[Poller(j)] = "waiting"
    BY DEF PollRunning, Checked
  <1>2. /\ jobs' \in Contents /\ jobs'[j] # NoJob /\ jobs'[j].status = "processing"
        /\ \A k \in Job \ {j} : jobs'[k] = jobs[k]
    BY <1>1, Waiting, StatusSet DEF PollRunning, Live
  <1>3. Types'
    BY <1>2 DEF IInv, Types, PollRunning
  <1>4. Alone(j)
    BY <1>2 DEF Alone, PollRunning
  <1>5. Forward(j)
    BY <1>1, <1>2, Waiting DEF Forward, PollRunning, Live, Ended
  <1>6. Sound(j)'
    <2>1. Stages(j)'
      BY <1>1, <1>2, Waiting DEF Sound, Stages, Is, Saving, PollRunning, Submitter, Poller, Downloader
    <2>2. WatchedOnce(j)'
      BY <1>1, <1>2, Waiting DEF WatchedOnce, IsLive, Is, Live, Saving, PollRunning, Submitter, Poller
    <2> QED BY <1>1, <1>2, <2>1, <2>2, Waiting DEF Sound, Honest, PollRunning
  <1> QED BY <1>3, <1>4, <1>5, <1>6, JobStep DEF PollRunning

LEMMA PollCompletedInv ==
  ASSUME IInv, NEW j \in Job, PollCompleted(j)
  PROVE  IInv'
  <1>1. pc[Poller(j)] = "waiting" /\ remote[j] \in {"completed", "empty"}
    BY DEF PollCompleted, Checked
  <1>2. /\ jobs' \in Contents /\ jobs'[j] # NoJob /\ jobs'[j].status = "completed"
        /\ \A k \in Job \ {j} : jobs'[k] = jobs[k]
    BY <1>1, Waiting, StatusSet DEF PollCompleted, Ended
  <1>3. /\ pc'[Poller(j)] = "save" /\ pc'[Submitter(j)] = pc[Submitter(j)]
        /\ pc'[Downloader(j)] \in {"idle", "fetching", "posting"}
        /\ pc'[Downloader(j)] = "fetching" => remote[j] = "completed"
        /\ pc'[Downloader(j)] = "posting" => j \in hook'
        /\ j \in hook' => pc'[Downloader(j)] # "idle"
        /\ j \notin posted'
    BY <1>1, Waiting, Threads DEF IInv, Types, PollCompleted
  <1>4. Types'
    BY <1>2, Threads DEF IInv, Types, PollCompleted
  <1>5. Alone(j)
    BY <1>2, Threads DEF Alone, IInv, Types, PollCompleted
  <1>6. Forward(j)
    BY <1>1, <1>2, Waiting DEF Forward, PollCompleted, Live, Ended
  <1>7. Sound(j)'
    <2>1. Stages(j)'
      BY <1>1, <1>2, <1>3, Waiting
         DEF Sound, Stages, Is, Saving, PollCompleted, Submitter, Poller, Downloader
    <2>2. WatchedOnce(j)'
      BY <1>1, <1>2, <1>3, Waiting
         DEF Sound, WatchedOnce, IsLive, Is, Live, Saving, PollCompleted, Submitter, Poller
    <2> QED BY <1>1, <1>2, <2>1, <2>2, Waiting DEF Sound, Honest, Live, PollCompleted
  <1>8. \A t \in Thread : pc'[t] = "open" <=> pc[t] = "open"
    BY <1>1, Waiting, Threads DEF IInv, Types, PollCompleted
  <1> QED BY <1>4, <1>5, <1>6, <1>7, <1>8, JobStep DEF PollCompleted

\* The two ways a poller ends without results.
LEMMA PollEnds ==
  ASSUME IInv, NEW j \in Job, NEW s \in {"failed", "expired"}, NEW p \in {"save", "idle"},
         pc[Poller(j)] = "waiting", s = "failed" => remote[j] = "failed",
         SetStatus(j, s), Goto(Poller(j), p),
         UNCHANGED <<file, output, remote, client, listed, text, hook, posted, watchless, restarts>>
  PROVE  IInv'
  <1>1. /\ jobs' \in Contents /\ jobs'[j] # NoJob /\ jobs'[j].status = s
        /\ \A k \in Job \ {j} : jobs'[k] = jobs[k]
    BY Waiting, StatusSet DEF Ended
  <1>2. /\ pc'[Poller(j)] = p /\ pc'[Submitter(j)] = pc[Submitter(j)]
        /\ pc'[Downloader(j)] = "idle"
    BY Waiting, Threads DEF IInv, Types, Goto
  <1>3. Types'
    BY <1>1 DEF IInv, Types, Goto
  <1>4. Alone(j)
    BY <1>1, Threads DEF Alone, IInv, Types, Goto
  <1>5. Forward(j)
    BY <1>1, Waiting DEF Forward, Live, Ended
  <1>6. Sound(j)'
    <2>1. Stages(j)'
      BY <1>1, <1>2, Waiting DEF Sound, Stages, Is, Saving, Submitter, Poller, Downloader
    <2>2. WatchedOnce(j)'
      BY <1>1, <1>2, Waiting DEF Sound, WatchedOnce, IsLive, Is, Live, Saving, Submitter, Poller
    <2> QED BY <1>1, <2>1, <2>2, Waiting DEF Sound, Honest, Live
  <1>7. \A t \in Thread : pc'[t] = "open" <=> pc[t] = "open"
    BY Threads DEF IInv, Types, Goto
  <1> QED BY <1>3, <1>4, <1>5, <1>6, <1>7, JobStep

-----------------------------------------------------------------------------
(* The other end of a save, the download, and the provider.                *)

LEMMA SubmitSavedInv ==
  ASSUME IInv, NEW j \in Job, SubmitSaved(j)
  PROVE  IInv'
  <1>1. pc[Submitter(j)] = "open" /\ pc' = [pc EXCEPT ![Submitter(j)] = "saved"]
    BY DEF SubmitSaved, Write, Goto
  <1>2. /\ file' \in Contents \cup {Empty, Mixed} /\ text' \in [Thread -> Contents \cup {None}]
        /\ Snapshots'
    BY Written, Threads DEF SubmitSaved
  <1>3. Types'
    BY <1>1, <1>2 DEF IInv, Types, SubmitSaved, Write
  <1>4. Alone(j)
    BY <1>1, Threads DEF Alone, IInv, Types, SubmitSaved
  <1>5. /\ pc'[Submitter(j)] = "saved" /\ pc'[Poller(j)] = pc[Poller(j)]
        /\ pc'[Downloader(j)] = pc[Downloader(j)]
    BY <1>1, Threads DEF IInv, Types
  <1>6. Sound(j)'
    <2>1. Sound(j)
      BY DEF IInv
    <2>2. Stages(j)'
      BY <1>1, <1>5, <2>1 DEF Sound, Stages, Is, Saving, SubmitSaved, Submitter, Poller, Downloader
    <2>3. WatchedOnce(j)'
      BY <1>1, <1>5, <2>1 DEF Sound, WatchedOnce, IsLive, Is, Saving, SubmitSaved, Submitter, Poller
    <2> QED BY <2>1, <2>2, <2>3 DEF Sound, Honest, SubmitSaved
  <1> QED BY <1>2, <1>3, <1>4, <1>6, AllSound DEF IInv

LEMMA PollSavedInv ==
  ASSUME IInv, NEW j \in Job, PollSaved(j)
  PROVE  IInv'
  <1>1. pc[Poller(j)] = "open" /\ pc' = [pc EXCEPT ![Poller(j)] = "idle"]
    BY DEF PollSaved, Write, Goto
  <1>2. /\ file' \in Contents \cup {Empty, Mixed} /\ text' \in [Thread -> Contents \cup {None}]
        /\ Snapshots'
    BY Written, Threads DEF PollSaved
  <1>3. Types'
    BY <1>1, <1>2 DEF IInv, Types, PollSaved, Write
  <1>4. Alone(j)
    BY <1>1, Threads DEF Alone, IInv, Types, PollSaved
  <1>5. /\ pc'[Poller(j)] = "idle" /\ pc'[Submitter(j)] = pc[Submitter(j)]
        /\ pc'[Downloader(j)] = pc[Downloader(j)]
    BY <1>1, Threads DEF IInv, Types
  <1>6. Sound(j)'
    <2>1. Sound(j)
      BY DEF IInv
    <2>2. Stages(j)'
      BY <1>1, <1>5, <2>1 DEF Sound, Stages, Is, Saving, PollSaved, Submitter, Poller, Downloader
    <2>3. WatchedOnce(j)'
      BY <1>1, <1>5, <2>1 DEF Sound, WatchedOnce, IsLive, Is, Saving, PollSaved, Submitter, Poller
    <2> QED BY <2>1, <2>2, <2>3 DEF Sound, Honest, PollSaved
  <1> QED BY <1>2, <1>3, <1>4, <1>6, AllSound DEF IInv

LEMMA DownloadSavedInv ==
  ASSUME IInv, NEW j \in Job, DownloadSaved(j)
  PROVE  IInv'
  <1> DEFINE next == IF j \in hook THEN "posting" ELSE "idle"
  <1>1. pc[Downloader(j)] = "open" /\ pc' = [pc EXCEPT ![Downloader(j)] = next]
    BY DEF DownloadSaved, Write, Goto
  <1>2. /\ file' \in Contents \cup {Empty, Mixed} /\ text' \in [Thread -> Contents \cup {None}]
        /\ Snapshots'
    <2>1. next \in {"saved", "idle", "posting"} /\ Write(Downloader(j), next)
      BY DEF DownloadSaved
    <2> QED BY <2>1, Written, Threads DEF DownloadSaved
  <1>3. Types'
    BY <1>1, <1>2 DEF IInv, Types, DownloadSaved, Write
  <1>4. Alone(j)
    BY <1>1, Threads DEF Alone, IInv, Types, DownloadSaved
  <1>5. /\ pc'[Downloader(j)] = next /\ pc'[Submitter(j)] = pc[Submitter(j)]
        /\ pc'[Poller(j)] = pc[Poller(j)]
    BY <1>1, Threads DEF IInv, Types
  <1>6. Sound(j)'
    <2>1. Sound(j)
      BY DEF IInv
    <2>2. Stages(j)'
      BY <1>1, <1>5, <2>1 DEF Sound, Stages, Is, Saving, DownloadSaved, Submitter, Poller, Downloader
    <2>3. WatchedOnce(j)'
      BY <1>1, <1>5, <2>1 DEF Sound, WatchedOnce, IsLive, Is, Saving, DownloadSaved, Submitter, Poller
    <2> QED BY <2>1, <2>2, <2>3 DEF Sound, Honest, DownloadSaved
  <1> QED BY <1>2, <1>3, <1>4, <1>6, AllSound DEF IInv

LEMMA DownloadInv ==
  ASSUME IInv, NEW j \in Job, Download(j)
  PROVE  IInv'
  <1>1. Sound(j) /\ pc[Downloader(j)] = "fetching"
    BY DEF IInv, Download
  <1>2. remote[j] = "completed" /\ client[j] # "new"
    BY <1>1 DEF Sound, Stages, Is
  <1>3. \A k \in Job : k \in output' => k \in output \/ k = j
    BY DEF Download
  <1>4. Types'
    BY <1>3 DEF IInv, Types, Download, Goto
  <1>5. Alone(j)
    BY Threads DEF Alone, IInv, Types, Download, Goto
  <1>6. Forward(j)
    BY DEF Forward, Download
  <1>7. /\ pc'[Downloader(j)] = "save" /\ pc'[Submitter(j)] = pc[Submitter(j)]
        /\ pc'[Poller(j)] = pc[Poller(j)]
    BY Threads DEF IInv, Types, Download, Goto
  <1>8. Sound(j)'
    <2>1. Stages(j)'
      BY <1>1, <1>7 DEF Sound, Stages, Is, Saving, Download, Submitter, Poller, Downloader
    <2>2. WatchedOnce(j)'
      BY <1>1, <1>7 DEF Sound, WatchedOnce, IsLive, Is, Saving, Download, Submitter, Poller
    <2> QED BY <1>1, <1>2, <2>1, <2>2 DEF Sound, Honest, Download
  <1>9. \A t \in Thread : pc'[t] = "open" <=> pc[t] = "open"
    BY <1>1 DEF IInv, Types, Download, Goto
  <1> QED BY <1>4, <1>5, <1>6, <1>8, <1>9, JobStep DEF Download

LEMMA PostInv ==
  ASSUME IInv, NEW j \in Job, Post(j)
  PROVE  IInv'
  <1>1. Sound(j) /\ pc[Downloader(j)] = "posting"
    BY DEF IInv, Post
  <1>2. Types'
    BY DEF IInv, Types, Post, Goto
  <1>3. Alone(j)
    BY Threads DEF Alone, IInv, Types, Post, Goto
  <1>4. Forward(j)
    BY DEF Forward, Post
  <1>5. /\ pc'[Downloader(j)] = "idle" /\ pc'[Submitter(j)] = pc[Submitter(j)]
        /\ pc'[Poller(j)] = pc[Poller(j)]
    BY Threads DEF IInv, Types, Post, Goto
  <1>6. Sound(j)'
    <2>1. Stages(j)'
      BY <1>1, <1>5 DEF Sound, Stages, Is, Saving, Post, Submitter, Poller, Downloader
    <2>2. WatchedOnce(j)'
      BY <1>1, <1>5 DEF Sound, WatchedOnce, IsLive, Is, Saving, Post, Submitter, Poller
    <2> QED BY <1>1, <2>1, <2>2 DEF Sound, Honest, Post
  <1>7. \A t \in Thread : pc'[t] = "open" <=> pc[t] = "open"
    BY <1>1 DEF IInv, Types, Post, Goto
  <1> QED BY <1>2, <1>3, <1>4, <1>6, <1>7, JobStep DEF Post

LEMMA ProviderEndsInv ==
  ASSUME IInv, NEW j \in Job, ProviderEnds(j)
  PROVE  IInv'
  <1>1. Sound(j) /\ remote[j] = "running"
    BY DEF IInv, ProviderEnds
  <1>2. /\ remote'[j] \in {"completed", "empty", "failed"}
        /\ \A k \in Job \ {j} : remote'[k] = remote[k]
        /\ remote' \in [Job -> {"none", "running", "unknown", "nameless", "completed", "empty", "failed"}]
    BY DEF IInv, Types, ProviderEnds
  <1>3. Types'
    BY <1>2 DEF IInv, Types, ProviderEnds
  <1>4. Alone(j)
    BY <1>2 DEF Alone, ProviderEnds
  <1>5. Forward(j)
    BY <1>1, <1>2 DEF Forward, ProviderEnds
  <1>6. Sound(j)'
    <2>1. Stages(j)'
      BY <1>1, <1>2 DEF Sound, Stages, Is, ProviderEnds, Submitter, Poller, Downloader
    <2>2. WatchedOnce(j)'
      BY <1>1 DEF Sound, WatchedOnce, IsLive, Is, ProviderEnds, Submitter, Poller
    <2> QED BY <1>1, <1>2, <2>1, <2>2 DEF Sound, Honest, ProviderEnds
  <1> QED BY <1>3, <1>4, <1>5, <1>6, JobStep DEF ProviderEnds

\* A crash: the file's view becomes the present.
LEMMA RestartInv ==
  ASSUME IInv, NEW gone \in SUBSET Job, Restart(gone)
  PROVE  IInv'
  <1> DEFINE resumed == {j \in Job : OnDisk[j] # NoJob /\ OnDisk[j].status \in Live}
  <1>1. /\ jobs' = OnDisk
        /\ \A t \in Thread : pc'[t] = IF \E j \in resumed \ gone : t = Poller(j)
                                      THEN "waiting" ELSE "idle"
        /\ watchless' = resumed \cap gone
    BY DEF Restart
  <1>2. OnDisk' = OnDisk
    BY DEF Restart, OnDisk
  <1>3. Types'
    <2>1. restarts' \in 0..MaxRestarts
      BY BatchAssumption DEF BatchAssumption, IInv, Types, Restart
    <2>2. client' \in [Job -> {"new", "waiting", "told", "refused", "broken"}]
      BY DEF IInv, Types, Restart
    <2>3. /\ listed' \in [Thread -> SUBSET Job] /\ text' \in [Thread -> Contents \cup {None}]
          /\ pc' \in [Thread -> {"idle", "waiting"}]
      BY DEF Restart
    <2>4. jobs' \in Contents /\ watchless' \subseteq Job /\ hook' \subseteq Job
      BY <1>1, DiskTyped DEF IInv, Restart
    <2> QED BY <2>1, <2>2, <2>3, <2>4 DEF IInv, Types, Restart
  <1>4. ASSUME NEW j \in Job PROVE Sound(j)'
    <2>1. Told(OnDisk[j], j) /\ Sound(j)
      BY DEF IInv, Snapshots
    <2>2. /\ pc'[Submitter(j)] = "idle" /\ pc'[Downloader(j)] = "idle"
          /\ pc'[Poller(j)] = IF j \in resumed \ gone THEN "waiting" ELSE "idle"
      <3>1. pc'[Submitter(j)] = "idle" /\ pc'[Downloader(j)] = "idle"
        BY <1>1, Threads
      <3>2. pc'[Poller(j)] = IF j \in resumed \ gone THEN "waiting" ELSE "idle"
        BY <1>1, Threads
      <3> QED BY <3>1, <3>2
    <2>3. client'[j] = "new" => client[j] = "new"
      BY DEF IInv, Types, Restart
    <2>4. Stages(j)'
      BY <1>1, <2>1, <2>2, <2>3
         DEF Sound, Stages, Is, Told, Saving, Restart, Submitter, Poller, Downloader
    <2>5. WatchedOnce(j)'
      BY <1>1, <2>2 DEF WatchedOnce, IsLive, Is, Saving, Submitter, Poller
    <2>6. Honest(jobs[j], j)'
      BY <1>1, <2>1 DEF Told, Honest, Restart
    <2> QED BY <2>1, <2>4, <2>5, <2>6 DEF Sound, Restart
  <1>5. Snapshots'
    <2>1. ASSUME NEW j \in Job PROVE Told(OnDisk[j], j)'
      <3>1. Told(OnDisk[j], j)
        BY DEF IInv, Snapshots
      <3> QED BY <1>1, <1>2, <3>1 DEF Told, Honest, Restart
    <2>2. \A t \in Thread : pc'[t] # "open" /\ listed'[t] = {} /\ text'[t] = None
      BY <1>1 DEF Restart
    <2> QED BY <2>1, <2>2 DEF Snapshots
  <1> QED BY <1>3, <1>4, <1>5 DEF IInv

-----------------------------------------------------------------------------
LEMMA NextInv == IInv /\ [Next]_vars => IInv'
  <1> SUFFICES ASSUME IInv, [Next]_vars PROVE IInv'
      OBVIOUS
  <1>1. ASSUME NEW j \in Job, NEW outcome \in Outcome, Submit(j, outcome)
        PROVE  IInv'
    BY <1>1, SubmitInv
  <1>2. ASSUME NEW j \in Job, Goroutine(j) PROVE IInv'
    <2>1. ASSUME NEW t \in {Submitter(j), Poller(j), Downloader(j)}, ListJobs(t) \/ Truncate(t)
          PROVE  IInv'
      <3>1. t \in Thread
        BY Threads
      <3> QED BY <2>1, <3>1, ListJobsInv, TruncateInv
    <2>2. CASE SubmitSaved(j) \/ StartPoller(j) \/ Acknowledge(j)
      BY <2>2, SubmitSavedInv, StartPollerInv, AcknowledgeInv
    <2>3. CASE PollCompleted(j)
      BY <2>3, PollCompletedInv
    <2>4. CASE PollFailed(j)
      <3>1. pc[Poller(j)] = "waiting" /\ remote[j] = "failed" /\ SetStatus(j, "failed")
            /\ Goto(Poller(j), "save")
            /\ UNCHANGED <<file, output, remote, client, listed, text, hook, posted, watchless, restarts>>
        BY <2>4 DEF PollFailed, Checked
      <3> QED BY <3>1, PollEnds
    <2>5. CASE PollSaved(j) \/ Download(j) \/ DownloadSaved(j) \/ Post(j)
      BY <2>5, PollSavedInv, DownloadInv, DownloadSavedInv, PostInv
    <2> QED BY <1>2, <2>1, <2>2, <2>3, <2>4, <2>5 DEF Goroutine
  <1>3. ASSUME NEW j \in Job, PollRunning(j) \/ Timeout(j) \/ ProviderEnds(j) PROVE IInv'
    <2>1. CASE Timeout(j)
      <3>1. pc[Poller(j)] = "waiting" /\ SetStatus(j, "expired") /\ Goto(Poller(j), "idle")
            /\ UNCHANGED <<file, output, remote, client, listed, text, hook, posted, watchless, restarts>>
        BY <2>1 DEF Timeout
      <3> QED BY <3>1, PollEnds
    <2> QED BY <1>3, <2>1, PollRunningInv, ProviderEndsInv
  <1>4. ASSUME NEW gone \in SUBSET Job, Restart(gone) PROVE IInv'
    BY <1>4, RestartInv
  <1>5. CASE UNCHANGED vars
    BY <1>5 DEF vars, IInv, Types, Sound, Stages, Is, WatchedOnce, Honest, IsLive, Is, Snapshots, Told, OnDisk
  <1> QED BY <1>1, <1>2, <1>3, <1>4, <1>5 DEF Next

THEOREM Invariance == Spec => []IInv
  <1> QED BY InitInv, NextInv, PTL DEF Spec

-----------------------------------------------------------------------------
(* The theorems.                                                           *)

\* Every part of the state keeps its type; a goroutine has a text in hand exactly
\* while it writes jobs.json, and posts a webhook only for a job that has one.
THEOREM TypeCorrect == Spec => []TypeOK
  <1>1. IInv => TypeOK
    <2> SUFFICES ASSUME IInv PROVE TypeOK
        OBVIOUS
    <2>1. ASSUME NEW t \in Thread
          PROVE  /\ listed[t] \subseteq Job
                 /\ IF pc[t] = "open" THEN text[t] \in Contents ELSE text[t] = None
                 /\ pc[t] = "posting" => t[2] \in hook
      <3>1. PICK j \in Job : t \in {Submitter(j), Poller(j), Downloader(j)} /\ t[2] = j
        BY Kinds
      <3>2. pc[t] = "posting" => j \in hook
        BY <3>1 DEF IInv, Sound, Stages, Is, Saving
      <3> QED BY <3>1, <3>2 DEF IInv, Types, Snapshots
    <2> QED BY <2>1 DEF IInv, Types, TypeOK
  <1> QED BY <1>1, Invariance, PTL

\* What is said of a job, in memory or in any file a restart can find, is what the
\* provider said of it.
THEOREM Honesty == Spec => []HonestStatus
  <1>1. IInv => HonestStatus
    BY DEF IInv, HonestStatus, Sound, Snapshots, Told, Honest
  <1> QED BY <1>1, Invariance, PTL

\* A job that is still to be watched is watched by exactly one goroutine, and no ended
\* job is, whatever a restart found.
THEOREM Watching == Spec => []Watched
  <1>1. IInv => Watched
    BY DEF IInv, Watched, Sound, WatchedOnce, Saving
  <1> QED BY <1>1, Invariance, PTL

\* The file is never ahead of the memory.
THEOREM Behind == Spec => []DiskBehind
  <1>1. IInv => DiskBehind
    BY DEF IInv, DiskBehind, Snapshots, Told
  <1> QED BY <1>1, Invariance, PTL

\* A webhook that is owed has the goroutine that will post it, and it is posted at most
\* once by a process: the poller that notices the completion ends with it, and whatever
\* the file says meanwhile, nobody polls the job again (pollJob, deliverWebhook).
THEOREM WebhookOnce == Spec => []WebhookHeld /\ PostedOnce
  <1>1. IInv => WebhookHeld
    BY DEF IInv, WebhookHeld, Sound, Stages, Is
  <1>2. IInv => \A j \in Job : Post(j) => j \notin posted
    BY DEF IInv, Sound, Stages, Post
  <1> QED BY <1>1, <1>2, Invariance, PTL DEF PostedOnce

=============================================================================
