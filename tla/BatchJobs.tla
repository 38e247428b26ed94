----------------------------- MODULE BatchJobs -----------------------------
(***************************************************************************)
(* The asynchronous batch API: jobs submitted to a provider, one poller    *)
(* goroutine per live job, a download and a webhook when a job completes,  *)
(* and jobs.json, which every one of those goroutines rewrites as a whole. *)
(*                                                                         *)
(* saveJobs takes the list of jobs under a read lock, marshals the jobs    *)
(* and writes the file with no lock: os.WriteFile first truncates it.  The *)
(* saves of different goroutines overlap, and a crash may come anywhere.   *)
(* A status that is being stored while another goroutine marshals it may   *)
(* be read torn (the length of one string with the bytes of another).      *)
(***************************************************************************)
EXTENDS Naturals, FiniteSets

CONSTANTS
  Job,
  NoJob,        \* the map, or the file, has no such job
  None,         \* nothing to write
  Empty, Mixed, \* jobs.json just truncated; overwritten by two goroutines
  Provider,     \* [Job -> {"openai", "gemini", "fireworks"}]: "openai" stands for
                \* every provider that is both checked and downloaded from
  WithCallback, \* jobs submitted with a callback URL
  MaxRestarts

ASSUME BatchAssumption ==
  /\ Provider \in [Job -> {"openai", "gemini", "fireworks"}]
  /\ WithCallback \subseteq Job
  /\ MaxRestarts \in Nat

VARIABLES
  jobs,      \* bm.jobs: [Job -> Record or NoJob]
  file,      \* jobs.json: such a function, Empty or Mixed
  output,    \* jobs whose results file has been written
  remote,    \* what the provider knows of each job: "none", nothing it was told under
             \* that name; "unknown", the submission was not confirmed; "nameless",
             \* it was, and the confirmation had no name in it that can be read
  client,    \* the submitting request: "new", "waiting", "told" of its job,
             \* "refused" for its callback URL, or "broken" by a crash
  pc,        \* [Thread -> where the goroutine is]
  listed,    \* [Thread -> the jobs it is about to marshal]
  text,      \* [Thread -> the contents it is about to write, or None]
  hook,      \* jobs whose download goroutine has a webhook to deliver
  posted,    \* jobs whose webhook this process has posted, or tried to
  watchless, \* jobs restored without their backend: nobody polls them
  restarts

vars == <<jobs, file, output, remote, client, pc, listed, text, hook, posted, watchless, restarts>>

Live   == {"submitted", "processing"}
Ended  == {"completed", "failed", "expired"}  \* "failed" is also a cancelled job
Record == [status : Live \cup Ended \cup {"torn"}, cb : BOOLEAN]
Contents == [Job -> Record \cup {NoJob}]

ASSUME MarkAssumption ==
  /\ NoJob \notin Record
  /\ {None, Empty, Mixed} \cap Contents = {}

Thread == {"submit", "poll", "download"} \X Job

Submitter(j)  == <<"submit", j>>
Poller(j)     == <<"poll", j>>
Downloader(j) == <<"download", j>>

NoJobs   == [j \in Job |-> NoJob]
Idle     == [t \in Thread |-> "idle"]
Is(j, S)  == jobs[j] # NoJob /\ jobs[j].status \in S
IsLive(j) == Is(j, Live)

SetStatus(j, s) == jobs' = [jobs EXCEPT ![j].status = s]
Goto(t, p)      == pc' = [pc EXCEPT ![t] = p]

-----------------------------------------------------------------------------
(* saveJobs, called by thread t; next is where it goes on afterwards.      *)

ListJobs(t) ==
  /\ pc[t] = "save"
  /\ Goto(t, "listed")
  /\ listed' = [listed EXCEPT ![t] = {j \in Job : jobs[j] # NoJob}]
  /\ UNCHANGED <<jobs, file, output, remote, client, text, hook, posted, watchless, restarts>>

\* The listed jobs are marshalled as they are now, and the file is truncated.
\* A job's poller, when it runs, may just be storing a status.
Truncate(t) ==
  /\ pc[t] = "listed"
  /\ Goto(t, "open")
  /\ listed' = [listed EXCEPT ![t] = {}]
  /\ \E torn \in SUBSET {j \in listed[t] : pc[Poller(j)] = "waiting"} :
       text' = [text EXCEPT ![t] =
                  [j \in Job |-> IF j \notin listed[t] THEN NoJob
                                 ELSE IF j \in torn THEN [jobs[j] EXCEPT !.status = "torn"]
                                 ELSE jobs[j]]]
  /\ file' = Empty
  /\ UNCHANGED <<jobs, output, remote, client, hook, posted, watchless, restarts>>

\* Written over another goroutine's contents, a shorter text leaves the end of
\* the longer one behind.
Write(t, next) ==
  /\ pc[t] = "open"
  /\ Goto(t, next)
  /\ text' = [text EXCEPT ![t] = None]
  /\ file' \in {text[t]} \cup (IF file \in {Empty, text[t]} THEN {} ELSE {Mixed})
  /\ UNCHANGED listed

-----------------------------------------------------------------------------
(* SubmitBatch and handleBatchSubmit.                                      *)

\* What the job becomes: an error is a failure, and anything else a submission.
Outcome == {"running", "unknown", "nameless"}
AfterSubmit(outcome) == IF outcome = "unknown" THEN "failed" ELSE "submitted"

\* Mutant of Submit: a rejected submission is recorded as submitted.
SubmitIgnoresError(j, outcome) ==
  /\ client[j] = "new"
  /\ client' = [client EXCEPT ![j] = "waiting"]
  /\ remote' = [remote EXCEPT ![j] = outcome]
  /\ jobs' = [jobs EXCEPT ![j] = [status |-> "submitted", cb |-> FALSE]]
  /\ Goto(Submitter(j), "save")
  /\ UNCHANGED <<file, output, listed, text, hook, posted, watchless, restarts>>

\* The provider takes the job; or it refuses it, or its answer is lost, and then the
\* router does not know under what name the provider may have it.  An answer that
\* says yes is believed even when its body is cut off, does not parse or has no name:
\* the job then has no name, or at Gemini one the router made up.
Submit(j, outcome) ==
  /\ client[j] = "new"
  /\ client' = [client EXCEPT ![j] = "waiting"]
  /\ remote' = [remote EXCEPT ![j] = outcome]
  /\ jobs' = [jobs EXCEPT ![j] = [status |-> AfterSubmit(outcome), cb |-> FALSE]]
  /\ Goto(Submitter(j), "save")
  /\ UNCHANGED <<file, output, listed, text, hook, posted, watchless, restarts>>

SubmitSaved(j) ==
  /\ Write(Submitter(j), "saved")
  /\ UNCHANGED <<jobs, output, remote, client, hook, posted, watchless, restarts>>

\* Mutant of StartPoller: a job whose submission failed is polled as well.
StartPollerAlways(j) ==
  /\ pc[Submitter(j)] = "saved"
  /\ pc' = [pc EXCEPT ![Submitter(j)] = "submitted", ![Poller(j)] = "waiting"]
  /\ UNCHANGED <<jobs, file, output, remote, client, listed, text, hook, posted, watchless, restarts>>

\* A job that was submitted gets its poller; the handler has the job to itself
\* until here, so its status is still the one Submit gave it.
StartPoller(j) ==
  /\ pc[Submitter(j)] = "saved"
  /\ pc' = [pc EXCEPT ![Submitter(j)] = "submitted",
                      ![Poller(j)] = IF jobs[j].status = "submitted" THEN "waiting" ELSE @]
  /\ UNCHANGED <<jobs, file, output, remote, client, listed, text, hook, posted, watchless, restarts>>

\* An invalid callback URL is refused only now.  SetCallback does not save.
Acknowledge(j) ==
  /\ pc[Submitter(j)] = "submitted"
  /\ \/ /\ jobs' = [jobs EXCEPT ![j].cb = j \in WithCallback]
        /\ client' = [client EXCEPT ![j] = "told"]
     \/ /\ j \in WithCallback
        /\ client' = [client EXCEPT ![j] = "refused"]
        /\ UNCHANGED jobs
  /\ Goto(Submitter(j), "idle")
  /\ UNCHANGED <<file, output, remote, listed, text, hook, posted, watchless, restarts>>

-----------------------------------------------------------------------------
(* pollJob.  The provider's final answers do not change, so asking it and  *)
(* recording what it said are one step.                                    *)

Checked(j) == pc[Poller(j)] = "waiting" /\ Provider[j] # "fireworks"

\* Any answer that names no end, an error page among them: also what is said of a
\* job that has ended, and all that is ever said of one without a name.
PollRunning(j) ==
  /\ Checked(j)
  /\ SetStatus(j, "processing")
  /\ UNCHANGED <<file, output, remote, client, pc, listed, text, hook, posted, watchless, restarts>>

\* Mutant of PollCompleted: without an output file nobody posts the webhook.
PollCompletedNoFile(j) ==
  /\ Checked(j)
  /\ remote[j] \in {"completed", "empty"}
  /\ SetStatus(j, "completed")
  /\ hook' = IF jobs[j].cb /\ remote[j] = "completed" THEN hook \cup {j} ELSE hook
  /\ pc' = [pc EXCEPT ![Poller(j)] = "save",
                      ![Downloader(j)] = IF remote[j] = "completed" THEN "fetching" ELSE @]
  /\ UNCHANGED <<file, output, remote, client, listed, text, posted, watchless, restarts>>

\* "empty": completed, and the provider names no output file.  The address that counts
\* is the one the job has now: one that is set later is too late.
PollCompleted(j) ==
  /\ Checked(j)
  /\ remote[j] \in {"completed", "empty"}
  /\ SetStatus(j, "completed")
  /\ hook' = IF jobs[j].cb THEN hook \cup {j} ELSE hook
  /\ pc' = [pc EXCEPT ![Poller(j)] = "save",
                      ![Downloader(j)] = IF remote[j] = "completed" THEN "fetching"
                                         ELSE IF jobs[j].cb THEN "posting" ELSE @]
  /\ UNCHANGED <<file, output, remote, client, listed, text, posted, watchless, restarts>>

PollFailed(j) ==
  /\ Checked(j)
  /\ remote[j] = "failed"
  /\ SetStatus(j, "failed")
  /\ Goto(Poller(j), "save")
  /\ UNCHANGED <<file, output, remote, client, listed, text, hook, posted, watchless, restarts>>

\* Mutant of Timeout: the loop goes on.
TimeoutKeepsPolling(j) ==
  /\ pc[Poller(j)] = "waiting"
  /\ SetStatus(j, "expired")
  /\ UNCHANGED <<file, output, remote, client, pc, listed, text, hook, posted, watchless, restarts>>

\* 25 hours of other answers or errors.  Nothing is saved.
Timeout(j) ==
  /\ pc[Poller(j)] = "waiting"
  /\ SetStatus(j, "expired")
  /\ Goto(Poller(j), "idle")
  /\ UNCHANGED <<file, output, remote, client, listed, text, hook, posted, watchless, restarts>>

PollSaved(j) ==
  /\ Write(Poller(j), "idle")
  /\ UNCHANGED <<jobs, output, remote, client, hook, posted, watchless, restarts>>

-----------------------------------------------------------------------------
(* The goroutine that downloads the results and delivers the webhook.      *)

\* Nothing is downloaded from Gemini, or when the call fails.
Download(j) ==
  /\ pc[Downloader(j)] = "fetching"
  /\ output' \in {output} \cup (IF Provider[j] = "gemini" THEN {} ELSE {output \cup {j}})
  /\ Goto(Downloader(j), "save")
  /\ UNCHANGED <<jobs, file, remote, client, listed, text, hook, posted, watchless, restarts>>

DownloadSaved(j) ==
  /\ Write(Downloader(j), IF j \in hook THEN "posting" ELSE "idle")
  /\ UNCHANGED <<jobs, output, remote, client, hook, posted, watchless, restarts>>

\* Delivered, or given up after three attempts.
Post(j) ==
  /\ pc[Downloader(j)] = "posting"
  /\ hook' = hook \ {j}
  /\ posted' = posted \cup {j}
  /\ Goto(Downloader(j), "idle")
  /\ UNCHANGED <<jobs, file, output, remote, client, listed, text, watchless, restarts>>

-----------------------------------------------------------------------------
(* The provider, and the process.                                          *)

ProviderEnds(j) ==
  /\ remote[j] = "running"
  /\ \E r \in {"completed", "failed"} \cup IF Provider[j] = "gemini" THEN {} ELSE {"empty"} :
       remote' = [remote EXCEPT ![j] = r]
  /\ UNCHANGED <<jobs, file, output, client, pc, listed, text, hook, posted, watchless, restarts>>

OnDisk == IF file \in {Empty, Mixed} THEN NoJobs ELSE file

\* Mutant of Restart: only jobs still "submitted" are polled again.
RestartSubmittedOnly(gone) ==
  LET resumed == {j \in Job : OnDisk[j] # NoJob /\ OnDisk[j].status \in Live} IN
  /\ restarts < MaxRestarts
  /\ restarts' = restarts + 1
  /\ jobs' = OnDisk
  /\ pc' = [t \in Thread |-> IF \E j \in resumed \ gone : OnDisk[j].status = "submitted" /\ t = Poller(j)
                             THEN "waiting" ELSE "idle"]
  /\ watchless' = resumed \cap gone
  /\ client' = [j \in Job |-> IF client[j] = "waiting" THEN "broken" ELSE client[j]]
  /\ hook' = {} /\ posted' = {}
  /\ listed' = [t \in Thread |-> {}] /\ text' = [t \in Thread |-> None]
  /\ UNCHANGED <<file, output, remote>>

\* A crash and loadJobs: a file that does not parse restores nothing.  Jobs in
\* gone belong to backends the configuration no longer has.
Restart(gone) ==
  LET resumed == {j \in Job : OnDisk[j] # NoJob /\ OnDisk[j].status \in Live} IN
  /\ restarts < MaxRestarts
  /\ restarts' = restarts + 1
  /\ jobs' = OnDisk
  /\ pc' = [t \in Thread |-> IF \E j \in resumed \ gone : t = Poller(j)
                             THEN "waiting" ELSE "idle"]
  /\ watchless' = resumed \cap gone
  /\ client' = [j \in Job |-> IF client[j] = "waiting" THEN "broken" ELSE client[j]]
  /\ hook' = {} /\ posted' = {}
  /\ listed' = [t \in Thread |-> {}] /\ text' = [t \in Thread |-> None]
  /\ UNCHANGED <<file, output, remote>>

-----------------------------------------------------------------------------
Init ==
  /\ jobs = NoJobs
  /\ file = NoJobs
  /\ output = {}
  /\ remote = [j \in Job |-> "none"]
  /\ client = [j \in Job |-> "new"]
  /\ hook = {} /\ posted = {} /\ watchless = {}
  /\ pc = Idle
  /\ listed = [t \in Thread |-> {}] /\ text = [t \in Thread |-> None]
  /\ restarts = 0

Goroutine(j) ==
  \/ \E t \in {Submitter(j), Poller(j), Downloader(j)} : ListJobs(t) \/ Truncate(t)
  \/ SubmitSaved(j) \/ StartPoller(j) \/ Acknowledge(j)
  \/ PollCompleted(j) \/ PollFailed(j) \/ PollSaved(j)
  \/ Download(j) \/ DownloadSaved(j) \/ Post(j)

Next ==
  \/ \E j \in Job, outcome \in Outcome : Submit(j, outcome)
  \/ \E j \in Job : Goroutine(j)
  \/ \E j \in Job : PollRunning(j) \/ Timeout(j) \/ ProviderEnds(j)
  \/ \E gone \in SUBSET Job : Restart(gone)

Spec == Init /\ [][Next]_vars

\* Goroutines run and their calls have timeouts; a timeout of 25 hours passes.
\* The provider need not ever finish.
Fairness ==
  \A j \in Job :
    /\ \A t \in {Submitter(j), Poller(j), Downloader(j)} :
         WF_vars(ListJobs(t)) /\ WF_vars(Truncate(t))
    /\ WF_vars(SubmitSaved(j)) /\ WF_vars(StartPoller(j)) /\ WF_vars(Acknowledge(j))
    /\ WF_vars(PollSaved(j)) /\ WF_vars(Timeout(j))
    /\ WF_vars(Download(j)) /\ WF_vars(DownloadSaved(j)) /\ WF_vars(Post(j))

FairSpec == Spec /\ Fairness

-----------------------------------------------------------------------------
(* Properties.                                                             *)

\* Every part of the state keeps its type, a goroutine has a text in hand exactly
\* while it writes jobs.json, and a webhook is posted only for a job that has one.
TypeOK ==
  /\ jobs \in Contents
  /\ file \in Contents \cup {Empty, Mixed}
  /\ output \subseteq Job /\ hook \subseteq Job /\ posted \subseteq Job /\ watchless \subseteq Job
  /\ remote \in [Job -> {"none", "running", "unknown", "nameless", "completed", "empty", "failed"}]
  /\ client \in [Job -> {"new", "waiting", "told", "refused", "broken"}]
  /\ pc \in [Thread -> {"idle", "save", "listed", "open", "saved", "submitted", "waiting",
                        "fetching", "posting"}]
  /\ \A t \in Thread :
       /\ listed[t] \subseteq Job
       /\ IF pc[t] = "open" THEN text[t] \in Contents ELSE text[t] = None
       /\ pc[t] = "posting" => t[2] \in hook
  /\ restarts \in 0..MaxRestarts

\* What is said of a job, in memory or in any file a restart can find, is what
\* the provider said of it at some time: no job is reported completed or failed
\* unless it is, and none is polled whose submission was not confirmed.  A job that
\* was confirmed without a name (submitToProvider decodes the answer and looks at no
\* error) is polled under a name the provider does not know: it never completes or
\* fails, and is "submitted" or "processing" until it expires.
Honest(r, j) ==
  r # NoJob =>
    /\ r.status \in Live \cup {"expired"} => remote[j] \notin {"none", "unknown"}
    /\ r.status = "completed" => remote[j] \in {"completed", "empty"}
    /\ r.status = "failed" => remote[j] \in {"failed", "unknown"}

HonestStatus ==
  \A j \in Job :
    /\ Honest(jobs[j], j) /\ Honest(OnDisk[j], j)
    /\ j \in output => jobs[j] = NoJob \/ remote[j] = "completed"

\* A job that is still to be watched is watched by exactly one goroutine, the
\* submitter about to start the poller or the poller itself, and no ended job
\* is: across restarts, whatever version of the file they find.
Watched ==
  \A j \in Job :
    LET starting == IsLive(j) /\ pc[Submitter(j)] \in {"save", "listed", "open", "saved"}
        polling  == pc[Poller(j)] = "waiting"
    IN /\ ~(starting /\ polling)
       /\ IsLive(j) <=> (starting \/ polling \/ j \in watchless)

\* The file is never ahead of the memory: a status that ended there is the one
\* in memory, however old the snapshot that was written last.
DiskBehind ==
  \A j \in Job : OnDisk[j] # NoJob =>
    /\ jobs[j] # NoJob
    /\ OnDisk[j].status \in Ended => jobs[j].status = OnDisk[j].status

\* A webhook that is owed has the one goroutine that will post it, and no process posts
\* it twice.
WebhookHeld ==
  \A j \in Job :
    /\ j \in hook => pc[Downloader(j)] # "idle" /\ Is(j, {"completed"})
    /\ j \in posted => j \notin hook /\ Is(j, {"completed"})

PostedOnce == [][\A j \in Job : Post(j) => j \notin posted]_vars

\* "Webhook: POST to your callback_url when complete" (docs/user-guide.md): the webhook
\* of a job that is watched and has its address is posted in the end, with or without
\* an output file, whatever other saves do to the file meanwhile, unless the job fails
\* or expires, or the process is restarted first.  The address has to be there when
\* the completion is noticed: of a job that ends before SetCallback nothing is posted.
Notified ==
  \A j \in WithCallback, n \in 0..MaxRestarts :
    (restarts = n /\ IsLive(j) /\ jobs[j].cb /\ j \notin watchless)
      ~> (j \in posted \/ Is(j, {"failed", "expired"}) \/ restarts # n)

\* Every job that is watched ends, whatever the provider does: in the worst
\* case it expires.  A restart may begin the 25 hours anew.
JobEnds ==
  \A j \in Job : (IsLive(j) /\ j \notin watchless) ~> (~IsLive(j) \/ j \in watchless)

\* saveJobs "persists all batch jobs to disk": with no save under way, a job
\* whose submission was acknowledged is in the file.
JobsOnDisk ==
  (\A t \in Thread : pc[t] \notin {"save", "listed", "open"}) =>
    \A j \in Job : client[j] = "told" /\ jobs[j] # NoJob => OnDisk[j] # NoJob
=============================================================================
