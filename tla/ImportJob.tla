----------------------------- MODULE ImportJob -----------------------------
(***************************************************************************)
(* One durable catalogue import: the row of catalog_import_jobs, the API   *)
(* that accepts and retries it, the worker executions that claim it, and   *)
(* the sweep that finds abandoned jobs.                                    *)
(*                                                                         *)
(* A claim is one conditional UPDATE.  Whatever else a worker or the API   *)
(* writes is guarded, if at all, by what it has loaded before.  Workers    *)
(* and API may be killed at any step; their message was acknowledged when  *)
(* it was taken and is lost with them.  No execution outlives the lease of *)
(* its claim: celery and Modal kill it before (300 and 900 seconds).       *)
(***************************************************************************)
EXTENDS Naturals

CONSTANTS
  Workers,       \* executions of the import task at one time
  Hosts,         \* where it may run: "celery", or "modal" (retries in process)
  MaxAttempts,   \* MAX_JOB_ATTEMPTS
  TaskRetries,   \* max_retries of the task
  MaxMessages,   \* bound: fresh messages in the queue
  MaxKills       \* bound: workers and API requests killed

ASSUME ImportJobAssumption ==
  /\ Hosts \subseteq {"celery", "modal"}
  /\ MaxAttempts \in Nat \ {0}
  /\ TaskRetries \in Nat
  /\ MaxMessages \in Nat \ {0}
  /\ MaxKills \in Nat

VARIABLES
  \* the row
  status,    \* "none" before the job is enqueued
  attempts,
  heartbeat, \* heartbeat_at: none, within the lease, or older
  payload,   \* is payload_text there?
  \* the processes
  api,       \* the request that enqueues or retries the job
  queue,     \* messages by the retries their task has behind it
  worker,
  host,
  \* history
  done,      \* imports that ran to their final COMMIT
  orphaned,  \* somebody was killed while the sweep would not find the job
  kills

rowVars == <<status, attempts, heartbeat, payload>>
vars == <<rowVars, api, queue, worker, host, done, orphaned, kills>>

Terminal == {"completed", "partially_completed", "failed"}

Idle == [pc |-> "idle"]

RowType ==
  [status : {"queued", "processing"} \union Terminal,
   heartbeat : {"none", "fresh", "stale"}]

WorkerType ==
  {Idle}
    \union [pc : {"claim", "claimed", "started", "rows", "notify", "failed", "retry"},
            retries : 0..TaskRetries]
    \union [pc : {"refused", "raised"}, retries : 0..TaskRetries, row : RowType]
    \union [pc : {"recover"}, retries : 0..TaskRetries, row : RowType, last : BOOLEAN]

ApiType ==
  [pc : {"new", "open", "dispatch", "undispatched"}]
    \union [pc : {"retry"}, loaded : {"failed", "queued"}]

TypeOK ==
  /\ status \in {"none", "queued", "processing"} \union Terminal
  /\ attempts \in 0..MaxAttempts
  /\ heartbeat \in {"none", "fresh", "stale"}
  /\ payload \in BOOLEAN
  /\ api \in ApiType
  /\ queue \in [0..TaskRetries -> Nat]
  /\ worker \in [Workers -> WorkerType]
  /\ host \in Hosts
  /\ done \in Nat
  /\ orphaned \in BOOLEAN
  /\ kills \in 0..MaxKills

Init ==
  /\ status = "none"
  /\ attempts = 0
  /\ heartbeat = "none"
  /\ payload = FALSE
  /\ api = [pc |-> "new"]
  /\ queue = [n \in 0..TaskRetries |-> 0]
  /\ worker = [w \in Workers |-> Idle]
  /\ host \in Hosts
  /\ done = 0
  /\ orphaned = FALSE
  /\ kills = 0

Deliver(n) == queue' = [queue EXCEPT ![n] = @ + 1]

At(w, pc) == worker[w].pc = pc

\* The execution of w goes on at pc, or goes on there with the row it loads.
Goto(w, pc) == worker' = [worker EXCEPT ![w] = [pc |-> pc, retries |-> @.retries]]

Row == [status |-> status, heartbeat |-> heartbeat]

Load(w, pc) == worker' = [worker EXCEPT ![w] = [pc |-> pc, retries |-> @.retries, row |-> Row]]

\* A flush writes a column only if its value changed since it was loaded.
Written(new, loaded, current) == IF new # loaded THEN new ELSE current

Ends(w) == worker' = [worker EXCEPT ![w] = Idle]

-----------------------------------------------------------------------------
\* The API

\* confirm-import: the job is committed with its file, before the dispatch.
Enqueue ==
  /\ api.pc = "new"
  /\ status' = "queued"
  /\ payload' = TRUE
  /\ api' = [pc |-> "dispatch"]
  /\ UNCHANGED <<attempts, heartbeat, queue, worker, host, done, orphaned, kills>>

Dispatch ==
  /\ api.pc = "dispatch"
  /\ Deliver(0)
  /\ api' = [pc |-> "open"]
  /\ UNCHANGED <<rowVars, worker, host, done, orphaned, kills>>

\* The dispatch raises, although the worker may have been triggered: the call
\* to Modal can time out after it.
DispatchRaises ==
  /\ api.pc = "dispatch"
  /\ Deliver(0) \/ UNCHANGED queue
  /\ api' = [pc |-> "undispatched"]
  /\ UNCHANGED <<rowVars, worker, host, done, orphaned, kills>>

\* mark_dispatch_failed, whatever the job has become.
MarkDispatchFailed ==
  /\ api.pc = "undispatched"
  /\ status' = "failed"
  /\ api' = [pc |-> "open"]
  /\ UNCHANGED <<attempts, heartbeat, payload, queue, worker, host, done, orphaned, kills>>

\* The retry endpoint checks the job it has loaded ...
CheckRetry ==
  /\ api.pc = "open"
  /\ status \in {"failed", "queued"}
  /\ payload
  /\ attempts < MaxAttempts
  /\ queue[0] < MaxMessages
  /\ api' = [pc |-> "retry", loaded |-> status]
  /\ UNCHANGED <<rowVars, queue, worker, host, done, orphaned, kills>>

\* ... and puts it back to queued, if it was not when it was loaded.
Requeue ==
  /\ api.pc = "retry"
  /\ status' = IF api.loaded = "queued" THEN status ELSE "queued"
  /\ api' = [pc |-> "dispatch"]
  /\ UNCHANGED <<attempts, heartbeat, payload, queue, worker, host, done, orphaned, kills>>

-----------------------------------------------------------------------------
\* Claiming

Receive(w) ==
  /\ At(w, "idle")
  /\ \E n \in 0..TaskRetries :
       /\ queue[n] > 0
       /\ queue' = [queue EXCEPT ![n] = @ - 1]
       /\ worker' = [worker EXCEPT ![w] = [pc |-> "claim", retries |-> n]]
  /\ UNCHANGED <<rowVars, api, host, done, orphaned, kills>>

\* Nobody holds the job, as far as its status and its heartbeat tell.
Abandoned == status = "processing" /\ heartbeat \in {"none", "stale"}

\* Mutant: the attempts are not limited.
ClaimableForEver == status \in {"queued", "failed"} \/ Abandoned

Claimable ==
  /\ attempts < MaxAttempts
  /\ status \in {"queued", "failed"} \/ Abandoned

\* claim_job: the conditional UPDATE.
Claim(w) ==
  /\ At(w, "claim")
  /\ Claimable
  /\ status' = "processing"
  /\ attempts' = attempts + 1
  /\ heartbeat' = "fresh"
  /\ Goto(w, "claimed")
  /\ UNCHANGED <<payload, api, queue, host, done, orphaned, kills>>

\* No row was updated: a job that is out of attempts and not completed ...
Refuse(w) ==
  /\ At(w, "claim")
  /\ ~Claimable
  /\ IF attempts >= MaxAttempts /\ status # "completed" THEN Load(w, "refused") ELSE Ends(w)
  /\ UNCHANGED <<rowVars, api, queue, host, done, orphaned, kills>>

\* ... is ended, even if another worker is still at it.
GiveUp(w) ==
  /\ At(w, "refused")
  /\ status' = Written("failed", worker[w].row.status, status)
  /\ Ends(w)
  /\ UNCHANGED <<attempts, heartbeat, payload, api, queue, host, done, orphaned, kills>>

-----------------------------------------------------------------------------
\* Running: execute_import_job and _process

PayloadMissing(w) ==
  /\ At(w, "claimed")
  /\ ~payload
  /\ status' = "failed"
  /\ Ends(w)
  /\ UNCHANGED <<attempts, heartbeat, payload, api, queue, host, done, orphaned, kills>>

\* The first COMMIT of _process.  It writes the status only if that was not
\* "processing" any more when the claimed row was loaded.
Start(w) ==
  /\ At(w, "claimed")
  /\ payload
  /\ status' \in {status, "processing"}
  /\ heartbeat' = "fresh"
  /\ Goto(w, "started")
  /\ UNCHANGED <<attempts, payload, api, queue, host, done, orphaned, kills>>

\* parse_csv reads payload_text again: the COMMIT has expired it.
Parse(w) ==
  /\ At(w, "started")
  /\ payload
  /\ Goto(w, "rows")
  /\ UNCHANGED <<rowVars, api, queue, host, done, orphaned, kills>>

\* _progress, every ten rows.
Progress(w) ==
  /\ At(w, "rows")
  /\ heartbeat' = "fresh"
  /\ UNCHANGED <<status, attempts, payload, api, queue, worker, host, done, orphaned, kills>>

\* Mutant: the file of a partially completed job is kept for a retry.
FinishKeepsFile(w) ==
  /\ At(w, "rows")
  /\ \E s \in Terminal :
       /\ status' = s
       /\ payload' = (payload /\ s # "completed")
  /\ heartbeat' = "fresh"
  /\ done' = done + 1
  /\ Goto(w, "notify")
  /\ UNCHANGED <<attempts, api, queue, host, orphaned, kills>>

\* The result, by what was accepted and what was not, and no file any more.
Finish(w) ==
  /\ At(w, "rows")
  /\ status' \in Terminal
  /\ payload' = FALSE
  /\ heartbeat' = "fresh"
  /\ done' = done + 1
  /\ Goto(w, "notify")
  /\ UNCHANGED <<attempts, api, queue, host, orphaned, kills>>

\* The mails to customers, and the end of the task.
Notify(w) ==
  /\ At(w, "notify")
  /\ Ends(w)
  /\ UNCHANGED <<rowVars, api, queue, host, done, orphaned, kills>>

\* Anything _process does may raise, the mails included.  It loads the row ...
Raise(w) ==
  /\ worker[w].pc \in {"started", "rows", "notify"}
  /\ Load(w, "raised")
  /\ UNCHANGED <<rowVars, api, queue, host, done, orphaned, kills>>

\* ... commits "failed" and raises again.
Fail(w) ==
  /\ At(w, "raised")
  /\ status' = Written("failed", worker[w].row.status, status)
  /\ Goto(w, "failed")
  /\ UNCHANGED <<attempts, heartbeat, payload, api, queue, host, done, orphaned, kills>>

EndedWell == {"completed", "partially_completed"}

LastRun(w) == worker[w].retries = TaskRetries

\* The task's handler loads the row in a session of its own and decides whether
\* this was the last execution.
LoadRecovery(w) ==
  /\ At(w, "failed")
  /\ worker' = [worker EXCEPT ![w] =
       [pc |-> "recover", retries |-> @.retries, row |-> Row,
        last |-> LastRun(w)
                 \/ (host = "modal" /\ attempts >= MaxAttempts /\ status \notin EndedWell)]]
  /\ UNCHANGED <<rowVars, api, queue, host, done, orphaned, kills>>

\* Unless it had ended well, the job is failed, or given back to be retried.
Recover(w) ==
  /\ At(w, "recover")
  /\ LET r == worker[w]
         to == IF r.last THEN "failed" ELSE "queued"
     IN /\ IF r.row.status \in EndedWell THEN UNCHANGED <<status, heartbeat>>
           ELSE /\ status' = Written(to, r.row.status, status)
                /\ heartbeat' = Written("none", r.row.heartbeat, heartbeat)
        /\ IF r.last THEN Ends(w) ELSE Goto(w, "retry")
  /\ UNCHANGED <<attempts, payload, api, queue, host, done, orphaned, kills>>

\* The recovery session fails and is rolled back: the row stays as it is.
RecoverFails(w) ==
  /\ At(w, "recover")
  /\ IF LastRun(w) THEN Ends(w) ELSE Goto(w, "retry")
  /\ UNCHANGED <<rowVars, api, queue, host, done, orphaned, kills>>

\* The task is retried: as a new message, or in the same process.
RetryTask(w) ==
  /\ At(w, "retry")
  /\ IF host = "celery"
     THEN Deliver(worker[w].retries + 1) /\ Ends(w)
     ELSE /\ worker' = [worker EXCEPT ![w] = [pc |-> "claim", retries |-> @.retries + 1]]
          /\ UNCHANGED queue
  /\ UNCHANGED <<rowVars, api, host, done, orphaned, kills>>

-----------------------------------------------------------------------------
\* Recovery, time and faults

\* Mutant: the sweep looks for queued jobs only.
SweepFindsQueued ==
  /\ payload
  /\ attempts < MaxAttempts
  /\ status = "queued"

\* recover_open_jobs: has the job attempts and its file left, and no owner?
SweepFinds ==
  /\ payload
  /\ attempts < MaxAttempts
  /\ status = "queued" \/ Abandoned

Sweep ==
  /\ SweepFinds
  /\ queue[0] < MaxMessages
  /\ Deliver(0)
  /\ UNCHANGED <<rowVars, api, worker, host, done, orphaned, kills>>

\* JOB_LEASE_SECONDS pass without a heartbeat: whoever has written it is gone.
LeaseExpires ==
  /\ heartbeat = "fresh"
  /\ \A w \in Workers : worker[w].pc \in {"idle", "claim", "refused"}
  /\ heartbeat' = "stale"
  /\ UNCHANGED <<status, attempts, payload, api, queue, worker, host, done, orphaned, kills>>

\* The sweep does not look at a job without attempts or without its file.
Orphan ==
  /\ kills < MaxKills
  /\ kills' = kills + 1
  /\ orphaned' = (orphaned \/ attempts >= MaxAttempts \/ ~payload)

KillWorker(w) ==
  /\ ~At(w, "idle")
  /\ Orphan
  /\ Ends(w)
  /\ UNCHANGED <<rowVars, api, queue, host, done>>

KillApi ==
  /\ api.pc \notin {"new", "open"}
  /\ Orphan
  /\ api' = [pc |-> "open"]
  /\ UNCHANGED <<rowVars, queue, worker, host, done>>

ApiStep == Dispatch \/ DispatchRaises \/ MarkDispatchFailed \/ Requeue

\* What a worker does by itself.  Progress is not part of it: it may go on for
\* as long as there are rows.
WorkerStep(w) ==
  \/ Receive(w) \/ Claim(w) \/ Refuse(w) \/ GiveUp(w)
  \/ PayloadMissing(w) \/ Start(w) \/ Parse(w) \/ Finish(w) \/ Notify(w)
  \/ Raise(w) \/ Fail(w) \/ LoadRecovery(w) \/ Recover(w) \/ RecoverFails(w)
  \/ RetryTask(w)

Next ==
  \/ Enqueue \/ CheckRetry \/ ApiStep \/ KillApi
  \/ \E w \in Workers : WorkerStep(w) \/ Progress(w) \/ KillWorker(w)
  \/ Sweep \/ LeaseExpires

Spec == Init /\ [][Next]_vars

\* A started request or task goes on, celery beat runs the sweep, time passes.
\* Nobody has to retry, and rows end in the end (task_time_limit).
FairSpec ==
  /\ Spec
  /\ WF_vars(ApiStep)
  /\ \A w \in Workers : WF_vars(WorkerStep(w))
  /\ WF_vars(Sweep)
  /\ WF_vars(LeaseExpires)

-----------------------------------------------------------------------------
\* "Re-delivering the task cannot import the catalogue twice": after an import
\* has committed its result no execution begins with the rows, whatever has
\* become of the status since: a retry that raced, a lease that ran out, mails
\* that failed after the COMMIT, a handler that put the job back to queued.
NoImportAfterCompletion ==
  [][\A w \in Workers :
       worker'[w].pc = "rows" /\ worker[w].pc # "rows" => done = 0]_vars

\* A job that was accepted ends: it does not stay queued or in processing for
\* ever.  The exceptions are those the sweep's filter makes: somebody was
\* killed when the job had no attempts or no file left.
JobEnds == status \in {"queued", "processing"} ~> status \in Terminal \/ orphaned
=============================================================================
