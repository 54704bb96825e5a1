-------------------------- MODULE ImportJob_proofs --------------------------
(***************************************************************************)
(* After an import has committed its result no execution begins with the   *)
(* rows, for every number of workers, attempts, retries, messages and      *)
(* kills.                                                                  *)
(*                                                                         *)
(* The argument: the final COMMIT drops the file, and the only step that   *)
(* writes the file is the one that creates the job, which comes before     *)
(* every message and every execution.                                      *)
(***************************************************************************)
EXTENDS ImportJob, TLAPS

\* The request has not created the job: there is nothing to run.
Fresh ==
  api.pc = "new" =>
    /\ ~payload
    /\ done = 0
    /\ \A w \in Workers : worker[w].pc = "idle"
    /\ \A n \in 0..TaskRetries : queue[n] = 0

Created == api.pc # "new" => status # "none"

Consumed == done > 0 => ~payload

\* An execution that is going to be retried is not the last one.
HasRetry(r) ==
  \/ r.pc = "retry"
  \/ r.pc = "recover" /\ ~r.last

RetryOK(r) == HasRetry(r) => r.retries < TaskRetries

IInv ==
  /\ TypeOK
  /\ Fresh
  /\ Created
  /\ Consumed
  /\ \A w \in Workers : RetryOK(worker[w])

\* What the record types say of an execution.
LEMMA WorkerFields ==
  ASSUME TypeOK, NEW w \in Workers, worker[w].pc # "idle"
  PROVE  /\ worker[w].retries \in 0..TaskRetries
         /\ worker[w].pc \in {"refused", "raised", "recover"} => worker[w].row \in RowType
         /\ worker[w].pc = "recover" => worker[w].last \in BOOLEAN
<1>1. worker[w] \in WorkerType
  BY DEF TypeOK
<1> QED
  BY <1>1 DEF WorkerType, Idle

\* Records that describe an execution.
LEMMA WorkerRecords ==
  /\ Idle \in WorkerType
  /\ \A n \in 0..TaskRetries :
       /\ \A pc \in {"claim", "claimed", "started", "rows", "notify", "failed", "retry"} :
            [pc |-> pc, retries |-> n] \in WorkerType
       /\ \A row \in RowType :
            /\ \A pc \in {"refused", "raised"} :
                 [pc |-> pc, retries |-> n, row |-> row] \in WorkerType
            /\ \A last \in BOOLEAN :
                 [pc |-> "recover", retries |-> n, row |-> row, last |-> last] \in WorkerType
BY DEF WorkerType

\* A job that exists is loaded with a status and a heartbeat.
LEMMA RowTyped ==
  ASSUME TypeOK, status # "none"
  PROVE  Row \in RowType
BY DEF TypeOK, Row, RowType

\* A running execution belongs to a job that was created.
LEMMA RunningIsCreated ==
  ASSUME IInv, NEW w \in Workers, worker[w].pc # "idle"
  PROVE  api.pc # "new" /\ status # "none"
BY DEF IInv, Fresh, Created

\* The row after a step that leaves the attempts alone.
RowKept ==
  /\ status' \in {"queued", "processing"} \union Terminal \union {status}
  /\ attempts' \in 0..MaxAttempts
  /\ heartbeat' \in {"none", "fresh", "stale"}
  /\ payload' \in BOOLEAN
  /\ payload' => payload

\* Once the job is created, a step that turns the execution of w into r, creates
\* no file and counts imports only when it drops it keeps the invariant.
LEMMA ExecutionStep ==
  ASSUME IInv, NEW w \in Workers, NEW r \in WorkerType, RetryOK(r),
         worker' = [worker EXCEPT ![w] = r],
         api' = api, api.pc # "new",
         RowKept,
         queue' \in [0..TaskRetries -> Nat],
         host' = host, orphaned' \in BOOLEAN, kills' \in 0..MaxKills,
         done' \in Nat, done' = done \/ ~payload'
  PROVE  IInv'
<1>1. TypeOK'
  BY DEF IInv, TypeOK, RowKept
<1>2. \A v \in Workers : worker'[v] = IF v = w THEN r ELSE worker[v]
  BY DEF IInv, TypeOK
<1>3. \A v \in Workers : RetryOK(worker'[v])
  BY <1>2 DEF IInv
<1>4. Fresh' /\ Created' /\ Consumed'
  BY DEF IInv, Fresh, Created, Consumed, RowKept, Terminal
<1> QED
  BY <1>1, <1>3, <1>4 DEF IInv, RetryOK, HasRetry

\* The invariant holds at the start.
LEMMA InitIInv ==
  ASSUME ImportJobAssumption
  PROVE  Init => IInv
<1> SUFFICES ASSUME Init PROVE IInv
  OBVIOUS
<1>1. TypeOK
  <2>1. worker \in [Workers -> WorkerType] /\ api \in ApiType
    BY WorkerRecords DEF Init, ApiType
  <2>2. payload \in BOOLEAN /\ orphaned \in BOOLEAN
    BY DEF Init
  <2>3. queue \in [0..TaskRetries -> Nat] /\ attempts \in 0..MaxAttempts /\ kills \in 0..MaxKills
    BY DEF Init, ImportJobAssumption
  <2> QED
    BY <2>1, <2>2, <2>3 DEF Init, TypeOK
<1> QED
  BY <1>1 DEF Init, IInv, Fresh, Created, Consumed, RetryOK, HasRetry, Idle

\* The steps of the API, the sweep and time run no rows.
LEMMA ApiIInv ==
  ASSUME ImportJobAssumption, IInv, Enqueue \/ CheckRetry \/ ApiStep \/ KillApi
  PROVE  IInv'
<1>1. worker' = worker /\ host' = host /\ done' = done
  BY DEF Enqueue, CheckRetry, ApiStep, Dispatch, DispatchRaises, MarkDispatchFailed, Requeue, KillApi
<1>2. /\ api'.pc # "new" /\ api' \in ApiType
      /\ status' # "none" /\ status' \in {"queued", "processing"} \union Terminal
      /\ UNCHANGED <<attempts, heartbeat>> /\ payload' \in BOOLEAN
      /\ payload' => payload \/ api.pc = "new"
  <2>1. CASE Enqueue
    BY <2>1 DEF Enqueue, ApiType
  <2>2. CASE CheckRetry
    <3>1. api'.pc # "new" /\ api' \in ApiType
      BY <2>2 DEF CheckRetry, ApiType
    <3> QED
      BY <2>2, <3>1 DEF CheckRetry, rowVars, IInv, TypeOK, Terminal
  <2>3. CASE ApiStep
    BY <2>3 DEF ApiStep, Dispatch, DispatchRaises, MarkDispatchFailed, Requeue, ApiType, IInv,
                TypeOK, Created, Terminal, rowVars
  <2>4. CASE KillApi
    BY <2>4 DEF KillApi, ApiType, IInv, TypeOK, Created, Terminal, rowVars
  <2> QED
    BY <2>1, <2>2, <2>3, <2>4
<1>3. queue' \in [0..TaskRetries -> Nat]
  <2>1. \/ UNCHANGED queue
        \/ queue' = [queue EXCEPT ![0] = @ + 1]
    BY DEF Enqueue, CheckRetry, ApiStep, Dispatch, DispatchRaises, MarkDispatchFailed, Requeue,
           KillApi, Deliver
  <2> QED
    BY <2>1 DEF IInv, TypeOK, ImportJobAssumption
<1>4. orphaned' \in BOOLEAN /\ kills' \in 0..MaxKills
  <2>1. CASE KillApi
    <3>1. kills' \in 0..MaxKills
      BY <2>1 DEF KillApi, Orphan, IInv, TypeOK, ImportJobAssumption
    <3>2. orphaned' = (orphaned \/ attempts >= MaxAttempts \/ ~payload)
      BY <2>1 DEF KillApi, Orphan
    <3> QED
      BY <3>1, <3>2
  <2>2. CASE ~KillApi
    <3>1. UNCHANGED <<orphaned, kills>>
      BY <2>2 DEF Enqueue, CheckRetry, ApiStep, Dispatch, DispatchRaises, MarkDispatchFailed, Requeue
    <3> QED
      BY <3>1 DEF IInv, TypeOK
  <2> QED
    BY <2>1, <2>2
<1>5. TypeOK'
  BY <1>1, <1>2, <1>3, <1>4 DEF IInv, TypeOK
<1> QED
  BY <1>1, <1>2, <1>5 DEF IInv, Fresh, Created, Consumed, RetryOK, HasRetry

\* A worker takes a message, and the job is claimed or refused.
LEMMA ClaimIInv ==
  ASSUME ImportJobAssumption, IInv, NEW w \in Workers,
         Receive(w) \/ Claim(w) \/ Refuse(w) \/ GiveUp(w)
  PROVE  IInv'
<1>1. CASE Receive(w)
  <2>1. PICK n \in 0..TaskRetries :
          /\ queue[n] > 0
          /\ queue' = [queue EXCEPT ![n] = @ - 1]
          /\ worker' = [worker EXCEPT ![w] = [pc |-> "claim", retries |-> n]]
    BY <1>1 DEF Receive
  <2>2. queue' \in [0..TaskRetries -> Nat] /\ api.pc # "new"
    BY <2>1 DEF IInv, TypeOK, Fresh
  <2>3. [pc |-> "claim", retries |-> n] \in WorkerType /\ RetryOK([pc |-> "claim", retries |-> n])
    BY WorkerRecords DEF RetryOK, HasRetry
  <2>4. RowKept
    BY <1>1 DEF Receive, rowVars, RowKept, IInv, TypeOK
  <2> QED
    BY <1>1, <2>1, <2>2, <2>3, <2>4, ExecutionStep DEF Receive, IInv, TypeOK
<1>2. CASE Claim(w)
  <2>1. api.pc # "new" /\ worker[w].retries \in 0..TaskRetries
    BY <1>2, RunningIsCreated, WorkerFields DEF Claim, At, IInv
  <2> DEFINE r == [pc |-> "claimed", retries |-> worker[w].retries]
  <2>2. r \in WorkerType /\ RetryOK(r) /\ worker' = [worker EXCEPT ![w] = r]
    BY <1>2, <2>1, WorkerRecords DEF Claim, Goto, RetryOK, HasRetry
  <2>3. RowKept
    BY <1>2 DEF Claim, Claimable, RowKept, IInv, TypeOK, ImportJobAssumption
  <2> QED
    BY <1>2, <2>1, <2>2, <2>3, ExecutionStep DEF Claim, IInv, TypeOK
<1>3. CASE Refuse(w)
  <2>1. api.pc # "new" /\ worker[w].retries \in 0..TaskRetries /\ Row \in RowType
    BY <1>3, RunningIsCreated, WorkerFields, RowTyped DEF Refuse, At, IInv
  <2>2. \E r \in WorkerType : RetryOK(r) /\ worker' = [worker EXCEPT ![w] = r]
    <3> DEFINE r == [pc |-> "refused", retries |-> worker[w].retries, row |-> Row]
    <3>1. r \in WorkerType /\ RetryOK(r) /\ Idle \in WorkerType /\ RetryOK(Idle)
      BY <2>1, WorkerRecords DEF RetryOK, HasRetry, Idle
    <3> HIDE DEF r
    <3>2. worker' = [worker EXCEPT ![w] = r] \/ worker' = [worker EXCEPT ![w] = Idle]
      BY <1>3 DEF Refuse, Load, Ends, r
    <3> QED
      BY <3>1, <3>2
  <2>3. RowKept
    BY <1>3 DEF Refuse, rowVars, RowKept, IInv, TypeOK
  <2> QED
    BY <1>3, <2>1, <2>2, <2>3, ExecutionStep DEF Refuse, rowVars, IInv, TypeOK
<1>4. CASE GiveUp(w)
  <2>1. api.pc # "new"
    BY <1>4, RunningIsCreated DEF GiveUp, At
  <2>2. Idle \in WorkerType /\ RetryOK(Idle) /\ worker' = [worker EXCEPT ![w] = Idle]
    BY <1>4, WorkerRecords DEF GiveUp, Ends, RetryOK, HasRetry, Idle
  <2>3. RowKept
    BY <1>4 DEF GiveUp, Written, Terminal, RowKept, IInv, TypeOK
  <2> QED
    BY <1>4, <2>1, <2>2, <2>3, ExecutionStep DEF GiveUp, IInv, TypeOK
<1> QED
  BY <1>1, <1>2, <1>3, <1>4

\* The job runs: the rows begin only with the file, and the end drops it.
LEMMA RunIInv ==
  ASSUME ImportJobAssumption, IInv, NEW w \in Workers,
         \/ PayloadMissing(w) \/ Start(w) \/ Parse(w) \/ Progress(w) \/ Finish(w) \/ Notify(w)
  PROVE  IInv'
<1>1. api.pc # "new" /\ worker[w].retries \in 0..TaskRetries
  BY RunningIsCreated, WorkerFields
     DEF PayloadMissing, Start, Parse, Progress, Finish, Notify, At, IInv
<1>2. \E r \in WorkerType : RetryOK(r) /\ worker' = [worker EXCEPT ![w] = r]
  <2>1. CASE PayloadMissing(w) \/ Notify(w)
    BY <2>1, WorkerRecords DEF PayloadMissing, Notify, Ends, RetryOK, HasRetry, Idle
  <2>2. CASE Start(w) \/ Parse(w) \/ Finish(w)
    <3>1. PICK pc \in {"started", "rows", "notify"} : Goto(w, pc)
      BY <2>2 DEF Start, Parse, Finish
    <3>2. [pc |-> pc, retries |-> worker[w].retries] \in WorkerType
      BY <1>1, WorkerRecords
    <3>3. RetryOK([pc |-> pc, retries |-> worker[w].retries])
      BY DEF RetryOK, HasRetry
    <3> QED
      BY <3>1, <3>2, <3>3 DEF Goto
  <2>3. CASE Progress(w)
    <3>1. worker[w] \in WorkerType /\ RetryOK(worker[w])
      BY DEF IInv, TypeOK
    <3>2. worker' = [worker EXCEPT ![w] = worker[w]]
      BY <2>3 DEF Progress, IInv, TypeOK
    <3> QED
      BY <3>1, <3>2
  <2> QED
    BY <2>1, <2>2, <2>3
<1>3. RowKept
  <2>1. CASE PayloadMissing(w)
    BY <2>1 DEF PayloadMissing, Terminal, RowKept, IInv, TypeOK
  <2>2. CASE Start(w)
    BY <2>2 DEF Start, RowKept, IInv, TypeOK
  <2>3. CASE Progress(w)
    BY <2>3 DEF Progress, RowKept, IInv, TypeOK
  <2>4. CASE Finish(w)
    BY <2>4 DEF Finish, RowKept, IInv, TypeOK
  <2>5. CASE Parse(w) \/ Notify(w)
    BY <2>5 DEF Parse, Notify, rowVars, RowKept, IInv, TypeOK
  <2> QED
    BY <2>1, <2>2, <2>3, <2>4, <2>5
<1>4. done' \in Nat /\ (done' = done \/ ~payload')
  BY DEF PayloadMissing, Start, Parse, Progress, Finish, Notify, IInv, TypeOK
<1>5. UNCHANGED <<api, queue, host, orphaned, kills>>
  BY DEF PayloadMissing, Start, Parse, Progress, Finish, Notify
<1> QED
  BY <1>1, <1>2, <1>3, <1>4, <1>5, ExecutionStep DEF IInv, TypeOK

\* The job fails, is given back, and its task is retried.
LEMMA RecoverIInv ==
  ASSUME ImportJobAssumption, IInv, NEW w \in Workers,
         \/ Raise(w) \/ Fail(w) \/ LoadRecovery(w)
         \/ Recover(w) \/ RecoverFails(w) \/ RetryTask(w)
  PROVE  IInv'
<1> DEFINE n == worker[w].retries
<1>1. /\ api.pc # "new" /\ status # "none" /\ n \in 0..TaskRetries
      /\ worker[w].pc = "recover" => worker[w].last \in BOOLEAN
  BY RunningIsCreated, WorkerFields
     DEF Raise, Fail, LoadRecovery, Recover, RecoverFails, RetryTask, At, IInv
<1>2. \E r \in WorkerType : RetryOK(r) /\ worker' = [worker EXCEPT ![w] = r]
  <2>1. CASE Raise(w)
    <3>1. [pc |-> "raised", retries |-> n, row |-> Row] \in WorkerType
      BY <1>1, WorkerRecords, RowTyped DEF IInv
    <3>2. RetryOK([pc |-> "raised", retries |-> n, row |-> Row])
      BY DEF RetryOK, HasRetry
    <3> QED
      BY <2>1, <3>1, <3>2 DEF Raise, Load
  <2>2. CASE Fail(w)
    <3>1. [pc |-> "failed", retries |-> n] \in WorkerType
      BY <1>1, WorkerRecords
    <3>2. RetryOK([pc |-> "failed", retries |-> n])
      BY DEF RetryOK, HasRetry
    <3> QED
      BY <2>2, <3>1, <3>2 DEF Fail, Goto
  <2>3. CASE LoadRecovery(w)
    <3> DEFINE last == LastRun(w) \/ (host = "modal" /\ attempts >= MaxAttempts /\ status \notin EndedWell)
               r == [pc |-> "recover", retries |-> n, row |-> Row, last |-> last]
    <3>1. last \in BOOLEAN /\ (LastRun(w) => last)
      OBVIOUS
    <3>2. worker' = [worker EXCEPT ![w] = r]
      BY <2>3 DEF LoadRecovery
    <3> HIDE DEF last
    <3>3. r \in WorkerType
      BY <1>1, <3>1, WorkerRecords, RowTyped DEF IInv
    <3>4. ~last => n < TaskRetries
      BY <1>1, <3>1, ImportJobAssumption DEF LastRun, ImportJobAssumption
    <3>5. RetryOK(r)
      BY <3>4 DEF RetryOK, HasRetry
    <3> QED
      BY <3>2, <3>3, <3>5
  <2>4. CASE Recover(w) \/ RecoverFails(w)
    <3>1. Ends(w) \/ (Goto(w, "retry") /\ n < TaskRetries)
      BY <2>4, <1>1 DEF Recover, RecoverFails, LastRun, At, IInv, RetryOK, HasRetry, ImportJobAssumption
    <3>2. Idle \in WorkerType /\ RetryOK(Idle) /\ [pc |-> "retry", retries |-> n] \in WorkerType
      BY <1>1, WorkerRecords DEF RetryOK, HasRetry, Idle
    <3>3. n < TaskRetries => RetryOK([pc |-> "retry", retries |-> n])
      BY DEF RetryOK, HasRetry
    <3> QED
      BY <3>1, <3>2, <3>3 DEF Ends, Goto
  <2>5. CASE RetryTask(w)
    <3>1. n + 1 \in 0..TaskRetries
      BY <2>5, <1>1 DEF RetryTask, At, IInv, RetryOK, HasRetry, ImportJobAssumption
    <3> DEFINE r == [pc |-> "claim", retries |-> n + 1]
    <3>2. r \in WorkerType /\ Idle \in WorkerType
      BY <3>1, WorkerRecords
    <3>3. RetryOK(r) /\ RetryOK(Idle)
      BY DEF RetryOK, HasRetry, Idle
    <3>4. worker' = [worker EXCEPT ![w] = Idle] \/ worker' = [worker EXCEPT ![w] = r]
      BY <2>5 DEF RetryTask, Ends
    <3> HIDE DEF r
    <3> QED
      BY <3>2, <3>3, <3>4
  <2> QED
    BY <2>1, <2>2, <2>3, <2>4, <2>5
<1>3. RowKept
  BY DEF Raise, Fail, LoadRecovery, Recover, RecoverFails, RetryTask, rowVars, Written, Terminal,
         RowKept, IInv, TypeOK
<1>4. queue' \in [0..TaskRetries -> Nat]
  <2>1. CASE RetryTask(w)
    <3>1. UNCHANGED queue \/ queue' = [queue EXCEPT ![n + 1] = @ + 1]
      BY <2>1 DEF RetryTask, Deliver
    <3> QED
      BY <3>1 DEF IInv, TypeOK
  <2> QED
    BY <2>1 DEF Raise, Fail, LoadRecovery, Recover, RecoverFails, IInv, TypeOK
<1>5. UNCHANGED <<api, host, done, orphaned, kills>>
  BY DEF Raise, Fail, LoadRecovery, Recover, RecoverFails, RetryTask
<1> QED
  BY <1>1, <1>2, <1>3, <1>4, <1>5, ExecutionStep DEF IInv, TypeOK

\* The sweep, time and kills.
LEMMA FaultIInv ==
  ASSUME ImportJobAssumption, IInv,
         Sweep \/ LeaseExpires \/ \E w \in Workers : KillWorker(w)
  PROVE  IInv'
<1>1. CASE Sweep
  <2>1. queue' \in [0..TaskRetries -> Nat] /\ api.pc # "new"
    BY <1>1 DEF Sweep, SweepFinds, Deliver, IInv, TypeOK, Fresh, ImportJobAssumption
  <2>2. TypeOK'
    BY <1>1, <2>1 DEF Sweep, rowVars, IInv, TypeOK
  <2> QED
    BY <1>1, <2>1, <2>2 DEF Sweep, rowVars, IInv, Fresh, Created, Consumed, RetryOK, HasRetry
<1>2. CASE LeaseExpires
  <2>1. TypeOK'
    BY <1>2 DEF LeaseExpires, IInv, TypeOK
  <2> QED
    BY <1>2, <2>1 DEF LeaseExpires, IInv, Fresh, Created, Consumed, RetryOK, HasRetry
<1>3. ASSUME NEW w \in Workers, KillWorker(w) PROVE IInv'
  <2>1. api.pc # "new"
    BY <1>3, RunningIsCreated DEF KillWorker, At
  <2>2. Idle \in WorkerType /\ RetryOK(Idle) /\ worker' = [worker EXCEPT ![w] = Idle]
    BY <1>3, WorkerRecords DEF KillWorker, Ends, RetryOK, HasRetry, Idle
  <2>3. orphaned' \in BOOLEAN /\ kills' \in 0..MaxKills
    BY <1>3 DEF KillWorker, Orphan, IInv, TypeOK, ImportJobAssumption
  <2>4. RowKept
    BY <1>3 DEF KillWorker, rowVars, RowKept, IInv, TypeOK
  <2> QED
    BY <1>3, <2>1, <2>2, <2>3, <2>4, ExecutionStep DEF KillWorker, IInv, TypeOK
<1> QED
  BY <1>1, <1>2, <1>3

\* Every step keeps the invariant.
LEMMA StepIInv ==
  ASSUME ImportJobAssumption, IInv, [Next]_vars
  PROVE  IInv'
<1>1. CASE UNCHANGED vars
  BY <1>1 DEF vars, rowVars, IInv, TypeOK, Fresh, Created, Consumed, RetryOK, HasRetry
<1>2. ASSUME NEW w \in Workers, WorkerStep(w) \/ Progress(w)
      PROVE  IInv'
  BY <1>2, ClaimIInv, RunIInv, RecoverIInv DEF WorkerStep
<1> QED
  BY <1>1, <1>2, ApiIInv, FaultIInv DEF Next

LEMMA AlwaysIInv ==
  ASSUME ImportJobAssumption
  PROVE  Spec => []IInv
BY InitIInv, StepIInv, PTL DEF Spec

\* The row, the messages and the executions are what the module says, and the
\* attempts stay within MAX_JOB_ATTEMPTS.
THEOREM ImportTypeCorrect == Spec => []TypeOK
<1>1. IInv => TypeOK
  BY DEF IInv
<1> QED
  BY <1>1, AlwaysIInv, ImportJobAssumption, PTL

\* An execution that begins with the rows has the file, so no import has ended.
LEMMA RowsNeedFile ==
  ASSUME IInv, [Next]_vars, NEW w \in Workers, worker'[w].pc = "rows", worker[w].pc # "rows"
  PROVE  done = 0
<1>1. ASSUME NEW v \in Workers, NEW r, worker' = [worker EXCEPT ![v] = r], r.pc # "rows"
      PROVE  FALSE
  BY <1>1 DEF IInv, TypeOK
<1>2. Parse(w)
  <2>1. worker' # worker
    OBVIOUS
  <2>2. PICK v \in Workers : WorkerStep(v) \/ Progress(v) \/ KillWorker(v)
    BY <2>1 DEF Next, vars, Enqueue, CheckRetry, ApiStep, Dispatch, DispatchRaises, MarkDispatchFailed,
                Requeue, KillApi, Sweep, LeaseExpires
  <2>3. ~Receive(v)
    BY <1>1 DEF Receive
  <2>4. ~(Claim(v) \/ Start(v) \/ Finish(v) \/ Fail(v))
    BY <1>1 DEF Claim, Start, Finish, Fail, Goto
  <2>5. ~(Refuse(v) \/ Raise(v) \/ LoadRecovery(v))
    BY <1>1 DEF Refuse, Raise, LoadRecovery, Load, Ends, Idle
  <2>6. ~(GiveUp(v) \/ PayloadMissing(v) \/ Notify(v) \/ KillWorker(v))
    BY <1>1 DEF GiveUp, PayloadMissing, Notify, KillWorker, Ends, Idle
  <2>7. ~(Recover(v) \/ RecoverFails(v))
    BY <1>1 DEF Recover, RecoverFails, Ends, Idle, Goto
  <2>8. ~RetryTask(v)
    BY <1>1 DEF RetryTask, Ends, Idle
  <2>9. Parse(v)
    BY <2>1, <2>2, <2>3, <2>4, <2>5, <2>6, <2>7, <2>8 DEF WorkerStep, Progress
  <2>10. v = w
    BY <2>9 DEF Parse, Goto, IInv, TypeOK
  <2> QED
    BY <2>9, <2>10
<1>3. payload
  BY <1>2 DEF Parse
<1> QED
  BY <1>3 DEF IInv, TypeOK, Consumed

\* "Re-delivering the task cannot import the catalogue twice", whatever retries,
\* leases, mails and recoveries do in between.
THEOREM ImportedOnce == Spec => NoImportAfterCompletion
<1>1. IInv /\ [Next]_vars =>
        [\A w \in Workers : worker'[w].pc = "rows" /\ worker[w].pc # "rows" => done = 0]_vars
  BY RowsNeedFile
<1> QED
  BY <1>1, AlwaysIInv, ImportJobAssumption, PTL DEF Spec, NoImportAfterCompletion
=============================================================================
