------------------------------ MODULE JobQueue ------------------------------
(***************************************************************************)
(* The background job queue: services/jobs/service.py (enqueue, cancel and *)
(* the transitions), services/jobs/worker.py (claim, lease, error path),   *)
(* scripts/run_worker.py (the worker loop) and the endpoints that enqueue  *)
(* and cancel.                                                             *)
(*                                                                         *)
(* Every process talks to the `job` table through its own ORM session.     *)
(* SessionLocal is built with expire_on_commit=False, so a session keeps   *)
(* the copy of a row it first loaded: `seen` below.  A session decides on  *)
(* that copy and its UPDATE writes only the columns it changed relative to *)
(* the copy, by primary key, with no condition on what the row now holds.  *)
(*                                                                         *)
(* Time is abstracted to what the code compares: a lease is none, live or  *)
(* expired; a retry is backing off or due.                                 *)
(***************************************************************************)
EXTENDS Integers, FiniteSets

CONSTANTS
  Workers,        \* worker processes (scripts/run_worker.py)
  Clients,        \* concurrent API requests
  Keys,           \* the idempotency keys callers pass, None among them or not
  None,           \* "no key" and "no worker"
  MaxJobs,        \* bound: rows ever inserted
  AttemptLimits,  \* the max_attempts a caller may ask for (the API: always 1)
  MaxAborts,      \* bound: runs that end without touching their row
  MaxOverruns     \* bound: leases that expire under a handler still running

ASSUME ConstantsAssumption ==
  /\ None \notin Workers
  /\ MaxJobs \in Nat /\ MaxAborts \in Nat /\ MaxOverruns \in Nat
  /\ AttemptLimits \subseteq Nat \ {0}

VARIABLES
  row,       \* the job table; a row's number is its created_at rank
  run,       \* what each worker is executing, and the row copy its session holds
  req,       \* the API request in flight at each client
  aborts,    \* runs abandoned so far
  overruns   \* leases outlived so far

vars == <<row, run, req, aborts, overruns>>

Jobs == 1..MaxJobs

Active   == {"queued", "running"}
Terminal == {"succeeded", "failed", "canceled", "partially_succeeded"}

Row == [status   : {"absent"} \cup Active \cup Terminal,
        key      : Keys \cup {None},
        cancel   : BOOLEAN,                      \* cancel_requested_at is set
        lease    : {"none", "live", "expired"},  \* lease_expires_at against now()
        backoff  : BOOLEAN,                      \* next_retry_at is in the future
        worker   : Workers \cup {None},
        attempt  : Nat,
        max      : Nat]

NoRow == [status |-> "absent", key |-> None, cancel |-> FALSE, lease |-> "none",
          backoff |-> FALSE, worker |-> None, attempt |-> 0, max |-> 0]

\* A worker between two iterations, and a client with no request in flight.
IdleRun == [phase |-> "idle", job |-> 0, seen |-> NoRow]
IdleReq == [op |-> "idle", key |-> None, job |-> 0, seen |-> "absent"]

Run == [phase : {"idle", "claimed", "checking", "working"},
        job : Jobs \cup {0}, seen : Row]
Req == [op : {"idle", "insert", "cancel"}, key : Keys \cup {None},
        job : Jobs \cup {0}, seen : {"absent"} \cup Active]

-----------------------------------------------------------------------------
Executes(w, j) == run[w].phase # "idle" /\ run[w].job = j

HasActive(k) == \E j \in Jobs : row[j].key = k /\ row[j].status \in Active

\* The partial unique index uq_job_active_idem: the rows the database accepts.
UniqueActiveKey(rows) ==
  \A i, j \in Jobs :
     /\ i # j
     /\ rows[i].status \in Active /\ rows[j].status \in Active
     /\ rows[i].key # None
     => rows[i].key # rows[j].key

\* An ORM attribute assignment reaches the UPDATE only if it differs from the
\* session's copy; otherwise the column keeps whatever the row holds now.
Merge(now, seen, new) == IF new = seen THEN now ELSE new

\* Mutant of Marked: the other spelling, which ck_job_status does not allow.
MarkedMisspelt(r, seen, status) ==
  [r EXCEPT !.status = IF status = "canceled" THEN "cancelled" ELSE status]

\* mark_succeeded, mark_partial, mark_canceled, mark_failed
Marked(r, seen, status) ==
  [r EXCEPT !.status = Merge(r.status, seen.status, status)]

\* requeue_for_retry
Requeued(r, seen) ==
  [r EXCEPT !.status  = Merge(r.status, seen.status, "queued"),
            !.lease   = Merge(r.lease, seen.lease, "none"),
            !.worker  = Merge(r.worker, seen.worker, None),
            !.backoff = TRUE]

\* Mutants of Due: the re-claim forgets the expiry, the status, or is missing.
DueWithoutExpiry(r) == \/ r.status = "queued" /\ ~r.backoff
                       \/ r.status = "running" /\ r.lease # "none"
DueWithoutStatus(r) == \/ r.status = "queued" /\ ~r.backoff
                       \/ r.status # "absent" /\ r.lease = "expired"
DueOnlyQueued(r)    == r.status = "queued" /\ ~r.backoff

\* The rows the claim query selects.
Due(r) == \/ r.status = "queued" /\ ~r.backoff
          \/ r.status = "running" /\ r.lease = "expired"

\* The UPDATE of the claim query.
Claimed(r, w) ==
  [r EXCEPT !.status = "running", !.worker = w, !.lease = "live",
            !.attempt = @ + 1, !.backoff = FALSE]

\* Another process may hold the row's lock, so that SKIP LOCKED passes over it.
MayBeLocked(j) == \/ \E w \in Workers : Executes(w, j)
                  \/ \E c \in Clients : req[c].op = "cancel" /\ req[c].job = j

-----------------------------------------------------------------------------
Init ==
  /\ row = [j \in Jobs |-> NoRow]
  /\ run = [w \in Workers |-> IdleRun]
  /\ req = [c \in Clients |-> IdleReq]
  /\ aborts = 0
  /\ overruns = 0

-----------------------------------------------------------------------------
\* API requests.

\* enqueue: the SELECT for an active job with the key found none (an existing
\* one is returned and nothing changes).
EnqueueRead(c, k) ==
  /\ req[c].op = "idle"
  /\ k = None \/ ~HasActive(k)
  /\ req' = [req EXCEPT ![c] = [IdleReq EXCEPT !.op = "insert", !.key = k]]
  /\ UNCHANGED <<row, run, aborts, overruns>>

\* Mutant of EnqueueInsert: no unique index behind the SELECT.
EnqueueInsertNoIndex(c, j, limit) ==
  /\ req[c].op = "insert"
  /\ row[j].status = "absent"
  /\ row' = [row EXCEPT ![j] = [NoRow EXCEPT !.status = "queued",
                                              !.key = req[c].key, !.max = limit]]
  /\ req' = [req EXCEPT ![c] = IdleReq]
  /\ UNCHANGED <<run, aborts, overruns>>

\* enqueue: the INSERT commits.  created_at is the start of the transaction, so
\* the new row may rank before rows that committed earlier.
EnqueueInsert(c, j, limit) ==
  /\ req[c].op = "insert"
  /\ row[j].status = "absent"
  /\ row' = [row EXCEPT ![j] = [NoRow EXCEPT !.status = "queued",
                                              !.key = req[c].key, !.max = limit]]
  /\ UniqueActiveKey(row')
  /\ req' = [req EXCEPT ![c] = IdleReq]
  /\ UNCHANGED <<run, aborts, overruns>>

\* enqueue: the index refused the INSERT; the winner is returned, or the error
\* is raised when the winner has ended in between.
EnqueueConflict(c) ==
  /\ req[c].op = "insert"
  /\ req[c].key # None /\ HasActive(req[c].key)
  /\ req' = [req EXCEPT ![c] = IdleReq]
  /\ UNCHANGED <<row, run, aborts, overruns>>

\* cancel_job loads the row; a terminal one is returned as it is.
CancelRead(c, j) ==
  /\ req[c].op = "idle"
  /\ row[j].status \in Active
  /\ req' = [req EXCEPT ![c] = [IdleReq EXCEPT !.op = "cancel", !.job = j,
                                                !.seen = row[j].status]]
  /\ UNCHANGED <<row, run, aborts, overruns>>

\* request_cancel writes what it decided on the copy.
CancelWrite(c) ==
  /\ req[c].op = "cancel"
  /\ row' = [row EXCEPT ![req[c].job] =
               IF req[c].seen = "queued"
               THEN [@ EXCEPT !.cancel = TRUE, !.status = "canceled"]
               ELSE [@ EXCEPT !.cancel = TRUE]]
  /\ req' = [req EXCEPT ![c] = IdleReq]
  /\ UNCHANGED <<run, aborts, overruns>>

-----------------------------------------------------------------------------
\* Workers.

\* claim_next: the atomic claim, oldest due row first among those not locked.
Claim(w, j) ==
  /\ run[w].phase = "idle"
  /\ Due(row[j])
  /\ \A i \in Jobs : i < j /\ Due(row[i]) => MayBeLocked(i)
  /\ row' = [row EXCEPT ![j] = Claimed(@, w)]
  /\ run' = [run EXCEPT ![w] = [IdleRun EXCEPT !.phase = "claimed", !.job = j]]
  /\ UNCHANGED <<req, aborts, overruns>>

\* claim_next: db.get and db.refresh, after the claim has committed.
Load(w) ==
  /\ run[w].phase = "claimed"
  /\ run' = [run EXCEPT ![w].phase = "checking", ![w].seen = row[run[w].job]]
  /\ UNCHANGED <<row, req, aborts, overruns>>

\* The run of w ends with its row written as r.
End(w, r) ==
  /\ row' = [row EXCEPT ![run[w].job] = r]
  /\ run' = [run EXCEPT ![w] = IdleRun]
  /\ UNCHANGED <<req, aborts, overruns>>

Mark(w, status) == End(w, Marked(row[run[w].job], run[w].seen, status))

\* run_claimed: no handler is registered for the job type.
NoHandler(w) ==
  /\ run[w].phase = "checking"
  /\ Mark(w, "failed")

\* check_canceled, on the session's copy: JobCanceled, or the work goes on.
CheckpointCancels(w) ==
  /\ run[w].phase = "checking"
  /\ run[w].seen.cancel
  /\ Mark(w, "canceled")

\* Mutant of CheckpointPasses: the flag is not looked at.
CheckpointAlwaysPasses(w) ==
  /\ run[w].phase = "checking"
  /\ run' = [run EXCEPT ![w].phase = "working"]
  /\ UNCHANGED <<row, req, aborts, overruns>>

CheckpointPasses(w) ==
  /\ run[w].phase = "checking"
  /\ ~run[w].seen.cancel
  /\ run' = [run EXCEPT ![w].phase = "working"]
  /\ UNCHANGED <<row, req, aborts, overruns>>

\* Mutant of ErrorRetries: one attempt too many.
ErrorRetriesOnceMore(w) ==
  /\ run[w].phase \in {"checking", "working"}
  /\ run[w].seen.attempt <= run[w].seen.max
  /\ End(w, Requeued(row[run[w].job], run[w].seen))

\* _on_error while attempts remain.  The UPDATE to queued is subject to the
\* unique index: refused, it raises out of run_once and the row stays as it is.
ErrorRetries(w) ==
  /\ run[w].phase \in {"checking", "working"}
  /\ run[w].seen.attempt < run[w].seen.max
  /\ LET r == Requeued(row[run[w].job], run[w].seen)
     IN  IF UniqueActiveKey([row EXCEPT ![run[w].job] = r])
         THEN End(w, r)
         ELSE End(w, row[run[w].job])

\* _on_error with no attempt left.
ErrorFails(w) ==
  /\ run[w].phase \in {"checking", "working"}
  /\ run[w].seen.attempt >= run[w].seen.max
  /\ Mark(w, "failed")

\* The handler returned.
Finish(w, status) ==
  /\ run[w].phase = "working"
  /\ status \in {"succeeded", "partially_succeeded"}
  /\ Mark(w, status)

\* The run ends and its row is not written: the process died, or an exception
\* left run_once (a handler's database error leaves the transaction aborted and
\* run_claimed does not roll back, so the commit in _on_error raises) and the
\* loop of run_worker.py logged it.
Abort(w) ==
  /\ run[w].phase # "idle"
  /\ aborts < MaxAborts
  /\ aborts' = aborts + 1
  /\ run' = [run EXCEPT ![w] = IdleRun]
  /\ UNCHANGED <<row, req, overruns>>

-----------------------------------------------------------------------------
\* Time.

Owned(j) == \E w \in Workers : row[j].worker = w /\ Executes(w, j)

\* The lease of a claim whose worker is gone runs out.
LeaseLapses(j) ==
  /\ row[j].status = "running" /\ row[j].lease = "live" /\ ~Owned(j)
  /\ row' = [row EXCEPT ![j].lease = "expired"]
  /\ UNCHANGED <<run, req, aborts, overruns>>

\* No handler calls heartbeat, so the lease of a claim whose worker is still at
\* work runs out too when the work takes longer than the lease.
LeaseOutlived(j) ==
  /\ row[j].status = "running" /\ row[j].lease = "live" /\ Owned(j)
  /\ overruns < MaxOverruns
  /\ overruns' = overruns + 1
  /\ row' = [row EXCEPT ![j].lease = "expired"]
  /\ UNCHANGED <<run, req, aborts>>

\* next_retry_at passes.
RetryDue(j) ==
  /\ row[j].status = "queued" /\ row[j].backoff
  /\ row' = [row EXCEPT ![j].backoff = FALSE]
  /\ UNCHANGED <<run, req, aborts, overruns>>

-----------------------------------------------------------------------------
HandlerStep(w) ==
  \/ Load(w)
  \/ NoHandler(w)
  \/ CheckpointCancels(w)
  \/ CheckpointPasses(w)
  \/ ErrorRetries(w)
  \/ ErrorFails(w)
  \/ \E s \in Terminal : Finish(w, s)

ClientStep(c) ==
  \/ \E k \in Keys : EnqueueRead(c, k)
  \/ \E j \in Jobs, limit \in AttemptLimits : EnqueueInsert(c, j, limit)
  \/ EnqueueConflict(c)
  \/ \E j \in Jobs : CancelRead(c, j)
  \/ CancelWrite(c)

Next ==
  \/ \E c \in Clients : ClientStep(c)
  \/ \E w \in Workers, j \in Jobs : Claim(w, j)
  \/ \E w \in Workers : HandlerStep(w)
  \/ \E w \in Workers : Abort(w)
  \/ \E j \in Jobs : LeaseLapses(j) \/ LeaseOutlived(j) \/ RetryDue(j)

Spec == Init /\ [][Next]_vars

\* The loop of run_worker.py polls for ever (a claim is taken while one is due),
\* a handler returns or raises, an API request in flight is answered, and time
\* passes.  Nothing forces a new request, an abort or an overrun.
Fairness ==
  /\ WF_vars(\E w \in Workers, j \in Jobs : Claim(w, j))
  /\ \A w \in Workers : WF_vars(HandlerStep(w))
  /\ \A c \in Clients : WF_vars(CancelWrite(c))
  /\ \A j \in Jobs : WF_vars(LeaseLapses(j)) /\ WF_vars(RetryDue(j))

FairSpec == Spec /\ Fairness

-----------------------------------------------------------------------------
\* Properties.

\* Every row, run and request has its type.
TypeOK ==
  /\ row \in [Jobs -> Row]
  /\ run \in [Workers -> Run]
  /\ req \in [Clients -> Req]
  /\ aborts \in 0..MaxAborts
  /\ overruns \in 0..MaxOverruns

\* Two enqueues that both read "no active job with this key", retries, re-claims
\* and late writers never leave two active jobs with one idempotency key.
OneActiveJobPerKey == UniqueActiveKey(row)

\* A running row has a lease, so that the claim query can select it again once its
\* worker is dead ("Stuck-job recovery", docs/s21 11).  It holds as long as no lease
\* is outlived; late writers can break it.
RunningIsReclaimable ==
  \A j \in Jobs : row[j].status = "running" => row[j].lease # "none"

\* Retries are bounded: a job is claimed more often than it may be attempted only
\* once per run abandoned, and once per lease outlived.
AttemptsAreBounded ==
  \A j \in Jobs : row[j].attempt <= row[j].max + aborts + overruns

\* As long as no lease is outlived, a job is executed by one worker at a time, the
\* one its row names.
SingleExecution ==
  \A w \in Workers, j \in Jobs :
     Executes(w, j) => /\ row[j].worker = w
                       /\ \A v \in Workers : Executes(v, j) => v = w

\* A run that loaded a cancel request does not end by writing a success.
EndsWithoutSuccess(w) ==
  run[w].phase # "idle" /\ run[w].seen.cancel /\ run'[w].phase = "idle"
  => \/ row'[run[w].job].status = row[run[w].job].status
     \/ row'[run[w].job].status \notin {"succeeded", "partially_succeeded"}

\* A cancel that was in the row when the worker loaded it is honoured: that run does
\* not end in success, whatever the row holds by then.
LoadedCancelNeverSucceeds == [][\A w \in Workers : EndsWithoutSuccess(w)]_vars

\* A terminal row changes only through a worker that still executes the job or a
\* cancel request that read the row earlier.
QuietTerminalIsFinal ==
  [][\A j \in Jobs :
       row[j].status \in Terminal /\ ~MayBeLocked(j) => row'[j] = row[j]]_vars

\* Every enqueued job ends, when aborted runs are finitely many and no lease is
\* outlived.
EveryJobEnds ==
  \A j \in Jobs : row[j].status \in Active ~> row[j].status \in Terminal
=============================================================================
