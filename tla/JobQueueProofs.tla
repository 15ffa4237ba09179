---------------------------- MODULE JobQueueProofs ----------------------------
(***************************************************************************)
(* Theorems of JobQueue, for every number of workers, clients, jobs,       *)
(* attempts, aborted runs and outlived leases; and of Projects, what the   *)
(* queue's clustering job stores, for every mailbox, every table of        *)
(* logarithms and every dimension of the vectors.                          *)
(***************************************************************************)
EXTENDS JobQueue, Projects, FiniteSetTheorems, TLAPS

\* What the row writes return is a row.
LEMMA WritesAreRows ==
  ASSUME NEW r \in Row, NEW seen \in Row, NEW w \in Workers
  PROVE  /\ \A s \in Active \cup Terminal : Marked(r, seen, s) \in Row
         /\ Requeued(r, seen) \in Row
         /\ Claimed(r, w) \in Row
<1>1. ASSUME NEW s \in Active \cup Terminal PROVE Marked(r, seen, s) \in Row
  BY <1>1 DEF Marked, Row, Merge
<1>2. Requeued(r, seen) \in Row
  BY DEF Requeued, Row, Merge, Active
<1>3. Claimed(r, w) \in Row
  <2>1. r.attempt + 1 \in Nat
    BY DEF Row
  <2> QED
    BY <2>1 DEF Claimed, Row, Active
<1> QED
  BY <1>1, <1>2, <1>3

LEMMA CancelsAreRows ==
  ASSUME NEW r \in Row
  PROVE  /\ [r EXCEPT !.cancel = TRUE] \in Row
         /\ [r EXCEPT !.cancel = TRUE, !.status = "canceled"] \in Row
<1>1. [r EXCEPT !.cancel = TRUE] \in Row
  BY DEF Row
<1>2. \A s \in Row : [s EXCEPT !.status = "canceled"] \in Row
  BY DEF Row, Terminal
<1>3. [r EXCEPT !.cancel = TRUE, !.status = "canceled"]
        = [[r EXCEPT !.cancel = TRUE] EXCEPT !.status = "canceled"]
  BY DEF Row
<1> QED
  BY <1>1, <1>2, <1>3

LEMMA NoRowIsRow == NoRow \in Row
  BY DEF NoRow, Row, Active, Terminal

LEMMA IdleTypes == IdleRun \in Run /\ IdleReq \in Req
  BY NoRowIsRow DEF IdleRun, IdleReq, Run, Req

\* A run that is not idle is on a job.
RunsOnJob == \A w \in Workers : run[w].phase # "idle" => run[w].job \in Jobs

\* A cancel in flight is on a job.
CancelsJob == \A c \in Clients : req[c].op = "cancel" => req[c].job \in Jobs /\ req[c].seen \in Active

TypeInv == TypeOK /\ RunsOnJob /\ CancelsJob

\* Writing one row of a run that ends.
LEMMA EndTypes ==
  ASSUME TypeInv, NEW w \in Workers, run[w].phase # "idle", NEW r \in Row, End(w, r)
  PROVE  TypeInv'
<1>1. run[w].job \in Jobs
  BY DEF TypeInv, RunsOnJob
<1>2. row' \in [Jobs -> Row]
  BY <1>1 DEF TypeInv, TypeOK, End
<1>3. run' \in [Workers -> Run] /\ RunsOnJob'
  BY IdleTypes DEF TypeInv, TypeOK, End, RunsOnJob, IdleRun
<1> QED
  BY <1>2, <1>3 DEF TypeInv, TypeOK, End, CancelsJob

LEMMA TypeInvInit == Init => TypeInv
  BY NoRowIsRow, IdleTypes, ConstantsAssumption
  DEF Init, TypeInv, TypeOK, RunsOnJob, CancelsJob, IdleRun, IdleReq

\* One step per action.
LEMMA TypeInvNext == TypeInv /\ [Next]_vars => TypeInv'
<1> SUFFICES ASSUME TypeInv, [Next]_vars PROVE TypeInv'
  OBVIOUS
<1> USE ConstantsAssumption
<1>1. ASSUME NEW c \in Clients, NEW k \in Keys, EnqueueRead(c, k) PROVE TypeInv'
  BY <1>1, IdleTypes DEF EnqueueRead, TypeInv, TypeOK, RunsOnJob, CancelsJob, Req, IdleReq
<1>2. ASSUME NEW c \in Clients, NEW j \in Jobs, NEW limit \in AttemptLimits,
             EnqueueInsert(c, j, limit)
      PROVE  TypeInv'
  <2>1. [NoRow EXCEPT !.status = "queued", !.key = req[c].key, !.max = limit] \in Row
    BY <1>2, NoRowIsRow DEF TypeInv, TypeOK, Req, Row, NoRow, Active
  <2> QED
    BY <1>2, <2>1, IdleTypes
    DEF EnqueueInsert, TypeInv, TypeOK, RunsOnJob, CancelsJob, IdleReq
<1>3. ASSUME NEW c \in Clients, EnqueueConflict(c) PROVE TypeInv'
  BY <1>3, IdleTypes DEF EnqueueConflict, TypeInv, TypeOK, RunsOnJob, CancelsJob, IdleReq
<1>4. ASSUME NEW c \in Clients, NEW j \in Jobs, CancelRead(c, j) PROVE TypeInv'
  BY <1>4, IdleTypes
  DEF CancelRead, TypeInv, TypeOK, RunsOnJob, CancelsJob, Req, IdleReq
<1>5. ASSUME NEW c \in Clients, CancelWrite(c) PROVE TypeInv'
  <2>1. req[c].job \in Jobs
    BY <1>5 DEF CancelWrite, TypeInv, CancelsJob
  <2> DEFINE r == row[req[c].job]
  <2>2. [r EXCEPT !.cancel = TRUE, !.status = "canceled"] \in Row /\ [r EXCEPT !.cancel = TRUE] \in Row
    BY <2>1, CancelsAreRows DEF TypeInv, TypeOK
  <2>3. row' \in [Jobs -> Row]
    <3>1. row' = [row EXCEPT ![req[c].job] =
                    IF req[c].seen = "queued"
                    THEN [r EXCEPT !.cancel = TRUE, !.status = "canceled"]
                    ELSE [r EXCEPT !.cancel = TRUE]]
      BY <1>5, <2>1 DEF CancelWrite
    <3> HIDE DEF r
    <3> QED
      BY <2>1, <2>2, <3>1 DEF TypeInv, TypeOK
  <2> QED
    BY <1>5, <2>3, IdleTypes
    DEF CancelWrite, TypeInv, TypeOK, RunsOnJob, CancelsJob, IdleReq
<1>6. ASSUME NEW w \in Workers, NEW j \in Jobs, Claim(w, j) PROVE TypeInv'
  <2>1. row' \in [Jobs -> Row]
    BY <1>6, WritesAreRows DEF Claim, TypeInv, TypeOK
  <2>2. run' \in [Workers -> Run] /\ RunsOnJob'
    BY <1>6, NoRowIsRow DEF Claim, TypeInv, TypeOK, RunsOnJob, Run, IdleRun
  <2> QED
    BY <1>6, <2>1, <2>2 DEF Claim, TypeInv, TypeOK, CancelsJob
<1>7. ASSUME NEW w \in Workers, Load(w) PROVE TypeInv'
  BY <1>7 DEF Load, TypeInv, TypeOK, RunsOnJob, CancelsJob, Run
<1>8. ASSUME NEW w \in Workers, NoHandler(w) PROVE TypeInv'
  BY <1>8, EndTypes, WritesAreRows
  DEF NoHandler, Mark, TypeInv, TypeOK, RunsOnJob, Run, Terminal
<1>9. ASSUME NEW w \in Workers, CheckpointCancels(w) PROVE TypeInv'
  BY <1>9, EndTypes, WritesAreRows
  DEF CheckpointCancels, Mark, TypeInv, TypeOK, RunsOnJob, Run, Terminal
<1>10. ASSUME NEW w \in Workers, CheckpointPasses(w) PROVE TypeInv'
  BY <1>10 DEF CheckpointPasses, TypeInv, TypeOK, RunsOnJob, CancelsJob, Run
<1>11. ASSUME NEW w \in Workers, ErrorRetries(w) PROVE TypeInv'
  BY <1>11, EndTypes, WritesAreRows
  DEF ErrorRetries, TypeInv, TypeOK, RunsOnJob, Run
<1>12. ASSUME NEW w \in Workers, ErrorFails(w) PROVE TypeInv'
  BY <1>12, EndTypes, WritesAreRows
  DEF ErrorFails, Mark, TypeInv, TypeOK, RunsOnJob, Run, Terminal
<1>13. ASSUME NEW w \in Workers, NEW s \in Terminal, Finish(w, s) PROVE TypeInv'
  BY <1>13, EndTypes, WritesAreRows
  DEF Finish, Mark, TypeInv, TypeOK, RunsOnJob, Run
<1>14. ASSUME NEW w \in Workers, Abort(w) PROVE TypeInv'
  BY <1>14, IdleTypes DEF Abort, TypeInv, TypeOK, RunsOnJob, CancelsJob, IdleRun
<1>15. ASSUME NEW j \in Jobs, LeaseLapses(j) PROVE TypeInv'
  BY <1>15 DEF LeaseLapses, TypeInv, TypeOK, RunsOnJob, CancelsJob, Row
<1>16. ASSUME NEW j \in Jobs, LeaseOutlived(j) PROVE TypeInv'
  BY <1>16 DEF LeaseOutlived, TypeInv, TypeOK, RunsOnJob, CancelsJob, Row
<1>17. ASSUME NEW j \in Jobs, RetryDue(j) PROVE TypeInv'
  <2>1. [row[j] EXCEPT !.backoff = FALSE] \in Row
    BY DEF TypeInv, TypeOK, Row
  <2>2. row' \in [Jobs -> Row]
    BY <1>17, <2>1 DEF RetryDue, TypeInv, TypeOK
  <2> QED
    BY <1>17, <2>2 DEF RetryDue, TypeInv, TypeOK, RunsOnJob, CancelsJob
<1>18. CASE UNCHANGED vars
  BY <1>18 DEF vars, TypeInv, TypeOK, RunsOnJob, CancelsJob
<1> QED
  BY <1>1, <1>2, <1>3, <1>4, <1>5, <1>6, <1>7, <1>8, <1>9, <1>10, <1>11, <1>12,
     <1>13, <1>14, <1>15, <1>16, <1>17, <1>18
  DEF Next, ClientStep, HandlerStep

\* Type correctness: every row a late writer produces is a row the table accepts.
THEOREM TypeCorrect == Spec => []TypeOK
<1>1. Spec => []TypeInv
  BY TypeInvInit, TypeInvNext, PTL DEF Spec
<1>2. TypeInv => TypeOK
  BY DEF TypeInv
<1> QED
  BY <1>1, <1>2, PTL

-----------------------------------------------------------------------------
\* The columns a write sets.
LEMMA MarkedColumns ==
  ASSUME NEW r \in Row, NEW seen \in Row, NEW s
  PROVE  /\ Marked(r, seen, s).status = Merge(r.status, seen.status, s)
         /\ Marked(r, seen, s).lease = r.lease
  BY DEF Marked, Row

LEMMA RequeuedColumns ==
  ASSUME NEW r \in Row, NEW seen \in Row
  PROVE  /\ Requeued(r, seen).status = Merge(r.status, seen.status, "queued")
         /\ Requeued(r, seen).lease = Merge(r.lease, seen.lease, "none")
  BY DEF Requeued, Row

\* Replacing one row leaves the keys of active rows distinct, if the new row is not
\* active or was already active with the same key.
LEMMA OneRowKeepsKeys ==
  ASSUME TypeInv, OneActiveJobPerKey, NEW j \in Jobs, NEW r \in Row,
         row' = [row EXCEPT ![j] = r],
         r.status \in Active => row[j].status \in Active /\ r.key = row[j].key
  PROVE  OneActiveJobPerKey'
  BY DEF TypeInv, TypeOK, OneActiveJobPerKey, UniqueActiveKey

LEMMA UnchangedKeepsKeys == OneActiveJobPerKey /\ UNCHANGED row => OneActiveJobPerKey'
  BY DEF OneActiveJobPerKey, UniqueActiveKey

\* Marked rows are terminal or keep their status.
LEMMA MarkKeepsKeys ==
  ASSUME TypeInv, OneActiveJobPerKey, NEW w \in Workers, run[w].phase # "idle",
         NEW s \in Terminal, Mark(w, s)
  PROVE  OneActiveJobPerKey'
<1> DEFINE r == Marked(row[run[w].job], run[w].seen, s)
<1>1. run[w].job \in Jobs /\ run[w].seen \in Row /\ row[run[w].job] \in Row
  BY DEF TypeInv, TypeOK, RunsOnJob, Run
<1>2. r \in Row
  BY <1>1, WritesAreRows
<1>3. r.status \in Active => row[run[w].job].status \in Active /\ r.key = row[run[w].job].key
  BY <1>1 DEF Marked, Merge, Row, Active, Terminal
<1>4. row' = [row EXCEPT ![run[w].job] = r]
  BY DEF Mark, End
<1> HIDE DEF r
<1> QED
  BY <1>1, <1>2, <1>3, <1>4, OneRowKeepsKeys

LEMMA OneActiveJobPerKeyNext ==
  TypeInv /\ OneActiveJobPerKey /\ [Next]_vars => OneActiveJobPerKey'
<1> SUFFICES ASSUME TypeInv, OneActiveJobPerKey, [Next]_vars PROVE OneActiveJobPerKey'
  OBVIOUS
<1>1. ASSUME NEW c \in Clients, NEW j \in Jobs, NEW limit \in AttemptLimits,
             EnqueueInsert(c, j, limit)
      PROVE  OneActiveJobPerKey'
  BY <1>1 DEF EnqueueInsert, OneActiveJobPerKey
<1>2. ASSUME NEW c \in Clients, CancelWrite(c) PROVE OneActiveJobPerKey'
  <2> DEFINE j == req[c].job
             r == row'[j]
  <2>1. j \in Jobs /\ row[j] \in Row
    BY <1>2 DEF CancelWrite, TypeInv, CancelsJob, TypeOK
  <2>2. r = IF req[c].seen = "queued"
            THEN [row[j] EXCEPT !.cancel = TRUE, !.status = "canceled"]
            ELSE [row[j] EXCEPT !.cancel = TRUE]
    BY <1>2, <2>1 DEF CancelWrite, TypeInv, TypeOK
  <2>3. r \in Row
    <3> HIDE DEF r
    <3> QED BY <2>1, <2>2, CancelsAreRows
  <2>4. r.status \in Active => row[j].status \in Active
    <3> HIDE DEF r
    <3> QED BY <2>1, <2>2 DEF Row, Active, Terminal
  <2>5. r.key = row[j].key
    <3> HIDE DEF r
    <3> QED BY <2>1, <2>2 DEF Row
  <2>6. row' = [row EXCEPT ![j] = r]
    BY <1>2, <2>1, <2>2 DEF CancelWrite, TypeInv, TypeOK
  <2> HIDE DEF r, j
  <2> QED
    BY <2>1, <2>3, <2>4, <2>5, <2>6, OneRowKeepsKeys
<1>3. ASSUME NEW w \in Workers, NEW j \in Jobs, Claim(w, j) PROVE OneActiveJobPerKey'
  <2>1. row[j] \in Row /\ Claimed(row[j], w) \in Row
    BY WritesAreRows DEF TypeInv, TypeOK
  <2>2. row[j].status \in Active /\ Claimed(row[j], w).key = row[j].key
    BY <1>3, <2>1 DEF Claim, Due, Active, Claimed, Row
  <2> QED
    BY <1>3, <2>1, <2>2, OneRowKeepsKeys DEF Claim
<1>4. ASSUME NEW w \in Workers, NoHandler(w) \/ CheckpointCancels(w) \/ ErrorFails(w)
      PROVE  OneActiveJobPerKey'
  BY <1>4, MarkKeepsKeys DEF NoHandler, CheckpointCancels, ErrorFails, Terminal
<1>5. ASSUME NEW w \in Workers, NEW s \in Terminal, Finish(w, s) PROVE OneActiveJobPerKey'
  BY <1>5, MarkKeepsKeys DEF Finish
<1>6. ASSUME NEW w \in Workers, ErrorRetries(w) PROVE OneActiveJobPerKey'
  <2> DEFINE r == Requeued(row[run[w].job], run[w].seen)
  <2>1. run[w].job \in Jobs /\ run[w].phase # "idle"
    BY <1>6 DEF ErrorRetries, TypeInv, TypeOK, RunsOnJob, Run
  <2>2. CASE UniqueActiveKey([row EXCEPT ![run[w].job] = r])
    BY <1>6, <2>2 DEF ErrorRetries, End, OneActiveJobPerKey
  <2>3. CASE ~UniqueActiveKey([row EXCEPT ![run[w].job] = r])
    <3>1. row' = row
      BY <1>6, <2>1, <2>3 DEF ErrorRetries, End, TypeInv, TypeOK
    <3> QED
      BY <3>1, UnchangedKeepsKeys
  <2> QED
    BY <2>2, <2>3
<1>7. ASSUME NEW j \in Jobs, LeaseLapses(j) \/ LeaseOutlived(j) \/ RetryDue(j)
      PROVE  OneActiveJobPerKey'
  BY <1>7
  DEF LeaseLapses, LeaseOutlived, RetryDue, TypeInv, TypeOK, Row, OneActiveJobPerKey,
      UniqueActiveKey
<1>8. CASE UNCHANGED row
  BY <1>8, UnchangedKeepsKeys
<1> QED
  BY <1>1, <1>2, <1>3, <1>4, <1>5, <1>6, <1>7, <1>8
  DEF Next, ClientStep, HandlerStep, EnqueueRead, EnqueueConflict, CancelRead, Load,
      CheckpointPasses, Abort, vars

\* Idempotency: at most one active job per key, whatever the interleaving.
THEOREM OneActiveJobPerKeyHolds == Spec => []OneActiveJobPerKey
<1>1. Init => OneActiveJobPerKey
  BY DEF Init, OneActiveJobPerKey, UniqueActiveKey, NoRow, Active
<1>2. Spec => []TypeInv
  BY TypeInvInit, TypeInvNext, PTL DEF Spec
<1> QED
  BY <1>1, <1>2, OneActiveJobPerKeyNext, PTL DEF Spec

-----------------------------------------------------------------------------
\* A run past the checkpoint loaded a row without a cancel request.
WorkingSawNoCancel == \A w \in Workers : run[w].phase = "working" => ~run[w].seen.cancel

LEMMA WorkingSawNoCancelNext ==
  TypeInv /\ WorkingSawNoCancel /\ [Next]_vars => WorkingSawNoCancel'
<1> SUFFICES ASSUME TypeInv, WorkingSawNoCancel, [Next]_vars PROVE WorkingSawNoCancel'
  OBVIOUS
<1>1. CASE UNCHANGED run
  BY <1>1 DEF WorkingSawNoCancel
<1>2. ASSUME NEW w \in Workers, run' = [run EXCEPT ![w] = IdleRun] PROVE WorkingSawNoCancel'
  BY <1>2 DEF WorkingSawNoCancel, TypeInv, TypeOK, IdleRun
<1>3. ASSUME NEW w \in Workers, NEW j \in Jobs, Claim(w, j) PROVE WorkingSawNoCancel'
  BY <1>3 DEF Claim, WorkingSawNoCancel, TypeInv, TypeOK, IdleRun
<1>4. ASSUME NEW w \in Workers, Load(w) PROVE WorkingSawNoCancel'
  BY <1>4 DEF Load, WorkingSawNoCancel, TypeInv, TypeOK, Run
<1>5. ASSUME NEW w \in Workers, CheckpointPasses(w) PROVE WorkingSawNoCancel'
  BY <1>5 DEF CheckpointPasses, WorkingSawNoCancel, TypeInv, TypeOK, Run
<1>6. ASSUME NEW w \in Workers, HandlerStep(w) PROVE WorkingSawNoCancel'
  BY <1>2, <1>4, <1>5, <1>6
  DEF HandlerStep, NoHandler, CheckpointCancels, ErrorRetries, ErrorFails, Finish, Mark, End
<1>7. ASSUME NEW w \in Workers, Abort(w) PROVE WorkingSawNoCancel'
  BY <1>2, <1>7 DEF Abort
<1> QED
  BY <1>1, <1>3, <1>6, <1>7
  DEF Next, ClientStep, EnqueueRead, EnqueueInsert, EnqueueConflict, CancelRead, CancelWrite,
      LeaseLapses, LeaseOutlived, RetryDue, vars

\* A cancel request committed before a worker loaded the row is honoured by that run.
THEOREM LoadedCancelHolds == Spec => LoadedCancelNeverSucceeds
<1>1. TypeInv /\ WorkingSawNoCancel /\ [Next]_vars => [\A w \in Workers : EndsWithoutSuccess(w)]_vars
  <2> SUFFICES ASSUME TypeInv, WorkingSawNoCancel, Next, NEW w \in Workers,
                      run[w].phase # "idle", run[w].seen.cancel, run'[w].phase = "idle"
               PROVE  \/ row'[run[w].job].status = row[run[w].job].status
                      \/ row'[run[w].job].status \notin {"succeeded", "partially_succeeded"}
    BY DEF EndsWithoutSuccess
  <2> DEFINE j == run[w].job
  <2>1. j \in Jobs /\ run[w].seen \in Row /\ row[j] \in Row
    BY DEF TypeInv, TypeOK, RunsOnJob, Run
  <2>2. CASE HandlerStep(w)
    <3>1. ~\E s \in Terminal : Finish(w, s)
      BY DEF WorkingSawNoCancel, Finish
    <3>2. ~Load(w) /\ ~CheckpointPasses(w)
      BY DEF Load, CheckpointPasses, TypeInv, TypeOK, Run
    <3>3. CASE NoHandler(w) \/ CheckpointCancels(w) \/ ErrorFails(w)
      <4>1. PICK s \in {"failed", "canceled"} : row'[j] = Marked(row[j], run[w].seen, s)
        BY <2>1, <3>3
        DEF NoHandler, CheckpointCancels, ErrorFails, Mark, End, TypeInv, TypeOK
      <4>2. row'[j].status = Merge(row[j].status, run[w].seen.status, s)
        BY <2>1, <4>1, MarkedColumns
      <4> QED
        BY <4>2 DEF Merge
    <3>4. CASE ErrorRetries(w)
      <4>1. row'[j] = Requeued(row[j], run[w].seen) \/ row'[j] = row[j]
        BY <2>1, <3>4 DEF ErrorRetries, End, TypeInv, TypeOK
      <4> QED
        BY <2>1, <4>1, RequeuedColumns DEF Merge
    <3> QED
      BY <2>2, <3>1, <3>2, <3>3, <3>4 DEF HandlerStep
  <2>3. CASE \E v \in Workers : v # w /\ HandlerStep(v)
    BY <2>3
    DEF HandlerStep, Load, CheckpointPasses, NoHandler, CheckpointCancels, ErrorRetries,
        ErrorFails, Finish, Mark, End, TypeInv, TypeOK
  <2>4. CASE \E v \in Workers : Abort(v)
    BY <2>4 DEF Abort
  <2>5. CASE \E v \in Workers, i \in Jobs : Claim(v, i)
    BY <2>5 DEF Claim, TypeInv, TypeOK, IdleRun
  <2>6. CASE run' = run
    BY <2>6
  <2> QED
    BY <2>2, <2>3, <2>4, <2>5, <2>6
    DEF Next, ClientStep, EnqueueRead, EnqueueInsert, EnqueueConflict, CancelRead,
        CancelWrite, LeaseLapses, LeaseOutlived, RetryDue
<1>2. Init => WorkingSawNoCancel
  BY DEF Init, WorkingSawNoCancel, IdleRun
<1>3. Spec => []TypeInv
  BY TypeInvInit, TypeInvNext, PTL DEF Spec
<1>4. Spec => []WorkingSawNoCancel
  BY <1>2, <1>3, WorkingSawNoCancelNext, PTL DEF Spec
<1>5. Spec => [][\A w \in Workers : EndsWithoutSuccess(w)]_vars
  BY <1>1, <1>3, <1>4, PTL DEF Spec
<1> QED
  BY <1>5 DEF LoadedCancelNeverSucceeds

\* A terminal row that no worker executes and no cancel has read is never changed.
THEOREM QuietTerminalHolds == Spec => QuietTerminalIsFinal
<1> DEFINE Still == \A j \in Jobs :
       row[j].status \in Terminal /\ ~MayBeLocked(j) => row'[j] = row[j]
<1>1. TypeInv /\ [Next]_vars => [Still]_vars
  <2> SUFFICES ASSUME TypeInv, Next, NEW j \in Jobs,
                      row[j].status \in Terminal, ~MayBeLocked(j)
               PROVE  row'[j] = row[j]
    OBVIOUS
  <2>1. CASE \E c \in Clients : ClientStep(c)
    BY <2>1
    DEF ClientStep, EnqueueRead, EnqueueInsert, EnqueueConflict, CancelRead, CancelWrite,
        MayBeLocked, TypeInv, TypeOK, Terminal
  <2>2. CASE \E w \in Workers, i \in Jobs : Claim(w, i)
    BY <2>2 DEF Claim, Due, TypeInv, TypeOK, Terminal
  <2>3. CASE \E w \in Workers : HandlerStep(w)
    BY <2>3
    DEF HandlerStep, Load, CheckpointPasses, NoHandler, CheckpointCancels, ErrorRetries,
        ErrorFails, Finish, Mark, End, MayBeLocked, Executes, TypeInv, TypeOK
  <2>4. CASE \E w \in Workers : Abort(w)
    BY <2>4 DEF Abort
  <2>5. CASE \E i \in Jobs : LeaseLapses(i) \/ LeaseOutlived(i) \/ RetryDue(i)
    BY <2>5 DEF LeaseLapses, LeaseOutlived, RetryDue, TypeInv, TypeOK, Terminal
  <2> QED
    BY <2>1, <2>2, <2>3, <2>4, <2>5 DEF Next
<1>2. Spec => []TypeInv
  BY TypeInvInit, TypeInvNext, PTL DEF Spec
<1>3. Spec => [][Still]_vars
  <2> HIDE DEF Still
  <2> QED BY <1>1, <1>2, PTL DEF Spec
<1> QED
  BY <1>3 DEF QuietTerminalIsFinal

-----------------------------------------------------------------------------
\* The inductive invariant behind SingleExecution, when no lease is outlived: a worker
\* that executes a job holds its live lease, from the claim to the end of the run, and
\* its session loaded the row after the claim.  A late cancel may have overwritten the
\* status, which frees nothing: no claim query selects a canceled row.
OwnerInv ==
  /\ \A w \in Workers, j \in Jobs :
        Executes(w, j) => /\ row[j].worker = w
                          /\ row[j].lease = "live"
                          /\ row[j].status \in {"running", "canceled"}
  /\ \A w \in Workers :
        run[w].phase \in {"checking", "working"} => run[w].seen.status \in {"running", "canceled"}
  /\ RunningIsReclaimable

\* The rows no worker executes stay reclaimable when they are written.
LEMMA OwnerEnd ==
  ASSUME TypeInv, OwnerInv, NEW w \in Workers, run[w].phase # "idle",
         NEW r \in Row, r.status = "running" => r.lease # "none", End(w, r)
  PROVE  OwnerInv'
<1> DEFINE j == run[w].job
<1>1. j \in Jobs
  BY DEF TypeInv, RunsOnJob
<1>2. \A v \in Workers : v # w => run'[v] = run[v]
  BY DEF End, TypeInv, TypeOK
<1>3. run'[w] = IdleRun
  BY DEF End, TypeInv, TypeOK
<1>4. \A i \in Jobs : i # j => row'[i] = row[i]
  BY DEF End, TypeInv, TypeOK
<1>5. row'[j] = r
  BY <1>1 DEF End, TypeInv, TypeOK
<1>6. Executes(w, j)
  BY DEF Executes
<1>7. \A v \in Workers, i \in Jobs : Executes(v, i)' => v # w /\ i # j /\ Executes(v, i)
  BY <1>1, <1>2, <1>3, <1>6 DEF Executes, OwnerInv, IdleRun
<1> HIDE DEF j
<1>8. \A v \in Workers, i \in Jobs :
         Executes(v, i)' => /\ row'[i].worker = v /\ row'[i].lease = "live"
                            /\ row'[i].status \in {"running", "canceled"}
  BY <1>4, <1>7 DEF OwnerInv
<1>9. \A v \in Workers :
         run'[v].phase \in {"checking", "working"} => run'[v].seen.status \in {"running", "canceled"}
  BY <1>2, <1>3 DEF OwnerInv, IdleRun
<1>10. RunningIsReclaimable'
  BY <1>4, <1>5 DEF OwnerInv, RunningIsReclaimable
<1> QED
  BY <1>8, <1>9, <1>10 DEF OwnerInv

LEMMA OwnerMark ==
  ASSUME TypeInv, OwnerInv, NEW w \in Workers, run[w].phase \in {"checking", "working"},
         NEW s \in Terminal, Mark(w, s)
  PROVE  OwnerInv'
<1> DEFINE r == row[run[w].job]
<1>1. run[w].job \in Jobs /\ r \in Row /\ run[w].seen \in Row
  BY DEF TypeInv, TypeOK, RunsOnJob, Run
<1>2. r.lease = "live"
  BY <1>1 DEF OwnerInv, Executes
<1>3. Marked(r, run[w].seen, s).lease = "live"
  BY <1>1, <1>2, MarkedColumns
<1>4. Marked(r, run[w].seen, s) \in Row
  BY <1>1, WritesAreRows
<1> QED
  BY <1>3, <1>4, OwnerEnd DEF Mark

LEMMA OwnerInvNext ==
  ASSUME MaxOverruns = 0
  PROVE  TypeInv /\ TypeInv' /\ OwnerInv /\ [Next]_vars => OwnerInv'
<1> SUFFICES ASSUME TypeInv, TypeInv', OwnerInv, [Next]_vars PROVE OwnerInv'
  OBVIOUS
<1>1. CASE UNCHANGED <<row, run>>
  BY <1>1 DEF OwnerInv, RunningIsReclaimable, Executes
<1>2. ASSUME NEW c \in Clients, NEW j \in Jobs, NEW limit \in AttemptLimits,
             EnqueueInsert(c, j, limit)
      PROVE  OwnerInv'
  <2>1. \A w \in Workers : ~Executes(w, j)
    BY <1>2 DEF EnqueueInsert, OwnerInv
  <2>2. \A i \in Jobs : i # j => row'[i] = row[i]
    BY <1>2 DEF EnqueueInsert, TypeInv, TypeOK
  <2>3. row'[j].status = "queued"
    BY <1>2, NoRowIsRow DEF EnqueueInsert, TypeInv, TypeOK, NoRow
  <2>4. run' = run
    BY <1>2 DEF EnqueueInsert
  <2> QED
    BY <2>1, <2>2, <2>3, <2>4 DEF OwnerInv, RunningIsReclaimable, Executes
<1>3. ASSUME NEW c \in Clients, CancelWrite(c) PROVE OwnerInv'
  <2> DEFINE j == req[c].job
  <2>1. j \in Jobs /\ row[j] \in Row /\ run' = run
    BY <1>3 DEF CancelWrite, TypeInv, CancelsJob, TypeOK
  <2>2. \A i \in Jobs : i # j => row'[i] = row[i]
    BY <1>3 DEF CancelWrite, TypeInv, TypeOK
  <2>3. \/ row'[j] = [row[j] EXCEPT !.cancel = TRUE, !.status = "canceled"]
        \/ row'[j] = [row[j] EXCEPT !.cancel = TRUE]
    BY <1>3, <2>1 DEF CancelWrite, TypeInv, TypeOK
  <2>4. /\ row'[j].worker = row[j].worker /\ row'[j].lease = row[j].lease
        /\ row'[j].status \in {row[j].status, "canceled"}
    BY <2>1, <2>3 DEF Row
  <2> HIDE DEF j
  <2> QED
    BY <2>1, <2>2, <2>4 DEF OwnerInv, RunningIsReclaimable, Executes
<1>4. ASSUME NEW w \in Workers, NEW j \in Jobs, Claim(w, j) PROVE OwnerInv'
  <2>1. \A v \in Workers : ~Executes(v, j)
    BY <1>4 DEF Claim, Due, OwnerInv
  <2>2. \A i \in Jobs : i # j => row'[i] = row[i]
    BY <1>4 DEF Claim, TypeInv, TypeOK
  <2>3. row'[j] = Claimed(row[j], w) /\ row[j] \in Row
    BY <1>4 DEF Claim, TypeInv, TypeOK
  <2>4. row'[j].status = "running" /\ row'[j].worker = w /\ row'[j].lease = "live"
    BY <2>3 DEF Claimed, Row
  <2>5. \A v \in Workers : v # w => run'[v] = run[v]
    BY <1>4 DEF Claim, TypeInv, TypeOK
  <2>6. run'[w].phase = "claimed" /\ run'[w].job = j
    BY <1>4 DEF Claim, TypeInv, TypeOK, IdleRun
  <2> QED
    BY <2>1, <2>2, <2>4, <2>5, <2>6 DEF OwnerInv, RunningIsReclaimable, Executes
<1>5. ASSUME NEW w \in Workers, Load(w) PROVE OwnerInv'
  <2>1. \A v \in Workers : v # w => run'[v] = run[v]
    BY <1>5 DEF Load, TypeInv, TypeOK
  <2>2. run'[w].phase = "checking" /\ run'[w].job = run[w].job /\ run'[w].seen = row[run[w].job]
    BY <1>5 DEF Load, TypeInv, TypeOK, Run
  <2>3. run[w].job \in Jobs /\ Executes(w, run[w].job) /\ row' = row
    BY <1>5 DEF Load, TypeInv, RunsOnJob, Executes
  <2>4. \A v \in Workers, i \in Jobs : Executes(v, i)' => Executes(v, i)
    BY <2>1, <2>2, <2>3 DEF Executes
  <2>5. run'[w].seen.status \in {"running", "canceled"}
    BY <2>2, <2>3 DEF OwnerInv
  <2>6. \A v \in Workers :
           run'[v].phase \in {"checking", "working"} => run'[v].seen.status \in {"running", "canceled"}
    BY <2>1, <2>5 DEF OwnerInv
  <2> QED
    BY <2>3, <2>4, <2>6 DEF OwnerInv, RunningIsReclaimable
<1>6. ASSUME NEW w \in Workers, NoHandler(w) \/ CheckpointCancels(w) \/ ErrorFails(w)
      PROVE  OwnerInv'
  BY <1>6, OwnerMark DEF NoHandler, CheckpointCancels, ErrorFails, Terminal
<1>7. ASSUME NEW w \in Workers, NEW s \in Terminal, Finish(w, s) PROVE OwnerInv'
  BY <1>7, OwnerMark DEF Finish
<1>8. ASSUME NEW w \in Workers, CheckpointPasses(w) PROVE OwnerInv'
  BY <1>8 DEF CheckpointPasses, OwnerInv, RunningIsReclaimable, Executes, TypeInv, TypeOK, Run
<1>9. ASSUME NEW w \in Workers, ErrorRetries(w) PROVE OwnerInv'
  <2> DEFINE r == row[run[w].job]
             q == Requeued(r, run[w].seen)
  <2>1. run[w].job \in Jobs /\ r \in Row /\ run[w].seen \in Row /\ run[w].phase # "idle"
    BY <1>9 DEF ErrorRetries, TypeInv, TypeOK, RunsOnJob, Run
  <2>2. q.status = "queued"
    BY <1>9, <2>1, RequeuedColumns DEF ErrorRetries, OwnerInv, Merge
  <2>3. q \in Row
    BY <2>1, WritesAreRows
  <2>4. r.status = "running" => r.lease # "none"
    BY <2>1 DEF OwnerInv, RunningIsReclaimable
  <2>5. End(w, q) \/ End(w, r)
    BY <1>9 DEF ErrorRetries
  <2> HIDE DEF q, r
  <2> QED
    BY <2>1, <2>2, <2>3, <2>4, <2>5, OwnerEnd
<1>10. ASSUME NEW w \in Workers, Abort(w) PROVE OwnerInv'
  BY <1>10 DEF Abort, OwnerInv, RunningIsReclaimable, Executes, TypeInv, TypeOK, IdleRun
<1>11. ASSUME NEW j \in Jobs, LeaseLapses(j) \/ RetryDue(j) PROVE OwnerInv'
  <2>1. run' = run /\ \A i \in Jobs : i # j => row'[i] = row[i]
    BY <1>11 DEF LeaseLapses, RetryDue, TypeInv, TypeOK
  <2>2. \A w \in Workers : ~Executes(w, j)
    BY <1>11 DEF LeaseLapses, RetryDue, Owned, OwnerInv
  <2>3. row'[j].status = "running" => row'[j].lease # "none"
    <3>1. row[j] \in Row
      BY DEF TypeInv, TypeOK
    <3>2. CASE LeaseLapses(j)
      BY <3>1, <3>2 DEF LeaseLapses, TypeInv, TypeOK, Row
    <3>3. CASE RetryDue(j)
      <4>1. row'[j] = [row[j] EXCEPT !.backoff = FALSE]
        BY <3>3 DEF RetryDue, TypeInv, TypeOK
      <4>2. row'[j].status = row[j].status
        BY <3>1, <4>1 DEF Row
      <4> QED
        BY <3>3, <4>2 DEF RetryDue
    <3> QED
      BY <1>11, <3>2, <3>3
  <2> QED
    BY <2>1, <2>2, <2>3 DEF OwnerInv, RunningIsReclaimable, Executes
<1>12. ASSUME NEW j \in Jobs, LeaseOutlived(j) PROVE FALSE
  BY <1>12 DEF LeaseOutlived, TypeInv, TypeOK
<1> QED
  BY <1>1, <1>2, <1>3, <1>4, <1>5, <1>6, <1>7, <1>8, <1>9, <1>10, <1>11, <1>12
  DEF Next, ClientStep, HandlerStep, EnqueueRead, EnqueueConflict, CancelRead, vars

\* The lease is a lock as long as it is never outlived: one worker per job, and no
\* running row is lost to the claim query.
THEOREM LeaseIsALock ==
  ASSUME MaxOverruns = 0
  PROVE  Spec => []SingleExecution /\ []RunningIsReclaimable
<1>1. Init => OwnerInv
  BY DEF Init, OwnerInv, Executes, RunningIsReclaimable, IdleRun, NoRow
<1>2. Spec => []TypeInv
  BY TypeInvInit, TypeInvNext, PTL DEF Spec
<1>3. TypeInv /\ TypeInv' /\ OwnerInv /\ [Next]_vars => OwnerInv'
  BY OwnerInvNext
<1>4. Spec => []OwnerInv
  BY <1>1, <1>2, <1>3, PTL DEF Spec
<1>5. OwnerInv => SingleExecution /\ RunningIsReclaimable
  BY DEF OwnerInv, SingleExecution
<1> QED
  BY <1>4, <1>5, PTL

-----------------------------------------------------------------------------
(***************************************************************************)
(* Attempts.  A job is charged with the attempts it has made, one more if  *)
(* its row may still be claimed, and one for each worker that may still    *)
(* send it back.  Below its limit a claim creates such a worker, at the    *)
(* limit it does not; only an abandoned run or an outlived lease opens a   *)
(* row that no worker sent back.                                           *)
(***************************************************************************)
Open(j) == \/ row[j].status = "queued"
           \/ row[j].status = "running" /\ row[j].lease = "expired"
           \/ row[j].status = "running" /\ row[j].lease = "live" /\ ~Owned(j)

MayRetry(j) ==
  {w \in Workers : /\ Executes(w, j)
                   /\ IF run[w].phase = "claimed" THEN row[j].attempt < row[j].max
                      ELSE run[w].seen.attempt < run[w].seen.max}

Least(a, b) == IF a < b THEN a ELSE b

Charge(j) ==
  row[j].status # "absent" =>
    row[j].attempt + (IF Open(j) THEN 1 ELSE 0) + Cardinality(MayRetry(j))
      <= 1 + Least(row[j].attempt, row[j].max - 1) + aborts + overruns

Fresh == /\ \A j \in Jobs : row[j].status = "absent" =>
              row[j].attempt = 0 /\ \A w \in Workers : ~Executes(w, j)
         /\ \A c \in Clients : req[c].op = "cancel" => row[req[c].job].status # "absent"
         /\ \A j \in Jobs : row[j].status # "absent" => row[j].max \in Nat \ {0}

\* A worker that has loaded its row knows its limit, and that it runs while it has it.
Loaded == \A w \in Workers, j \in Jobs :
            Executes(w, j) /\ run[w].phase # "claimed" =>
              /\ run[w].seen.max = row[j].max
              /\ row[j].status = "running" /\ row[j].worker = w => run[w].seen.status = "running"

ChargeInv == Fresh /\ Loaded /\ \A j \in Jobs : Charge(j)

LEMMA RetriersAreFinite ==
  ASSUME IsFiniteSet(Workers), NEW j \in Jobs
  PROVE  IsFiniteSet(MayRetry(j)) /\ Cardinality(MayRetry(j)) \in Nat
<1>1. MayRetry(j) \in SUBSET Workers BY DEF MayRetry
<1>2. IsFiniteSet(MayRetry(j)) BY <1>1, FS_Subset
<1> QED BY <1>2, FS_CardinalityType

LEMMA BalanceKept ==
  ASSUME NEW a \in Nat, NEW k \in Int, NEW o \in 0..1, NEW p \in 0..1, NEW n \in Nat, NEW m \in Nat,
         NEW x \in Nat, NEW y \in Nat, NEW x2 \in Nat, NEW y2 \in Nat,
         m <= n, x + y <= x2 + y2, p <= o \/ m < n \/ x + y < x2 + y2,
         a + o + n <= 1 + k + x + y
  PROVE  a + p + m <= 1 + k + x2 + y2
  OBVIOUS

\* A step that makes no attempt keeps the charge, if a row that opens is paid for by a
\* worker that no longer sends it back, or by an abandoned run or an outlived lease.
LEMMA ChargeKept ==
  ASSUME IsFiniteSet(Workers), TypeInv, TypeInv', NEW j \in Jobs, Charge(j),
         row[j].status # "absent",
         row'[j].attempt = row[j].attempt, row'[j].max = row[j].max,
         MayRetry(j)' \subseteq MayRetry(j),
         aborts + overruns <= aborts' + overruns',
         \/ Open(j)' => Open(j)
         \/ \E w \in MayRetry(j) : w \notin MayRetry(j)'
         \/ aborts + overruns < aborts' + overruns'
  PROVE  Charge(j)'
<1>1. /\ row[j].attempt \in Nat /\ row[j].max \in Nat
      /\ aborts \in Nat /\ overruns \in Nat /\ aborts' \in Nat /\ overruns' \in Nat
  BY ConstantsAssumption DEF TypeInv, TypeOK, Row
<1>2. /\ IsFiniteSet(MayRetry(j)) /\ Cardinality(MayRetry(j)) \in Nat
      /\ IsFiniteSet(MayRetry(j)') /\ Cardinality(MayRetry(j)') \in Nat
      /\ Cardinality(MayRetry(j)') <= Cardinality(MayRetry(j))
  <2>1. IsFiniteSet(MayRetry(j)) /\ Cardinality(MayRetry(j)) \in Nat BY RetriersAreFinite
  <2>2. MayRetry(j)' \in SUBSET MayRetry(j) OBVIOUS
  <2>3. IsFiniteSet(MayRetry(j)') /\ Cardinality(MayRetry(j)') <= Cardinality(MayRetry(j))
    BY <2>1, <2>2, FS_Subset
  <2> QED BY <2>1, <2>3, FS_CardinalityType
<1> DEFINE n == Cardinality(MayRetry(j))
           m == Cardinality(MayRetry(j)')
<1>3. (\E w \in MayRetry(j) : w \notin MayRetry(j)') => m < n
  <2>1. MayRetry(j)' \in SUBSET MayRetry(j) OBVIOUS
  <2>2. m <= n /\ (n = m => MayRetry(j) = MayRetry(j)') BY <1>2, <2>1, FS_Subset
  <2> QED BY <1>2, <2>2
<1>4. row[j].attempt + (IF Open(j) THEN 1 ELSE 0) + n
        <= 1 + Least(row[j].attempt, row[j].max - 1) + aborts + overruns
  BY DEF Charge
<1>5. Least(row[j].attempt, row[j].max - 1) \in Int BY <1>1 DEF Least
<1> DEFINE o == IF Open(j) THEN 1 ELSE 0
           p == IF Open(j)' THEN 1 ELSE 0
<1>6. o \in 0..1 /\ p \in 0..1 /\ (p <= o \/ (Open(j)' /\ ~Open(j))) OBVIOUS
<1>7. p <= o \/ m < n \/ aborts + overruns < aborts' + overruns' BY <1>3, <1>6
<1>8. row[j].attempt + p + m <= 1 + Least(row[j].attempt, row[j].max - 1) + aborts' + overruns'
  <2>1. o \in 0..1 /\ p \in 0..1 /\ n \in Nat /\ m \in Nat /\ m <= n BY <1>2, <1>6
  <2>2. row[j].attempt + o + n <= 1 + Least(row[j].attempt, row[j].max - 1) + aborts + overruns
    BY <1>4
  <2> HIDE DEF n, m, o, p
  <2> QED BY <1>1, <1>5, <1>7, <2>1, <2>2, BalanceKept
<1> QED BY <1>8 DEF Charge, Least

\* A job whose row and whose workers are left alone.
LEMMA ChargeUntouched ==
  ASSUME IsFiniteSet(Workers), TypeInv, TypeInv', NEW j \in Jobs, Charge(j),
         row[j].status # "absent", row'[j] = row[j],
         \A w \in Workers : \/ run'[w] = run[w]
                            \/ ~Executes(w, j) /\ ~Executes(w, j)',
         aborts + overruns <= aborts' + overruns'
  PROVE  Charge(j)'
<1>1. \A w \in Workers : Executes(w, j)' <=> Executes(w, j) BY DEF Executes
<1>2. Owned(j)' <=> Owned(j) BY <1>1 DEF Owned
<1>3. Open(j)' => Open(j) BY <1>2 DEF Open
<1>4. MayRetry(j)' \subseteq MayRetry(j) BY <1>1 DEF MayRetry, Executes
<1> QED BY <1>3, <1>4, ChargeKept

\* The columns that a late write leaves alone.
LEMMA MarkedRest ==
  ASSUME NEW r \in Row, NEW seen \in Row, NEW s
  PROVE  LET q == Marked(r, seen, s)
         IN  q.attempt = r.attempt /\ q.max = r.max /\ q.worker = r.worker /\ q.lease = r.lease
             /\ (q.status = s \/ (seen.status = s /\ q.status = r.status))
  BY DEF Marked, Row, Merge

LEMMA RequeuedRest ==
  ASSUME NEW r \in Row, NEW seen \in Row
  PROVE  LET q == Requeued(r, seen)
         IN  q.attempt = r.attempt /\ q.max = r.max /\ q.worker \in {r.worker, None}
             /\ q.status \in {r.status, "queued"}
  BY DEF Requeued, Row, Merge

\* A run that ends: every other job is left alone, and this one loses a worker that
\* might have sent it back.
LEMMA EndFrame ==
  ASSUME IsFiniteSet(Workers), TypeInv, TypeInv', ChargeInv, NEW w \in Workers,
         run[w].phase # "idle", NEW j \in Jobs, run[w].job = j, \A i \in Jobs : i # j => row'[i] = row[i],
         run' = [run EXCEPT ![w] = IdleRun], req' = req, aborts + overruns <= aborts' + overruns',
         row'[j].attempt = row[j].attempt, row'[j].max = row[j].max,
         row'[j].status # "absent", row'[j].worker \in {row[j].worker, None},
         row'[j].status = "running" => row[j].status = "running"
  PROVE  /\ Fresh' /\ Loaded'
         /\ \A i \in Jobs : i # j => Charge(i)'
         /\ MayRetry(j)' = MayRetry(j) \ {w}
         /\ \A v \in Workers : Executes(v, j)' <=> Executes(v, j) /\ v # w
<1>1. Executes(w, j) BY DEF Executes
<1>3. \A v \in Workers : run'[v] = IF v = w THEN IdleRun ELSE run[v] BY DEF TypeInv, TypeOK
<1>4. \A v \in Workers, i \in Jobs : Executes(v, i)' <=> Executes(v, i) /\ v # w
  BY <1>3 DEF Executes, IdleRun
<1>5. row[j].status # "absent" BY <1>1 DEF ChargeInv, Fresh
<1>6. Fresh'
  <2>1. \A i \in Jobs : row'[i].status = "absent" => row[i].status = "absent" /\ row'[i] = row[i]
    OBVIOUS
  <2>2. \A i \in Jobs : row'[i].max = row[i].max /\ (row[i].status = "absent" => row'[i].status = "absent")
    BY <1>5
  <2>3. \A c \in Clients : req[c].op = "cancel" => req[c].job \in Jobs BY DEF TypeInv, CancelsJob
  <2>4. \A i \in Jobs : row'[i].status = "absent" =>
           row'[i].attempt = 0 /\ \A v \in Workers : ~Executes(v, i)'
    BY <1>4, <2>1 DEF ChargeInv, Fresh
  <2> QED BY <2>1, <2>2, <2>3, <2>4 DEF ChargeInv, Fresh
<1>7. Loaded'
  <2> SUFFICES ASSUME NEW v \in Workers, NEW i \in Jobs, Executes(v, i)', run'[v].phase # "claimed"
               PROVE  /\ run'[v].seen.max = row'[i].max
                      /\ row'[i].status = "running" /\ row'[i].worker = v => run'[v].seen.status = "running"
    BY DEF Loaded
  <2>1. v # w /\ Executes(v, i) /\ run'[v] = run[v] BY <1>3, <1>4
  <2>2. /\ run[v].seen.max = row[i].max
        /\ row[i].status = "running" /\ row[i].worker = v => run[v].seen.status = "running"
    BY <2>1 DEF ChargeInv, Loaded
  <2>3. row'[i].max = row[i].max OBVIOUS
  <2>4. row'[i].status = "running" /\ row'[i].worker = v => row[i].status = "running" /\ row[i].worker = v
    BY ConstantsAssumption
  <2> QED BY <2>1, <2>2, <2>3, <2>4
<1>8. ASSUME NEW i \in Jobs, i # j PROVE Charge(i)'
  <2>1. row'[i] = row[i] BY <1>8
  <2>2. \A v \in Workers : run'[v] = run[v] \/ (~Executes(v, i) /\ ~Executes(v, i)')
    BY <1>3, <1>4, <1>8 DEF Executes
  <2>3. Charge(i) BY DEF ChargeInv
  <2>4. CASE row[i].status = "absent" BY <2>1, <2>4 DEF Charge
  <2>5. CASE row[i].status # "absent" BY <2>1, <2>2, <2>3, <2>5, ChargeUntouched
  <2> QED BY <2>4, <2>5
<1>9. MayRetry(j)' = MayRetry(j) \ {w}
  <2>1. row'[j].attempt = row[j].attempt /\ row'[j].max = row[j].max OBVIOUS
  <2> QED BY <1>1, <1>3, <1>4, <2>1 DEF MayRetry
<1> QED BY <1>1, <1>4, <1>6, <1>7, <1>8, <1>9

\* A run that ends by marking its row, which it then changes or finds so marked.
LEMMA MarkKeepsCharge ==
  ASSUME IsFiniteSet(Workers), TypeInv, TypeInv', ChargeInv, NEW w \in Workers,
         run[w].phase \in {"checking", "working"}, NEW s \in Terminal, Mark(w, s)
  PROVE  ChargeInv'
<1>j. PICK j \in Jobs : run[w].job = j BY DEF TypeInv, RunsOnJob
<1>q. PICK q : q = Marked(row[j], run[w].seen, s) OBVIOUS
<1>1. j \in Jobs /\ row[j] \in Row /\ run[w].seen \in Row /\ run[w].phase # "idle"
  BY <1>j DEF TypeInv, TypeOK, RunsOnJob, Run
<1>2. /\ q.attempt = row[j].attempt /\ q.max = row[j].max /\ q.worker = row[j].worker
      /\ q.lease = row[j].lease /\ (q.status = s \/ (run[w].seen.status = s /\ q.status = row[j].status))
  BY <1>1, <1>q, MarkedRest
<1>3. /\ row' = [row EXCEPT ![j] = q] /\ run' = [run EXCEPT ![w] = IdleRun]
      /\ req' = req /\ aborts' = aborts /\ overruns' = overruns
  BY <1>j, <1>q DEF Mark, End
<1>4. Executes(w, j) /\ row[j].status # "absent" BY <1>1, <1>j DEF Executes, ChargeInv, Fresh
<1>5. s # "absent" /\ s # "running" /\ s # "queued" BY DEF Terminal
<1>6. aborts \in Nat /\ overruns \in Nat BY DEF TypeInv, TypeOK
<1>7. row[j].status = "running" /\ row[j].worker = w => run[w].seen.status = "running"
  BY <1>1, <1>4, <1>j DEF ChargeInv, Loaded
<1>9. row'[j] = q /\ \A i \in Jobs : i # j => row'[i] = row[i]
  BY <1>1, <1>3 DEF TypeInv, TypeOK
<1>h. /\ run[w].phase # "idle" /\ run[w].job = j /\ (\A i \in Jobs : i # j => row'[i] = row[i])
      /\ run' = [run EXCEPT ![w] = IdleRun] /\ req' = req /\ aborts + overruns <= aborts' + overruns'
      /\ row'[j].attempt = row[j].attempt /\ row'[j].max = row[j].max
      /\ row'[j].status # "absent" /\ row'[j].worker \in {row[j].worker, None}
      /\ row'[j].status = "running" => row[j].status = "running"
  BY <1>1, <1>2, <1>3, <1>4, <1>5, <1>6, <1>9, <1>j
<1>8. /\ Fresh' /\ Loaded'
      /\ \A i \in Jobs : i # j => Charge(i)'
      /\ MayRetry(j)' = MayRetry(j) \ {w}
      /\ \A v \in Workers : Executes(v, j)' <=> Executes(v, j) /\ v # w
  BY <1>h, EndFrame
<1>10. Open(j)' => Open(j)
  <2> SUFFICES ASSUME Open(j)' PROVE Open(j) OBVIOUS
  <2>1. q.status = row[j].status /\ run[w].seen.status = s BY <1>2, <1>5, <1>9 DEF Open
  <2>2. \A v \in Workers : row[j].status = "running" /\ row[j].worker = v /\ Executes(v, j) => Executes(v, j)'
    BY <1>5, <1>7, <1>8, <2>1
  <2>3. row[j].status = "running" /\ Owned(j) => Owned(j)' BY <1>2, <1>9, <2>2 DEF Owned
  <2> QED BY <1>2, <1>9, <2>1, <2>3 DEF Open
<1>11. Charge(j)'
  <2>1. Charge(j) BY <1>1 DEF ChargeInv
  <2> QED BY <1>1, <1>2, <1>3, <1>4, <1>6, <1>8, <1>9, <1>10, <2>1, ChargeKept
<1> QED BY <1>8, <1>11 DEF ChargeInv

\* A run that sends its job back, or is refused by the index.
LEMMA RetryKeepsCharge ==
  ASSUME IsFiniteSet(Workers), TypeInv, TypeInv', ChargeInv, NEW w \in Workers, ErrorRetries(w)
  PROVE  ChargeInv'
<1>j. PICK j \in Jobs : run[w].job = j BY DEF TypeInv, RunsOnJob, Abort, ErrorRetries
<1>1. j \in Jobs /\ row[j] \in Row /\ run[w].seen \in Row /\ run[w].phase \in {"checking", "working"}
  BY <1>j DEF ErrorRetries, TypeInv, TypeOK, RunsOnJob, Run
<1> DEFINE b == Requeued(row[j], run[w].seen)
<1>2. b.attempt = row[j].attempt /\ b.max = row[j].max /\ b.worker \in {row[j].worker, None}
      /\ b.status \in {row[j].status, "queued"}
  BY <1>1, RequeuedRest
<1>3. PICK q \in {b, row[j]} : End(w, q) BY <1>j DEF ErrorRetries
<1>4. Executes(w, j) /\ row[j].status # "absent" BY <1>1, <1>j DEF Executes, ChargeInv, Fresh
<1>5. w \in MayRetry(j) BY <1>1, <1>4 DEF MayRetry, ErrorRetries
<1>6. aborts \in Nat /\ overruns \in Nat BY DEF TypeInv, TypeOK
<1>7. /\ row' = [row EXCEPT ![j] = q] /\ run' = [run EXCEPT ![w] = IdleRun]
      /\ req' = req /\ aborts' = aborts /\ overruns' = overruns
  BY <1>3, <1>j DEF End
<1> HIDE DEF b
<1>8. /\ q.attempt = row[j].attempt /\ q.max = row[j].max /\ q.worker \in {row[j].worker, None}
      /\ q.status \in {row[j].status, "queued"}
  BY <1>2
<1>10. row'[j] = q /\ \A i \in Jobs : i # j => row'[i] = row[i]
  BY <1>1, <1>7 DEF TypeInv, TypeOK
<1>h. /\ run[w].phase # "idle" /\ run[w].job = j /\ (\A i \in Jobs : i # j => row'[i] = row[i])
      /\ run' = [run EXCEPT ![w] = IdleRun] /\ req' = req /\ aborts + overruns <= aborts' + overruns'
      /\ row'[j].attempt = row[j].attempt /\ row'[j].max = row[j].max
      /\ row'[j].status # "absent" /\ row'[j].worker \in {row[j].worker, None}
      /\ row'[j].status = "running" => row[j].status = "running"
  BY <1>1, <1>4, <1>6, <1>7, <1>8, <1>10, <1>j
<1>9. /\ Fresh' /\ Loaded'
      /\ \A i \in Jobs : i # j => Charge(i)'
      /\ MayRetry(j)' = MayRetry(j) \ {w}
  BY <1>h, EndFrame
<1>11. Charge(j)'
  <2>1. Charge(j) BY <1>1 DEF ChargeInv
  <2> QED BY <1>1, <1>4, <1>5, <1>6, <1>7, <1>8, <1>9, <1>10, <2>1, ChargeKept
<1> QED BY <1>9, <1>11 DEF ChargeInv

LEMMA AbortKeepsCharge ==
  ASSUME IsFiniteSet(Workers), TypeInv, TypeInv', ChargeInv, NEW w \in Workers, Abort(w)
  PROVE  ChargeInv'
<1>j. PICK j \in Jobs : run[w].job = j BY DEF TypeInv, RunsOnJob, Abort, ErrorRetries
<1>1. j \in Jobs /\ row[j] \in Row /\ run[w].phase # "idle"
  BY <1>j DEF Abort, TypeInv, TypeOK, RunsOnJob, Run
<1>4. Executes(w, j) /\ row[j].status # "absent" BY <1>1, <1>j DEF Executes, ChargeInv, Fresh
<1>6. aborts \in Nat /\ overruns \in Nat BY DEF TypeInv, TypeOK
<1>7. /\ row' = row /\ run' = [run EXCEPT ![w] = IdleRun]
      /\ req' = req /\ aborts' = aborts + 1 /\ overruns' = overruns
  BY <1>j DEF Abort
<1>h. /\ run[w].phase # "idle" /\ run[w].job = j /\ (\A i \in Jobs : i # j => row'[i] = row[i])
      /\ run' = [run EXCEPT ![w] = IdleRun] /\ req' = req /\ aborts + overruns <= aborts' + overruns'
      /\ row'[j].attempt = row[j].attempt /\ row'[j].max = row[j].max
      /\ row'[j].status # "absent" /\ row'[j].worker \in {row[j].worker, None}
      /\ row'[j].status = "running" => row[j].status = "running"
  <2>1. aborts + overruns <= aborts' + overruns' BY <1>6, <1>7
  <2> QED BY <1>1, <1>4, <1>7, <1>j, <2>1
<1>9. /\ Fresh' /\ Loaded'
      /\ \A i \in Jobs : i # j => Charge(i)'
      /\ MayRetry(j)' = MayRetry(j) \ {w}
  BY <1>h, EndFrame
<1>11. Charge(j)'
  <2>1. Charge(j) BY <1>1 DEF ChargeInv
  <2> QED BY <1>1, <1>4, <1>6, <1>7, <1>9, <2>1, ChargeKept
<1> QED BY <1>9, <1>11 DEF ChargeInv

\* No cancel is aimed at a row that is not there.
LEMMA CancelsOnRows ==
  ASSUME \A c \in Clients : req'[c].op = "cancel" => row'[req'[c].job].status # "absent",
         ChargeInv, run' = run,
         \A j \in Jobs : row'[j].max = row[j].max /\ row'[j].attempt = row[j].attempt
                         /\ (row'[j].status = "absent" <=> row[j].status = "absent")
  PROVE  Fresh'
  BY DEF Fresh, Executes, ChargeInv

\* A write of one row by nobody who executes it.
LEMMA RowFrame ==
  ASSUME IsFiniteSet(Workers), TypeInv, TypeInv', ChargeInv, run' = run, NEW j \in Jobs,
         \A i \in Jobs : i # j => row'[i] = row[i],
         row'[j].attempt = row[j].attempt, row'[j].max = row[j].max,
         row[j].status # "absent", row'[j].status # "absent", row'[j].worker = row[j].worker,
         row'[j].status = "running" => row[j].status = "running",
         \A c \in Clients : req'[c].op = "cancel" => req'[c] = req[c],
         aborts + overruns <= aborts' + overruns',
         (Open(j)' => Open(j)) \/ aborts + overruns < aborts' + overruns'
  PROVE  ChargeInv'
<1>1. \A i \in Jobs, w \in Workers : Executes(w, i)' <=> Executes(w, i) BY DEF Executes
<1>2. Fresh'
  <2>1. \A c \in Clients : req[c].op = "cancel" => req[c].job \in Jobs BY DEF TypeInv, CancelsJob
  <2>2. \A c \in Clients : req'[c].op = "cancel" => row'[req'[c].job].status # "absent"
    BY <2>1 DEF ChargeInv, Fresh
  <2>3. \A i \in Jobs : row'[i].max = row[i].max /\ row'[i].attempt = row[i].attempt
                         /\ (row'[i].status = "absent" <=> row[i].status = "absent")
    OBVIOUS
  <2> QED BY <2>2, <2>3, CancelsOnRows
<1>3. Loaded' BY <1>1 DEF Loaded, ChargeInv
<1>4. ASSUME NEW i \in Jobs PROVE Charge(i)'
  <2>1. Charge(i) BY DEF ChargeInv
  <2>2. CASE i # j
    <3>1. row'[i] = row[i] BY <2>2
    <3>2. CASE row[i].status = "absent" BY <3>1, <3>2 DEF Charge
    <3>3. CASE row[i].status # "absent" BY <2>1, <3>1, <3>3, ChargeUntouched
    <3> QED BY <3>2, <3>3
  <2>3. CASE i = j
    <3>1. MayRetry(j)' \subseteq MayRetry(j) BY <1>1 DEF MayRetry
    <3> QED BY <2>1, <2>3, <3>1, ChargeKept
  <2> QED BY <2>2, <2>3
<1> QED BY <1>2, <1>3, <1>4 DEF ChargeInv

LEMMA QuietFrame ==
  ASSUME IsFiniteSet(Workers), TypeInv, TypeInv', ChargeInv, run' = run, row' = row,
         \A c \in Clients : req'[c].op = "cancel" => row[req'[c].job].status # "absent",
         aborts' = aborts, overruns' = overruns
  PROVE  ChargeInv'
<1>0. aborts \in Nat /\ overruns \in Nat BY DEF TypeInv, TypeOK
<1>1. Fresh' BY CancelsOnRows
<1>2. Loaded' BY DEF Loaded, ChargeInv, Executes
<1>3. ASSUME NEW i \in Jobs PROVE Charge(i)'
  <2>1. Charge(i) BY DEF ChargeInv
  <2>2. CASE row[i].status = "absent" BY <2>2 DEF Charge
  <2>3. CASE row[i].status # "absent" BY <1>0, <2>1, <2>3, ChargeUntouched
  <2> QED BY <2>2, <2>3
<1> QED BY <1>1, <1>2, <1>3 DEF ChargeInv

LEMMA InsertKeepsCharge ==
  ASSUME IsFiniteSet(Workers), TypeInv, TypeInv', ChargeInv,
         NEW c \in Clients, NEW j \in Jobs, NEW limit \in AttemptLimits, EnqueueInsert(c, j, limit)
  PROVE  ChargeInv'
<1>0. aborts \in Nat /\ overruns \in Nat BY DEF TypeInv, TypeOK
<1>1. /\ run' = run /\ aborts' = aborts /\ overruns' = overruns
      /\ row'[j].status = "queued" /\ row'[j].attempt = 0 /\ row'[j].max = limit
      /\ \A i \in Jobs : i # j => row'[i] = row[i]
  BY DEF EnqueueInsert, TypeInv, TypeOK, NoRow
<1>2. row[j].status = "absent" /\ \A w \in Workers : ~Executes(w, j)
  BY DEF EnqueueInsert, ChargeInv, Fresh
<1>3. limit \in Nat \ {0} BY ConstantsAssumption
<1>4. \A i \in Jobs, w \in Workers : Executes(w, i)' <=> Executes(w, i) BY <1>1 DEF Executes
<1>5. Fresh'
  <2>1. \A d \in Clients : req'[d].op = "cancel" => req'[d] = req[d]
    BY DEF EnqueueInsert, TypeInv, TypeOK, IdleReq
  <2>2. \A d \in Clients : req[d].op = "cancel" => req[d].job \in Jobs BY DEF TypeInv, CancelsJob
  <2> QED BY <1>1, <1>3, <1>4, <2>1, <2>2 DEF Fresh, ChargeInv
<1>6. Loaded' BY <1>1, <1>2, <1>4 DEF Loaded, ChargeInv
<1>7. ASSUME NEW i \in Jobs, i # j PROVE Charge(i)'
  <2>1. Charge(i) /\ row'[i] = row[i] BY <1>1, <1>7 DEF ChargeInv
  <2>2. CASE row[i].status = "absent" BY <2>1, <2>2 DEF Charge
  <2>3. CASE row[i].status # "absent" BY <1>0, <1>1, <2>1, <2>3, ChargeUntouched
  <2> QED BY <2>2, <2>3
<1>8. Charge(j)'
  <2>1. MayRetry(j)' = {} BY <1>2, <1>4 DEF MayRetry
  <2>2. Cardinality(MayRetry(j)') = 0 BY <2>1, FS_EmptySet
  <2>3. Open(j)' BY <1>1 DEF Open
  <2> QED BY <1>0, <1>1, <1>3, <2>2, <2>3 DEF Charge, Least
<1> QED BY <1>5, <1>6, <1>7, <1>8 DEF ChargeInv

LEMMA ClaimKeepsCharge ==
  ASSUME IsFiniteSet(Workers), TypeInv, TypeInv', ChargeInv,
         NEW w \in Workers, NEW j \in Jobs, Claim(w, j)
  PROVE  ChargeInv'
<1>0. aborts \in Nat /\ overruns \in Nat /\ row[j] \in Row /\ row[j].attempt \in Nat /\ row[j].max \in Nat
  BY DEF TypeInv, TypeOK, Row
<1>1. /\ req' = req /\ aborts' = aborts /\ overruns' = overruns
      /\ \A v \in Workers : v # w => run'[v] = run[v]
      /\ run'[w].phase = "claimed" /\ run'[w].job = j
      /\ \A i \in Jobs : i # j => row'[i] = row[i]
      /\ run[w].phase = "idle"
  BY DEF Claim, TypeInv, TypeOK, IdleRun
<1>2. /\ row'[j].status = "running" /\ row'[j].worker = w /\ row'[j].lease = "live"
      /\ row'[j].attempt = row[j].attempt + 1 /\ row'[j].max = row[j].max
  BY <1>0 DEF Claim, Claimed, TypeInv, TypeOK, Row
<1>3. row[j].status # "absent" /\ Open(j) BY DEF Claim, Due, Open
<1>4. \A v \in Workers, i \in Jobs :
         Executes(v, i)' <=> (Executes(v, i) \/ (v = w /\ i = j))
  BY <1>1 DEF Executes
<1>5. Fresh'
  <2>1. \A c \in Clients : req[c].op = "cancel" => req[c].job \in Jobs BY DEF TypeInv, CancelsJob
  <2> QED BY <1>1, <1>2, <1>3, <1>4, <2>1 DEF Fresh, ChargeInv
<1>6. Loaded' BY <1>1, <1>2, <1>4 DEF Loaded, ChargeInv, Executes
<1>7. ASSUME NEW i \in Jobs, i # j PROVE Charge(i)'
  <2>1. Charge(i) /\ row'[i] = row[i] BY <1>1, <1>7 DEF ChargeInv
  <2>2. \A v \in Workers : run'[v] = run[v] \/ (~Executes(v, i) /\ ~Executes(v, i)')
    BY <1>1, <1>4, <1>7 DEF Executes
  <2>3. CASE row[i].status = "absent" BY <2>1, <2>3 DEF Charge
  <2>4. CASE row[i].status # "absent" BY <1>0, <1>1, <2>1, <2>2, <2>4, ChargeUntouched
  <2> QED BY <2>3, <2>4
<1>8. Charge(j)'
  <2>1. ~Open(j)' BY <1>1, <1>2, <1>4 DEF Open, Owned
  <2>2. IsFiniteSet(MayRetry(j)) /\ Cardinality(MayRetry(j)) \in Nat BY RetriersAreFinite
  <2>3. Charge(j) BY DEF ChargeInv
  <2>4. row[j].attempt + 1 + Cardinality(MayRetry(j))
          <= 1 + Least(row[j].attempt, row[j].max - 1) + aborts + overruns
    BY <1>3, <2>3 DEF Charge
  <2>5. CASE row[j].attempt + 1 < row[j].max
    <3>1. MayRetry(j)' \subseteq MayRetry(j) \cup {w}
      BY <1>0, <1>1, <1>2, <1>4, <2>5 DEF MayRetry
    <3>2. /\ IsFiniteSet(MayRetry(j) \cup {w})
          /\ Cardinality(MayRetry(j) \cup {w}) <= Cardinality(MayRetry(j)) + 1
      BY <2>2, FS_AddElement
    <3>3. Cardinality(MayRetry(j)') <= Cardinality(MayRetry(j) \cup {w}) /\ IsFiniteSet(MayRetry(j)')
      BY <3>1, <3>2, FS_Subset
    <3>4. Cardinality(MayRetry(j)') \in Nat /\ Cardinality(MayRetry(j) \cup {w}) \in Nat
      BY <3>2, <3>3, FS_CardinalityType
    <3> QED BY <1>0, <1>1, <1>2, <2>1, <2>2, <2>4, <2>5, <3>2, <3>3, <3>4 DEF Charge, Least
  <2>6. CASE ~(row[j].attempt + 1 < row[j].max)
    <3>1. MayRetry(j)' \subseteq MayRetry(j)
      BY <1>0, <1>1, <1>2, <1>4, <2>6 DEF MayRetry
    <3>2. Cardinality(MayRetry(j)') <= Cardinality(MayRetry(j)) /\ IsFiniteSet(MayRetry(j)')
      BY <2>2, <3>1, FS_Subset
    <3>3. Cardinality(MayRetry(j)') \in Nat BY <3>2, FS_CardinalityType
    <3> QED BY <1>0, <1>1, <1>2, <2>1, <2>2, <2>4, <2>6, <3>2, <3>3 DEF Charge, Least
  <2> QED BY <2>5, <2>6
<1> QED BY <1>5, <1>6, <1>7, <1>8 DEF ChargeInv

\* A run that goes on.
LEMMA RunFrame ==
  ASSUME IsFiniteSet(Workers), TypeInv, TypeInv', ChargeInv, NEW w \in Workers,
         Load(w) \/ CheckpointPasses(w)
  PROVE  ChargeInv'
<1>0. aborts \in Nat /\ overruns \in Nat BY DEF TypeInv, TypeOK
<1>j. PICK j \in Jobs : run[w].job = j BY DEF TypeInv, RunsOnJob, Load, CheckpointPasses
<1>1. /\ row' = row /\ req' = req /\ aborts' = aborts /\ overruns' = overruns
      /\ \A v \in Workers : v # w => run'[v] = run[v]
      /\ run'[w].job = j /\ run[w].phase # "idle" /\ run'[w].phase \in {"checking", "working"}
      /\ run'[w].seen = IF run[w].phase = "claimed" THEN row[j] ELSE run[w].seen
  BY <1>j DEF Load, CheckpointPasses, TypeInv, TypeOK, Run
<1>2. \A v \in Workers, i \in Jobs : Executes(v, i)' <=> Executes(v, i)
  BY <1>1, <1>j DEF Executes
<1>3. Fresh' BY <1>1, <1>2 DEF Fresh, ChargeInv
<1>4. Executes(w, j) /\ row[j] \in Row BY <1>1, <1>j DEF Executes, TypeInv, TypeOK
<1>5. Loaded'
  <2> SUFFICES ASSUME NEW v \in Workers, NEW i \in Jobs, Executes(v, i), run'[v].phase # "claimed"
               PROVE  /\ run'[v].seen.max = row[i].max
                      /\ row[i].status = "running" /\ row[i].worker = v => run'[v].seen.status = "running"
    BY <1>1, <1>2 DEF Loaded
  <2>1. CASE v # w BY <1>1, <2>1 DEF ChargeInv, Loaded
  <2>2. CASE v = w /\ run[w].phase = "claimed" BY <1>1, <1>j, <2>2 DEF Executes
  <2>3. CASE v = w /\ run[w].phase # "claimed" BY <1>1, <1>j, <2>3 DEF ChargeInv, Loaded, Executes
  <2> QED BY <2>1, <2>2, <2>3
<1>6. ASSUME NEW i \in Jobs PROVE Charge(i)'
  <2>1. Charge(i) BY DEF ChargeInv
  <2>2. MayRetry(i)' \subseteq MayRetry(i)
    <3> SUFFICES ASSUME NEW v \in MayRetry(i)' PROVE v \in MayRetry(i) OBVIOUS
    <3>1. v \in Workers /\ Executes(v, i) BY <1>2 DEF MayRetry
    <3>2. CASE v # w BY <1>1, <3>1, <3>2 DEF MayRetry
    <3>3. CASE v = w
      <4>1. i = j BY <1>j, <3>1, <3>3 DEF Executes
      <4> QED BY <1>1, <3>1, <3>3, <4>1 DEF MayRetry
    <3> QED BY <3>2, <3>3
  <2>3. Open(i)' => Open(i) BY <1>1, <1>2 DEF Open, Owned
  <2>4. CASE row[i].status = "absent" BY <1>1, <2>4 DEF Charge
  <2>5. CASE row[i].status # "absent" BY <1>0, <1>1, <2>1, <2>2, <2>3, <2>5, ChargeKept
  <2> QED BY <2>4, <2>5
<1> QED BY <1>3, <1>5, <1>6 DEF ChargeInv

LEMMA ChargeNext ==
  ASSUME IsFiniteSet(Workers), TypeInv, TypeInv', ChargeInv, [Next]_vars PROVE ChargeInv'
<1>0. aborts \in Nat /\ overruns \in Nat BY DEF TypeInv, TypeOK
<1>a. \A c \in Clients : req[c].op = "cancel" => row[req[c].job].status # "absent"
  BY DEF ChargeInv, Fresh
<1>1. ASSUME NEW c \in Clients, \E k \in Keys : EnqueueRead(c, k) PROVE ChargeInv'
  BY <1>1, <1>a, QuietFrame DEF EnqueueRead, TypeInv, TypeOK, IdleReq
<1>2. ASSUME NEW c \in Clients, EnqueueConflict(c) PROVE ChargeInv'
  BY <1>2, <1>a, QuietFrame DEF EnqueueConflict, TypeInv, TypeOK, IdleReq
<1>3. ASSUME NEW c \in Clients, NEW j \in Jobs, CancelRead(c, j) PROVE ChargeInv'
  BY <1>3, <1>a, QuietFrame DEF CancelRead, TypeInv, TypeOK, IdleReq, Active
<1>4. ASSUME NEW c \in Clients, CancelWrite(c) PROVE ChargeInv'
  <2>1. PICK j \in Jobs : req[c].job = j BY <1>4 DEF CancelWrite, TypeInv, CancelsJob
  <2>2. row[j].status # "absent" /\ row[j] \in Row
    BY <1>4, <2>1 DEF CancelWrite, ChargeInv, Fresh, TypeInv, TypeOK
  <2>3. row'[j] = [row[j] EXCEPT !.cancel = TRUE, !.status = "canceled"]
        \/ row'[j] = [row[j] EXCEPT !.cancel = TRUE]
    BY <1>4, <2>1 DEF CancelWrite, TypeInv, TypeOK
  <2>4. /\ row'[j].attempt = row[j].attempt /\ row'[j].max = row[j].max /\ row'[j].worker = row[j].worker
        /\ row'[j].lease = row[j].lease /\ row'[j].status \in {row[j].status, "canceled"}
    BY <2>2, <2>3 DEF Row
  <2>5. /\ run' = run /\ aborts' = aborts /\ overruns' = overruns
        /\ \A i \in Jobs : i # j => row'[i] = row[i]
        /\ \A d \in Clients : req'[d].op = "cancel" => req'[d] = req[d]
    BY <1>4, <2>1 DEF CancelWrite, TypeInv, TypeOK, IdleReq
  <2>6. Open(j)' => Open(j) BY <2>4, <2>5 DEF Open, Owned, Executes
  <2>7. row'[j].status # "absent" /\ (row'[j].status = "running" => row[j].status = "running")
    BY <2>2, <2>4
  <2> QED BY <1>0, <2>2, <2>4, <2>5, <2>6, <2>7, RowFrame
<1>5. ASSUME NEW j \in Jobs, LeaseLapses(j) \/ LeaseOutlived(j) PROVE ChargeInv'
  <2>1. row[j] \in Row BY DEF TypeInv, TypeOK
  <2>2. row'[j] = [row[j] EXCEPT !.lease = "expired"] /\ row[j].status = "running" /\ row[j].lease = "live"
        /\ run' = run /\ req' = req /\ \A i \in Jobs : i # j => row'[i] = row[i]
    BY <1>5 DEF LeaseLapses, LeaseOutlived, TypeInv, TypeOK
  <2>3. /\ row'[j].attempt = row[j].attempt /\ row'[j].max = row[j].max /\ row'[j].worker = row[j].worker
        /\ row'[j].status = row[j].status
    BY <2>1, <2>2 DEF Row
  <2>4. row[j].status # "absent" /\ row'[j].status # "absent" BY <2>2, <2>3
  <2>5. \A c \in Clients : req'[c].op = "cancel" => req'[c] = req[c] BY <2>2
  <2>6. CASE LeaseLapses(j)
    <3>1. Open(j) BY <2>2, <2>6 DEF LeaseLapses, Open
    <3>2. aborts + overruns <= aborts' + overruns' BY <1>0, <2>6 DEF LeaseLapses
    <3> QED BY <2>2, <2>3, <2>4, <2>5, <3>1, <3>2, RowFrame
  <2>7. CASE LeaseOutlived(j)
    <3>1. aborts + overruns < aborts' + overruns' /\ aborts + overruns <= aborts' + overruns'
      BY <1>0, <2>7 DEF LeaseOutlived
    <3> QED BY <2>2, <2>3, <2>4, <2>5, <3>1, RowFrame
  <2> QED BY <1>5, <2>6, <2>7
<1>6. ASSUME NEW j \in Jobs, RetryDue(j) PROVE ChargeInv'
  <2>1. row[j] \in Row BY DEF TypeInv, TypeOK
  <2>2. row'[j] = [row[j] EXCEPT !.backoff = FALSE] /\ row[j].status = "queued"
        /\ run' = run /\ req' = req /\ aborts' = aborts /\ overruns' = overruns
        /\ \A i \in Jobs : i # j => row'[i] = row[i]
    BY <1>6 DEF RetryDue, TypeInv, TypeOK
  <2>3. /\ row'[j].attempt = row[j].attempt /\ row'[j].max = row[j].max /\ row'[j].worker = row[j].worker
        /\ row'[j].status = row[j].status
    BY <2>1, <2>2 DEF Row
  <2>4. Open(j) BY <2>2 DEF Open
  <2>5. row[j].status # "absent" /\ row'[j].status # "absent" BY <2>2, <2>3
  <2>6. \A c \in Clients : req'[c].op = "cancel" => req'[c] = req[c] BY <2>2
  <2>7. aborts + overruns <= aborts' + overruns' BY <1>0, <2>2
  <2> QED BY <2>2, <2>3, <2>4, <2>5, <2>6, <2>7, RowFrame
<1>7. ASSUME NEW w \in Workers, NoHandler(w) \/ CheckpointCancels(w) \/ ErrorFails(w) PROVE ChargeInv'
  BY <1>7, MarkKeepsCharge DEF NoHandler, CheckpointCancels, ErrorFails, Terminal
<1>8. ASSUME NEW w \in Workers, NEW s \in Terminal, Finish(w, s) PROVE ChargeInv'
  BY <1>8, MarkKeepsCharge DEF Finish
<1>9. CASE UNCHANGED vars BY <1>9, <1>a, QuietFrame DEF vars
<1> QED
  BY <1>1, <1>2, <1>3, <1>4, <1>5, <1>6, <1>7, <1>8, <1>9, InsertKeepsCharge, ClaimKeepsCharge, RunFrame,
     RetryKeepsCharge, AbortKeepsCharge
  DEF Next, ClientStep, HandlerStep

\* Retries are bounded, for any workers, limits, crashes and late writers: each claim past a
\* job's limit is paid for by a run that was abandoned or a lease that was outlived.
THEOREM AttemptsAreBoundedHolds ==
  ASSUME IsFiniteSet(Workers) PROVE Spec => []AttemptsAreBounded
<1>1. Init => ChargeInv
  BY DEF Init, ChargeInv, Fresh, Loaded, Charge, Executes, NoRow, IdleRun, IdleReq
<1>2. Spec => []TypeInv
  BY TypeInvInit, TypeInvNext, PTL DEF Spec
<1>3. TypeInv /\ TypeInv' /\ ChargeInv /\ [Next]_vars => ChargeInv'
  BY ChargeNext
<1>4. TypeInv /\ ChargeInv => AttemptsAreBounded
  <2> SUFFICES ASSUME TypeInv, ChargeInv, IsFiniteSet(Workers), NEW j \in Jobs
               PROVE  row[j].attempt <= row[j].max + aborts + overruns
    BY DEF AttemptsAreBounded
  <2>1. row[j].attempt \in Nat /\ row[j].max \in Nat /\ aborts \in Nat /\ overruns \in Nat
    BY DEF TypeInv, TypeOK, Row
  <2>2. CASE row[j].status = "absent" BY <2>1, <2>2 DEF ChargeInv, Fresh
  <2>3. CASE row[j].status # "absent"
    <3>1. Cardinality(MayRetry(j)) \in Nat BY RetriersAreFinite
    <3>2. Charge(j) BY DEF ChargeInv
    <3> QED BY <2>1, <2>3, <3>1, <3>2 DEF Charge, Least
  <2> QED BY <2>2, <2>3
<1>5. Spec => []ChargeInv
  BY <1>1, <1>2, <1>3, PTL DEF Spec
<1> QED BY <1>2, <1>4, <1>5, PTL

-----------------------------------------------------------------------------
(***************************************************************************)
(* Projects.  First what its functions return: sums and roots, vectors and *)
(* their cosines, features, similarities, partitions, memberships and the  *)
(* rows of a clustering; then that every step keeps the invariant.         *)
(***************************************************************************)
LEMMA LeastNat ==
  ASSUME NEW S \in SUBSET Nat, S # {}
  PROVE  \E n \in S : \A m \in S : n <= m
<1> DEFINE R == {ss \in Nat \X Nat : ss[1] < ss[2]}
<1>1. IsWellFoundedOn(R, Nat)
  BY NatLessThanWellFounded DEF OpToRel
<1> HIDE DEF R
<1>2. PICK n \in S : \A m \in S : ~ (<<m, n>> \in R)
  BY <1>1, WFMin
<1>3. \A m \in S : ~(m < n)
  BY <1>2 DEF R
<1> QED
  BY <1>3

\* Induction, stated for a set.
LEMMA InductionUpTo ==
  ASSUME NEW n \in Nat, NEW S, 0 \in S, \A k \in 1..n : k - 1 \in S => k \in S
  PROVE  0..n \subseteq S
<1> SUFFICES ASSUME (0..n) \ S # {} PROVE FALSE
  OBVIOUS
<1>1. PICK k \in (0..n) \ S : \A m \in (0..n) \ S : k <= m
  <2>1. (0..n) \ S \in SUBSET Nat
    OBVIOUS
  <2> QED
    BY <2>1, LeastNat
<1>2. k \in 1..n /\ k - 1 \in 0..n /\ k - 1 \in S
  BY <1>1
<1> QED
  BY <1>1, <1>2

\* A function defined by recursion on 0..n exists.
Recurs(f, n, base, step) == f[0] = base /\ \A k \in 1..n : f[k] = step[k][f[k - 1]]

LEMMA Recursion ==
  ASSUME NEW n \in Nat, NEW S, NEW base \in S, NEW step \in [1..n -> [S -> S]]
  PROVE  \E f \in [0..n -> S] : Recurs(f, n, base, step)
<1> DEFINE Upto(m) == {f \in [0..m -> S] : f[0] = base /\ \A k \in 1..m : f[k] = step[k][f[k - 1]]}
           Good == {m \in 0..n : Upto(m) # {}}
<1>1. 0 \in Good
  <2>1. [k \in 0..0 |-> base] \in Upto(0)
    OBVIOUS
  <2> QED
    BY <2>1
<1>2. ASSUME NEW m \in 1..n, m - 1 \in Good PROVE m \in Good
  <2>1. PICK f \in [0..(m - 1) -> S] : f[0] = base /\ \A k \in 1..(m - 1) : f[k] = step[k][f[k - 1]]
    BY <1>2
  <2> DEFINE g == [k \in 0..m |-> IF k = m THEN step[m][f[m - 1]] ELSE f[k]]
  <2>2. m - 1 \in 0..(m - 1) /\ \A k \in 0..m : k # m => k \in 0..(m - 1)
    OBVIOUS
  <2>3. g \in [0..m -> S]
    BY <2>1, <2>2
  <2>4. g[0] = base
    BY <2>1
  <2>5. ASSUME NEW k \in 1..m PROVE g[k] = step[k][g[k - 1]]
    <3>1. k - 1 \in 0..m /\ k - 1 # m /\ k \in 0..m
      OBVIOUS
    <3>2. g[k - 1] = f[k - 1]
      BY <3>1
    <3>3. CASE k = m
      BY <3>1, <3>2, <3>3
    <3>4. CASE k # m
      <4>1. k \in 1..(m - 1)
        BY <3>4
      <4> QED
        BY <2>1, <3>1, <3>2, <3>4, <4>1
    <3> QED
      BY <3>3, <3>4
  <2>6. g \in Upto(m)
    BY <2>3, <2>4, <2>5
  <2> QED
    BY <2>6
<1>3. 0..n \subseteq Good
  <2> HIDE DEF Good
  <2> QED
    BY <1>1, <1>2, InductionUpTo
<1>4. n \in Good
  BY <1>3
<1> QED
  BY <1>4 DEF Recurs


LEMMA LessOne ==
  ASSUME NEW S, IsFiniteSet(S), NEW s \in SUBSET S, NEW x \in s
  PROVE  /\ s \ {x} \in SUBSET S /\ Cardinality(s) \in Nat \ {0}
         /\ Cardinality(s \ {x}) = Cardinality(s) - 1 /\ Cardinality(s) <= Cardinality(S)
BY FS_Subset, FS_RemoveElement, FS_CardinalityType, FS_EmptySet

\* A finite set that is ordered, ties or not, has a greatest member.
LEMMA Greatest ==
  ASSUME NEW S, IsFiniteSet(S), S # {}, NEW R,
         \A x, y \in S : <<x, y>> \in R \/ <<y, x>> \in R,
         \A x, y, z \in S : <<x, y>> \in R /\ <<y, z>> \in R => <<x, z>> \in R
  PROVE  \E x \in S : \A y \in S : <<x, y>> \in R
<1> DEFINE Has(T) == \E x \in T : \A y \in T : <<x, y>> \in R
           G == {n \in Nat : \A T \in SUBSET S : Cardinality(T) = n + 1 => Has(T)}
<1>1. Cardinality(S) \in Nat /\ Cardinality(S) # 0
  BY FS_CardinalityType, FS_EmptySet
<1>2. 0 \in G
  <2>1. ASSUME NEW T \in SUBSET S, Cardinality(T) = 1 PROVE Has(T)
    <3>1. PICK x : T = {x} BY <2>1, FS_Subset, FS_Singleton
    <3> QED BY <3>1
  <2> QED BY <2>1
<1>3. ASSUME NEW n \in Nat, n \in G PROVE n + 1 \in G
  <2>1. ASSUME NEW T \in SUBSET S, Cardinality(T) = n + 2 PROVE Has(T)
    <3>1. IsFiniteSet(T) BY FS_Subset
    <3>2. PICK t \in T : TRUE BY <2>1, FS_EmptySet
    <3>3. Cardinality(T \ {t}) = Cardinality(T) - 1 BY <3>2, LessOne
    <3>7. T \ {t} \in SUBSET S /\ Cardinality(T \ {t}) = n + 1 BY <1>3, <2>1, <3>3
    <3>4. PICK x \in T \ {t} : \A y \in T \ {t} : <<x, y>> \in R BY <1>3, <3>7
    <3>5. CASE <<x, t>> \in R BY <3>4, <3>5
    <3>6. CASE <<t, x>> \in R
      <4>1. <<t, t>> \in R BY <3>2
      <4>2. \A y \in T \ {t} : <<t, y>> \in R BY <3>2, <3>4, <3>6
      <4> QED BY <4>1, <4>2, <3>2
    <3> QED BY <3>2, <3>4, <3>5, <3>6
  <2> QED BY <2>1
<1>4. 0..(Cardinality(S) - 1) \subseteq G
  <2> HIDE DEF G
  <2>1. \A k \in 1..(Cardinality(S) - 1) : k - 1 \in G => k \in G
    <3> TAKE k \in 1..(Cardinality(S) - 1)
    <3>1. k - 1 \in Nat /\ (k - 1) + 1 = k BY <1>1
    <3> QED BY <3>1, <1>3
  <2> QED BY <1>1, <1>2, <2>1, InductionUpTo
<1>5. Cardinality(S) - 1 \in G BY <1>1, <1>4
<1> QED BY <1>1, <1>5

LEMMA MinMax ==
  ASSUME NEW T \in SUBSET Int, IsFiniteSet(T), T # {}
  PROVE  /\ Min(T) \in T /\ \A y \in T : Min(T) <= y
         /\ Max(T) \in T /\ \A y \in T : y <= Max(T)
<1> DEFINE Above == {p \in T \X T : p[1] >= p[2]}
           Below == {p \in T \X T : p[1] <= p[2]}
<1>1. \E x \in T : \A y \in T : <<x, y>> \in Above
  <2>1. \A x, y \in T : <<x, y>> \in Above \/ <<y, x>> \in Above OBVIOUS
  <2>2. \A x, y, z \in T : <<x, y>> \in Above /\ <<y, z>> \in Above => <<x, z>> \in Above OBVIOUS
  <2> HIDE DEF Above
  <2> QED BY <2>1, <2>2, Greatest
<1>2. \E x \in T : \A y \in T : <<x, y>> \in Below
  <2>1. \A x, y \in T : <<x, y>> \in Below \/ <<y, x>> \in Below OBVIOUS
  <2>2. \A x, y, z \in T : <<x, y>> \in Below /\ <<y, z>> \in Below => <<x, z>> \in Below OBVIOUS
  <2> HIDE DEF Below
  <2> QED BY <2>1, <2>2, Greatest
<1> QED BY <1>1, <1>2 DEF Min, Max

-----------------------------------------------------------------------------
(* Sums.  A fold takes the members of a set in the order CHOOSE gives them;  *)
(* the order does not matter.                                                *)
Some(T) == CHOOSE x \in T : TRUE
Folds(g, fun, S) == g = [s \in SUBSET S |-> IF s = {} THEN 0 ELSE fun[Some(s)] + g[s \ {Some(s)}]]

LEMMA SomeIn == ASSUME NEW T, T # {} PROVE Some(T) \in T
BY DEF Some

LEMMA SumIsFold ==
  ASSUME NEW fun, NEW S
  PROVE  SumFunctionOnSet(fun, S) = (CHOOSE g : Folds(g, fun, S))[S]
BY DEF SumFunctionOnSet, FoldFunctionOnSet, MapThenFoldSet, Folds, Some

LEMMA FoldExists ==
  ASSUME NEW S, IsFiniteSet(S), NEW fun, \A x \in S : fun[x] \in Int
  PROVE  \E g \in [SUBSET S -> Int] : Folds(g, fun, S)
<1> DEFINE Body(g, s) == IF s = {} THEN 0 ELSE fun[Some(s)] + g[s \ {Some(s)}]
           G == {n \in Nat : \E g \in [SUBSET S -> Int] :
                               \A s \in SUBSET S : Cardinality(s) <= n => g[s] = Body(g, s)}
<1>0. Cardinality(S) \in Nat BY FS_CardinalityType
<1>1. ASSUME NEW g \in [SUBSET S -> Int], NEW s \in SUBSET S PROVE Body(g, s) \in Int
  <2>1. CASE s = {} BY <2>1
  <2>2. CASE s # {}
    <3>1. Some(s) \in s /\ s \ {Some(s)} \in SUBSET S BY <2>2, SomeIn
    <3> QED BY <3>1, <2>2
  <2> QED BY <2>1, <2>2
<1>2. 0 \in G
  <2> DEFINE g == [s \in SUBSET S |-> 0]
  <2>1. \A s \in SUBSET S : Cardinality(s) <= 0 => s = {}
    BY FS_Subset, FS_CardinalityType, FS_EmptySet
  <2>2. g \in [SUBSET S -> Int] OBVIOUS
  <2>3. \A s \in SUBSET S : Cardinality(s) <= 0 => g[s] = Body(g, s) BY <2>1
  <2> QED BY <2>2, <2>3
<1>3. ASSUME NEW n \in Nat, n \in G PROVE n + 1 \in G
  <2>1. PICK g \in [SUBSET S -> Int] : \A s \in SUBSET S : Cardinality(s) <= n => g[s] = Body(g, s)
    BY <1>3
  <2> DEFINE h == [s \in SUBSET S |-> IF Cardinality(s) <= n THEN g[s] ELSE Body(g, s)]
  <2>2. h \in [SUBSET S -> Int]
    <3> HIDE DEF Body
    <3> QED BY <1>1
  <2>3. ASSUME NEW s \in SUBSET S, Cardinality(s) <= n + 1 PROVE h[s] = Body(h, s)
    <3>1. h[s] = Body(g, s) BY <2>1
    <3>2. CASE s = {} BY <3>1, <3>2
    <3>3. CASE s # {}
      <4>1. Some(s) \in s BY <3>3, SomeIn
      <4>2. s \ {Some(s)} \in SUBSET S /\ Cardinality(s \ {Some(s)}) <= n BY <4>1, <2>3, LessOne
      <4>3. h[s \ {Some(s)}] = g[s \ {Some(s)}] BY <4>2
      <4> QED BY <3>1, <3>3, <4>3
    <3> QED BY <3>2, <3>3
  <2> HIDE DEF Body, h
  <2>4. \E f \in [SUBSET S -> Int] : \A s \in SUBSET S : Cardinality(s) <= n + 1 => f[s] = Body(f, s)
    BY <2>2, <2>3
  <2> QED BY <1>3, <2>4
<1>4. 0..Cardinality(S) \subseteq G
  <2> HIDE DEF G
  <2>1. \A k \in 1..Cardinality(S) : k - 1 \in G => k \in G
    <3> TAKE k \in 1..Cardinality(S)
    <3>1. k - 1 \in Nat /\ (k - 1) + 1 = k BY <1>0
    <3> QED BY <3>1, <1>3
  <2> QED BY <1>0, <1>2, <2>1, InductionUpTo
<1>5. Cardinality(S) \in G
  <2> HIDE DEF G
  <2> QED BY <1>0, <1>4
<1>6. PICK g \in [SUBSET S -> Int] : \A s \in SUBSET S : Cardinality(s) <= Cardinality(S) => g[s] = Body(g, s)
  BY <1>5
<1>7. \A s \in SUBSET S : Cardinality(s) <= Cardinality(S) BY FS_Subset
<1>8. \A s \in SUBSET S : g[s] = Body(g, s) BY <1>6, <1>7
<1> QED BY <1>8 DEF Folds

LEMMA SetInduction ==
  ASSUME NEW S, IsFiniteSet(S), NEW G, {} \in G,
         \A T \in SUBSET S : T # {} /\ T \ {Some(T)} \in G => T \in G
  PROVE  SUBSET S \subseteq G
<1> DEFINE H == {n \in Nat : \A T \in SUBSET S : Cardinality(T) = n => T \in G}
<1>0. Cardinality(S) \in Nat BY FS_CardinalityType
<1>1. 0 \in H BY FS_Subset, FS_EmptySet
<1>2. ASSUME NEW n \in Nat, n \in H PROVE n + 1 \in H
  <2>1. ASSUME NEW T \in SUBSET S, Cardinality(T) = n + 1 PROVE T \in G
    <3>1. T # {} BY <2>1, FS_EmptySet
    <3>2. Some(T) \in T BY <3>1, SomeIn
    <3>3. T \ {Some(T)} \in SUBSET S /\ Cardinality(T \ {Some(T)}) = n BY <3>2, <2>1, LessOne
    <3> QED BY <3>1, <3>3, <1>2
  <2> QED BY <2>1
<1>3. 0..Cardinality(S) \subseteq H
  <2> HIDE DEF H
  <2>1. \A k \in 1..Cardinality(S) : k - 1 \in H => k \in H
    <3> TAKE k \in 1..Cardinality(S)
    <3>1. k - 1 \in Nat /\ (k - 1) + 1 = k BY <1>0
    <3> QED BY <3>1, <1>2
  <2> QED BY <1>0, <1>1, <2>1, InductionUpTo
<1>4. \A T \in SUBSET S : Cardinality(T) \in 0..Cardinality(S)
  BY <1>0, FS_Subset, FS_CardinalityType
<1> QED BY <1>3, <1>4

LEMMA FoldsAgree ==
  ASSUME NEW S, IsFiniteSet(S), NEW U \in SUBSET S, NEW fun, NEW g, NEW h, Folds(g, fun, S), Folds(h, fun, U)
  PROVE  \A s \in SUBSET U : g[s] = h[s]
<1> DEFINE G == {s \in SUBSET U : g[s] = h[s]}
<1>1. \A s \in SUBSET S : g[s] = IF s = {} THEN 0 ELSE fun[Some(s)] + g[s \ {Some(s)}] BY DEF Folds
<1>2. \A s \in SUBSET U : h[s] = IF s = {} THEN 0 ELSE fun[Some(s)] + h[s \ {Some(s)}] BY DEF Folds
<1>3. {} \in G BY <1>1, <1>2
<1>4. \A T \in SUBSET U : T # {} /\ T \ {Some(T)} \in G => T \in G BY <1>1, <1>2
<1>5. IsFiniteSet(U) BY FS_Subset
<1>6. SUBSET U \subseteq G
  <2> HIDE DEF G
  <2> QED BY <1>3, <1>4, <1>5, SetInduction
<1> QED BY <1>6

LEMMA SumIs ==
  ASSUME NEW S, IsFiniteSet(S), NEW fun, \A x \in S : fun[x] \in Int
  PROVE  /\ SumFunctionOnSet(fun, {}) = 0
         /\ \A T \in SUBSET S : SumFunctionOnSet(fun, T) \in Int
         /\ \A T \in SUBSET S : T # {} =>
              SumFunctionOnSet(fun, T) = fun[Some(T)] + SumFunctionOnSet(fun, T \ {Some(T)})
<1>1. ASSUME NEW T \in SUBSET S PROVE Folds(CHOOSE g : Folds(g, fun, T), fun, T)
  <2>1. IsFiniteSet(T) BY FS_Subset
  <2>2. \E g : Folds(g, fun, T) BY <2>1, FoldExists
  <2> QED BY <2>2
<1> DEFINE it(T) == CHOOSE g : Folds(g, fun, T)
<1>2. PICK g \in [SUBSET S -> Int] : Folds(g, fun, S) BY FoldExists
<1>3. ASSUME NEW T \in SUBSET S PROVE SumFunctionOnSet(fun, T) = g[T]
  <2>1. Folds(it(T), fun, T) BY <1>1
  <2> HIDE DEF it
  <2>2. it(T)[T] = g[T] BY <1>2, <2>1, FoldsAgree
  <2> QED BY <2>2, SumIsFold DEF it
<1>4. \A s \in SUBSET S : g[s] = IF s = {} THEN 0 ELSE fun[Some(s)] + g[s \ {Some(s)}] BY <1>2 DEF Folds
<1>5. {} \in SUBSET S /\ \A T \in SUBSET S : T \ {Some(T)} \in SUBSET S OBVIOUS
<1>6. SumFunctionOnSet(fun, {}) = 0 BY <1>3, <1>4, <1>5
<1>7. \A T \in SUBSET S : SumFunctionOnSet(fun, T) \in Int BY <1>2, <1>3
<1>8. ASSUME NEW T \in SUBSET S, T # {}
      PROVE  SumFunctionOnSet(fun, T) = fun[Some(T)] + SumFunctionOnSet(fun, T \ {Some(T)})
  BY <1>3, <1>4, <1>5, <1>8
<1> QED BY <1>6, <1>7, <1>8

\* Any member may be taken first.
LEMMA SumAny ==
  ASSUME NEW S, IsFiniteSet(S), NEW fun, \A x \in S : fun[x] \in Int
  PROVE  \A T \in SUBSET S : \A x \in T : SumFunctionOnSet(fun, T) = fun[x] + SumFunctionOnSet(fun, T \ {x})
<1> DEFINE Sum(T) == SumFunctionOnSet(fun, T)
           G == {n \in Nat : \A T \in SUBSET S : Cardinality(T) = n => \A x \in T : Sum(T) = fun[x] + Sum(T \ {x})}
<1>0. Cardinality(S) \in Nat BY FS_CardinalityType
<1>1. /\ \A T \in SUBSET S : Sum(T) \in Int
      /\ \A T \in SUBSET S : T # {} => Sum(T) = fun[Some(T)] + Sum(T \ {Some(T)})
  BY SumIs
<1>2. 0 \in G
  <2>1. \A T \in SUBSET S : Cardinality(T) = 0 => T = {} BY FS_Subset, FS_EmptySet
  <2> QED BY <2>1
<1> HIDE DEF Sum
<1>3. ASSUME NEW n \in Nat, n \in G PROVE n + 1 \in G
  <2>1. ASSUME NEW T \in SUBSET S, Cardinality(T) = n + 1, NEW x \in T PROVE Sum(T) = fun[x] + Sum(T \ {x})
    <3> DEFINE c == Some(T)
    <3>1. c \in T BY SomeIn
    <3>2. Sum(T) = fun[c] + Sum(T \ {c}) BY <1>1
    <3>3. CASE c = x BY <3>2, <3>3
    <3>4. CASE c # x
      <4> HIDE DEF c
      <4>1. x \in T \ {c} /\ c \in T \ {x} BY <3>1, <3>4
      <4>2. /\ T \ {c} \in SUBSET S /\ Cardinality(T \ {c}) = n
            /\ T \ {x} \in SUBSET S /\ Cardinality(T \ {x}) = n
        BY <2>1, <3>1, LessOne
      <4>3. Sum(T \ {c}) = fun[x] + Sum((T \ {c}) \ {x}) BY <1>3, <4>1, <4>2
      <4>4. Sum(T \ {x}) = fun[c] + Sum((T \ {x}) \ {c}) BY <1>3, <4>1, <4>2
      <4>5. (T \ {c}) \ {x} = (T \ {x}) \ {c} OBVIOUS
      <4>6. fun[x] \in Int /\ fun[c] \in Int /\ Sum((T \ {c}) \ {x}) \in Int BY <1>1, <3>1
      <4>7. Sum((T \ {x}) \ {c}) = Sum((T \ {c}) \ {x}) BY <4>5
      <4> HIDE DEF G
      <4> QED BY <3>2, <4>3, <4>4, <4>6, <4>7
    <3> QED BY <3>3, <3>4
  <2> QED BY <2>1
<1>4. 0..Cardinality(S) \subseteq G
  <2> HIDE DEF G
  <2>1. \A k \in 1..Cardinality(S) : k - 1 \in G => k \in G
    <3> TAKE k \in 1..Cardinality(S)
    <3>1. k - 1 \in Nat /\ (k - 1) + 1 = k BY <1>0
    <3> QED BY <3>1, <1>3
  <2> QED BY <1>0, <1>2, <2>1, InductionUpTo
<1>5. \A T \in SUBSET S : Cardinality(T) \in 0..Cardinality(S)
  BY <1>0, FS_Subset, FS_CardinalityType
<1> QED BY <1>4, <1>5 DEF Sum

LEMMA SumGrows ==
  ASSUME NEW S, IsFiniteSet(S), NEW fun, \A x \in S : fun[x] \in Nat
  PROVE  /\ \A T \in SUBSET S : SumFunctionOnSet(fun, T) \in Nat
         /\ \A U \in SUBSET S : \A T \in SUBSET U : SumFunctionOnSet(fun, T) <= SumFunctionOnSet(fun, U)
<1> DEFINE Sum(T) == SumFunctionOnSet(fun, T)
           G == {U \in SUBSET S : Sum(U) \in Nat}
           H == {n \in Nat : \A U \in SUBSET S : Cardinality(U) = n => \A T \in SUBSET U : Sum(T) <= Sum(U)}
<1>0. Cardinality(S) \in Nat BY FS_CardinalityType
<1>1. /\ Sum({}) = 0
      /\ \A T \in SUBSET S : T # {} => Sum(T) = fun[Some(T)] + Sum(T \ {Some(T)})
  <2>1. \A x \in S : fun[x] \in Int OBVIOUS
  <2> QED BY <2>1, SumIs
<1>2. \A U \in SUBSET S : \A x \in U : Sum(U) = fun[x] + Sum(U \ {x})
  <2>1. \A x \in S : fun[x] \in Int OBVIOUS
  <2>2. ASSUME NEW T \in SUBSET S, NEW x \in T
        PROVE  SumFunctionOnSet(fun, T) = fun[x] + SumFunctionOnSet(fun, T \ {x})
    <3> HIDE DEF Sum, G, H
    <3> QED BY <2>1, SumAny
  <2> QED BY <2>2
<1> HIDE DEF Sum
<1>3. SUBSET S \subseteq G
  <2>1. {} \in G BY <1>1
  <2>2. ASSUME NEW T \in SUBSET S, T # {}, T \ {Some(T)} \in G PROVE T \in G
    BY <1>1, <2>2, SomeIn
  <2> HIDE DEF G
  <2> QED BY <2>1, <2>2, SetInduction
<1>4. 0 \in H
  <2>1. \A T \in SUBSET S : Cardinality(T) = 0 => T = {} BY FS_Subset, FS_EmptySet
  <2>2. ASSUME NEW U \in SUBSET S, Cardinality(U) = 0, NEW T \in SUBSET U PROVE Sum(T) <= Sum(U)
    <3>1. T = {} /\ U = {} BY <2>1, <2>2
    <3> QED BY <3>1, <1>1
  <2> QED BY <2>2
<1>5. ASSUME NEW n \in Nat, n \in H PROVE n + 1 \in H
  <2>1. ASSUME NEW U \in SUBSET S, Cardinality(U) = n + 1, NEW T \in SUBSET U PROVE Sum(T) <= Sum(U)
    <3>1. Sum(T) \in Nat /\ Sum(U) \in Nat BY <1>3
    <3>2. CASE T = U BY <3>1, <3>2
    <3>3. CASE T # U
      <4>1. PICK x \in U : x \notin T BY <3>3
      <4>2. U \ {x} \in SUBSET S /\ Cardinality(U \ {x}) = n /\ T \in SUBSET (U \ {x}) BY <2>1, <4>1, LessOne
      <4>3. Sum(T) <= Sum(U \ {x}) BY <1>5, <4>2
      <4>4. Sum(U) = fun[x] + Sum(U \ {x}) /\ fun[x] \in Nat /\ Sum(U \ {x}) \in Nat BY <1>2, <1>3, <4>2
      <4> QED BY <3>1, <4>3, <4>4
    <3> QED BY <3>2, <3>3
  <2> QED BY <2>1
<1>6. 0..Cardinality(S) \subseteq H
  <2> HIDE DEF H
  <2>1. \A k \in 1..Cardinality(S) : k - 1 \in H => k \in H
    <3> TAKE k \in 1..Cardinality(S)
    <3>1. k - 1 \in Nat /\ (k - 1) + 1 = k BY <1>0
    <3> QED BY <3>1, <1>5
  <2> QED BY <1>0, <1>4, <2>1, InductionUpTo
<1>7. \A T \in SUBSET S : Cardinality(T) \in 0..Cardinality(S)
  BY <1>0, FS_Subset, FS_CardinalityType
<1> QED BY <1>3, <1>6, <1>7 DEF Sum

-----------------------------------------------------------------------------
(* Square roots, and the inequality of Cauchy and Schwarz.                   *)
LEMMA RootIs ==
  ASSUME NEW x \in Nat
  PROVE  /\ Root(x) \in 0..x /\ Root(x) * Root(x) <= x /\ (Root(x) + 1) * (Root(x) + 1) > x
<1> DEFINE S == {r \in Nat : (r + 1) * (r + 1) > x}
<1>1. x \in S
  <2>1. (x + 1) * (x + 1) = x * x + 2 * x + 1 /\ x * x >= 0 OBVIOUS
  <2> QED BY <2>1
<1>2. PICK r \in S : \A q \in S : r <= q
  <2>1. S \in SUBSET Nat /\ S # {} BY <1>1
  <2> HIDE DEF S
  <2> QED BY <2>1, LeastNat
<1>3. r \in Nat /\ (r + 1) * (r + 1) > x /\ r <= x BY <1>1, <1>2
<1>4. r * r <= x
  <2>1. CASE r = 0 BY <2>1
  <2>2. CASE r # 0
    <3>1. r - 1 \in Nat /\ r - 1 \notin S
      <4>1. r - 1 \in Nat BY <1>3, <2>2
      <4> HIDE DEF S
      <4> QED BY <1>2, <1>3, <4>1
    <3>2. (r - 1) + 1 = r BY <1>3
    <3> QED BY <1>3, <3>1, <3>2
  <2> QED BY <2>1, <2>2
<1>5. \E q \in 0..x : q * q <= x /\ (q + 1) * (q + 1) > x BY <1>3, <1>4
<1> HIDE DEF S
<1> DEFINE P(q) == q * q <= x /\ (q + 1) * (q + 1) > x
<1>6. Root(x) = CHOOSE q \in 0..x : P(q) BY DEF Root
<1>7. \E q \in 0..x : P(q) BY <1>5
<1>8. Root(x) \in 0..x /\ P(Root(x))
  <2> HIDE DEF P
  <2> QED BY <1>6, <1>7
<1> QED BY <1>8

LEMMA SquaresGrow ==
  ASSUME NEW m \in Nat, NEW n \in Nat, m < n
  PROVE  m * m < n * n
<1>1. m * m <= m * n
  <2>1. n - m \in Nat /\ m * (n - m) >= 0 OBVIOUS
  <2>2. m * (n - m) = m * n - m * m OBVIOUS
  <2> QED BY <2>1, <2>2
<1>2. m * n < n * n
  <2>1. n - m \in Nat /\ n \in Nat \ {0} /\ n - m # 0 OBVIOUS
  <2>2. n * (n - m) > 0 BY <2>1
  <2>3. n * (n - m) = n * n - m * n OBVIOUS
  <2> QED BY <2>2, <2>3
<1> QED BY <1>1, <1>2

\* Of two numbers, the product is at most the square of the mean.
LEMMA MeanOf ==
  ASSUME NEW p \in Nat, NEW q \in Nat, NEW r \in Nat, r * r <= 4 * (p * q)
  PROVE  r <= p + q
<1>1. (p + q) * (p + q) >= 4 * (p * q)
  <2>1. (p - q) * (p - q) >= 0
    <3>1. CASE p >= q BY <3>1
    <3>2. CASE q >= p
      <4>1. (p - q) * (p - q) = (q - p) * (q - p) OBVIOUS
      <4> QED BY <3>2, <4>1
    <3> QED BY <3>1, <3>2
  <2>2. (p - q) * (p - q) = (p + q) * (p + q) - 4 * (p * q) OBVIOUS
  <2> QED BY <2>1, <2>2
<1>2. CASE r > p + q
  <2>1. (p + q) * (p + q) < r * r BY <1>2, SquaresGrow
  <2> QED BY <1>1, <2>1
<1> QED BY <1>2

LEMMA OneMore ==
  ASSUME NEW a \in Nat, NEW b \in Nat, NEW c \in Nat, NEW x \in Nat, NEW y \in Nat, a * a <= b * c
  PROVE  (x * y + a) * (x * y + a) <= (x * x + b) * (y * y + c)
<1> DEFINE p == (x * x) * c
           q == (y * y) * b
           r == 2 * ((x * y) * a)
           z == (x * y) * (x * y)
<1>1. p \in Nat /\ q \in Nat /\ r \in Nat /\ z \in Nat OBVIOUS
<1>2. r * r = 4 * (z * (a * a)) OBVIOUS
<1>3. p * q = z * (b * c) OBVIOUS
<1>4. z * (a * a) <= z * (b * c)
  <2> DEFINE d == b * c - a * a
  <2>1. d \in Nat OBVIOUS
  <2>2. z * d \in Nat BY <1>1, <2>1
  <2>3. z * d = z * (b * c) - z * (a * a) OBVIOUS
  <2>4. z * (a * a) \in Nat /\ z * (b * c) \in Nat BY <1>1
  <2> QED BY <2>2, <2>3, <2>4
<1>5. r <= p + q
  <2>1. r * r <= 4 * (p * q) BY <1>1, <1>2, <1>3, <1>4
  <2> HIDE DEF p, q, r
  <2> QED BY <1>1, <2>1, MeanOf
<1>6. (x * y + a) * (x * y + a) = z + r + a * a OBVIOUS
<1>7. (x * x + b) * (y * y + c) = z + (p + q) + b * c OBVIOUS
<1>8. a * a \in Nat /\ b * c \in Nat OBVIOUS
<1> HIDE DEF p, q, r, z
<1> QED BY <1>1, <1>5, <1>6, <1>7, <1>8

LEMMA Quotient ==
  ASSUME NEW a \in Nat, NEW b \in Nat \ {0}
  PROVE  /\ a \div b \in Nat
         /\ \A n \in Nat : a <= n * b => a \div b <= n
<1> DEFINE q == a \div b
<1>1. q \in Int /\ b * q <= a /\ a < b * (q + 1) OBVIOUS
<1> HIDE DEF q
<1>2. q \in Nat
  <2> SUFFICES ASSUME q < 0 PROVE FALSE BY <1>1
  <2>1. -(q + 1) \in Nat BY <1>1
  <2>2. b * (-(q + 1)) >= 0 BY <2>1
  <2>3. b * (-(q + 1)) = -(b * (q + 1)) BY <1>1
  <2> QED BY <1>1, <2>2, <2>3
<1>3. ASSUME NEW n \in Nat, a <= n * b PROVE q <= n
  <2> SUFFICES ASSUME q > n PROVE FALSE BY <1>2
  <2>1. q - n - 1 \in Nat BY <1>2
  <2>2. b * (q - n - 1) >= 0 BY <2>1
  <2>3. b * (q - n - 1) = b * q - n * b - b BY <1>2
  <2>4. b * q \in Int /\ n * b \in Int BY <1>2
  <2> QED BY <1>1, <1>2, <1>3, <2>2, <2>3, <2>4
<1> QED BY <1>2, <1>3 DEF q

-----------------------------------------------------------------------------
(* Vectors.                                                                  *)
V == [1..Dim -> Nat]

LEMMA DimIs == Dim \in Nat /\ IsFiniteSet(1..Dim)
<1>1. Dim \in Nat BY ProjectConstants
<1>2. 1 \in Int /\ Dim \in Int BY <1>1
<1>3. IsFiniteSet(1..Dim) BY <1>2, FS_Interval
<1> QED BY <1>1, <1>3

LEMMA DotSum ==
  ASSUME NEW u \in V, NEW v \in V
  PROVE  /\ Dot(u, v) = SumFunctionOnSet([d \in 1..Dim |-> u[d] * v[d]], 1..Dim)
         /\ \A d \in 1..Dim : u[d] * v[d] \in Nat
<1>1. DOMAIN u = 1..Dim BY DEF V
<1>2. \A d \in 1..Dim : u[d] \in Nat /\ v[d] \in Nat BY DEF V
<1> QED BY <1>1, <1>2 DEF Dot, SumFunction

LEMMA DotIs ==
  ASSUME NEW u \in V, NEW v \in V
  PROVE  /\ Dot(u, v) \in Nat /\ Dot(u, u) \in Nat /\ Dot(v, v) \in Nat
         /\ Dot(u, v) * Dot(u, v) <= Dot(u, u) * Dot(v, v)
<1> DEFINE S == 1..Dim
           F(x, y) == [d \in S |-> x[d] * y[d]]
           Sum(x, y, T) == SumFunctionOnSet(F(x, y), T)
           G == {T \in SUBSET S : Sum(u, v, T) * Sum(u, v, T) <= Sum(u, u, T) * Sum(v, v, T)}
<1>1. IsFiniteSet(S) BY DimIs
<1>2. ASSUME NEW x \in V, NEW y \in V
      PROVE  /\ \A T \in SUBSET S : Sum(x, y, T) \in Nat
             /\ Sum(x, y, {}) = 0
             /\ \A T \in SUBSET S : T # {} =>
                  Some(T) \in S /\ Sum(x, y, T) = x[Some(T)] * y[Some(T)] + Sum(x, y, T \ {Some(T)})
  <2>1. \A d \in S : F(x, y)[d] = x[d] * y[d] OBVIOUS
  <2>2. \A d \in S : F(x, y)[d] \in Nat BY <2>1, <1>2, DotSum
  <2>3. \A d \in S : F(x, y)[d] \in Int BY <2>2
  <2> HIDE DEF F, S
  <2>4. \A T \in SUBSET S : SumFunctionOnSet(F(x, y), T) \in Nat BY <1>1, <2>2, SumGrows
  <2>5. SumFunctionOnSet(F(x, y), {}) = 0 BY <1>1, <2>3, SumIs
  <2>6. ASSUME NEW T \in SUBSET S, T # {}
        PROVE  /\ Some(T) \in S
               /\ SumFunctionOnSet(F(x, y), T) = F(x, y)[Some(T)] + SumFunctionOnSet(F(x, y), T \ {Some(T)})
    BY <1>1, <2>3, <2>6, SumIs, SomeIn
  <2> QED BY <2>1, <2>4, <2>5, <2>6
<1> HIDE DEF Sum, S
<1>3. {} \in G BY <1>2
<1>4. ASSUME NEW T \in SUBSET S, T # {}, T \ {Some(T)} \in G PROVE T \in G
  <2> DEFINE d == Some(T)
             R == T \ {Some(T)}
             x == u[d]
             y == v[d]
             a == Sum(u, v, R)
             b == Sum(u, u, R)
             c == Sum(v, v, R)
  <2>1. a \in Nat /\ b \in Nat /\ c \in Nat /\ a * a <= b * c BY <1>2, <1>4
  <2>2. d \in S BY <1>2, <1>4
  <2>3. x \in Nat /\ y \in Nat BY <2>2 DEF S, V
  <2>4. Sum(u, v, T) = x * y + a /\ Sum(u, u, T) = x * x + b /\ Sum(v, v, T) = y * y + c
    BY <1>2, <1>4
  <2> HIDE DEF a, b, c, x, y
  <2>5. (x * y + a) * (x * y + a) <= (x * x + b) * (y * y + c) BY <2>1, <2>3, OneMore
  <2> QED BY <2>4, <2>5
<1>5. SUBSET S \subseteq G
  <2> HIDE DEF G
  <2> QED BY <1>1, <1>3, <1>4, SetInduction
<1>6. S \in SUBSET S OBVIOUS
<1>7. Sum(u, v, S) \in Nat /\ Sum(u, u, S) \in Nat /\ Sum(v, v, S) \in Nat
      /\ Sum(u, v, S) * Sum(u, v, S) <= Sum(u, u, S) * Sum(v, v, S)
  BY <1>2, <1>5, <1>6
<1>8. Dot(u, v) = Sum(u, v, S) /\ Dot(u, u) = Sum(u, u, S) /\ Dot(v, v) = Sum(v, v, S)
  BY DotSum DEF Sum, S
<1> QED BY <1>7, <1>8

LEMMA CosineIs ==
  ASSUME NEW u \in V, NEW v \in V
  PROVE  Cosine(u, v) \in 0..100
<1> DEFINE d == Dot(u, v)
           n == Dot(u, u) * Dot(v, v)
           q == (10000 * d * d) \div n
<1>1. d \in Nat /\ n \in Nat /\ d * d <= n BY DotIs
<1>2. CASE d = 0 BY <1>2 DEF Cosine
<1>3. CASE d # 0
  <2> HIDE DEF d, n
  <2>1. d * d > 0 BY <1>1, <1>3
  <2>2. n \in Nat \ {0} BY <1>1, <2>1
  <2>3. 10000 * d * d \in Nat /\ 10000 * d * d <= 10000 * n
    <3>1. 10000 * d * d = 10000 * (d * d) BY <1>1
    <3>2. d * d \in Nat BY <1>1
    <3> QED BY <1>1, <3>1, <3>2
  <2>4. q \in Nat /\ q <= 10000 BY <2>2, <2>3, Quotient
  <2> HIDE DEF q
  <2>5. Root(q) \in Nat /\ Root(q) * Root(q) <= q BY <2>4, RootIs
  <2>6. Root(q) <= 100
    <3> SUFFICES ASSUME 100 < Root(q) PROVE FALSE BY <2>5
    <3>1. 100 * 100 < Root(q) * Root(q) BY <2>5, SquaresGrow
    <3> QED BY <2>4, <2>5, <3>1
  <2>7. Cosine(u, v) = Root(q) BY <1>3 DEF Cosine, d, n, q
  <2> QED BY <2>5, <2>6, <2>7
<1> QED BY <1>2, <1>3

LEMMA UnitIs ==
  ASSUME NEW v \in V
  PROVE  Unit(v) \in V
<1> DEFINE D == Dot(v, v)
           E(d) == IF D = 0 THEN 0 ELSE (100 * v[d]) \div Root(100 * D)
<1>1. D \in Nat BY DotIs
<1> HIDE DEF D
<1>2. ASSUME NEW d \in 1..Dim PROVE E(d) \in Nat
  <2>1. v[d] \in Nat BY DEF V
  <2>2. CASE D # 0
    <3>1. 100 * D \in Nat \ {0} BY <1>1, <2>2
    <3>2. Root(100 * D) \in Nat \ {0}
      <4> DEFINE r == Root(100 * D)
      <4>1. r \in Nat /\ (r + 1) * (r + 1) > 100 * D BY <3>1, RootIs
      <4> HIDE DEF r
      <4>2. r # 0 BY <3>1, <4>1
      <4> QED BY <4>1, <4>2 DEF r
    <3>3. 100 * v[d] \in Nat BY <2>1
    <3> QED BY <2>2, <3>2, <3>3, Quotient
  <2> QED BY <2>2
<1>3. DOMAIN v = 1..Dim BY DEF V
<1>4. Unit(v) = [d \in 1..Dim |-> E(d)] BY <1>3 DEF Unit, D
<1> HIDE DEF E
<1> QED BY <1>2, <1>4 DEF V

LEMMA PlusIs ==
  ASSUME NEW S, IsFiniteSet(S), S # {}, NEW vs \in [S -> V]
  PROVE  Plus(vs) \in V
<1> DEFINE F(d) == [x \in S |-> vs[x][d]]
<1>1. DOMAIN (CHOOSE v \in Range(vs) : TRUE) = 1..Dim
  <2>1. \E v : v \in Range(vs) BY DEF Range
  <2>2. (CHOOSE v \in Range(vs) : TRUE) \in Range(vs) BY <2>1
  <2> QED BY <2>2 DEF Range, V
<1>2. ASSUME NEW d \in 1..Dim PROVE SumFunction(F(d)) \in Nat
  <2>1. \A x \in S : F(d)[x] \in Nat BY DEF V
  <2>2. DOMAIN F(d) = S OBVIOUS
  <2> HIDE DEF F
  <2>3. S \in SUBSET S OBVIOUS
  <2>4. SumFunctionOnSet(F(d), S) \in Nat BY <2>1, <2>3, SumGrows
  <2> QED BY <2>2, <2>4 DEF SumFunction
<1>3. Plus(vs) = [d \in 1..Dim |-> SumFunction(F(d))] BY <1>1 DEF Plus
<1> HIDE DEF F
<1> QED BY <1>2, <1>3 DEF V

LEMMA ImageIsFinite ==
  ASSUME NEW f, IsFiniteSet(DOMAIN f)
  PROVE  IsFiniteSet(Range(f)) /\ Cardinality(Range(f)) <= Cardinality(DOMAIN f)
<1> DEFINE g == [x \in DOMAIN f |-> f[x]]
<1>1. g \in Surjection(DOMAIN f, Range(f)) BY DEF Surjection, Range
<1> QED BY <1>1, FS_Surjection

LEMMA ConstantsAreFinite ==
  /\ IsFiniteSet(Addresses) /\ IsFiniteSet(Threads)
  /\ Threads \subseteq Nat /\ Cardinality(Threads) \in Nat
<1>1. IsFiniteSet(Addresses)
  <2>1. DOMAIN Emails = 1..Len(Emails) /\ Len(Emails) \in Nat BY ProjectConstants
  <2>2. IsFiniteSet(DOMAIN Emails) BY <2>1, FS_Interval
  <2> QED BY <2>2, ImageIsFinite DEF Addresses
<1>2. IsFiniteSet(Threads)
  <2> DEFINE f == [m \in Universe |-> m.thread]
  <2>1. Range(f) = Threads /\ DOMAIN f = Universe BY DEF Range, Threads
  <2> HIDE DEF f
  <2> QED BY <2>1, ImageIsFinite, ProjectConstants
<1> QED BY <1>1, <1>2, FS_CardinalityType, ProjectConstants

-----------------------------------------------------------------------------
(* Similarity, of what a thread and a community's profile have in common.    *)
IsFeature(x) ==
  /\ x.participants \in SUBSET Addresses /\ IsFiniteSet(x.keywords)
  /\ x.embedding \in V /\ x.start \in Nat /\ x.end \in Nat /\ x.start <= x.end

LEMMA PairIsFinite == ASSUME NEW i, NEW j PROVE IsFiniteSet({i, j})
<1>1. {i, j} = {i} \cup {j} OBVIOUS
<1>2. IsFiniteSet({i}) /\ IsFiniteSet({j}) BY FS_Singleton
<1>3. IsFiniteSet({i} \cup {j}) BY <1>2, FS_Union
<1> QED BY <1>1, <1>3

LEMMA JaccardIs ==
  ASSUME NEW a, NEW b, IsFiniteSet(a), IsFiniteSet(b)
  PROVE  Jaccard(a, b) \in Nat
<1>1. CASE a \cup b = {} BY <1>1 DEF Jaccard
<1>2. CASE a \cup b # {}
  <2>1. IsFiniteSet(a \cup b) /\ IsFiniteSet(a \cap b) BY FS_Union, FS_Intersection
  <2>2. Cardinality(a \cap b) \in Nat /\ Cardinality(a \cup b) \in Nat \ {0}
    BY <1>2, <2>1, FS_CardinalityType, FS_EmptySet
  <2>3. 100 * Cardinality(a \cap b) \in Nat BY <2>2
  <2> QED BY <1>2, <2>2, <2>3, Quotient DEF Jaccard
<1> QED BY <1>1, <1>2

LEMMA OverlapIs ==
  ASSUME NEW a, NEW b, IsFiniteSet(a), IsFiniteSet(b)
  PROVE  OverlapCoeff(a, b) \in 0..100
<1>1. CASE a = {} \/ b = {} BY <1>1 DEF OverlapCoeff
<1>2. CASE ~(a = {} \/ b = {})
  <2> DEFINE S == {Cardinality(a), Cardinality(b)}
  <2>1. Cardinality(a) \in Nat \ {0} /\ Cardinality(b) \in Nat \ {0}
    BY <1>2, FS_CardinalityType, FS_EmptySet
  <2>2. Min(S) \in S /\ IsFiniteSet(a \cap b)
        /\ Cardinality(a \cap b) <= Cardinality(a) /\ Cardinality(a \cap b) <= Cardinality(b)
    <3>1. S \in SUBSET Int /\ S # {} BY <2>1
    <3>2. IsFiniteSet(S) BY PairIsFinite
    <3> HIDE DEF S
    <3> QED BY <3>1, <3>2, MinMax, FS_Intersection
  <2>3. Cardinality(a \cap b) \in Nat BY <2>2, FS_CardinalityType
  <2> DEFINE k == Cardinality(a \cap b)
             n == Min(S)
  <2>4. k \in Nat /\ n \in Nat \ {0} /\ k <= n BY <2>1, <2>2, <2>3
  <2>5. OverlapCoeff(a, b) = (100 * k) \div n BY <1>2 DEF OverlapCoeff
  <2> HIDE DEF k, n
  <2>6. 100 * k \in Nat /\ 100 * k <= 100 * n BY <2>4
  <2> QED BY <2>4, <2>5, <2>6, Quotient
<1> QED BY <1>1, <1>2

LEMMA WeightedIs ==
  ASSUME NEW a, NEW b, NEW w, IsFiniteSet(a), IsFiniteSet(b), \A p \in a \cup b : w[p] \in Nat
  PROVE  WeightedJaccard(a, b, w) \in 0..100
<1> DEFINE all == SumFunctionOnSet(w, a \cup b)
           both == SumFunctionOnSet(w, a \cap b)
<1>1. all \in Nat /\ both \in Nat /\ both <= all
  <2>1. IsFiniteSet(a \cup b) BY FS_Union
  <2>2. a \cup b \in SUBSET (a \cup b) /\ a \cap b \in SUBSET (a \cup b) OBVIOUS
  <2> QED BY <2>1, <2>2, SumGrows
<1>2. WeightedJaccard(a, b, w) = IF all = 0 THEN 0 ELSE (100 * both) \div all BY DEF WeightedJaccard
<1> HIDE DEF all, both
<1>3. 100 * both \in Nat /\ 100 * both <= 100 * all BY <1>1
<1>4. all # 0 => (100 * both) \div all \in Nat /\ (100 * both) \div all <= 100 BY <1>1, <1>3, Quotient
<1> QED BY <1>2, <1>4

LEMMA MinMaxOfTwo ==
  ASSUME NEW i \in Int, NEW j \in Int
  PROVE  /\ Min({i, j}) = IF i <= j THEN i ELSE j
         /\ Max({i, j}) = IF i <= j THEN j ELSE i
         /\ Min({i, j}) \in {i, j} /\ Max({i, j}) \in {i, j} /\ Min({i, j}) <= Max({i, j})
<1>1. IsFiniteSet({i, j}) BY PairIsFinite
<1>2. {i, j} \in SUBSET Int /\ {i, j} # {} OBVIOUS
<1> QED BY <1>1, <1>2, MinMax

LEMMA TemporalIs ==
  ASSUME NEW a, NEW b, IsFeature(a), IsFeature(b)
  PROVE  TemporalAffinity(a, b) \in 0..100
<1> DEFINE inter == Min({a.end, b.end}) - Max({a.start, b.start})
           span == Max({a.end, b.end}) - Min({a.start, b.start})
<1>1. a.start \in Nat /\ a.end \in Nat /\ b.start \in Nat /\ b.end \in Nat
  BY DEF IsFeature
<1>2. inter \in Int /\ span \in Int /\ inter <= span
  <2>1. Min({a.end, b.end}) \in Int /\ Max({a.end, b.end}) \in Int /\ Min({a.end, b.end}) <= Max({a.end, b.end})
    BY <1>1, MinMaxOfTwo
  <2>2. Min({a.start, b.start}) \in Int /\ Max({a.start, b.start}) \in Int
        /\ Min({a.start, b.start}) <= Max({a.start, b.start})
    BY <1>1, MinMaxOfTwo
  <2>3. inter = Min({a.end, b.end}) - Max({a.start, b.start})
        /\ span = Max({a.end, b.end}) - Min({a.start, b.start})
    OBVIOUS
  <2> HIDE DEF inter, span
  <2> QED BY <2>1, <2>2, <2>3
<1>3. TemporalAffinity(a, b) = IF inter > 0 THEN (100 * inter) \div span ELSE Decay(-inter)
  BY DEF TemporalAffinity
<1> HIDE DEF inter, span
<1>4. CASE inter > 0
  <2>1. 100 * inter \in Nat /\ span \in Nat \ {0} /\ 100 * inter <= 100 * span BY <1>2, <1>4
  <2>2. (100 * inter) \div span \in Nat /\ (100 * inter) \div span <= 100 BY <2>1, Quotient
  <2> QED BY <1>3, <1>4, <2>2
<1>5. CASE ~(inter > 0)
  <2>1. -inter \in Int BY <1>2
  <2>2. Decay(-inter) \in {30, 23, 11, 1, 0} BY <2>1 DEF Decay
  <2> QED BY <1>3, <1>5, <2>2
<1> QED BY <1>4, <1>5

Scores == 0..9500
Weighs(w, ps) == \A p \in ps : w[p] \in Nat

LEMMA AffinityIs ==
  ASSUME NEW a, NEW b, IsFeature(a), IsFeature(b), NEW w, Weighs(w, a.participants \cup b.participants)
  PROVE  Affinity(a, b, w) \in Scores
<1>1. IsFiniteSet(a.participants) /\ IsFiniteSet(b.participants)
  BY ConstantsAreFinite, FS_Subset DEF IsFeature
<1>2. WeightedJaccard(a.participants, b.participants, w) \in 0..100
  <2>1. \A p \in a.participants \cup b.participants : w[p] \in Nat BY DEF Weighs
  <2> QED BY <1>1, <2>1, WeightedIs
<1>3. Cosine(a.embedding, b.embedding) \in 0..100 BY CosineIs DEF IsFeature
<1>4. OverlapCoeff(a.keywords, b.keywords) \in 0..100 BY OverlapIs DEF IsFeature
<1>5. TemporalAffinity(a, b) \in 0..100 BY TemporalIs
<1> DEFINE p == WeightedJaccard(a.participants, b.participants, w)
           e == Cosine(a.embedding, b.embedding)
           k == OverlapCoeff(a.keywords, b.keywords)
           s == TemporalAffinity(a, b)
<1>6. Affinity(a, b, w) = 35 * p + 30 * e + 20 * k + 10 * s BY DEF Affinity, Weight
<1>7. p \in 0..100 /\ e \in 0..100 /\ k \in 0..100 /\ s \in 0..100 BY <1>2, <1>3, <1>4, <1>5
<1> DEFINE sum == 35 * p + 30 * e + 20 * k + 10 * s
<1> HIDE DEF p, e, k, s
<1>8. sum \in Scores
  <2>1. sum \in 0..9500 BY <1>7
  <2> HIDE DEF sum
  <2> QED BY <2>1 DEF Scores
<1>9. Affinity(a, b, w) = sum BY <1>6
<1> HIDE DEF sum
<1> QED BY <1>8, <1>9

-----------------------------------------------------------------------------
(* The features of the threads of some mail.                                 *)
IsThread(x) ==
  /\ IsFeature(x) /\ IsFiniteSet(x.links) /\ DOMAIN x.sent \subseteq Addresses
  /\ \A p \in DOMAIN x.sent : x.sent[p] \in Nat \ {0}
IsFeats(f) == DOMAIN f \in (SUBSET Threads) \ {{}} /\ \A t \in DOMAIN f : IsThread(f[t])

LEMMA LatestIs ==
  ASSUME NEW ms \in SUBSET Universe, ms # {}
  PROVE  Latest(ms) \in ms
<1> DEFINE R == {p \in Universe \X Universe : p[1] = p[2] \/ Before(p[2], p[1])}
<1>1. \A m \in Universe : m.n \in Nat /\ m.day \in Nat BY ProjectConstants
<1>2. \A m, k \in ms : <<m, k>> \in R \/ <<k, m>> \in R
  <2> SUFFICES ASSUME NEW m \in ms, NEW k \in ms, m # k PROVE Before(k, m) \/ Before(m, k) OBVIOUS
  <2>1. m.day # k.day \/ m.n # k.n BY ProjectConstants
  <2> QED BY <1>1, <2>1 DEF Before
<1>3. \A m, k, l \in ms : <<m, k>> \in R /\ <<k, l>> \in R => <<m, l>> \in R
  <2> SUFFICES ASSUME NEW m \in ms, NEW k \in ms, NEW l \in ms, <<m, k>> \in R, <<k, l>> \in R
               PROVE  <<m, l>> \in R
    OBVIOUS
  <2>1. CASE m = k \/ k = l BY <2>1
  <2>2. CASE m # k /\ k # l
    <3>1. Before(k, m) /\ Before(l, k) BY <2>2
    <3>2. Before(l, m) BY <1>1, <3>1 DEF Before
    <3> QED BY <3>2
  <2> QED BY <2>1, <2>2
<1>4. IsFiniteSet(ms) BY ProjectConstants, FS_Subset
<1>5. \E m \in ms : \A k \in ms : <<m, k>> \in R
  <2> HIDE DEF R
  <2> QED BY <1>2, <1>3, <1>4, Greatest
<1>6. \E m \in ms : \A k \in ms : m = k \/ Before(k, m) BY <1>5
<1> QED BY <1>6 DEF Latest

LEMMA TokensIs == ASSUME NEW m \in Universe PROVE Tokens(m) \in Nat
<1>1. Cardinality(Words[m.text]) \in Nat BY ProjectConstants, FS_CardinalityType
<1> DEFINE n == Cardinality(Words[m.text])
<1>2. n \in Nat BY <1>1
<1>3. Max({1, n}) \in {1, n}
  <2> HIDE DEF n
  <2>1. 1 \in Int /\ n \in Int BY <1>2
  <2> QED BY <2>1, MinMaxOfTwo
<1> QED BY <1>2, <1>3 DEF Tokens

LEMMA DaysOf ==
  ASSUME NEW ms \in SUBSET Universe, ms # {}
  PROVE  /\ Min({m.day : m \in ms}) \in Nat /\ Max({m.day : m \in ms}) \in Nat
         /\ Min({m.day : m \in ms}) <= Max({m.day : m \in ms})
<1> DEFINE f == [m \in ms |-> m.day]
<1>1. Range(f) = {m.day : m \in ms} /\ DOMAIN f = ms BY DEF Range
<1>2. IsFiniteSet(ms) BY ProjectConstants, FS_Subset
<1>3. IsFiniteSet({m.day : m \in ms})
  <2> HIDE DEF f
  <2> QED BY <1>1, <1>2, ImageIsFinite
<1>4. {m.day : m \in ms} \in SUBSET Nat /\ {m.day : m \in ms} # {} BY ProjectConstants
<1>5. {m.day : m \in ms} \in SUBSET Int BY <1>4
<1> DEFINE S == {m.day : m \in ms}
<1> HIDE DEF S
<1> QED BY <1>3, <1>4, <1>5, MinMax DEF S

LEMMA UnionIsFinite ==
  ASSUME NEW ms, IsFiniteSet(ms), NEW f, ms = DOMAIN f, \A m \in ms : IsFiniteSet(f[m])
  PROVE  IsFiniteSet(UNION Range(f))
<1>1. IsFiniteSet(Range(f)) BY ImageIsFinite
<1>2. \A s \in Range(f) : IsFiniteSet(s) BY DEF Range
<1> QED BY <1>1, <1>2, FS_UNION

LEMMA FeaturesAre ==
  ASSUME NEW ms \in SUBSET Universe, ms # {}, NEW person \in [Addresses -> Addresses \cup {NoOne}], NEW self
  PROVE  /\ DOMAIN Features(ms, person, self) = {m.thread : m \in ms}
         /\ IsFeats(Features(ms, person, self))
<1> DEFINE f == Features(ms, person, self)
           Known(e) == person[e] \notin {NoOne, self}
           its(t) == {m \in ms : m.thread = t}
           Parts(t) == {person[e] : e \in {a \in AddressesOf(its(t)) : Known(a)}}
           Terms(t) == UNION {Words[m.text] : m \in its(t)}
           Embeds(t) == [m \in its(t) |-> [d \in DOMAIN m.topic |-> Tokens(m) * EmbedFn(ms, m.text)[d]]]
           First(t) == Min({m.day : m \in its(t)})
           Until(t) == Max({m.day : m \in its(t)})
           Links(t) == UNION {m.links : m \in its(t)}
           Sent(t) == [p \in {person[m.sender] : m \in {k \in its(t) : Known(k.sender)}} |->
                         Cardinality({m \in its(t) : person[m.sender] = p})]
<1>1. f = [t \in {m.thread : m \in ms} |->
            [thread |-> t, participants |-> Parts(t), keywords |-> Terms(t), embedding |-> Unit(Plus(Embeds(t))),
             start |-> First(t), end |-> Until(t), links |-> Links(t), sent |-> Sent(t)]]
  BY DEF Features
<1>2. DOMAIN f = {m.thread : m \in ms} BY <1>1
<1>3. {m.thread : m \in ms} \in (SUBSET Threads) \ {{}} BY DEF Threads
<1>4. ASSUME NEW t \in {m.thread : m \in ms} PROVE its(t) \in SUBSET Universe /\ its(t) # {} /\ IsFiniteSet(its(t))
  <2>1. its(t) \in SUBSET Universe /\ its(t) # {} OBVIOUS
  <2> QED BY <2>1, ProjectConstants, FS_Subset
<1>5. ASSUME NEW t \in {m.thread : m \in ms} PROVE Parts(t) \in SUBSET Addresses
  <2>1. AddressesOf(its(t)) \subseteq Addresses BY <1>4, ProjectConstants DEF AddressesOf
  <2> QED BY <2>1
<1>6. ASSUME NEW t \in {m.thread : m \in ms} PROVE IsFiniteSet(Terms(t))
  <2> DEFINE g == [m \in its(t) |-> Words[m.text]]
  <2>1. Range(g) = {Words[m.text] : m \in its(t)} /\ DOMAIN g = its(t) BY DEF Range
  <2>2. \A m \in its(t) : IsFiniteSet(g[m]) BY <1>4, ProjectConstants
  <2> HIDE DEF g
  <2>3. IsFiniteSet(UNION Range(g)) BY <1>4, <2>1, <2>2, UnionIsFinite
  <2> QED BY <2>1, <2>3
<1>7. ASSUME NEW t \in {m.thread : m \in ms} PROVE IsFiniteSet(Links(t))
  <2> DEFINE g == [m \in its(t) |-> m.links]
  <2>1. Range(g) = {m.links : m \in its(t)} /\ DOMAIN g = its(t) BY DEF Range
  <2>2. \A m \in its(t) : IsFiniteSet(g[m]) BY <1>4, ProjectConstants
  <2> HIDE DEF g
  <2>3. IsFiniteSet(UNION Range(g)) BY <1>4, <2>1, <2>2, UnionIsFinite
  <2> QED BY <2>1, <2>3
<1>8. ASSUME NEW t \in {m.thread : m \in ms} PROVE Unit(Plus(Embeds(t))) \in V
  <2>1. ASSUME NEW m \in its(t) PROVE [d \in DOMAIN m.topic |-> Tokens(m) * EmbedFn(ms, m.text)[d]] \in V
    <3>1. m \in Universe /\ m \in ms BY <1>4, <2>1
    <3>2. EmbedFn(ms, m.text) \in V
      <4> DEFINE same == {k \in ms : k.text = m.text}
      <4>1. same \in SUBSET Universe /\ same # {} BY <3>1
      <4>2. Latest(same) \in Universe
        <5> HIDE DEF same
        <5> QED BY <4>1, LatestIs
      <4> QED BY <4>2, ProjectConstants DEF EmbedFn, V
    <3>3. Tokens(m) \in Nat BY <3>1, TokensIs
    <3>4. DOMAIN m.topic = 1..Dim BY <3>1, ProjectConstants
    <3>5. ASSUME NEW d \in 1..Dim PROVE Tokens(m) * EmbedFn(ms, m.text)[d] \in Nat
      <4>1. EmbedFn(ms, m.text)[d] \in Nat BY <3>2 DEF V
      <4> DEFINE x == EmbedFn(ms, m.text)[d]
                 y == Tokens(m)
      <4>2. x \in Nat /\ y \in Nat BY <3>3, <4>1
      <4> HIDE DEF x, y
      <4>3. y * x \in Nat BY <4>2
      <4> QED BY <4>3 DEF x, y
    <3> QED BY <3>4, <3>5 DEF V
  <2>2. Embeds(t) \in [its(t) -> V]
    <3> HIDE DEF its
    <3> QED BY <2>1
  <2>3. Plus(Embeds(t)) \in V
    <3> HIDE DEF its, Embeds
    <3> QED BY <1>4, <2>2, PlusIs
  <2> HIDE DEF its, Embeds
  <2> QED BY <2>3, UnitIs
<1>9. ASSUME NEW t \in {m.thread : m \in ms} PROVE First(t) \in Nat /\ Until(t) \in Nat /\ First(t) <= Until(t)
  <2> HIDE DEF its
  <2> QED BY <1>4, DaysOf
<1>10. ASSUME NEW t \in {m.thread : m \in ms}
       PROVE  DOMAIN Sent(t) \subseteq Addresses /\ \A p \in DOMAIN Sent(t) : Sent(t)[p] \in Nat \ {0}
  <2> DEFINE senders == {person[m.sender] : m \in {k \in its(t) : Known(k.sender)}}
  <2>1. senders \subseteq Addresses BY <1>4, ProjectConstants
  <2>2. ASSUME NEW p \in senders PROVE Cardinality({m \in its(t) : person[m.sender] = p}) \in Nat \ {0}
    <3> DEFINE by == {m \in its(t) : person[m.sender] = p}
    <3>1. by \in SUBSET its(t) /\ by # {} OBVIOUS
    <3> HIDE DEF by, its
    <3>2. IsFiniteSet(by) BY <1>4, <3>1, FS_Subset
    <3>3. Cardinality(by) \in Nat \ {0} BY <3>1, <3>2, FS_CardinalityType, FS_EmptySet
    <3> QED BY <3>3 DEF by
  <2>3. DOMAIN Sent(t) = senders OBVIOUS
  <2>4. \A p \in senders : Sent(t)[p] = Cardinality({m \in its(t) : person[m.sender] = p}) OBVIOUS
  <2> HIDE DEF senders, Sent, its
  <2> QED BY <2>1, <2>2, <2>3, <2>4
<1> HIDE DEF Parts, Terms, Embeds, First, Until, Links, Sent, f
<1>11. ASSUME NEW t \in {m.thread : m \in ms} PROVE IsThread(f[t])
  <2>1. f[t] = [thread |-> t, participants |-> Parts(t), keywords |-> Terms(t), embedding |-> Unit(Plus(Embeds(t))),
             start |-> First(t), end |-> Until(t), links |-> Links(t), sent |-> Sent(t)]
    BY <1>1
  <2>2. IsFeature(f[t]) BY <2>1, <1>5, <1>6, <1>8, <1>9 DEF IsFeature
  <2>3. f[t].links = Links(t) /\ f[t].sent = Sent(t) BY <2>1
  <2> QED BY <2>2, <2>3, <1>7, <1>10 DEF IsThread
<1>12. IsFeats(f) BY <1>2, <1>3, <1>11 DEF IsFeats
<1> QED BY <1>2, <1>12 DEF f

-----------------------------------------------------------------------------
\* Weights of the participants, and similarities of the pairs.
LEMMA IdfIs ==
  ASSUME NEW f, IsFeats(f)
  PROVE  \A t \in DOMAIN f : \A p \in f[t].participants : Idf(f)[p] \in Nat
<1> DEFINE n == Cardinality(DOMAIN f)
           Of(p) == {t \in DOMAIN f : p \in f[t].participants}
<1>1. IsFiniteSet(DOMAIN f) /\ n \in 1..Cardinality(Threads)
  <2>1. IsFiniteSet(DOMAIN f) /\ n <= Cardinality(Threads) BY ConstantsAreFinite, FS_Subset DEF IsFeats
  <2>2. n \in Nat \ {0} BY <2>1, FS_CardinalityType, FS_EmptySet DEF IsFeats
  <2> QED BY <2>1, <2>2, ConstantsAreFinite
<1>2. SUFFICES ASSUME NEW t \in DOMAIN f, NEW p \in f[t].participants PROVE Idf(f)[p] \in Nat
  OBVIOUS
<1>3. Idf(f)[p] = Ln[n] - Ln[Cardinality(Of(p))] BY DEF Idf
<1>4. Cardinality(Of(p)) \in 1..n
  <2>1. Of(p) \in SUBSET DOMAIN f /\ Of(p) # {} OBVIOUS
  <2> HIDE DEF Of
  <2>2. IsFiniteSet(Of(p)) /\ Cardinality(Of(p)) <= n BY <1>1, <2>1, FS_Subset
  <2>3. Cardinality(Of(p)) \in Nat \ {0} BY <2>1, <2>2, FS_CardinalityType, FS_EmptySet
  <2> QED BY <1>1, <2>2, <2>3
<1> DEFINE k == Cardinality(Of(p))
<1>5. Ln[k] \in Nat /\ Ln[n] \in Nat /\ Ln[k] <= Ln[n]
  <2> HIDE DEF n, k
  <2>1. k \in Nat /\ n \in Nat /\ k <= n /\ k \in 1..(1 + Cardinality(Threads)) /\ n \in 1..(1 + Cardinality(Threads))
    <3>1. k \in 1..n BY <1>4 DEF k
    <3> QED BY <1>1, <3>1, ConstantsAreFinite
  <2>2. Ln \in [1..(1 + Cardinality(Threads)) -> Nat] /\ \A i, j \in DOMAIN Ln : i <= j => Ln[i] <= Ln[j]
    BY ProjectConstants
  <2> QED BY <2>1, <2>2
<1> HIDE DEF n, Of
<1> QED BY <1>3, <1>5

LEMMA PairOf ==
  ASSUME NEW S \in SUBSET Nat, IsFiniteSet(S), NEW e \in kSubset(2, S)
  PROVE  Min(e) \in S /\ Max(e) \in S /\ Min(e) # Max(e) /\ e = {Min(e), Max(e)}
<1>1. e \in SUBSET S /\ Cardinality(e) = 2 BY DEF kSubset
<1>2. e # {}
  <2> SUFFICES ASSUME e = {} PROVE FALSE OBVIOUS
  <2>1. Cardinality({}) = 0 BY FS_EmptySet
  <2> QED BY <1>1, <2>1
<1>3. PICK x \in e : TRUE BY <1>2
<1>4. IsFiniteSet(e \ {x}) /\ Cardinality(e \ {x}) = Cardinality(e) - 1
  <2>1. e \ {x} \in SUBSET S BY <1>1
  <2> QED BY <1>1, <1>3, <2>1, LessOne, FS_Subset
<1>5. PICK y : e \ {x} = {y}
  <2>1. Cardinality(e \ {x}) = 1 BY <1>1, <1>4
  <2> QED BY <1>4, <2>1, FS_Singleton
<1>6. e = {x, y} /\ x # y /\ x \in Int /\ y \in Int
  <2>1. e = {x} \cup (e \ {x}) BY <1>3
  <2>2. e = {x, y} /\ x # y BY <1>5, <2>1
  <2>3. x \in S /\ y \in S BY <1>1, <2>2
  <2>4. x \in Int /\ y \in Int BY <2>3
  <2> QED BY <2>2, <2>4
<1>7. /\ Min({x, y}) = IF x <= y THEN x ELSE y
      /\ Max({x, y}) = IF x <= y THEN y ELSE x
  BY <1>6, MinMaxOfTwo
<1> QED BY <1>1, <1>6, <1>7

LEMMA PairIn ==
  ASSUME NEW S \in SUBSET Nat, NEW x \in S, NEW y \in S, x # y
  PROVE  {x, y} \in kSubset(2, S)
<1>1. IsFiniteSet({x}) /\ Cardinality({x}) = 1 BY FS_Singleton
<1>2. Cardinality({x} \cup {y}) = 2 BY <1>1, FS_AddElement
<1>3. {x} \cup {y} = {x, y} OBVIOUS
<1> QED BY <1>2, <1>3 DEF kSubset

LEMMA SimilaritiesAre ==
  ASSUME NEW f, IsFeats(f)
  PROVE  Similarities(f, Idf(f)) \in [kSubset(2, DOMAIN f) -> Nat]
<1>1. ASSUME NEW e \in kSubset(2, DOMAIN f) PROVE ThreadSimilarity(f[Min(e)], f[Max(e)], Idf(f)) \in Nat
  <2> DEFINE a == f[Min(e)]
             b == f[Max(e)]
  <2>1. DOMAIN f \in SUBSET Nat /\ IsFiniteSet(DOMAIN f) BY ConstantsAreFinite, FS_Subset DEF IsFeats
  <2>2. Min(e) \in DOMAIN f /\ Max(e) \in DOMAIN f BY <2>1, PairOf
  <2>3. IsThread(a) /\ IsThread(b) BY <2>2 DEF IsFeats
  <2>4. \A p \in a.participants \cup b.participants : Idf(f)[p] \in Nat BY <2>2, IdfIs
  <2> DEFINE w == Idf(f)
  <2>5. Weighs(w, a.participants \cup b.participants) BY <2>4 DEF Weighs
  <2> HIDE DEF a, b, w
  <2>6. Affinity(a, b, w) \in Nat
    <3>1. IsFeature(a) /\ IsFeature(b) BY <2>3 DEF IsThread
    <3>2. Affinity(a, b, w) \in Scores BY <3>1, <2>5, AffinityIs
    <3>3. Scores \subseteq Nat BY DEF Scores
    <3> QED BY <3>2, <3>3
  <2>7. Jaccard(a.links, b.links) \in Nat BY <2>3, JaccardIs DEF IsThread
  <2>8. ThreadSimilarity(a, b, w) \in Nat
    <3> DEFINE i == Affinity(a, b, w)
               j == Jaccard(a.links, b.links)
    <3>1. ThreadSimilarity(a, b, w) = i + 5 * j BY DEF ThreadSimilarity, Weight
    <3>2. i \in Nat BY <2>6
    <3>3. j \in Nat BY <2>7
    <3> HIDE DEF i, j
    <3> QED BY <3>1, <3>2, <3>3
  <2> QED BY <2>8 DEF a, b, w
<1> QED BY <1>1 DEF Similarities

-----------------------------------------------------------------------------
(* Communities: sets of threads, none of them empty.                         *)
IsCommunities(P, S) == P # {} /\ P \subseteq (SUBSET S) \ {{}}
Disjoint(P) == \A A, B \in P : A # B => A \cap B = {}

\* Of fractions t / z, one is the greatest.
LEMMA GreatestRatio ==
  ASSUME NEW M, IsFiniteSet(M), M # {}, NEW T \in [M -> Nat], NEW Z \in [M -> Nat \ {0}]
  PROVE  \E p \in M : \A q \in M : T[p] * Z[q] >= T[q] * Z[p]
<1> DEFINE R == {e \in M \X M : T[e[1]] * Z[e[2]] >= T[e[2]] * Z[e[1]]}
<1>1. ASSUME NEW p \in M, NEW q \in M PROVE T[p] * Z[q] \in Nat
  <2> DEFINE a == T[p]  b == Z[q]
  <2>1. a \in Nat /\ b \in Nat OBVIOUS
  <2> HIDE DEF a, b
  <2>2. a * b \in Nat BY <2>1
  <2> QED BY <2>2 DEF a, b
<1>2. ASSUME NEW p \in M, NEW q \in M PROVE <<p, q>> \in R \/ <<q, p>> \in R
  <2> DEFINE a == T[p] * Z[q]  b == T[q] * Z[p]
  <2>1. a \in Nat /\ b \in Nat BY <1>1
  <2>2. (<<p, q>> \in R <=> a >= b) /\ (<<q, p>> \in R <=> b >= a) OBVIOUS
  <2> HIDE DEF a, b, R
  <2> QED BY <2>1, <2>2
<1>3. \A p, q, r \in M : <<p, q>> \in R /\ <<q, r>> \in R => <<p, r>> \in R
  <2> SUFFICES ASSUME NEW p \in M, NEW q \in M, NEW r \in M, <<p, q>> \in R, <<q, r>> \in R
               PROVE  T[p] * Z[r] >= T[r] * Z[p]
    OBVIOUS
  <2> DEFINE a == T[p]  b == T[q]  c == T[r]  x == Z[p]  y == Z[q]  z == Z[r]
  <2>1. /\ a \in Nat /\ b \in Nat /\ c \in Nat
        /\ x \in Nat \ {0} /\ y \in Nat \ {0} /\ z \in Nat \ {0}
    OBVIOUS
  <2>2. a * y >= b * x /\ b * z >= c * y OBVIOUS
  <2> HIDE DEF a, b, c, x, y, z
  <2>3. (a * y) * z >= (b * x) * z
    <3>1. a * y - b * x \in Nat BY <2>1, <2>2
    <3>2. (a * y - b * x) * z \in Nat BY <2>1, <3>1
    <3>3. (a * y - b * x) * z = (a * y) * z - (b * x) * z BY <2>1
    <3>4. (a * y) * z \in Nat /\ (b * x) * z \in Nat BY <2>1
    <3> QED BY <3>2, <3>3, <3>4
  <2>4. (b * z) * x >= (c * y) * x
    <3>1. b * z - c * y \in Nat BY <2>1, <2>2
    <3>2. (b * z - c * y) * x \in Nat BY <2>1, <3>1
    <3>3. (b * z - c * y) * x = (b * z) * x - (c * y) * x BY <2>1
    <3>4. (b * z) * x \in Nat /\ (c * y) * x \in Nat BY <2>1
    <3> QED BY <3>2, <3>3, <3>4
  <2>5. (a * z) * y >= (c * x) * y
    <3>1. (a * y) * z = (a * z) * y /\ (b * x) * z = (b * z) * x /\ (c * y) * x = (c * x) * y BY <2>1
    <3>2. (a * z) * y \in Nat /\ (b * z) * x \in Nat /\ (c * x) * y \in Nat BY <2>1
    <3> QED BY <2>3, <2>4, <3>1, <3>2
  <2>6. a * z >= c * x
    <3> SUFFICES ASSUME c * x > a * z PROVE FALSE BY <2>1
    <3>1. c * x - a * z \in Nat \ {0} BY <2>1
    <3>2. (c * x - a * z) * y > 0 BY <2>1, <3>1
    <3>3. (c * x - a * z) * y = (c * x) * y - (a * z) * y BY <2>1
    <3>4. (c * x) * y \in Nat /\ (a * z) * y \in Nat BY <2>1
    <3> QED BY <2>5, <3>2, <3>3, <3>4
  <2> QED BY <2>6 DEF a, c, x, z
<1>4. \E p \in M : \A q \in M : <<p, q>> \in R
  <2> HIDE DEF R
  <2> QED BY <1>2, <1>3, Greatest
<1> QED BY <1>4

LEMMA PairsAreFinite == ASSUME NEW S, IsFiniteSet(S) PROVE IsFiniteSet(kSubset(2, S))
<1> DEFINE K == kSubset(2, S)
<1>1. K \in SUBSET SUBSET S BY DEF kSubset
<1>2. IsFiniteSet(SUBSET S) BY FS_SUBSET
<1> HIDE DEF K
<1> QED BY <1>1, <1>2, FS_Subset DEF K

LEMMA DenseIs ==
  ASSUME NEW S \in SUBSET Nat, IsFiniteSet(S), S # {}, NEW sim \in [kSubset(2, S) -> Nat]
  PROVE  IsCommunities(DenseMembership(S, sim), S)
<1> DEFINE Total(A, B) == SumFunctionOnSet(sim, {{t, u} : t \in A, u \in B})
           Size(A, B) == Cardinality(A) * Cardinality(B)
           Mergeable(P) == {p \in P \X P : p[1] # p[2] /\ Total(p[1], p[2]) >= Tau * Size(p[1], p[2])}
           Closest(P) == CHOOSE p \in Mergeable(P) : \A q \in Mergeable(P) :
                           Total(p[1], p[2]) * Size(q[1], q[2]) >= Total(q[1], q[2]) * Size(p[1], p[2])
           Merged(P) == IF Mergeable(P) = {} THEN P
                       ELSE (P \ Range(Closest(P))) \cup {UNION Range(Closest(P))}
           n == Cardinality(S)
           base == {{t} : t \in S}
           Parts == {P \in SUBSET SUBSET S : IsCommunities(P, S) /\ Disjoint(P)}
           step == [k \in 1..n |-> [P \in Parts |-> Merged(P)]]
           Is(f) == f = [k \in 0..n |-> IF k = 0 THEN base ELSE Merged(f[k - 1])]
           up == CHOOSE f : Is(f)
<1>1. DenseMembership(S, sim) = up[n] BY DEF DenseMembership
<1>2. n \in Nat BY FS_CardinalityType
<1>3. base \in Parts
  <2>1. IsCommunities(base, S) BY DEF IsCommunities
  <2>2. Disjoint(base) BY DEF Disjoint
  <2>3. base \in SUBSET SUBSET S OBVIOUS
  <2> QED BY <2>1, <2>2, <2>3
<1>4. ASSUME NEW P \in Parts, Mergeable(P) # {}
      PROVE  Closest(P) \in P \X P /\ Closest(P)[1] # Closest(P)[2]
  <2> DEFINE M == Mergeable(P)
             T == [p \in M |-> Total(p[1], p[2])]
             Z == [p \in M |-> Size(p[1], p[2])]
  <2>1. IsFiniteSet(M)
    <3>1. P \in SUBSET SUBSET S BY DEF IsCommunities
    <3>2. IsFiniteSet(P) BY <3>1, FS_SUBSET, FS_Subset
    <3>3. IsFiniteSet(P \X P) BY <3>2, FS_Product
    <3>4. M \in SUBSET (P \X P) OBVIOUS
    <3> HIDE DEF M
    <3> QED BY <3>3, <3>4, FS_Subset
  <2>2. ASSUME NEW p \in M PROVE Total(p[1], p[2]) \in Nat /\ Size(p[1], p[2]) \in Nat \ {0}
    <3> DEFINE A == p[1]  B == p[2]
    <3>1. A \in P /\ B \in P /\ A # B OBVIOUS
    <3> HIDE DEF A, B, M
    <3>2. A \in SUBSET S /\ A # {} /\ B \in SUBSET S /\ B # {} /\ A \cap B = {}
      BY <3>1 DEF IsCommunities, Disjoint
    <3>3. Total(A, B) \in Nat
      <4> DEFINE X == {{t, u} : t \in A, u \in B}
      <4>1. IsFiniteSet(kSubset(2, S)) BY PairsAreFinite
      <4>2. ASSUME NEW t \in A, NEW u \in B PROVE {t, u} \in kSubset(2, S) BY <3>2, PairIn
      <4>3. X \in SUBSET kSubset(2, S) BY <4>2
      <4> HIDE DEF X
      <4> QED BY <4>1, <4>3, SumGrows DEF X
    <3>4. Size(A, B) \in Nat \ {0}
      <4>1. Cardinality(A) \in Nat \ {0} /\ Cardinality(B) \in Nat \ {0}
        BY <3>2, FS_Subset, FS_CardinalityType, FS_EmptySet
      <4> QED BY <4>1
    <3> HIDE DEF Total, Size
    <3> QED BY <3>3, <3>4 DEF A, B
  <2> HIDE DEF Total, Size
  <2>3. T \in [M -> Nat] /\ Z \in [M -> Nat \ {0}]
    <3> HIDE DEF M
    <3> QED BY <2>2
  <2>4. \E p \in M : \A q \in M : T[p] * Z[q] >= T[q] * Z[p]
    <3>1. M # {} BY <1>4
    <3> HIDE DEF M, T, Z
    <3> QED BY <2>1, <2>3, <3>1, GreatestRatio
  <2> DEFINE Top(p) == \A q \in M : Total(p[1], p[2]) * Size(q[1], q[2]) >= Total(q[1], q[2]) * Size(p[1], p[2])
  <2>5. \E p \in M : Top(p)
    <3>1. ASSUME NEW p \in M, NEW q \in M
          PROVE  T[p] = Total(p[1], p[2]) /\ Z[q] = Size(q[1], q[2])
      <4> HIDE DEF M
      <4> QED OBVIOUS
    <3> HIDE DEF M, T, Z
    <3> QED BY <2>4, <3>1
  <2>6. Closest(P) = CHOOSE p \in M : Top(p) OBVIOUS
  <2>7. Closest(P) \in M
    <3> HIDE DEF M, Closest, Top
    <3> QED BY <2>5, <2>6
  <2>8. \A p \in M : p \in P \X P /\ p[1] # p[2] OBVIOUS
  <2> HIDE DEF M, Closest
  <2> QED BY <2>7, <2>8
<1> HIDE DEF Mergeable, Closest
<1>5. ASSUME NEW P \in Parts PROVE Merged(P) \in Parts
  <2>1. CASE Mergeable(P) = {}
    <3>1. Merged(P) = P BY <2>1
    <3> QED BY <3>1
  <2>2. CASE Mergeable(P) # {}
    <3>1. Closest(P) \in P \X P BY <1>4, <2>2
    <3>2. Merged(P) = (P \ Range(Closest(P))) \cup {UNION Range(Closest(P))} BY <2>2
    <3> DEFINE Q == Merged(P)  d == Closest(P)
    <3>3. d \in P \X P /\ Q = (P \ Range(d)) \cup {UNION Range(d)} BY <3>1, <3>2
    <3>4. P \in SUBSET SUBSET S /\ IsCommunities(P, S) /\ Disjoint(P) OBVIOUS
    <3> HIDE DEF Q, d, Merged
    <3>5. PICK A \in P, B \in P : d = <<A, B>> BY <3>3
    <3>6. Range(d) = {A, B} /\ UNION Range(d) = A \cup B BY <3>5 DEF Range
    <3>7. Q = (P \ {A, B}) \cup {A \cup B} BY <3>3, <3>6
    <3>8. IsCommunities(Q, S) BY <3>7, <3>4 DEF IsCommunities
    <3>9. Disjoint(Q) BY <3>7, <3>4 DEF Disjoint
    <3>10. Q \in SUBSET SUBSET S BY <3>8 DEF IsCommunities
    <3> QED BY <3>8, <3>9, <3>10 DEF Q
  <2> QED BY <2>1, <2>2
<1> HIDE DEF Merged, Parts, n, base
<1>6. step \in [1..n -> [Parts -> Parts]] /\ \A k \in 1..n, P \in Parts : step[k][P] = Merged(P)
  BY <1>5
<1> HIDE DEF step
<1>7. PICK g \in [0..n -> Parts] : Recurs(g, n, base, step) BY <1>2, <1>3, <1>6, Recursion
<1>8. g[0] = base /\ \A k \in 1..n : g[k] = Merged(g[k - 1])
  <2>1. \A k \in 1..n : k - 1 \in 0..n /\ g[k - 1] \in Parts BY <1>2, <1>7
  <2> QED BY <1>2, <1>6, <1>7, <2>1 DEF Recurs
<1>9. Is(g) BY <1>2, <1>7, <1>8
<1>10. Is(up)
  <2> HIDE DEF Is
  <2> QED BY <1>9
<1> HIDE DEF up
<1>11. up = [k \in 0..n |-> IF k = 0 THEN base ELSE Merged(up[k - 1])] BY <1>10
<1>12. up[0] = base /\ \A k \in 1..n : up[k] = Merged(up[k - 1]) BY <1>2, <1>11
<1>13. 0..n \subseteq {k \in 0..n : up[k] \in Parts}
  <2> DEFINE G == {k \in 0..n : up[k] \in Parts}
  <2>1. 0 \in G BY <1>2, <1>3, <1>12
  <2>2. \A k \in 1..n : k - 1 \in G => k \in G BY <1>2, <1>5, <1>12
  <2> HIDE DEF G
  <2>3. 0..n \subseteq G BY <1>2, <2>1, <2>2, InductionUpTo
  <2> QED BY <2>3 DEF G
<1>14. up[n] \in Parts BY <1>2, <1>13
<1> QED BY <1>1, <1>14 DEF Parts

LEMMA ConnectedIs ==
  ASSUME NEW S, IsFiniteSet(S), S # {}, NEW edges
  PROVE  IsCommunities(Connected(S, edges), S)
<1> DEFINE n == Cardinality(S)
           Near(t) == {v \in S : v = t \/ {t, v} \in edges}
           F == [S -> (SUBSET S) \ {{}}]
           base == [t \in S |-> {t}]
           More(r) == [t \in S |-> UNION {r[u] : u \in Near(t)}]
           step == [k \in 1..n |-> [r \in F |-> More(r)]]
           Is(f) == f = [k \in 0..n |-> [t \in S |-> IF k = 0 THEN {t} ELSE UNION {f[k - 1][u] : u \in Near(t)}]]
           up == CHOOSE f : Is(f)
<1>1. Connected(S, edges) = Range(up[n]) BY DEF Connected
<1>2. n \in Nat BY FS_CardinalityType
<1>3. base \in F OBVIOUS
<1>4. ASSUME NEW r \in F PROVE More(r) \in F
  <2>1. ASSUME NEW t \in S PROVE UNION {r[u] : u \in Near(t)} \in (SUBSET S) \ {{}}
    <3>1. t \in Near(t) /\ Near(t) \subseteq S OBVIOUS
    <3>2. r[t] # {} OBVIOUS
    <3> HIDE DEF Near
    <3> QED BY <3>1, <3>2
  <2> HIDE DEF Near
  <2> QED BY <2>1
<1> HIDE DEF Near, n
<1>5. step \in [1..n -> [F -> F]] /\ \A k \in 1..n, r \in F : step[k][r] = More(r)
  <2> HIDE DEF F, More
  <2> QED BY <1>4
<1>6. PICK g \in [0..n -> F] : Recurs(g, n, base, step)
  <2> HIDE DEF F, base, step
  <2> QED BY <1>2, <1>3, <1>5, Recursion
<1>7. g[0] = base /\ \A k \in 1..n : g[k] = More(g[k - 1])
  <2> HIDE DEF F, base, step, More
  <2>1. \A k \in 1..n : k - 1 \in 0..n /\ g[k - 1] \in F BY <1>2, <1>6
  <2> QED BY <1>2, <1>5, <1>6, <2>1 DEF Recurs
<1>8. Is(g)
  <2>1. \A k \in 0..n : g[k] = [t \in S |-> IF k = 0 THEN {t} ELSE UNION {g[k - 1][u] : u \in Near(t)}]
    <3> TAKE k \in 0..n
    <3>1. CASE k = 0 BY <1>7, <3>1
    <3>2. CASE k # 0
      <4>1. k \in 1..n BY <1>2, <3>2
      <4> QED BY <1>7, <3>2, <4>1
    <3> QED BY <3>1, <3>2
  <2>2. DOMAIN g = 0..n /\ g = [k \in 0..n |-> g[k]] BY <1>6
  <2> HIDE DEF F
  <2> QED BY <2>1, <2>2
<1>9. Is(up)
  <2> HIDE DEF Is
  <2> QED BY <1>8
<1> HIDE DEF up
<1>10. up = [k \in 0..n |-> [t \in S |-> IF k = 0 THEN {t} ELSE UNION {up[k - 1][u] : u \in Near(t)}]] BY <1>9
<1>11. up[0] = base
  <2>1. 0 \in 0..n BY <1>2
  <2>2. up[0] = [t \in S |-> IF 0 = 0 THEN {t} ELSE UNION {up[0 - 1][u] : u \in Near(t)}] BY <1>10, <2>1
  <2> QED BY <2>2
<1>12. ASSUME NEW k \in 1..n PROVE up[k] = More(up[k - 1])
  <2>1. k \in 0..n /\ k # 0 BY <1>2
  <2>2. up[k] = [t \in S |-> IF k = 0 THEN {t} ELSE UNION {up[k - 1][u] : u \in Near(t)}] BY <1>10, <2>1
  <2> QED BY <2>1, <2>2
<1>13. 0..n \subseteq {k \in 0..n : up[k] \in F}
  <2> DEFINE G == {k \in 0..n : up[k] \in F}
  <2> HIDE DEF F, base, More
  <2>1. 0 \in G BY <1>2, <1>3, <1>11
  <2>2. \A k \in 1..n : k - 1 \in G => k \in G BY <1>2, <1>4, <1>12
  <2> HIDE DEF G
  <2>3. 0..n \subseteq G BY <1>2, <2>1, <2>2, InductionUpTo
  <2> QED BY <2>3 DEF G
<1>14. up[n] \in F
  <2> HIDE DEF F
  <2> QED BY <1>2, <1>13
<1>15. Range(up[n]) # {} /\ Range(up[n]) \subseteq (SUBSET S) \ {{}}
  <2> DEFINE r == up[n]
  <2>1. r \in [S -> (SUBSET S) \ {{}}] BY <1>14
  <2> HIDE DEF r
  <2>2. Range(r) # {} /\ Range(r) \subseteq (SUBSET S) \ {{}} BY <2>1 DEF Range
  <2> QED BY <2>2 DEF r
<1> QED BY <1>1, <1>15 DEF IsCommunities

LEMMA MembershipsAre ==
  ASSUME NEW f, IsFeats(f), NEW sim \in [kSubset(2, DOMAIN f) -> Nat], NEW P \in Memberships(f, sim)
  PROVE  IsCommunities(P, DOMAIN f)
<1>1. DOMAIN f \in SUBSET Nat /\ IsFiniteSet(DOMAIN f) /\ DOMAIN f # {}
  BY ConstantsAreFinite, FS_Subset DEF IsFeats
<1>2. IsCommunities(DenseMembership(DOMAIN f, sim), DOMAIN f) BY <1>1, DenseIs
<1>3. \A edges : IsCommunities(Connected(DOMAIN f, edges), DOMAIN f) BY <1>1, ConnectedIs
<1> QED BY <1>2, <1>3 DEF Memberships

-----------------------------------------------------------------------------
(* Profiles of communities, and who joins them.                              *)
People(f) == UNION {f[t].participants : t \in DOMAIN f}
IsProfiles(f, prof) ==
  /\ DOMAIN prof \in (SUBSET Threads) \ {{}}
  /\ \A c \in DOMAIN prof : IsFeature(prof[c]) /\ prof[c].participants \subseteq People(f)
Weights == 10..10000
Joins(w, D) == DOMAIN w \in (SUBSET D) \ {{}} /\ \A c \in DOMAIN w : w[c] \in Weights
IsJoined(f, prof, assigns) ==
  DOMAIN assigns = DOMAIN f /\ \A t \in DOMAIN f : Joins(assigns[t], DOMAIN prof)

LEMMA FeatsAreFinite ==
  ASSUME NEW f, IsFeats(f)
  PROVE  /\ IsFiniteSet(DOMAIN f) /\ DOMAIN f \in (SUBSET Nat) \ {{}} /\ DOMAIN f \in (SUBSET Threads) \ {{}}
         /\ \A t \in DOMAIN f : IsThread(f[t]) /\ IsFeature(f[t])
BY ConstantsAreFinite, FS_Subset DEF IsFeats, IsThread

LEMMA ProfilesAre ==
  ASSUME NEW f, IsFeats(f), NEW P, IsCommunities(P, DOMAIN f)
  PROVE  IsProfiles(f, CommunityProfiles(f, P))
<1> DEFINE T == DOMAIN f
           Names == {Min(C) : C \in P}
           Of(c) == CHOOSE C \in P : Min(C) = c
           Ps(C) == UNION {f[t].participants : t \in C}
           Ks(C) == UNION {f[t].keywords : t \in C}
           Es(C) == [t \in C |-> f[t].embedding]
           First(C) == Min({f[t].start : t \in C})
           Until(C) == Max({f[t].end : t \in C})
           Profile(C) == [embedding |-> Unit(Plus(Es(C))), participants |-> Ps(C), keywords |-> Ks(C),
                          start |-> First(C), end |-> Until(C)]
           prof == CommunityProfiles(f, P)
<1>1. prof = [c \in Names |-> Profile(Of(c))] BY DEF CommunityProfiles
<1>2. ASSUME NEW C \in P PROVE C \in SUBSET T /\ C # {} /\ IsFiniteSet(C) /\ C \in SUBSET Nat /\ C \in SUBSET Int
  BY FeatsAreFinite, FS_Subset DEF IsCommunities
<1>3. Names \in (SUBSET Threads) \ {{}}
  <2>1. \A C \in P : Min(C) \in C BY <1>2, MinMax
  <2>2. P # {} BY DEF IsCommunities
  <2> QED BY <1>2, <2>1, <2>2, FeatsAreFinite
<1>4. ASSUME NEW C \in P PROVE IsFeature(Profile(C)) /\ Ps(C) \subseteq People(f)
  <2>1. \A t \in C : IsFeature(f[t]) /\ t \in DOMAIN f BY <1>2, FeatsAreFinite
  <2>2. Ps(C) \in SUBSET Addresses /\ Ps(C) \subseteq People(f)
    <3>1. \A t \in C : f[t].participants \in SUBSET Addresses BY <2>1 DEF IsFeature
    <3> QED BY <2>1, <3>1 DEF People
  <2>3. IsFiniteSet(Ks(C))
    <3> DEFINE g == [t \in C |-> f[t].keywords]
    <3>1. Range(g) = {f[t].keywords : t \in C} /\ DOMAIN g = C BY DEF Range
    <3>2. \A t \in C : IsFiniteSet(g[t]) BY <2>1 DEF IsFeature
    <3> HIDE DEF g
    <3>3. IsFiniteSet(UNION Range(g)) BY <1>2, <3>1, <3>2, UnionIsFinite
    <3> QED BY <3>1, <3>3
  <2>4. Unit(Plus(Es(C))) \in V
    <3>1. Es(C) \in [C -> V] BY <2>1 DEF IsFeature
    <3> HIDE DEF Es
    <3>2. Plus(Es(C)) \in V BY <1>2, <3>1, PlusIs
    <3> QED BY <3>2, UnitIs
  <2>5. First(C) \in Nat /\ Until(C) \in Nat /\ First(C) <= Until(C)
    <3> DEFINE b == [t \in C |-> f[t].start]
               e == [t \in C |-> f[t].end]
    <3>1. /\ Range(b) = {f[t].start : t \in C} /\ DOMAIN b = C
          /\ Range(e) = {f[t].end : t \in C} /\ DOMAIN e = C
      BY DEF Range
    <3>2. \A t \in C : f[t].start \in Nat /\ f[t].end \in Nat /\ f[t].start <= f[t].end BY <2>1 DEF IsFeature
    <3>3. IsFiniteSet(Range(b)) /\ IsFiniteSet(Range(e))
      <4> HIDE DEF b, e
      <4> QED BY <1>2, <3>1, ImageIsFinite
    <3> DEFINE B == {f[t].start : t \in C}
               E == {f[t].end : t \in C}
    <3>4. B \in SUBSET Nat /\ E \in SUBSET Nat /\ B # {} /\ E # {} /\ IsFiniteSet(B) /\ IsFiniteSet(E)
      <4>1. B \in SUBSET Nat /\ E \in SUBSET Nat BY <3>2
      <4>2. B # {} /\ E # {} BY <1>2
      <4>3. B = Range(b) /\ E = Range(e) BY <3>1
      <4> HIDE DEF B, E, b, e
      <4> QED BY <3>3, <4>1, <4>2, <4>3
    <3>5. PICK t \in C : TRUE BY <1>2
    <3>6. f[t].start \in B /\ f[t].end \in E /\ f[t].start <= f[t].end BY <3>2
    <3>7. B \in SUBSET Int /\ E \in SUBSET Int BY <3>4
    <3> HIDE DEF B, E
    <3>8. /\ Min(B) \in B /\ Max(E) \in E /\ Min(B) <= f[t].start /\ f[t].end <= Max(E)
      BY <3>4, <3>6, <3>7, MinMax
    <3>9. Min(B) \in Nat /\ Max(E) \in Nat /\ Min(B) <= Max(E)
      <4> DEFINE x == f[t].start  y == f[t].end
      <4>1. x \in Nat /\ y \in Nat /\ Min(B) <= x /\ y <= Max(E) /\ x <= y BY <3>2, <3>8
      <4>2. Min(B) \in Nat /\ Max(E) \in Nat BY <3>4, <3>8
      <4> HIDE DEF x, y
      <4> QED BY <4>1, <4>2
    <3> QED BY <3>9 DEF B, E
  <2>6. Profile(C).embedding = Unit(Plus(Es(C))) /\ Profile(C).participants = Ps(C) /\ Profile(C).keywords = Ks(C)
        /\ Profile(C).start = First(C) /\ Profile(C).end = Until(C)
    OBVIOUS
  <2> HIDE DEF Profile, Ps, Ks, Es, First, Until
  <2> QED BY <2>2, <2>3, <2>4, <2>5, <2>6 DEF IsFeature
<1>5. ASSUME NEW c \in Names PROVE Of(c) \in P
  <2>1. \E C \in P : Min(C) = c OBVIOUS
  <2> QED BY <2>1
<1>6. ASSUME NEW C \in P PROVE Profile(C).participants = Ps(C) OBVIOUS
<1>7. ASSUME NEW c \in Names PROVE IsFeature(prof[c]) /\ prof[c].participants \subseteq People(f)
  <2>1. prof[c] = Profile(Of(c)) BY <1>1
  <2> HIDE DEF prof, Profile, Ps, Of, Names
  <2> QED BY <1>4, <1>5, <1>6, <2>1
<1>8. DOMAIN prof = Names BY <1>1
<1> HIDE DEF Names, prof
<1>9. IsProfiles(f, prof) BY <1>3, <1>7, <1>8 DEF IsProfiles
<1> QED BY <1>9 DEF prof

\* Of weighted names one comes first: the heaviest, of several the least.
LEMMA BestIs ==
  ASSUME NEW D \in SUBSET Nat, IsFiniteSet(D), D # {}, NEW w, \A c \in D : w[c] \in Nat
  PROVE  \E c \in D : \A o \in D : w[c] > w[o] \/ (w[c] = w[o] /\ c <= o)
<1> DEFINE R == {p \in D \X D : w[p[1]] > w[p[2]] \/ (w[p[1]] = w[p[2]] /\ p[1] <= p[2])}
<1>1. \A x, y \in D : <<x, y>> \in R \/ <<y, x>> \in R OBVIOUS
<1>2. \A x, y, z \in D : <<x, y>> \in R /\ <<y, z>> \in R => <<x, z>> \in R OBVIOUS
<1>3. \E c \in D : \A o \in D : <<c, o>> \in R
  <2> HIDE DEF R
  <2> QED BY <1>1, <1>2, Greatest
<1> QED BY <1>3

\* Every thread joins a community, one of the profiled ones, with a weight in Weights.
LEMMA SoftAssignIs ==
  ASSUME NEW f, IsFeats(f), NEW prof, IsProfiles(f, prof), NEW w, Weighs(w, People(f))
  PROVE  IsJoined(f, prof, SoftAssign(f, prof, w))
<1> DEFINE D == DOMAIN prof
           Aff(t) == [c \in D |-> Affinity(f[t], prof[c], w)]
           First(t) == CHOOSE c \in D : \A o \in D : Aff(t)[c] > Aff(t)[o] \/ (Aff(t)[c] = Aff(t)[o] /\ c <= o)
           Others(t) == {c \in D : Aff(t)[c] >= MinAff /\ 100 * Aff(t)[c] >= Ratio * Aff(t)[First(t)]}
           Joined(t) == [c \in {First(t)} \cup Others(t) |->
                           IF c = First(t) THEN Max({Aff(t)[c], 10}) ELSE Aff(t)[c]]
           r == SoftAssign(f, prof, w)
<1>1. r = [t \in DOMAIN f |-> Joined(t)] BY DEF SoftAssign
<1>2. IsFiniteSet(D) /\ D \in (SUBSET Nat) \ {{}} BY ConstantsAreFinite, FS_Subset DEF IsProfiles
<1>3. ASSUME NEW t \in DOMAIN f, NEW c \in D PROVE Aff(t)[c] \in Scores
  <2>1. IsFeature(f[t]) /\ IsFeature(prof[c]) BY FeatsAreFinite DEF IsProfiles
  <2>2. f[t].participants \cup prof[c].participants \subseteq People(f) BY DEF IsProfiles, People
  <2>3. Weighs(w, f[t].participants \cup prof[c].participants) BY <2>2 DEF Weighs
  <2>4. Affinity(f[t], prof[c], w) \in Scores BY <2>1, <2>3, AffinityIs
  <2> QED BY <2>4
<1> HIDE DEF Aff, D
<1>4. ASSUME NEW t \in DOMAIN f PROVE First(t) \in D
  <2> DEFINE a == Aff(t)
  <2>1. ASSUME NEW c \in D PROVE a[c] \in Nat
    <3> DEFINE x == Aff(t)[c]
    <3>1. x \in Scores BY <1>3
    <3> HIDE DEF x
    <3>2. x \in Nat BY <3>1 DEF Scores, Weights
    <3> QED BY <3>2 DEF x
  <2>2. First(t) = CHOOSE c \in D : \A o \in D : a[c] > a[o] \/ (a[c] = a[o] /\ c <= o) OBVIOUS
  <2> HIDE DEF a, First, Aff, D
  <2>3. \E c \in D : \A o \in D : a[c] > a[o] \/ (a[c] = a[o] /\ c <= o) BY <1>2, <2>1, BestIs
  <2> QED BY <2>2, <2>3
<1>5. ASSUME NEW t \in DOMAIN f
      PROVE  Joins(Joined(t), D)
  <2>1. DOMAIN Joined(t) = {First(t)} \cup Others(t) OBVIOUS
  <2>2. Others(t) \subseteq D OBVIOUS
  <2>3. ASSUME NEW c \in {First(t)} \cup Others(t) PROVE Joined(t)[c] \in Weights
    <3> DEFINE a == Aff(t)[c]
    <3>1. c \in D
      <4> HIDE DEF First
      <4> QED BY <1>4
    <3>2. a \in Scores
      <4> HIDE DEF First, Others, Joined
      <4> QED BY <1>3, <3>1
    <3>3. Joined(t)[c] = IF c = First(t) THEN Max({a, 10}) ELSE a OBVIOUS
    <3>4. c # First(t) => a >= 3500
      <4>1. c # First(t) => c \in Others(t) OBVIOUS
      <4> QED BY <4>1 DEF MinAff
    <3> HIDE DEF a, First, Others, Joined
    <3>5. Max({a, 10}) \in Weights
      <4>1. a \in Int /\ 10 \in Int BY <3>2 DEF Scores
      <4>2. Max({a, 10}) \in {a, 10} BY <4>1, MinMaxOfTwo
      <4>3. Max({a, 10}) >= 10
        <5>1. Max({a, 10}) = IF a <= 10 THEN 10 ELSE a BY <4>1, MinMaxOfTwo
        <5> QED BY <3>2, <5>1 DEF Scores
      <4> DEFINE x == Max({a, 10})
      <4>4. x \in {a, 10} /\ x >= 10 BY <4>2, <4>3
      <4> HIDE DEF x
      <4>5. x \in Weights BY <3>2, <4>4 DEF Scores, Weights
      <4> QED BY <4>5 DEF x
    <3>6. c # First(t) => a \in Weights BY <3>2, <3>4 DEF Scores, Weights
    <3> QED BY <3>3, <3>5, <3>6
  <2> HIDE DEF First, Others, Joined, D
  <2>4. DOMAIN Joined(t) \in (SUBSET D) \ {{}} BY <1>4, <2>1, <2>2
  <2>5. \A c \in DOMAIN Joined(t) : Joined(t)[c] \in Weights BY <2>1, <2>3
  <2> QED BY <2>4, <2>5 DEF Joins
<1>6. DOMAIN r = DOMAIN f /\ \A t \in DOMAIN f : r[t] = Joined(t) BY <1>1
<1> HIDE DEF Joined, r
<1>7. IsJoined(f, prof, r) BY <1>5, <1>6 DEF IsJoined, D
<1> QED BY <1>7 DEF r

\* The community a thread has as its primary one is one that it joined.
LEMMA PrimaryIs ==
  ASSUME NEW f, NEW prof, IsFeats(f), IsProfiles(f, prof), NEW assigns, IsJoined(f, prof, assigns), NEW t \in DOMAIN f
  PROVE  Primary(assigns[t]) \in DOMAIN assigns[t]
<1> DEFINE w == assigns[t]
           D == DOMAIN w
<1>1. D \in (SUBSET DOMAIN prof) \ {{}} /\ \A c \in D : w[c] \in Weights
  <2>1. Joins(w, DOMAIN prof) BY DEF IsJoined
  <2> HIDE DEF w
  <2> QED BY <2>1 DEF Joins
<1>2. DOMAIN prof \in SUBSET Nat /\ IsFiniteSet(DOMAIN prof) BY ConstantsAreFinite, FS_Subset DEF IsProfiles
<1> HIDE DEF w, D
<1>3. D \in SUBSET Nat /\ IsFiniteSet(D) /\ D # {} /\ \A c \in D : w[c] \in Nat
  <2>1. D \in SUBSET DOMAIN prof /\ D # {} BY <1>1
  <2>2. IsFiniteSet(D) BY <1>2, <2>1, FS_Subset
  <2>3. ASSUME NEW c \in D PROVE w[c] \in Nat
    <3> DEFINE x == w[c]
    <3>1. x \in Weights BY <1>1
    <3> HIDE DEF x
    <3>2. x \in Nat BY <3>1 DEF Scores, Weights
    <3> QED BY <3>2 DEF x
  <2> QED BY <1>2, <2>1, <2>2, <2>3
<1>4. \E c \in D : \A o \in D : w[c] > w[o] \/ (w[c] = w[o] /\ c <= o) BY <1>3, BestIs
<1>5. Primary(w) \in DOMAIN w BY <1>4 DEF Primary, D
<1> QED BY <1>5 DEF w

-----------------------------------------------------------------------------
(* The rows of a clustering.                                                 *)
LEMMA ConfidenceIs ==
  ASSUME NEW f, IsFeats(f), NEW prof, IsProfiles(f, prof), NEW c \in DOMAIN prof,
         NEW T \in (SUBSET DOMAIN f) \ {{}}
  PROVE  Confidence(f, T, prof, c) \in 0..100
<1> DEFINE pairs == kSubset(2, T)
           cos == [e \in pairs |-> Cosine(f[Min(e)].embedding, f[Max(e)].embedding)]
           near == {Cosine(prof[c].embedding, prof[o].embedding) : o \in DOMAIN prof \ {c}}
           cohesion == IF pairs = {} THEN 50 ELSE SumFunction(cos) \div Cardinality(pairs)
           separation == 100 - Max({0} \cup near)
           full == (100 * Cardinality(T)) \div MinSolid
           size == Min({100, full})
           x == (50 * cohesion + 30 * separation + 20 * size) \div 100
<1>1. IsFiniteSet(T) /\ T \in SUBSET Nat BY FeatsAreFinite, FS_Subset
<1>2. cohesion \in Int
  <2>1. IsFiniteSet(pairs) BY <1>1, PairsAreFinite
  <2>2. ASSUME NEW e \in pairs PROVE cos[e] \in Nat
    <3>1. Min(e) \in T /\ Max(e) \in T BY <1>1, PairOf
    <3>2. f[Min(e)].embedding \in V /\ f[Max(e)].embedding \in V BY <3>1, FeatsAreFinite DEF IsFeature
    <3>3. Cosine(f[Min(e)].embedding, f[Max(e)].embedding) \in 0..100 BY <3>2, CosineIs
    <3>4. cos[e] = Cosine(f[Min(e)].embedding, f[Max(e)].embedding) OBVIOUS
    <3> HIDE DEF cos, pairs
    <3> QED BY <3>3, <3>4
  <2>3. DOMAIN cos = pairs OBVIOUS
  <2> HIDE DEF cos, pairs
  <2>4. SumFunction(cos) \in Nat
    <3>1. pairs \in SUBSET pairs OBVIOUS
    <3>2. SumFunctionOnSet(cos, pairs) \in Nat BY <2>1, <2>2, <3>1, SumGrows
    <3> QED BY <2>3, <3>2 DEF SumFunction
  <2>5. pairs # {} => Cardinality(pairs) \in Nat \ {0} BY <2>1, FS_CardinalityType, FS_EmptySet
  <2>6. pairs # {} => SumFunction(cos) \div Cardinality(pairs) \in Nat BY <2>4, <2>5, Quotient
  <2> QED BY <2>6
<1>3. separation \in Int
  <2> DEFINE g == [o \in DOMAIN prof \ {c} |-> Cosine(prof[c].embedding, prof[o].embedding)]
  <2>1. Range(g) = near /\ DOMAIN g = DOMAIN prof \ {c} BY DEF Range
  <2>2. IsFiniteSet(DOMAIN prof \ {c}) BY ConstantsAreFinite, FS_Subset DEF IsProfiles
  <2>3. IsFiniteSet(near)
    <3> HIDE DEF g, near
    <3> QED BY <2>1, <2>2, ImageIsFinite
  <2>4. ASSUME NEW o \in DOMAIN prof PROVE Cosine(prof[c].embedding, prof[o].embedding) \in Int
    <3>1. prof[c].embedding \in V /\ prof[o].embedding \in V BY DEF IsProfiles, IsFeature
    <3>2. Cosine(prof[c].embedding, prof[o].embedding) \in 0..100 BY <3>1, CosineIs
    <3> QED BY <3>2
  <2>5. near \in SUBSET Int BY <2>4
  <2> HIDE DEF near
  <2>6. {0} \cup near \in SUBSET Int /\ {0} \cup near # {} /\ IsFiniteSet({0} \cup near)
    <3>1. IsFiniteSet({0}) BY FS_Singleton
    <3>2. IsFiniteSet({0} \cup near) BY <2>3, <3>1, FS_Union
    <3> QED BY <2>5, <3>2
  <2>7. Max({0} \cup near) \in Int BY <2>6, MinMax
  <2> QED BY <2>7
<1>4. size \in Int
  <2>1. Cardinality(T) \in Nat BY <1>1, FS_CardinalityType
  <2>2. full \in Int
    <3> DEFINE n == Cardinality(T)
    <3>1. n \in Nat BY <2>1
    <3> HIDE DEF n
    <3>2. (100 * n) \div 4 \in Int BY <3>1
    <3> QED BY <3>2 DEF n, MinSolid
  <2> HIDE DEF full
  <2>3. Min({100, full}) \in {100, full} BY <2>2, MinMaxOfTwo
  <2> QED BY <2>2, <2>3
<1>5. x \in Int
  <2> HIDE DEF cohesion, separation, size
  <2> QED BY <1>2, <1>3, <1>4
<1>6. Confidence(f, T, prof, c) = Max({0, Min({100, x})}) BY DEF Confidence
<1> HIDE DEF x
<1>7. Min({100, x}) = (IF 100 <= x THEN 100 ELSE x) BY <1>5, MinMaxOfTwo
<1> DEFINE y == Min({100, x})
<1>8. y \in Int /\ y <= 100 BY <1>5, <1>7
<1> HIDE DEF y
<1>9. Max({0, y}) = (IF 0 <= y THEN y ELSE 0) BY <1>8, MinMaxOfTwo
<1>10. Max({0, y}) \in 0..100 BY <1>8, <1>9
<1> QED BY <1>6, <1>10 DEF y

LEMMA LabelIs ==
  ASSUME NEW f, NEW T, NEW docs
  PROVE  Label(f, T, docs).source \in {"entity", "ctfidf", "fallback"}
<1> DEFINE bag == UNION {f[t].keywords : t \in T}
<1>1. CASE bag \cap Phrases # {} BY <1>1 DEF Label
<1>2. CASE bag # {} /\ bag \cap Phrases = {} BY <1>2 DEF Label
<1>3. CASE bag = {} BY <1>3 DEF Label
<1> QED BY <1>1, <1>2, <1>3

\* One clustering: what StoredIsAClustering says of the rows, of any rows.
IsClustering(as, ps) ==
  /\ \A t \in {a.thread : a \in as} : Cardinality({a \in as : a.thread = t /\ a.primary}) = 1
  /\ \A p \in ps : {a.thread : a \in {b \in as : b.project = p.threads}} = p.threads
  /\ {a.project : a \in as} = {p.threads : p \in ps}
  /\ \A a, b \in as : a.thread = b.thread /\ a.project = b.project => a = b

\* The sum of positive terms, one at least, is positive.
LEMMA SumIsPositive ==
  ASSUME NEW S, IsFiniteSet(S), S # {}, NEW fun, \A x \in S : fun[x] \in Nat \ {0}
  PROVE  SumFunctionOnSet(fun, S) \in Nat \ {0}
<1>1. PICK x \in S : TRUE OBVIOUS
<1>2. S \in SUBSET S /\ S \ {x} \in SUBSET S OBVIOUS
<1>3. \A y \in S : fun[y] \in Nat /\ fun[y] \in Int OBVIOUS
<1>4. SumFunctionOnSet(fun, S) = fun[x] + SumFunctionOnSet(fun, S \ {x}) BY <1>2, <1>3, SumAny
<1>5. SumFunctionOnSet(fun, S \ {x}) \in Nat BY <1>2, <1>3, SumGrows
<1> QED BY <1>4, <1>5

LEMMA MaterializedIs ==
  ASSUME NEW f, IsFeats(f), NEW prof, IsProfiles(f, prof), NEW assigns, IsJoined(f, prof, assigns)
  PROVE  LET r == Materialized(f, prof, assigns) IN
         /\ \A p \in Range(r.projects) : Stored(p) /\ p.threads \subseteq DOMAIN f
         /\ r.assignments \subseteq Assignment
         /\ \A a \in r.assignments : a.thread \in DOMAIN f
         /\ ~Twins(r) => IsClustering(r.assignments, Range(r.projects))
<1> DEFINE r == Materialized(f, prof, assigns)
           Coms == UNION {DOMAIN assigns[t] : t \in DOMAIN f}
           In(c) == {t \in DOMAIN f : c \in DOMAIN assigns[t]}
           Members(c) == UNION {DOMAIN f[t].sent : t \in In(c)}
           Wrote(c, p) == {t \in In(c) : p \in DOMAIN f[t].sent}
           Inv(c, p) == SumFunction([t \in Wrote(c, p) |-> assigns[t][c] * f[t].sent[p]])
           Msgs(c, p) == SumFunction([t \in Wrote(c, p) |-> f[t].sent[p]])
           Member(c, p) == [person |-> p, involvement |-> Inv(c, p), messages |-> Msgs(c, p)]
           First(c) == Min({f[t].start : t \in In(c)})
           Until(c) == Max({f[t].end : t \in In(c)})
           Lab(c) == Label(f, In(c), {In(o) : o \in Coms})
           Conf(c) == Confidence(f, In(c), prof, c)
           Project(c) == [threads |-> In(c), members |-> {Member(c, p) : p \in Members(c)},
                          start |-> First(c), end |-> Until(c), label |-> Lab(c), confidence |-> Conf(c)]
           RowOf(t, c) == [thread |-> t, project |-> In(c), weight |-> assigns[t][c],
                         primary |-> c = Primary(assigns[t])]
<1>1. r.projects = [c \in Coms |-> Project(c)] BY DEF Materialized
<1>2. r.assignments = {RowOf(y[1], y[2]) : y \in {z \in (DOMAIN f) \X Coms : z[2] \in DOMAIN assigns[z[1]]}}
  BY DEF Materialized
<1>3. \A t \in DOMAIN f : \A c \in DOMAIN assigns[t] : c \in Coms /\ t \in In(c) OBVIOUS
<1>4. \A t \in DOMAIN f : Joins(assigns[t], DOMAIN prof) BY DEF IsJoined
<1>5. Coms \subseteq DOMAIN prof
  <2>1. \A t \in DOMAIN f : DOMAIN assigns[t] \subseteq DOMAIN prof BY <1>4 DEF Joins
  <2> QED BY <2>1
<1>6. ASSUME NEW c \in Coms
      PROVE  /\ In(c) \in (SUBSET DOMAIN f) \ {{}} /\ In(c) \in (SUBSET Threads) \ {{}} /\ IsFiniteSet(In(c))
             /\ \A t \in In(c) : IsThread(f[t]) /\ IsFeature(f[t]) /\ assigns[t][c] \in Weights
  <2>1. In(c) \in (SUBSET DOMAIN f) \ {{}} OBVIOUS
  <2>2. ASSUME NEW t \in In(c) PROVE assigns[t][c] \in Weights
    <3>1. Joins(assigns[t], DOMAIN prof) /\ c \in DOMAIN assigns[t] BY <1>4
    <3> QED BY <3>1 DEF Joins
  <2> HIDE DEF In
  <2>3. IsFiniteSet(In(c)) BY <2>1, FeatsAreFinite, FS_Subset
  <2> QED BY <2>1, <2>2, <2>3, FeatsAreFinite
<1>7. ASSUME NEW t \in DOMAIN f, NEW c \in DOMAIN assigns[t]
      PROVE  RowOf(t, c) \in r.assignments
  <2>1. <<t, c>> \in {z \in (DOMAIN f) \X Coms : z[2] \in DOMAIN assigns[z[1]]} BY <1>3
  <2>2. RowOf(<<t, c>>[1], <<t, c>>[2]) = RowOf(t, c) OBVIOUS
  <2> HIDE DEF RowOf, Coms, r
  <2> QED BY <1>2, <2>1, <2>2
<1>8. ASSUME NEW a \in r.assignments
      PROVE  \E t \in DOMAIN f : \E c \in DOMAIN assigns[t] : a = RowOf(t, c)
  <2> HIDE DEF RowOf, Coms, r
  <2> QED BY <1>2
<1> HIDE DEF r, Coms
<1>9. ASSUME NEW c \in Coms PROVE Stored(Project(c))
  <2>1. First(c) \in Nat /\ Until(c) \in Nat /\ First(c) <= Until(c)
    <3> DEFINE C == In(c)
               b == [t \in C |-> f[t].start]
               e == [t \in C |-> f[t].end]
               B == {f[t].start : t \in C}
               E == {f[t].end : t \in C}
    <3>1. IsFiniteSet(C) /\ C # {} BY <1>6
    <3>2. \A t \in C : f[t].start \in Nat /\ f[t].end \in Nat /\ f[t].start <= f[t].end BY <1>6 DEF IsFeature
    <3> HIDE DEF C
    <3>3. Range(b) = B /\ DOMAIN b = C /\ Range(e) = E /\ DOMAIN e = C BY DEF Range
    <3>4. PICK t \in C : TRUE BY <3>1
    <3>5. f[t].start \in B /\ f[t].end \in E OBVIOUS
    <3>6. B \in SUBSET Nat /\ E \in SUBSET Nat /\ B # {} /\ E # {} BY <3>1, <3>2
    <3> HIDE DEF b, e, B, E
    <3>7. IsFiniteSet(B) /\ IsFiniteSet(E) BY <3>1, <3>3, ImageIsFinite
    <3>8. B \in SUBSET Int /\ E \in SUBSET Int BY <3>6
    <3>9. /\ Min(B) \in B /\ Max(E) \in E /\ Min(B) <= f[t].start /\ f[t].end <= Max(E)
      BY <3>5, <3>6, <3>7, <3>8, MinMax
    <3> DEFINE x == f[t].start  y == f[t].end
    <3>10. x \in Nat /\ y \in Nat /\ Min(B) <= x /\ y <= Max(E) /\ x <= y BY <3>2, <3>9
    <3>11. Min(B) \in Nat /\ Max(E) \in Nat BY <3>6, <3>9
    <3> HIDE DEF x, y
    <3>12. Min(B) <= Max(E) BY <3>10, <3>11
    <3> QED BY <3>11, <3>12 DEF B, E, C
  <2>2. Lab(c).source \in {"entity", "ctfidf", "fallback"} BY LabelIs
  <2>3. Conf(c) \in 0..100
    <3>1. In(c) \in (SUBSET DOMAIN f) \ {{}} /\ c \in DOMAIN prof BY <1>5, <1>6
    <3> HIDE DEF In
    <3> QED BY <3>1, ConfidenceIs
  <2>4. ASSUME NEW p \in Members(c) PROVE p \in Addresses /\ Inv(c, p) \in Nat /\ Msgs(c, p) \in Nat \ {0}
    <3> DEFINE W == Wrote(c, p)
               inv == [t \in W |-> assigns[t][c] * f[t].sent[p]]
               msgs == [t \in W |-> f[t].sent[p]]
    <3>1. W \in SUBSET In(c) /\ W # {} OBVIOUS
    <3>2. IsFiniteSet(W)
      <4> HIDE DEF W, In
      <4> QED BY <1>6, <3>1, FS_Subset
    <3>3. \A t \in W : p \in DOMAIN f[t].sent /\ t \in In(c) OBVIOUS
    <3> HIDE DEF W, In
    <3>4. ASSUME NEW t \in W PROVE p \in Addresses /\ f[t].sent[p] \in Nat \ {0} /\ assigns[t][c] \in Weights
      <4>1. IsThread(f[t]) /\ assigns[t][c] \in Weights BY <1>6, <3>3
      <4> QED BY <3>3, <4>1 DEF IsThread
    <3>5. ASSUME NEW t \in W PROVE msgs[t] \in Nat \ {0} /\ inv[t] \in Nat
      <4> DEFINE x == assigns[t][c]  y == f[t].sent[p]
      <4>1. msgs[t] = y /\ inv[t] = x * y OBVIOUS
      <4>2. x \in Weights /\ y \in Nat \ {0} BY <3>4
      <4> HIDE DEF x, y, msgs, inv
      <4>3. x * y \in Nat BY <4>2 DEF Weights
      <4> QED BY <4>1, <4>2, <4>3
    <3>6. DOMAIN msgs = W /\ DOMAIN inv = W OBVIOUS
    <3> HIDE DEF msgs, inv
    <3>7. SumFunctionOnSet(msgs, W) \in Nat \ {0} BY <3>1, <3>2, <3>5, SumIsPositive
    <3>8. SumFunctionOnSet(inv, W) \in Nat
      <4>1. W \in SUBSET W OBVIOUS
      <4> QED BY <3>2, <3>5, <4>1, SumGrows
    <3>9. SumFunction(msgs) \in Nat \ {0} /\ SumFunction(inv) \in Nat BY <3>6, <3>7, <3>8 DEF SumFunction
    <3> QED BY <3>1, <3>4, <3>9 DEF msgs, inv, W
  <2>5. /\ Project(c).threads = In(c) /\ Project(c).start = First(c) /\ Project(c).end = Until(c)
        /\ Project(c).label = Lab(c) /\ Project(c).confidence = Conf(c)
        /\ Project(c).members = {Member(c, p) : p \in Members(c)}
    OBVIOUS
  <2>6. \A p : Member(c, p).person = p /\ Member(c, p).involvement = Inv(c, p) /\ Member(c, p).messages = Msgs(c, p)
    OBVIOUS
  <2>7. In(c) \in (SUBSET Threads) \ {{}} BY <1>6
  <2> HIDE DEF Project, Member, Members, Inv, Msgs, In, First, Until, Lab, Conf
  <2>8. \A x \in Project(c).members : x.person \in Addresses /\ x.involvement \in Nat /\ x.messages \in Nat \ {0}
    BY <2>4, <2>5, <2>6
  <2> QED BY <2>1, <2>2, <2>3, <2>5, <2>7, <2>8 DEF Stored
<1>10. ASSUME NEW p \in Range(r.projects) PROVE \E c \in Coms : p = Project(c)
  <2> HIDE DEF Project
  <2> QED BY <1>1 DEF Range
<1>11. \A c \in Coms : Project(c) \in Range(r.projects) /\ r.projects[c] = Project(c)
  <2> HIDE DEF Project
  <2> QED BY <1>1 DEF Range
<1>12. \A c \in Coms : Project(c).threads = In(c) OBVIOUS
<1>13. \A c \in Coms : In(c) \subseteq DOMAIN f OBVIOUS
<1>14. DOMAIN r.projects = Coms BY <1>1
<1>15. \A t, c : RowOf(t, c).thread = t /\ RowOf(t, c).project = In(c) /\ RowOf(t, c).weight = assigns[t][c]
                 /\ RowOf(t, c).primary = (c = Primary(assigns[t]))
  OBVIOUS
<1>16. ASSUME NEW t \in DOMAIN f, NEW c \in DOMAIN assigns[t] PROVE RowOf(t, c) \in Assignment
  <2>1. c \in Coms /\ t \in In(c) BY <1>3 DEF Coms
  <2>2. t \in Threads BY FeatsAreFinite
  <2>3. In(c) \in SUBSET Threads BY <1>6, <2>1
  <2>4. assigns[t][c] \in Weights BY <1>6, <2>1
  <2>5. Assignment = [thread : Threads, project : SUBSET Threads, weight : Weights, primary : BOOLEAN]
    BY DEF Assignment, Weights
  <2> DEFINE x == assigns[t][c]  w == (c = Primary(assigns[t]))
  <2>6. RowOf(t, c) = [thread |-> t, project |-> In(c), weight |-> x, primary |-> w] OBVIOUS
  <2>7. x \in Weights /\ w \in BOOLEAN BY <2>4
  <2> HIDE DEF In, x, w, RowOf
  <2> QED BY <2>2, <2>3, <2>5, <2>6, <2>7
<1> HIDE DEF RowOf, Project, In
<1>17. \A p \in Range(r.projects) : Stored(p) /\ p.threads \subseteq DOMAIN f BY <1>9, <1>10, <1>12, <1>13
<1>18. r.assignments \subseteq Assignment /\ \A a \in r.assignments : a.thread \in DOMAIN f
  BY <1>8, <1>15, <1>16
<1>19. ASSUME ~Twins(r) PROVE IsClustering(r.assignments, Range(r.projects))
  <2>1. ASSUME NEW c \in Coms, NEW o \in Coms, In(c) = In(o) PROVE c = o
    BY <1>11, <1>12, <1>14, <1>19, <2>1 DEF Twins
  <2>2. \A t \in DOMAIN f : \A c \in DOMAIN assigns[t] : c \in Coms /\ t \in In(c) BY <1>3
  <2>3. ASSUME NEW c \in Coms, NEW t \in In(c) PROVE t \in DOMAIN f /\ c \in DOMAIN assigns[t] BY DEF In
  <2>4. \A a, b \in r.assignments : a.thread = b.thread /\ a.project = b.project => a = b
    <3> SUFFICES ASSUME NEW a \in r.assignments, NEW b \in r.assignments, a.thread = b.thread, a.project = b.project
                 PROVE  a = b
      OBVIOUS
    <3>1. PICK t \in DOMAIN f : \E c \in DOMAIN assigns[t] : a = RowOf(t, c) BY <1>8
    <3>10. PICK c \in DOMAIN assigns[t] : a = RowOf(t, c) BY <3>1
    <3>2. PICK u \in DOMAIN f : \E o \in DOMAIN assigns[u] : b = RowOf(u, o) BY <1>8
    <3>20. PICK o \in DOMAIN assigns[u] : b = RowOf(u, o) BY <3>2
    <3>3. t = u /\ In(c) = In(o) BY <1>15, <3>10, <3>20
    <3>4. c = o BY <2>1, <2>2, <3>3
    <3> QED BY <3>10, <3>20, <3>3, <3>4
  <2>5. {a.project : a \in r.assignments} = {p.threads : p \in Range(r.projects)}
    <3>1. ASSUME NEW a \in r.assignments PROVE \E p \in Range(r.projects) : a.project = p.threads
      <4>1. PICK t \in DOMAIN f : \E c \in DOMAIN assigns[t] : a = RowOf(t, c) BY <1>8
      <4>10. PICK c \in DOMAIN assigns[t] : a = RowOf(t, c) BY <4>1
      <4>2. c \in Coms /\ a.project = In(c) BY <1>15, <2>2, <4>10
      <4> QED BY <1>11, <1>12, <4>2
    <3>2. ASSUME NEW p \in Range(r.projects) PROVE \E a \in r.assignments : a.project = p.threads
      <4>1. PICK c \in Coms : p = Project(c) BY <1>10
      <4>2. PICK t \in In(c) : TRUE BY <1>6
      <4>3. RowOf(t, c) \in r.assignments BY <1>7, <2>3
      <4> QED BY <1>12, <1>15, <4>1, <4>3
    <3> QED BY <3>1, <3>2
  <2>6. ASSUME NEW p \in Range(r.projects)
        PROVE  {a.thread : a \in {b \in r.assignments : b.project = p.threads}} = p.threads
    <3>1. PICK c \in Coms : p = Project(c) BY <1>10
    <3>2. p.threads = In(c) BY <1>12, <3>1
    <3>3. ASSUME NEW t \in In(c)
          PROVE  RowOf(t, c) \in r.assignments /\ RowOf(t, c).thread = t /\ RowOf(t, c).project = p.threads
      BY <1>7, <1>15, <2>3, <3>2
    <3>4. ASSUME NEW b \in r.assignments, b.project = p.threads PROVE b.thread \in In(c)
      <4>1. PICK t \in DOMAIN f : \E o \in DOMAIN assigns[t] : b = RowOf(t, o) BY <1>8
      <4>10. PICK o \in DOMAIN assigns[t] : b = RowOf(t, o) BY <4>1
      <4>2. In(o) = In(c) /\ o \in Coms /\ t \in In(o) /\ b.thread = t BY <1>15, <2>2, <3>2, <3>4, <4>10
      <4> QED BY <4>2
    <3> QED BY <3>2, <3>3, <3>4
  <2>7. ASSUME NEW t \in {a.thread : a \in r.assignments}
        PROVE  Cardinality({a \in r.assignments : a.thread = t /\ a.primary}) = 1
    <3>1. t \in DOMAIN f BY <1>18
    <3> DEFINE c == Primary(assigns[t])
    <3>2. c \in DOMAIN assigns[t] BY <3>1, PrimaryIs
    <3>3. RowOf(t, c) \in r.assignments /\ RowOf(t, c).thread = t /\ RowOf(t, c).primary BY <1>7, <1>15, <3>1, <3>2
    <3>4. ASSUME NEW a \in r.assignments, a.thread = t, a.primary PROVE a = RowOf(t, c)
      <4>1. PICK u \in DOMAIN f : \E o \in DOMAIN assigns[u] : a = RowOf(u, o) BY <1>8
      <4>10. PICK o \in DOMAIN assigns[u] : a = RowOf(u, o) BY <4>1
      <4>2. u = t /\ o = Primary(assigns[u]) BY <1>15, <3>4, <4>10
      <4> QED BY <4>10, <4>2
    <3> HIDE DEF c
    <3>5. {a \in r.assignments : a.thread = t /\ a.primary} = {RowOf(t, c)} BY <3>3, <3>4
    <3> QED BY <3>5, FS_Singleton
  <2> QED BY <2>4, <2>5, <2>6, <2>7 DEF IsClustering
<1> QED BY <1>17, <1>18, <1>19 DEF r

-----------------------------------------------------------------------------
(* What a run holds at each of its stages, and an ingest at its.             *)
Fields == {"at", "mode", "owner", "limit", "eligible", "excluded", "threads", "ids", "mails", "feats", "idf", "sim",
           "prof", "assigns"}
Reading == {"idle", "eligible", "threads", "ids", "mails", "vectors", "people"}
Clustering == {"score", "cluster", "assign", "persist"}
IsRun(r) ==
  /\ DOMAIN r = Fields /\ r.at \in Reading \cup Clustering
  /\ r.eligible \cap r.excluded = {} /\ r.threads \subseteq r.eligible /\ r.ids \subseteq Universe
  /\ \A m \in r.mails : m \in Universe /\ m.thread \in r.threads
  /\ r.at \in {"idle", "eligible", "threads"} => r.threads = {}
  /\ r.at \in {"idle", "eligible", "threads", "ids", "mails"} => r.mails = {}
  /\ r.at \in {"vectors", "people"} => r.mails # {}
  /\ r.at \in Clustering => IsFeats(r.feats) /\ DOMAIN r.feats \subseteq r.eligible
  /\ r.at = "cluster" => r.sim \in [kSubset(2, DOMAIN r.feats) -> Nat]
  /\ r.at \in {"cluster", "assign"} => r.idf = Idf(r.feats)
  /\ r.at \in {"assign", "persist"} => IsProfiles(r.feats, r.prof)
  /\ r.at = "persist" => IsJoined(r.feats, r.prof, r.assigns)
IsIngest(i) == DOMAIN i = {"at", "mails", "owns"} /\ i.at \in {"idle", "l1", "owner"} /\ i.mails \subseteq Universe

\* The inductive invariant.
ProjectsInv == ProjectsTypeOK /\ StoredIsAClustering /\ IsRun(build) /\ IsIngest(ingest)

-----------------------------------------------------------------------------
\* Identity resolution gives each address of some mail the address that names its person.
LEMMA ResolvedIs ==
  ASSUME NEW ms \in SUBSET Universe
  PROVE  /\ AddressesOf(ms) \subseteq Addresses
         /\ Resolved(ms) \in [AddressesOf(ms) -> Addresses]
<1> DEFINE A == AddressesOf(ms)
           n == Len(Emails)
           N == n * n
           F == [A -> A]
           I(k) == 1 + ((k - 1) \div n)
           J(k) == 1 + ((k - 1) % n)
           Merges(i, j) == /\ i < j /\ <<Emails[i], Emails[j]>> \in Alike
                           /\ {Emails[i], Emails[j]} \subseteq A
           Joined(r, i, j) == [e \in A |-> IF r[e] = r[Emails[i]] THEN r[Emails[j]] ELSE r[e]]
           Then(k, r) == IF Merges(I(k), J(k)) THEN Joined(r, I(k), J(k)) ELSE r
           base == [e \in A |-> e]
           step == [k \in 1..N |-> [r \in F |-> Then(k, r)]]
           Is(f) == f = [k \in 0..N |-> IF k = 0 THEN base
                           ELSE LET i == 1 + ((k - 1) \div n)  j == 1 + ((k - 1) % n)
                                IN  IF Merges(i, j) THEN Joined(f[k - 1], i, j) ELSE f[k - 1]]
           root == CHOOSE f : Is(f)
<1>1. Resolved(ms) = root[N] BY DEF Resolved
<1>2. A \subseteq Addresses BY ProjectConstants DEF AddressesOf
<1>3. N \in Nat
  <2>1. n \in Nat BY ProjectConstants
  <2> HIDE DEF n
  <2> QED BY <2>1
<1>4. base \in F OBVIOUS
<1>5. ASSUME NEW k \in 1..N, NEW r \in F PROVE Then(k, r) \in F
  <2> DEFINE i == I(k)  j == J(k)
  <2>1. CASE Merges(i, j)
    <3>1. Emails[i] \in A /\ Emails[j] \in A BY <2>1
    <3>2. Then(k, r) = Joined(r, i, j) BY <2>1
    <3> HIDE DEF i, j, A
    <3>3. Joined(r, i, j) \in F BY <3>1
    <3> QED BY <3>2, <3>3
  <2>2. CASE ~Merges(i, j)
    <3>1. Then(k, r) = r BY <2>2
    <3> QED BY <3>1
  <2> QED BY <2>1, <2>2
<1>6. \A f : Is(f) <=> f = [k \in 0..N |-> IF k = 0 THEN base ELSE Then(k, f[k - 1])] OBVIOUS
<1> HIDE DEF Then, F, base, N, A, Is
<1>7. step \in [1..N -> [F -> F]] /\ \A k \in 1..N, r \in F : step[k][r] = Then(k, r)
  BY <1>5
<1> HIDE DEF step
<1>8. PICK g \in [0..N -> F] : Recurs(g, N, base, step) BY <1>3, <1>4, <1>7, Recursion
<1>9. g[0] = base /\ \A k \in 1..N : g[k] = Then(k, g[k - 1])
  <2>1. \A k \in 1..N : k - 1 \in 0..N /\ g[k - 1] \in F BY <1>3, <1>8
  <2> QED BY <1>3, <1>7, <1>8, <2>1 DEF Recurs
<1>10. Is(g)
  <2>1. \A k \in 0..N : g[k] = IF k = 0 THEN base ELSE Then(k, g[k - 1])
    <3> TAKE k \in 0..N
    <3>1. CASE k = 0 BY <1>9, <3>1
    <3>2. CASE k # 0
      <4>1. k \in 1..N BY <1>3, <3>2
      <4> QED BY <1>9, <3>2, <4>1
    <3> QED BY <3>1, <3>2
  <2>2. g = [k \in 0..N |-> g[k]] BY <1>8
  <2>3. g = [k \in 0..N |-> IF k = 0 THEN base ELSE Then(k, g[k - 1])] BY <2>1, <2>2
  <2> QED BY <1>6, <2>3
<1>11. Is(root) BY <1>10
<1> HIDE DEF root
<1>12. root = [k \in 0..N |-> IF k = 0 THEN base ELSE Then(k, root[k - 1])] BY <1>6, <1>11
<1>13. root[0] = base
  <2>1. 0 \in 0..N BY <1>3
  <2> QED BY <1>12, <2>1
<1>14. ASSUME NEW k \in 1..N PROVE root[k] = Then(k, root[k - 1])
  <2>1. k \in 0..N /\ k # 0 BY <1>3
  <2> QED BY <1>12, <2>1
<1>15. 0..N \subseteq {k \in 0..N : root[k] \in F}
  <2> DEFINE G == {k \in 0..N : root[k] \in F}
  <2>1. 0 \in G BY <1>3, <1>4, <1>13
  <2>2. \A k \in 1..N : k - 1 \in G => k \in G BY <1>3, <1>5, <1>14
  <2> HIDE DEF G
  <2>3. 0..N \subseteq G BY <1>3, <2>1, <2>2, InductionUpTo
  <2> QED BY <2>3 DEF G
<1>16. root[N] \in F BY <1>3, <1>15
<1>17. root[N] \in [A -> Addresses] BY <1>2, <1>16 DEF F
<1> QED BY <1>1, <1>2, <1>17 DEF A

-----------------------------------------------------------------------------
(* Every step keeps the invariant.                                           *)
ThreadsOf(ms) == {m.thread : m \in ms}

\* The statements of a run change it alone.
LEMMA GoKeeps ==
  ASSUME ProjectsInv, NEW r, Go(r), IsRun(r)
  PROVE  ProjectsInv'
<1>1. /\ build' = r
      /\ mail' = mail /\ vectors' = vectors /\ people' = people /\ identity' = identity /\ owner' = owner
      /\ projects' = projects /\ assigned' = assigned /\ ingest' = ingest /\ ingests' = ingests
  BY DEF Go, rows
<1>2. ProjectsTypeOK' BY <1>1 DEF ProjectsInv, ProjectsTypeOK
<1>3. StoredIsAClustering' BY <1>1 DEF ProjectsInv, StoredIsAClustering
<1>4. IsRun(build') /\ IsIngest(ingest') BY <1>1 DEF ProjectsInv
<1> QED BY <1>2, <1>3, <1>4 DEF ProjectsInv

LEMMA IdleIsRun == IsRun(Idle)
BY DEF IsRun, Idle, Fields, Reading, Clustering

LEMMA ReadMailboxKeeps == ASSUME ProjectsInv, ReadMailbox PROVE ProjectsInv'
<1>1. PICK limit \in Limits, mode \in Modes :
        Go([Idle EXCEPT !.at = "eligible", !.mode = mode, !.owner = owner, !.limit = limit])
  BY DEF ReadMailbox
<1> DEFINE r == [Idle EXCEPT !.at = "eligible", !.mode = mode, !.owner = owner, !.limit = limit]
<1>2. IsRun(r) BY DEF IsRun, Idle, Fields, Reading, Clustering
<1> HIDE DEF r
<1>3. Go(r) BY <1>1 DEF r
<1> QED BY <1>2, <1>3, GoKeeps

LEMMA ReadEligibleKeeps == ASSUME ProjectsInv, ReadEligible PROVE ProjectsInv'
<1> DEFINE found == FirstOf(EligibleThreads(mail), mail, build.limit)
           next == [build EXCEPT !.at = "threads", !.eligible = found, !.excluded = Tagged(mail)]
<1>1. build.at = "eligible" /\ Go(IF found = {} THEN Idle ELSE next) BY DEF ReadEligible
<1>2. found \cap Tagged(mail) = {} BY DEF FirstOf, EligibleThreads
<1> HIDE DEF found
<1>3. IsRun(next) BY <1>1, <1>2 DEF ProjectsInv, IsRun, Fields, Reading, Clustering
<1> HIDE DEF next
<1> QED BY <1>1, <1>3, IdleIsRun, GoKeeps

LEMMA LoadThreadRowsKeeps == ASSUME ProjectsInv, LoadThreadRows PROVE ProjectsInv'
<1> DEFINE found == build.eligible \cap {m.thread : m \in mail}
           next == [build EXCEPT !.at = "ids", !.threads = found]
<1>1. build.at = "threads" /\ Go(next) BY DEF LoadThreadRows
<1>2. found \subseteq build.eligible OBVIOUS
<1> HIDE DEF found
<1>3. IsRun(next) BY <1>1, <1>2 DEF ProjectsInv, IsRun, Fields, Reading, Clustering
<1> HIDE DEF next
<1> QED BY <1>1, <1>3, GoKeeps

LEMMA GetEmbeddableKeeps == ASSUME ProjectsInv, GetEmbeddable PROVE ProjectsInv'
<1> DEFINE found == {m \in Clean(mail) : m.thread \in build.eligible}
           next == [build EXCEPT !.at = "mails", !.ids = found]
<1>1. build.at = "ids" /\ Go(next) BY DEF GetEmbeddable
<1>2. found \subseteq Universe BY DEF Clean, ProjectsInv, ProjectsTypeOK
<1> HIDE DEF found
<1>3. IsRun(next) BY <1>1, <1>2 DEF ProjectsInv, IsRun, Fields, Reading, Clustering
<1> HIDE DEF next
<1> QED BY <1>1, <1>3, GoKeeps

LEMMA LoadMessageRowsKeeps == ASSUME ProjectsInv, LoadMessageRows PROVE ProjectsInv'
<1> DEFINE found == {m \in build.ids \cap mail : m.thread \in build.threads}
           next == [build EXCEPT !.at = "vectors", !.mails = found]
<1>1. build.at = "mails" /\ Go(IF found = {} THEN Idle ELSE next) BY DEF LoadMessageRows
<1>2. \A m \in found : m \in Universe /\ m.thread \in build.threads BY DEF ProjectsInv, ProjectsTypeOK
<1> HIDE DEF found
<1>3. ASSUME found # {} PROVE IsRun(next)
  BY <1>1, <1>2, <1>3 DEF ProjectsInv, IsRun, Fields, Reading, Clustering
<1> HIDE DEF next
<1> QED BY <1>1, <1>3, IdleIsRun, GoKeeps

LEMMA LoadVectorsKeeps == ASSUME ProjectsInv, LoadVectors PROVE ProjectsInv'
<1> DEFINE next == [build EXCEPT !.at = "people"]
<1>1. build.at = "vectors" /\ Go(IF build.ids \subseteq vectors /\ build.mode = "live" THEN next ELSE Idle)
  BY DEF LoadVectors
<1>2. IsRun(next) BY <1>1 DEF ProjectsInv, IsRun, Fields, Reading, Clustering
<1> HIDE DEF next
<1> QED BY <1>1, <1>2, IdleIsRun, GoKeeps

LEMMA LoadIdentitiesKeeps == ASSUME ProjectsInv, LoadIdentities PROVE ProjectsInv'
<1> DEFINE self == IF build.owner # NoOne THEN build.owner ELSE identity[OwnerEmail]
           f == Features(build.mails, identity, self)
           next == [build EXCEPT !.at = "score", !.ids = {}, !.mails = {}, !.feats = f]
<1>1. build.at = "people" /\ Go(next) BY DEF LoadIdentities
<1>2. IsFeats(f) /\ DOMAIN f \subseteq build.eligible
  <2>1. /\ build.mails \in SUBSET Universe /\ build.mails # {}
        /\ \A m \in build.mails : m.thread \in build.eligible
    BY <1>1 DEF ProjectsInv, IsRun
  <2>2. identity \in [Addresses -> Addresses \cup {NoOne}] BY DEF ProjectsInv, ProjectsTypeOK
  <2>3. DOMAIN f = {m.thread : m \in build.mails} /\ IsFeats(f)
    <3> HIDE DEF self
    <3> QED BY <2>1, <2>2, FeaturesAre
  <2> HIDE DEF f
  <2> QED BY <2>1, <2>3
<1> HIDE DEF f
<1>3. IsRun(next) BY <1>1, <1>2 DEF ProjectsInv, IsRun, Fields, Reading, Clustering
<1> HIDE DEF next
<1> QED BY <1>1, <1>3, GoKeeps

LEMMA ScoreKeeps == ASSUME ProjectsInv, Score PROVE ProjectsInv'
<1> DEFINE f == build.feats
           w == Idf(f)
           s == Similarities(f, w)
           next == [build EXCEPT !.at = "cluster", !.idf = w, !.sim = s]
<1>1. build.at = "score" /\ Go(next) BY DEF Score
<1>2. IsFeats(f) BY <1>1 DEF ProjectsInv, IsRun, Clustering
<1>3. s \in [kSubset(2, DOMAIN f) -> Nat]
  <2> HIDE DEF f
  <2> QED BY <1>2, SimilaritiesAre
<1> HIDE DEF s, w
<1>4. IsRun(next) BY <1>1, <1>3 DEF ProjectsInv, IsRun, Fields, Reading, Clustering, w
<1> HIDE DEF next
<1> QED BY <1>1, <1>4, GoKeeps

LEMMA ClusterKeeps == ASSUME ProjectsInv, Cluster PROVE ProjectsInv'
<1>1. build.at = "cluster" BY DEF Cluster
<1>2. PICK P \in Memberships(build.feats, build.sim) :
        Go([build EXCEPT !.at = "assign", !.sim = <<>>, !.prof = CommunityProfiles(build.feats, P)])
  BY DEF Cluster
<1> DEFINE f == build.feats
           prof == CommunityProfiles(f, P)
           next == [build EXCEPT !.at = "assign", !.sim = <<>>, !.prof = prof]
<1>3. IsFeats(f) /\ build.sim \in [kSubset(2, DOMAIN f) -> Nat] BY <1>1 DEF ProjectsInv, IsRun, Clustering
<1>4. IsProfiles(f, prof)
  <2> HIDE DEF f
  <2>1. P \in Memberships(f, build.sim) BY <1>2 DEF f
  <2>2. IsCommunities(P, DOMAIN f) BY <1>3, <2>1, MembershipsAre
  <2> QED BY <1>3, <2>2, ProfilesAre
<1>5. Go(next) BY <1>2
<1> HIDE DEF prof
<1>6. IsRun(next) BY <1>1, <1>4 DEF ProjectsInv, IsRun, Fields, Reading, Clustering
<1> HIDE DEF next
<1> QED BY <1>5, <1>6, GoKeeps

LEMMA AssignKeeps == ASSUME ProjectsInv, Assign PROVE ProjectsInv'
<1> DEFINE f == build.feats
           new == SoftAssign(f, build.prof, build.idf)
           next == [build EXCEPT !.at = "persist", !.idf = <<>>, !.assigns = new]
<1>1. build.at = "assign" /\ Go(next) BY DEF Assign
<1>2. IsFeats(f) /\ build.idf = Idf(f) /\ IsProfiles(f, build.prof) BY <1>1 DEF ProjectsInv, IsRun, Clustering
<1>3. IsJoined(f, build.prof, new)
  <2> HIDE DEF f
  <2>1. Weighs(build.idf, People(f)) BY <1>2, IdfIs DEF Weighs, People
  <2> QED BY <1>2, <2>1, SoftAssignIs
<1> HIDE DEF new
<1>4. IsRun(next) BY <1>1, <1>3 DEF ProjectsInv, IsRun, Fields, Reading, Clustering
<1> HIDE DEF next
<1> QED BY <1>1, <1>4, GoKeeps

LEMMA PersistClusteringKeeps == ASSUME ProjectsInv, PersistClustering PROVE ProjectsInv'
<1> DEFINE r == Materialized(build.feats, build.prof, build.assigns)
<1>1. /\ build.at = "persist" /\ build' = Idle /\ UNCHANGED <<rows, ingest, ingests>>
      /\ IF Refused(r) THEN UNCHANGED <<projects, assigned>>
         ELSE projects' = Range(r.projects) /\ assigned' = r.assignments
  BY DEF PersistClustering
<1>2. /\ mail' = mail /\ vectors' = vectors /\ people' = people /\ identity' = identity /\ owner' = owner
      /\ ingest' = ingest /\ ingests' = ingests
  BY <1>1 DEF rows
<1>3. IsRun(build') /\ IsIngest(ingest') BY <1>1, <1>2, IdleIsRun DEF ProjectsInv
<1>4. /\ \A p \in Range(r.projects) : Stored(p)
      /\ r.assignments \subseteq Assignment
      /\ ~Twins(r) => IsClustering(r.assignments, Range(r.projects))
  <2>1. IsFeats(build.feats) /\ IsProfiles(build.feats, build.prof)
        /\ IsJoined(build.feats, build.prof, build.assigns)
    BY <1>1 DEF ProjectsInv, IsRun, Clustering
  <2> QED BY <2>1, MaterializedIs
<1> HIDE DEF r
<1>5. CASE Refused(r)
  <2>1. projects' = projects /\ assigned' = assigned BY <1>1, <1>5
  <2>2. ProjectsTypeOK' BY <1>2, <2>1 DEF ProjectsInv, ProjectsTypeOK
  <2>3. StoredIsAClustering' BY <2>1 DEF ProjectsInv, StoredIsAClustering
  <2> QED BY <1>3, <2>2, <2>3 DEF ProjectsInv
<1>6. CASE ~Refused(r)
  <2>1. projects' = Range(r.projects) /\ assigned' = r.assignments BY <1>1, <1>6
  <2>2. /\ ~Twins(r) /\ \A a \in r.assignments : \E m \in mail : m.thread = a.thread
        /\ \A p \in Range(r.projects) : \A x \in p.members : x.person \in people
    BY <1>6 DEF Refused
  <2>3. IsClustering(assigned', projects') BY <1>4, <2>1, <2>2
  <2>4. StoredIsAClustering' BY <2>3 DEF IsClustering, StoredIsAClustering
  <2>5. {a.thread : a \in assigned'} \subseteq {m.thread : m \in mail} BY <2>1, <2>2
  <2>6. \A p \in projects' : Stored(p) /\ {x.person : x \in p.members} \subseteq people BY <1>4, <2>1, <2>2
  <2>7. ProjectsTypeOK' BY <1>2, <1>4, <2>1, <2>5, <2>6 DEF ProjectsInv, ProjectsTypeOK
  <2> QED BY <1>3, <2>4, <2>7 DEF ProjectsInv
<1> QED BY <1>5, <1>6

\* Of ingests, enrichments and the backfill.
LEMMA IngestWindowKeeps == ASSUME ProjectsInv, IngestWindow PROVE ProjectsInv'
<1>1. PICK w \in Windows, replace \in BOOLEAN :
        /\ ingests < MaxIngests /\ ingests' = ingests + 1
        /\ mail' = IF replace THEN w ELSE mail \cup w
        /\ IF replace
           THEN /\ vectors' = {} /\ people' = {} /\ identity' = [e \in Addresses |-> NoOne]
                /\ projects' = {} /\ assigned' = {}
           ELSE UNCHANGED <<vectors, people, identity, projects, assigned>>
        /\ ingest' = [at |-> "l1", mails |-> w, owns |-> TRUE]
        /\ UNCHANGED <<owner, build>>
  BY DEF IngestWindow
<1>2. w \subseteq Universe BY ProjectConstants
<1>3. IsIngest(ingest') BY <1>1, <1>2 DEF IsIngest
<1>4. IsRun(build') BY <1>1 DEF ProjectsInv
<1>5. ingests' \in 0..MaxIngests BY <1>1, ProjectConstants DEF ProjectsInv, ProjectsTypeOK
<1>6. CASE replace
  <2>1. /\ mail' = w /\ vectors' = {} /\ people' = {} /\ identity' = [e \in Addresses |-> NoOne]
        /\ projects' = {} /\ assigned' = {} /\ owner' = owner
    BY <1>1, <1>6
  <2>2. ProjectsTypeOK' BY <1>2, <1>5, <2>1 DEF ProjectsInv, ProjectsTypeOK
  <2>3. StoredIsAClustering' BY <2>1 DEF StoredIsAClustering
  <2> QED BY <1>3, <1>4, <2>2, <2>3 DEF ProjectsInv
<1>7. CASE ~replace
  <2>1. /\ mail' = mail \cup w /\ vectors' = vectors /\ people' = people /\ identity' = identity
        /\ projects' = projects /\ assigned' = assigned /\ owner' = owner
    BY <1>1, <1>7
  <2>2. ProjectsTypeOK' BY <1>2, <1>5, <2>1 DEF ProjectsInv, ProjectsTypeOK
  <2>3. StoredIsAClustering' BY <2>1 DEF ProjectsInv, StoredIsAClustering
  <2> QED BY <1>3, <1>4, <2>2, <2>3 DEF ProjectsInv
<1> QED BY <1>6, <1>7

LEMMA PersistL1Keeps == ASSUME ProjectsInv, PersistL1 PROVE ProjectsInv'
<1> DEFINE found == Resolved(ingest.mails)
           A == AddressesOf(ingest.mails)
<1>1. /\ people' = people \cup Range(found)
      /\ identity' = [e \in Addresses |-> IF e \in DOMAIN found THEN found[e] ELSE identity[e]]
      /\ ingest' = IF ingest.owns THEN [ingest EXCEPT !.at = "owner"] ELSE Quiet
      /\ mail' = mail /\ vectors' = vectors /\ owner' = owner /\ projects' = projects /\ assigned' = assigned
      /\ build' = build /\ ingests' = ingests
  BY DEF PersistL1
<1>2. ingest.mails \in SUBSET Universe BY DEF ProjectsInv, IsIngest
<1>3. A \subseteq Addresses /\ found \in [A -> Addresses] BY <1>2, ResolvedIs
<1>4. IsIngest(ingest') BY <1>1 DEF ProjectsInv, IsIngest, Quiet
<1> HIDE DEF found, A
<1>5. Range(found) \subseteq Addresses /\ \A e \in DOMAIN found : found[e] \in Range(found) BY <1>3 DEF Range
<1>6. identity' \in [Addresses -> people' \cup {NoOne}] BY <1>1, <1>5 DEF ProjectsInv, ProjectsTypeOK
<1>7. ProjectsTypeOK' BY <1>1, <1>5, <1>6 DEF ProjectsInv, ProjectsTypeOK
<1>8. StoredIsAClustering' BY <1>1 DEF ProjectsInv, StoredIsAClustering
<1> QED BY <1>1, <1>4, <1>7, <1>8 DEF ProjectsInv

LEMMA SetOwnerKeeps == ASSUME ProjectsInv, SetOwner PROVE ProjectsInv'
<1> DEFINE found == Resolved(ingest.mails)
           A == AddressesOf(ingest.mails)
<1>1. /\ owner' = (IF owner = NoOne /\ OwnerEmail \in DOMAIN found THEN found[OwnerEmail] ELSE owner)
      /\ ingest' = Quiet
      /\ mail' = mail /\ vectors' = vectors /\ people' = people /\ identity' = identity /\ projects' = projects
      /\ assigned' = assigned /\ build' = build /\ ingests' = ingests
  BY DEF SetOwner
<1>2. ingest.mails \in SUBSET Universe BY DEF ProjectsInv, IsIngest
<1>3. found \in [A -> Addresses] BY <1>2, ResolvedIs
<1>4. IsIngest(ingest') BY <1>1 DEF IsIngest, Quiet
<1> HIDE DEF found, A
<1>5. owner' \in Addresses \cup {NoOne} BY <1>1, <1>3 DEF ProjectsInv, ProjectsTypeOK
<1>6. ProjectsTypeOK' BY <1>1, <1>5 DEF ProjectsInv, ProjectsTypeOK
<1>7. StoredIsAClustering' BY <1>1 DEF ProjectsInv, StoredIsAClustering
<1> QED BY <1>1, <1>4, <1>6, <1>7 DEF ProjectsInv

\* Steps that touch neither people nor what is stored of a clustering.
LEMMA OtherKeeps ==
  ASSUME ProjectsInv, EnrichMailbox \/ IngestFails \/ Backfill \/ UNCHANGED projectsVars
  PROVE  ProjectsInv'
<1>1. /\ mail' = mail /\ people' = people /\ identity' = identity /\ owner' = owner /\ projects' = projects
      /\ assigned' = assigned /\ build' = build
  BY DEF EnrichMailbox, IngestFails, Backfill, projectsVars, rows
<1>2. vectors' \subseteq Universe
  BY DEF EnrichMailbox, IngestFails, Backfill, projectsVars, rows, Clean, ProjectsInv, ProjectsTypeOK
<1>3. ingests' \in 0..MaxIngests
  BY ProjectConstants DEF EnrichMailbox, IngestFails, Backfill, projectsVars, rows, ProjectsInv, ProjectsTypeOK
<1>4. IsIngest(ingest')
  BY DEF EnrichMailbox, IngestFails, Backfill, projectsVars, rows, ProjectsInv, ProjectsTypeOK, IsIngest, Quiet
<1>5. ProjectsTypeOK' BY <1>1, <1>2, <1>3 DEF ProjectsInv, ProjectsTypeOK
<1>6. StoredIsAClustering' BY <1>1 DEF ProjectsInv, StoredIsAClustering
<1> QED BY <1>1, <1>4, <1>5, <1>6 DEF ProjectsInv

\* The invariant holds at the start, and every step keeps it.
LEMMA ProjectsStart == ProjectsInit => ProjectsInv
<1> SUFFICES ASSUME ProjectsInit PROVE ProjectsInv
  OBVIOUS
<1>1. ProjectsTypeOK BY ProjectConstants DEF ProjectsInit, ProjectsTypeOK
<1>2. StoredIsAClustering BY DEF ProjectsInit, StoredIsAClustering
<1>3. IsRun(build) /\ IsIngest(ingest) BY IdleIsRun DEF ProjectsInit, IsIngest, Quiet
<1> QED BY <1>1, <1>2, <1>3 DEF ProjectsInv

LEMMA ProjectsStep == ProjectsInv /\ [ProjectsNext]_projectsVars => ProjectsInv'
<1> SUFFICES ASSUME ProjectsInv, [ProjectsNext]_projectsVars PROVE ProjectsInv'
  OBVIOUS
<1> QED
  BY ReadMailboxKeeps, ReadEligibleKeeps, LoadThreadRowsKeeps, GetEmbeddableKeeps, LoadMessageRowsKeeps,
     LoadVectorsKeeps, LoadIdentitiesKeeps, ScoreKeeps, ClusterKeeps, AssignKeeps, PersistClusteringKeeps,
     IngestWindowKeeps, PersistL1Keeps, SetOwnerKeeps, OtherKeeps
  DEF ProjectsNext

LEMMA ProjectsInvHolds == ProjectsSpec => []ProjectsInv
BY ProjectsStart, ProjectsStep, PTL DEF ProjectsSpec

\* In every reachable state of every mailbox the rows are well formed: a project has threads, a span that
\* does not end before it starts, members that are persons of the mailbox and a confidence in 0..100; a weight
\* is in 10..10000; an assigned thread has mail, whatever an ingest did between the reads of a run.
THEOREM ProjectTypesHold == ProjectsSpec => []ProjectsTypeOK
<1>1. ProjectsInv => ProjectsTypeOK BY DEF ProjectsInv
<1> QED BY <1>1, ProjectsInvHolds, PTL

\* What is stored is always one whole clustering, by any partition that the agglomeration or Leiden returns:
\* every thread of it has exactly one primary project, a project's threads are those assigned to it, and no
\* thread is assigned to one project twice.  A result in which two communities have the same threads, so one
\* project id, is refused as a whole.
THEOREM ClusteringsHold == ProjectsSpec => []StoredIsAClustering
<1>1. ProjectsInv => StoredIsAClustering BY DEF ProjectsInv
<1> QED BY <1>1, ProjectsInvHolds, PTL

\* A step that ends a run and changes the assignments leaves none for a thread that held a tagged message when
\* the run chose its threads: no later read of the run brings such a thread back.
THEOREM ExcludedLeaveHolds == ProjectsSpec => ExcludedLeave
<1> DEFINE Left == build.at = "persist" /\ build' # build /\ assigned' # assigned
                     => \A a \in assigned' : a.thread \notin build.excluded
<1>1. ProjectsInv /\ [ProjectsNext]_projectsVars => Left
  <2> SUFFICES ASSUME ProjectsInv, [ProjectsNext]_projectsVars,
                      build.at = "persist", build' # build, assigned' # assigned
               PROVE  \A a \in assigned' : a.thread \notin build.excluded
    OBVIOUS
  <2>1. PersistClustering
    <3>1. ~UNCHANGED projectsVars BY DEF projectsVars
    <3>2. \/ IngestWindow \/ EnrichMailbox \/ PersistL1 \/ SetOwner \/ IngestFails \/ Backfill
          => build' = build
      BY DEF IngestWindow, EnrichMailbox, PersistL1, SetOwner, IngestFails, Backfill
    <3>3. ~(\/ ReadMailbox \/ ReadEligible \/ LoadThreadRows \/ GetEmbeddable \/ LoadMessageRows
            \/ LoadVectors \/ LoadIdentities \/ Score \/ Cluster \/ Assign)
      BY DEF ReadMailbox, ReadEligible, LoadThreadRows, GetEmbeddable, LoadMessageRows, LoadVectors,
             LoadIdentities, Score, Cluster, Assign
    <3> QED BY <3>1, <3>2, <3>3 DEF ProjectsNext
  <2> DEFINE r == Materialized(build.feats, build.prof, build.assigns)
  <2>2. assigned' = r.assignments BY <2>1 DEF PersistClustering
  <2>3. /\ IsFeats(build.feats) /\ IsProfiles(build.feats, build.prof)
        /\ IsJoined(build.feats, build.prof, build.assigns)
        /\ DOMAIN build.feats \subseteq build.eligible /\ build.eligible \cap build.excluded = {}
    BY DEF ProjectsInv, IsRun, Clustering
  <2>4. \A a \in r.assignments : a.thread \in DOMAIN build.feats BY <2>3, MaterializedIs
  <2> HIDE DEF r
  <2> QED BY <2>2, <2>3, <2>4
<1> QED BY <1>1, ProjectsInvHolds, PTL DEF ProjectsSpec, ExcludedLeave
=============================================================================
