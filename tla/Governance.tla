------------------------------ MODULE Governance ------------------------------
(***************************************************************************)
(* Who may run, ask and change what: the start-up guard and readiness      *)
(* checks (services/hosted_readiness.py, services/preflight.py), the       *)
(* principal of a request and its ownership of mailboxes                   *)
(* (services/api/auth.py), the routes that enqueue work                    *)
(* (routers/pipeline_jobs.py, gmail_ingest.py), the administrator's views  *)
(* and actions (routers/admin.py, services/admin/read_service.py) and the  *)
(* audit rows that actions owe.                                            *)
(*                                                                         *)
(* Handlers have no await: an API process serves one request at a time,    *)
(* but several processes may serve.  A handler's statements see what other *)
(* processes have committed in between, and each audit row is a commit of  *)
(* its own, after that of the change it is about.                          *)
(***************************************************************************)
EXTENDS Integers, FiniteSets

CONSTANTS
  Processes,     \* processes of the API
  Environments,  \* the deployments: what is wrong with each
  People,        \* whom an identity provider (external: none is wired) may sign in
  Dev,           \* the synthetic principal of AUTH_MODE=dev
  TenantOf,      \* the tenant of each person, of Dev and of each mailbox
  Roles,         \* the roles of each person and of Dev
  Mailboxes,
  OwnerOf,       \* the person who owns each mailbox
  Connectable,   \* the mailboxes somebody connects an account to
  Packages,      \* those of one mailbox are versions of one lineage
  MailboxOf,     \* the mailbox of each package
  Flagged,       \* packages whose candidates have a high finding, to be acknowledged
  None,
  Fates,         \* bound: of what may become of a grant, consumed and expired
  MaxJobs,       \* bound on the jobs waiting
  MaxFaults      \* bound on the requests that fail between their commits

ASSUME GovernanceConstants ==
  /\ Dev \notin People /\ "admin" \in Roles[Dev]
  /\ None \notin People \cup {Dev} \cup Packages \cup Mailboxes
  /\ None \notin {"draft", "published", "superseded", "revoked", "granted", "consumed", "expired",
                 "detail", "revoke", "end", "publish", "disconnect"}
  /\ Packages \cap Mailboxes = {} /\ MailboxOf \in [Packages -> Mailboxes]
  /\ Flagged \subseteq Packages
  /\ Connectable \subseteq Mailboxes
  /\ Fates \subseteq {"consumed", "expired"}
  /\ MaxJobs \in Nat /\ MaxFaults \in Nat

VARIABLES
  env,       \* what is wrong with the deployment; fixed, the variables are read from os.environ
  up,        \* the processes that serve
  pkg,       \* status and recipient row of each package
  account,   \* the provider account of each connectable mailbox
  jobs,      \* jobs queued, by mailbox and tenant
  trail,     \* audit rows; those about an account, since it was last connected
  lost,      \* audit rows that a failed request still owed
  req,       \* the request each process serves
  faults

rows == <<pkg, account, jobs>>
vars == <<env, up, rows, trail, lost, req, faults>>

Job   == [mailbox : Mailboxes, tenant : {TenantOf[x] : x \in People \cup {Dev}}]
Grants  == {None, "granted", "consumed", "expired", "revoked"}
Package == [status : {"draft", "published", "superseded", "revoked"}, grant : Grants]
Row   == [what : {"published", "overridden", "superseded", "revoked"}, about : Packages]
         \cup [what : {"disconnected"}, about : Connectable]
Sight == [kind : {"detail", "audit", "packages", "accounts", "jobs", "overview"},
          about : SUBSET (Packages \cup Mailboxes), full : BOOLEAN,
          status : {None, "draft", "published", "superseded", "revoked"},
          recipient : Grants]
Request == [at : {"idle", "read", "owes", "answers"},
            op : {None, "detail", "revoke", "end", "publish", "disconnect"},
            who : People \cup {Dev, None}, about : Packages \cup Mailboxes \cup {None},
            status : {None, "draft", "published", "superseded", "revoked"},
            prior : SUBSET Packages,
            owes : SUBSET Row, sight : Sight \cup {None}]

Idle == [at |-> "idle", op |-> None, who |-> None, about |-> None, status |-> None,
         prior |-> {}, owes |-> {}, sight |-> None]

-----------------------------------------------------------------------------
\* The checks of a deployment; each fails for one of the reasons given.  Those that can
\* only warn or inform are left out.
AuthCauses == [auth_mode |-> {"dev auth"}, deploy_env |-> {"no deploy env"},
               no_mailbox_id_bypass |-> {"dev auth"}]
StoreCauses == [token_vault |-> {"dev vault allowed", "dev vault"},
                database_url |-> {"no url", "default url"}]
OAuthCauses == [oauth_config |-> {"no client"},
                oauth_redirect |-> {"no redirect", "local redirect", "http redirect"}]
OriginCauses == [access_log_redaction |-> {"codes logged"}, cors |-> {"wildcard"}]
RecipientCauses == [recipient_snapshot_only |-> {"recipient imports"}]

Failed(causes, e) == {check \in DOMAIN causes : causes[check] \cap e # {}}

\* The database is at the migrations' head, behind it, with the job table or from before it,
\* or down (external: any of these, at any time).  The revision is compared, and the queue
\* read, only in one that answers.
Databases == {"head", "behind", "no jobs", "down"}
DatabaseFailures(d) ==
  CASE d = "down" -> {"database"} [] d \in {"behind", "no jobs"} -> {"alembic_head"} [] OTHER -> {}
QueueFailures(d) == IF d = "no jobs" THEN {"job_queue"} ELSE {}

\* run_hosted_checks, readiness_failed.
HostedFailures(e, d) ==
  (UNION {Failed(causes, e) : causes \in {AuthCauses, StoreCauses, OAuthCauses, OriginCauses,
                                          RecipientCauses}})
  \cup DatabaseFailures(d) \cup QueueFailures(d)

Hosted(e) == "no deploy env" \notin e
ProductionIntent(e) == Hosted(e) \/ "dev auth" \notin e

\* run_startup_guard.
MayStart(e, d) == Hosted(e) => HostedFailures(e, d) = {}

\* evaluate_readiness: /readyz and the overview's "degraded".
Ready(e, d) == ProductionIntent(e) => HostedFailures(e, d) = {}

\* run_checks, for a mailbox: what the preflight route and script report.
PreflightCauses == [voyage_api_key |-> {"no voyage key"}, anthropic_api_key |-> {"no anthropic key"},
                    embed_client |-> {"no http client"}]
EmbeddingFailures(d, embedded) == IF d # "down" /\ ~embedded THEN {"embeddings"} ELSE {}
PreflightFailures(e, d, embedded) ==
  Failed(PreflightCauses, e) \cup DatabaseFailures(d) \cup EmbeddingFailures(d, embedded)

-----------------------------------------------------------------------------
\* get_principal: in production, whomever the identity provider has signed in.
Principals == IF "dev auth" \in env THEN {Dev} ELSE People

\* _resolve_owned_mailbox.
Owns(u, m) == u = Dev \/ (OwnerOf[m] = u /\ TenantOf[m] = TenantOf[u])

Admin(u) == "admin" \in Roles[u]
Reviews(u) == Roles[u] \cap {"admin", "security_reviewer"} # {}

FullAccess(u) == Admin(u)

\* Package rows of the principal's tenant.
Within(k, u) == TenantOf[MailboxOf[k]] = TenantOf[u]

TenantMailboxes(u) == {m \in Mailboxes : TenantOf[m] = TenantOf[u]}

Free(p) == p \in up /\ req[p] = Idle
Serves(p, op, at) == req[p].op = op /\ req[p].at = at

\* A log without the rows about an earlier connection.
Without(log, x) == {r \in log : r.about # x}

Begins(p, u, op, k, status) ==
  req' = [req EXCEPT ![p] = [Idle EXCEPT !.at = "read", !.op = op, !.who = u, !.about = k,
                                         !.status = status]]
Owes(p, what) == req' = [req EXCEPT ![p].at = "owes", ![p].owes = what]

-----------------------------------------------------------------------------
Init ==
  /\ env \in Environments
  /\ up = {}
  /\ pkg = [k \in Packages |-> [status |-> "draft", grant |-> None]]
  /\ account = [m \in Connectable |-> "absent"]
  /\ jobs = {} /\ trail = {} /\ lost = {}
  /\ req = [p \in Processes |-> Idle]
  /\ faults = 0

-----------------------------------------------------------------------------
\* The deployment.
Boot(p) ==
  /\ p \notin up
  /\ \E d \in Databases : MayStart(env, d)
  /\ up' = up \cup {p}
  /\ UNCHANGED <<env, rows, trail, lost, req, faults>>

\* External: a worker has run the job.
JobEnds(j) ==
  /\ j \in jobs
  /\ jobs' = jobs \ {j}
  /\ UNCHANGED <<env, up, pkg, account, trail, lost, req, faults>>

\* External: an OAuth callback.  The account's earlier audit rows are about an earlier
\* connection.
Connect(m) ==
  /\ account[m] # "connected"
  /\ account' = [account EXCEPT ![m] = "connected"]
  /\ trail' = Without(trail, m) /\ lost' = Without(lost, m)
  /\ UNCHANGED <<env, up, pkg, jobs, req, faults>>

\* The recipient exchanges the code, or the grant runs out; the state is what
\* _recipient_state makes of the row's dates, of which a revocation comes first.
GrantMoves(k, to) ==
  /\ \/ to = "consumed" /\ pkg[k].grant = "granted"
     \/ to = "expired" /\ pkg[k].grant \in {"granted", "consumed"}
  /\ pkg' = [pkg EXCEPT ![k].grant = to]
  /\ UNCHANGED <<env, up, account, jobs, trail, lost, req, faults>>

-----------------------------------------------------------------------------
\* The owner enqueues work; a repeated request gets the job that is active.
Enqueue(p, u, m) ==
  /\ Free(p) /\ Owns(u, m)
  /\ jobs' = jobs \cup {[mailbox |-> m, tenant |-> TenantOf[u]]}
  /\ Cardinality(jobs') <= MaxJobs
  /\ UNCHANGED <<env, up, pkg, account, trail, lost, req, faults>>

\* An ingest: confirmed, with a window if it replaces, and the account's address verified.
EnqueueIngest(p, u, m) == m \in Connectable /\ account[m] = "connected" /\ Enqueue(p, u, m)
EnqueueEnrich(p, u, m) == Enqueue(p, u, m)
EnqueueExtract(p, u, m) == Enqueue(p, u, m)
\* A backfill: confirmed; else an estimate is returned and nothing changes.
EnqueueBackfill(p, u, m) == Enqueue(p, u, m)
\* Projects: if there are embeddings, which MailboxPipeline follows.
EnqueueMaterialize(p, u, m) == Enqueue(p, u, m)

-----------------------------------------------------------------------------
\* The administrator's views, of rows of the caller's tenant.  They change nothing.
View(u, kind, about) ==
  [kind |-> kind, about |-> about, full |-> FullAccess(u), status |-> None, recipient |-> None]

PackagesShown(u) == View(u, "packages", {k \in Packages : Within(k, u)})
AuditShown(u)    == View(u, "audit", {k \in Packages : Within(k, u)})
AccountsShown(u) ==
  View(u, "accounts", {m \in Connectable \cap TenantMailboxes(u) : account[m] # "absent"})
\* Jobs carry the tenant of who enqueued them.
JobsShown(u)     == View(u, "jobs", {j.mailbox : j \in {i \in jobs : i.tenant = TenantOf[u]}})
OverviewShown(u) == View(u, "overview", {k \in Packages : Within(k, u)})

Views(u) ==
  (IF Reviews(u) THEN {PackagesShown(u), AuditShown(u), AccountsShown(u), JobsShown(u)} ELSE {})
  \cup (IF Admin(u) THEN {OverviewShown(u)} ELSE {})

\* A package's detail: its row first ...
ReadPackage(p, u, k) ==
  /\ Free(p) /\ Reviews(u) /\ Within(k, u)
  /\ Begins(p, u, "detail", k, pkg[k].status)
  /\ UNCHANGED <<env, up, rows, trail, lost, faults>>

\* ... its recipient last.  An administrator's revoke ends with the same reads.  That a
\* detail was read leaves a row too, at best.
ReadRecipient(p) ==
  /\ Serves(p, "detail", "read") \/ (Serves(p, "revoke", "read") /\ req[p].status = "revoked")
  /\ req' = [req EXCEPT ![p].at = "answers", ![p].sight =
        [kind |-> "detail", about |-> {req[p].about}, full |-> FullAccess(req[p].who),
         status |-> req[p].status, recipient |-> pkg[req[p].about].grant]]
  /\ UNCHANGED <<env, up, rows, trail, lost, faults>>

Answer(p) ==
  /\ req[p].at = "answers"
  /\ req' = [req EXCEPT ![p] = Idle]
  /\ UNCHANGED <<env, up, rows, trail, lost, faults>>

-----------------------------------------------------------------------------
\* Changes.  revoke_package of an administrator, for a published package or, without
\* effect, a revoked one; and of the owner.
RevokeRead(p, u, k) ==
  /\ Free(p) /\ Admin(u) /\ Within(k, u)
  /\ pkg[k].status \in {"published", "revoked"}
  /\ Begins(p, u, "revoke", k, pkg[k].status)
  /\ UNCHANGED <<env, up, rows, trail, lost, faults>>

EndRead(p, u, k) ==
  /\ Free(p) /\ Owns(u, MailboxOf[k])
  /\ pkg[k].status = "published"
  /\ Begins(p, u, "end", k, "published")
  /\ UNCHANGED <<env, up, rows, trail, lost, faults>>

\* Mutant of RevokeCommit: the recipient row keeps its grant.
RevokeCommitStatusOnly(p) ==
  LET k == req[p].about
  IN  /\ Serves(p, "revoke", "read") \/ Serves(p, "end", "read")
      /\ req[p].status = "published"
      /\ pkg' = [pkg EXCEPT ![k].status = "revoked"]
      /\ req' = [req EXCEPT ![p].at = "owes", ![p].status = "revoked",
                            ![p].owes = {[what |-> "revoked", about |-> k]}]
      /\ UNCHANGED <<env, up, account, jobs, trail, lost, faults>>

RevokeCommit(p) ==
  LET k == req[p].about
  IN  /\ Serves(p, "revoke", "read") \/ Serves(p, "end", "read")
      /\ req[p].status = "published"
      /\ pkg' = [pkg EXCEPT ![k] = [status |-> "revoked", grant |-> "revoked"]]
      /\ req' = [req EXCEPT ![p].at = "owes", ![p].status = "revoked",
                            ![p].owes = {[what |-> "revoked", about |-> k]}]
      /\ UNCHANGED <<env, up, account, jobs, trail, lost, faults>>

\* publish_handoff, of a draft whose candidate is generated.
PublishRead(p, u, k) ==
  /\ Free(p) /\ Owns(u, MailboxOf[k])
  /\ pkg[k].status = "draft"
  /\ req' = [req EXCEPT ![p] = [Idle EXCEPT !.at = "read", !.op = "publish", !.who = u,
        !.about = k, !.status = "draft",
        !.prior = {q \in Packages \ {k} : MailboxOf[q] = MailboxOf[k]
                                          /\ pkg[q].status = "published"}]]
  /\ UNCHANGED <<env, up, rows, trail, lost, faults>>

\* The row of a publish that high findings did not keep from.
Overridden(k) == {[what |-> "overridden", about |-> q] : q \in Flagged \cap {k}}

\* Mutant of PublishCommit: the packages superseded get no row of their own.
PublishCommitOneRow(p) ==
  LET k == req[p].about
      old == req[p].prior
  IN  /\ Serves(p, "publish", "read")
      /\ pkg[k].grant = None
      /\ pkg' = [q \in Packages |->
            IF q = k THEN [status |-> "published", grant |-> "granted"]
            ELSE IF q \in old THEN [status |-> "superseded", grant |-> "revoked"] ELSE pkg[q]]
      /\ Owes(p, {[what |-> "published", about |-> k]} \cup Overridden(k))
      /\ UNCHANGED <<env, up, account, jobs, trail, lost, faults>>

PublishCommit(p) ==
  LET k == req[p].about
      old == req[p].prior
  IN  /\ Serves(p, "publish", "read")
      /\ pkg[k].grant = None
      /\ pkg' = [q \in Packages |->
            IF q = k THEN [status |-> "published", grant |-> "granted"]
            ELSE IF q \in old THEN [status |-> "superseded", grant |-> "revoked"] ELSE pkg[q]]
      /\ Owes(p, {[what |-> "published", about |-> k]} \cup Overridden(k)
                 \cup {[what |-> "superseded", about |-> q] : q \in old})
      /\ UNCHANGED <<env, up, account, jobs, trail, lost, faults>>

\* A provider account is disconnected by its owner or by an administrator, if the vault
\* has revoked its token.
DisconnectRead(p, u, m) ==
  /\ Free(p) /\ (Owns(u, m) \/ (Admin(u) /\ TenantOf[m] = TenantOf[u]))
  /\ m \in Connectable /\ account[m] = "connected"
  /\ Begins(p, u, "disconnect", m, None)
  /\ UNCHANGED <<env, up, rows, trail, lost, faults>>

\* Mutant of DisconnectCommit: a status the table allows and the code never writes.
DisconnectAsRevoked(p) ==
  LET m == req[p].about
  IN  /\ Serves(p, "disconnect", "read")
      /\ account' = [account EXCEPT ![m] = "revoked"]
      /\ Owes(p, {[what |-> "disconnected", about |-> m]})
      /\ UNCHANGED <<env, up, pkg, jobs, trail, lost, faults>>

DisconnectCommit(p) ==
  LET m == req[p].about
  IN  /\ Serves(p, "disconnect", "read")
      /\ account' = [account EXCEPT ![m] = "disconnected"]
      /\ Owes(p, {[what |-> "disconnected", about |-> m]})
      /\ UNCHANGED <<env, up, pkg, jobs, trail, lost, faults>>

\* write_handoff_audit and the audit_log rows: one commit each, the publish's own first,
\* then the override's.
WriteAudit(p) ==
  /\ req[p].at = "owes"
  /\ \E r \in req[p].owes :
        LET left == req[p].owes \ {r}
        IN  /\ \A q \in left : q.what # "published" /\ (q.what = "overridden" => r.what = "published")
            /\ trail' = trail \cup {r}
            /\ req' = [req EXCEPT ![p] =
                  IF left # {} THEN [@ EXCEPT !.owes = left]
                  ELSE IF @.op = "revoke" THEN [@ EXCEPT !.at = "read", !.owes = {}]
                  ELSE Idle]
  /\ UNCHANGED <<env, up, rows, lost, faults>>

\* Before its commit, a request is refused (safety findings, a unique constraint, the vault)
\* or fails, and changes nothing.
Refuse(p) ==
  /\ req[p].at = "read"
  /\ req' = [req EXCEPT ![p] = Idle]
  /\ UNCHANGED <<env, up, rows, trail, lost, faults>>

\* After it, the database raises or the process dies.
Fail(p) ==
  /\ req[p].at = "owes"
  /\ faults < MaxFaults
  /\ faults' = faults + 1
  /\ lost' = lost \cup req[p].owes
  /\ req' = [req EXCEPT ![p] = Idle]
  /\ UNCHANGED <<env, up, rows, trail>>

-----------------------------------------------------------------------------
Ask(p, u) ==
  \/ \E k \in Packages : \/ ReadPackage(p, u, k) \/ RevokeRead(p, u, k) \/ EndRead(p, u, k) \/ PublishRead(p, u, k)
  \/ \E m \in Mailboxes :
       \/ EnqueueIngest(p, u, m) \/ EnqueueEnrich(p, u, m) \/ EnqueueExtract(p, u, m)
       \/ EnqueueBackfill(p, u, m) \/ EnqueueMaterialize(p, u, m) \/ DisconnectRead(p, u, m)

Serve(p) ==
  \/ \E u \in Principals : Ask(p, u)
  \/ ReadRecipient(p) \/ RevokeCommit(p) \/ PublishCommit(p) \/ DisconnectCommit(p)
  \/ WriteAudit(p) \/ Answer(p) \/ Refuse(p) \/ Fail(p)

Next ==
  \/ \E p \in Processes : Boot(p) \/ Serve(p)
  \/ \E j \in jobs : JobEnds(j)
  \/ \E m \in Connectable : Connect(m)
  \/ \E k \in Packages, to \in Fates : GrantMoves(k, to)

Spec == Init /\ [][Next]_vars

-----------------------------------------------------------------------------
\* Properties.

TypeOK ==
  /\ env \in Environments /\ up \subseteq Processes
  /\ pkg \in [Packages -> Package]
  /\ account \in [Connectable -> {"absent", "connected", "disconnected"}]
  /\ jobs \subseteq Job
  /\ trail \subseteq Row /\ lost \subseteq Row
  /\ req \in [Processes -> Request]
  /\ faults \in 0..MaxFaults

\* A deployment declared hosted is served by no process whose configuration fails a check,
\* so that the synthetic principal, who owns every mailbox, asks nothing of it; it is ready
\* whenever the database is, and the preflight never reports more.
DevStaysLocal ==
  Hosted(env) /\ up # {} =>
     /\ HostedFailures(env, "head") = {}
     /\ \A p \in up : req[p].who # Dev
     /\ \A d \in Databases : /\ Ready(env, d) <=> DatabaseFailures(d) = {}
                             /\ PreflightFailures(env, d, TRUE) = {} => Ready(env, d)

\* Whatever other processes commit between the statements of a view: it is about packages,
\* accounts and jobs of the caller's tenant (the jobs that Dev has enqueued for others
\* apart), in full for administrators only.
Own(u, s) ==
  /\ \A x \in s.about : IF x \in Packages THEN Within(x, u)
                       ELSE TenantOf[x] = TenantOf[u] \/ (u = Dev /\ s.kind = "jobs")
  /\ s.full \/ s.kind = "overview" => Admin(u)
SightsAreOwn ==
  /\ \A u \in Principals : \A s \in Views(u) : Own(u, s)
  /\ \A p \in Processes : req[p].sight # None => Own(req[p].who, req[p].sight)

\* A detail read across commits still agrees with itself: a package shown as ended has no
\* grant to use, one shown as published has a recipient.
DetailsAgree ==
  \A p \in Processes : req[p].sight # None /\ req[p].sight.kind = "detail" =>
     LET s == req[p].sight
     IN  /\ s.status \in {"revoked", "superseded"} => s.recipient = "revoked"
         /\ s.status = "published" => s.recipient # None

AdminViewsHold == DevStaysLocal /\ SightsAreOwn /\ DetailsAgree

\* "Write a safe audit event": what a publish, a revoke or a disconnect has changed has its
\* row, and a publish that overrode the safety gate another that stays, unless the request
\* that owes it is under way or has failed; a request repeated after a failure writes none.
AuditIsComplete ==
  LET owed == UNION {req[p].owes : p \in Processes}
  IN  /\ \A k \in Packages : pkg[k].status # "draft" =>
            {[what |-> pkg[k].status, about |-> k]} \cup Overridden(k) \subseteq trail \cup lost \cup owed
      /\ \A m \in Connectable : account[m] = "disconnected" =>
            [what |-> "disconnected", about |-> m] \in trail \cup lost \cup owed
=============================================================================
