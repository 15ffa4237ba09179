-------------------------- MODULE GovernanceProofs --------------------------
(***************************************************************************)
(* The administrator's views and the audit trail, for any number of API    *)
(* processes, people, tenants, mailboxes and packages, any deployments and *)
(* any number of failed requests.                                          *)
(***************************************************************************)
EXTENDS Governance, TLAPS

LEMMA IdleIsARequest == Idle \in Request
  BY DEF Idle, Request

\* What a request is about, by what it does.
Aimed(r) == /\ r.op \in {"detail", "revoke", "end", "publish"} => r.about \in Packages
            /\ r.op = "disconnect" => r.about \in Connectable
AllAimed == \A p \in Processes : Aimed(req[p])

LEMMA PrincipalsAreKnown == Principals \subseteq People \cup {Dev}
  BY DEF Principals

\* A request that is put into its process keeps the types of the requests.
LEMMA PutRequest ==
  ASSUME TypeOK, AllAimed, NEW p \in Processes, NEW r \in Request, Aimed(r),
         req' = [req EXCEPT ![p] = r]
  PROVE  req' \in [Processes -> Request] /\ AllAimed'
  BY DEF TypeOK, AllAimed

LEMMA BeginsKeepsTypes ==
  ASSUME TypeOK, AllAimed, NEW p \in Processes, NEW u \in People \cup {Dev},
         NEW op \in {"detail", "revoke", "end", "publish", "disconnect"},
         NEW k \in Packages \cup Mailboxes,
         NEW status \in {None, "draft", "published", "superseded", "revoked"},
         op = "disconnect" => k \in Connectable,
         op # "disconnect" => k \in Packages,
         Begins(p, u, op, k, status)
  PROVE  req' \in [Processes -> Request] /\ AllAimed'
<1> DEFINE r == [Idle EXCEPT !.at = "read", !.op = op, !.who = u, !.about = k, !.status = status]
<1>1. r \in Request BY DEF Idle, Request
<1>2. Aimed(r) BY DEF Idle, Aimed
<1>3. req' = [req EXCEPT ![p] = r] BY DEF Begins
<1> HIDE DEF r
<1> QED BY <1>1, <1>2, <1>3, PutRequest

LEMMA IdleKeepsTypes ==
  ASSUME TypeOK, AllAimed, NEW p \in Processes, req' = [req EXCEPT ![p] = Idle]
  PROVE  req' \in [Processes -> Request] /\ AllAimed'
<1>1. Aimed(Idle) BY GovernanceConstants DEF Idle, Aimed
<1> QED BY <1>1, IdleIsARequest, PutRequest

LEMMA AskKeepsTypes ==
  ASSUME TypeOK, AllAimed, NEW p \in Processes, NEW u \in Principals, Ask(p, u)
  PROVE  TypeOK' /\ AllAimed'
<1> USE DEF rows
<1>u. u \in People \cup {Dev} BY PrincipalsAreKnown
<1>c. Connectable \subseteq Mailboxes BY GovernanceConstants
<1>s. \A k \in Packages : pkg[k].status \in {None, "draft", "published", "superseded", "revoked"}
  BY DEF TypeOK, Package
<1>1. ASSUME NEW k \in Packages, ReadPackage(p, u, k) PROVE TypeOK' /\ AllAimed'
  <2>1. Begins(p, u, "detail", k, pkg[k].status) BY <1>1 DEF ReadPackage
  <2> QED BY <1>1, <1>u, <1>s, <2>1, BeginsKeepsTypes DEF ReadPackage, TypeOK
<1>2. ASSUME NEW k \in Packages, RevokeRead(p, u, k) PROVE TypeOK' /\ AllAimed'
  <2>1. Begins(p, u, "revoke", k, pkg[k].status) BY <1>2 DEF RevokeRead
  <2> QED BY <1>2, <1>u, <1>s, <2>1, BeginsKeepsTypes DEF RevokeRead, TypeOK
<1>3. ASSUME NEW k \in Packages, EndRead(p, u, k) PROVE TypeOK' /\ AllAimed'
  <2>1. Begins(p, u, "end", k, "published") BY <1>3 DEF EndRead
  <2> QED BY <1>3, <1>u, <2>1, BeginsKeepsTypes DEF EndRead, TypeOK
<1>4. ASSUME NEW k \in Packages, PublishRead(p, u, k) PROVE TypeOK' /\ AllAimed'
  <2> DEFINE old == {q \in Packages \ {k} : MailboxOf[q] = MailboxOf[k] /\ pkg[q].status = "published"}
             r == [Idle EXCEPT !.at = "read", !.op = "publish", !.who = u, !.about = k,
                               !.status = "draft", !.prior = old]
  <2>1. old \in SUBSET Packages OBVIOUS
  <2>2. req' = [req EXCEPT ![p] = r] BY <1>4 DEF PublishRead
  <2>3. r \in Request /\ Aimed(r)
    <3> HIDE DEF old
    <3> QED BY <1>u, <2>1 DEF Idle, Request, Aimed
  <2> HIDE DEF r
  <2> QED BY <1>4, <2>2, <2>3, PutRequest DEF PublishRead, TypeOK
<1>5. ASSUME NEW m \in Mailboxes, Enqueue(p, u, m) PROVE TypeOK' /\ AllAimed'
  <2>1. [mailbox |-> m, tenant |-> TenantOf[u]] \in Job BY <1>u DEF Job
  <2> QED BY <1>5, <2>1 DEF Enqueue, TypeOK, AllAimed, Aimed
<1>6. ASSUME NEW m \in Mailboxes, DisconnectRead(p, u, m) PROVE TypeOK' /\ AllAimed'
  <2>1. Begins(p, u, "disconnect", m, None) /\ m \in Connectable BY <1>6 DEF DisconnectRead
  <2> QED BY <1>6, <1>u, <2>1, BeginsKeepsTypes DEF DisconnectRead, TypeOK
<1> QED BY <1>1, <1>2, <1>3, <1>4, <1>5, <1>6
     DEF Ask, EnqueueIngest, EnqueueEnrich, EnqueueExtract, EnqueueBackfill, EnqueueMaterialize

LEMMA ServeKeepsTypes ==
  ASSUME TypeOK, AllAimed, NEW p \in Processes, Serve(p)
  PROVE  TypeOK' /\ AllAimed'
<1> USE DEF rows
<1>r. req[p] \in Request /\ Aimed(req[p]) BY DEF TypeOK, AllAimed
<1>1. CASE \E u \in Principals : Ask(p, u) BY <1>1, AskKeepsTypes
<1>2. CASE ReadRecipient(p)
  <2> DEFINE s == [kind |-> "detail", about |-> {req[p].about}, full |-> FullAccess(req[p].who),
                   status |-> req[p].status, recipient |-> pkg[req[p].about].grant]
             r == [req[p] EXCEPT !.at = "answers", !.sight = s]
  <2>1. req[p].about \in Packages BY <1>2, <1>r DEF ReadRecipient, Serves, Aimed
  <2>2. s \in Sight BY <1>r, <2>1 DEF Sight, Request, TypeOK, Package, FullAccess, Admin
  <2>3. r \in Request /\ Aimed(r)
    <3> HIDE DEF s
    <3> QED BY <1>r, <2>2 DEF Request, Aimed
  <2>4. req' = [req EXCEPT ![p] = r] BY <1>2 DEF ReadRecipient, TypeOK
  <2> HIDE DEF r
  <2> QED BY <1>2, <2>3, <2>4, PutRequest DEF ReadRecipient, TypeOK
<1>3. CASE RevokeCommit(p)
  <2> DEFINE k == req[p].about
             r == [req[p] EXCEPT !.at = "owes", !.status = "revoked",
                                 !.owes = {[what |-> "revoked", about |-> k]}]
  <2>1. k \in Packages BY <1>3, <1>r DEF RevokeCommit, Serves, Aimed
  <2>2. {[what |-> "revoked", about |-> k]} \subseteq Row BY <2>1 DEF Row
  <2>3. r \in Request /\ Aimed(r) BY <1>r, <2>2 DEF Request, Aimed
  <2>4. req' = [req EXCEPT ![p] = r] BY <1>3 DEF RevokeCommit, TypeOK
  <2>5. pkg' \in [Packages -> Package] BY <1>3, <2>1 DEF RevokeCommit, TypeOK, Package, Grants
  <2> HIDE DEF r
  <2> QED BY <1>3, <2>3, <2>4, <2>5, PutRequest DEF RevokeCommit, TypeOK
<1>4. CASE PublishCommit(p)
  <2> DEFINE k == req[p].about
             owed == {[what |-> "published", about |-> k]} \cup Overridden(k)
                     \cup {[what |-> "superseded", about |-> q] : q \in req[p].prior}
             r == [req[p] EXCEPT !.at = "owes", !.owes = owed]
  <2>1. k \in Packages /\ req[p].prior \subseteq Packages
    BY <1>4, <1>r DEF PublishCommit, Serves, Aimed, Request
  <2>2. owed \in SUBSET Row BY <2>1 DEF Row, Overridden
  <2>3. r \in Request /\ Aimed(r)
    <3> HIDE DEF owed
    <3> QED BY <1>r, <2>2 DEF Request, Aimed
  <2>4. req' = [req EXCEPT ![p] = r] BY <1>4 DEF PublishCommit, Owes, TypeOK
  <2>5. pkg' \in [Packages -> Package] BY <1>4 DEF PublishCommit, TypeOK, Package, Grants
  <2> HIDE DEF r
  <2> QED BY <1>4, <2>3, <2>4, <2>5, PutRequest DEF PublishCommit, TypeOK
<1>5. CASE DisconnectCommit(p)
  <2> DEFINE m == req[p].about
             r == [req[p] EXCEPT !.at = "owes", !.owes = {[what |-> "disconnected", about |-> m]}]
  <2>1. m \in Connectable BY <1>5, <1>r DEF DisconnectCommit, Serves, Aimed
  <2>2. {[what |-> "disconnected", about |-> m]} \subseteq Row BY <2>1 DEF Row
  <2>3. r \in Request /\ Aimed(r) BY <1>r, <2>2 DEF Request, Aimed
  <2>4. req' = [req EXCEPT ![p] = r] BY <1>5 DEF DisconnectCommit, Owes, TypeOK
  <2> HIDE DEF r
  <2> QED BY <1>5, <2>1, <2>3, <2>4, PutRequest DEF DisconnectCommit, TypeOK
<1>6. CASE WriteAudit(p)
  <2>1. PICK x \in req[p].owes :
          /\ trail' = trail \cup {x}
          /\ req' = [req EXCEPT ![p] =
                IF req[p].owes \ {x} # {} THEN [req[p] EXCEPT !.owes = req[p].owes \ {x}]
                ELSE IF req[p].op = "revoke" THEN [req[p] EXCEPT !.at = "read", !.owes = {}]
                ELSE Idle]
    BY <1>6 DEF WriteAudit, TypeOK
  <2>2. x \in Row BY <1>r DEF Request
  <2> DEFINE some == [req[p] EXCEPT !.owes = req[p].owes \ {x}]
             none == [req[p] EXCEPT !.at = "read", !.owes = {}]
  <2>3. some \in Request /\ Aimed(some) BY <1>r DEF Request, Aimed
  <2>4. none \in Request /\ Aimed(none) BY <1>r DEF Request, Aimed
  <2>5. \/ req' = [req EXCEPT ![p] = some] \/ req' = [req EXCEPT ![p] = none]
        \/ req' = [req EXCEPT ![p] = Idle]
    BY <2>1
  <2> HIDE DEF some, none
  <2>6. req' \in [Processes -> Request] /\ AllAimed'
    BY <2>3, <2>4, <2>5, PutRequest, IdleKeepsTypes
  <2> QED BY <1>6, <2>1, <2>2, <2>6 DEF WriteAudit, TypeOK
<1>7. CASE Answer(p) BY <1>7, IdleKeepsTypes DEF Answer, TypeOK
<1>8. CASE Refuse(p) BY <1>8, IdleKeepsTypes DEF Refuse, TypeOK
<1>9. CASE Fail(p)
  <2>1. req[p].owes \subseteq Row BY <1>r DEF Request
  <2>2. faults' \in 0..MaxFaults BY <1>9, GovernanceConstants DEF Fail, TypeOK
  <2> QED BY <1>9, <2>1, <2>2, IdleKeepsTypes DEF Fail, TypeOK
<1> QED BY <1>1, <1>2, <1>3, <1>4, <1>5, <1>6, <1>7, <1>8, <1>9 DEF Serve

LEMMA NextKeepsTypes ==
  ASSUME TypeOK, AllAimed, [Next]_vars PROVE TypeOK' /\ AllAimed'
<1> USE DEF rows
<1>1. ASSUME NEW p \in Processes, Boot(p) PROVE TypeOK' /\ AllAimed'
  BY <1>1 DEF Boot, TypeOK, AllAimed
<1>2. ASSUME NEW j \in jobs, JobEnds(j) PROVE TypeOK' /\ AllAimed'
  BY <1>2 DEF JobEnds, TypeOK, AllAimed
<1>3. ASSUME NEW m \in Connectable, Connect(m) PROVE TypeOK' /\ AllAimed'
  BY <1>3 DEF Connect, Without, TypeOK, AllAimed
<1>4. ASSUME NEW k \in Packages, NEW to \in Fates, GrantMoves(k, to) PROVE TypeOK' /\ AllAimed'
  BY <1>4, GovernanceConstants DEF GrantMoves, TypeOK, AllAimed, Package, Grants
<1>5. CASE UNCHANGED vars BY <1>5 DEF vars, TypeOK, AllAimed
<1> QED BY <1>1, <1>2, <1>3, <1>4, <1>5, ServeKeepsTypes DEF Next

LEMMA Typed == Spec => [](TypeOK /\ AllAimed)
<1>1. Init => TypeOK /\ AllAimed
  BY IdleIsARequest, GovernanceConstants
     DEF Init, TypeOK, AllAimed, Aimed, Idle, Package, Grants
<1>2. TypeOK /\ AllAimed /\ [Next]_vars => (TypeOK /\ AllAimed)' BY NextKeepsTypes
<1> QED BY <1>1, <1>2, PTL DEF Spec

\* Every state has the types of the rows and of what a request carries.
THEOREM TypeCorrect == Spec => []TypeOK
  BY Typed, PTL

(***************************************************************************)
(* Audit rows.  A row that is owed, written or lost stays one of the three *)
(* unless its account is connected anew; only requests that have committed *)
(* owe.                                                                    *)
(***************************************************************************)
OwedBy(rs) == UNION {rs[p].owes : p \in Processes}
Known == trail \cup lost \cup OwedBy(req)
OnlyOwersOwe == \A p \in Processes : req[p].at # "owes" => req[p].owes = {}

\* What becomes of the owed rows when one request changes.
LEMMA OwedByOne ==
  ASSUME TypeOK, NEW p \in Processes, NEW r, req' = [req EXCEPT ![p] = r]
  PROVE  OwedBy(req) \subseteq OwedBy(req') \cup req[p].owes /\ r.owes \subseteq OwedBy(req')
  BY DEF TypeOK, OwedBy

LEMMA KnownStays ==
  ASSUME TypeOK, OnlyOwersOwe, NEW p \in Processes, NEW r, req' = [req EXCEPT ![p] = r],
         trail \subseteq trail', lost \subseteq lost',
         req[p].owes \subseteq r.owes \cup trail' \cup lost',
         r.at # "owes" => r.owes = {}
  PROVE  Known \subseteq Known' /\ OnlyOwersOwe' /\ r.owes \subseteq Known'
<1>1. Known' = trail' \cup lost' \cup OwedBy(req') BY DEF Known, OwedBy
<1>2. Known \subseteq Known' BY <1>1, OwedByOne DEF Known
<1>3. OnlyOwersOwe' BY DEF OnlyOwersOwe, TypeOK
<1> QED BY <1>1, <1>2, <1>3, OwedByOne

Recorded(k) == {[what |-> pkg[k].status, about |-> k]} \cup Overridden(k) \subseteq Known

\* What a request is to end has been published: no package is a draft again.
PastDraft == \A p \in Processes : /\ req[p].op \in {"revoke", "end"} => pkg[req[p].about].status # "draft"
                                  /\ \A k \in req[p].prior : pkg[k].status # "draft"

LEMMA NextKeepsPastDraft ==
  ASSUME TypeOK, AllAimed, PastDraft, [Next]_vars PROVE PastDraft'
<1>1. \A k \in Packages : pkg[k].status # "draft" => pkg'[k].status # "draft"
  <2> USE DEF rows
  <2>1. ASSUME NEW p \in Processes, RevokeCommit(p) PROVE \A k \in Packages : pkg[k].status # "draft" => pkg'[k].status # "draft"
    BY <2>1 DEF RevokeCommit, TypeOK
  <2>2. ASSUME NEW p \in Processes, PublishCommit(p) PROVE \A k \in Packages : pkg[k].status # "draft" => pkg'[k].status # "draft"
    BY <2>2 DEF PublishCommit
  <2>3. ASSUME NEW k \in Packages, NEW to \in Fates, GrantMoves(k, to)
        PROVE  \A q \in Packages : pkg'[q].status = pkg[q].status
    BY <2>3 DEF GrantMoves, TypeOK, Package
  <2>4. ASSUME NEW p \in Processes, NEW u \in Principals, Ask(p, u) PROVE UNCHANGED pkg
    BY <2>4 DEF Ask, ReadPackage, RevokeRead, EndRead, PublishRead, EnqueueIngest, EnqueueEnrich, EnqueueExtract,
      EnqueueBackfill, EnqueueMaterialize, Enqueue, DisconnectRead
  <2>5. ASSUME NEW p \in Processes, Serve(p) PROVE UNCHANGED pkg \/ RevokeCommit(p) \/ PublishCommit(p)
    <3>1. CASE ReadRecipient(p) \/ DisconnectCommit(p) \/ WriteAudit(p) \/ Answer(p) \/ Refuse(p) \/ Fail(p)
      BY <3>1 DEF ReadRecipient, DisconnectCommit, WriteAudit, Answer, Refuse, Fail
    <3> QED BY <2>4, <2>5, <3>1 DEF Serve
  <2>6. CASE \E p \in Processes : Boot(p) BY <2>6 DEF Boot
  <2>7. CASE \E p \in Processes : Serve(p) BY <2>1, <2>2, <2>5, <2>7
  <2>8. CASE \E j \in jobs : JobEnds(j) BY <2>8 DEF JobEnds
  <2>9. CASE \E m \in Connectable : Connect(m) BY <2>9 DEF Connect
  <2>10. CASE \E k \in Packages, to \in Fates : GrantMoves(k, to) BY <2>3, <2>10
  <2>11. CASE UNCHANGED vars BY <2>11 DEF vars
  <2> QED BY <2>6, <2>7, <2>8, <2>9, <2>10, <2>11 DEF Next
<1> DEFINE Same(p) == req'[p].op = req[p].op /\ req'[p].about = req[p].about /\ req'[p].prior = req[p].prior
           Fresh(p) == /\ req'[p].op \in {"revoke", "end"} => pkg[req'[p].about].status # "draft" /\ req'[p].about \in Packages
                       /\ req'[p].prior \subseteq {k \in Packages : pkg[k].status # "draft"}
<1>2. \A p \in Processes : req[p] \in Request /\ Aimed(req[p]) BY DEF TypeOK, AllAimed
<1>3. ASSUME NEW p \in Processes, NEW q \in Processes, Serve(q) PROVE Same(p) \/ Fresh(p)
  <2>1. CASE req'[p] = req[p] BY <2>1
  <2>2. CASE req'[p] = Idle BY <2>2, GovernanceConstants DEF Idle
  <2>3. ASSUME NEW u, NEW op, NEW k \in Packages \cup Mailboxes, NEW status, Begins(q, u, op, k, status),
               op \in {"revoke", "end"} => k \in Packages /\ pkg[k].status # "draft"
        PROVE  Same(p) \/ Fresh(p)
    <3>1. req'[p] = IF p = q THEN [Idle EXCEPT !.at = "read", !.op = op, !.who = u, !.about = k, !.status = status]
                    ELSE req[p]
      BY <2>3 DEF Begins, TypeOK
    <3> QED BY <2>3, <3>1 DEF Idle
  <2>4. ASSUME NEW u \in Principals, Ask(q, u) PROVE Same(p) \/ Fresh(p)
    <3>1. ASSUME NEW k \in Packages, ReadPackage(q, u, k) \/ RevokeRead(q, u, k) \/ EndRead(q, u, k)
          PROVE  Same(p) \/ Fresh(p)
      BY <2>3, <3>1 DEF ReadPackage, RevokeRead, EndRead
    <3>2. ASSUME NEW k \in Packages, PublishRead(q, u, k) PROVE Same(p) \/ Fresh(p)
      <4> DEFINE old == {x \in Packages \ {k} : MailboxOf[x] = MailboxOf[k] /\ pkg[x].status = "published"}
      <4>1. req'[p] = IF p = q THEN [Idle EXCEPT !.at = "read", !.op = "publish", !.who = u, !.about = k,
                                                 !.status = "draft", !.prior = old]
                      ELSE req[p]
        BY <3>2 DEF PublishRead, TypeOK
      <4>2. old \subseteq {x \in Packages : pkg[x].status # "draft"} OBVIOUS
      <4> HIDE DEF old
      <4> QED BY <4>1, <4>2 DEF Idle
    <3>3. ASSUME NEW m \in Mailboxes, DisconnectRead(q, u, m) PROVE Same(p) \/ Fresh(p)
      BY <2>3, <3>3 DEF DisconnectRead
    <3>4. ASSUME NEW m \in Mailboxes, Enqueue(q, u, m) PROVE Same(p) \/ Fresh(p)
      BY <3>4 DEF Enqueue
    <3> QED BY <2>4, <3>1, <3>2, <3>3, <3>4
      DEF Ask, EnqueueIngest, EnqueueEnrich, EnqueueExtract, EnqueueBackfill, EnqueueMaterialize
  <2>5. CASE ReadRecipient(q) \/ RevokeCommit(q) \/ PublishCommit(q) \/ DisconnectCommit(q)
    BY <1>2, <2>5 DEF ReadRecipient, RevokeCommit, PublishCommit, DisconnectCommit, Owes, TypeOK, Request
  <2>6. CASE WriteAudit(q)
    <3>1. \/ req' = [req EXCEPT ![q] = Idle]
          \/ \E left : req' = [req EXCEPT ![q] = [@ EXCEPT !.owes = left]]
          \/ req' = [req EXCEPT ![q] = [@ EXCEPT !.at = "read", !.owes = {}]]
      BY <2>6 DEF WriteAudit
    <3>2. CASE req' = [req EXCEPT ![q] = Idle] BY <2>1, <2>2, <3>2 DEF TypeOK
    <3>3. ASSUME NEW left, req' = [req EXCEPT ![q] = [@ EXCEPT !.owes = left]] PROVE Same(p)
      BY <1>2, <3>3 DEF TypeOK, Request
    <3>4. CASE req' = [req EXCEPT ![q] = [@ EXCEPT !.at = "read", !.owes = {}]]
      BY <1>2, <3>4 DEF TypeOK, Request
    <3> QED BY <3>1, <3>2, <3>3, <3>4
  <2>7. CASE Answer(q) \/ Refuse(q) \/ Fail(q) BY <2>1, <2>2, <2>7 DEF Answer, Refuse, Fail, TypeOK
  <2> QED BY <1>3, <2>4, <2>5, <2>6, <2>7 DEF Serve
<1>4. ASSUME NEW p \in Processes PROVE Same(p) \/ Fresh(p)
  <2>1. req' = req \/ \E q \in Processes : Serve(q)
    BY DEF Next, Boot, JobEnds, Connect, GrantMoves, vars
  <2> QED BY <1>3, <2>1
<1>5. \A p \in Processes : /\ req[p].op \in {"revoke", "end"} => req[p].about \in Packages
                           /\ req[p].prior \subseteq Packages
  BY <1>2 DEF Aimed, Request
<1> QED BY <1>1, <1>4, <1>5 DEF PastDraft

Audited == /\ \A k \in Packages : pkg[k].status # "draft" => Recorded(k)
           /\ \A m \in Connectable : account[m] = "disconnected" =>
                [what |-> "disconnected", about |-> m] \in Known

\* A step that changes no row, and loses none that is known.
LEMMA QuietAudit ==
  ASSUME Audited, Known \subseteq Known', UNCHANGED <<pkg, account>> PROVE Audited'
  BY DEF Audited, Recorded

LEMMA AskKeepsAudit ==
  ASSUME TypeOK, OnlyOwersOwe, Audited, NEW p \in Processes, NEW u \in Principals, Ask(p, u)
  PROVE  OnlyOwersOwe' /\ Audited'
<1> USE DEF rows
<1>1. ASSUME NEW r, Free(p), r.at = "read", r.owes = {}, req' = [req EXCEPT ![p] = r],
             UNCHANGED <<rows, trail, lost>>
      PROVE  OnlyOwersOwe' /\ Audited'
  <2>1. req[p].owes = {} BY <1>1 DEF Free, Idle
  <2>2. Known \subseteq Known' /\ OnlyOwersOwe' BY <1>1, <2>1, KnownStays
  <2> QED BY <1>1, <2>2, QuietAudit
<1>2. ASSUME NEW op, NEW k, NEW status, Free(p), Begins(p, u, op, k, status),
             UNCHANGED <<rows, trail, lost>>
      PROVE  OnlyOwersOwe' /\ Audited'
  <2> DEFINE r == [Idle EXCEPT !.at = "read", !.op = op, !.who = u, !.about = k, !.status = status]
  <2>1. r.at = "read" /\ r.owes = {} BY DEF Idle
  <2>2. req' = [req EXCEPT ![p] = r] BY <1>2 DEF Begins
  <2> HIDE DEF r
  <2> QED BY <1>1, <1>2, <2>1, <2>2
<1>3. ASSUME NEW k \in Packages, PublishRead(p, u, k) PROVE OnlyOwersOwe' /\ Audited'
  <2> DEFINE old == {q \in Packages \ {k} : MailboxOf[q] = MailboxOf[k] /\ pkg[q].status = "published"}
             r == [Idle EXCEPT !.at = "read", !.op = "publish", !.who = u, !.about = k,
                               !.status = "draft", !.prior = old]
  <2>1. r.at = "read" /\ r.owes = {}
    <3> HIDE DEF old
    <3> QED BY DEF Idle
  <2>2. req' = [req EXCEPT ![p] = r] BY <1>3 DEF PublishRead
  <2> HIDE DEF r
  <2> QED BY <1>1, <1>3, <2>1, <2>2 DEF PublishRead
<1>4. ASSUME NEW m \in Mailboxes, Enqueue(p, u, m) PROVE OnlyOwersOwe' /\ Audited'
  BY <1>4, QuietAudit DEF Enqueue, Known, OwedBy, OnlyOwersOwe
<1> QED BY <1>2, <1>3, <1>4
     DEF Ask, ReadPackage, RevokeRead, EndRead, DisconnectRead,
         EnqueueIngest, EnqueueEnrich, EnqueueExtract, EnqueueBackfill, EnqueueMaterialize

LEMMA ServeKeepsAudit ==
  ASSUME TypeOK, AllAimed, PastDraft, OnlyOwersOwe, Audited, NEW p \in Processes, Serve(p)
  PROVE  OnlyOwersOwe' /\ Audited'
<1> USE DEF rows
<1>r. req[p] \in Request /\ Aimed(req[p]) BY DEF TypeOK, AllAimed
<1>o. req[p].at # "owes" => req[p].owes = {} BY DEF OnlyOwersOwe
<1>i. Idle.owes = {} /\ Idle.at = "idle" BY DEF Idle
<1>1. CASE \E u \in Principals : Ask(p, u) BY <1>1, AskKeepsAudit
<1>2. CASE ReadRecipient(p)
  <2> DEFINE s == [kind |-> "detail", about |-> {req[p].about}, full |-> FullAccess(req[p].who),
                   status |-> req[p].status, recipient |-> pkg[req[p].about].grant]
             r == [req[p] EXCEPT !.at = "answers", !.sight = s]
  <2>1. req' = [req EXCEPT ![p] = r] BY <1>2 DEF ReadRecipient, TypeOK
  <2>2. req[p].at = "read" BY <1>2 DEF ReadRecipient, Serves
  <2>3. r.at = "answers" /\ r.owes = {}
    <3> HIDE DEF s
    <3> QED BY <1>r, <1>o, <2>2 DEF Request
  <2> HIDE DEF r
  <2> QED BY <1>2, <1>o, <2>1, <2>2, <2>3, KnownStays, QuietAudit DEF ReadRecipient
<1>3. CASE RevokeCommit(p)
  <2> DEFINE k == req[p].about
             x == [what |-> "revoked", about |-> k]
             r == [req[p] EXCEPT !.at = "owes", !.status = "revoked", !.owes = {x}]
  <2>1. req' = [req EXCEPT ![p] = r] BY <1>3 DEF RevokeCommit, TypeOK
  <2>2. req[p].at = "read" /\ k \in Packages BY <1>3, <1>r DEF RevokeCommit, Serves, Aimed
  <2>3. r.at = "owes" /\ r.owes = {x} BY <1>r DEF Request
  <2> HIDE DEF r
  <2>4. Known \subseteq Known' /\ OnlyOwersOwe' /\ x \in Known'
    BY <1>3, <1>o, <2>1, <2>2, <2>3, KnownStays DEF RevokeCommit
  <2>5. \A q \in Packages : pkg'[q] = IF q = k THEN [status |-> "revoked", grant |-> "revoked"] ELSE pkg[q]
    BY <1>3, <2>2 DEF RevokeCommit, TypeOK
  <2>6. Overridden(k) \subseteq Known BY <1>3, <2>2 DEF RevokeCommit, Serves, PastDraft, Audited, Recorded
  <2>7. ASSUME NEW q \in Packages, pkg'[q].status # "draft" PROVE Recorded(q)'
    BY <2>4, <2>5, <2>6, <2>7 DEF Audited, Recorded
  <2> QED BY <1>3, <2>4, <2>7 DEF Audited, RevokeCommit
<1>4. CASE PublishCommit(p)
  <2> DEFINE k == req[p].about
             old == req[p].prior
             owed == {[what |-> "published", about |-> k]} \cup Overridden(k)
                     \cup {[what |-> "superseded", about |-> q] : q \in old}
             r == [req[p] EXCEPT !.at = "owes", !.owes = owed]
  <2>1. req' = [req EXCEPT ![p] = r] BY <1>4 DEF PublishCommit, Owes, TypeOK
  <2>2. req[p].at = "read" BY <1>4 DEF PublishCommit, Serves
  <2>3. r.at = "owes" /\ r.owes = owed
    <3> HIDE DEF owed
    <3> QED BY <1>r DEF Request
  <2> HIDE DEF r
  <2>4. Known \subseteq Known' /\ OnlyOwersOwe' /\ owed \subseteq Known'
    BY <1>4, <1>o, <2>1, <2>2, <2>3, KnownStays DEF PublishCommit
  <2>5. \A q \in Packages : pkg'[q] =
          IF q = k THEN [status |-> "published", grant |-> "granted"]
          ELSE IF q \in old THEN [status |-> "superseded", grant |-> "revoked"] ELSE pkg[q]
    BY <1>4 DEF PublishCommit
  <2>6. ASSUME NEW q \in Packages, pkg'[q].status # "draft"
        PROVE  {[what |-> pkg'[q].status, about |-> q]} \cup Overridden(q) \subseteq Known'
    <3>1. CASE q = k BY <2>4, <2>5, <3>1
    <3>2. CASE q # k /\ q \in old
      <4>1. Overridden(q) \subseteq Known BY <3>2 DEF PastDraft, Audited, Recorded
      <4> QED BY <2>4, <2>5, <3>2, <4>1
    <3>3. CASE q # k /\ q \notin old BY <2>4, <2>5, <2>6, <3>3 DEF Audited, Recorded
    <3> QED BY <3>1, <3>2, <3>3
  <2>7. \A q \in Packages : pkg'[q].status # "draft" => Recorded(q)' BY <2>6 DEF Recorded
  <2> QED BY <1>4, <2>4, <2>7 DEF Audited, PublishCommit
<1>5. CASE DisconnectCommit(p)
  <2> DEFINE m == req[p].about
             x == [what |-> "disconnected", about |-> m]
             r == [req[p] EXCEPT !.at = "owes", !.owes = {x}]
  <2>1. req' = [req EXCEPT ![p] = r] BY <1>5 DEF DisconnectCommit, Owes, TypeOK
  <2>2. req[p].at = "read" /\ m \in Connectable BY <1>5, <1>r DEF DisconnectCommit, Serves, Aimed
  <2>3. r.at = "owes" /\ r.owes = {x} BY <1>r DEF Request
  <2> HIDE DEF r
  <2>4. Known \subseteq Known' /\ OnlyOwersOwe' /\ x \in Known'
    BY <1>5, <1>o, <2>1, <2>2, <2>3, KnownStays DEF DisconnectCommit
  <2>5. \A n \in Connectable : account'[n] = IF n = m THEN "disconnected" ELSE account[n]
    BY <1>5, <2>2 DEF DisconnectCommit, TypeOK
  <2> QED BY <1>5, <2>4, <2>5 DEF Audited, Recorded, DisconnectCommit
<1>6. CASE WriteAudit(p)
  <2>1. PICK x \in req[p].owes :
          /\ trail' = trail \cup {x}
          /\ req' = [req EXCEPT ![p] =
                IF req[p].owes \ {x} # {} THEN [req[p] EXCEPT !.owes = req[p].owes \ {x}]
                ELSE IF req[p].op = "revoke" THEN [req[p] EXCEPT !.at = "read", !.owes = {}]
                ELSE Idle]
    BY <1>6 DEF WriteAudit, TypeOK
  <2> DEFINE left == req[p].owes \ {x}
             r == IF left # {} THEN [req[p] EXCEPT !.owes = left]
                  ELSE IF req[p].op = "revoke" THEN [req[p] EXCEPT !.at = "read", !.owes = {}]
                  ELSE Idle
  <2>2. req' = [req EXCEPT ![p] = r] BY <2>1
  <2>3. r.owes = left /\ (r.at # "owes" => r.owes = {})
    BY <1>6, <1>r, <1>i DEF WriteAudit, Request
  <2>4. req[p].owes \subseteq left \cup trail' BY <2>1
  <2> HIDE DEF r
  <2>5. trail \subseteq trail' BY <2>1
  <2> QED BY <1>6, <2>2, <2>3, <2>4, <2>5, KnownStays, QuietAudit DEF WriteAudit
<1>7. CASE Answer(p)
  BY <1>7, <1>o, <1>i, KnownStays, QuietAudit DEF Answer
<1>8. CASE Refuse(p)
  BY <1>8, <1>o, <1>i, KnownStays, QuietAudit DEF Refuse
<1>9. CASE Fail(p)
  BY <1>9, <1>i, KnownStays, QuietAudit DEF Fail
<1> QED BY <1>1, <1>2, <1>3, <1>4, <1>5, <1>6, <1>7, <1>8, <1>9 DEF Serve

LEMMA ConnectKeepsAudit ==
  ASSUME TypeOK, OnlyOwersOwe, Audited, NEW m \in Connectable, Connect(m)
  PROVE  OnlyOwersOwe' /\ Audited'
<1>1. \A x \in Known : x.about # m => x \in Known' BY DEF Connect, Known, OwedBy, Without
<1>2. \A k \in Packages : k # m BY GovernanceConstants
<1>3. \A k \in Packages : pkg'[k].status # "draft" => Recorded(k)'
  <2> SUFFICES ASSUME NEW k \in Packages, pkg'[k].status # "draft" PROVE Recorded(k)' OBVIOUS
  <2>1. {[what |-> pkg[k].status, about |-> k]} \cup Overridden(k) \subseteq Known
    BY DEF Connect, Audited, Recorded, rows
  <2>2. \A x \in Overridden(k) : x.about = k BY DEF Overridden
  <2>3. Overridden(k) \subseteq Known' BY <1>1, <1>2, <2>1, <2>2
  <2> QED BY <1>1, <1>2, <2>1, <2>3 DEF Connect, Recorded
<1>4. \A n \in Connectable : account'[n] = "disconnected" => n # m /\ account[n] = "disconnected"
  BY DEF Connect, TypeOK
<1>5. \A n \in Connectable : account'[n] = "disconnected" =>
         [what |-> "disconnected", about |-> n] \in Known'
  BY <1>1, <1>4 DEF Audited
<1> QED BY <1>3, <1>5 DEF Audited, OnlyOwersOwe, Connect

LEMMA NextKeepsAudit ==
  ASSUME TypeOK, AllAimed, PastDraft, OnlyOwersOwe, Audited, [Next]_vars
  PROVE  OnlyOwersOwe' /\ Audited'
<1> USE DEF rows, Known, OwedBy, OnlyOwersOwe
<1>1. ASSUME NEW p \in Processes, Boot(p) PROVE OnlyOwersOwe' /\ Audited'
  BY <1>1, QuietAudit DEF Boot
<1>2. ASSUME NEW j \in jobs, JobEnds(j) PROVE OnlyOwersOwe' /\ Audited'
  BY <1>2, QuietAudit DEF JobEnds
<1>4. ASSUME NEW k \in Packages, NEW to \in Fates, GrantMoves(k, to) PROVE OnlyOwersOwe' /\ Audited'
  <2>1. \A q \in Packages : pkg'[q].status = pkg[q].status
    BY <1>4 DEF GrantMoves, TypeOK, Package
  <2> QED BY <1>4, <2>1 DEF GrantMoves, Audited, Recorded
<1>5. CASE UNCHANGED vars BY <1>5, QuietAudit DEF vars
<1> QED BY <1>1, <1>2, <1>4, <1>5, ConnectKeepsAudit, ServeKeepsAudit DEF Next

\* Whatever requests fail and however processes interleave, what a publish, a revoke or a
\* disconnect has changed has its audit row, or a request that owes it or has failed to
\* write it.
THEOREM AuditHolds == Spec => []AuditIsComplete
<1>1. Init => PastDraft /\ OnlyOwersOwe /\ Audited
  BY GovernanceConstants DEF Init, PastDraft, OnlyOwersOwe, Audited, Idle
<1>2. TypeOK /\ AllAimed /\ PastDraft /\ OnlyOwersOwe /\ Audited /\ [Next]_vars
        => (PastDraft /\ OnlyOwersOwe /\ Audited)'
  BY NextKeepsPastDraft, NextKeepsAudit
<1>3. Audited => AuditIsComplete BY DEF Audited, Recorded, Known, OwedBy, AuditIsComplete
<1> QED BY <1>1, <1>2, <1>3, Typed, PTL DEF Spec

(***************************************************************************)
(* The views.  A package that has ended has a revoked grant and keeps it;  *)
(* one that is or was published has a grant.  A detail or an               *)
(* administrator's revoke remembers a status, and the grant can since have *)
(* moved only towards revoked.  Jobs carry another tenant than their       *)
(* mailbox only where the synthetic principal asks.                        *)
(***************************************************************************)
Ended == {"revoked", "superseded"}
Fits(status, grant) == /\ status \in Ended => grant = "revoked"
                       /\ status = "published" => grant # None
RowsFit == \A k \in Packages : Fits(pkg[k].status, pkg[k].grant)

\* What a request has read and what it will show, beside the rows pk.
Reads(r, pk, us) == /\ r.who # None => r.who \in us
                    /\ r.op \in {"detail", "revoke"} =>
                         Within(r.about, r.who) /\ Fits(r.status, pk[r.about].grant)
                    /\ r.sight # None =>
                         /\ Own(r.who, r.sight)
                         /\ r.sight.kind = "detail" => Fits(r.sight.status, r.sight.recipient)
AllRead == \A p \in Processes : Reads(req[p], pkg, Principals)

Booted == up # {} => \E d : MayStart(env, d)
JobsAreOwn == "dev auth" \notin env => \A j \in jobs : j.tenant = TenantOf[j.mailbox]
ViewInv == RowsFit /\ AllRead /\ Booted /\ JobsAreOwn

\* Grants only move towards revoked.
Onward == \A k \in Packages : /\ pkg[k].grant = "revoked" => pkg'[k].grant = "revoked"
                              /\ pkg[k].grant # None => pkg'[k].grant # None

LEMMA ReadsStay ==
  ASSUME Onward, env' = env, NEW r, Aimed(r), Reads(r, pkg, Principals)
  PROVE  Reads(r, pkg', Principals')
<1>1. Principals' = Principals BY DEF Principals
<1>2. r.op \in {"detail", "revoke"} => r.about \in Packages BY DEF Aimed
<1>3. r.op \in {"detail", "revoke"} => Fits(r.status, pkg'[r.about].grant)
  BY <1>2 DEF Reads, Fits, Onward
<1> QED BY <1>1, <1>3 DEF Reads

\* A step of one process that moves grants onwards.
LEMMA OneReads ==
  ASSUME TypeOK, AllAimed, AllRead, Onward, env' = env, NEW p \in Processes, NEW r,
         Reads(r, pkg', Principals'), req' = [req EXCEPT ![p] = r]
  PROVE  AllRead'
<1>1. \A q \in Processes : Reads(req[q], pkg', Principals') BY ReadsStay DEF AllRead, AllAimed
<1>2. \A q \in Processes : req'[q] = IF q = p THEN r ELSE req[q] BY DEF TypeOK
<1>3. \A q \in Processes : Reads(req'[q], pkg', Principals') BY <1>1, <1>2
<1> QED BY <1>3 DEF AllRead

LEMMA AskKeepsViews ==
  ASSUME TypeOK, AllAimed, ViewInv, NEW p \in Processes, NEW u \in Principals, Ask(p, u)
  PROVE  ViewInv'
<1> USE DEF rows
<1>n. u # None BY PrincipalsAreKnown, GovernanceConstants
<1>i. Idle.sight = None BY DEF Idle
<1>1. ASSUME NEW r, r.who = u, r.sight = None,
             r.op \in {"detail", "revoke"} => Within(r.about, u) /\ Fits(r.status, pkg[r.about].grant),
             req' = [req EXCEPT ![p] = r], UNCHANGED <<env, up, rows>>
      PROVE  ViewInv'
  <2>1. Principals' = Principals BY <1>1 DEF Principals
  <2>2. Reads(r, pkg', Principals') BY <1>1, <2>1 DEF Reads
  <2>3. Onward BY <1>1 DEF Onward
  <2>4. AllRead' BY <1>1, <2>2, <2>3, OneReads DEF ViewInv
  <2> QED BY <1>1, <2>4 DEF ViewInv, RowsFit, Booted, JobsAreOwn
<1>2. ASSUME NEW op, NEW k, NEW status, Begins(p, u, op, k, status),
             op \in {"detail", "revoke"} => Within(k, u) /\ Fits(status, pkg[k].grant),
             UNCHANGED <<env, up, rows>>
      PROVE  ViewInv'
  <2> DEFINE r == [Idle EXCEPT !.at = "read", !.op = op, !.who = u, !.about = k, !.status = status]
  <2>1. r.who = u /\ r.sight = None /\ r.op = op /\ r.about = k /\ r.status = status BY DEF Idle
  <2>2. req' = [req EXCEPT ![p] = r] BY <1>2 DEF Begins
  <2> HIDE DEF r
  <2> QED BY <1>1, <1>2, <2>1, <2>2
<1>f. \A k \in Packages : Fits(pkg[k].status, pkg[k].grant) BY DEF ViewInv, RowsFit
<1>3. ASSUME NEW k \in Packages, ReadPackage(p, u, k) PROVE ViewInv'
  BY <1>2, <1>3, <1>f DEF ReadPackage
<1>4. ASSUME NEW k \in Packages, RevokeRead(p, u, k) PROVE ViewInv'
  BY <1>2, <1>4, <1>f DEF RevokeRead
<1>5. ASSUME NEW k \in Packages, EndRead(p, u, k) PROVE ViewInv'
  BY <1>2, <1>5 DEF EndRead
<1>6. ASSUME NEW k \in Packages, PublishRead(p, u, k) PROVE ViewInv'
  <2> DEFINE old == {q \in Packages \ {k} : MailboxOf[q] = MailboxOf[k] /\ pkg[q].status = "published"}
             r == [Idle EXCEPT !.at = "read", !.op = "publish", !.who = u, !.about = k,
                               !.status = "draft", !.prior = old]
  <2>1. r.who = u /\ r.sight = None /\ r.op = "publish"
    <3> HIDE DEF old
    <3> QED BY DEF Idle
  <2>2. req' = [req EXCEPT ![p] = r] BY <1>6 DEF PublishRead
  <2> HIDE DEF r
  <2> QED BY <1>1, <1>6, <2>1, <2>2 DEF PublishRead
<1>7. ASSUME NEW m \in Mailboxes, Enqueue(p, u, m) PROVE ViewInv'
  <2>1. "dev auth" \notin env => TenantOf[u] = TenantOf[m]
    BY <1>7, GovernanceConstants DEF Enqueue, Owns, Principals
  <2>2. JobsAreOwn'
    <3>1. \A j \in jobs' : j \in jobs \/ (j.mailbox = m /\ j.tenant = TenantOf[u])
      BY <1>7 DEF Enqueue
    <3>2. env' = env BY <1>7 DEF Enqueue
    <3> QED BY <2>1, <3>1, <3>2 DEF JobsAreOwn, ViewInv
  <2>3. AllRead' BY <1>7 DEF Enqueue, AllRead, ViewInv, Principals
  <2> QED BY <1>7, <2>2, <2>3 DEF Enqueue, ViewInv, RowsFit, Booted
<1>8. ASSUME NEW m \in Mailboxes, DisconnectRead(p, u, m) PROVE ViewInv'
  BY <1>2, <1>8 DEF DisconnectRead
<1> QED BY <1>3, <1>4, <1>5, <1>6, <1>7, <1>8
     DEF Ask, EnqueueIngest, EnqueueEnrich, EnqueueExtract, EnqueueBackfill, EnqueueMaterialize

LEMMA ServeKeepsViews ==
  ASSUME TypeOK, AllAimed, ViewInv, NEW p \in Processes, Serve(p) PROVE ViewInv'
<1> USE DEF rows
<1>r. req[p] \in Request /\ Aimed(req[p]) /\ Reads(req[p], pkg, Principals)
  BY DEF TypeOK, AllAimed, ViewInv, AllRead
<1>p. env' = env => Principals' = Principals BY DEF Principals
<1>v. ASSUME NEW r, Reads(r, pkg', Principals'), req' = [req EXCEPT ![p] = r],
             UNCHANGED <<env, up, jobs>>, Onward, RowsFit'
      PROVE  ViewInv'
  BY <1>v, OneReads DEF ViewInv, Booted, JobsAreOwn
<1>o. pkg' = pkg => Onward /\ RowsFit' BY DEF Onward, RowsFit, ViewInv
<1>i. Reads(Idle, pkg', Principals') BY GovernanceConstants DEF Reads, Idle
<1>1. CASE \E u \in Principals : Ask(p, u) BY <1>1, AskKeepsViews
<1>2. CASE ReadRecipient(p)
  <2> DEFINE k == req[p].about
             s == [kind |-> "detail", about |-> {k}, full |-> FullAccess(req[p].who),
                   status |-> req[p].status, recipient |-> pkg[k].grant]
             r == [req[p] EXCEPT !.at = "answers", !.sight = s]
  <2>1. req' = [req EXCEPT ![p] = r] BY <1>2 DEF ReadRecipient, TypeOK
  <2>2. req[p].op \in {"detail", "revoke"} BY <1>2 DEF ReadRecipient, Serves
  <2>3. k \in Packages /\ Within(k, req[p].who) /\ Fits(req[p].status, pkg[k].grant)
    BY <1>r, <2>2 DEF Aimed, Reads
  <2>4. Own(req[p].who, s) /\ Fits(s.status, s.recipient) BY <2>3 DEF Own, FullAccess
  <2>5. r.who = req[p].who /\ r.op = req[p].op /\ r.about = k /\ r.status = req[p].status /\ r.sight = s
    <3> HIDE DEF s
    <3> QED BY <1>r DEF Request
  <2>6. UNCHANGED <<env, up, pkg, jobs>> BY <1>2 DEF ReadRecipient
  <2>7. Reads(r, pkg', Principals')
    <3> HIDE DEF r, s
    <3> QED BY <1>r, <1>p, <2>4, <2>5, <2>6 DEF Reads
  <2> HIDE DEF r
  <2> QED BY <1>v, <1>o, <2>1, <2>6, <2>7
<1>3. CASE RevokeCommit(p)
  <2> DEFINE k == req[p].about
             r == [req[p] EXCEPT !.at = "owes", !.status = "revoked",
                                 !.owes = {[what |-> "revoked", about |-> k]}]
  <2>1. req' = [req EXCEPT ![p] = r] BY <1>3 DEF RevokeCommit, TypeOK
  <2>2. k \in Packages BY <1>3, <1>r DEF RevokeCommit, Serves, Aimed
  <2>3. \A q \in Packages : pkg'[q] = IF q = k THEN [status |-> "revoked", grant |-> "revoked"] ELSE pkg[q]
    BY <1>3, <2>2 DEF RevokeCommit, TypeOK
  <2>4. Onward BY <2>3, GovernanceConstants DEF Onward
  <2>5. RowsFit' BY <2>3, GovernanceConstants DEF RowsFit, Fits, Ended, ViewInv
  <2>6. UNCHANGED <<env, up, jobs>> BY <1>3 DEF RevokeCommit
  <2>7. r.who = req[p].who /\ r.op = req[p].op /\ r.about = k /\ r.status = "revoked" /\ r.sight = req[p].sight
    BY <1>r DEF Request
  <2>8. Fits("revoked", pkg'[k].grant) BY <2>2, <2>3, GovernanceConstants DEF Fits, Ended
  <2>9. Reads(r, pkg', Principals')
    <3> HIDE DEF r
    <3> QED BY <1>r, <1>p, <2>6, <2>7, <2>8 DEF Reads
  <2> HIDE DEF r
  <2> QED BY <1>v, <2>1, <2>4, <2>5, <2>6, <2>9
<1>4. CASE PublishCommit(p)
  <2> DEFINE k == req[p].about
             old == req[p].prior
             owed == {[what |-> "published", about |-> k]} \cup Overridden(k)
                     \cup {[what |-> "superseded", about |-> q] : q \in old}
             r == [req[p] EXCEPT !.at = "owes", !.owes = owed]
  <2>1. req' = [req EXCEPT ![p] = r] BY <1>4 DEF PublishCommit, Owes, TypeOK
  <2>2. req[p].op = "publish" /\ pkg[k].grant = None BY <1>4 DEF PublishCommit, Serves
  <2>3. \A q \in Packages : pkg'[q] =
          IF q = k THEN [status |-> "published", grant |-> "granted"]
          ELSE IF q \in old THEN [status |-> "superseded", grant |-> "revoked"] ELSE pkg[q]
    BY <1>4 DEF PublishCommit
  <2>4. Onward BY <2>2, <2>3, GovernanceConstants DEF Onward
  <2>5. RowsFit' BY <2>3, GovernanceConstants DEF RowsFit, Fits, Ended, ViewInv
  <2>6. UNCHANGED <<env, up, jobs>> BY <1>4 DEF PublishCommit
  <2>7. r.who = req[p].who /\ r.op = "publish" /\ r.sight = req[p].sight
    <3> HIDE DEF owed
    <3> QED BY <1>r, <2>2 DEF Request
  <2>8. Reads(r, pkg', Principals')
    <3> HIDE DEF r
    <3> QED BY <1>r, <1>p, <2>6, <2>7 DEF Reads
  <2> HIDE DEF r
  <2> QED BY <1>v, <2>1, <2>4, <2>5, <2>6, <2>8
<1>5. CASE DisconnectCommit(p)
  <2> DEFINE r == [req[p] EXCEPT !.at = "owes", !.owes = {[what |-> "disconnected", about |-> req[p].about]}]
  <2>1. req' = [req EXCEPT ![p] = r] BY <1>5 DEF DisconnectCommit, Owes, TypeOK
  <2>2. UNCHANGED <<env, up, pkg, jobs>> BY <1>5 DEF DisconnectCommit
  <2>3. r.who = req[p].who /\ r.op = req[p].op /\ r.about = req[p].about /\ r.status = req[p].status
        /\ r.sight = req[p].sight
    BY <1>r DEF Request
  <2>4. Reads(r, pkg', Principals')
    <3> HIDE DEF r
    <3> QED BY <1>r, <1>p, <2>2, <2>3 DEF Reads
  <2> HIDE DEF r
  <2> QED BY <1>v, <1>o, <2>1, <2>2, <2>4
<1>6. CASE WriteAudit(p)
  <2>1. PICK x \in req[p].owes :
          req' = [req EXCEPT ![p] =
                IF req[p].owes \ {x} # {} THEN [req[p] EXCEPT !.owes = req[p].owes \ {x}]
                ELSE IF req[p].op = "revoke" THEN [req[p] EXCEPT !.at = "read", !.owes = {}]
                ELSE Idle]
    BY <1>6 DEF WriteAudit, TypeOK
  <2> DEFINE left == req[p].owes \ {x}
             r == IF left # {} THEN [req[p] EXCEPT !.owes = left]
                  ELSE IF req[p].op = "revoke" THEN [req[p] EXCEPT !.at = "read", !.owes = {}]
                  ELSE Idle
  <2>2. req' = [req EXCEPT ![p] = r] BY <2>1
  <2>3. UNCHANGED <<env, up, pkg, jobs>> BY <1>6 DEF WriteAudit
  <2>4. r # Idle => /\ r.who = req[p].who /\ r.op = req[p].op /\ r.about = req[p].about
                    /\ r.status = req[p].status /\ r.sight = req[p].sight
    BY <1>r DEF Request
  <2>5. Reads(r, pkg', Principals')
    <3> HIDE DEF r
    <3>1. CASE r = Idle BY <1>i, <3>1
    <3>2. CASE r # Idle BY <1>r, <1>p, <2>3, <2>4, <3>2 DEF Reads
    <3> QED BY <3>1, <3>2
  <2> HIDE DEF r
  <2> QED BY <1>v, <1>o, <2>2, <2>3, <2>5
<1>7. CASE Answer(p) BY <1>7, <1>v, <1>o, <1>i DEF Answer
<1>8. CASE Refuse(p) BY <1>8, <1>v, <1>o, <1>i DEF Refuse
<1>9. CASE Fail(p) BY <1>9, <1>v, <1>o, <1>i DEF Fail
<1> QED BY <1>1, <1>2, <1>3, <1>4, <1>5, <1>6, <1>7, <1>8, <1>9 DEF Serve

LEMMA NextKeepsViews ==
  ASSUME TypeOK, AllAimed, ViewInv, [Next]_vars PROVE ViewInv'
<1> USE DEF rows
<1>s. UNCHANGED <<env, pkg, req>> => RowsFit' /\ AllRead'
  BY DEF ViewInv, RowsFit, AllRead, Principals
<1>1. ASSUME NEW p \in Processes, Boot(p) PROVE ViewInv'
  BY <1>1, <1>s DEF Boot, ViewInv, Booted, JobsAreOwn
<1>2. ASSUME NEW j \in jobs, JobEnds(j) PROVE ViewInv'
  BY <1>2, <1>s DEF JobEnds, ViewInv, Booted, JobsAreOwn
<1>3. ASSUME NEW m \in Connectable, Connect(m) PROVE ViewInv'
  BY <1>3, <1>s DEF Connect, ViewInv, Booted, JobsAreOwn
<1>4. ASSUME NEW k \in Packages, NEW to \in Fates, GrantMoves(k, to) PROVE ViewInv'
  <2>1. \A q \in Packages : /\ pkg'[q].status = pkg[q].status
                            /\ pkg'[q].grant = IF q = k THEN to ELSE pkg[q].grant
    BY <1>4 DEF GrantMoves, TypeOK, Package
  <2>2. pkg[k].grant \in {"granted", "consumed"} /\ to # None /\ to # "revoked"
    BY <1>4, GovernanceConstants DEF GrantMoves
  <2>3. Onward BY <2>1, <2>2 DEF Onward
  <2>4. RowsFit' BY <2>1, <2>2 DEF RowsFit, Fits, ViewInv
  <2>5. UNCHANGED <<env, up, jobs, req>> BY <1>4 DEF GrantMoves
  <2>6. AllRead' BY <2>3, <2>5, ReadsStay DEF AllRead, AllAimed, ViewInv
  <2> QED BY <2>4, <2>5, <2>6 DEF ViewInv, Booted, JobsAreOwn
<1>5. CASE UNCHANGED vars BY <1>5, <1>s DEF vars, ViewInv, Booted, JobsAreOwn
<1> QED BY <1>1, <1>2, <1>3, <1>4, <1>5, ServeKeepsViews DEF Next

\* A hosted process that has started runs without the synthetic principal.
LEMMA HostedIsClean ==
  ASSUME Hosted(env), NEW d, HostedFailures(env, d) = {}
  PROVE  /\ HostedFailures(env, "head") = {} /\ "dev auth" \notin env
         /\ \A e : HostedFailures(env, e) = DatabaseFailures(e) \cup QueueFailures(e)
<1> DEFINE parts == {AuthCauses, StoreCauses, OAuthCauses, OriginCauses, RecipientCauses}
           causes == UNION {Failed(c, env) : c \in parts}
<1>1. \A e : HostedFailures(env, e) = causes \cup DatabaseFailures(e) \cup QueueFailures(e)
  BY DEF HostedFailures
<1>2. causes = {}
  <2> HIDE DEF causes
  <2> QED BY <1>1
<1>3. Failed(AuthCauses, env) = {}
  <2>1. Failed(AuthCauses, env) \subseteq causes OBVIOUS
  <2> QED BY <1>2, <2>1
<1>4. "dev auth" \notin env
  <2>1. "auth_mode" \in DOMAIN AuthCauses /\ AuthCauses["auth_mode"] = {"dev auth"} BY DEF AuthCauses
  <2>2. AuthCauses["auth_mode"] \cap env = {} BY <1>3, <2>1 DEF Failed
  <2> QED BY <2>1, <2>2
<1>5. DatabaseFailures("head") = {} /\ QueueFailures("head") = {} BY DEF DatabaseFailures, QueueFailures
<1> HIDE DEF causes
<1> QED BY <1>1, <1>2, <1>4, <1>5

LEMMA DevStays == TypeOK /\ ViewInv => DevStaysLocal
<1> SUFFICES ASSUME TypeOK, ViewInv, Hosted(env), up # {}
             PROVE  /\ HostedFailures(env, "head") = {}
                    /\ \A p \in up : req[p].who # Dev
                    /\ \A d \in Databases : /\ Ready(env, d) <=> DatabaseFailures(d) = {}
                                            /\ PreflightFailures(env, d, TRUE) = {} => Ready(env, d)
  BY DEF DevStaysLocal
<1>1. PICK d : HostedFailures(env, d) = {} BY DEF ViewInv, Booted, MayStart
<1>2. /\ HostedFailures(env, "head") = {} /\ "dev auth" \notin env
      /\ \A e : HostedFailures(env, e) = DatabaseFailures(e) \cup QueueFailures(e)
  BY <1>1, HostedIsClean
<1>3. \A p \in up : req[p].who # Dev
  <2> SUFFICES ASSUME NEW p \in up PROVE req[p].who # Dev OBVIOUS
  <2>1. p \in Processes BY DEF TypeOK
  <2>2. req[p].who # None => req[p].who \in Principals BY <2>1 DEF ViewInv, AllRead, Reads
  <2> QED BY <1>2, <2>2, GovernanceConstants DEF Principals
<1>4. ASSUME NEW e \in Databases
      PROVE  /\ Ready(env, e) <=> DatabaseFailures(e) = {}
             /\ PreflightFailures(env, e, TRUE) = {} => DatabaseFailures(e) = {}
  <2>1. QueueFailures(e) # {} => DatabaseFailures(e) # {} BY DEF QueueFailures, DatabaseFailures
  <2>2. Ready(env, e) <=> DatabaseFailures(e) \cup QueueFailures(e) = {}
    BY <1>2 DEF Ready, ProductionIntent
  <2>3. PreflightFailures(env, e, TRUE) = {} => DatabaseFailures(e) = {} BY DEF PreflightFailures
  <2> QED BY <2>1, <2>2, <2>3
<1> QED BY <1>2, <1>3, <1>4

LEMMA SightsAre == TypeOK /\ ViewInv => SightsAreOwn
<1> SUFFICES ASSUME TypeOK, ViewInv PROVE SightsAreOwn OBVIOUS
<1>1. ASSUME NEW u \in Principals, NEW s \in Views(u) PROVE Own(u, s)
  <2>1. Admin(u) \in BOOLEAN BY DEF Admin
  <2>2. s.full = Admin(u) /\ (s.kind = "overview" => Admin(u))
    BY <2>1 DEF Views, View, FullAccess, PackagesShown, AuditShown, AccountsShown, JobsShown, OverviewShown
  <2>3. \/ s.about = {k \in Packages : Within(k, u)}
        \/ s.about = {m \in Connectable \cap TenantMailboxes(u) : account[m] # "absent"}
        \/ /\ s.kind = "jobs"
           /\ s.about = {j.mailbox : j \in {i \in jobs : i.tenant = TenantOf[u]}}
    BY DEF Views, View, PackagesShown, AuditShown, AccountsShown, JobsShown, OverviewShown
  <2>4. ASSUME NEW x \in s.about
        PROVE  IF x \in Packages THEN Within(x, u)
               ELSE TenantOf[x] = TenantOf[u] \/ (u = Dev /\ s.kind = "jobs")
    <3>1. CASE s.about = {k \in Packages : Within(k, u)} BY <2>4, <3>1
    <3>2. CASE s.about = {m \in Connectable \cap TenantMailboxes(u) : account[m] # "absent"}
      BY <2>4, <3>2, GovernanceConstants DEF TenantMailboxes
    <3>3. CASE s.kind = "jobs" /\ s.about = {j.mailbox : j \in {i \in jobs : i.tenant = TenantOf[u]}}
      <4>1. PICK j \in jobs : j.mailbox = x /\ j.tenant = TenantOf[u] BY <2>4, <3>3
      <4>2. x \in Mailboxes /\ x \notin Packages BY <4>1, GovernanceConstants DEF TypeOK, Job
      <4>3. u = Dev \/ "dev auth" \notin env BY DEF Principals
      <4> QED BY <3>3, <4>1, <4>2, <4>3 DEF ViewInv, JobsAreOwn
    <3> QED BY <2>3, <3>1, <3>2, <3>3
  <2> QED BY <2>2, <2>4 DEF Own
<1>2. ASSUME NEW p \in Processes, req[p].sight # None PROVE Own(req[p].who, req[p].sight)
  BY <1>2 DEF ViewInv, AllRead, Reads
<1> QED BY <1>1, <1>2 DEF SightsAreOwn

\* The administrator's views: no deployment that claims to be hosted serves the synthetic
\* principal, a view is of the caller's tenant and in full for administrators only, and a
\* detail read across other processes' commits agrees with itself.
THEOREM ViewsHold == Spec => []AdminViewsHold
<1>1. Init => ViewInv
  BY GovernanceConstants DEF Init, ViewInv, RowsFit, Fits, Ended, AllRead, Reads, Idle, Booted, JobsAreOwn
<1>2. TypeOK /\ AllAimed /\ ViewInv /\ [Next]_vars => ViewInv' BY NextKeepsViews
<1>3. ViewInv => DetailsAgree
  BY DEF ViewInv, AllRead, Reads, Fits, Ended, DetailsAgree
<1>4. TypeOK /\ ViewInv => AdminViewsHold BY <1>3, DevStays, SightsAre DEF AdminViewsHold
<1> QED BY <1>1, <1>2, <1>4, Typed, PTL DEF Spec
=============================================================================
