---------------------------- MODULE HandoffProofs -----------------------------
(***************************************************************************)
(* Theorems of HandoffLifecycle, for every set of packages, messages,      *)
(* requests and visitors.                                                  *)
(***************************************************************************)
EXTENDS HandoffLifecycle, TLAPS

\* A request that is not idle names a package.
OnPackage == \A c \in Requests : req[c].op # "idle" => req[c].pkg \in Packages

TypeInv == TypeOK /\ OnPackage

LEMMA Constants ==
  /\ Idle \in Request /\ Idle.op = "idle" /\ Idle.reading = FALSE
  /\ NoPackage \in Package /\ NoPackage.status = "absent" /\ NoPackage.lineage = None
  /\ NoGrant \in Grant /\ ~NoGrant.granted /\ ~NoGrant.consumed
  /\ ~NoGrant.revoked /\ ~NoGrant.expired
  BY DEF Idle, Request, Status, NoPackage, Package, NoGrant, Grant

\* Rows and requests keep their type when a column is written.
LEMMA StatusEdits ==
  ASSUME NEW r \in Package, NEW s \in Status
  PROVE  /\ [r EXCEPT !.status = s] \in Package
         /\ [r EXCEPT !.status = s].status = s
         /\ [r EXCEPT !.status = s].lineage = r.lineage
         /\ [r EXCEPT !.status = s].version = r.version
  BY DEF Package

LEMMA GrantEdits ==
  ASSUME NEW g \in Grant
  PROVE  /\ [g EXCEPT !.granted = TRUE] \in Grant
         /\ [g EXCEPT !.consumed = TRUE] \in Grant
         /\ [g EXCEPT !.revoked = TRUE] \in Grant
         /\ [g EXCEPT !.expired = TRUE] \in Grant
  BY DEF Grant

LEMMA OverEdits ==
  ASSUME TypeOK, NEW ps
  PROVE  Over(ps) \in [Packages -> [Visitors -> {"none", "live", "over"}]]
  BY DEF Over, TypeOK

LEMMA RequestEdits ==
  ASSUME NEW r \in Request, NEW v \in Nat, NEW ps \in SUBSET Packages
  PROVE  /\ [r EXCEPT !.reading = TRUE, !.version = v] \in Request
         /\ [r EXCEPT !.reading = TRUE, !.prior = ps] \in Request
         /\ [r EXCEPT !.reading = TRUE, !.version = v].op = r.op
         /\ [r EXCEPT !.reading = TRUE, !.version = v].pkg = r.pkg
         /\ [r EXCEPT !.reading = TRUE, !.version = v].prior = r.prior
         /\ [r EXCEPT !.reading = TRUE, !.version = v].version = v
         /\ [r EXCEPT !.reading = TRUE, !.version = v].reading
         /\ [r EXCEPT !.reading = TRUE, !.prior = ps].op = r.op
         /\ [r EXCEPT !.reading = TRUE, !.prior = ps].pkg = r.pkg
         /\ [r EXCEPT !.reading = TRUE, !.prior = ps].prior = ps
         /\ [r EXCEPT !.reading = TRUE, !.prior = ps].version = r.version
         /\ [r EXCEPT !.reading = TRUE, !.prior = ps].reading
  BY DEF Request

\* A handler's reads keep the request's operation and package.
LEMMA ReadsType ==
  ASSUME TypeInv, NEW c \in Requests, NEW r \in Request, r.op = req[c].op, r.pkg = req[c].pkg,
         req' = [req EXCEPT ![c] = r], UNCHANGED <<rows, visit>>
  PROVE  TypeInv'
<1>1. req' \in [Requests -> Request]
  BY DEF TypeInv, TypeOK
<1>2. OnPackage'
  BY DEF TypeInv, TypeOK, OnPackage
<1> QED
  BY <1>1, <1>2 DEF TypeInv, TypeOK, rows

-----------------------------------------------------------------------------
\* The sixteen actions, for the proofs that go through them one by one.

LEMMA Actions ==
  ASSUME Next
  PROVE  \/ \E p \in Packages : Create(p)
         \/ \E p, o \in Packages, s \in SUBSET Msgs : CreateReturn(p, o, s)
         \/ \E c \in Requests, op \in DOMAIN Accepts, p \in Packages : Load(c, op, p)
         \/ \E c \in Requests, s \in SUBSET Msgs : UpdateScope(c, s)
         \/ \E c \in Requests, s \in SUBSET Msgs : Generate(c, s)
         \/ \E c \in Requests : PublishRead(c)
         \/ \E c \in Requests : PublishCommit(c)
         \/ \E c \in Requests : Revoke(c)
         \/ \E c \in Requests : VersionRead(c)
         \/ \E c \in Requests, p \in Packages : VersionCommit(c, p)
         \/ \E c \in Requests : GiveUp(c)
         \/ \E v \in Visitors, p \in Packages : CheckCode(v, p)
         \/ \E v \in Visitors : ClaimCode(v)
         \/ \E v \in Visitors : TurnedAway(v)
         \/ \E v \in Visitors, p \in Packages : SessionEnds(p, v)
         \/ \E p \in Packages : Expire(p)
  BY Zenon DEF Next, CreatorStep, RecipientStep

\* The actions that write a package row.
LEMMA PackagesMove ==
  ASSUME [Next]_vars
  PROVE  \/ UNCHANGED pkg
         \/ \E p \in Packages :
               Create(p) \/ \E o \in Packages, s \in SUBSET Msgs : CreateReturn(p, o, s)
         \/ \E c \in Requests, p \in Packages : VersionCommit(c, p)
         \/ \E c \in Requests, s \in SUBSET Msgs : Generate(c, s)
         \/ \E c \in Requests : PublishCommit(c)
         \/ \E c \in Requests : Revoke(c)
<1>1. CASE UNCHANGED vars
  BY <1>1 DEF vars, rows
<1>2. CASE Next
  <2>1. ASSUME NEW c \in Requests, \/ \E op \in DOMAIN Accepts, p \in Packages : Load(c, op, p)
                                   \/ \E s \in SUBSET Msgs : UpdateScope(c, s)
                                   \/ PublishRead(c) \/ VersionRead(c) \/ GiveUp(c)
        PROVE  UNCHANGED pkg
    BY <2>1 DEF Load, UpdateScope, PublishRead, VersionRead, GiveUp, rows
  <2>2. ASSUME NEW v \in Visitors, \/ \E p \in Packages : CheckCode(v, p) \/ SessionEnds(p, v)
                                   \/ ClaimCode(v) \/ TurnedAway(v)
        PROVE  UNCHANGED pkg
    BY <2>2 DEF CheckCode, SessionEnds, ClaimCode, TurnedAway, rows
  <2>3. ASSUME NEW p \in Packages, Expire(p)
        PROVE  UNCHANGED pkg
    BY <2>3 DEF Expire
  <2> QED
    BY <1>2, <2>1, <2>2, <2>3, Actions, Zenon
<1> QED
  BY <1>1, <1>2

\* The actions that write a package, a grant or a session.
LEMMA RowsMove ==
  ASSUME [Next]_vars
  PROVE  \/ UNCHANGED <<pkg, grant, session>>
         \/ \E p \in Packages : \E l, n, s : Draft(p, l, n, s)
         \/ \E c \in Requests, s \in SUBSET Msgs : Generate(c, s)
         \/ \E c \in Requests : PublishCommit(c)
         \/ \E c \in Requests : Revoke(c)
         \/ /\ UNCHANGED pkg
            /\ \/ \E v \in Visitors : ClaimCode(v)
               \/ \E v \in Visitors, p \in Packages : SessionEnds(p, v)
               \/ \E p \in Packages : Expire(p)
<1>1. CASE UNCHANGED vars
  BY <1>1 DEF vars, rows
<1>2. CASE Next
  <2>1. ASSUME NEW p \in Packages, Create(p)
        PROVE  \E l, n, s : Draft(p, l, n, s)
    BY <2>1, Zenon DEF Create
  <2>2. ASSUME NEW p \in Packages, NEW o \in Packages, NEW t \in SUBSET Msgs, CreateReturn(p, o, t)
        PROVE  \E l, n, s : Draft(p, l, n, s)
    BY <2>2, Zenon DEF CreateReturn
  <2>3. ASSUME NEW c \in Requests, NEW p \in Packages, VersionCommit(c, p)
        PROVE  \E l, n, s : Draft(p, l, n, s)
    BY <2>3, Zenon DEF VersionCommit
  <2>4. ASSUME NEW c \in Requests, \/ \E op \in DOMAIN Accepts, p \in Packages : Load(c, op, p)
                                   \/ \E s \in SUBSET Msgs : UpdateScope(c, s)
                                   \/ PublishRead(c) \/ VersionRead(c) \/ GiveUp(c)
        PROVE  UNCHANGED <<pkg, grant, session>>
    BY <2>4 DEF Load, UpdateScope, PublishRead, VersionRead, GiveUp, rows
  <2>5. ASSUME NEW v \in Visitors, (\E p \in Packages : CheckCode(v, p)) \/ TurnedAway(v)
        PROVE  UNCHANGED <<pkg, grant, session>>
    BY <2>5 DEF CheckCode, TurnedAway, rows
  <2>6. ASSUME NEW v \in Visitors, ClaimCode(v) \/ \E p \in Packages : SessionEnds(p, v)
        PROVE  UNCHANGED pkg
    BY <2>6 DEF SessionEnds, ClaimCode
  <2>7. ASSUME NEW p \in Packages, Expire(p)
        PROVE  UNCHANGED pkg
    BY <2>7 DEF Expire
  <2> QED
    BY <1>2, <2>1, <2>2, <2>3, <2>4, <2>5, <2>6, <2>7, Actions, Zenon
<1> QED
  BY <1>1, <1>2


-----------------------------------------------------------------------------
\* Type correctness.

LEMMA DraftType ==
  ASSUME TypeInv, NEW p \in Packages, NEW l \in Packages \cup {None}, NEW n \in Nat,
         NEW s \in SUBSET Msgs, Draft(p, l, n, s)
  PROVE  /\ pkg' \in [Packages -> Package]
         /\ scope' \in [Packages -> SUBSET Msgs]
<1>1. [status |-> "draft", lineage |-> l, version |-> n] \in Package
  BY DEF Package, Status, Mutable
<1> QED
  BY <1>1 DEF TypeInv, TypeOK, Draft

LEMMA EndsType ==
  ASSUME TypeInv, NEW c \in Requests, Ends(c)
  PROVE  /\ req' \in [Requests -> Request]
         /\ visit' = visit
         /\ OnPackage'
  BY Constants DEF TypeInv, TypeOK, OnPackage, Ends

LEMMA TypeStep ==
  ASSUME TypeInv, [Next]_vars
  PROVE  TypeInv'
<1> USE DEF TypeInv, TypeOK, OnPackage
<1>0. CASE UNCHANGED vars
  BY <1>0 DEF vars, rows
<1>1. ASSUME NEW p \in Packages, Create(p)
      PROVE  TypeInv'
  <2>1. pkg' \in [Packages -> Package] /\ scope' \in [Packages -> SUBSET Msgs]
    BY <1>1, DraftType DEF Create
  <2> QED
    BY <1>1, <2>1 DEF Create, Draft
<1>2. ASSUME NEW p \in Packages, NEW o \in Packages, NEW s \in SUBSET Msgs, CreateReturn(p, o, s)
      PROVE  TypeInv'
  <2>1. pkg' \in [Packages -> Package] /\ scope' \in [Packages -> SUBSET Msgs]
    BY <1>2, DraftType DEF CreateReturn
  <2> QED
    BY <1>2, <2>1 DEF CreateReturn, Draft
<1>3. ASSUME NEW c \in Requests, NEW op \in DOMAIN Accepts, NEW p \in Packages, Load(c, op, p)
      PROVE  TypeInv'
  <2>1. op \in {"scope", "generate", "publish", "revoke", "version"}
    BY DEF Accepts
  <2>2. pkg[p].status \in Status
    BY DEF Package
  <2>3. [Idle EXCEPT !.op = op, !.pkg = p, !.seen = pkg[p].status] \in Request
    BY <2>1, <2>2, Constants DEF Request
  <2>4. [Idle EXCEPT !.op = op, !.pkg = p, !.seen = pkg[p].status].pkg = p
    BY DEF Idle
  <2> QED
    BY <1>3, <2>3, <2>4 DEF Load, rows
<1>4. ASSUME NEW c \in Requests, NEW s \in SUBSET Msgs, UpdateScope(c, s)
      PROVE  TypeInv'
  BY <1>4, EndsType DEF UpdateScope
<1>5. ASSUME NEW c \in Requests, NEW s \in SUBSET Msgs, Generate(c, s)
      PROVE  TypeInv'
  <2>1. evidence' \in [Packages -> SUBSET Msgs]
    BY <1>5 DEF Generate
  <2> DEFINE p  == req[c].pkg
             st == IF req[c].seen = "generated" THEN pkg[p].status ELSE "generated"
  <2>2. p \in Packages
    BY <1>5 DEF Generate, Handles
  <2>3. st \in Status
    BY <2>2 DEF Package, Status, Mutable
  <2>4. pkg' = [pkg EXCEPT ![p] = [pkg[p] EXCEPT !.status = st]]
    BY <1>5 DEF Generate
  <2> HIDE DEF p, st
  <2>5. pkg' \in [Packages -> Package]
    BY <2>2, <2>3, <2>4, StatusEdits
  <2> QED
    BY <1>5, <2>1, <2>5, EndsType DEF Generate
<1>6. ASSUME NEW c \in Requests, PublishRead(c)
      PROVE  TypeInv'
  <2> DEFINE ps == {q \in Lineage(req[c].pkg) \ {req[c].pkg} : pkg[q].status = "published"}
             r  == [req[c] EXCEPT !.reading = TRUE, !.prior = ps]
  <2>1. ps \in SUBSET Packages
    BY DEF Lineage
  <2>2. req' = [req EXCEPT ![c] = r] /\ UNCHANGED <<rows, visit>>
    BY <1>6 DEF PublishRead
  <2>3. r \in Request /\ r.op = req[c].op /\ r.pkg = req[c].pkg
    BY <2>1, RequestEdits
  <2> HIDE DEF r, TypeInv, TypeOK, OnPackage
  <2> QED
    BY <2>2, <2>3, ReadsType
<1>7. ASSUME NEW c \in Requests, PublishCommit(c)
      PROVE  TypeInv'
  <2>1. pkg' \in [Packages -> Package]
    BY <1>7, StatusEdits DEF PublishCommit, Status, Versionable
  <2>2. grant' \in [Packages -> Grant]
    BY <1>7, GrantEdits, Constants DEF PublishCommit
  <2>3. session' \in [Packages -> [Visitors -> {"none", "live", "over"}]]
    BY <1>7, OverEdits DEF PublishCommit
  <2> QED
    BY <1>7, <2>1, <2>2, <2>3, EndsType DEF PublishCommit
<1>8. ASSUME NEW c \in Requests, Revoke(c)
      PROVE  TypeInv'
  <2>1. pkg' \in [Packages -> Package]
    BY <1>8, StatusEdits DEF Revoke, Status, Versionable
  <2>2. grant' \in [Packages -> Grant]
    BY <1>8, GrantEdits DEF Revoke
  <2>3. session' \in [Packages -> [Visitors -> {"none", "live", "over"}]]
    BY <1>8, OverEdits DEF Revoke
  <2> QED
    BY <1>8, <2>1, <2>2, <2>3, EndsType DEF Revoke
<1>9. ASSUME NEW c \in Requests, VersionRead(c)
      PROVE  TypeInv'
  <2>1. PICK q \in Packages :
           req' = [req EXCEPT ![c] = [@ EXCEPT !.reading = TRUE, !.version = pkg[q].version + 1]]
    BY <1>9 DEF VersionRead, Lineage
  <2> DEFINE r == [req[c] EXCEPT !.reading = TRUE, !.version = pkg[q].version + 1]
  <2>2. pkg[q].version + 1 \in Nat
    BY DEF Package
  <2>3. r \in Request /\ r.op = req[c].op /\ r.pkg = req[c].pkg
    BY <2>2, RequestEdits
  <2>4. req' = [req EXCEPT ![c] = r] /\ UNCHANGED <<rows, visit>>
    BY <1>9, <2>1 DEF VersionRead
  <2> HIDE DEF r, TypeInv, TypeOK, OnPackage
  <2> QED
    BY <2>3, <2>4, ReadsType
<1>10. ASSUME NEW c \in Requests, NEW p \in Packages, VersionCommit(c, p)
       PROVE  TypeInv'
  <2>1. req[c].pkg \in Packages /\ req[c].version \in Nat
    BY <1>10 DEF VersionCommit, Request
  <2>2. pkg[req[c].pkg].lineage \in Packages \cup {None}
    BY <2>1 DEF Package
  <2>3. scope[req[c].pkg] \in SUBSET Msgs
    BY <2>1
  <2>4. pkg' \in [Packages -> Package] /\ scope' \in [Packages -> SUBSET Msgs]
    BY <1>10, <2>1, <2>2, <2>3, DraftType DEF VersionCommit
  <2> QED
    BY <1>10, <2>4, EndsType DEF VersionCommit, Draft
<1>11. ASSUME NEW c \in Requests, GiveUp(c)
       PROVE  TypeInv'
  BY <1>11, EndsType DEF GiveUp, rows
<1>12. ASSUME NEW v \in Visitors, NEW p \in Packages, CheckCode(v, p)
       PROVE  TypeInv'
  BY <1>12 DEF CheckCode, rows
<1>13. ASSUME NEW v \in Visitors, ClaimCode(v)
       PROVE  TypeInv'
  <2>1. grant' \in [Packages -> Grant]
    BY <1>13, GrantEdits DEF ClaimCode
  <2> QED
    BY <1>13, <2>1 DEF ClaimCode
<1>14. ASSUME NEW v \in Visitors, TurnedAway(v)
       PROVE  TypeInv'
  BY <1>14 DEF TurnedAway, rows
<1>15. ASSUME NEW v \in Visitors, NEW p \in Packages, SessionEnds(p, v)
       PROVE  TypeInv'
  BY <1>15 DEF SessionEnds
<1>16. ASSUME NEW p \in Packages, Expire(p)
       PROVE  TypeInv'
  BY <1>16, GrantEdits, OverEdits DEF Expire
<1> QED
  <2> HIDE DEF TypeInv, TypeOK, OnPackage
  <2> QED
    BY <1>0, <1>1, <1>2, <1>3, <1>4, <1>5, <1>6, <1>7, <1>8, <1>9, <1>10, <1>11, <1>12, <1>13,
       <1>14, <1>15, <1>16, Actions

LEMMA TypeInvariant == Spec => []TypeInv
<1>1. Init => TypeInv
  BY Constants DEF Init, TypeInv, TypeOK, OnPackage
<1> QED
  BY <1>1, TypeStep, PTL DEF Spec

\* Every row, request and exchange keeps its type, in one API process or several.
THEOREM TypeCorrect == Spec => []TypeOK
<1>1. TypeInv => TypeOK
  BY DEF TypeInv
<1> QED
  BY <1>1, TypeInvariant, PTL

-----------------------------------------------------------------------------
\* What each action does to the columns of the package rows.

\* The rows keep their lineage and version, and those out of ps their status.
Keep(ps) ==
  \A q \in Packages : /\ pkg'[q].lineage = pkg[q].lineage
                      /\ pkg'[q].version = pkg[q].version
                      /\ q \notin ps => pkg'[q].status = pkg[q].status

LEMMA GenerateEffect ==
  ASSUME TypeInv, NEW c \in Requests, NEW s \in SUBSET Msgs, Generate(c, s)
  PROVE  /\ req[c].pkg \in Packages
         /\ Keep({req[c].pkg})
         /\ pkg'[req[c].pkg].status \in {pkg[req[c].pkg].status, "generated"}
<1> DEFINE p  == req[c].pkg
           st == IF req[c].seen = "generated" THEN pkg[p].status ELSE "generated"
<1>1. p \in Packages
  BY DEF Generate, Handles, TypeInv, OnPackage
<1>2. pkg' = [pkg EXCEPT ![p] = [pkg[p] EXCEPT !.status = st]]
  BY DEF Generate
<1>3. st \in Status /\ pkg[p] \in Package
  BY <1>1 DEF TypeInv, TypeOK, Package, Status, Mutable
<1>4. st \in {pkg[p].status, "generated"}
  OBVIOUS
<1> HIDE DEF p, st
<1>5. Keep({p}) /\ pkg'[p].status = st
  BY <1>1, <1>2, <1>3, StatusEdits DEF Keep, TypeInv, TypeOK
<1> QED
  BY <1>1, <1>4, <1>5 DEF p

LEMMA PublishEffect ==
  ASSUME TypeInv, NEW c \in Requests, PublishCommit(c)
  PROVE  LET p == req[c].pkg
             prior == req[c].prior
         IN  /\ p \in Packages /\ prior \subseteq Packages
             /\ Keep(prior \cup {p})
             /\ pkg'[p].status = "published"
             /\ \A q \in prior \ {p} : pkg'[q].status = "superseded"
             /\ grant'[p] = [NoGrant EXCEPT !.granted = TRUE]
             /\ \A q \in prior \ {p} : grant'[q] = [grant[q] EXCEPT !.revoked = TRUE]
             /\ \A q \in Packages \ (prior \cup {p}) : grant'[q] = grant[q]
<1> DEFINE p == req[c].pkg
           prior == req[c].prior
<1>1. p \in Packages /\ prior \subseteq Packages
  BY DEF PublishCommit, TypeInv, TypeOK, OnPackage, Request
<1>2. /\ pkg' = [q \in Packages |->
            IF q = p THEN [pkg[q] EXCEPT !.status = "published"]
            ELSE IF q \in prior THEN [pkg[q] EXCEPT !.status = "superseded"] ELSE pkg[q]]
      /\ grant' = [q \in Packages |->
            IF q = p THEN [NoGrant EXCEPT !.granted = TRUE]
            ELSE IF q \in prior THEN [grant[q] EXCEPT !.revoked = TRUE] ELSE grant[q]]
  BY DEF PublishCommit
<1>3. \A q \in Packages : pkg[q] \in Package
  BY DEF TypeInv, TypeOK
<1>4. "published" \in Status /\ "superseded" \in Status
  BY DEF Status, Versionable
<1> HIDE DEF p, prior
<1>5. Keep(prior \cup {p}) /\ pkg'[p].status = "published"
  BY <1>1, <1>2, <1>3, <1>4, StatusEdits DEF Keep
<1>6. \A q \in prior \ {p} : pkg'[q].status = "superseded"
  BY <1>1, <1>2, <1>3, <1>4, StatusEdits
<1>7. /\ grant'[p] = [NoGrant EXCEPT !.granted = TRUE]
      /\ \A q \in prior \ {p} : grant'[q] = [grant[q] EXCEPT !.revoked = TRUE]
      /\ \A q \in Packages \ (prior \cup {p}) : grant'[q] = grant[q]
  BY <1>1, <1>2
<1> QED
  BY <1>1, <1>5, <1>6, <1>7 DEF p, prior

LEMMA RevokeEffect ==
  ASSUME TypeInv, NEW c \in Requests, Revoke(c)
  PROVE  LET p == req[c].pkg
         IN  /\ p \in Packages
             /\ Keep({p})
             /\ pkg'[p].status = "revoked"
             /\ grant'[p] = [grant[p] EXCEPT !.revoked = TRUE]
             /\ \A q \in Packages \ {p} : grant'[q] = grant[q]
<1> DEFINE p == req[c].pkg
<1>1. p \in Packages
  BY DEF Revoke, Handles, TypeInv, OnPackage
<1>2. /\ pkg' = [pkg EXCEPT ![p] = [pkg[p] EXCEPT !.status = "revoked"]]
      /\ grant' = [grant EXCEPT ![p] = [grant[p] EXCEPT !.revoked = TRUE]]
  BY DEF Revoke
<1>3. "revoked" \in Status /\ pkg[p] \in Package
  BY <1>1 DEF Status, Versionable, TypeInv, TypeOK
<1> HIDE DEF p
<1>4. Keep({p}) /\ pkg'[p].status = "revoked"
  BY <1>1, <1>2, <1>3, StatusEdits DEF Keep, TypeInv, TypeOK
<1>5. /\ grant'[p] = [grant[p] EXCEPT !.revoked = TRUE]
      /\ \A q \in Packages \ {p} : grant'[q] = grant[q]
  BY <1>1, <1>2 DEF TypeInv, TypeOK
<1> QED
  BY <1>1, <1>4, <1>5 DEF p

LEMMA DraftEffect ==
  ASSUME TypeInv, NEW p \in Packages, NEW l, NEW n, NEW s, Draft(p, l, n, s)
  PROVE  /\ pkg[p].status = "absent"
         /\ pkg'[p].status = "draft" /\ pkg'[p].lineage = l /\ pkg'[p].version = n
         /\ \A q \in Packages \ {p} : pkg'[q] = pkg[q]
         /\ UNCHANGED <<evidence, grant, session>>
  BY DEF Draft, TypeInv, TypeOK

LEMMA GrantColumns ==
  ASSUME NEW g \in Grant
  PROVE  /\ [g EXCEPT !.revoked = TRUE].granted = g.granted
         /\ [g EXCEPT !.revoked = TRUE].consumed = g.consumed
         /\ [g EXCEPT !.revoked = TRUE].revoked
         /\ [g EXCEPT !.expired = TRUE].granted = g.granted
         /\ [g EXCEPT !.expired = TRUE].consumed = g.consumed
         /\ [g EXCEPT !.expired = TRUE].revoked = g.revoked
         /\ [g EXCEPT !.expired = TRUE].expired
         /\ [g EXCEPT !.consumed = TRUE].granted = g.granted
         /\ [g EXCEPT !.consumed = TRUE].revoked = g.revoked
         /\ [g EXCEPT !.consumed = TRUE].expired = g.expired
         /\ [g EXCEPT !.consumed = TRUE].consumed
         /\ [g EXCEPT !.granted = TRUE].granted
         /\ [g EXCEPT !.granted = TRUE].consumed = g.consumed
         /\ [g EXCEPT !.granted = TRUE].revoked = g.revoked
         /\ [g EXCEPT !.granted = TRUE].expired = g.expired
  BY DEF Grant

\* Revoking or expiring a grant leaves its other columns alone.
LEMMA GrantEnds ==
  ASSUME TypeInv, NEW q \in Packages,
         \/ grant'[q] = grant[q]
         \/ grant'[q] = [grant[q] EXCEPT !.revoked = TRUE]
         \/ grant'[q] = [grant[q] EXCEPT !.expired = TRUE]
  PROVE  /\ grant'[q].granted <=> grant[q].granted
         /\ grant'[q].consumed <=> grant[q].consumed
         /\ grant[q].revoked => grant'[q].revoked
         /\ grant[q].expired => grant'[q].expired
         /\ grant'[q] = [grant[q] EXCEPT !.revoked = TRUE] => grant'[q].revoked
         /\ grant'[q] = [grant[q] EXCEPT !.expired = TRUE] => grant'[q].expired
<1> DEFINE g == grant[q]
           h == grant'[q]
<1>1. g \in Grant
  BY DEF TypeInv, TypeOK
<1>2. h = g \/ h = [g EXCEPT !.revoked = TRUE] \/ h = [g EXCEPT !.expired = TRUE]
  OBVIOUS
<1> HIDE DEF g, h
<1>3. CASE h = [g EXCEPT !.revoked = TRUE]
  <2>1. /\ h.granted = g.granted /\ h.consumed = g.consumed
        /\ h.revoked /\ h.expired = g.expired
    BY <1>1, <1>3, GrantColumns
  <2>2. h = [g EXCEPT !.expired = TRUE] => h.expired
    BY <1>1, GrantColumns
  <2> QED
    BY <2>1, <2>2 DEF g, h
<1>4. CASE h = [g EXCEPT !.expired = TRUE]
  <2>1. /\ h.granted = g.granted /\ h.consumed = g.consumed
        /\ h.expired /\ h.revoked = g.revoked
    BY <1>1, <1>4, GrantColumns
  <2>2. h = [g EXCEPT !.revoked = TRUE] => h.revoked
    BY <1>1, GrantColumns
  <2> QED
    BY <2>1, <2>2 DEF g, h
<1>5. CASE h = g
  <2>1. ASSUME h = [g EXCEPT !.revoked = TRUE]
        PROVE  h.revoked
    BY <1>1, <2>1, GrantColumns
  <2>2. ASSUME h = [g EXCEPT !.expired = TRUE]
        PROVE  h.expired
    BY <1>1, <2>2, GrantColumns
  <2> QED
    BY <1>5, <2>1, <2>2 DEF g, h
<1> QED
  BY <1>2, <1>3, <1>4, <1>5

-----------------------------------------------------------------------------
\* What holds of the rows whatever overlaps.

RowsExist ==
  \A p \in Packages : /\ pkg[p].status = "absent" <=> pkg[p].lineage = None
                      /\ pkg[p].lineage # None => pkg[pkg[p].lineage].status # "absent"
                      /\ grant[p].granted => pkg[p].status # "absent"
                      /\ pkg[p].status = "published" => grant[p].granted

RequestsExist ==
  \A c \in Requests : IF req[c].op = "idle" THEN ~req[c].reading
                      ELSE /\ pkg[req[c].pkg].status # "absent"
                           /\ \A q \in req[c].prior : /\ pkg[q].status # "absent"
                                                      /\ q # req[c].pkg

CodesExist ==
  /\ \A p \in Packages : /\ grant[p].consumed => grant[p].granted
                         /\ \A v \in Visitors : session[p][v] # "none" => grant[p].consumed
  /\ \A v \in Visitors : visit[v] # None => grant[visit[v]].granted

Basic == RowsExist /\ RequestsExist /\ CodesExist /\ OneReaderPerCode

\* A step that leaves the rows' columns alone and answers, or goes on with, a request.
LEMMA QuietStep ==
  ASSUME TypeInv, Basic, NEW c \in Requests,
         \A q \in Packages : /\ pkg'[q].lineage = pkg[q].lineage
                             /\ pkg'[q].status = pkg[q].status,
         UNCHANGED <<grant, session, visit>>,
         NEW r, req' = [req EXCEPT ![c] = r],
         IF r.op = "idle" THEN ~r.reading
         ELSE /\ r.pkg \in Packages /\ pkg[r.pkg].status # "absent"
              /\ r.prior \subseteq Packages
              /\ \A q \in r.prior : pkg[q].status # "absent" /\ q # r.pkg
  PROVE  Basic'
<1>1. RowsExist'
  BY DEF Basic, RowsExist, TypeInv, TypeOK, Package
<1>2. RequestsExist'
  <2> SUFFICES ASSUME NEW d \in Requests
               PROVE  IF req'[d].op = "idle" THEN ~req'[d].reading
                      ELSE /\ pkg'[req'[d].pkg].status # "absent"
                           /\ \A q \in req'[d].prior : /\ pkg'[q].status # "absent"
                                                       /\ q # req'[d].pkg
    BY DEF RequestsExist
  <2>1. req[d].prior \subseteq Packages /\ (req[d].op # "idle" => req[d].pkg \in Packages)
    BY DEF TypeInv, TypeOK, OnPackage, Request
  <2>2. req'[d] = IF d = c THEN r ELSE req[d]
    BY DEF TypeInv, TypeOK
  <2> QED
    BY <2>1, <2>2 DEF Basic, RequestsExist
<1>3. CodesExist' /\ OneReaderPerCode'
  BY DEF Basic, CodesExist, OneReaderPerCode
<1> QED
  BY <1>1, <1>2, <1>3 DEF Basic

\* A new package breaks none of it.
LEMMA DraftBasic ==
  ASSUME TypeInv, Basic, NEW p \in Packages, NEW l \in Packages, NEW n, NEW s,
         Draft(p, l, n, s),
         l # p => pkg[l].status # "absent",
         \/ UNCHANGED req
         \/ \E c \in Requests : req' = [req EXCEPT ![c] = Idle],
         UNCHANGED visit
  PROVE  Basic'
<1>1. /\ pkg[p].status = "absent" /\ pkg'[p].status = "draft" /\ pkg'[p].lineage = l
      /\ \A q \in Packages \ {p} : pkg'[q] = pkg[q]
      /\ UNCHANGED <<grant, session>>
  BY DraftEffect
<1>2. l # None
  BY HandoffConstants
<1>3. RowsExist'
  <2> SUFFICES ASSUME NEW q \in Packages
               PROVE  /\ pkg'[q].status = "absent" <=> pkg'[q].lineage = None
                      /\ pkg'[q].lineage # None => pkg'[pkg'[q].lineage].status # "absent"
                      /\ grant'[q].granted => pkg'[q].status # "absent"
                      /\ pkg'[q].status = "published" => grant'[q].granted
    BY DEF RowsExist
  <2>1. \A k \in Packages : pkg[k].status # "absent" => pkg'[k].status # "absent"
    BY <1>1
  <2>2. CASE q = p
    BY <1>1, <1>2, <2>1, <2>2 DEF Basic, RowsExist
  <2>3. CASE q # p
    <3>1. pkg'[q] = pkg[q] /\ grant'[q] = grant[q]
      BY <1>1, <2>3
    <3>2. pkg[q].lineage \in Packages \cup {None}
      BY DEF TypeInv, TypeOK, Package
    <3> QED
      BY <3>1, <3>2, <2>1 DEF Basic, RowsExist
  <2> QED
    BY <2>2, <2>3
<1>4. RequestsExist'
  <2> SUFFICES ASSUME NEW c \in Requests
               PROVE  IF req'[c].op = "idle" THEN ~req'[c].reading
                      ELSE /\ pkg'[req'[c].pkg].status # "absent"
                           /\ \A q \in req'[c].prior : /\ pkg'[q].status # "absent"
                                                       /\ q # req'[c].pkg
    BY DEF RequestsExist
  <2>1. req'[c] = req[c] \/ req'[c] = Idle
    BY DEF TypeInv, TypeOK
  <2>2. \A k \in Packages : pkg[k].status # "absent" => pkg'[k].status # "absent"
    BY <1>1
  <2>3. req[c].prior \subseteq Packages /\ (req[c].op # "idle" => req[c].pkg \in Packages)
    BY DEF TypeInv, TypeOK, OnPackage, Request
  <2> QED
    BY <2>1, <2>2, <2>3, Constants DEF Basic, RequestsExist
<1>5. CodesExist' /\ OneReaderPerCode'
  BY <1>1 DEF Basic, CodesExist, OneReaderPerCode
<1> QED
  BY <1>3, <1>4, <1>5 DEF Basic

\* A step that changes the status of packages that exist, and grants.
LEMMA StatusBasic ==
  ASSUME TypeInv, Basic, NEW c \in Requests, Ends(c),
         NEW ps \in SUBSET Packages, Keep(ps),
         \A q \in ps : /\ pkg[q].status # "absent" /\ pkg'[q].status # "absent"
                       /\ pkg'[q].status = "published" => grant'[q].granted,
         \A q \in Packages : /\ grant[q].granted => grant'[q].granted
                             /\ grant'[q].granted => grant[q].granted \/ q \in ps
                             /\ grant'[q].consumed <=> grant[q].consumed,
         \A q \in Packages : \A v \in Visitors :
            session'[q][v] = "none" <=> session[q][v] = "none"
  PROVE  Basic'
<1>1. RowsExist'
  <2> SUFFICES ASSUME NEW q \in Packages
               PROVE  /\ pkg'[q].status = "absent" <=> pkg'[q].lineage = None
                      /\ pkg'[q].lineage # None => pkg'[pkg'[q].lineage].status # "absent"
                      /\ grant'[q].granted => pkg'[q].status # "absent"
                      /\ pkg'[q].status = "published" => grant'[q].granted
    BY DEF RowsExist
  <2>1. pkg'[q].lineage = pkg[q].lineage
    BY DEF Keep
  <2>2. \A k \in Packages : pkg'[k].status = "absent" <=> pkg[k].status = "absent"
    BY DEF Keep
  <2>3. pkg[q].lineage \in Packages \cup {None}
    BY DEF TypeInv, TypeOK, Package
  <2>4. pkg'[q].status = "published" => grant'[q].granted
    BY DEF Keep, Basic, RowsExist
  <2> QED
    BY <2>1, <2>2, <2>3, <2>4 DEF Basic, RowsExist
<1>2. RequestsExist'
  <2>1. \A k \in Packages : pkg'[k].status = "absent" <=> pkg[k].status = "absent"
    BY DEF Keep
  <2> SUFFICES ASSUME NEW d \in Requests
               PROVE  IF req'[d].op = "idle" THEN ~req'[d].reading
                      ELSE /\ pkg'[req'[d].pkg].status # "absent"
                           /\ \A q \in req'[d].prior : /\ pkg'[q].status # "absent"
                                                       /\ q # req'[d].pkg
    BY DEF RequestsExist
  <2>2. req[d].prior \subseteq Packages /\ (req[d].op # "idle" => req[d].pkg \in Packages)
    BY DEF TypeInv, TypeOK, OnPackage, Request
  <2>3. req'[d] = IF d = c THEN Idle ELSE req[d]
    BY DEF TypeInv, TypeOK, Ends
  <2> QED
    BY <2>1, <2>2, <2>3, Constants DEF Basic, RequestsExist
<1>3. CodesExist' /\ OneReaderPerCode'
  BY DEF Basic, CodesExist, OneReaderPerCode, TypeInv, TypeOK, Ends
<1> QED
  BY <1>1, <1>2, <1>3 DEF Basic

LEMMA OverNone ==
  ASSUME NEW ps, NEW q \in Packages, NEW v \in Visitors
  PROVE  /\ Over(ps)[q][v] = "none" <=> session[q][v] = "none"
         /\ q \in ps => Over(ps)[q][v] # "live"
         /\ Over(ps)[q][v] = "live" => session[q][v] = "live"
  BY DEF Over

LEMMA BasicStep ==
  ASSUME TypeInv, Basic, [Next]_vars
  PROVE  Basic'
<1>0. CASE UNCHANGED vars
  BY <1>0 DEF vars, rows, Basic, RowsExist, RequestsExist, CodesExist, OneReaderPerCode
<1>1. ASSUME NEW p \in Packages, Create(p)
      PROVE  Basic'
  BY <1>1, DraftBasic DEF Create
<1>2. ASSUME NEW p \in Packages, NEW o \in Packages, NEW s \in SUBSET Msgs, CreateReturn(p, o, s)
      PROVE  Basic'
  BY <1>2, DraftBasic DEF CreateReturn
<1>3. ASSUME NEW c \in Requests, NEW op \in DOMAIN Accepts, NEW p \in Packages, Load(c, op, p)
      PROVE  Basic'
  <2> DEFINE r == [Idle EXCEPT !.op = op, !.pkg = p, !.seen = pkg[p].status]
  <2>1. r.op = op /\ r.pkg = p /\ op # "idle" /\ r.prior = {}
    BY DEF Idle, Accepts
  <2>2. pkg[p].status # "absent"
    BY <1>3 DEF Load, Accepts, Mutable, Versionable
  <2>3. req' = [req EXCEPT ![c] = r] /\ UNCHANGED <<rows, visit>>
    BY <1>3 DEF Load
  <2> HIDE DEF r
  <2> QED
    BY <2>1, <2>2, <2>3, QuietStep DEF rows
<1>4. ASSUME NEW c \in Requests, NEW s \in SUBSET Msgs, UpdateScope(c, s)
      PROVE  Basic'
  BY <1>4, QuietStep, Constants DEF UpdateScope, Ends
<1>5. ASSUME NEW c \in Requests, NEW s \in SUBSET Msgs, Generate(c, s)
      PROVE  Basic'
  <2>1. req[c].op = "generate" /\ Ends(c) /\ UNCHANGED <<grant, session>>
    BY <1>5 DEF Generate, Handles
  <2>2. /\ req[c].pkg \in Packages /\ Keep({req[c].pkg})
        /\ pkg'[req[c].pkg].status \in {pkg[req[c].pkg].status, "generated"}
    BY <1>5, GenerateEffect
  <2>3. pkg[req[c].pkg].status # "absent"
    BY <2>1 DEF Basic, RequestsExist
  <2> QED
    BY <2>1, <2>2, <2>3, StatusBasic DEF Basic, RowsExist
<1>6. ASSUME NEW c \in Requests, PublishRead(c)
      PROVE  Basic'
  <2> DEFINE ps == {q \in Lineage(req[c].pkg) \ {req[c].pkg} : pkg[q].status = "published"}
             r  == [req[c] EXCEPT !.reading = TRUE, !.prior = ps]
  <2>1. ps \in SUBSET Packages
    BY DEF Lineage
  <2>2. req' = [req EXCEPT ![c] = r] /\ UNCHANGED <<rows, visit>> /\ req[c].op = "publish"
    BY <1>6 DEF PublishRead, Handles
  <2>3. r.op = req[c].op /\ r.pkg = req[c].pkg /\ r.prior = ps
    <3>1. req[c] \in Request /\ 0 \in Nat
      BY DEF TypeInv, TypeOK
    <3> HIDE DEF ps
    <3> QED
      BY <2>1, <3>1, RequestEdits
  <2>4. /\ req[c].pkg \in Packages /\ pkg[req[c].pkg].status # "absent"
        /\ \A q \in ps : pkg[q].status # "absent" /\ q # req[c].pkg
    BY <2>2 DEF Basic, RequestsExist, TypeInv, OnPackage
  <2> HIDE DEF r, ps
  <2> QED
    BY <2>1, <2>2, <2>3, <2>4, QuietStep DEF rows
<1>7. ASSUME NEW c \in Requests, PublishCommit(c)
      PROVE  Basic'
  <2> DEFINE p == req[c].pkg
             prior == req[c].prior
             ps == prior \cup {p}
  <2>1. /\ req[c].op = "publish" /\ Ends(c) /\ session' = Over(prior) /\ ~grant[p].granted
    BY <1>7 DEF PublishCommit
  <2>2. /\ p \in Packages /\ prior \subseteq Packages
        /\ Keep(prior \cup {p})
        /\ pkg'[p].status = "published"
        /\ \A q \in prior \ {p} : pkg'[q].status = "superseded"
        /\ grant'[p] = [NoGrant EXCEPT !.granted = TRUE]
        /\ \A q \in prior \ {p} : grant'[q] = [grant[q] EXCEPT !.revoked = TRUE]
        /\ \A q \in Packages \ (prior \cup {p}) : grant'[q] = grant[q]
    BY <1>7, PublishEffect
  <2>3. \A q \in ps : pkg[q].status # "absent"
    BY <2>1 DEF Basic, RequestsExist
  <2>4. grant'[p].granted /\ ~grant'[p].consumed /\ ~grant[p].consumed
    BY <2>1, <2>2, Constants, GrantColumns DEF Basic, CodesExist
  <2>6. \A q \in Packages \ {p} : /\ grant'[q].granted <=> grant[q].granted
                                  /\ grant'[q].consumed <=> grant[q].consumed
    BY <2>2, GrantEnds
  <2>7. \A q \in Packages : \A v \in Visitors : session'[q][v] = "none" <=> session[q][v] = "none"
    BY <2>1, OverNone
  <2>8. \A q \in ps : /\ pkg[q].status # "absent" /\ pkg'[q].status # "absent"
                      /\ pkg'[q].status = "published" => grant'[q].granted
    BY <2>2, <2>3, <2>4
  <2>9. \A q \in Packages : /\ grant[q].granted => grant'[q].granted
                            /\ grant'[q].granted => grant[q].granted \/ q \in ps
                            /\ grant'[q].consumed <=> grant[q].consumed
    BY <2>1, <2>4, <2>6
  <2>10. ps \in SUBSET Packages /\ Keep(ps)
    BY <2>2
  <2> HIDE DEF p, prior, ps
  <2> QED
    BY <2>1, <2>7, <2>8, <2>9, <2>10, StatusBasic
<1>8. ASSUME NEW c \in Requests, Revoke(c)
      PROVE  Basic'
  <2>1. req[c].op = "revoke" /\ Ends(c) /\ session' = Over({req[c].pkg})
    BY <1>8 DEF Revoke, Handles
  <2>2. pkg[req[c].pkg].status # "absent"
    BY <2>1 DEF Basic, RequestsExist
  <2> DEFINE p == req[c].pkg
  <2>5. /\ p \in Packages /\ Keep({p}) /\ pkg'[p].status = "revoked"
        /\ grant'[p] = [grant[p] EXCEPT !.revoked = TRUE]
        /\ \A q \in Packages \ {p} : grant'[q] = grant[q]
    BY <1>8, RevokeEffect
  <2>3. \A q \in Packages : /\ grant'[q].granted <=> grant[q].granted
                            /\ grant'[q].consumed <=> grant[q].consumed
    BY <2>5, GrantEnds
  <2>4. \A q \in Packages : \A v \in Visitors : session'[q][v] = "none" <=> session[q][v] = "none"
    BY <2>1, OverNone
  <2>6. \A q \in {p} : /\ pkg[q].status # "absent" /\ pkg'[q].status # "absent"
                       /\ pkg'[q].status = "published" => grant'[q].granted
    BY <2>2, <2>5
  <2>7. {p} \in SUBSET Packages /\ Keep({p}) /\ Ends(c)
    BY <2>1, <2>5
  <2>8. \A q \in Packages : /\ grant[q].granted => grant'[q].granted
                            /\ grant'[q].granted => grant[q].granted \/ q \in {p}
                            /\ grant'[q].consumed <=> grant[q].consumed
    BY <2>3
  <2> HIDE DEF p
  <2> QED
    BY <2>4, <2>6, <2>7, <2>8, StatusBasic
<1>9. ASSUME NEW c \in Requests, VersionRead(c)
      PROVE  Basic'
  <2>1. PICK q \in Packages :
           req' = [req EXCEPT ![c] = [@ EXCEPT !.reading = TRUE, !.version = pkg[q].version + 1]]
    BY <1>9 DEF VersionRead, Lineage
  <2> DEFINE r == [req[c] EXCEPT !.reading = TRUE, !.version = pkg[q].version + 1]
  <2>2. pkg[q].version + 1 \in Nat
    BY DEF Package, TypeInv, TypeOK
  <2>3. r.op = req[c].op /\ r.pkg = req[c].pkg /\ r.prior = req[c].prior
    BY <2>2, RequestEdits DEF TypeInv, TypeOK, Request
  <2>4. req' = [req EXCEPT ![c] = r] /\ UNCHANGED <<rows, visit>> /\ req[c].op = "version"
    BY <1>9, <2>1 DEF VersionRead, Handles
  <2>5. /\ req[c].pkg \in Packages /\ pkg[req[c].pkg].status # "absent"
        /\ req[c].prior \subseteq Packages
        /\ \A k \in req[c].prior : pkg[k].status # "absent" /\ k # req[c].pkg
    BY <2>4 DEF Basic, RequestsExist, TypeInv, TypeOK, OnPackage, Request
  <2> HIDE DEF r
  <2> QED
    BY <2>3, <2>4, <2>5, QuietStep DEF rows
<1>10. ASSUME NEW c \in Requests, NEW p \in Packages, VersionCommit(c, p)
       PROVE  Basic'
  <2> DEFINE old == req[c].pkg
             l == pkg[old].lineage
  <2>1. /\ req[c].op = "version" /\ Draft(p, l, req[c].version, scope[old])
        /\ req' = [req EXCEPT ![c] = Idle] /\ UNCHANGED visit
    BY <1>10 DEF VersionCommit, Ends
  <2>2. old \in Packages /\ pkg[old].status # "absent"
    BY <2>1 DEF Basic, RequestsExist, TypeInv, OnPackage
  <2>3. l \in Packages /\ pkg[l].status # "absent"
    BY <2>2 DEF Basic, RowsExist, TypeInv, TypeOK, Package
  <2> HIDE DEF old, l
  <2> QED
    BY <2>1, <2>3, DraftBasic
<1>11. ASSUME NEW c \in Requests, GiveUp(c)
       PROVE  Basic'
  BY <1>11, QuietStep, Constants DEF GiveUp, Ends, rows
<1>12. ASSUME NEW v \in Visitors, NEW p \in Packages, CheckCode(v, p)
       PROVE  Basic'
  <2>1. CodesExist'
    BY <1>12 DEF CheckCode, rows, Live, Basic, CodesExist, TypeInv, TypeOK
  <2> QED
    BY <1>12, <2>1 DEF CheckCode, rows, Basic, RowsExist, RequestsExist, OneReaderPerCode
<1>13. ASSUME NEW v \in Visitors, ClaimCode(v)
       PROVE  Basic'
  <2> DEFINE p == visit[v]
  <2>1. p \in Packages /\ grant[p].granted /\ ~grant[p].consumed
    BY <1>13 DEF ClaimCode, TypeInv, TypeOK, Basic, CodesExist
  <2>2. grant' = [grant EXCEPT ![p] = [grant[p] EXCEPT !.consumed = TRUE]]
    BY <1>13 DEF ClaimCode
  <2>3. /\ session' = [session EXCEPT ![p] = [session[p] EXCEPT ![v] = "live"]]
        /\ visit' = [visit EXCEPT ![v] = None] /\ UNCHANGED <<pkg, req>>
    BY <1>13 DEF ClaimCode
  <2>4. \A w \in Visitors : session[p][w] = "none"
    BY <2>1 DEF Basic, CodesExist
  <2> HIDE DEF p
  <2>5. /\ \A q \in Packages : grant'[q].granted <=> grant[q].granted
        /\ \A q \in Packages \ {p} : grant'[q].consumed <=> grant[q].consumed
        /\ grant'[p].consumed
    BY <2>1, <2>2, GrantColumns DEF TypeInv, TypeOK
  <2>6. RowsExist' /\ RequestsExist'
    BY <2>3, <2>5 DEF Basic, RowsExist, RequestsExist
  <2>7. CodesExist'
    BY <2>1, <2>3, <2>5 DEF Basic, CodesExist, TypeInv, TypeOK
  <2>8. OneReaderPerCode'
    BY <2>1, <2>3, <2>4 DEF Basic, OneReaderPerCode, TypeInv, TypeOK
  <2> QED
    BY <2>6, <2>7, <2>8 DEF Basic
<1>14. ASSUME NEW v \in Visitors, TurnedAway(v)
       PROVE  Basic'
  BY <1>14 DEF TurnedAway, rows, Basic, RowsExist, RequestsExist, CodesExist, OneReaderPerCode,
     TypeInv, TypeOK
<1>15. ASSUME NEW v \in Visitors, NEW p \in Packages, SessionEnds(p, v)
       PROVE  Basic'
  <2>1. CodesExist' /\ OneReaderPerCode'
    BY <1>15 DEF SessionEnds, Basic, CodesExist, OneReaderPerCode, TypeInv, TypeOK
  <2> QED
    BY <1>15, <2>1 DEF SessionEnds, Basic, RowsExist, RequestsExist
<1>16. ASSUME NEW p \in Packages, Expire(p)
       PROVE  Basic'
  <2>1. grant' = [grant EXCEPT ![p] = [grant[p] EXCEPT !.expired = TRUE]]
    BY <1>16 DEF Expire
  <2>2. \A q \in Packages : /\ grant'[q].granted <=> grant[q].granted
                            /\ grant'[q].consumed <=> grant[q].consumed
    <3>1. \A q \in Packages : \/ grant'[q] = grant[q]
                              \/ grant'[q] = [grant[q] EXCEPT !.expired = TRUE]
      BY <2>1 DEF TypeInv, TypeOK
    <3> QED
      BY <3>1, GrantEnds
  <2>3. \A q \in Packages : \A v \in Visitors : session'[q][v] = "none" <=> session[q][v] = "none"
    BY <1>16, OverNone DEF Expire
  <2>4. RowsExist' /\ RequestsExist'
    BY <1>16, <2>2 DEF Expire, Basic, RowsExist, RequestsExist
  <2>5. OneReaderPerCode'
    BY <2>3 DEF Basic, OneReaderPerCode
  <2>6. CodesExist'
    BY <1>16, <2>2, <2>3 DEF Expire, Basic, CodesExist, TypeInv, TypeOK
  <2> QED
    BY <2>4, <2>5, <2>6 DEF Basic
<1> QED
  BY <1>0, <1>1, <1>2, <1>3, <1>4, <1>5, <1>6, <1>7, <1>8, <1>9, <1>10, <1>11, <1>12, <1>13,
     <1>14, <1>15, <1>16, Actions

LEMMA BasicInvariant == Spec => [](TypeInv /\ Basic)
<1>1. Init => Basic
  BY Constants DEF Init, Basic, RowsExist, RequestsExist, CodesExist, OneReaderPerCode
<1> QED
  BY <1>1, BasicStep, TypeInvariant, PTL DEF Spec

\* However many exchanges of a package's code race, in one API process or several, one
\* visitor at most gets a session: start_session claims the code by an UPDATE guarded by
\* consumed_at IS NULL, and a package never gets a second recipient row.
THEOREM OneReaderHolds == Spec => []OneReaderPerCode
<1>1. Basic => OneReaderPerCode
  BY DEF Basic
<1> QED
  BY <1>1, BasicInvariant, PTL

-----------------------------------------------------------------------------
\* One API process: a handler between its reads and its commit is alone with the rows.

Exclusive ==
  /\ \A c, d \in Requests : req[c].reading /\ req[d].reading => c = d
  /\ \A c \in Requests, v \in Visitors : req[c].reading => visit[v] = None
  /\ \A v, w \in Visitors : visit[v] # None /\ visit[w] # None => v = w

\* What a handler has read is still so.
ReadsHold ==
  \A c \in Requests : req[c].reading =>
     /\ req[c].op = "publish" =>
          req[c].prior = {q \in Lineage(req[c].pkg) \ {req[c].pkg} : pkg[q].status = "published"}
     /\ req[c].op = "version" =>
          \A q \in Lineage(req[c].pkg) : pkg[q].version < req[c].version

VisitsLive == \A v \in Visitors : visit[v] # None => pkg[visit[v]].status = "published"

Alone == Exclusive /\ ReadsHold /\ VisitsLive

LEMMA NobodyHolds ==
  ASSUME \A c \in Requests : ~req'[c].reading, \A v \in Visitors : visit'[v] = None
  PROVE  Alone'
  BY DEF Alone, Exclusive, ReadsHold, VisitsLive

\* A request that runs in its turn, or that is alone, leaves nobody at work.
LEMMA EndsHold ==
  ASSUME TypeInv, Alone, NEW c \in Requests, Ends(c), Turn \/ req[c].reading, ~Overlap
  PROVE  Alone'
<1>1. \A d \in Requests : req'[d] = IF d = c THEN Idle ELSE req[d]
  BY DEF Ends, TypeInv, TypeOK
<1>2. \A d \in Requests \ {c} : ~req[d].reading
  BY DEF Alone, Exclusive, Turn
<1>3. \A v \in Visitors : visit[v] = None
  BY DEF Alone, Exclusive, Turn
<1> QED
  BY <1>1, <1>2, <1>3, Constants, NobodyHolds DEF Ends

\* A request that is not at work changes nothing by being loaded or given up.
LEMMA QuietHold ==
  ASSUME TypeInv, Alone, UNCHANGED <<rows, visit>>, NEW c \in Requests, NEW r, ~r.reading,
         req' = [req EXCEPT ![c] = r]
  PROVE  Alone'
<1>1. \A d \in Requests : req'[d] = IF d = c THEN r ELSE req[d]
  BY DEF TypeInv, TypeOK
<1>2. Exclusive' /\ VisitsLive'
  BY <1>1 DEF Alone, Exclusive, VisitsLive, rows
<1>3. ReadsHold'
  BY <1>1 DEF Alone, ReadsHold, Lineage, rows
<1> QED
  BY <1>2, <1>3 DEF Alone

LEMMA AloneStep ==
  ASSUME ~Overlap, TypeInv, Basic, Alone, [Next]_vars
  PROVE  Alone'
<1>0. CASE UNCHANGED vars
  BY <1>0 DEF vars, rows, Alone, Exclusive, ReadsHold, VisitsLive, Lineage
<1>1. ASSUME NEW p \in Packages, Create(p)
      PROVE  Alone'
  BY <1>1, NobodyHolds DEF Create, Turn
<1>2. ASSUME NEW p \in Packages, NEW o \in Packages, NEW s \in SUBSET Msgs, CreateReturn(p, o, s)
      PROVE  Alone'
  BY <1>2, NobodyHolds DEF CreateReturn, Turn
<1>3. ASSUME NEW c \in Requests, NEW op \in DOMAIN Accepts, NEW p \in Packages, Load(c, op, p)
      PROVE  Alone'
  <2> DEFINE r == [Idle EXCEPT !.op = op, !.pkg = p, !.seen = pkg[p].status]
  <2>1. ~r.reading
    BY DEF Idle
  <2>2. req' = [req EXCEPT ![c] = r] /\ UNCHANGED <<rows, visit>>
    BY <1>3 DEF Load
  <2> HIDE DEF r
  <2> QED
    BY <2>1, <2>2, QuietHold
<1>4. ASSUME NEW c \in Requests, NEW s \in SUBSET Msgs, UpdateScope(c, s)
      PROVE  Alone'
  BY <1>4, EndsHold DEF UpdateScope, Handles
<1>5. ASSUME NEW c \in Requests, NEW s \in SUBSET Msgs, Generate(c, s)
      PROVE  Alone'
  BY <1>5, EndsHold DEF Generate, Handles
<1>6. ASSUME NEW c \in Requests, PublishRead(c)
      PROVE  Alone'
  <2> DEFINE ps == {q \in Lineage(req[c].pkg) \ {req[c].pkg} : pkg[q].status = "published"}
             r  == [req[c] EXCEPT !.reading = TRUE, !.prior = ps]
  <2>1. /\ req' = [req EXCEPT ![c] = r] /\ UNCHANGED <<rows, visit>>
        /\ req[c].op = "publish" /\ Turn
    BY <1>6 DEF PublishRead, Handles
  <2>2. r.op = "publish" /\ r.pkg = req[c].pkg /\ r.prior = ps
    <3>1. req[c] \in Request /\ 0 \in Nat /\ ps \in SUBSET Packages
      BY DEF TypeInv, TypeOK, Lineage
    <3> HIDE DEF ps
    <3> QED
      BY <2>1, <3>1, RequestEdits
  <2> HIDE DEF r
  <2>3. \A d \in Requests : req'[d] = IF d = c THEN r ELSE req[d]
    BY <2>1 DEF TypeInv, TypeOK
  <2>4. (\A d \in Requests : ~req[d].reading) /\ (\A v \in Visitors : visit'[v] = None)
    BY <2>1 DEF Turn
  <2>5. Exclusive' /\ VisitsLive'
    BY <2>3, <2>4 DEF Exclusive, VisitsLive
  <2>6. ReadsHold'
    BY <2>1, <2>2, <2>3, <2>4 DEF ReadsHold, Lineage, rows
  <2> QED
    BY <2>5, <2>6 DEF Alone
<1>7. ASSUME NEW c \in Requests, PublishCommit(c)
      PROVE  Alone'
  BY <1>7, EndsHold DEF PublishCommit
<1>8. ASSUME NEW c \in Requests, Revoke(c)
      PROVE  Alone'
  BY <1>8, EndsHold DEF Revoke, Handles
<1>9. ASSUME NEW c \in Requests, VersionRead(c)
      PROVE  Alone'
  <2>1. PICK q \in Lineage(req[c].pkg) :
           /\ \A k \in Lineage(req[c].pkg) : pkg[k].version <= pkg[q].version
           /\ req' = [req EXCEPT ![c] = [@ EXCEPT !.reading = TRUE, !.version = pkg[q].version + 1]]
    BY <1>9 DEF VersionRead
  <2> DEFINE r == [req[c] EXCEPT !.reading = TRUE, !.version = pkg[q].version + 1]
  <2>2. req' = [req EXCEPT ![c] = r]
    BY <2>1
  <2>3. UNCHANGED <<rows, visit>> /\ req[c].op = "version" /\ Turn
    BY <1>9 DEF VersionRead, Handles
  <2>4. \A k \in Packages : pkg[k].version \in Nat
    BY DEF TypeInv, TypeOK, Package
  <2>5. r.op = "version" /\ r.pkg = req[c].pkg /\ r.version = pkg[q].version + 1
    <3>1. req[c] \in Request /\ pkg[q].version + 1 \in Nat /\ {} \in SUBSET Packages
      BY <2>4 DEF TypeInv, TypeOK, Lineage
    <3> QED
      BY <2>3, <3>1, RequestEdits
  <2> HIDE DEF r
  <2>6. \A d \in Requests : req'[d] = IF d = c THEN r ELSE req[d]
    BY <2>2 DEF TypeInv, TypeOK
  <2>7. (\A d \in Requests : ~req[d].reading) /\ (\A v \in Visitors : visit'[v] = None)
    BY <2>3 DEF Turn
  <2>8. Exclusive' /\ VisitsLive'
    BY <2>6, <2>7 DEF Exclusive, VisitsLive
  <2>9. \A k \in Lineage(req[c].pkg) : pkg[k].version < pkg[q].version + 1
    BY <2>1, <2>4 DEF Lineage
  <2>10. ReadsHold'
    BY <2>3, <2>5, <2>6, <2>7, <2>9 DEF ReadsHold, Lineage, rows
  <2> QED
    BY <2>8, <2>10 DEF Alone
<1>10. ASSUME NEW c \in Requests, NEW p \in Packages, VersionCommit(c, p)
       PROVE  Alone'
  BY <1>10, EndsHold DEF VersionCommit
<1>11. ASSUME NEW c \in Requests, GiveUp(c)
       PROVE  Alone'
  BY <1>11, QuietHold, Constants DEF GiveUp, Ends
<1>12. ASSUME NEW v \in Visitors, NEW p \in Packages, CheckCode(v, p)
       PROVE  Alone'
  BY <1>12 DEF CheckCode, Turn, Live, rows, TypeInv, TypeOK, Alone, Exclusive, ReadsHold, VisitsLive
<1>13. ASSUME NEW v \in Visitors, ClaimCode(v)
       PROVE  Alone'
  BY <1>13, NobodyHolds DEF ClaimCode, TypeInv, TypeOK, Alone, Exclusive
<1>14. ASSUME NEW v \in Visitors, TurnedAway(v)
       PROVE  Alone'
  BY <1>14, NobodyHolds DEF TurnedAway, TypeInv, TypeOK, Alone, Exclusive
<1>15. ASSUME NEW v \in Visitors, NEW p \in Packages, SessionEnds(p, v)
       PROVE  Alone'
  BY <1>15 DEF SessionEnds, Alone, Exclusive, ReadsHold, VisitsLive, Lineage
<1>16. ASSUME NEW p \in Packages, Expire(p)
       PROVE  Alone'
  BY <1>16 DEF Expire, Alone, Exclusive, ReadsHold, VisitsLive, Lineage
<1> QED
  BY <1>0, <1>1, <1>2, <1>3, <1>4, <1>5, <1>6, <1>7, <1>8, <1>9, <1>10, <1>11, <1>12, <1>13,
     <1>14, <1>15, <1>16, Actions

LEMMA AloneInvariant ==
  ASSUME ~Overlap
  PROVE  Spec => [](TypeInv /\ Basic /\ Alone)
<1>1. Init => Alone
  BY Constants DEF Init, Alone, Exclusive, ReadsHold, VisitsLive
<1>2. TypeInv /\ Basic /\ Alone /\ [Next]_vars => Alone'
  BY AloneStep
<1> QED
  BY <1>1, <1>2, BasicInvariant, PTL DEF Spec

-----------------------------------------------------------------------------
\* One live version.

\* A step that publishes nothing.
LEMMA NothingPublished ==
  ASSUME OneLiveVersion,
         \A q \in Packages : pkg'[q].status = "published" =>
            pkg[q].status = "published" /\ pkg'[q].lineage = pkg[q].lineage
  PROVE  OneLiveVersion'
  BY DEF OneLiveVersion, Lineage

LEMMA OneLiveStep ==
  ASSUME TypeInv, Basic, Alone, OneLiveVersion, [Next]_vars
  PROVE  OneLiveVersion'
<1>1. CASE UNCHANGED pkg
  BY <1>1, NothingPublished
<1>2. ASSUME NEW p \in Packages, NEW l, NEW n, NEW s, Draft(p, l, n, s)
      PROVE  OneLiveVersion'
  BY <1>2, DraftEffect, NothingPublished
<1>3. ASSUME NEW c \in Requests, NEW s \in SUBSET Msgs, Generate(c, s)
      PROVE  OneLiveVersion'
  BY <1>3, GenerateEffect, NothingPublished DEF Keep
<1>4. ASSUME NEW c \in Requests, Revoke(c)
      PROVE  OneLiveVersion'
  BY <1>4, RevokeEffect, NothingPublished DEF Keep
<1>5. ASSUME NEW c \in Requests, PublishCommit(c)
      PROVE  OneLiveVersion'
  <2> DEFINE p == req[c].pkg
             prior == req[c].prior
  <2>1. /\ p \in Packages /\ prior \subseteq Packages
        /\ Keep(prior \cup {p})
        /\ \A q \in prior \ {p} : pkg'[q].status = "superseded"
    BY <1>5, PublishEffect
  <2>2. prior = {q \in Lineage(p) \ {p} : pkg[q].status = "published"}
    BY <1>5 DEF PublishCommit, Alone, ReadsHold
  <2> HIDE DEF p, prior
  <2>3. \A q \in Packages \ {p} : pkg'[q].status = "published" =>
           pkg[q].status = "published" /\ pkg[q].lineage # pkg[p].lineage
    BY <2>1, <2>2 DEF Keep, Lineage
  <2>4. \A q \in Packages : pkg'[q].lineage = pkg[q].lineage
    BY <2>1 DEF Keep
  <2> QED
    BY <2>1, <2>3, <2>4 DEF OneLiveVersion, Lineage
<1> QED
  BY <1>1, <1>2, <1>3, <1>4, <1>5, RowsMove

\* In one API process the packages of a lineage are published one at a time: publishing
\* supersedes what it finds published, and nothing is published in between.
THEOREM OneLiveHolds ==
  ASSUME ~Overlap
  PROVE  Spec => []OneLiveVersion
<1>1. Init => OneLiveVersion
  BY Constants DEF Init, OneLiveVersion
<1>2. TypeInv /\ Basic /\ Alone /\ OneLiveVersion /\ [Next]_vars => OneLiveVersion'
  BY OneLiveStep
<1> QED
  BY <1>1, <1>2, AloneInvariant, PTL DEF Spec

-----------------------------------------------------------------------------
\* Versions.

LEMMA DraftVersion ==
  ASSUME TypeInv, VersionsDistinct, NEW p \in Packages, NEW l \in Packages, NEW n, NEW s,
         Draft(p, l, n, s),
         \A q \in Packages : pkg[q].status # "absent" /\ pkg[q].lineage = l => pkg[q].version # n,
         \A q \in Packages : pkg[q].status = "absent" <=> pkg[q].lineage = None
  PROVE  VersionsDistinct'
<1>1. /\ pkg[p].status = "absent"
      /\ pkg'[p].lineage = l /\ pkg'[p].version = n
      /\ \A q \in Packages \ {p} : pkg'[q] = pkg[q]
  BY DraftEffect
<1>2. l # None
  BY HandoffConstants
<1> QED
  BY <1>1, <1>2 DEF VersionsDistinct, Lineage

LEMMA VersionsStep ==
  ASSUME TypeInv, Basic, Alone, VersionsDistinct, [Next]_vars
  PROVE  VersionsDistinct'
<1>1. CASE UNCHANGED pkg
  BY <1>1 DEF VersionsDistinct, Lineage
<1>2. ASSUME NEW p \in Packages, Create(p) \/ \E o \in Packages, s \in SUBSET Msgs : CreateReturn(p, o, s)
      PROVE  VersionsDistinct'
  <2>1. PICK s : Draft(p, p, 1, s)
    BY <1>2 DEF Create, CreateReturn
  <2>2. \A q \in Packages : pkg[q].lineage # p
    BY <2>1, DraftEffect, HandoffConstants DEF Basic, RowsExist
  <2> QED
    BY <2>1, <2>2, DraftVersion DEF Basic, RowsExist
<1>3. ASSUME NEW c \in Requests, NEW p \in Packages, VersionCommit(c, p)
      PROVE  VersionsDistinct'
  <2> DEFINE old == req[c].pkg
             l == pkg[old].lineage
             n == req[c].version
  <2>1. req[c].op = "version" /\ req[c].reading /\ Draft(p, l, n, scope[old])
    BY <1>3 DEF VersionCommit
  <2>2. old \in Packages /\ pkg[old].status # "absent"
    BY <2>1 DEF Basic, RequestsExist, TypeInv, OnPackage
  <2>3. l \in Packages
    BY <2>2 DEF Basic, RowsExist, TypeInv, TypeOK, Package
  <2>4. \A q \in Packages : pkg[q].lineage = l => pkg[q].version < n
    BY <2>1 DEF Alone, ReadsHold, Lineage
  <2>5. n \in Nat /\ \A q \in Packages : pkg[q].version \in Nat
    BY DEF TypeInv, TypeOK, Package, Request
  <2> HIDE DEF l, n, old
  <2>6. \A q \in Packages : pkg[q].lineage = l => pkg[q].version # n
    BY <2>4, <2>5
  <2> QED
    BY <2>1, <2>3, <2>6, DraftVersion DEF Basic, RowsExist
<1>4. ASSUME NEW ps, Keep(ps), \A q \in Packages : pkg'[q].status # "absent" => pkg[q].status # "absent"
      PROVE  VersionsDistinct'
  BY <1>4 DEF Keep, VersionsDistinct, Lineage
<1>5. ASSUME NEW c \in Requests, NEW s \in SUBSET Msgs, Generate(c, s)
      PROVE  VersionsDistinct'
  <2>1. pkg[req[c].pkg].status # "absent" /\ Keep({req[c].pkg})
    BY <1>5, GenerateEffect DEF Generate, Handles, Basic, RequestsExist
  <2> QED
    BY <2>1, <1>4 DEF Keep
<1>6. ASSUME NEW c \in Requests, Revoke(c)
      PROVE  VersionsDistinct'
  <2>1. pkg[req[c].pkg].status # "absent" /\ Keep({req[c].pkg})
    BY <1>6, RevokeEffect DEF Revoke, Handles, Basic, RequestsExist
  <2> QED
    BY <2>1, <1>4 DEF Keep
<1>7. ASSUME NEW c \in Requests, PublishCommit(c)
      PROVE  VersionsDistinct'
  <2>1. \A q \in req[c].prior \cup {req[c].pkg} : pkg[q].status # "absent"
    BY <1>7 DEF PublishCommit, Basic, RequestsExist
  <2>2. Keep(req[c].prior \cup {req[c].pkg})
    BY <1>7, PublishEffect
  <2>3. \A q \in Packages : pkg'[q].status # "absent" => pkg[q].status # "absent"
    BY <2>1, <2>2 DEF Keep
  <2> QED
    BY <2>2, <2>3, <1>4
<1> QED
  BY <1>1, <1>2, <1>3, <1>5, <1>6, <1>7, PackagesMove

\* In one API process forks of a lineage's packages, whichever is forked and in whatever
\* order, get versions of their own.
THEOREM VersionsHold ==
  ASSUME ~Overlap
  PROVE  Spec => []VersionsDistinct
<1>1. Init => VersionsDistinct
  BY Constants DEF Init, VersionsDistinct
<1>2. TypeInv /\ Basic /\ Alone /\ VersionsDistinct /\ [Next]_vars => VersionsDistinct'
  BY VersionsStep
<1> QED
  BY <1>1, <1>2, AloneInvariant, PTL DEF Spec

-----------------------------------------------------------------------------
\* What ended is closed.

\* Nothing ends, no grant is restored and no session of an ended package begins.
LEMMA NothingEnds ==
  ASSUME EndedIsClosed,
         \A q \in Packages :
            pkg'[q].status \in {"revoked", "superseded"} =>
              /\ pkg[q].status \in {"revoked", "superseded"}
              /\ grant[q].revoked => grant'[q].revoked
              /\ \A v \in Visitors : session'[q][v] = "live" => session[q][v] = "live"
  PROVE  EndedIsClosed'
  BY DEF EndedIsClosed

LEMMA EndedStep ==
  ASSUME TypeInv, Basic, Alone, EndedIsClosed, [Next]_vars
  PROVE  EndedIsClosed'
<1>1. CASE UNCHANGED <<pkg, grant, session>>
  BY <1>1, NothingEnds
<1>2. ASSUME NEW p \in Packages, NEW l, NEW n, NEW s, Draft(p, l, n, s)
      PROVE  EndedIsClosed'
  BY <1>2, DraftEffect, NothingEnds
<1>3. ASSUME NEW c \in Requests, NEW s \in SUBSET Msgs, Generate(c, s)
      PROVE  EndedIsClosed'
  BY <1>3, GenerateEffect, NothingEnds DEF Keep, Generate
<1>4. ASSUME NEW c \in Requests, Revoke(c)
      PROVE  EndedIsClosed'
  <2> DEFINE p == req[c].pkg
  <2>1. /\ p \in Packages /\ Keep({p}) /\ grant'[p] = [grant[p] EXCEPT !.revoked = TRUE]
        /\ \A q \in Packages \ {p} : grant'[q] = grant[q]
    BY <1>4, RevokeEffect
  <2>2. session' = Over({p})
    BY <1>4 DEF Revoke
  <2>3. grant'[p].revoked
    BY <2>1, GrantEnds
  <2> HIDE DEF p
  <2>4. \A v \in Visitors : session'[p][v] # "live"
    BY <2>1, <2>2, OverNone
  <2>5. \A q \in Packages : \A v \in Visitors : session'[q][v] = "live" => session[q][v] = "live"
    BY <2>2, OverNone
  <2>6. \A q \in Packages \ {p} : pkg'[q].status = pkg[q].status
    BY <2>1 DEF Keep
  <2> SUFFICES ASSUME NEW q \in Packages, pkg'[q].status \in {"revoked", "superseded"}
               PROVE  grant'[q].revoked /\ \A v \in Visitors : session'[q][v] # "live"
    BY DEF EndedIsClosed
  <2>7. CASE q = p
    BY <2>3, <2>4, <2>7
  <2>8. CASE q # p
    BY <2>1, <2>5, <2>6, <2>8 DEF EndedIsClosed
  <2> QED
    BY <2>7, <2>8
<1>5. ASSUME NEW c \in Requests, PublishCommit(c)
      PROVE  EndedIsClosed'
  <2> DEFINE p == req[c].pkg
             prior == req[c].prior
  <2>1. /\ p \in Packages /\ prior \subseteq Packages /\ Keep(prior \cup {p})
        /\ pkg'[p].status = "published"
        /\ \A q \in prior \ {p} : grant'[q] = [grant[q] EXCEPT !.revoked = TRUE]
        /\ \A q \in Packages \ (prior \cup {p}) : grant'[q] = grant[q]
    BY <1>5, PublishEffect
  <2>2. session' = Over(prior)
    BY <1>5 DEF PublishCommit
  <2> HIDE DEF p, prior
  <2>4. \A q \in prior \ {p} : grant'[q].revoked
    BY <2>1, GrantEnds
  <2>5. \A q \in prior : \A v \in Visitors : session'[q][v] # "live"
    BY <2>1, <2>2, OverNone
  <2>6. \A q \in Packages : \A v \in Visitors : session'[q][v] = "live" => session[q][v] = "live"
    BY <2>2, OverNone
  <2> QED
    BY <2>1, <2>4, <2>5, <2>6 DEF EndedIsClosed, Keep
<1>6. ASSUME NEW v \in Visitors, ClaimCode(v)
      PROVE  EndedIsClosed'
  <2> DEFINE p == visit[v]
  <2>1. p \in Packages /\ pkg[p].status = "published"
    BY <1>6 DEF ClaimCode, TypeInv, TypeOK, Alone, VisitsLive
  <2>2. /\ UNCHANGED pkg
        /\ \A q \in Packages \ {p} : grant'[q] = grant[q] /\ session'[q] = session[q]
    BY <1>6 DEF ClaimCode, TypeInv, TypeOK
  <2> HIDE DEF p
  <2> QED
    BY <2>1, <2>2 DEF EndedIsClosed
<1>7. ASSUME NEW v \in Visitors, NEW p \in Packages, SessionEnds(p, v)
      PROVE  EndedIsClosed'
  BY <1>7, NothingEnds DEF SessionEnds, TypeInv, TypeOK
<1>8. ASSUME NEW p \in Packages, Expire(p)
      PROVE  EndedIsClosed'
  <2>1. \A q \in Packages : \/ grant'[q] = grant[q]
                            \/ grant'[q] = [grant[q] EXCEPT !.expired = TRUE]
    BY <1>8 DEF Expire, TypeInv, TypeOK
  <2>2. \A q \in Packages : grant[q].revoked => grant'[q].revoked
    BY <2>1, GrantEnds
  <2>3. \A q \in Packages : \A v \in Visitors : session'[q][v] = "live" => session[q][v] = "live"
    BY <1>8, OverNone DEF Expire
  <2> QED
    BY <1>8, <2>2, <2>3, NothingEnds DEF Expire
<1> QED
  BY <1>1, <1>2, <1>3, <1>4, <1>5, <1>6, <1>7, <1>8, RowsMove

\* In one API process a revoked or superseded package has its grant revoked and no live
\* session, whatever stale copies the handlers decided on.
THEOREM EndedHolds ==
  ASSUME ~Overlap
  PROVE  Spec => []EndedIsClosed
<1>1. Init => EndedIsClosed
  BY Constants DEF Init, EndedIsClosed
<1>2. TypeInv /\ Basic /\ Alone /\ EndedIsClosed /\ [Next]_vars => EndedIsClosed'
  BY EndedStep
<1> QED
  BY <1>1, <1>2, AloneInvariant, PTL DEF Spec

-----------------------------------------------------------------------------
\* The packages are shared as Sharing says.

Lineages == [p \in Packages |-> pkg[p].lineage]

Shared == Shares!Next \/ UNCHANGED <<Lineages, Access>>

\* Recipients see no difference.
LEMMA SharedAlike ==
  ASSUME \A q \in Packages : /\ pkg'[q].lineage = pkg[q].lineage
                             /\ grant'[q].granted <=> grant[q].granted
                             /\ Live(q)' <=> Live(q)
  PROVE  UNCHANGED <<Lineages, Access>>
  BY DEF Lineages, Access

\* One package at most is no longer open.
LEMMA SharedClosed ==
  ASSUME NEW p \in Packages, ~Live(p)',
         \A q \in Packages : /\ pkg'[q].lineage = pkg[q].lineage
                             /\ grant'[q].granted <=> grant[q].granted
                             /\ q # p => (Live(q)' <=> Live(q))
  PROVE  Shared
<1>1. CASE ~Live(p)
  BY <1>1, SharedAlike DEF Shared
<1>2. CASE Live(p)
  <2>1. Access[p] = "open" /\ UNCHANGED Lineages
    BY <1>2 DEF Live, Access, Lineages
  <2>2. Access' = [Access EXCEPT ![p] = "closed"]
    BY <1>2 DEF Live, Access
  <2> QED
    BY <2>1, <2>2 DEF Shared, Shares!Next, Shares!Closed, Lineages
<1> QED
  BY <1>1, <1>2

LEMMA SharedCreated ==
  ASSUME TypeInv, Basic, NEW p \in Packages, NEW l \in Packages, NEW n, NEW s, Draft(p, l, n, s)
  PROVE  Shared
<1>1. /\ pkg[p].status = "absent" /\ pkg'[p].lineage = l
      /\ \A q \in Packages \ {p} : pkg'[q] = pkg[q]
      /\ UNCHANGED <<grant, session>>
  BY DraftEffect
<1>2. pkg[p].lineage = None /\ ~grant[p].granted
  BY <1>1 DEF Basic, RowsExist
<1>3. Lineages[p] = None /\ Lineages' = [Lineages EXCEPT ![p] = l]
  BY <1>1, <1>2 DEF Lineages
<1>4. UNCHANGED Access
  BY <1>1, <1>2 DEF Access, Live
<1> QED
  BY <1>3, <1>4 DEF Shared, Shares!Next, Shares!Created, Lineages

LEMMA SharedOpened ==
  ASSUME TypeInv, Basic, Alone, NEW c \in Requests, PublishCommit(c)
  PROVE  Shared
<1>0. PICK p \in Packages, prior \in SUBSET Packages : p = req[c].pkg /\ prior = req[c].prior
  BY PublishEffect
<1>1. /\ Keep(prior \cup {p})
      /\ pkg'[p].status = "published"
      /\ \A q \in prior \ {p} : pkg'[q].status = "superseded"
      /\ grant'[p] = [NoGrant EXCEPT !.granted = TRUE]
      /\ \A q \in prior \ {p} : grant'[q] = [grant[q] EXCEPT !.revoked = TRUE]
      /\ \A q \in Packages \ (prior \cup {p}) : grant'[q] = grant[q]
  BY <1>0, PublishEffect
<1>2. prior = {q \in Lineage(p) \ {p} : pkg[q].status = "published"}
  BY <1>0 DEF PublishCommit, Alone, ReadsHold
<1>3. ~grant[p].granted /\ pkg[p].status # "absent"
  BY <1>0 DEF PublishCommit, Basic, RequestsExist
<1>4. Live(p)' /\ grant'[p].granted
  BY <1>1, Constants, GrantColumns DEF Live
<1>5. \A q \in prior : grant[q].granted /\ grant'[q].granted /\ ~Live(q)' /\ q # p
  BY <1>1, <1>2, GrantEnds DEF Live, Basic, RowsExist
<1>6. \A q \in Packages \ (prior \cup {p}) :
         /\ grant'[q].granted <=> grant[q].granted
         /\ Live(q)' <=> Live(q)
  BY <1>1 DEF Live, Keep
<1>7. \A q \in Packages \ {p} :
         Lineages[q] = Lineages[p] /\ Access[q] = "open" => q \in prior
  BY <1>1, <1>2 DEF Lineages, Access, Live, Lineage
<1>8. \A q \in prior : Lineages[q] = Lineages[p] /\ Access[q] \in {"open", "closed"}
  BY <1>1, <1>2, <1>5 DEF Lineages, Access, Lineage
<1>9. UNCHANGED Lineages
  BY <1>1 DEF Lineages, Keep
<1>10. Lineages[p] # None /\ Access[p] = "never"
  BY <1>1, <1>3 DEF Lineages, Access, Basic, RowsExist
<1>11. Access' = [q \in Packages |->
          IF q = p THEN "open"
          ELSE IF Lineages[q] = Lineages[p] /\ Access[q] = "open" THEN "closed" ELSE Access[q]]
  <2> SUFFICES ASSUME NEW q \in Packages
               PROVE  Access'[q] = IF q = p THEN "open"
                                   ELSE IF Lineages[q] = Lineages[p] /\ Access[q] = "open"
                                        THEN "closed" ELSE Access[q]
    BY DEF Access
  <2>1. CASE q = p
    BY <1>4, <2>1 DEF Access
  <2>2. CASE q \in prior
    <3>1. Access'[q] = "closed"
      BY <1>5, <2>2 DEF Access
    <3> QED
      BY <1>5, <1>8, <2>2, <3>1
  <2>3. CASE q \notin prior \cup {p}
    <3>1. Access'[q] = Access[q]
      BY <1>6, <2>3 DEF Access
    <3> QED
      BY <1>7, <2>3, <3>1
  <2> QED
    BY <2>1, <2>2, <2>3
<1> QED
  BY <1>1, <1>9, <1>10, <1>11 DEF Shared, Shares!Next, Shares!Opened, Lineages

\* RowsMove, and the lineage of a new draft is a package.
LEMMA DraftsStayInPackages ==
  ASSUME TypeInv, Basic, [Next]_vars
  PROVE  \/ UNCHANGED <<pkg, grant, session>>
         \/ \E p \in Packages : \E l \in Packages : \E n, s : Draft(p, l, n, s)
         \/ \E c \in Requests, s \in SUBSET Msgs : Generate(c, s)
         \/ \E c \in Requests : PublishCommit(c)
         \/ \E c \in Requests : Revoke(c)
         \/ /\ UNCHANGED pkg
            /\ \/ \E v \in Visitors : ClaimCode(v)
               \/ \E v \in Visitors, p \in Packages : SessionEnds(p, v)
               \/ \E p \in Packages : Expire(p)
<1>1. ASSUME NEW p \in Packages, Create(p) \/ \E o \in Packages, t \in SUBSET Msgs : CreateReturn(p, o, t)
      PROVE  \E s : Draft(p, p, 1, s)
  BY <1>1 DEF Create, CreateReturn
<1>2. ASSUME NEW c \in Requests, NEW p \in Packages, VersionCommit(c, p)
      PROVE  \E l \in Packages : \E n, s : Draft(p, l, n, s)
  <2>1. req[c].op = "version" /\ Draft(p, pkg[req[c].pkg].lineage, req[c].version, scope[req[c].pkg])
    BY <1>2 DEF VersionCommit
  <2>2. req[c].pkg \in Packages /\ pkg[req[c].pkg].status # "absent"
    BY <2>1 DEF Basic, RequestsExist, TypeInv, OnPackage
  <2>3. pkg[req[c].pkg].lineage \in Packages
    BY <2>2 DEF Basic, RowsExist, TypeInv, TypeOK, Package
  <2> QED
    BY <2>1, <2>3, Zenon
<1>3. CASE UNCHANGED pkg
  BY <1>3, RowsMove, DraftEffect
<1> QED
  BY <1>1, <1>2, <1>3, PackagesMove, RowsMove

LEMMA SharedStep ==
  ASSUME TypeInv, Basic, Alone, [Next]_vars
  PROVE  Shared
<1>1. CASE UNCHANGED <<pkg, grant, session>>
  BY <1>1, SharedAlike DEF Shared, Live
<1>2. ASSUME NEW p \in Packages, \E l \in Packages : \E n, s : Draft(p, l, n, s)
      PROVE  Shared
  BY <1>2, SharedCreated
<1>3. ASSUME NEW c \in Requests, NEW s \in SUBSET Msgs, Generate(c, s)
      PROVE  Shared
  <2>0. PICK p \in Packages : p = req[c].pkg
    BY <1>3, GenerateEffect
  <2>1. /\ Keep({p}) /\ pkg'[p].status \in {pkg[p].status, "generated"}
        /\ UNCHANGED grant
    BY <1>3, <2>0, GenerateEffect DEF Generate
  <2>2. \A q \in Packages : /\ pkg'[q].lineage = pkg[q].lineage
                            /\ grant'[q].granted <=> grant[q].granted
                            /\ q # p => (Live(q)' <=> Live(q))
    BY <2>1 DEF Keep, Live
  <2>3. CASE pkg'[p].status = "generated"
    <3>1. ~Live(p)'
      BY <2>3 DEF Live
    <3> QED
      BY <2>1, <2>2, <3>1, SharedClosed
  <2>4. CASE pkg'[p].status = pkg[p].status
    <3>1. Live(p)' <=> Live(p)
      BY <2>1, <2>4 DEF Live
    <3>2. UNCHANGED <<Lineages, Access>>
      BY <2>2, <3>1, SharedAlike
    <3> QED
      BY <3>2 DEF Shared
  <2> QED
    BY <2>1, <2>3, <2>4
<1>4. ASSUME NEW c \in Requests, Revoke(c)
      PROVE  Shared
  <2>0. PICK p \in Packages : p = req[c].pkg
    BY <1>4, RevokeEffect
  <2>1. /\ Keep({p}) /\ pkg'[p].status = "revoked"
        /\ grant'[p] = [grant[p] EXCEPT !.revoked = TRUE]
        /\ \A q \in Packages \ {p} : grant'[q] = grant[q]
    BY <1>4, <2>0, RevokeEffect
  <2>2. \A q \in Packages : grant'[q].granted <=> grant[q].granted
    BY <2>1, GrantEnds
  <2>3. ~Live(p)'
    BY <2>1 DEF Live
  <2>4. \A q \in Packages \ {p} : Live(q)' <=> Live(q)
    BY <2>1 DEF Live, Keep
  <2>5. \A q \in Packages : pkg'[q].lineage = pkg[q].lineage
    BY <2>1 DEF Keep
  <2> QED
    BY <2>1, <2>2, <2>3, <2>4, <2>5, SharedClosed
<1>5. ASSUME NEW c \in Requests, PublishCommit(c)
      PROVE  Shared
  BY <1>5, SharedOpened
<1>6. ASSUME NEW v \in Visitors, ClaimCode(v), UNCHANGED pkg
      PROVE  Shared
  <2> DEFINE p == visit[v]
  <2>1. p \in Packages /\ grant[p] \in Grant
    BY <1>6 DEF ClaimCode, TypeInv, TypeOK
  <2>2. /\ grant'[p] = [grant[p] EXCEPT !.consumed = TRUE]
        /\ \A q \in Packages \ {p} : grant'[q] = grant[q]
    BY <1>6 DEF ClaimCode, TypeInv, TypeOK
  <2> HIDE DEF p
  <2>3. /\ grant'[p].granted = grant[p].granted /\ grant'[p].revoked = grant[p].revoked
        /\ grant'[p].expired = grant[p].expired
    BY <2>1, <2>2, GrantColumns
  <2>4. \A q \in Packages : Live(q)' <=> Live(q)
    BY <1>6, <2>2, <2>3 DEF Live
  <2>5. \A q \in Packages : grant'[q].granted <=> grant[q].granted
    BY <2>2, <2>3
  <2> QED
    BY <1>6, <2>4, <2>5, SharedAlike DEF Shared
<1>7. ASSUME NEW v \in Visitors, NEW p \in Packages, SessionEnds(p, v)
      PROVE  Shared
  BY <1>7, SharedAlike DEF SessionEnds, Shared, Live
<1>8. ASSUME NEW p \in Packages, Expire(p)
      PROVE  Shared
  <2>1. /\ grant'[p] = [grant[p] EXCEPT !.expired = TRUE]
        /\ \A q \in Packages \ {p} : grant'[q] = grant[q]
        /\ UNCHANGED pkg
    BY <1>8 DEF Expire, TypeInv, TypeOK
  <2>2. \A q \in Packages : grant'[q].granted <=> grant[q].granted
    BY <2>1, GrantEnds
  <2>3. ~Live(p)'
    BY <2>1, GrantEnds DEF Live
  <2>4. \A q \in Packages \ {p} : Live(q)' <=> Live(q)
    BY <2>1 DEF Live
  <2> QED
    BY <2>1, <2>2, <2>3, <2>4, SharedClosed
<1> QED
  BY <1>1, <1>2, <1>3, <1>4, <1>5, <1>6, <1>7, <1>8, DraftsStayInPackages

\* In one API process the package rows implement Sharing: every commit of a handler, and
\* the time, creates a draft, opens a package and closes its predecessor in one step,
\* closes one, or changes nothing a recipient may do.
THEOREM SharingHolds ==
  ASSUME ~Overlap
  PROVE  Spec => KeepsSharing
<1>1. Init => Shares!Init
  BY Constants DEF Init, Shares!Init, Access
<1>2. TypeInv /\ Basic /\ Alone /\ [Next]_vars => [Shares!Next]_<<Lineages, Access>>
  BY SharedStep DEF Shared
<1>3. [Shares!Next]_<<Lineages, Access>> <=> [Shares!Next]_<<[p \in Packages |-> pkg[p].lineage], Access>>
  BY DEF Lineages
<1> QED
  BY <1>1, <1>2, <1>3, AloneInvariant, PTL DEF Spec, KeepsSharing, Shares!Spec
=============================================================================
