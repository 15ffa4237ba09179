-------------------------- MODULE HandoffLifecycle --------------------------
(***************************************************************************)
(* The life of handoff packages: the creator's endpoints                   *)
(* (services/api/routers/handoff.py, the revoke of routers/admin.py), the  *)
(* candidate generator (services/handoff/generator.py), the revocation     *)
(* (services/handoff/lifecycle.py) and the recipient's exchange of the     *)
(* capability code for a session (services/api/routers/                    *)
(* handoff_recipient.py).                                                  *)
(*                                                                         *)
(* A creator's request is served in two or three steps.  The guard of the  *)
(* route (require_owner_package) loads the package in a thread of its own  *)
(* and leaves that copy in the session, where the handler finds it         *)
(* whatever the row holds by then.  A handler has no await: in one API     *)
(* process nothing runs between its reads and its commit, between two      *)
(* processes everything may (Overlap).  A set of messages stands for a     *)
(* scope and for the evidence; the claims, replaced together with the      *)
(* evidence they cite, are left out.                                       *)
(***************************************************************************)
EXTENDS Integers, FiniteSets

CONSTANTS
  Packages,   \* package ids; a lineage is named after its first package
  Msgs,       \* the messages of the mailbox
  Requests,   \* creator (or admin) requests in flight
  Visitors,   \* whoever holds a share link
  None,
  Overlap     \* TRUE: several API processes serve the requests

ASSUME HandoffConstants ==
  /\ None \notin Packages
  /\ Overlap \in BOOLEAN

VARIABLES
  pkg,        \* handoff_package rows
  scope,      \* messages each package's scope selects
  evidence,   \* messages snapshotted in each package
  grant,      \* handoff_recipient rows, one per package at most
  session,    \* handoff_recipient_session rows, by package and visitor
  req,        \* creator requests being served
  visit       \* the package whose code a visitor's exchange has checked

rows == <<pkg, scope, evidence, grant, session>>
vars == <<rows, req, visit>>

Mutable     == {"draft", "generated"}
Versionable == {"published", "revoked", "superseded"}
Status      == {"absent"} \cup Mutable \cup Versionable

Package == [status : Status, lineage : Packages \cup {None}, version : Nat]
Grant   == [granted : BOOLEAN, consumed : BOOLEAN, revoked : BOOLEAN, expired : BOOLEAN]
Request == [op : {"idle", "scope", "generate", "publish", "revoke", "version"},
            pkg : Packages \cup {None}, seen : Status, reading : BOOLEAN,
            prior : SUBSET Packages, version : Nat]

NoPackage == [status |-> "absent", lineage |-> None, version |-> 0]
NoGrant   == [granted |-> FALSE, consumed |-> FALSE, revoked |-> FALSE, expired |-> FALSE]
Idle      == [op |-> "idle", pkg |-> None, seen |-> "absent", reading |-> FALSE,
              prior |-> {}, version |-> 0]

-----------------------------------------------------------------------------
Lineage(p) == {q \in Packages : pkg[q].lineage = pkg[p].lineage}

\* No handler of the same process is between its reads and its commit.
Turn == Overlap \/ /\ \A c \in Requests : ~req[c].reading
                   /\ \A v \in Visitors : visit[v] = None

\* _package_live, evaluated at every access of a recipient.
Live(p) == /\ pkg[p].status = "published"
           /\ grant[p].granted /\ ~grant[p].revoked /\ ~grant[p].expired

\* The sessions of the packages of ps are revoked (or have run out).
Over(ps) ==
  [p \in Packages |-> [v \in Visitors |->
     IF p \in ps /\ session[p][v] = "live" THEN "over" ELSE session[p][v]]]

\* The statuses in which an endpoint does not refuse; the rest of a request that it
\* refuses changes nothing.
Accepts == [scope |-> Mutable, generate |-> Mutable, publish |-> {"generated"},
            revoke |-> {"published"}, version |-> Versionable]

\* The handler of c runs on the copy of the package that the route's guard has loaded.
Handles(c, op) ==
  /\ req[c].op = op
  /\ ~req[c].reading
  /\ Turn

Ends(c) == req' = [req EXCEPT ![c] = Idle] /\ UNCHANGED visit

-----------------------------------------------------------------------------
Init ==
  /\ pkg = [p \in Packages |-> NoPackage]
  /\ scope = [p \in Packages |-> {}]
  /\ evidence = [p \in Packages |-> {}]
  /\ grant = [p \in Packages |-> NoGrant]
  /\ session = [p \in Packages |-> [v \in Visitors |-> "none"]]
  /\ req = [c \in Requests |-> Idle]
  /\ visit = [v \in Visitors |-> None]

-----------------------------------------------------------------------------
\* New drafts.
Draft(p, lineage, version, s) ==
  /\ pkg[p].status = "absent"
  /\ pkg' = [pkg EXCEPT ![p] = [status |-> "draft", lineage |-> lineage, version |-> version]]
  /\ scope' = [scope EXCEPT ![p] = s]
  /\ UNCHANGED <<evidence, grant, session>>

\* create_handoff: a scope without filters.
Create(p) ==
  /\ Turn
  /\ Draft(p, p, 1, Msgs)
  /\ UNCHANGED <<req, visit>>

\* create_return_handoff: a lineage of its own, a scope seeded from a published package.
CreateReturn(p, original, s) ==
  /\ Turn
  /\ pkg[original].status = "published"
  /\ Draft(p, p, 1, s)
  /\ UNCHANGED <<req, visit>>

-----------------------------------------------------------------------------
\* require_owner_package.
Load(c, op, p) ==
  /\ req[c] = Idle
  /\ pkg[p].status \in Accepts[op]
  /\ req' = [req EXCEPT ![c] = [Idle EXCEPT !.op = op, !.pkg = p, !.seen = pkg[p].status]]
  /\ UNCHANGED <<rows, visit>>

\* Refused (body, safety findings, a unique constraint) or failed: rolled back.
GiveUp(c) ==
  /\ req[c] # Idle
  /\ Ends(c)
  /\ UNCHANGED rows

UpdateScope(c, s) ==
  /\ Handles(c, "scope")
  /\ scope' = [scope EXCEPT ![req[c].pkg] = s]
  /\ Ends(c)
  /\ UNCHANGED <<pkg, evidence, grant, session>>

\* generate_candidate: some of the scope's messages are cited by events.  The status is
\* only written when it differs from the copy's.
Generate(c, found) ==
  /\ Handles(c, "generate")
  /\ found \subseteq scope[req[c].pkg]
  /\ evidence' = [evidence EXCEPT ![req[c].pkg] = found]
  /\ pkg' = [pkg EXCEPT ![req[c].pkg].status =
               IF req[c].seen = "generated" THEN @ ELSE "generated"]
  /\ Ends(c)
  /\ UNCHANGED <<scope, grant, session>>

-----------------------------------------------------------------------------
\* Mutant of PublishRead: the published packages of the mailbox's lineage are not looked up.
PublishReadNoPrior(c) ==
  LET p == req[c].pkg
  IN  /\ Handles(c, "publish")
      /\ evidence[p] # {}
      /\ req' = [req EXCEPT ![c] = [@ EXCEPT !.reading = TRUE, !.prior = {}]]
      /\ UNCHANGED <<rows, visit>>

\* publish_handoff reads the evidence and the package it will supersede.
PublishRead(c) ==
  LET p == req[c].pkg
  IN  /\ Handles(c, "publish")
      /\ evidence[p] # {}
      /\ req' = [req EXCEPT ![c] = [@ EXCEPT !.reading = TRUE,
                   !.prior = {q \in Lineage(p) \ {p} : pkg[q].status = "published"}]]
      /\ UNCHANGED <<rows, visit>>

\* Mutant of PublishCommit: a package may get a second recipient row.
PublishCommitAgain(c) ==
  LET p == req[c].pkg
      prior == req[c].prior
  IN  /\ req[c].op = "publish" /\ req[c].reading
      /\ pkg' = [q \in Packages |->
            IF q = p THEN [pkg[q] EXCEPT !.status = "published"]
            ELSE IF q \in prior THEN [pkg[q] EXCEPT !.status = "superseded"] ELSE pkg[q]]
      /\ grant' = [q \in Packages |->
            IF q = p THEN [NoGrant EXCEPT !.granted = TRUE]
            ELSE IF q \in prior THEN [grant[q] EXCEPT !.revoked = TRUE] ELSE grant[q]]
      /\ session' = Over(prior)
      /\ Ends(c)
      /\ UNCHANGED <<scope, evidence>>

\* The commit: one recipient row per package, the prior packages superseded, their
\* grants revoked and their sessions killed.
PublishCommit(c) ==
  LET p == req[c].pkg
      prior == req[c].prior
  IN  /\ req[c].op = "publish" /\ req[c].reading
      /\ ~grant[p].granted
      /\ pkg' = [q \in Packages |->
            IF q = p THEN [pkg[q] EXCEPT !.status = "published"]
            ELSE IF q \in prior THEN [pkg[q] EXCEPT !.status = "superseded"] ELSE pkg[q]]
      /\ grant' = [q \in Packages |->
            IF q = p THEN [NoGrant EXCEPT !.granted = TRUE]
            ELSE IF q \in prior THEN [grant[q] EXCEPT !.revoked = TRUE] ELSE grant[q]]
      /\ session' = Over(prior)
      /\ Ends(c)
      /\ UNCHANGED <<scope, evidence>>

-----------------------------------------------------------------------------
\* Mutant of Revoke: sessions already started are left to their time limit.
RevokeKeepsSessions(c) ==
  LET p == req[c].pkg
  IN  /\ Handles(c, "revoke")
      /\ pkg' = [pkg EXCEPT ![p].status = "revoked"]
      /\ grant' = [grant EXCEPT ![p].revoked = TRUE]
      /\ session' = session
      /\ Ends(c)
      /\ UNCHANGED <<scope, evidence>>

\* revoke_package, of the creator or of an administrator.
Revoke(c) ==
  LET p == req[c].pkg
  IN  /\ Handles(c, "revoke")
      /\ pkg' = [pkg EXCEPT ![p].status = "revoked"]
      /\ grant' = [grant EXCEPT ![p].revoked = TRUE]
      /\ session' = Over({p})
      /\ Ends(c)
      /\ UNCHANGED <<scope, evidence>>

-----------------------------------------------------------------------------
\* new_version_handoff: one more than the highest version of the lineage.
VersionRead(c) ==
  /\ Handles(c, "version")
  /\ \E q \in Lineage(req[c].pkg) :
        /\ \A r \in Lineage(req[c].pkg) : pkg[r].version <= pkg[q].version
        /\ req' = [req EXCEPT ![c] = [@ EXCEPT !.reading = TRUE, !.version = pkg[q].version + 1]]
  /\ UNCHANGED <<rows, visit>>

VersionCommit(c, p) ==
  LET old == req[c].pkg
  IN  /\ req[c].op = "version" /\ req[c].reading
      /\ Draft(p, pkg[old].lineage, req[c].version, scope[old])
      /\ Ends(c)

-----------------------------------------------------------------------------
\* start_session: the code's package is live ...
CheckCode(v, p) ==
  /\ visit[v] = None
  /\ Turn
  /\ Live(p)
  /\ visit' = [visit EXCEPT ![v] = p]
  /\ UNCHANGED <<rows, req>>

\* Mutant of ClaimCode: the update is not guarded by consumed_at IS NULL.
ClaimCodeUnguarded(v) ==
  LET p == visit[v]
  IN  /\ p # None
      /\ grant' = [grant EXCEPT ![p].consumed = TRUE]
      /\ session' = [session EXCEPT ![p][v] = "live"]
      /\ visit' = [visit EXCEPT ![v] = None]
      /\ UNCHANGED <<pkg, scope, evidence, req>>

\* ... the code is claimed by a conditional update, with the session's insert.
ClaimCode(v) ==
  LET p == visit[v]
  IN  /\ p # None
      /\ ~grant[p].consumed
      /\ grant' = [grant EXCEPT ![p].consumed = TRUE]
      /\ session' = [session EXCEPT ![p][v] = "live"]
      /\ visit' = [visit EXCEPT ![v] = None]
      /\ UNCHANGED <<pkg, scope, evidence, req>>

\* The code was spent meanwhile, or the request failed.
TurnedAway(v) ==
  /\ visit[v] # None
  /\ visit' = [visit EXCEPT ![v] = None]
  /\ UNCHANGED <<rows, req>>

\* Time passes: a session's, and a grant's, which no session outlives.
SessionEnds(p, v) ==
  /\ session[p][v] = "live"
  /\ session' = [session EXCEPT ![p][v] = "over"]
  /\ UNCHANGED <<pkg, scope, evidence, grant, req, visit>>

\* Mutant of Expire: a job flips the status too.
ExpireFlipsStatus(p) ==
  /\ grant[p].granted /\ ~grant[p].expired
  /\ grant' = [grant EXCEPT ![p].expired = TRUE]
  /\ session' = Over({p})
  /\ pkg' = [pkg EXCEPT ![p].status = "expired"]
  /\ UNCHANGED <<scope, evidence, req, visit>>

\* The grant runs out; the row keeps its status.
Expire(p) ==
  /\ grant[p].granted /\ ~grant[p].expired
  /\ grant' = [grant EXCEPT ![p].expired = TRUE]
  /\ session' = Over({p})
  /\ UNCHANGED <<pkg, scope, evidence, req, visit>>

-----------------------------------------------------------------------------
CreatorStep(c) ==
  \/ \E op \in DOMAIN Accepts, p \in Packages :
        Load(c, op, p)
  \/ \E s \in SUBSET Msgs : UpdateScope(c, s)
  \/ \E found \in SUBSET Msgs : Generate(c, found)
  \/ PublishRead(c)
  \/ PublishCommit(c)
  \/ Revoke(c)
  \/ VersionRead(c)
  \/ \E p \in Packages : VersionCommit(c, p)
  \/ GiveUp(c)

RecipientStep(v) ==
  \/ \E p \in Packages : CheckCode(v, p)
  \/ ClaimCode(v)
  \/ TurnedAway(v)
  \/ \E p \in Packages : SessionEnds(p, v)

Next ==
  \/ \E p \in Packages : Create(p)
  \/ \E p, original \in Packages, s \in SUBSET Msgs : CreateReturn(p, original, s)
  \/ \E c \in Requests : CreatorStep(c)
  \/ \E v \in Visitors : RecipientStep(v)
  \/ \E p \in Packages : Expire(p)

Spec == Init /\ [][Next]_vars

-----------------------------------------------------------------------------
\* Properties.

TypeOK ==
  /\ pkg \in [Packages -> Package]
  /\ scope \in [Packages -> SUBSET Msgs]
  /\ evidence \in [Packages -> SUBSET Msgs]
  /\ grant \in [Packages -> Grant]
  /\ session \in [Packages -> [Visitors -> {"none", "live", "over"}]]
  /\ req \in [Requests -> Request]
  /\ visit \in [Visitors -> Packages \cup {None}]

\* "The recipient always sees exactly one live version" (domain spec, section 6): no two
\* packages of a lineage are published, whatever copies the handlers decide on.
OneLiveVersion ==
  \A p \in Packages : \A q \in Lineage(p) \ {p} :
     ~(pkg[p].status = "published" /\ pkg[q].status = "published")

\* new_version_handoff: forks of any packages of a lineage, in any order, get versions
\* of their own.
VersionsDistinct ==
  \A p \in Packages : \A q \in Lineage(p) \ {p} :
     pkg[p].status # "absent" => pkg[p].version # pkg[q].version

\* start_session: however many exchanges of a code race, one of them gets a session.
OneReaderPerCode ==
  \A p \in Packages : \A v, w \in Visitors :
     session[p][v] # "none" /\ session[p][w] # "none" => v = w

\* lifecycle.py: "an already-issued bearer cannot outlive the revoke": a package that was
\* revoked or superseded has its grant revoked and no live session.
EndedIsClosed ==
  \A p \in Packages :
     pkg[p].status \in {"revoked", "superseded"}
     => grant[p].revoked /\ \A v \in Visitors : session[p][v] # "live"

\* Recipients see the packages as Sharing says, as long as handlers do not overlap.
Access ==
  [p \in Packages |-> IF ~grant[p].granted THEN "never" ELSE IF Live(p) THEN "open" ELSE "closed"]
Shares == INSTANCE Sharing WITH lineage <- [p \in Packages |-> pkg[p].lineage], access <- Access
KeepsSharing == Shares!Spec
=============================================================================
