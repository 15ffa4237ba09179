------------------------------- MODULE Maps -------------------------------
(***************************************************************************)
(* What a mailbox shows of its people and projects: the relationship map   *)
(* (services/relationships/derive.py), the network map and its contacts    *)
(* (services/api/routers/network_map.py), the projects and one project     *)
(* (services/api/routers/project_view.py), over the rows that the graph    *)
(* and the roles of L1 (services/enrich/graph.py, roles.py) are.           *)
(*                                                                         *)
(* Each view is computed for the request, from one statement after another *)
(* under READ COMMITTED while jobs commit; nothing is persisted.  The      *)
(* model cuts a request at its statements.  Wording, labels and the muting *)
(* of weak edges are left out.                                             *)
(***************************************************************************)
EXTENDS Integers, FiniteSets, FiniteSetsExt

CONSTANTS
  Owner, Contacts,
  Universe,     \* message rows: [header, thread, sender, to, noise, tagged, says]
  Domain,       \* the organization of each contact, NoNode if it has none
  Internal, Legal,   \* domains
  Trusted,      \* the roles whose confidence reaches the threshold
  Projects,
  Old,          \* messages and projects that are long past
  Involvement,  \* of a member of a project
  BridgeMin,    \* projects that make a member a bridge
  MinEvidence, MaxNodes, MaxEdges,
  MaxShared,    \* shared threads that a contact's detail lists
  MapRoots,     \* the nodes that a request for a graph or an organization map may name as its root
  Filters,      \* what a request may ask for: [types, weight, recency], no types for all of them
  MaxWrites,    \* bound: commits by jobs
  NoNode

Threads == {m.thread : m \in Universe}
Headers == {m.header : m \in Universe}
People == Contacts \cup {Owner}
Domains == {Domain[p] : p \in Contacts} \ {NoNode}
Nodes == People \cup Projects \cup Domains
Roles == {"internal", "manager", "vendor", "ae", "lead", "unknown"}
Types == {"direct_exchange", "thread_copresence", "project_copresence", "org_affiliation", "bridge"}

ASSUME MapConstants ==
  /\ IsFiniteSet(Universe) /\ IsFiniteSet(Nodes)
  /\ \A m \in Universe : /\ m.sender \in People /\ m.to \subseteq People
                         /\ m.noise \in BOOLEAN /\ m.tagged \in BOOLEAN /\ m.says \subseteq Roles
  /\ Owner \notin Contacts /\ NoNode \notin Nodes
  /\ People \cap (Projects \cup Domains) = {} /\ Projects \cap Domains = {}
  /\ Old \subseteq Headers \cup Projects
  /\ Involvement \in Nat /\ BridgeMin \in Nat \ {0} /\ MinEvidence \in Nat \ {0}
  /\ MaxNodes \in Nat \ {0} /\ MaxEdges \in Nat \ {0} /\ MaxShared \in Nat \ {0} /\ MaxWrites \in Nat
  /\ MapRoots \subseteq Nodes
  /\ Filters \subseteq [types : SUBSET Types, weight : Nat, recency : BOOLEAN]

VARIABLES
  stored,    \* message rows
  people,    \* person rows; their identity rows come and go with them
  roles,     \* the role in each contact's row
  edges,     \* the contacts with a relationship row
  projects,  \* project rows
  assigned,  \* thread_project_assignment
  members,   \* project_member
  outcomes,  \* outcome events: [project, cites]
  req,       \* the request under way
  answer,    \* what the last one was answered
  listing,   \* the list of projects that was last answered, if no job has committed since
  extant,    \* history: message rows there have been since the request began
  writes

db == <<stored, people, roles, edges, projects, assigned, members, outcomes>>
mapsVars == <<db, req, answer, listing, extant, writes>>

-----------------------------------------------------------------------------
\* L1: what the rows are derived from.

Parties(m) == {m.sender} \cup m.to
Addresses(rows) == UNION {Parties(m) : m \in rows}
TakePart(rows, t) == Addresses({m \in rows : m.thread = t})

\* Whole-thread exclusion: a message to show, and none that is tagged.
Safe(m) == ~m.noise /\ ~m.tagged
Eligible(rows) ==
  {t \in Threads : /\ \E m \in rows : m.thread = t /\ Safe(m)
                   /\ \A m \in rows : m.thread = t => ~m.tagged}

\* With whom the owner exchanges a message.
Others(m) == IF m.sender = Owner THEN m.to \ {Owner}
             ELSE IF Owner \in m.to THEN {m.sender} ELSE {}
Exchanges(rows) == UNION {Others(m) : m \in {n \in rows : ~n.noise}}

\* The role the first signal names: the domain, then what the contact wrote.
Says(rows, p) == UNION {m.says : m \in {n \in rows : n.sender = p /\ ~n.noise}}
Inferred(rows, p) ==
  LET s == Says(rows, p) IN
  IF Domain[p] \in Internal THEN IF "manager" \in s THEN "manager" ELSE "internal"
  ELSE IF Domain[p] \in Legal \/ "vendor" \in s THEN "vendor"
  ELSE IF "ae" \in s THEN "ae"
  ELSE IF "lead" \in s THEN "lead" ELSE "unknown"
RoleOf(rows, p) == IF Inferred(rows, p) \in Trusted THEN Inferred(rows, p) ELSE "unknown"

\* Members of a project: the known senders of the messages its threads were clustered by.
MembersOf(as, known, rows) ==
  {a \in Projects \X (Contacts \cap known) :
     \E m \in rows : <<m.thread, a[1]>> \in as /\ Safe(m) /\ m.sender = a[2]}
Assignments(ps, rows) == {as \in SUBSET (Eligible(rows) \X ps) :
                            {a[1] : a \in as} = Eligible(rows) /\ {a[2] : a \in as} = ps}

-----------------------------------------------------------------------------
Kinds == {"map", "network", "contact", "list", "project"}
States == {"stale", "active", "shipping"}
Info == [thread : Threads, projects : SUBSET Projects, with : SUBSET Contacts, old : BOOLEAN]
Edge == [type : Types, ends : SUBSET Nodes, msgs : SUBSET Headers,
         threads : SUBSET Threads, projects : SUBSET Projects]
Outcome == [project : Projects, cites : Headers]
\* The statement that comes next.
Stages == {"idle", "people", "known", "projects", "members", "edges", "eligible", "assigned",
           "threads", "mail", "derive", "owner", "join", "contact", "edge", "emails", "recent",
           "list", "outcomes", "stamps", "assigns", "ends", "project", "team", "weights"}
Request ==
  [at : Stages, kind : Kinds, mode : {"graph", "owner", "org", "project"},
   root : Nodes \cup {NoNode}, types : SUBSET Types, weight : Nat, recency : BOOLEAN,
   people : SUBSET People, known : SUBSET People, projects : SUBSET Projects,
   members : SUBSET (Projects \X Contacts), edges : SUBSET Contacts,
   eligible : SUBSET Threads, assigned : SUBSET (Threads \X Projects),
   info : SUBSET Info, mail : SUBSET Universe,
   outcomes : SUBSET Outcome, recent : SUBSET Projects,
   states : SUBSET (Projects \X States), began : 0..MaxWrites]
NoRequest == [at |-> "idle", kind |-> "map", mode |-> "owner", root |-> NoNode,
         types |-> {}, weight |-> 0, recency |-> FALSE,
         people |-> {}, known |-> {}, projects |-> {}, members |-> {}, edges |-> {},
         eligible |-> {}, assigned |-> {}, info |-> {}, mail |-> {},
         outcomes |-> {}, recent |-> {}, states |-> {}, began |-> 0]
Answer == [code : {200, 404}, nodes : SUBSET Nodes, edges : SUBSET Edge,
           states : SUBSET (Projects \X States)]
Nothing == [code |-> 200, nodes |-> {}, edges |-> {}, states |-> {}]

\* A mailbox that was ingested, enriched and clustered; more may have arrived since.
MapsInit ==
  /\ \E rows, later \in SUBSET Universe, enriched \in BOOLEAN, ps \in SUBSET Projects :
       \E as \in IF ps = {} THEN {{}} ELSE Assignments(ps, rows) :
         /\ rows \cap later = {} /\ (enriched \/ ps = {})
         /\ stored = rows \cup later
         /\ people = IF enriched THEN Addresses(rows) ELSE {}
         /\ edges = IF enriched THEN Exchanges(rows) ELSE {}
         /\ roles = [p \in Contacts |-> IF enriched THEN RoleOf(rows, p) ELSE "unknown"]
         /\ projects = ps /\ assigned = as
         /\ members = MembersOf(as, people, rows)
         /\ outcomes = {}
  /\ req = NoRequest /\ answer = Nothing /\ listing = {}
  /\ extant = {} /\ writes = 0

-----------------------------------------------------------------------------
(***************************************************************************)
(* Jobs, as the request sees them: each commits at once.                   *)
(***************************************************************************)
Commit == /\ writes < MaxWrites /\ writes' = writes + 1
          /\ extant' = extant \cup stored'
          /\ listing' = {}
          /\ UNCHANGED <<req, answer>>

AppendMail == \E m \in Universe \ stored :
  /\ stored' = stored \cup {m}
  /\ UNCHANGED <<people, roles, edges, projects, assigned, members, outcomes>>
  /\ Commit

\* Mutant of Replace: the memberships outlive the projects.
ReplaceKeepsMembers == \E rows \in SUBSET Universe :
  /\ stored' = rows
  /\ people' = {} /\ roles' = [p \in Contacts |-> "unknown"] /\ edges' = {}
  /\ projects' = {} /\ assigned' = {} /\ outcomes' = {} /\ UNCHANGED members
  /\ Commit

Replace == \E rows \in SUBSET Universe :
  /\ stored' = rows
  /\ people' = {} /\ roles' = [p \in Contacts |-> "unknown"] /\ edges' = {}
  /\ projects' = {} /\ assigned' = {} /\ members' = {} /\ outcomes' = {}
  /\ Commit

Enrich ==
  /\ people' = people \cup Addresses(stored)
  /\ edges' = edges \cup Exchanges(stored)
  /\ roles' = [p \in Contacts |-> IF p \in Addresses(stored) THEN RoleOf(stored, p) ELSE roles[p]]
  /\ UNCHANGED <<stored, projects, assigned, members, outcomes>>
  /\ Commit

\* Without an eligible thread nothing is written, and the old projects stay.
Materialize == \E ps \in SUBSET Projects : \E as \in Assignments(ps, stored) :
  /\ Eligible(stored) # {}
  /\ projects' = ps /\ assigned' = as
  /\ members' = MembersOf(as, people, stored)
  /\ outcomes' = {o \in outcomes : o.project \in ps}
  /\ UNCHANGED <<stored, people, roles, edges>>
  /\ Commit

\* An event that names a project: a full run_enrichment with threads and an extractor makes
\* one; those of the jobs' extraction name none and no map shows them.
Extract == \E a \in assigned, m \in stored :
  /\ m.thread = a[1] /\ \A n \in stored : n.thread = m.thread => ~n.tagged
  /\ outcomes' = outcomes \cup {[project |-> a[2], cites |-> m.header]}
  /\ UNCHANGED <<stored, people, roles, edges, projects, assigned, members>>
  /\ Commit

Jobs == AppendMail \/ Replace \/ Enrich \/ Materialize \/ Extract

-----------------------------------------------------------------------------
(***************************************************************************)
(* The request, one statement after the other.                             *)
(***************************************************************************)
Go(r) == req' = r /\ UNCHANGED <<db, answer, listing, extant, writes>>
Respond(code, nodes, es, states) ==
  /\ answer' = [code |-> code, nodes |-> nodes, edges |-> es, states |-> states]
  /\ listing' = IF req.kind = "list" /\ req.began = writes THEN states ELSE listing
  /\ req' = NoRequest /\ UNCHANGED <<db, extant, writes>>
NotFound == Respond(404, {}, {}, {})
Begin(r) == /\ req.at = "idle" /\ req' = [r EXCEPT !.began = writes] /\ answer' = Nothing
            /\ extant' = stored
            /\ UNCHANGED <<db, listing, writes>>

Asked(at, kind, root) == [NoRequest EXCEPT !.at = at, !.kind = kind, !.root = root]

\* An owner's map has the owner for its root.
RootsOf == [graph |-> MapRoots, owner |-> {}, org |-> MapRoots, project |-> Projects]
AskMap == \E mode \in {"graph", "owner", "org", "project"}, f \in Filters :
  \E root \in {NoNode} \cup RootsOf[mode] :
    Begin([NoRequest EXCEPT !.at = "people", !.mode = mode, !.root = root, !.types = f.types,
                       !.weight = f.weight, !.recency = f.recency])

\* _load_base.
ReadPeople == req.at = "people" /\ Go([req EXCEPT !.at = "known", !.people = people])
ReadKnown == req.at = "known" /\ Go([req EXCEPT !.at = "projects", !.known = people])
ReadProjects == req.at = "projects" /\ Go([req EXCEPT !.at = "members", !.projects = projects])
ReadMembers == /\ req.at = "members"
               /\ Go([req EXCEPT !.at = "edges", !.members = {m \in members : m[1] \in req.projects}])
ReadEdges == req.at = "edges" /\ Go([req EXCEPT !.at = "eligible", !.edges = edges])
ReadEligible == req.at = "eligible" /\ Go([req EXCEPT !.at = "assigned", !.eligible = Eligible(stored)])
ReadAssigned == req.at = "assigned" /\ Go([req EXCEPT !.at = "threads", !.assigned = assigned])
Past(rows, t) == {m.header : m \in {n \in rows : n.thread = t}} \subseteq Old
ProjectsOfThread(as, t) == {a[2] : a \in {b \in as : b[1] = t}}
ReadThreads ==
  /\ req.at = "threads"
  /\ Go([req EXCEPT !.at = "mail", !.info =
       {[thread |-> t, projects |-> ProjectsOfThread(req.assigned, t),
         with |-> (TakePart(stored, t) \cap req.known) \ {Owner}, old |-> Past(stored, t)] :
          t \in {u \in req.eligible : (\E m \in stored : m.thread = u)
                                      /\ ProjectsOfThread(req.assigned, u) # {}}}])
\* Mutant of ReadMail: the threads were eligible, so all of their messages are taken.
ReadMailWhole == /\ req.at = "mail"
                 /\ Go([req EXCEPT !.at = "derive", !.mail = {m \in stored : m.thread \in req.eligible}])

ReadMail == /\ req.at = "mail"
            /\ Go([req EXCEPT !.at = "derive",
                     !.mail = {m \in stored : Safe(m) /\ m.thread \in req.eligible}])

\* The headers of the safe messages between the owner and a contact.
With(m) == IF m.sender = Owner THEN m.to ELSE IF Owner \in m.to THEN {m.sender} ELSE {}
HeadersWith(r, p) == {m.header : m \in {n \in r.mail : p \in With(n) /\ p \in r.known}}

Pairs == kSubset(2, Contacts)
Rel(type, ends, msgs, ts, ps) ==
  [type |-> type, ends |-> ends, msgs |-> msgs, threads |-> ts, projects |-> ps]

Direct(r) ==
  {Rel("direct_exchange", {Owner, p}, HeadersWith(r, p), {}, {}) :
     p \in {q \in (r.edges \cap r.people) \ {Owner} : HeadersWith(r, q) # {}}}

Together(r) ==
  {Rel("thread_copresence", pair, {}, {i.thread : i \in {j \in r.info : pair \subseteq j.with}},
       UNION {i.projects : i \in {j \in r.info : pair \subseteq j.with}}) :
     pair \in {c \in Pairs : \E i \in r.info : c \subseteq i.with}}

ProjectsOf(r, p) == {m[1] : m \in {n \in r.members : n[2] = p}}
Shared(r, pair) == {q \in Projects : \A p \in pair : q \in ProjectsOf(r, p)}
Colleagues(r) == {Rel("project_copresence", pair, {}, {}, Shared(r, pair)) :
                    pair \in {c \in Pairs : Shared(r, c) # {}}}
Copresence(r) == Together(r) \cup Colleagues(r)

\* Who appears in an eligible relationship, or is a member of a project.
Relevant(r) == {p \in r.edges \cap r.people : HeadersWith(r, p) # {}}
               \cup (UNION {i.with : i \in r.info}) \cup {m[2] : m \in r.members}

Wanted(r, es) == IF r.types = {} THEN es ELSE {e \in es : e.type \in r.types}
Affiliated(r, ps) == {Rel("org_affiliation", {p, Domain[p]}, {}, {}, {}) :
                        p \in {q \in (ps \cap r.people) \ {Owner} : Domain[q] # NoNode}}
Bridges(r, ps) ==
  {Rel("bridge", {b[1], b[2]}, {}, {}, ProjectsOf(r, b[1])) :
     b \in {c \in (ps \cap r.people) \X r.projects :
              /\ Cardinality(ProjectsOf(r, c[1])) >= BridgeMin
              /\ c[2] \in ProjectsOf(r, c[1])}}

\* _to_edge: what an edge rests on, and when it was last seen.
Evidence(e) == CASE e.type = "direct_exchange" -> Cardinality(e.msgs)
                 [] e.type = "thread_copresence" -> Cardinality(e.threads)
                 [] e.type = "org_affiliation" -> 1
                 [] OTHER -> Cardinality(e.projects)
Structural(e) == e.type = "project_copresence" /\ e.ends \cap Projects # {}
Weight(e) == IF Structural(e) THEN Involvement ELSE Evidence(e)
LongPast(r, e) ==
  CASE e.type = "direct_exchange" -> e.msgs \subseteq Old
    [] e.type = "thread_copresence" -> \A i \in r.info : i.thread \in e.threads => i.old
    [] e.type = "project_copresence" -> e.projects \subseteq Old
    [] e.type = "bridge" -> e.ends \cap Projects \subseteq Old
    [] OTHER -> FALSE
Passing(r, es) == {e \in es : /\ Evidence(e) >= MinEvidence /\ Weight(e) >= r.weight
                              /\ r.recency => ~LongPast(r, e)}

EndsOf(es) == UNION {e.ends : e \in es}
Rank(n) == IF n = Owner THEN 0 ELSE IF n \in Projects THEN 1 ELSE IF n \in Domains THEN 2 ELSE 3
AtMost(n, S) == IF Cardinality(S) <= n THEN {S} ELSE kSubset(n, S)
Capped(nodes) == {ns \in AtMost(MaxNodes, nodes) : \A x \in ns, y \in nodes \ ns : Rank(x) <= Rank(y)}

\* Mutant of FinalizeGraph: the edges are capped, and not those of the dropped nodes dropped.
FinalizeGraphOpen(nodes, es) ==
  \E ns \in Capped(nodes) : \E ks \in AtMost(MaxEdges, es) : Respond(200, ns, ks, {})

\* _finalize; only a graph is capped, its nodes in order of their types.
FinalizeGraph(nodes, es) ==
  \E ns \in Capped(nodes) : \E ks \in AtMost(MaxEdges, {e \in es : e.ends \subseteq ns}) :
    Respond(200, ns, ks, {})
Finalize(r, built, es, root) ==
  LET kept == Passing(r, es)  nodes == built \cap (EndsOf(kept) \cup {root}) IN
  IF r.mode = "graph" THEN FinalizeGraph(nodes, kept) ELSE Respond(200, nodes, kept, {})

\* Both ends of a link get a node, or it is left out; the end that was looked up first may have
\* its node by then.
DeriveGraph(r) ==
  LET known == r.people \cup {Owner}
      links == Wanted(r, Direct(r) \cup Copresence(r))
      whole == {e \in links : e.ends \subseteq known}
      es == whole \cup Wanted(r, Affiliated(r, Relevant(r)) \cup Bridges(r, Relevant(r)))
  IN  \E alone \in SUBSET (EndsOf(links \ whole) \cap known) : Finalize(r, EndsOf(es) \cup alone, es, r.root)

\* The contacts the owner writes with, and the links among them.
DeriveOwner(r) ==
  LET ds == Wanted(r, Direct(r))
      nodes == {Owner} \cup EndsOf(ds)
      links == {e \in Wanted(r, Copresence(r)) : e.ends \subseteq nodes \ {Owner}}
  IN  Finalize(r, nodes, ds \cup links, Owner)

DeriveOrg(r) ==
  LET es == Affiliated(r, Relevant(r)) IN Finalize(r, EndsOf(es), Wanted(r, es), r.root)

\* The links among the members are taken whether or not their person rows were read.
ProjectTree(r, q) ==
  LET team == {m[2] : m \in {n \in r.members : n[1] = q}}
      branches == {Rel("project_copresence", {q, p}, {}, {}, {q}) : p \in team \cap r.people}
      links == {e \in Copresence(r) : e.ends \subseteq team}
      orgs == Wanted(r, Affiliated(r, team))
  IN  Finalize(r, {q} \cup (team \cap r.people) \cup EndsOf(orgs), Wanted(r, branches \cup links) \cup orgs, q)
\* The project that was asked for, or the one of the highest confidence.
Chosen(r) == IF r.root \in r.projects THEN {r.root} ELSE r.projects
DeriveProject(r) == \/ Chosen(r) = {} /\ Finalize(r, {}, {}, NoNode)
                    \/ \E q \in Chosen(r) : ProjectTree(r, q)

Derive == /\ req.at = "derive"
          /\ CASE req.mode = "graph" -> DeriveGraph(req)
               [] req.mode = "owner" -> DeriveOwner(req)
               [] req.mode = "org" -> DeriveOrg(req)
               [] OTHER -> DeriveProject(req)

ShowMap == \/ AskMap \/ ReadPeople \/ ReadKnown \/ ReadProjects \/ ReadMembers \/ ReadEdges
           \/ ReadEligible \/ ReadAssigned \/ ReadThreads \/ ReadMail \/ Derive

-----------------------------------------------------------------------------
\* The network map: the rows of the graph, joined to their persons, of the roles asked for.
AskNetwork == Begin(Asked("owner", "network", NoNode))
FindOwner == /\ req.at = "owner"
             /\ IF Owner \in people THEN Go([req EXCEPT !.at = "join"]) ELSE NotFound
ShowNetwork == /\ req.at = "join"
               /\ \E rs \in {Roles, {"vendor"}} :
                    Respond(200, {p \in edges \cap people : roles[p] \in rs}, {}, {})

\* One contact: the person, the edge, the addresses, the latest threads shared with the owner.
AskContact == \E p \in Contacts : Begin(Asked("contact", "contact", p))
FindContact == /\ req.at = "contact"
               /\ IF req.root \in people THEN Go([req EXCEPT !.at = "edge"]) ELSE NotFound
FindEdge == /\ req.at = "edge"
            /\ IF req.root \in edges THEN Go([req EXCEPT !.at = "emails"]) ELSE NotFound
ReadEmails == req.at = "emails" /\ Go([req EXCEPT !.at = "recent", !.known = people \cap {req.root}])
ShowContact ==
  /\ req.at = "recent"
  /\ LET shared == {t \in Threads : {Owner, req.root} \subseteq TakePart(stored, t)}
     IN  \E ts \in AtMost(MaxShared, shared) :
           Respond(200, (UNION {TakePart(stored, t) : t \in ts}) \ {Owner, req.root}, {}, {})

-----------------------------------------------------------------------------
\* The projects, and one of them.
StateOf(past, recent) == IF past THEN "stale" ELSE IF recent THEN "shipping" ELSE "active"
Live(ts) == {t \in ts : \E m \in stored : m.thread = t}
Fresh(os) == {o.project : o \in {u \in os : \E m \in stored : m.header = u.cites /\ m.header \notin Old}}

AskList == Begin(Asked("list", "list", NoNode))
ReadList == req.at = "list" /\ Go([req EXCEPT !.at = "outcomes", !.projects = projects])
ReadOutcomes == req.at = "outcomes" /\ Go([req EXCEPT !.at = "stamps", !.outcomes = outcomes])

\* _recent_outcome_project_ids.
ReadStamps == /\ req.at = "stamps" /\ req.kind = "list"
              /\ Go([req EXCEPT !.at = "assigns", !.recent = Fresh(req.outcomes)])
\* Project by project, its assignments and then the ends of their threads.
ThreadsOf(as, q) == {a[1] : a \in {b \in as : b[2] = q}}
Listed(r) == {s[1] : s \in r.states}
ReadAssigns == /\ req.at = "assigns" /\ req.kind = "list" /\ req.projects # Listed(req)
               /\ \E q \in req.projects \ Listed(req) :
                    Go([req EXCEPT !.at = "ends", !.root = q, !.eligible = ThreadsOf(assigned, q)])
ReadEnds == /\ req.at = "ends" /\ req.kind = "list"
            /\ Go([req EXCEPT !.at = "assigns", !.states = @ \cup
                     {<<req.root, StateOf(\A t \in Live(req.eligible) : Past(stored, t), req.root \in req.recent)>>}])
ShowList == /\ req.at = "assigns" /\ req.kind = "list" /\ req.projects = Listed(req)
            /\ Respond(200, req.projects, {}, req.states)

AskProject == \E q \in Projects : Begin(Asked("project", "project", q))
FindProject == /\ req.at = "project"
               /\ IF req.root \in projects THEN Go([req EXCEPT !.at = "team"]) ELSE NotFound
ReadTeam == /\ req.at = "team"
            /\ Go([req EXCEPT !.at = "weights", !.members = {m \in members : m[1] = req.root}])
ReadWeights == req.at = "weights" /\ Go([req EXCEPT !.at = "assigns", !.edges = edges])
ReadItsThreads == /\ req.at = "assigns" /\ req.kind = "project"
                  /\ Go([req EXCEPT !.at = "ends", !.eligible = ThreadsOf(assigned, req.root)])
ReadRecent == /\ req.at = "ends" /\ req.kind = "project"
              /\ Go([req EXCEPT !.at = "outcomes", !.eligible = Live(req.eligible),
                       !.info = {[thread |-> t, projects |-> {req.root}, with |-> {},
                                  old |-> Past(stored, t)] : t \in Live(req.eligible)}])
\* _activity_for_project.
ShowProject == /\ req.at = "stamps" /\ req.kind = "project"
               /\ Respond(200, {m[2] : m \in req.members}, {},
                    {<<req.root, StateOf(\A i \in req.info : i.old, req.root \in Fresh(req.outcomes))>>})

ShowPeople == AskNetwork \/ FindOwner \/ ShowNetwork \/ AskContact \/ FindContact \/ FindEdge
              \/ ReadEmails \/ ShowContact
ShowProjects == \/ AskList \/ ReadList \/ ReadOutcomes \/ ReadStamps \/ ReadAssigns \/ ReadEnds
                \/ ShowList \/ AskProject \/ FindProject \/ ReadTeam \/ ReadWeights
                \/ ReadItsThreads \/ ReadRecent \/ ShowProject

MapsNext == Jobs \/ ShowMap \/ ShowPeople \/ ShowProjects
MapsSpec == MapsInit /\ [][MapsNext]_mapsVars

-----------------------------------------------------------------------------
MapsTypeOK ==
  /\ stored \subseteq Universe /\ people \subseteq People /\ roles \in [Contacts -> Roles]
  /\ edges \subseteq Contacts /\ projects \subseteq Projects
  /\ assigned \subseteq Threads \X projects /\ members \subseteq projects \X (Contacts \cap people)
  /\ outcomes \subseteq Outcome
  /\ req \in Request /\ answer \in Answer
  /\ listing \subseteq Projects \X States
  /\ extant \subseteq Universe /\ writes \in 0..MaxWrites

\* A map is closed: what an edge joins is shown, whatever was committed between the statements the
\* map was read with (derive.py, ensure_person, contact_ids, _finalize).  The project mode is
\* left out: it links members whose person rows it has not seen.
MapIsClosed ==
  [][(req.at = "derive" /\ req'.at = "idle" /\ req.mode # "project")
       => EndsOf(answer'.edges) \subseteq answer'.nodes]_mapsVars

\* A direct relationship is shown only with evidence, and the evidence may be shown: it is
\* messages between the two that are neither noise nor tagged, although the row it starts from
\* counts tagged ones, and a thread may be tagged after it was found eligible (derive.py,
\* _direct_exchange and the query of the safe messages).
DirectIsBacked ==
  [][(req.at = "derive" /\ req'.at = "idle") =>
       \A e \in answer'.edges : e.type = "direct_exchange" =>
         /\ e.msgs # {}
         /\ \A h \in e.msgs : \E m \in extant :
              m.header = h /\ Safe(m) /\ e.ends \cap Parties(m) = e.ends]_mapsVars

\* A project that is opened has the state it had in the list, unless a job committed in between:
\* the two are computed by different queries (project_view.py, _recent_outcome_project_ids and
\* _activity_for_project).
ListingHolds ==
  [][(req.kind = "project" /\ req.at = "stamps" /\ req'.at = "idle") =>
       \A s \in listing : s[1] = req.root => s \in answer'.states]_mapsVars

\* What the dashboard shows agrees with itself.
ViewsAgree == MapIsClosed /\ ListingHolds
=============================================================================
