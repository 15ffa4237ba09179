--------------------------- MODULE HandoffContent ---------------------------
(***************************************************************************)
(* What is in a handoff package and what its readers are shown of it: the  *)
(* candidate generator (services/handoff/generator.py), the safety scan    *)
(* that gates its publication (safety.py), the scope a return handoff is   *)
(* seeded with (return_scope.py, return_handoff.py), the recipient's view, *)
(* coverage contract and answers (coverage_contract.py, ask.py,            *)
(* routers/handoff_recipient.py) and the static export (export_html.py).   *)
(*                                                                         *)
(* The life cycle of a package is HandoffLifecycle's; a package here is    *)
(* drafted, generated and published.  The generator and the seeding read   *)
(* the live mailbox one statement at a time while jobs commit; the model   *)
(* cuts them there.  The creator's handlers share one API process and do   *)
(* not interleave, though each runs on the copy of the package its guard   *)
(* has loaded; the recipient's handlers run in another process and may see *)
(* a package regenerated between their two reads.  A text is the set of    *)
(* its words; a pattern of the scan or an intent of a question is a word.  *)
(***************************************************************************)
EXTENDS Integers, FiniteSets, FiniteSetsExt, SequencesExt

CONSTANTS
  Universe,     \* message rows: [header, thread, box, day, sender, to, noise, tagged, words]
  Starts,       \* what the mailboxes may hold at first
  Extractable,  \* event rows: [box, type, cites, project, words, weak]
  Boxes, Packages, Emails,
  Senders,      \* the mailboxes whose owners hand off; the others' do on return
  Domain,       \* of an address
  Personal,     \* domains of personal mail
  Projects, ProjectBox, Label,   \* a label is a set of words, {} for none
  Scopes,       \* what the creator may choose
  Windows,      \* of a return handoff: <<from, to>>, days, inclusive; the first is the default
  Queries,      \* [words, asks]: the words of a question and the intents its wording matches
  MaxClaims, MaxEvidence,        \* of an answer
  MaxGen, MaxWrites,             \* bounds: generations, commits by jobs
  None

Headers == {m.header : m \in Universe}
Threads == {m.thread : m \in Universe}
Words == (UNION {m.words : m \in Universe}) \cup (UNION {e.words : e \in Extractable})
           \cup (UNION {Label[q] : q \in Projects})
Persons == Boxes \X Emails     \* person and identity rows: enrichment makes one of each per address

Domains == {Domain[e] : e \in Emails}
\* allowed_domains selects nothing; a return handoff carries it on.
Scope == [window : Int \X Int, threads : SUBSET Threads, projects : SUBSET Projects, people : SUBSET Persons,
          xthreads : SUBSET Threads, xheaders : SUBSET Headers, domains : SUBSET Domains]
Event == [box : Boxes, type : {"did", "proposed", "outcome"}, cites : SUBSET Headers,
          project : Projects \cup {None}, words : SUBSET Words, weak : BOOLEAN]

\* A header stands for a Message-ID in one mailbox; whether a mail is noise follows from its own
\* headers and sender, so it is the same each time the mail is ingested.  The project of an event
\* is the primary project of its thread, and of its mailbox.
ASSUME ContentConstants ==
  /\ \A m \in Universe : m.box \in Boxes /\ m.sender \in Emails /\ m.to \subseteq Emails /\ m.day \in Int
  /\ \A m, n \in Universe : m.header = n.header => m.box = n.box /\ m.noise = n.noise
  /\ \A ms \in Starts : ms \subseteq Universe /\ \A m, n \in ms : m.header = n.header => m = n
  /\ \A e \in Extractable : e \in Event /\ e.cites # {} /\ (e.project = None \/ ProjectBox[e.project] = e.box)
  /\ Scopes \subseteq Scope /\ Windows \subseteq Int \X Int /\ Windows # {}
  /\ IsFiniteSet(Universe) /\ IsFiniteSet(Extractable) /\ IsFiniteSet(Packages)
  /\ \A q \in Queries : IsFiniteSet(q.words)
  /\ MaxClaims \in Nat \ {0} /\ MaxEvidence \in Nat \ {0} /\ MaxGen \in Nat /\ MaxWrites \in Nat
  /\ Senders \subseteq Boxes /\ None \notin Packages \cup Projects

VARIABLES
  stored,    \* message rows
  known,     \* person rows
  projects,  \* project rows
  assigned,  \* thread_project_assignment
  events,    \* event rows
  pkg,       \* packages: [status, box, gen]; each generation draws new claim ids
  scope,     \* their scopes
  claims, evidence, excluded,    \* their claim, evidence and exclusion rows
  loaded,    \* requests whose guard has loaded the package, with the status it had
  req,       \* the creator's handler that runs
  reviewed,  \* the candidate whose findings the creator was last shown: [pkg, gen, claims, evidence]
  view,      \* what a recipient's handler has read
  clean,     \* history: headers open to a handoff at some moment of the running generation
  basis,     \* history: clean, as of each package's last generation
  writes

mail == <<stored, known, projects, assigned, events>>
rows == <<pkg, scope, claims, evidence, excluded, basis>>
vars == <<mail, rows, loaded, req, reviewed, view, clean, writes>>

-----------------------------------------------------------------------------
\* The generator's queries.

\* Whole threads are held back for one tagged message.
Eligible(box) ==
  {t \in Threads : /\ \E m \in stored : m.thread = t /\ m.box = box
                   /\ \A m \in stored : m.thread = t /\ m.box = box => ~m.tagged}

Selected(m, s) ==
  IF s.threads # {} THEN m.thread \in s.threads
  ELSE s.projects # {} => \E q \in s.projects : <<m.thread, q>> \in assigned
Within(m, s) == s.window[1] <= m.day /\ m.day <= s.window[2]
Concerns(m, s, emails) == s.people # {} => ({m.sender} \cup m.to) \cap emails # {}

\* The known addresses of the people of a scope.
AddressesOf(s, box) == {p[2] : p \in {q \in s.people \cap known : q[1] = box}}

InScope(s, box, emails) ==
  {m \in stored : m.box = box /\ ~m.noise /\ Within(m, s) /\ Selected(m, s) /\ Concerns(m, s, emails)}
Retained(ms, s) == {m \in ms : m.thread \notin s.xthreads /\ m.header \notin s.xheaders}

Kind(type) == IF type = "proposed" THEN "open_loop" ELSE "decision"
ClaimsFromEvents(s, box, safe) ==
  {[kind |-> Kind(e.type), words |-> e.words, project |-> e.project, label |-> {},
    cites |-> e.cites \cap safe, weak |-> e.weak] :
     e \in {f \in events : /\ f.box = box /\ f.cites \cap safe # {}
                           /\ s.projects = {} \/ f.project = None \/ f.project \in s.projects}}
Cited(cs) == UNION {c.cites : c \in cs}

Snapshot(box, headers) ==
  {[header |-> m.header, words |-> m.words, sender |-> m.sender, day |-> m.day] :
     m \in {n \in stored : n.box = box /\ n.header \in headers}}
HeadersOf(es) == {e.header : e \in es}

\* Mutant of Trim: a claim with a citation left keeps them all.
TrimClaims(cs, es) == {c \in cs : c.cites \cap HeadersOf(es) # {}}

\* Claims keep the citations whose message was still there to snapshot, if any.
Trim(cs, es) ==
  {c \in {[d EXCEPT !.cites = @ \cap HeadersOf(es)] : d \in cs} : c.cites # {}}

ProjectLabel(q, box) ==
  IF q \in projects /\ ProjectBox[q] = box THEN Label[q] ELSE {}
Labelled(cs, box) ==
  {[c EXCEPT !.label = IF c.project = None THEN {} ELSE ProjectLabel(c.project, box)] : c \in cs}

\* Why a candidate came out empty: the window's query, over again without the gates.
WindowHeaders(s, box, headers) ==
  {m.header : m \in {n \in stored : /\ n.box = box /\ n.header \in headers
                                    /\ Within(n, s) /\ Selected(n, s)
                                    /\ Concerns(n, s, AddressesOf(s, box))}}
Diagnostic(s, box) ==
  LET mine == {e \in events : e.box = box} IN
  IF mine = {} THEN "no_events_for_mailbox"
  ELSE IF WindowHeaders(s, box, UNION {e.cites : e \in mine}) = {} THEN "no_events_in_scope"
  ELSE "all_events_excluded_by_policy"

-----------------------------------------------------------------------------
\* The safety scan.

\* Mutant of Rules: health before identity numbers.
RulesReordered == << <<"credential", "credential_or_secret", "high">>, <<"payment", "payment_financial", "high">>,
                     <<"medical", "personal_sensitive", "medium">>, <<"ssn", "personal_sensitive", "high">>,
                     <<"legal", "hr_legal", "medium">>, <<"breach", "security_sensitive", "medium">> >>

\* Of the findings of one category on one row the first one made stays.
Rules == << <<"credential", "credential_or_secret", "high">>, <<"payment", "payment_financial", "high">>,
            <<"ssn", "personal_sensitive", "high">>, <<"medical", "personal_sensitive", "medium">>,
            <<"legal", "hr_legal", "medium">>, <<"breach", "security_sensitive", "medium">> >>
Finding(category, severity, ref) == [category |-> category, severity |-> severity, ref |-> ref]
ScanText(words, ref) ==
  {Finding(Rules[i][2], Rules[i][3], ref) :
     i \in {j \in DOMAIN Rules : /\ Rules[j][1] \in words
                                 /\ \A k \in 1..(j - 1) : Rules[k][1] \in words => Rules[k][2] # Rules[j][2]}}
OfCategory(fs, category) == {f \in fs : f.category = category}

\* A claim is told by its id, which every generation draws anew, and evidence by its header alone:
\* neither the text of the message nor the package counts.
ClaimRef(p, gen, c) == <<"claim", p, gen, c>>
HeaderRef(e) == <<"message", e.header>>

When(cond, f) == IF cond THEN {f} ELSE {}
ScanClaim(c, ref) ==
  ScanText(c.words, ref)
    \cup When(c.kind # "blocker" /\ "blocked" \in c.words, Finding("blocker_or_dependency", "medium", ref))
    \cup When("stale" \in c.words, Finding("stale_or_conflicting", "medium", ref))
    \cup When(c.weak, Finding("low_confidence_or_needs_confirmation", "low", ref))
ScanEvidence(e) ==
  LET found == ScanText(e.words, HeaderRef(e)) IN
  IF Domain[e.sender] \in Personal /\ OfCategory(found, "personal_sensitive") = {}
  THEN found \cup {Finding("personal_sensitive", "medium", HeaderRef(e))} ELSE found
ScanPackage(p, gen, cs, es) ==
  (UNION {ScanClaim(c, ClaimRef(p, gen, c)) : c \in cs}) \cup (UNION {ScanEvidence(e) : e \in es})
Findings(p) == ScanPackage(p, pkg[p].gen, claims[p], evidence[p])
High(fs) == {f \in fs : f.severity = "high"}

\* Mutant of Ids: of what a row is found to hold any one stands for all.
IdsOfRows(fs) == {f.ref : f \in fs}

Ids(fs) == {<<f.category, f.ref>> : f \in fs}
\* The creator acknowledges, with a reason, what is high of the findings it was shown.
Acked == Ids(High(ScanPackage(reviewed.pkg, reviewed.gen, reviewed.claims, reviewed.evidence)))

-----------------------------------------------------------------------------
\* What readers are shown of claims cs and evidence es.

Unassigned == {"unassigned"}
Group(c) == IF c.label = {} THEN Unassigned ELSE c.label
\* Mutant of Backed: claims with a citation left keep them all.
BackedOnce(cs, es) == {c \in cs : c.cites \cap HeadersOf(es) # {}}

Backed(cs, es) == {c \in {[d EXCEPT !.cites = @ \cap HeadersOf(es)] : d \in cs} : c.cites # {}}
Entry(label, cs) ==
  [label |-> label, refs |-> Cited(cs),
   decisions |-> {c \in cs : c.kind = "decision"},
   loops |-> {c \in cs : c.kind \in {"open_loop", "project_state"}},
   blockers |-> {c \in cs : c.kind = "blocker"}, people |-> {c \in cs : c.kind = "person_note"}]
Contract(cs, es) ==
  LET backed == Backed(cs, es)
      other  == HeadersOf(es) \ Cited(backed)
  IN {Entry(l, {c \in backed : Group(c) = l}) : l \in {Group(c) : c \in backed}}
       \cup When(other # {}, [Entry({"other"}, {}) EXCEPT !.refs = other])

\* One section per kind that there are claims of, whether it has a place in the order or not.
Sections(cs) == {[kind |-> k, points |-> {c \in cs : c.kind = k}] : k \in {c.kind : c \in cs}}

\* The first n of S by a ranking; what ranks the same may come in any order.
Top(S, n, Before(_, _)) ==
  {T \in SUBSET S : /\ Cardinality(T) = Min({n, Cardinality(S)})
                    /\ \A a \in T, b \in S \ T : ~Before(b, a)}

Intent(q) == SelectInSeq(<<"blocked", "next_steps", "decisions", "status">>, LAMBDA i : i \in q.asks)
IntentName(q) == IF Intent(q) = 0 THEN "general"
                 ELSE <<"blocked", "next_steps", "decisions", "status">>[Intent(q)]
Shape(intent, cs) ==
  CASE intent = "next_steps" -> {c \in cs : c.kind = "open_loop"}
    [] intent = "decisions"  -> {c \in cs : c.kind = "decision"}
    [] intent = "blocked"    -> {c \in cs : c.kind = "blocker" \/ (c.kind = "open_loop" /\ "blocked" \in c.words)}
    [] OTHER -> cs

Score(q, words) == Cardinality(q.words \cap words)
\* The labels a question names best, one of which it is then answered about.
Named(q, cs) ==
  LET ls == {c.label : c \in cs} IN
  {l \in ls : Score(q, l) > 0 /\ \A k \in ls : Score(q, k) <= Score(q, l)}
Candidates(q, cs, label) ==
  IF label # {} THEN {c \in cs : c.label = label}
  ELSE {c \in cs : Score(q, c.words \cup c.label) > 0}
Matched(q, es) == {e \in es : Score(q, e.words) > 0}

Unanswered == [answered |-> FALSE, claims |-> {}, evidence |-> {}]
Answered(cs, es) == [answered |-> TRUE, claims |-> cs, evidence |-> es]
\* Claims ranked by score, their citations in the order of the package; both are capped.
Grounded(q, shaped, es) ==
  UNION {{IF chosen = {} THEN Unanswered ELSE Answered(Backed(top, chosen), chosen) :
            chosen \in Top({e \in es : e.header \in Cited(top)}, MaxEvidence, LAMBDA a, b : a.day < b.day)} :
         top \in Top(shaped, MaxClaims, LAMBDA a, b : Score(q, a.words \cup a.label) > Score(q, b.words \cup b.label))}
EvidenceOnly(q, es) ==
  {Answered({}, chosen) :
     chosen \in Top(Matched(q, es), MaxEvidence,
                    LAMBDA a, b : \/ Score(q, a.words) > Score(q, b.words)
                                  \/ Score(q, a.words) = Score(q, b.words) /\ a.day > b.day)}
AnswerAbout(q, label, cs, es) ==
  LET found  == Candidates(q, cs, label)
      shaped == Shape(IntentName(q), found)
  IN IF label = {} /\ found = {} /\ Matched(q, es) = {} THEN {Unanswered}
     ELSE IF shaped # {} THEN Grounded(q, shaped, es)
     ELSE IF IntentName(q) \in {"next_steps", "blocked", "decisions"} THEN {Answered({}, {})}
     ELSE EvidenceOnly(q, es)
\* The answers a recipient may be given.
AnswersTo(q, cs, es) ==
  IF q.words = {} THEN {Unanswered}
  ELSE UNION {AnswerAbout(q, l, cs, es) : l \in IF Named(q, cs) = {} THEN {{}} ELSE Named(q, cs)}

-----------------------------------------------------------------------------
Statuses == {"absent", "draft", "generated", "published"}
Claim == [kind : {"open_loop", "decision"}, words : SUBSET Words, project : Projects \cup {None},
          label : SUBSET Words, cites : SUBSET Headers, weak : BOOLEAN]
Evidence == [header : Headers, words : SUBSET Words, sender : Emails, day : Int]
Unfiltered(w) == [window |-> w, threads |-> {}, projects |-> {}, people |-> {}, xthreads |-> {}, xheaders |-> {},
                  domains |-> {}]

Idle == [at |-> "idle", pkg |-> None, seen |-> "absent", box |-> None, eligible |-> {}, emails |-> {},
         safe |-> {}, held |-> {}, claims |-> {}, evidence |-> {}, from |-> None, window |-> <<0, 0>>,
         domains |-> {}, carried |-> {}, people |-> {}, words |-> {}, resolved |-> {}]
NoExclusion == [removed |-> {}, held |-> {}]
NothingReviewed == [pkg |-> None, gen |-> 0, claims |-> {}, evidence |-> {}]
NoView == [at |-> "idle", pkg |-> None, claims |-> {}, gen |-> 0, evidence |-> {}, whole |-> FALSE]

\* Headers a handoff may quote, whatever its scope: in a thread without a tagged message, no noise.
Open == {m.header : m \in {n \in stored : ~n.noise /\ n.thread \in Eligible(n.box)}}

\* The rows of a mailbox that jobs may have written.
Assignments(ps, box) ==
  {as \in SUBSET (Eligible(box) \X ps) : /\ {a[1] : a \in as} = (IF ps = {} THEN {} ELSE Eligible(box))
                                         /\ {a[2] : a \in as} = ps}
\* What extraction finds: events of threads without a tagged message.
Found(box) ==
  {e \in Extractable : /\ e.box = box /\ e.project \in projects \cup {None}
                       /\ \E t \in Eligible(box) : e.cites \subseteq {m.header : m \in {n \in stored : n.thread = t /\ n.box = box}}}
Addresses(ms) == UNION {{<<m.box, e>> : e \in {m.sender} \cup m.to} : m \in ms}
OneRowPerHeader(ms) == \A m, n \in ms : m.header = n.header => m = n

Init ==
  /\ stored \in Starts
  /\ known = Addresses(stored)
  /\ projects \in {{}, Projects}
  /\ \E f \in [Boxes -> SUBSET (Threads \X projects)] :
       /\ \A b \in Boxes : f[b] \in Assignments({q \in projects : ProjectBox[q] = b}, b)
       /\ assigned = UNION {f[b] : b \in Boxes}
  /\ events = UNION {Found(b) : b \in Boxes}
  /\ pkg = [p \in Packages |-> [status |-> "absent", box |-> None, gen |-> 0]]
  /\ scope = [p \in Packages |-> Unfiltered(CHOOSE w \in Windows : TRUE)]
  /\ claims = [p \in Packages |-> {}]
  /\ evidence = [p \in Packages |-> {}]
  /\ excluded = [p \in Packages |-> NoExclusion]
  /\ basis = [p \in Packages |-> {}]
  /\ loaded = {} /\ req = Idle /\ reviewed = NothingReviewed /\ view = NoView /\ clean = {}
  /\ writes = 0

-----------------------------------------------------------------------------
\* Jobs: each commits at once.
Commit == /\ view.at # "shown" /\ writes < MaxWrites /\ writes' = writes + 1
          /\ clean' = IF req.at = "idle" THEN {} ELSE clean \cup Open'
          /\ UNCHANGED <<rows, loaded, req, reviewed, view>>

Ingest == \E m \in Universe \ stored :
  /\ stored' = stored \cup {m} /\ OneRowPerHeader(stored')
  /\ UNCHANGED <<known, projects, assigned, events>>
  /\ Commit

\* Mutant of Replace: the events stay.
ReplaceKeepsEvents == \E box \in Boxes : \E ms \in SUBSET {m \in Universe : m.box = box} :
  /\ OneRowPerHeader(ms)
  /\ stored' = {m \in stored : m.box # box} \cup ms
  /\ known' = {k \in known : k[1] # box}
  /\ projects' = {q \in projects : ProjectBox[q] # box}
  /\ assigned' = {a \in assigned : ProjectBox[a[2]] # box}
  /\ UNCHANGED events
  /\ Commit

\* A replacing ingest clears every derived row of the mailbox with its messages.
Replace == \E box \in Boxes : \E ms \in SUBSET {m \in Universe : m.box = box} :
  /\ OneRowPerHeader(ms)
  /\ stored' = {m \in stored : m.box # box} \cup ms
  /\ known' = {k \in known : k[1] # box}
  /\ projects' = {q \in projects : ProjectBox[q] # box}
  /\ assigned' = {a \in assigned : ProjectBox[a[2]] # box}
  /\ events' = {e \in events : e.box # box}
  /\ Commit

Enrich == \E box \in Boxes :
  /\ known' = known \cup Addresses({m \in stored : m.box = box})
  /\ UNCHANGED <<stored, projects, assigned, events>>
  /\ Commit

\* Events outlive their project (SET NULL).
Materialize == \E box \in Boxes : \E ps \in SUBSET {q \in Projects : ProjectBox[q] = box} :
  \E as \in Assignments(ps, box) :
    /\ ps # {}
    /\ projects' = {q \in projects : ProjectBox[q] # box} \cup ps
    /\ assigned' = {a \in assigned : ProjectBox[a[2]] # box} \cup as
    /\ events' = {IF e.project = None \/ e.project \in projects' THEN e ELSE [e EXCEPT !.project = None] : e \in events}
    /\ UNCHANGED <<stored, known>>
    /\ Commit

Extract == \E box \in Boxes : \E es \in SUBSET Found(box) :
  /\ events' = {e \in events : e.box # box} \cup es
  /\ UNCHANGED <<stored, known, projects, assigned>>
  /\ Commit

-----------------------------------------------------------------------------
\* The creator's handlers.
\* Another process's reads find what the last handler has committed: they need not be told apart
\* within a handler, nor the guards.
Ready == req.at = "idle" /\ view.at # "shown"
Go(r) == req' = r /\ UNCHANGED <<mail, rows, loaded, reviewed, view, clean, writes>>
To(step) == [req EXCEPT !.at = step]

Create(p, box) ==
  /\ Ready /\ pkg[p].status = "absent"
  /\ pkg' = [pkg EXCEPT ![p] = [status |-> "draft", box |-> box, gen |-> 0]]
  /\ UNCHANGED <<mail, scope, claims, evidence, excluded, basis, loaded, req, reviewed, view, clean, writes>>

UpdateScope(p, s) ==
  /\ Ready /\ pkg[p].status \in {"draft", "generated"}
  /\ scope' = [scope EXCEPT ![p] = s]
  /\ UNCHANGED <<mail, pkg, claims, evidence, excluded, basis, loaded, req, reviewed, view, clean, writes>>

\* require_owner_package: the handler will see this copy of the status.
Load(op, p) ==
  /\ Ready /\ \A l \in loaded : l[1] # op
  /\ pkg[p].status \in IF op = "publish" THEN {"generated"} ELSE {"draft", "generated"}
  /\ loaded' = loaded \cup {<<op, p, pkg[p].status>>}
  /\ UNCHANGED <<mail, rows, req, reviewed, view, clean, writes>>

\* The generations so far, of any package, which MaxGen bounds.
Generations == {g \in Packages \X (1..MaxGen) : g[2] <= pkg[g[1]].gen}

GenerateEligible == \E l \in loaded :
  /\ Ready /\ l[1] = "generate" /\ Cardinality(Generations) < MaxGen
  /\ req' = [Idle EXCEPT !.at = "people", !.pkg = l[2], !.seen = l[3],
                              !.box = pkg[l[2]].box, !.eligible = Eligible(pkg[l[2]].box)]
  /\ loaded' = loaded \ {l} /\ clean' = Open
  /\ UNCHANGED <<mail, rows, reviewed, view, writes>>
GeneratePeople ==
  /\ req.at = "people"
  /\ Go([To("mail") EXCEPT !.emails = AddressesOf(scope[req.pkg], req.box)])
GenerateMail ==
  /\ req.at = "mail"
  /\ LET s == scope[req.pkg]
         kept == Retained(InScope(s, req.box, req.emails), s)
     IN Go([To("events") EXCEPT !.safe = {m.header : m \in {n \in kept : n.thread \in req.eligible}},
                                !.held = {m.thread : m \in kept} \ req.eligible])
GenerateEvents ==
  /\ req.at = "events"
  /\ Go([To("snapshot") EXCEPT !.claims = ClaimsFromEvents(scope[req.pkg], req.box, req.safe)])
GenerateSnapshot ==
  /\ req.at = "snapshot"
  /\ LET es == Snapshot(req.box, Cited(req.claims)) IN
     Go([To("labels") EXCEPT !.evidence = es, !.claims = Trim(req.claims, es)])
GenerateLabels == req.at = "labels" /\ Go([To("write") EXCEPT !.claims = Labelled(req.claims, req.box)])

\* The status is written only when it differs from the copy's.
GenerateWrite ==
  /\ req.at = "write"
  /\ LET p == req.pkg  s == scope[req.pkg] IN
     /\ claims' = [claims EXCEPT ![p] = req.claims]
     /\ evidence' = [evidence EXCEPT ![p] = req.evidence]
     /\ excluded' = [excluded EXCEPT ![p] = [removed |-> s.xthreads \cup s.xheaders, held |-> req.held]]
     /\ pkg' = [pkg EXCEPT ![p].gen = @ + 1, ![p].status = IF req.seen = "generated" THEN @ ELSE "generated"]
     /\ basis' = [basis EXCEPT ![p] = clean \ s.xheaders]
  /\ req' = Idle /\ clean' = {}
  /\ UNCHANGED <<mail, scope, loaded, reviewed, view, writes>>

\* The creator looks at a candidate and its findings.
Review(p) ==
  /\ Ready /\ pkg[p].status = "generated"
  /\ reviewed' = [pkg |-> p, gen |-> pkg[p].gen, claims |-> claims[p], evidence |-> evidence[p]]
  /\ UNCHANGED <<mail, rows, loaded, req, view, clean, writes>>

\* The recipient row is unique: a package that has been published is not published twice.
Publish == \E l \in loaded :
  /\ Ready /\ l[1] = "publish" /\ loaded' = loaded \ {l}
  /\ IF evidence[l[2]] # {} /\ Ids(High(Findings(l[2]))) \subseteq Acked /\ pkg[l[2]].status = "generated"
     THEN pkg' = [pkg EXCEPT ![l[2]].status = "published"] ELSE UNCHANGED pkg
  /\ UNCHANGED <<mail, scope, claims, evidence, excluded, basis, req, reviewed, view, clean, writes>>

\* A published package seeds the scope of a return draft in the coverer's mailbox; what it names
\* is carried over by label, address and domain, for ids belong to one mailbox.
ReturnCarries(original, p, box, w) ==
  /\ Ready /\ pkg[original].status = "published" /\ pkg[p].status = "absent" /\ pkg[original].box # box
  /\ Go([Idle EXCEPT !.at = "carried_labels", !.pkg = p, !.box = box, !.from = pkg[original].box, !.window = w,
           !.carried = scope[original].projects \cup ({c.project : c \in claims[original]} \ {None}),
           !.people = scope[original].people,
           !.domains = scope[original].domains \cup {Domain[e.sender] : e \in evidence[original]}])
ReturnLabels ==
  /\ req.at = "carried_labels"
  /\ Go([To("their_projects") EXCEPT
           !.words = UNION {Label[q] : q \in {r \in req.carried \cap projects : ProjectBox[r] = req.from}}])
ReturnProjects ==
  /\ req.at = "their_projects"
  /\ Go([To("carried_emails") EXCEPT
           !.resolved = {q \in projects : ProjectBox[q] = req.box /\ Label[q] \cap req.words # {}}])
ReturnEmails ==
  /\ req.at = "carried_emails"
  /\ Go([To("their_people") EXCEPT !.emails = {k[2] : k \in {l \in req.people \cap known : l[1] = req.from}}])
ReturnPeople ==
  /\ req.at = "their_people"
  /\ Go([To("draft") EXCEPT
           !.people = {k \in known : k[1] = req.box /\ (k[2] \in req.emails \/ Domain[k[2]] \in req.domains)}])
\* One of the two filters is applied, projects rather than people; neither leaves the window alone.
Seeded == [Unfiltered(req.window) EXCEPT
             !.domains = req.domains, !.projects = req.resolved, !.people = IF req.resolved = {} THEN req.people ELSE {}]
ReturnDraft ==
  /\ req.at = "draft" /\ pkg[req.pkg].status = "absent"
  /\ pkg' = [pkg EXCEPT ![req.pkg] = [status |-> "draft", box |-> req.box, gen |-> 0]]
  /\ scope' = [scope EXCEPT ![req.pkg] = Seeded]
  /\ req' = Idle /\ clean' = {}
  /\ UNCHANGED <<mail, claims, evidence, excluded, basis, loaded, reviewed, view, writes>>

-----------------------------------------------------------------------------
\* The recipient's handlers (package, ask): the claims, then the evidence.
ReadClaims(p) ==
  /\ Ready /\ view.at = "idle" /\ pkg[p].status = "published"
  /\ view' = [NoView EXCEPT !.at = "evidence", !.pkg = p, !.claims = claims[p], !.gen = pkg[p].gen]
  /\ UNCHANGED <<mail, rows, loaded, req, reviewed, clean, writes>>
ReadEvidence ==
  /\ Ready /\ view.at = "evidence"
  /\ view' = [view EXCEPT !.at = "shown", !.evidence = evidence[view.pkg], !.whole = pkg[view.pkg].gen = view.gen]
  /\ UNCHANGED <<mail, rows, loaded, req, reviewed, clean, writes>>
Respond == view.at = "shown" /\ view' = NoView /\ UNCHANGED <<mail, rows, loaded, req, reviewed, clean, writes>>

Next ==
  \/ Ingest \/ Replace \/ Enrich \/ Materialize \/ Extract
  \/ \E p \in Packages : \/ \E box \in Senders : Create(p, box)
                         \/ \E s \in Scopes : UpdateScope(p, s)
                         \/ \E op \in {"generate", "publish"} : Load(op, p)
                         \/ Review(p) \/ ReadClaims(p)
                         \/ \E original \in Packages, box \in Boxes, w \in Windows : ReturnCarries(original, p, box, w)
  \/ GenerateEligible \/ GeneratePeople \/ GenerateMail \/ GenerateEvents \/ GenerateSnapshot
  \/ GenerateLabels \/ GenerateWrite \/ Publish
  \/ ReturnLabels \/ ReturnProjects \/ ReturnEmails \/ ReturnPeople \/ ReturnDraft
  \/ ReadEvidence \/ Respond

Spec == Init /\ [][Next]_vars

-----------------------------------------------------------------------------
(***************************************************************************)
(* Properties.                                                             *)
(***************************************************************************)

\* Types, and the unique keys: one message row and one evidence row per header.
TypeOK ==
  /\ stored \subseteq Universe /\ OneRowPerHeader(stored) /\ known \subseteq Persons
  /\ projects \subseteq Projects /\ assigned \subseteq Threads \X projects
  /\ \A e \in events : e.project \in projects \cup {None}
  /\ \A p \in Packages :
       /\ pkg[p].status \in Statuses /\ pkg[p].box \in Boxes \cup {None} /\ pkg[p].gen \in 0..MaxGen
       /\ scope[p] \in Scope
       /\ claims[p] \subseteq Claim /\ evidence[p] \subseteq Evidence /\ OneRowPerHeader(evidence[p])
  /\ writes \in 0..MaxWrites

\* The generator's header: every claim cites evidence of its package ("No citation, no claim"),
\* no evidence is there uncited, and none quotes a message that the creator removed or that was
\* noise or in a thread with a tagged message all along, though jobs commit between the reads.
PackageHolds == \A p \in Packages :
  /\ \A c \in claims[p] : c.cites # {} /\ c.cites \subseteq HeadersOf(evidence[p])
  /\ HeadersOf(evidence[p]) \subseteq Cited(claims[p]) \cap basis[p]

\* What a recipient is shown.  An answer's claims cite evidence of the same answer, and all of it
\* is of the package; the contract lists each message of the package once or more, and what it
\* lists in an entry of claims some claim of the entry cites.  Read in one piece, a package
\* answers exactly the questions that something in it matches, and leaves no message over.
AnswerHolds(q, a) ==
  /\ a.evidence \subseteq view.evidence
  /\ \A c \in a.claims : c.cites # {} /\ c.cites \subseteq HeadersOf(a.evidence)
  /\ a.claims # {} => HeadersOf(a.evidence) \subseteq Cited(a.claims)
  /\ LET matches == \/ \E c \in view.claims : Score(q, c.words \cup c.label) > 0
                    \/ \E e \in view.evidence : Score(q, e.words) > 0
     IN (a.answered => matches) /\ (view.whole => (matches => a.answered))
ContractHolds(contract) ==
  /\ UNION {n.refs : n \in contract} = HeadersOf(view.evidence)
  /\ \A n \in contract : Cited(n.decisions \cup n.loops \cup n.blockers \cup n.people) \subseteq n.refs
  /\ view.whole => /\ \A n \in contract : n.decisions \cup n.loops # {}
                   /\ Cardinality(UNION {n.decisions \cup n.loops : n \in contract}) = Cardinality(view.claims)
RecipientSees == view.at = "shown" =>
  /\ \A q \in Queries : \A a \in AnswersTo(q, view.claims, view.evidence) : AnswerHolds(q, a)
  /\ ContractHolds(Contract(view.claims, view.evidence))
  /\ UNION {s.points : s \in Sections(view.claims)} = view.claims

\* The publish gate: a package goes out only if its creator has been shown, and acknowledges, what
\* each high pattern matches in it, pattern by pattern.  A claim was shown as it is now, for its id is
\* of this generation.  The evidence that was shown is of the same message and matched the same
\* pattern; it is the row as it is now unless it was shown in another generation or another package,
\* whose acknowledgement stands (safety.py, _fid and scan_package; publish_handoff).
HighWords == {"credential", "payment", "ssn"}
ShownNow(p) == reviewed.pkg = p /\ reviewed.gen = pkg[p].gen
PublishedWasReviewed ==
  [][\A p \in Packages : (pkg[p].status # "published" /\ pkg'[p].status = "published") =>
       /\ \A c \in claims[p] : c.words \cap HighWords # {} => c \in reviewed.claims /\ ShownNow(p)
       /\ \A e \in evidence[p] : \A word \in e.words \cap HighWords :
            \E r \in reviewed.evidence : r.header = e.header /\ word \in r.words /\ (ShownNow(p) => r = e)]_vars

\* The creator of an empty candidate is told that no event is in scope only if generating again
\* at once would find none: two queries written twice must agree.
Again(p) == LET s == scope[p]  box == pkg[p].box IN
  {m \in Retained(InScope(s, box, AddressesOf(s, box)), s) : m.thread \in Eligible(box)}
DiagnosticHolds == \A p \in Packages :
  (pkg[p].status = "generated" /\ claims[p] = {} /\ evidence[p] = {}
     /\ Diagnostic(scope[p], pkg[p].box) # "all_events_excluded_by_policy")
    => ClaimsFromEvents(scope[p], pkg[p].box, {m.header : m \in Again(p)}) = {}

\* What creators and recipients are shown holds.
ShownHolds == RecipientSees /\ DiagnosticHolds
=============================================================================
