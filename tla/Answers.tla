------------------------------ MODULE Answers ------------------------------
(***************************************************************************)
(* How a question about a mailbox is answered: the cover-for-me endpoint   *)
(* (services/api/routers/cover_for_me.py, services/synthesis/              *)
(* cover_for_me.py), the retrieval behind it (services/retrieval), the     *)
(* project and contact summaries (services/api/routers/synthesis.py) and   *)
(* the detail of one cited message (services/api/routers/source_message.py)*)
(*                                                                         *)
(* A handler reads with one statement after another, under READ COMMITTED, *)
(* while jobs commit new mail, tags, vectors, projects and events; it is   *)
(* cut at those statements and at the calls to the two providers.  The     *)
(* handlers of one API process block its event loop, so there is one       *)
(* request at a time.  What the providers and the ranking answer is free.  *)
(***************************************************************************)
EXTENDS Integers, FiniteSets

CONSTANTS
  Mine,         \* the mailbox that is asked about; every other one is someone else's
  Universe,     \* the message rows there can be: [mbx, header, thread, sender, noise]
  Projects, Persons,
  Members,      \* the members of a project while it has a row
  Takes,        \* the contacts that take part in a thread
  Specific,     \* how long the name of a project or a person is
  TopK,         \* hits that leave the ranking (rerank_top_k)
  TopN,         \* members asked for, and citations for each
  Claims,       \* the sets of claims a model may return; a claim is the set of headers it cites
  MaxWrites,    \* bound: commits by jobs
  None

Headers == {m.header : m \in Universe}
Threads == {m.thread : m \in Universe}

ASSUME AnswerConstants ==
  /\ IsFiniteSet(Universe)
  /\ \A m \in Universe : m.noise \in BOOLEAN /\ m.sender \in Persons
  /\ Members \in [Projects -> SUBSET Persons]
  /\ Takes \in [Threads -> SUBSET Persons]
  /\ Specific \in [Projects \cup Persons -> Nat]
  /\ TopK \in Nat \ {0} /\ TopN \in Nat \ {0} /\ MaxWrites \in Nat
  /\ Claims \subseteq SUBSET SUBSET Headers
  /\ None \notin Projects \cup Persons

VARIABLES
  stored,    \* message rows
  tagged,    \* those with a sensitivity tag
  embedded,  \* those with a vector
  projects,  \* project rows
  assigned,  \* thread_project_assignment
  events,    \* [project, cites]
  edges,     \* the persons with a relationship row
  req,       \* the request under way
  answer,    \* what the last one was answered
  extant,    \* history: headers the mailbox has had since the request began
  writes

db == <<stored, tagged, embedded, projects, assigned, events, edges>>
vars == <<db, req, answer, extant, writes>>

Kinds == {"cover", "project", "contact", "source"}
Statuses == {"disabled_no_key", "degraded_rate_limit", "no_embeddings",
             "active_l1_only", "active", "unavailable"}
Request == [at : {"idle", "who", "cite", "embed", "vector", "fts", "count", "decide", "events",
                  "threads", "messages", "edge", "shared", "model", "gate"},
            kind : Kinds, who : BOOLEAN,
            project : Projects \cup {None}, person : Persons \cup {None},
            vec : SUBSET Universe, hits : SUBSET Headers,
            threads : SUBSET Threads, known : BOOLEAN,
            allowed : SUBSET Headers, claims : SUBSET (SUBSET Headers),
            status : Statuses, aborted : BOOLEAN]
Idle == [at |-> "idle", kind |-> "cover", who |-> FALSE, project |-> None, person |-> None,
         vec |-> {}, hits |-> {}, threads |-> {}, known |-> FALSE, allowed |-> {},
         claims |-> {}, status |-> "active_l1_only", aborted |-> FALSE]
Answer == [code : {200, 404, 500, 502, 503}, claims : SUBSET (SUBSET Headers),
           details : SUBSET Headers, status : Statuses]

Silent == [code |-> 200, claims |-> {}, details |-> {}, status |-> "active_l1_only"]

Own == {m \in stored : m.mbx = Mine}
HeadersOf(rows) == {m.header : m \in rows}
Cited(claims) == UNION claims

Init == /\ stored \in SUBSET Universe /\ tagged \in SUBSET stored
        /\ embedded \in {{}, stored \ tagged}
        /\ projects = Projects /\ assigned \in {{}, {m.thread : m \in Own} \X Projects}
        /\ events \in {{}, [project : Projects, cites : {{h} : h \in Headers}]}
        /\ edges \in {{}, Persons}
        /\ req = Idle /\ extant = {} /\ writes = 0
        /\ answer = Silent

(***************************************************************************)
(* Jobs, as the request sees them: each commits at once.                   *)
(***************************************************************************)
Commit == /\ writes < MaxWrites /\ writes' = writes + 1
          /\ extant' = extant \cup {m.header : m \in {n \in stored' : n.mbx = Mine}}
          /\ UNCHANGED <<req, answer>>

Ingest == \E m \in Universe \ stored, tag \in BOOLEAN :
  /\ stored' = stored \cup {m}
  /\ tagged' = IF tag THEN tagged \cup {m} ELSE tagged
  /\ UNCHANGED <<embedded, projects, assigned, events, edges>>
  /\ Commit

WipeRows ==
  /\ Own # {}
  /\ stored' = stored \ Own /\ tagged' = tagged \ Own
  /\ projects' = {} /\ assigned' = {} /\ events' = {} /\ edges' = {}
  /\ UNCHANGED embedded
  /\ Commit
Wipe ==
  /\ Own # {}
  /\ stored' = stored \ Own /\ tagged' = tagged \ Own /\ embedded' = embedded \ Own
  /\ projects' = {} /\ assigned' = {} /\ events' = {} /\ edges' = {}
  /\ Commit

Backfill ==
  /\ embedded' = embedded \cup (Own \ tagged)
  /\ UNCHANGED <<stored, tagged, projects, assigned, events, edges>>
  /\ Commit

Materialize == \E ps \in SUBSET Projects :
  /\ projects' = ps
  /\ assigned' = {a \in {m.thread : m \in Own} \X ps : \A m \in tagged : m.thread # a[1]}
  /\ UNCHANGED <<stored, tagged, embedded, events, edges>>
  /\ Commit

Jobs == Ingest \/ Wipe \/ Backfill \/ Materialize

(***************************************************************************)
(* The request.                                                            *)
(***************************************************************************)
Go(r) == req' = r /\ UNCHANGED <<db, answer, extant, writes>>
To(step) == Go([req EXCEPT !.at = step])
Respond(code, claims, details) ==
  /\ answer' = [code |-> code, claims |-> claims, details |-> details, status |-> req.status]
  /\ req' = Idle /\ UNCHANGED <<db, extant, writes>>
Insufficient == Respond(200, {}, {})

\* Projects and persons whose name is a word of the question; of each, the longest name.
Longest(xs) == {x \in xs : \A y \in xs : Specific[y] <= Specific[x]}
Route(named) ==
  LET p == Longest(named \cap projects)  n == Longest(named \cap Persons)
      Outdone(x) == \E y \in n : Specific[y] > Specific[x]
  IN IF p = {} /\ n = {} THEN {[project |-> None, person |-> None]}
     ELSE IF p # {} /\ \A x \in p : ~Outdone(x)
       THEN {[project |-> x, person |-> None] : x \in p}
       ELSE {[project |-> None, person |-> x] : x \in n}

\* A missing key or a client that cannot be built leaves retrieval out.
Begin(r) == /\ req.at = "idle" /\ req' = r /\ answer' = Silent /\ extant' = HeadersOf(Own)
            /\ UNCHANGED <<db, writes>>
AskCover == \E named \in SUBSET (Projects \cup Persons), who \in BOOLEAN,
               client \in {"built", "no_key", "broken"} : \E to \in Route(named) :
  Begin([Idle EXCEPT !.who = who, !.project = to.project, !.person = to.person,
           !.at = IF who /\ to.project # None THEN "who"
                  ELSE IF client = "built" THEN "embed" ELSE "decide",
           !.status = IF (who /\ to.project # None) \/ client = "built" THEN "active_l1_only"
                      ELSE IF client = "no_key" THEN "disabled_no_key" ELSE "unavailable"])

\* Who to ask about a project: no provider is called, and no detail is shown.
WhoThreads ==
  /\ req.at = "who"
  /\ IF req.project \notin projects \/ Members[req.project] = {}
       THEN Insufficient
       ELSE Go([req EXCEPT !.at = "cite",
                  !.threads = {t \in Threads : <<t, req.project>> \in assigned}])

Top(people) == {top \in SUBSET people :
                  Cardinality(top) = TopN \/ (top = people /\ Cardinality(top) < TopN)}
WhoCites ==
  /\ req.at = "cite"
  /\ \E top \in Top(Members[req.project]) : \E cites \in [top -> SUBSET Headers] :
       /\ \A p \in top : cites[p] \in
            Top(HeadersOf({m \in Own : m.thread \in req.threads /\ m.sender = p}))
       /\ Respond(200, {cites[p] : p \in top} \ {{}}, {})

\* The question is embedded.  The client wraps whatever fails, a limited rate included, in an
\* EmbedError that names the class of the failure; only "RateLimitError" counts as a limit.
Failure == [limited |-> "HTTPStatusError", failed |-> "ConnectError"]
Degraded(text) == IF text = "RateLimitError" THEN "degraded_rate_limit" ELSE "unavailable"
Embed == \E outcome \in {"ok", "limited", "failed"} :
  /\ req.at = "embed"
  /\ IF outcome = "ok" THEN To("vector")
     ELSE Go([req EXCEPT !.at = "decide", !.status = Degraded(Failure[outcome])])

\* What a search may find: noise and tagged messages are left out, as is what scores too low.
Findable == {m \in Own : ~m.noise /\ m \notin tagged}
VectorSearch == \E found \in SUBSET (Findable \cap embedded) :
  /\ req.at = "vector"
  /\ Go([req EXCEPT !.at = "fts", !.vec = found])

\* A message found by both searches is one hit; the best TopK are kept, in any order of
\* scores, and a reranker may drop some but can add none.
Merged(vec, text) == HeadersOf(vec \cup text)
Ranked(hits) == {best \in SUBSET hits :
                   Cardinality(best) = TopK \/ (best = hits /\ Cardinality(best) < TopK)}
Reranked(best) == SUBSET best
TextSearch == \E found \in SUBSET Findable :
  \E best \in Ranked(Merged(req.vec, found)) : \E hits \in Reranked(best) :
    /\ req.at = "fts"
    /\ IF hits = {}
         THEN To("count")
         ELSE Go([req EXCEPT !.at = "decide", !.hits = hits, !.status = "active"])

\* Nothing was found: is it that nothing is embedded?
HasEmbeddings ==
  /\ req.at = "count"
  /\ Go([req EXCEPT !.at = "decide",
           !.status = IF embedded \cap Own = {} THEN "no_embeddings" ELSE "active_l1_only"])

\* A statement of the retrieval fails.  The answer goes on without hits, in a transaction that
\* the database has aborted: the next statement fails as well.
RetrievalFails ==
  /\ req.at \in {"vector", "fts", "count"}
  /\ Go([req EXCEPT !.at = "decide", !.status = "unavailable", !.aborted = TRUE])

Allowed(rows) == HeadersOf(rows) \cup req.hits
AskModel(allowed) == Go([req EXCEPT !.at = "model", !.allowed = allowed])

\* Without a match and without hits no model is asked; otherwise it takes a key.
Decide == \E key \in BOOLEAN :
  /\ req.at = "decide"
  /\ IF req.project = None /\ req.person = None /\ req.hits = {} THEN Insufficient
     ELSE IF ~key THEN Respond(503, {}, {})
     ELSE IF req.project # None THEN To("events")
     ELSE IF req.person # None THEN To("edge")
     ELSE AskModel(req.hits)

\* The state of a project.
ReadEvents ==
  /\ req.at = "events" /\ ~req.aborted
  /\ LET known == \E e \in events : e.project = req.project
     IN IF req.kind = "project" /\ ~known
          THEN Insufficient
          ELSE Go([req EXCEPT !.at = "threads", !.known = known])
ReadThreads ==
  /\ req.at = "threads"
  /\ Go([req EXCEPT !.at = "messages", !.threads = {t \in Threads : <<t, req.project>> \in assigned}])

ReadMessages == \E key \in BOOLEAN :
  /\ req.at = "messages"
  /\ LET allowed == Allowed({m \in Own : m.thread \in req.threads})
         rows == {t \in req.threads : \E m \in Own : m.thread = t}
     IN IF req.kind = "project"
          THEN IF key THEN AskModel(allowed) ELSE Respond(503, {}, {})
          ELSE IF allowed = {} \/ (req.hits = {} /\ ~req.known /\ rows = {})
                 THEN Insufficient
                 ELSE AskModel(allowed)

\* What a contact works on: the threads that the owner and the contact share.
ReadEdge ==
  /\ req.at = "edge" /\ ~req.aborted
  /\ IF req.person \notin edges
       THEN Respond(IF req.kind = "contact" THEN 404 ELSE 200, {}, {})
       ELSE Go([req EXCEPT !.at = "shared",
                  !.threads = {m.thread : m \in {n \in Own : req.person \in Takes[n.thread]}}])
ReadShared == \E key \in BOOLEAN :
  /\ req.at = "shared"
  /\ LET allowed == Allowed({m \in Own : m.thread \in req.threads})
     IN IF req.kind = "contact"
          THEN IF key THEN AskModel(allowed) ELSE Respond(503, {}, {})
          ELSE IF allowed = {} THEN Insufficient ELSE AskModel(allowed)

\* A statement of the synthesis in an aborted transaction.
SynthesisFails == req.at \in {"events", "edge"} /\ req.aborted /\ Respond(502, {}, {})

\* The model may return anything; the client drops the claims that cite nothing, and those
\* with a citation outside the allow-list are dropped before the answer.
Emitted(claims) == claims \ {{}}
FilteredAny(claims, allowed) == {c \in claims : c \cap allowed # {}}
Filtered(claims, allowed) == {c \in claims : c \subseteq allowed}
Synthesize == \E claims \in Claims :
  /\ req.at = "model" /\ req.kind = "cover"
  /\ Go([req EXCEPT !.at = "gate", !.claims = Filtered(Emitted(claims), req.allowed)])
SummarizeProject == \E claims \in Claims :
  /\ req.at = "model" /\ req.kind = "project"
  /\ Respond(200, Filtered(Emitted(claims), req.allowed), {})
SummarizeContact == \E claims \in Claims :
  /\ req.at = "model" /\ req.kind = "contact"
  /\ Respond(200, Filtered(Emitted(claims), req.allowed), {})
ModelFails == req.at = "model" /\ Respond(IF req.kind = "cover" THEN 502 ELSE 500, {}, {})

\* Details are shown only of messages without a tag, in threads without a tag.
SafeMessages(headers) == {m \in Own : m.header \in headers /\ m \notin tagged}
SafeRows(headers) ==
  {m \in Own : /\ m.header \in headers /\ m \notin tagged
               /\ \A n \in Own : n.thread = m.thread => n \notin tagged}
Details(claims) == HeadersOf(SafeRows(Cited(claims)))
Gate == req.at = "gate" /\ Respond(200, req.claims, Details(req.claims))

\* The two summaries and the detail of a message.
AskProject == \E p \in Projects :
  IF p \in projects
    THEN Begin([Idle EXCEPT !.kind = "project", !.project = p, !.at = "events"])
    ELSE /\ req.at = "idle" /\ extant' = HeadersOf(Own)
         /\ answer' = [Silent EXCEPT !.code = 404]
         /\ UNCHANGED <<db, req, writes>>
AskContact == \E p \in Persons :
  Begin([Idle EXCEPT !.kind = "contact", !.person = p, !.at = "edge"])
AskSource == \E h \in Headers :
  LET rows == SafeRows({h})
  IN /\ req.at = "idle" /\ extant' = HeadersOf(Own)
     /\ answer' = [code |-> IF rows = {} THEN 404 ELSE 200, claims |-> {},
                   details |-> HeadersOf(rows), status |-> "active_l1_only"]
     /\ UNCHANGED <<db, req, writes>>

Requests == AskCover \/ AskProject \/ AskContact \/ AskSource
Reading == \/ WhoThreads \/ WhoCites \/ Embed \/ VectorSearch \/ TextSearch \/ HasEmbeddings
           \/ RetrievalFails \/ Decide \/ ReadEvents \/ ReadThreads \/ ReadMessages
           \/ ReadEdge \/ ReadShared \/ SynthesisFails \/ Synthesize \/ SummarizeProject
           \/ SummarizeContact \/ ModelFails \/ Gate

Next == Jobs \/ Requests \/ Reading
Spec == Init /\ [][Next]_vars

(***************************************************************************)
(* Properties.                                                             *)
(***************************************************************************)
\* Tags and vectors are of messages there are; a request holds no more than it read.
TypeOK == /\ stored \subseteq Universe /\ tagged \subseteq stored /\ embedded \subseteq stored
          /\ projects \subseteq Projects /\ assigned \subseteq Threads \X Projects
          /\ edges \subseteq Persons
          /\ req \in Request /\ answer \in Answer
          /\ extant \subseteq Headers /\ writes \in 0 .. MaxWrites

\* Whatever the model returns, and whatever is wiped or arrives meanwhile, an answer cites
\* only messages this mailbox has had since the question was asked (the allow-lists).
CitesOwnMail == req.claims \subseteq SUBSET extant /\ answer.claims \subseteq SUBSET extant

\* A detail that an answer shows is, as it is shown, of a message of this mailbox in a thread
\* that carries no tag, although the hit was read by an earlier statement (the shared gate).
DetailsAreSafe ==
  [][answer' # answer => \A h \in answer'.details :
       \E m \in stored : /\ m.mbx = Mine /\ m.header = h
                         /\ \A n \in tagged : n.mbx # Mine \/ n.thread # m.thread]_vars
=============================================================================
