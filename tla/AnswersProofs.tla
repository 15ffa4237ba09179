--------------------------- MODULE AnswersProofs ---------------------------
(***************************************************************************)
(* An answer cites only mail that its mailbox has had since the question   *)
(* was asked, for any mailboxes, any claims the model may return and any   *)
(* number of commits.                                                      *)
(***************************************************************************)
EXTENDS Answers, TLAPS

LEMMA IdleIsARequest == AnswerConstants => Idle \in Request /\ Silent \in Answer
  BY DEF AnswerConstants, Idle, Request, Silent, Answer, Kinds, Statuses

LEMMA OwnHeaders == TypeOK => HeadersOf(Own) \subseteq Headers
  BY DEF TypeOK, HeadersOf, Own, Headers

\* A step of the request that only goes on keeps the types if its record does.
LEMMA GoKeepsTypes ==
  ASSUME TypeOK, NEW r \in Request, Go(r) PROVE TypeOK'
  BY DEF TypeOK, Go, db

LEMMA RespondKeepsTypes ==
  ASSUME AnswerConstants, TypeOK, NEW code \in {200, 404, 500, 502, 503},
         NEW claims \in SUBSET (SUBSET Headers), NEW details \in SUBSET Headers,
         Respond(code, claims, details)
  PROVE  TypeOK'
<1>1. Idle \in Request BY IdleIsARequest
<1>2. req.status \in Statuses BY DEF TypeOK, Request
<1>3. answer' \in Answer BY <1>2 DEF Respond, Answer
<1> QED BY <1>1, <1>3 DEF TypeOK, Respond, db

LEMMA BeginKeepsTypes ==
  ASSUME AnswerConstants, TypeOK, NEW r \in Request, Begin(r) PROVE TypeOK'
<1>1. HeadersOf(Own) \subseteq Headers BY OwnHeaders
<1> QED BY <1>1, IdleIsARequest DEF TypeOK, Begin, db

LEMMA JobsKeepTypes ==
  ASSUME AnswerConstants, TypeOK, Jobs PROVE TypeOK'
<1>1. SUFFICES /\ stored' \subseteq Universe /\ tagged' \subseteq stored' /\ embedded' \subseteq stored'
               /\ projects' \subseteq Projects /\ assigned' \subseteq Threads \X Projects
               /\ edges' \subseteq Persons
               /\ Commit
  BY DEF TypeOK, Commit, Headers, AnswerConstants
<1>2. CASE Ingest BY <1>2 DEF Ingest, TypeOK
<1>3. CASE Wipe BY <1>3 DEF Wipe, TypeOK
<1>4. CASE Backfill BY <1>4 DEF Backfill, TypeOK, Own
<1>5. CASE Materialize
  <2>1. {m.thread : m \in Own} \subseteq Threads BY DEF TypeOK, Own, Threads
  <2> QED BY <1>5, <2>1 DEF Materialize, TypeOK
<1> QED BY <1>2, <1>3, <1>4, <1>5 DEF Jobs

\* The allow-list of a summary is of headers there are.
LEMMA AllowedHeaders ==
  ASSUME TypeOK, NEW rows \in SUBSET Own PROVE Allowed(rows) \subseteq Headers
  BY DEF TypeOK, Allowed, HeadersOf, Own, Headers, Request

LEMMA ReadingKeepsTypes ==
  ASSUME AnswerConstants, TypeOK, Reading PROVE TypeOK'
<1> USE DEF Statuses
<1>r. req \in Request BY DEF TypeOK
<1>e. {} \in SUBSET (SUBSET Headers) /\ {} \in SUBSET Headers OBVIOUS
<1>i. Insufficient => TypeOK' BY <1>e, RespondKeepsTypes DEF Insufficient
<1>a. \A allowed \in SUBSET Headers : AskModel(allowed) => TypeOK'
  <2> SUFFICES ASSUME NEW allowed \in SUBSET Headers, AskModel(allowed) PROVE TypeOK' OBVIOUS
  <2>1. [req EXCEPT !.at = "model", !.allowed = allowed] \in Request BY <1>r DEF Request
  <2> QED BY <2>1, GoKeepsTypes DEF AskModel
<1>1. CASE WhoThreads
  <2>1. [req EXCEPT !.at = "cite", !.threads = {t \in Threads : <<t, req.project>> \in assigned}] \in Request
    BY <1>r DEF Request
  <2> QED BY <1>1, <1>i, <2>1, GoKeepsTypes DEF WhoThreads
<1>2. CASE WhoCites
  <2>1. PICK top \in Top(Members[req.project]) : \E cites \in [top -> SUBSET Headers] :
          Respond(200, {cites[p] : p \in top} \ {{}}, {})
    BY <1>2 DEF WhoCites
  <2>2. PICK cites \in [top -> SUBSET Headers] : Respond(200, {cites[p] : p \in top} \ {{}}, {})
    BY <2>1
  <2>3. {cites[p] : p \in top} \ {{}} \in SUBSET (SUBSET Headers) OBVIOUS
  <2> QED BY <2>2, <2>3, <1>e, RespondKeepsTypes
<1>3. CASE Embed
  <2>1. [req EXCEPT !.at = "vector"] \in Request BY <1>r DEF Request
  <2>2. \A t : Degraded(t) \in Statuses BY DEF Degraded
  <2>3. \A s \in Statuses : [req EXCEPT !.at = "decide", !.status = s] \in Request
    BY <1>r DEF Request
  <2> QED BY <1>3, <2>1, <2>2, <2>3, GoKeepsTypes DEF Embed, To
<1>4. CASE VectorSearch
  <2>1. \A found \in SUBSET (Findable \cap embedded) :
          [req EXCEPT !.at = "fts", !.vec = found] \in Request
    BY <1>r DEF Request, TypeOK
  <2> QED BY <1>4, <2>1, GoKeepsTypes DEF VectorSearch
<1>5. CASE TextSearch
  <2>1. PICK found \in SUBSET Findable : \E best \in Ranked(Merged(req.vec, found)) :
          \E hits \in Reranked(best) :
            IF hits = {} THEN To("count")
            ELSE Go([req EXCEPT !.at = "decide", !.hits = hits, !.status = "active"])
    BY <1>5 DEF TextSearch
  <2>2. Merged(req.vec, found) \subseteq Headers
    BY <1>r DEF Merged, HeadersOf, Headers, Request, Findable, Own, TypeOK
  <2>3. \A best \in Ranked(Merged(req.vec, found)) : \A hits \in Reranked(best) : hits \subseteq Headers
    BY <2>2 DEF Ranked, Reranked
  <2>4. [req EXCEPT !.at = "count"] \in Request BY <1>r DEF Request
  <2>5. \A hits \in SUBSET Headers :
          [req EXCEPT !.at = "decide", !.hits = hits, !.status = "active"] \in Request
    BY <1>r DEF Request
  <2> QED BY <2>1, <2>3, <2>4, <2>5, GoKeepsTypes DEF To
<1>6. CASE HasEmbeddings
  <2>1. \A s \in Statuses : [req EXCEPT !.at = "decide", !.status = s] \in Request
    BY <1>r DEF Request
  <2> QED BY <1>6, <2>1, GoKeepsTypes DEF HasEmbeddings
<1>7. CASE RetrievalFails
  <2>1. [req EXCEPT !.at = "decide", !.status = "unavailable", !.aborted = TRUE] \in Request
    BY <1>r DEF Request
  <2> QED BY <1>7, <2>1, GoKeepsTypes DEF RetrievalFails
<1>8. CASE Decide
  <2>1. [req EXCEPT !.at = "events"] \in Request /\ [req EXCEPT !.at = "edge"] \in Request
    BY <1>r DEF Request
  <2>2. req.hits \in SUBSET Headers BY <1>r DEF Request
  <2> QED BY <1>8, <1>i, <1>e, <1>a, <2>1, <2>2, GoKeepsTypes, RespondKeepsTypes DEF Decide, To
<1>9. CASE ReadEvents
  <2>1. \A k \in BOOLEAN : [req EXCEPT !.at = "threads", !.known = k] \in Request
    BY <1>r DEF Request
  <2> QED BY <1>9, <1>i, <2>1, GoKeepsTypes DEF ReadEvents
<1>10. CASE ReadThreads
  <2>1. [req EXCEPT !.at = "messages", !.threads = {t \in Threads : <<t, req.project>> \in assigned}] \in Request
    BY <1>r DEF Request
  <2> QED BY <1>10, <2>1, GoKeepsTypes DEF ReadThreads
<1>b. Allowed({m \in Own : m.thread \in req.threads}) \in SUBSET Headers BY AllowedHeaders
<1>11. CASE ReadMessages
  BY <1>11, <1>i, <1>e, <1>a, <1>b, RespondKeepsTypes DEF ReadMessages
<1>12. CASE ReadEdge
  <2>1. {m.thread : m \in {n \in Own : req.person \in Takes[n.thread]}} \subseteq Threads
    BY DEF TypeOK, Own, Threads
  <2>2. [req EXCEPT !.at = "shared",
           !.threads = {m.thread : m \in {n \in Own : req.person \in Takes[n.thread]}}] \in Request
    BY <1>r, <2>1 DEF Request
  <2> QED BY <1>12, <1>e, <2>2, GoKeepsTypes, RespondKeepsTypes DEF ReadEdge
<1>13. CASE ReadShared
  BY <1>13, <1>i, <1>e, <1>a, <1>b, RespondKeepsTypes DEF ReadShared
<1>14. CASE SynthesisFails BY <1>14, <1>e, RespondKeepsTypes DEF SynthesisFails
<1>f. \A claims \in Claims : Filtered(Emitted(claims), req.allowed) \in SUBSET (SUBSET Headers)
  BY DEF Filtered, Emitted, AnswerConstants
<1>15. CASE Synthesize
  <2>1. \A claims \in SUBSET (SUBSET Headers) : [req EXCEPT !.at = "gate", !.claims = claims] \in Request
    BY <1>r DEF Request
  <2> QED BY <1>15, <1>f, <2>1, GoKeepsTypes DEF Synthesize
<1>16. CASE SummarizeProject BY <1>16, <1>f, <1>e, RespondKeepsTypes DEF SummarizeProject
<1>17. CASE SummarizeContact BY <1>17, <1>f, <1>e, RespondKeepsTypes DEF SummarizeContact
<1>18. CASE ModelFails BY <1>18, <1>e, RespondKeepsTypes DEF ModelFails
<1>19. CASE Gate
  <2>1. Details(req.claims) \subseteq Headers
    BY DEF Details, SafeRows, HeadersOf, Own, TypeOK, Headers
  <2>2. req.claims \in SUBSET (SUBSET Headers) BY <1>r DEF Request
  <2> QED BY <1>19, <2>1, <2>2, RespondKeepsTypes DEF Gate
<1> QED BY <1>1, <1>2, <1>3, <1>4, <1>5, <1>6, <1>7, <1>8, <1>9, <1>10, <1>11, <1>12, <1>13,
           <1>14, <1>15, <1>16, <1>17, <1>18, <1>19 DEF Reading

LEMMA RequestsKeepTypes ==
  ASSUME AnswerConstants, TypeOK, Requests PROVE TypeOK'
<1>r. Idle \in Request /\ Silent \in Answer BY IdleIsARequest
<1>h. HeadersOf(Own) \subseteq Headers BY OwnHeaders
<1>1. CASE AskCover
  <2>1. PICK named \in SUBSET (Projects \cup Persons), who \in BOOLEAN,
             client \in {"built", "no_key", "broken"} : \E to \in Route(named) :
          Begin([Idle EXCEPT !.who = who, !.project = to.project, !.person = to.person,
                   !.at = IF who /\ to.project # None THEN "who"
                          ELSE IF client = "built" THEN "embed" ELSE "decide",
                   !.status = IF (who /\ to.project # None) \/ client = "built" THEN "active_l1_only"
                              ELSE IF client = "no_key" THEN "disabled_no_key" ELSE "unavailable"])
    BY <1>1 DEF AskCover
  <2>2. \A to \in Route(named) : to.project \in Projects \cup {None} /\ to.person \in Persons \cup {None}
    <3> SUFFICES ASSUME NEW to \in Route(named)
                 PROVE  to.project \in Projects \cup {None} /\ to.person \in Persons \cup {None}
      OBVIOUS
    <3>1. Longest(named \cap projects) \subseteq Projects /\ Longest(named \cap Persons) \subseteq Persons
      BY DEF Longest, TypeOK
    <3>2. \/ to = [project |-> None, person |-> None]
          \/ \E x \in Longest(named \cap projects) : to = [project |-> x, person |-> None]
          \/ \E x \in Longest(named \cap Persons) : to = [project |-> None, person |-> x]
      BY DEF Route
    <3>3. CASE to = [project |-> None, person |-> None] BY <3>3
    <3>4. CASE \E x \in Longest(named \cap projects) : to = [project |-> x, person |-> None]
      BY <3>1, <3>4
    <3>5. CASE \E x \in Longest(named \cap Persons) : to = [project |-> None, person |-> x]
      BY <3>1, <3>5
    <3> QED BY <3>2, <3>3, <3>4, <3>5
  <2>3. PICK to \in Route(named) :
          Begin([Idle EXCEPT !.who = who, !.project = to.project, !.person = to.person,
                   !.at = IF who /\ to.project # None THEN "who"
                          ELSE IF client = "built" THEN "embed" ELSE "decide",
                   !.status = IF (who /\ to.project # None) \/ client = "built" THEN "active_l1_only"
                              ELSE IF client = "no_key" THEN "disabled_no_key" ELSE "unavailable"])
    BY <2>1
  <2>4. \A p \in Projects \cup {None}, n \in Persons \cup {None}, at \in {"who", "embed", "decide"},
           status \in Statuses :
          [Idle EXCEPT !.who = who, !.project = p, !.person = n, !.at = at, !.status = status] \in Request
    BY <1>r DEF Idle, Request
  <2>5. to.project \in Projects \cup {None} /\ to.person \in Persons \cup {None} BY <2>2
  <2>6. (IF who /\ to.project # None THEN "who"
         ELSE IF client = "built" THEN "embed" ELSE "decide") \in {"who", "embed", "decide"}
    OBVIOUS
  <2>7. (IF (who /\ to.project # None) \/ client = "built" THEN "active_l1_only"
         ELSE IF client = "no_key" THEN "disabled_no_key" ELSE "unavailable") \in Statuses
    BY DEF Statuses
  <2>8. [Idle EXCEPT !.who = who, !.project = to.project, !.person = to.person,
           !.at = IF who /\ to.project # None THEN "who"
                  ELSE IF client = "built" THEN "embed" ELSE "decide",
           !.status = IF (who /\ to.project # None) \/ client = "built" THEN "active_l1_only"
                      ELSE IF client = "no_key" THEN "disabled_no_key" ELSE "unavailable"] \in Request
    BY <2>4, <2>5, <2>6, <2>7
  <2> QED BY <2>3, <2>8, BeginKeepsTypes
<1>2. CASE AskProject
  <2>1. PICK p \in Projects :
          IF p \in projects
            THEN Begin([Idle EXCEPT !.kind = "project", !.project = p, !.at = "events"])
            ELSE /\ req.at = "idle" /\ extant' = HeadersOf(Own)
                 /\ answer' = [Silent EXCEPT !.code = 404]
                 /\ UNCHANGED <<db, req, writes>>
    BY <1>2 DEF AskProject
  <2>2. [Idle EXCEPT !.kind = "project", !.project = p, !.at = "events"] \in Request
    BY <1>r DEF Idle, Request, Kinds
  <2>3. [Silent EXCEPT !.code = 404] \in Answer BY <1>r DEF Silent, Answer
  <2> QED BY <1>h, <2>1, <2>2, <2>3, BeginKeepsTypes DEF TypeOK, db
<1>3. CASE AskContact
  <2>1. \A p \in Persons : [Idle EXCEPT !.kind = "contact", !.person = p, !.at = "edge"] \in Request
    BY <1>r DEF Idle, Request, Kinds
  <2> QED BY <1>3, <2>1, BeginKeepsTypes DEF AskContact
<1>4. CASE AskSource
  <2>1. PICK h \in Headers :
          /\ extant' = HeadersOf(Own)
          /\ answer' = [code |-> IF SafeRows({h}) = {} THEN 404 ELSE 200, claims |-> {},
                        details |-> HeadersOf(SafeRows({h})), status |-> "active_l1_only"]
          /\ UNCHANGED <<db, req, writes>>
    BY <1>4 DEF AskSource
  <2>2. HeadersOf(SafeRows({h})) \subseteq Headers BY DEF SafeRows, HeadersOf, Own, TypeOK, Headers
  <2>3. (IF SafeRows({h}) = {} THEN 404 ELSE 200) \in {200, 404, 500, 502, 503} OBVIOUS
  <2>4. {} \in SUBSET (SUBSET Headers) /\ "active_l1_only" \in Statuses BY DEF Statuses
  <2>5. answer' \in Answer BY <2>1, <2>2, <2>3, <2>4 DEF Answer
  <2> QED BY <1>h, <2>1, <2>5 DEF TypeOK, db
<1> QED BY <1>1, <1>2, <1>3, <1>4 DEF Requests

\* Every state has the types of the columns and of what a request carries.
THEOREM TypeCorrect == ASSUME AnswerConstants PROVE Spec => []TypeOK
<1>1. Init => TypeOK
  <2> SUFFICES ASSUME Init PROVE TypeOK OBVIOUS
  <2>1. Idle \in Request /\ Silent \in Answer BY IdleIsARequest
  <2>2. {m.thread : m \in Own} \subseteq Threads BY DEF Init, Own, Threads
  <2> QED BY <2>1, <2>2 DEF Init, TypeOK, AnswerConstants
<1>2. TypeOK /\ [Next]_vars => TypeOK'
  <2> SUFFICES ASSUME TypeOK, [Next]_vars PROVE TypeOK' OBVIOUS
  <2>1. CASE UNCHANGED vars BY <2>1 DEF TypeOK, vars, db
  <2> QED BY <2>1, JobsKeepTypes, RequestsKeepTypes, ReadingKeepsTypes DEF Next
<1> QED BY <1>1, <1>2, PTL DEF Spec

(***************************************************************************)
(* What a request holds is of this mailbox: vectors found, hits, the       *)
(* allow-list and the claims kept.                                         *)
(***************************************************************************)
Fits(r) == /\ HeadersOf(r.vec) \subseteq extant /\ r.hits \subseteq extant
           /\ r.allowed \subseteq extant /\ r.claims \subseteq SUBSET extant
Held == /\ req.at = "idle" => req = Idle
        /\ req.at # "idle" => HeadersOf(Own) \subseteq extant
        /\ Fits(req)
        /\ answer.claims \subseteq SUBSET extant

LEMMA IdleFits == Fits(Idle) BY DEF Fits, Idle, HeadersOf

LEMMA GoHolds ==
  ASSUME Held, req.at # "idle", NEW r, r.at # "idle", Fits(r), Go(r) PROVE Held'
  BY DEF Held, Go, db, Own, Fits, HeadersOf

LEMMA RespondHolds ==
  ASSUME Held, NEW code, NEW claims, claims \subseteq SUBSET extant, NEW details,
         Respond(code, claims, details)
  PROVE  Held'
<1>1. Fits(Idle)' BY DEF Fits, Idle, HeadersOf
<1>2. req' = Idle /\ extant' = extant /\ answer'.claims = claims BY DEF Respond
<1> QED BY <1>1, <1>2 DEF Held, Idle, Fits

LEMMA BeginHolds ==
  ASSUME Held, NEW r, r.at # "idle", r.vec = {}, r.hits = {}, r.allowed = {}, r.claims = {}, Begin(r)
  PROVE  Held'
  BY DEF Held, Begin, Fits, HeadersOf, db, Own, Silent

LEMMA JobsHold == ASSUME Held, Jobs PROVE Held'
<1>1. Commit BY DEF Jobs, Ingest, Wipe, Backfill, Materialize
<1>2. extant' = extant \cup {m.header : m \in {n \in stored' : n.mbx = Mine}}
      /\ req' = req /\ answer' = answer
  BY <1>1 DEF Commit
<1>3. HeadersOf(Own)' \subseteq extant' BY <1>2 DEF HeadersOf, Own
<1> QED BY <1>2, <1>3 DEF Held, Fits, HeadersOf

LEMMA RequestsHold == ASSUME Held, Requests PROVE Held'
<1>1. CASE AskCover
  <2>2. ASSUME NEW who, NEW p, NEW n, NEW at, at # "idle", NEW status,
               Begin([Idle EXCEPT !.who = who, !.project = p, !.person = n, !.at = at, !.status = status])
        PROVE  Held'
    <3> DEFINE r == [Idle EXCEPT !.who = who, !.project = p, !.person = n, !.at = at, !.status = status]
    <3>0. r.at = at /\ r.vec = {} /\ r.hits = {} /\ r.allowed = {} /\ r.claims = {} BY Zenon DEF Idle
    <3>1. r.at # "idle" /\ r.vec = {} /\ r.hits = {} /\ r.allowed = {} /\ r.claims = {} BY <2>2, <3>0
    <3>2. Begin(r) BY <2>2
    <3> HIDE DEF r
    <3> QED BY <3>1, <3>2, BeginHolds
  <2>3. PICK named \in SUBSET (Projects \cup Persons), who \in BOOLEAN,
             client \in {"built", "no_key", "broken"} : \E to \in Route(named) :
          Begin([Idle EXCEPT !.who = who, !.project = to.project, !.person = to.person,
                   !.at = IF who /\ to.project # None THEN "who"
                          ELSE IF client = "built" THEN "embed" ELSE "decide",
                   !.status = IF (who /\ to.project # None) \/ client = "built" THEN "active_l1_only"
                              ELSE IF client = "no_key" THEN "disabled_no_key" ELSE "unavailable"])
    BY <1>1 DEF AskCover
  <2> QED BY <2>2, <2>3
<1>2. CASE AskProject
  <2>1. PICK p \in Projects :
          IF p \in projects
            THEN Begin([Idle EXCEPT !.kind = "project", !.project = p, !.at = "events"])
            ELSE /\ req.at = "idle" /\ extant' = HeadersOf(Own)
                 /\ answer' = [Silent EXCEPT !.code = 404]
                 /\ UNCHANGED <<db, req, writes>>
    BY <1>2 DEF AskProject
  <2>2. CASE p \in projects BY <2>1, <2>2, BeginHolds DEF Idle
  <2>3. CASE p \notin projects BY <2>1, <2>3 DEF Held, Fits, Idle, HeadersOf, Silent
  <2> QED BY <2>2, <2>3
<1>3. CASE AskContact BY <1>3, BeginHolds DEF AskContact, Idle
<1>4. CASE AskSource BY <1>4 DEF AskSource, Held, Fits, Idle, HeadersOf, Silent
<1> QED BY <1>1, <1>2, <1>3, <1>4 DEF Requests

LEMMA ReadingHolds == ASSUME AnswerConstants, TypeOK, Held, Reading PROVE Held'
<1>r. req \in Request BY DEF TypeOK
<1>f. Fits(req) BY DEF Held
<1>i. Insufficient => Held' BY RespondHolds DEF Insufficient
<1>n. \A c : Respond(c, {}, {}) => Held' BY RespondHolds
<1>o. req.at # "idle" => HeadersOf(Own) \subseteq extant BY DEF Held
<1>a. \A allowed : allowed \subseteq extant /\ req.at # "idle" /\ AskModel(allowed) => Held'
  <2> SUFFICES ASSUME NEW allowed, allowed \subseteq extant, req.at # "idle", AskModel(allowed)
               PROVE  Held'
    OBVIOUS
  <2>1. Fits([req EXCEPT !.at = "model", !.allowed = allowed]) BY <1>r, <1>f DEF Fits, Request
  <2>2. [req EXCEPT !.at = "model", !.allowed = allowed].at = "model" BY <1>r DEF Request
  <2> QED BY <2>1, <2>2, GoHolds DEF AskModel
<1>b. req.at # "idle" => Allowed({m \in Own : m.thread \in req.threads}) \subseteq extant
  BY <1>o, <1>f DEF Allowed, HeadersOf, Fits
<1>1. CASE WhoThreads BY <1>1, <1>r, <1>f, <1>i, GoHolds DEF WhoThreads, Fits, Request
<1>2. CASE WhoCites
  <2>1. PICK top \in Top(Members[req.project]) : \E cites \in [top -> SUBSET Headers] :
          /\ \A p \in top : cites[p] \in
               Top(HeadersOf({m \in Own : m.thread \in req.threads /\ m.sender = p}))
          /\ Respond(200, {cites[p] : p \in top} \ {{}}, {})
    BY <1>2 DEF WhoCites
  <2>2. PICK cites \in [top -> SUBSET Headers] :
          /\ \A p \in top : cites[p] \in
               Top(HeadersOf({m \in Own : m.thread \in req.threads /\ m.sender = p}))
          /\ Respond(200, {cites[p] : p \in top} \ {{}}, {})
    BY <2>1
  <2>3. HeadersOf(Own) \subseteq extant BY <1>2, <1>o DEF WhoCites
  <2>4. \A p \in top : cites[p] \subseteq extant BY <2>2, <2>3 DEF Top, HeadersOf
  <2>5. {cites[p] : p \in top} \ {{}} \subseteq SUBSET extant BY <2>4
  <2> QED BY <2>2, <2>5, RespondHolds
<1>3. CASE Embed BY <1>3, <1>r, <1>f, GoHolds DEF Embed, To, Fits, Request
<1>4. CASE VectorSearch
  <2>1. PICK found \in SUBSET (Findable \cap embedded) : Go([req EXCEPT !.at = "fts", !.vec = found])
    BY <1>4 DEF VectorSearch
  <2>2. HeadersOf(found) \subseteq extant BY <1>4, <1>o DEF VectorSearch, Findable, HeadersOf
  <2>3. Fits([req EXCEPT !.at = "fts", !.vec = found]) BY <1>r, <1>f, <2>2 DEF Fits, Request
  <2> QED BY <1>4, <1>r, <2>1, <2>3, GoHolds DEF VectorSearch, Request
<1>5. CASE TextSearch
  <2>1. PICK found \in SUBSET Findable : \E best \in Ranked(Merged(req.vec, found)) :
          \E hits \in Reranked(best) :
            IF hits = {} THEN To("count")
            ELSE Go([req EXCEPT !.at = "decide", !.hits = hits, !.status = "active"])
    BY <1>5 DEF TextSearch
  <2>2. Merged(req.vec, found) \subseteq extant
    BY <1>5, <1>o, <1>f DEF TextSearch, Merged, HeadersOf, Fits, Findable
  <2>3. PICK hits \in SUBSET extant :
          IF hits = {} THEN To("count")
          ELSE Go([req EXCEPT !.at = "decide", !.hits = hits, !.status = "active"])
    BY <2>1, <2>2 DEF Ranked, Reranked
  <2>4. Fits([req EXCEPT !.at = "count"]) BY <1>r, <1>f DEF Fits, Request
  <2>5. Fits([req EXCEPT !.at = "decide", !.hits = hits, !.status = "active"])
    BY <1>r, <1>f DEF Fits, Request
  <2> QED BY <1>5, <1>r, <2>3, <2>4, <2>5, GoHolds DEF TextSearch, To, Request
<1>6. CASE HasEmbeddings BY <1>6, <1>r, <1>f, GoHolds DEF HasEmbeddings, Fits, Request
<1>7. CASE RetrievalFails BY <1>7, <1>r, <1>f, GoHolds DEF RetrievalFails, Fits, Request
<1>8. CASE Decide
  <2>1. req.hits \subseteq extant BY <1>f DEF Fits
  <2>2. Fits([req EXCEPT !.at = "events"]) /\ Fits([req EXCEPT !.at = "edge"])
    BY <1>r, <1>f DEF Fits, Request
  <2>3. [req EXCEPT !.at = "events"].at = "events" /\ [req EXCEPT !.at = "edge"].at = "edge"
    BY <1>r DEF Request
  <2>4. \/ Insufficient \/ Respond(503, {}, {}) \/ To("events") \/ To("edge") \/ AskModel(req.hits)
    BY <1>8 DEF Decide
  <2>5. req.at # "idle" BY <1>8 DEF Decide
  <2>6. To("events") => Held' BY <2>2, <2>3, <2>5, GoHolds DEF To
  <2>7. To("edge") => Held' BY <2>2, <2>3, <2>5, GoHolds DEF To
  <2>8. AskModel(req.hits) => Held' BY <1>a, <2>1, <2>5
  <2> QED BY <1>i, <1>n, <2>4, <2>6, <2>7, <2>8
<1>9. CASE ReadEvents BY <1>9, <1>r, <1>f, <1>i, GoHolds DEF ReadEvents, Fits, Request
<1>10. CASE ReadThreads BY <1>10, <1>r, <1>f, GoHolds DEF ReadThreads, Fits, Request
<1>11. CASE ReadMessages BY <1>11, <1>a, <1>b, <1>i, <1>n DEF ReadMessages
<1>12. CASE ReadEdge BY <1>12, <1>r, <1>f, <1>n, GoHolds DEF ReadEdge, Fits, Request
<1>13. CASE ReadShared BY <1>13, <1>a, <1>b, <1>i, <1>n DEF ReadShared
<1>14. CASE SynthesisFails BY <1>14, <1>n DEF SynthesisFails
<1>c. \A claims : Filtered(Emitted(claims), req.allowed) \subseteq SUBSET extant
  BY <1>f DEF Fits, Filtered, Emitted
<1>15. CASE Synthesize
  <2>1. PICK claims \in Claims :
          Go([req EXCEPT !.at = "gate", !.claims = Filtered(Emitted(claims), req.allowed)])
    BY <1>15 DEF Synthesize
  <2>2. Fits([req EXCEPT !.at = "gate", !.claims = Filtered(Emitted(claims), req.allowed)])
    BY <1>r, <1>f, <1>c DEF Fits, Request
  <2> QED BY <1>15, <1>r, <2>1, <2>2, GoHolds DEF Synthesize, Request
<1>16. CASE SummarizeProject BY <1>16, <1>c, RespondHolds DEF SummarizeProject
<1>17. CASE SummarizeContact BY <1>17, <1>c, RespondHolds DEF SummarizeContact
<1>18. CASE ModelFails BY <1>18, <1>n DEF ModelFails
<1>19. CASE Gate BY <1>19, <1>f, RespondHolds DEF Gate, Fits
<1> QED BY <1>1, <1>2, <1>3, <1>4, <1>5, <1>6, <1>7, <1>8, <1>9, <1>10, <1>11, <1>12, <1>13,
           <1>14, <1>15, <1>16, <1>17, <1>18, <1>19 DEF Reading

\* Whatever the model returns, an answer cites only mail the mailbox has had meanwhile.
THEOREM AnswersCiteOwnMail == ASSUME AnswerConstants PROVE Spec => []CitesOwnMail
<1>1. Init => Held BY IdleFits DEF Init, Held, Silent, Idle
<1>2. TypeOK /\ Held /\ [Next]_vars => Held'
  <2> SUFFICES ASSUME TypeOK, Held, [Next]_vars PROVE Held' OBVIOUS
  <2>1. CASE UNCHANGED vars BY <2>1 DEF Held, vars, db, Fits, HeadersOf, Own
  <2> QED BY <2>1, JobsHold, RequestsHold, ReadingHolds DEF Next
<1>3. Held => CitesOwnMail BY DEF Held, Fits, CitesOwnMail
<1> QED BY <1>1, <1>2, <1>3, TypeCorrect, PTL DEF Spec

(***************************************************************************)
(* The gate: what a step shows, it has checked in the step.                *)
(***************************************************************************)
\* A header whose message, as the rows are now, is of this mailbox and in a thread without a tag.
Showable(h) == \E m \in stored : /\ m.mbx = Mine /\ m.header = h
                                 /\ \A n \in tagged : n.mbx # Mine \/ n.thread # m.thread

LEMMA SafeIsShowable ==
  ASSUME TypeOK, NEW headers PROVE \A h \in HeadersOf(SafeRows(headers)) : Showable(h)
<1> SUFFICES ASSUME NEW m \in SafeRows(headers) PROVE Showable(m.header)
  BY DEF HeadersOf
<1>1. m \in stored /\ m.mbx = Mine /\ \A n \in Own : n.thread = m.thread => n \notin tagged
  BY DEF SafeRows, Own
<1>2. ASSUME NEW n \in tagged, n.mbx = Mine PROVE n.thread # m.thread
  <2>1. n \in Own BY <1>2 DEF TypeOK, Own
  <2> QED BY <1>1, <2>1
<1> QED BY <1>1, <1>2 DEF Showable

\* A step of a reading shows no details, but for the gate.
LEMMA OnlyTheGateShows ==
  ASSUME Reading PROVE answer' = answer \/ answer'.details = {} \/ Gate
<1>i. Insufficient => answer'.details = {} BY DEF Insufficient, Respond
<1>n. \A c, claims : Respond(c, claims, {}) => answer'.details = {} BY DEF Respond
<1>g. \A r : Go(r) => answer' = answer BY DEF Go
<1>1. CASE WhoThreads BY <1>1, <1>i, <1>g DEF WhoThreads
<1>2. CASE WhoCites BY <1>2, <1>n DEF WhoCites
<1>3. CASE Embed BY <1>3, <1>g DEF Embed, To
<1>4. CASE VectorSearch BY <1>4, <1>g DEF VectorSearch
<1>5. CASE TextSearch BY <1>5, <1>g DEF TextSearch, To
<1>6. CASE HasEmbeddings BY <1>6, <1>g DEF HasEmbeddings
<1>7. CASE RetrievalFails BY <1>7, <1>g DEF RetrievalFails
<1>8. CASE Decide BY <1>8, <1>i, <1>n, <1>g DEF Decide, To, AskModel
<1>9. CASE ReadEvents BY <1>9, <1>i, <1>g DEF ReadEvents
<1>10. CASE ReadThreads BY <1>10, <1>g DEF ReadThreads
<1>11. CASE ReadMessages BY <1>11, <1>i, <1>n, <1>g DEF ReadMessages, AskModel
<1>12. CASE ReadEdge BY <1>12, <1>n, <1>g DEF ReadEdge
<1>13. CASE ReadShared BY <1>13, <1>i, <1>n, <1>g DEF ReadShared, AskModel
<1>14. CASE SynthesisFails BY <1>14, <1>n DEF SynthesisFails
<1>15. CASE Synthesize BY <1>15, <1>g DEF Synthesize
<1>16. CASE SummarizeProject BY <1>16, <1>n DEF SummarizeProject
<1>17. CASE SummarizeContact BY <1>17, <1>n DEF SummarizeContact
<1>18. CASE ModelFails BY <1>18, <1>n DEF ModelFails
<1>19. CASE Gate BY <1>19
<1> QED BY <1>1, <1>2, <1>3, <1>4, <1>5, <1>6, <1>7, <1>8, <1>9, <1>10, <1>11, <1>12, <1>13,
           <1>14, <1>15, <1>16, <1>17, <1>18, <1>19 DEF Reading

\* Whatever was tagged, wiped or ingested since the hits were read, a detail is shown only of a
\* message that is there, in a thread without a tag, as the answer is given (evidence.py, fetch_safe_source_rows).
THEOREM DetailsHold == ASSUME AnswerConstants PROVE Spec => DetailsAreSafe
<1> DEFINE Safe == answer' # answer => \A h \in answer'.details : Showable(h)
<1>1. ASSUME TypeOK, [Next]_vars PROVE Safe
  <2>1. CASE UNCHANGED vars BY <2>1 DEF vars
  <2>2. CASE Jobs BY <2>2 DEF Jobs, Ingest, Wipe, Backfill, Materialize, Commit
  <2>3. CASE Requests
    <3>1. \A r : Begin(r) => answer'.details = {} BY DEF Begin, Silent
    <3>2. CASE AskCover BY <3>1, <3>2 DEF AskCover
    <3>3. CASE AskProject BY <3>1, <3>3 DEF AskProject, Silent
    <3>4. CASE AskContact BY <3>1, <3>4 DEF AskContact
    <3>5. CASE AskSource BY <1>1, <3>5, SafeIsShowable DEF AskSource
    <3> QED BY <2>3, <3>2, <3>3, <3>4, <3>5 DEF Requests
  <2>4. CASE Reading
    <3>1. CASE Gate BY <1>1, <3>1, SafeIsShowable DEF Gate, Details, Respond
    <3> QED BY <2>4, <3>1, OnlyTheGateShows
  <2> QED BY <1>1, <2>1, <2>2, <2>3, <2>4 DEF Next
<1> QED BY <1>1, TypeCorrect, PTL DEF Spec, DetailsAreSafe, Showable
=============================================================================
