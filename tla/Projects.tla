----------------------------- MODULE Projects -----------------------------
(***************************************************************************)
(* Projects of a mailbox: the clustering of its threads                    *)
(* (services/enrich/clustering) as scripts/materialize_projects.py runs it *)
(* over stored mail, one read after another, while an ingest               *)
(* (run_windowed_ingest) or an enrichment commits.                         *)
(*                                                                         *)
(* Numbers are integers: a similarity component and a weight are hundredths,*)
(* their products ten-thousandths; an embedding is a short vector of        *)
(* naturals.  What a text says is given by the constant Words, its vector  *)
(* by the field topic: the models that compute them are external.  Leiden's*)
(* partition is any one that the edges connect.                            *)
(***************************************************************************)
EXTENDS Integers, Sequences, FiniteSets, FiniteSetsExt, SequencesExt

CONSTANTS
  Universe,    \* mails: [n, thread, day, sender, to, text, topic, links, noise, tagged]; n orders a day's mail
  Windows,     \* sets of mails one ingest may fetch
  Emails,      \* sequence of the addresses, in their order as strings
  OwnerEmail,
  Alike,       \* pairs of addresses of one domain with display names above the threshold
  Words,       \* the keywords of each text
  Phrases,     \* keywords of two words
  Ln,          \* logarithms, in hundredths
  Dim,         \* of an embedding
  Limits,      \* --limit-threads, 0 for none
  DropPercent, MaxBlock, AnnK, KnnCap, MinThreadsLeiden,  \* of ClusteringParams
  MaxIngests,  \* bound: jobs that write mail or people
  NoOne

Threads == {m.thread : m \in Universe}     \* ids, in their order as strings
Addresses == Range(Emails)

ASSUME ProjectConstants ==
  /\ IsFiniteSet(Universe) /\ Threads \subseteq Nat /\ Emails \in Seq(Addresses)
  /\ \A m \in Universe : /\ m.n \in Nat /\ m.day \in Nat /\ m.sender \in Addresses /\ m.to \subseteq Addresses
                         /\ m.topic \in [1..Dim -> Nat] /\ m.noise \in BOOLEAN /\ m.tagged \in BOOLEAN
                         /\ IsFiniteSet(Words[m.text]) /\ IsFiniteSet(m.links)
  /\ \A m, k \in Universe : m.day = k.day /\ m.n = k.n => m = k
  /\ Dim \in Nat /\ Ln \in [1..(1 + Cardinality(Threads)) -> Nat]
  /\ \A i, j \in DOMAIN Ln : i <= j => Ln[i] <= Ln[j]
  /\ Windows \subseteq SUBSET Universe
  /\ OwnerEmail \in Addresses /\ NoOne \notin Addresses
  /\ Limits \subseteq Nat /\ AnnK \in Nat \ {0} /\ KnnCap \in Nat \ {0} /\ MinThreadsLeiden \in Nat
  /\ MaxBlock \in Nat /\ DropPercent \in 0..100 /\ MaxIngests \in Nat

VARIABLES
  mail,      \* message rows, with their threads
  vectors,   \* messages with a voyage-4 vector
  people,    \* person rows, each named by its canonical address
  identity,  \* the person of each address, NoOne if it has no row
  owner,     \* mailbox.owner_person_id
  projects,  \* project rows
  assigned,  \* thread_project_assignment rows
  ingest,    \* the ingest or enrichment under way
  build,     \* the materialization under way
  ingests

rows == <<mail, vectors, people, identity, owner>>
projectsVars == <<rows, projects, assigned, ingest, build, ingests>>

------------------------------------------------------------------------------
(* Parameters (params.py).                                                   *)
Weight == [part |-> 35, emb |-> 30, kw |-> 20, temp |-> 10, attach |-> 5]
Tau == 4500
Ratio == 65
MinAff == 3500
MinSolid == 4

(* Arithmetic: the Gauss curve 30 * exp(-(gap / 14 days)^2) by steps, square *)
(* roots rounded down, cosines in hundredths.                                *)
Decay(gap) == CASE gap <= 3 -> 30 [] gap <= 7 -> 23 [] gap <= 14 -> 11 [] gap <= 28 -> 1 [] OTHER -> 0
Root(x) == CHOOSE r \in 0..x : r * r <= x /\ (r + 1) * (r + 1) > x
Dot(u, v) == SumFunction([d \in DOMAIN u |-> u[d] * v[d]])
Unit(v) == [d \in DOMAIN v |-> IF Dot(v, v) = 0 THEN 0 ELSE (100 * v[d]) \div Root(100 * Dot(v, v))]
Cosine(u, v) == IF Dot(u, v) = 0 THEN 0
                ELSE Root((10000 * Dot(u, v) * Dot(u, v)) \div (Dot(u, u) * Dot(v, v)))
Plus(vs) == [d \in DOMAIN CHOOSE v \in Range(vs) : TRUE |-> SumFunction([x \in DOMAIN vs |-> vs[x][d]])]

------------------------------------------------------------------------------
(***************************************************************************)
(* Identity resolution: one person for the addresses that a chain of alike *)
(* ones joins, named by the root of a union-find over the sorted addresses.*)
(***************************************************************************)
AddressesOf(ms) == UNION {{m.sender} \cup m.to : m \in ms}
Resolved(ms) ==
  LET n == Len(Emails)
      Merges(i, j) == /\ i < j /\ <<Emails[i], Emails[j]>> \in Alike
                      /\ {Emails[i], Emails[j]} \subseteq AddressesOf(ms)
      Joined(root, i, j) == [e \in AddressesOf(ms) |-> IF root[e] = root[Emails[i]] THEN root[Emails[j]] ELSE root[e]]
      \* After the first k pairs.
      root[k \in 0..(n * n)] ==
        IF k = 0 THEN [e \in AddressesOf(ms) |-> e]
        ELSE LET i == 1 + ((k - 1) \div n)  j == 1 + ((k - 1) % n)
             IN  IF Merges(i, j) THEN Joined(root[k - 1], i, j) ELSE root[k - 1]
  IN root[n * n]

------------------------------------------------------------------------------
(***************************************************************************)
(* Features of the threads: a function of the thread ids that have mail.   *)
(***************************************************************************)
Before(m, k) == m.day < k.day \/ (m.day = k.day /\ m.n < k.n)
Latest(ms) == CHOOSE m \in ms : \A k \in ms : m = k \/ Before(k, m)
\* The vector of a mail is looked up by its text: of two with one text the later one's.
EmbedFn(ms, text) == Latest({m \in ms : m.text = text}).topic
Tokens(m) == Max({1, Cardinality(Words[m.text])})

Features(ms, person, self) ==
  LET Known(e) == person[e] \notin {NoOne, self}
      Feature(t) ==
        LET its == {m \in ms : m.thread = t} IN
        [thread |-> t,
         participants |-> {person[e] : e \in {a \in AddressesOf(its) : Known(a)}},
         keywords |-> UNION {Words[m.text] : m \in its},
         embedding |-> Unit(Plus([m \in its |-> [d \in DOMAIN m.topic |-> Tokens(m) * EmbedFn(ms, m.text)[d]]])),
         start |-> Min({m.day : m \in its}), end |-> Max({m.day : m \in its}),
         links |-> UNION {m.links : m \in its},
         sent |-> [p \in {person[m.sender] : m \in {k \in its : Known(k.sender)}} |->
                     Cardinality({m \in its : person[m.sender] = p})]]
  IN [t \in {m.thread : m \in ms} |-> Feature(t)]

------------------------------------------------------------------------------
(* Similarity.                                                               *)
Idf(f) ==
  LET n == Cardinality(DOMAIN f)
      df(p) == Cardinality({t \in DOMAIN f : p \in f[t].participants})
  IN [p \in UNION {f[t].participants : t \in DOMAIN f} |-> Ln[n] - Ln[df(p)]]
Jaccard(a, b) == IF a \cup b = {} THEN 0 ELSE (100 * Cardinality(a \cap b)) \div Cardinality(a \cup b)
OverlapCoeff(a, b) ==
  IF a = {} \/ b = {} THEN 0 ELSE (100 * Cardinality(a \cap b)) \div Min({Cardinality(a), Cardinality(b)})
WeightedJaccard(a, b, w) ==
  LET union == SumFunctionOnSet(w, a \cup b)
  IN IF union = 0 THEN 0 ELSE (100 * SumFunctionOnSet(w, a \cap b)) \div union
TemporalAffinity(a, b) ==
  LET inter == Min({a.end, b.end}) - Max({a.start, b.start})
      span == Max({a.end, b.end}) - Min({a.start, b.start})
  IN IF inter > 0 THEN (100 * inter) \div span ELSE Decay(-inter)
Affinity(a, b, w) ==
    Weight.part * WeightedJaccard(a.participants, b.participants, w) + Weight.emb * Cosine(a.embedding, b.embedding)
  + Weight.kw * OverlapCoeff(a.keywords, b.keywords) + Weight.temp * TemporalAffinity(a, b)
ThreadSimilarity(a, b, w) == Affinity(a, b, w) + Weight.attach * Jaccard(a.links, b.links)
Similarities(f, w) == [e \in kSubset(2, DOMAIN f) |-> ThreadSimilarity(f[Min(e)], f[Max(e)], w)]

------------------------------------------------------------------------------
(***************************************************************************)
(* Hard partitions: average-linkage agglomeration for a small mailbox,     *)
(* Leiden over a sparse graph of candidate pairs for a large one.          *)
(***************************************************************************)
DenseMembership(threads, sim) ==
  LET Total(A, B) == SumFunctionOnSet(sim, {{t, u} : t \in A, u \in B})
      Size(A, B) == Cardinality(A) * Cardinality(B)
      Mergeable(P) == {p \in P \X P : p[1] # p[2] /\ Total(p[1], p[2]) >= Tau * Size(p[1], p[2])}
      Closest(P) == CHOOSE p \in Mergeable(P) : \A q \in Mergeable(P) :
                      Total(p[1], p[2]) * Size(q[1], q[2]) >= Total(q[1], q[2]) * Size(p[1], p[2])
      Merge(P) == IF Mergeable(P) = {} THEN P
                  ELSE (P \ Range(Closest(P))) \cup {UNION Range(Closest(P))}
      linkage[k \in 0..Cardinality(threads)] ==
        IF k = 0 THEN {{t} : t \in threads} ELSE Merge(linkage[k - 1])
  IN linkage[Cardinality(threads)]

Ubiquitous(f) == {p \in DOMAIN Idf(f) :
  100 * Cardinality({t \in DOMAIN f : p \in f[t].participants}) > DropPercent * Cardinality(DOMAIN f)}
SharedRare(f) == {e \in kSubset(2, DOMAIN f) : \E p \in DOMAIN Idf(f) \ Ubiquitous(f) :
  /\ \A t \in e : p \in f[t].participants
  /\ Cardinality({t \in DOMAIN f : p \in f[t].participants}) <= MaxBlock}
AnnNeighbours(f) ==
  LET k == Min({AnnK, Cardinality(DOMAIN f)})
      Cos(t, u) == Cosine(f[t].embedding, f[u].embedding)
      Nearest(t) == CHOOSE N \in kSubset(k, DOMAIN f) : \A u \in N, v \in DOMAIN f \ N : Cos(t, u) >= Cos(t, v)
  IN {e \in kSubset(2, DOMAIN f) : \E t \in e : e \subseteq {t} \cup Nearest(t)}
CandidatePairs(f) == SharedRare(f) \cup AnnNeighbours(f)
BuildEdges(f, sim) ==
  LET scored == {e \in CandidatePairs(f) : sim[e] >= Tau}
      Above(t, e) == {o \in scored : t \in o /\ (\/ sim[o] > sim[e]
                                                 \/ (sim[o] = sim[e] /\ Min(o \ {t}) < Min(e \ {t})))}
  IN {e \in scored : \E t \in e : Cardinality(Above(t, e)) < KnnCap}
Connected(threads, edges) ==
  LET reach[k \in 0..Cardinality(threads)] == [t \in threads |-> IF k = 0 THEN {t}
        ELSE UNION {reach[k - 1][u] : u \in {v \in threads : v = t \/ {t, v} \in edges}}]
  IN Range(reach[Cardinality(threads)])
Memberships(f, sim) ==
  IF Cardinality(DOMAIN f) < MinThreadsLeiden THEN {DenseMembership(DOMAIN f, sim)}
  ELSE {Connected(DOMAIN f, edges) : edges \in SUBSET BuildEdges(f, sim)}

------------------------------------------------------------------------------
(***************************************************************************)
(* Soft membership: a community is named by its least thread; every thread *)
(* is scored against every community's profile.                            *)
(***************************************************************************)
CommunityProfiles(f, P) ==
  LET Profile(C) ==
        [embedding |-> Unit(Plus([t \in C |-> f[t].embedding])),
         participants |-> UNION {f[t].participants : t \in C}, keywords |-> UNION {f[t].keywords : t \in C},
         start |-> Min({f[t].start : t \in C}), end |-> Max({f[t].end : t \in C})]
  IN [c \in {Min(C) : C \in P} |-> Profile(CHOOSE C \in P : Min(C) = c)]

SoftAssign(f, prof, w) ==
  LET Joined(t) ==
        LET aff == [c \in DOMAIN prof |-> Affinity(f[t], prof[c], w)]
            primary == CHOOSE c \in DOMAIN prof : \A o \in DOMAIN prof : aff[c] > aff[o] \/ (aff[c] = aff[o] /\ c <= o)
            secondary == {c \in DOMAIN prof : aff[c] >= MinAff /\ 100 * aff[c] >= Ratio * aff[primary]}
        IN [c \in {primary} \cup secondary |-> IF c = primary THEN Max({aff[c], 10}) ELSE aff[c]]
  IN [t \in DOMAIN f |-> Joined(t)]
Primary(joined) == CHOOSE c \in DOMAIN joined : \A o \in DOMAIN joined :
                     joined[c] > joined[o] \/ (joined[c] = joined[o] /\ c <= o)

------------------------------------------------------------------------------
(***************************************************************************)
(* The projects of the communities somebody joined.  A project's id is     *)
(* uuid5 of its sorted threads: here, the set of them.                     *)
(***************************************************************************)
Label(f, threads, docs) ==
  LET bag == UNION {f[t].keywords : t \in threads}
      Tf(k) == Cardinality({t \in threads : k \in f[t].keywords})
      Cdf(k) == Cardinality({ts \in docs : \E t \in ts : k \in f[t].keywords})
      Score(k) == Tf(k) * (Ln[1 + Cardinality(docs)] - Ln[1 + Cdf(k)])
      Best(ks) == CHOOSE k \in ks : \A o \in ks : Score(k) >= Score(o)
  IN CASE bag \cap Phrases # {} -> [source |-> "entity", term |-> Best(bag \cap Phrases)]
       [] bag # {} /\ bag \cap Phrases = {} -> [source |-> "ctfidf", term |-> Best(bag)]
       [] OTHER -> [source |-> "fallback", term |-> NoOne]

Confidence(f, threads, prof, c) ==
  LET pairs == kSubset(2, threads)
      cohesion == IF pairs = {} THEN 50
        ELSE SumFunction([e \in pairs |-> Cosine(f[Min(e)].embedding, f[Max(e)].embedding)]) \div Cardinality(pairs)
      separation == 100 - Max({0} \cup {Cosine(prof[c].embedding, prof[o].embedding) : o \in DOMAIN prof \ {c}})
      size == Min({100, (100 * Cardinality(threads)) \div MinSolid})
  IN Max({0, Min({100, (50 * cohesion + 30 * separation + 20 * size) \div 100})})

Materialized(f, prof, assigns) ==
  LET communities == UNION {DOMAIN assigns[t] : t \in DOMAIN f}
      In(c) == {t \in DOMAIN f : c \in DOMAIN assigns[t]}
      Members(c) == UNION {DOMAIN f[t].sent : t \in In(c)}
      Wrote(c, p) == {t \in In(c) : p \in DOMAIN f[t].sent}
      Member(c, p) == [person |-> p,
        involvement |-> SumFunction([t \in Wrote(c, p) |-> assigns[t][c] * f[t].sent[p]]),
        messages |-> SumFunction([t \in Wrote(c, p) |-> f[t].sent[p]])]
  IN [projects |-> [c \in communities |->
        [threads |-> In(c), members |-> {Member(c, p) : p \in Members(c)},
         start |-> Min({f[t].start : t \in In(c)}), end |-> Max({f[t].end : t \in In(c)}),
         label |-> Label(f, In(c), {In(o) : o \in communities}),
         confidence |-> Confidence(f, In(c), prof, c)]],
      assignments |-> {[thread |-> x[1], project |-> In(x[2]), weight |-> assigns[x[1]][x[2]],
                        primary |-> x[2] = Primary(assigns[x[1]])] :
                       x \in {y \in (DOMAIN f) \X communities : y[2] \in DOMAIN assigns[y[1]]}}]

------------------------------------------------------------------------------
(***************************************************************************)
(* Ingests and enrichments, each of several commits.                       *)
(***************************************************************************)
Quiet == [at |-> "idle", mails |-> {}, owns |-> FALSE]
Idle == [at |-> "idle", mode |-> "live", owner |-> NoOne, limit |-> 0, eligible |-> {}, excluded |-> {}, threads |-> {},
         ids |-> {}, mails |-> {}, feats |-> <<>>, idf |-> <<>>, sim |-> <<>>, prof |-> <<>>, assigns |-> <<>>]

ProjectsInit ==
  /\ mail = {} /\ vectors = {} /\ people = {} /\ identity = [e \in Addresses |-> NoOne] /\ owner = NoOne
  /\ projects = {} /\ assigned = {} /\ ingest = Quiet /\ build = Idle /\ ingests = 0

\* Mutant: a replace leaves the projects to cascades that are not there.
IngestKeepsProjects == \E w \in Windows, replace \in BOOLEAN :
  /\ ingest.at = "idle" /\ ingests < MaxIngests /\ ingests' = ingests + 1
  /\ mail' = IF replace THEN w ELSE mail \cup w
  /\ IF replace THEN vectors' = {} /\ people' = {} /\ identity' = [e \in Addresses |-> NoOne]
     ELSE UNCHANGED <<vectors, people, identity>>
  /\ ingest' = [at |-> "l1", mails |-> w, owns |-> TRUE]
  /\ UNCHANGED <<owner, projects, assigned, build>>

IngestWindow == \E w \in Windows, replace \in BOOLEAN :
  /\ ingest.at = "idle" /\ ingests < MaxIngests /\ ingests' = ingests + 1
  /\ mail' = IF replace THEN w ELSE mail \cup w
  /\ IF replace
     THEN vectors' = {} /\ people' = {} /\ identity' = [e \in Addresses |-> NoOne] /\ projects' = {} /\ assigned' = {}
     ELSE UNCHANGED <<vectors, people, identity, projects, assigned>>
  /\ ingest' = [at |-> "l1", mails |-> w, owns |-> TRUE]
  /\ UNCHANGED <<owner, build>>

EnrichMailbox ==
  /\ ingest.at = "idle" /\ ingests < MaxIngests /\ ingests' = ingests + 1
  /\ ingest' = [at |-> "l1", mails |-> mail, owns |-> FALSE]
  /\ UNCHANGED <<rows, projects, assigned, build>>

PersistL1 ==
  /\ ingest.at = "l1"
  /\ LET found == Resolved(ingest.mails) IN
     /\ people' = people \cup Range(found)
     /\ identity' = [e \in Addresses |-> IF e \in DOMAIN found THEN found[e] ELSE identity[e]]
  /\ ingest' = IF ingest.owns THEN [ingest EXCEPT !.at = "owner"] ELSE Quiet
  /\ UNCHANGED <<mail, vectors, owner, projects, assigned, build, ingests>>

SetOwner ==
  /\ ingest.at = "owner" /\ ingest' = Quiet
  /\ LET found == Resolved(ingest.mails) IN
     owner' = IF owner = NoOne /\ OwnerEmail \in DOMAIN found THEN found[OwnerEmail] ELSE owner
  /\ UNCHANGED <<mail, vectors, people, identity, projects, assigned, build, ingests>>

IngestFails == /\ ingest.at # "idle" /\ ingest' = Quiet
               /\ UNCHANGED <<rows, projects, assigned, build, ingests>>

Clean(ms) == {m \in ms : ~m.noise /\ ~m.tagged}
Backfill == /\ vectors' = Clean(mail) /\ vectors' # vectors
            /\ UNCHANGED <<mail, people, identity, owner, projects, assigned, ingest, build, ingests>>

------------------------------------------------------------------------------
(***************************************************************************)
(* materialize, one statement after the other.                             *)
(***************************************************************************)
Go(r) == build' = r /\ UNCHANGED <<rows, projects, assigned, ingest, ingests>>

Tagged(ms) == {m.thread : m \in {k \in ms : k.tagged}}
\* Mutant: a clean message is enough.
EligibleByMessage(ms) == {m.thread : m \in Clean(ms)}
EligibleThreads(ms) == {m.thread : m \in Clean(ms)} \ Tagged(ms)
FirstOf(ts, ms, limit) ==
  LET Start(t) == Min({m.day : m \in {k \in ms : k.thread = t}})
      Earlier(t) == {u \in ts : Start(u) < Start(t) \/ (Start(u) = Start(t) /\ u < t)}
  IN {t \in ts : limit = 0 \/ Cardinality(Earlier(t)) < limit}

\* The job runs live; an operator may ask for a dry run, which reads and computes the same.
Modes == {"live", "dry-run"}
ReadMailbox == \E limit \in Limits, mode \in Modes :
  build.at = "idle" /\ Go([Idle EXCEPT !.at = "eligible", !.mode = mode, !.owner = owner, !.limit = limit])

ReadEligible ==
  /\ build.at = "eligible"
  /\ LET found == FirstOf(EligibleThreads(mail), mail, build.limit) IN
     Go(IF found = {} THEN Idle
        ELSE [build EXCEPT !.at = "threads", !.eligible = found, !.excluded = Tagged(mail)])

LoadThreadRows ==
  /\ build.at = "threads"
  /\ Go([build EXCEPT !.at = "ids", !.threads = build.eligible \cap {m.thread : m \in mail}])

GetEmbeddable ==
  /\ build.at = "ids"
  /\ Go([build EXCEPT !.at = "mails", !.ids = {m \in Clean(mail) : m.thread \in build.eligible}])

LoadMessageRows ==
  /\ build.at = "mails"
  /\ LET found == {m \in build.ids \cap mail : m.thread \in build.threads} IN
     Go(IF found = {} THEN Idle ELSE [build EXCEPT !.at = "vectors", !.mails = found])

\* Without all vectors a live run is refused; a dry run has nothing more to write.
LoadVectors ==
  /\ build.at = "vectors"
  /\ Go(IF build.ids \subseteq vectors /\ build.mode = "live" THEN [build EXCEPT !.at = "people"] ELSE Idle)

LoadIdentities ==
  /\ build.at = "people"
  /\ LET self == IF build.owner # NoOne THEN build.owner ELSE identity[OwnerEmail] IN
     Go([build EXCEPT !.at = "score", !.ids = {}, !.mails = {}, !.feats = Features(build.mails, identity, self)])

\* cluster_mailbox, in the order of its stages.
Score ==
  /\ build.at = "score"
  /\ Go([build EXCEPT !.at = "cluster", !.idf = Idf(build.feats), !.sim = Similarities(build.feats, Idf(build.feats))])

Cluster ==
  /\ build.at = "cluster"
  /\ \E P \in Memberships(build.feats, build.sim) :
       Go([build EXCEPT !.at = "assign", !.sim = <<>>, !.prof = CommunityProfiles(build.feats, P)])

Assign ==
  /\ build.at = "assign"
  /\ Go([build EXCEPT !.at = "persist", !.idf = <<>>, !.assigns = SoftAssign(build.feats, build.prof, build.idf)])

\* What PostgreSQL refuses: two rows of one insert with one id, and a thread or person that is gone.
Twins(r) == \E c, o \in DOMAIN r.projects : c # o /\ r.projects[c].threads = r.projects[o].threads
Refused(r) == \/ Twins(r)
              \/ \E a \in r.assignments : \A m \in mail : m.thread # a.thread
              \/ \E p \in Range(r.projects) : \E x \in p.members : x.person \notin people

\* Mutant: projects that disappeared are not deleted.
PersistKeepsOld ==
  /\ build.at = "persist" /\ build' = Idle
  /\ LET result == Materialized(build.feats, build.prof, build.assigns) IN
     IF Refused(result) THEN UNCHANGED <<projects, assigned>>
     ELSE projects' = projects \cup Range(result.projects) /\ assigned' = assigned \cup result.assignments
  /\ UNCHANGED <<rows, ingest, ingests>>

\* Deletes what the new result lacks, then writes all of it: the rows are the result's.
PersistClustering ==
  /\ build.at = "persist" /\ build' = Idle
  /\ LET result == Materialized(build.feats, build.prof, build.assigns) IN
     IF Refused(result) THEN UNCHANGED <<projects, assigned>>
     ELSE projects' = Range(result.projects) /\ assigned' = result.assignments
  /\ UNCHANGED <<rows, ingest, ingests>>

ProjectsNext ==
  \/ IngestWindow \/ EnrichMailbox \/ PersistL1 \/ SetOwner \/ IngestFails \/ Backfill
  \/ ReadMailbox \/ ReadEligible \/ LoadThreadRows \/ GetEmbeddable \/ LoadMessageRows
  \/ LoadVectors \/ LoadIdentities \/ Score \/ Cluster \/ Assign \/ PersistClustering

ProjectsSpec == ProjectsInit /\ [][ProjectsNext]_projectsVars

------------------------------------------------------------------------------
(***************************************************************************)
(* Properties.                                                             *)
(***************************************************************************)
Assignment == [thread : Threads, project : SUBSET Threads, weight : 10..10000, primary : BOOLEAN]
Stored(p) == /\ p.threads \in (SUBSET Threads) \ {{}} /\ p.start \in Nat /\ p.end \in Nat /\ p.start <= p.end
             /\ p.confidence \in 0..100 /\ p.label.source \in {"entity", "ctfidf", "fallback"}
             /\ \A x \in p.members : x.person \in Addresses /\ x.involvement \in Nat /\ x.messages \in Nat \ {0}

\* Types, and the foreign keys of projects: assigned threads and members exist.
ProjectsTypeOK ==
  /\ mail \subseteq Universe /\ vectors \subseteq Universe /\ people \subseteq Addresses
  /\ identity \in [Addresses -> people \cup {NoOne}] /\ owner \in Addresses \cup {NoOne}
  /\ \A p \in projects : Stored(p) /\ {x.person : x \in p.members} \subseteq people
  /\ assigned \subseteq Assignment /\ {a.thread : a \in assigned} \subseteq {m.thread : m \in mail}
  /\ ingests \in 0..MaxIngests

\* What is stored is one clustering, whatever was clustered before and whatever committed meanwhile:
\* each thread of it has exactly one primary project, each project its own threads as its id, no two
\* assignments of one thread to one project (clustering/materialize.py, store._persist_clustering).
StoredIsAClustering ==
  /\ \A t \in {a.thread : a \in assigned} : Cardinality({a \in assigned : a.thread = t /\ a.primary}) = 1
  /\ \A p \in projects : {a.thread : a \in {b \in assigned : b.project = p.threads}} = p.threads
  /\ {a.project : a \in assigned} = {p.threads : p \in projects}
  /\ \A a, b \in assigned : a.thread = b.thread /\ a.project = b.project => a = b

\* A thread that held a tagged message when a run chose its threads is in no project once that run
\* has written, however it was assigned before (materialize_projects.py, whole-thread exclusion).
ExcludedLeave ==
  [][build.at = "persist" /\ build' # build /\ assigned' # assigned
     => \A a \in assigned' : a.thread \notin build.excluded]_projectsVars
=============================================================================
