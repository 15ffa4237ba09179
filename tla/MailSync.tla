------------------------------ MODULE MailSync ------------------------------
(***************************************************************************)
(* How a Gmail mailbox reaches the database: the operator's runs           *)
(* (scripts/gmail_smoke_ingest.py) and the windowed jobs the API requests  *)
(* (services/api/routers/gmail_ingest.py, services/ingest/gmail_windowed)  *)
(* list, fetch and normalise mail while more of it arrives, store it with  *)
(* the threads that services/ingest/normalize/threads.py reconstructs, and *)
(* an operator's run then saves the history id from which the next one     *)
(* continues.                                                              *)
(*                                                                         *)
(* A run is cut where mail may arrive or it may fail: the profile (which   *)
(* yields the history id), each listing, the fetch, the commit of the      *)
(* messages, the commit of the token.  Overlap says whether an operator's  *)
(* run and a job may be under way together; nothing in the code prevents   *)
(* it.                                                                     *)
(***************************************************************************)
EXTENDS Integers, Sequences, FiniteSets, SequencesExt

CONSTANTS
  Mails,        \* what may arrive at Gmail
  Mids,         \* message ids, normalised; synthetic ones among them
  Mid,          \* the id of each mail
  References,   \* the ids its headers refer to, in order (none, if its own is synthetic)
  Group,        \* the provider's thread of each mail
  Runners,      \* {Cli, Job}
  Cli, Job,
  Days,         \* the days a window may be bounded by; 0 leaves it open
  PerDay,       \* bound: mails that arrive in a day
  Caps,         \* the max_messages a run may be given
  Page,         \* additions per page of the history
  None,
  Overlap

ASSUME MailConstants ==
  /\ IsFiniteSet(Mids) /\ Mid \in [Mails -> Mids]
  /\ References \in [Mails -> Seq(Mids)]
  /\ Runners = {Cli, Job} /\ Cli # Job
  /\ Days \subseteq Nat /\ 0 \in Days
  /\ PerDay \in Nat \ {0} /\ Page \in Nat \ {0} /\ Caps \subseteq Nat \ {0}
  /\ None \notin Mids
  /\ Overlap \in BOOLEAN

VARIABLES
  gmail,     \* the mails, as they arrived; a history id counts them
  run,       \* what each runner is doing
  message,   \* the ids that have a message row
  threadOf,  \* the thread of each of them
  thread,    \* thread rows, by the id of the root they hash, with their lineage_conflict
  token      \* sync_state: 0 if there is none

vars == <<gmail, run, message, threadOf, thread, token>>

Windows == {w \in [from : Days, to : Days] : w.from = 0 \/ w.to = 0 \/ w.from <= w.to}
Open == [from |-> 0, to |-> 0]

\* A look (--plan-only, --dry-run) stores nothing; a dry run fetches what it lists.
Modes == {"smoke", "look", "ingest"}
Run == [at : {"idle", "begun", "profiled", "listed", "fetched", "stored"},
        mode : Modes,
        window : Windows, replace : BOOLEAN, cap : Caps \cup {0},
        since : Nat, history : Nat, read : Nat, ids : Seq(Mails)]

Idle == [at |-> "idle", mode |-> "ingest", window |-> Open, replace |-> FALSE, cap |-> 0,
         since |-> 0, history |-> 0, read |-> 0, ids |-> <<>>]

-----------------------------------------------------------------------------
\* The window.

IsWindowed(w) == w # Open
DayOf(i) == 1 + ((i - 1) \div PerDay)

\* Mutant of Query: date_to becomes the bound that Gmail excludes.
QueryExclusive(w) == [after |-> w.from, before |-> w.to]

\* build_gmail_query; 0 leaves a side open.
Query(w) == [after |-> w.from, before |-> IF w.to = 0 THEN 0 ELSE w.to + 1]

\* What Gmail matches.
Hits(q, i) == (q.after = 0 \/ DayOf(i) >= q.after) /\ (q.before = 0 \/ DayOf(i) < q.before)

\* messages.list: the newest first; the k-th hit is the one that k hits are as new as.
Newest(q) ==
  LET hits == {i \in 1..Len(gmail) : Hits(q, i)}
      rank(i) == Cardinality({j \in hits : j >= i})
  IN  [k \in 1..Cardinality(hits) |-> gmail[CHOOSE i \in hits : rank(i) = k]]

\* The islice at the cap and one more, which shows that it was hit.
Sliced(ids, cap) == IF Len(ids) <= cap + 1 THEN ids ELSE SubSeq(ids, 1, cap + 1)
HitCap(r) == Len(r.ids) > r.cap
Kept(r) == IF HitCap(r) THEN SubSeq(r.ids, 1, r.cap) ELSE r.ids

-----------------------------------------------------------------------------
\* Thread reconstruction.

\* find: the end of the chain of parents.  (Halving the path does not change it.)
Find(parent, x) ==
  LET up[n \in 0..Cardinality(Mids)] == IF n = 0 THEN x ELSE parent[up[n - 1]]
  IN  up[Cardinality(Mids)]

\* Mutant of Union: the parent of a is overwritten, be it a root or not.
UnionAtLeaf(parent, a, b) == [parent EXCEPT ![a] = Find(parent, b)]

Union(parent, a, b) == [parent EXCEPT ![Find(parent, a)] = Find(parent, b)]

\* A message joins the ids that it refers to, one after the other.
Joined(parent, m) ==
  LET up[j \in 0..Len(References[m])] ==
        IF j = 0 THEN parent ELSE Union(up[j - 1], Mid[m], References[m][j])
  IN  up[Len(References[m])]

Forest(batch) ==
  LET up[i \in 0..Len(batch)] == IF i = 0 THEN [m \in Mids |-> m] ELSE Joined(up[i - 1], batch[i])
  IN  up[Len(batch)]

Roots(batch) == LET parent == Forest(batch) IN [m \in Mids |-> Find(parent, m)]

\* A provider's group with several roots is kept apart, and each of them flagged.
Conflicted(batch, root) ==
  {root[Mid[m]] : m \in {m \in Range(batch) :
     \E n \in Range(batch) : Group[n] = Group[m] /\ root[Mid[n]] # root[Mid[m]]}}

\* The thread rows of a batch, and whether each is flagged.
ThreadRows(batch, root) ==
  [t \in {root[Mid[batch[i]]] : i \in DOMAIN batch} |->
     IF t \in Conflicted(batch, root) THEN "conflict" ELSE "plain"]

\* The insert has one row per id, or PostgreSQL refuses it.
Distinct(batch) == \A i, j \in DOMAIN batch : Mid[batch[i]] = Mid[batch[j]] => i = j

-----------------------------------------------------------------------------
Init ==
  /\ gmail = <<>>
  /\ run = [a \in Runners |-> Idle]
  /\ message = {}
  /\ threadOf = [m \in Mids |-> None]
  /\ thread = [m \in Mids |-> "none"]
  /\ token = 0

Arrive(m) ==
  /\ m \notin Range(gmail)
  /\ gmail' = Append(gmail, m)
  /\ UNCHANGED <<run, message, threadOf, thread, token>>

Goes(a, r) == run' = [run EXCEPT ![a] = r]
Alone(a) == Overlap \/ \A b \in Runners \ {a} : run[b].at = "idle"

\* ingest_window refuses a replacement without a window.
MayRequest(w, replace) == replace => IsWindowed(w)

\* The job, whose queue is JobQueue's: a snapshot of the window, which never reads nor
\* saves a token.
BeginJob(w, replace, cap) ==
  /\ run[Job].at = "idle" /\ Alone(Job)
  /\ MayRequest(w, replace)
  /\ Goes(Job, [Idle EXCEPT !.at = "begun", !.window = w, !.replace = replace, !.cap = cap])
  /\ UNCHANGED <<gmail, message, threadOf, thread, token>>

\* _replace_snapshot_error
MayReplace(mode, w) == mode # "look" /\ IsWindowed(w)

\* The stored token, unless there is a window.  (A preview without one lists all.)
Since(mode, w) == IF IsWindowed(w) \/ mode = "smoke" THEN 0 ELSE token

\* An operator's run; a smoke check reads one message of the whole mailbox.  (An operator who passes --since-token vouches for what is before it.)
BeginCli(mode, w, replace, cap) ==
  /\ run[Cli].at = "idle" /\ Alone(Cli)
  /\ replace => MayReplace(mode, w)
  /\ mode = "smoke" => w = Open
  /\ Goes(Cli, [Idle EXCEPT !.at = "begun", !.mode = mode, !.window = w, !.replace = replace,
                            !.cap = IF mode = "smoke" THEN 0 ELSE cap,
                            !.since = Since(mode, w)])
  /\ UNCHANGED <<gmail, message, threadOf, thread, token>>

-----------------------------------------------------------------------------
\* Mutant of Profile: the history id is taken with the listing, by List.
ProfileLate(a) ==
  /\ run[a].at = "begun" /\ run[a].since = 0
  /\ \E h \in 0..Cardinality(Mails) : Goes(a, [run[a] EXCEPT !.at = "profiled", !.history = h])
  /\ UNCHANGED <<gmail, message, threadOf, thread, token>>

\* Mutant of Profile: a profile without a history id is kept as it is.
ProfileRaw(a) ==
  /\ run[a].at = "begun" /\ run[a].since = 0
  /\ \E h \in {None, Len(gmail)} : Goes(a, [run[a] EXCEPT !.at = "profiled", !.history = h])
  /\ UNCHANGED <<gmail, message, threadOf, thread, token>>

\* getProfile, before anything is listed; Gmail may report no history id.
Profile(a) ==
  /\ run[a].at = "begun" /\ run[a].since = 0
  /\ \E h \in {0, Len(gmail)} : Goes(a, [run[a] EXCEPT !.at = "profiled", !.history = h])
  /\ UNCHANGED <<gmail, message, threadOf, thread, token>>

\* list_ids of a full or windowed run.
List(a) ==
  /\ run[a].at = "profiled"
  /\ Goes(a, [run[a] EXCEPT !.at = "listed",
                            !.ids = Sliced(Newest(Query(run[a].window)), run[a].cap),
                            !.read = Len(gmail)])
  /\ UNCHANGED <<gmail, message, threadOf, thread, token>>

\* A page of _list_incremental: the additions since the token, the oldest first, with the
\* history id of the moment.  It is the last page if nothing is left; beyond the cap the
\* generator is dropped.
HistoryPage(a) ==
  LET r == run[a]
      from == IF r.read = 0 THEN r.since ELSE r.read
      upto == IF from + Page < Len(gmail) THEN from + Page ELSE Len(gmail)
      ids == r.ids \o SubSeq(gmail, from + 1, upto)
  IN  /\ r.at = "begun" /\ r.since > 0
      /\ Goes(a, [r EXCEPT !.ids = Sliced(ids, r.cap), !.history = Len(gmail), !.read = upto,
                           !.at = IF upto = Len(gmail) \/ Len(ids) > r.cap
                                  THEN "listed" ELSE "begun"])
      /\ UNCHANGED <<gmail, message, threadOf, thread, token>>

\* A smoke check, a preview and a dry run end without storing anything.
SmokeCheck(a) ==
  /\ run[a].at = "listed" /\ run[a].mode = "smoke"
  /\ Goes(a, Idle)
  /\ UNCHANGED <<gmail, message, threadOf, thread, token>>

Look(a) ==
  /\ run[a].at = "listed" /\ run[a].mode = "look"
  /\ Goes(a, Idle)
  /\ UNCHANGED <<gmail, message, threadOf, thread, token>>

Fetch(a) ==
  /\ run[a].at = "listed" /\ run[a].mode = "ingest"
  /\ Goes(a, [run[a] EXCEPT !.at = "fetched"])
  /\ UNCHANGED <<gmail, message, threadOf, thread, token>>

\* Mutant of Persist: the clear leaves sync_state.
PersistKeepsToken(a) ==
  LET batch == Kept(run[a])
      root == Roots(batch)
      new == {Mid[batch[i]] : i \in DOMAIN batch}
      rows == ThreadRows(batch, root)
      kept == ~run[a].replace
  IN  /\ run[a].at = "fetched" /\ Distinct(batch)
      /\ message' = new \cup (IF kept THEN message ELSE {})
      /\ threadOf' = [m \in Mids |-> IF m \in new THEN root[m]
                                     ELSE IF kept THEN threadOf[m] ELSE None]
      /\ thread' = [t \in Mids |-> IF t \in DOMAIN rows THEN rows[t]
                                   ELSE IF kept THEN thread[t] ELSE "none"]
      /\ Goes(a, IF a = Cli THEN [run[a] EXCEPT !.at = "stored"] ELSE Idle)
      /\ UNCHANGED <<gmail, token>>

\* The clear, if asked for, and the upserts of threads and messages, in one commit.
\* Job is done with its snapshot then.
Persist(a) ==
  LET batch == Kept(run[a])
      root == Roots(batch)
      new == {Mid[batch[i]] : i \in DOMAIN batch}
      rows == ThreadRows(batch, root)
      kept == ~run[a].replace
  IN  /\ run[a].at = "fetched" /\ Distinct(batch)
      /\ message' = new \cup (IF kept THEN message ELSE {})
      /\ threadOf' = [m \in Mids |-> IF m \in new THEN root[m]
                                     ELSE IF kept THEN threadOf[m] ELSE None]
      /\ thread' = [t \in Mids |-> IF t \in DOMAIN rows THEN rows[t]
                                   ELSE IF kept THEN thread[t] ELSE "none"]
      /\ token' = IF kept THEN token ELSE 0
      /\ Goes(a, IF a = Cli THEN [run[a] EXCEPT !.at = "stored"] ELSE Idle)
      /\ UNCHANGED gmail

\* Mutant of Saves: a capped run saves its token.
SavesCapped(r) == ~IsWindowed(r.window) /\ r.history > 0

\* _decide_sync_token
Saves(r) == ~IsWindowed(r.window) /\ ~HitCap(r) /\ r.history > 0

SaveToken ==
  /\ run[Cli].at = "stored"
  /\ token' = IF Saves(run[Cli]) THEN run[Cli].history ELSE token
  /\ Goes(Cli, Idle)
  /\ UNCHANGED <<gmail, message, threadOf, thread>>

\* Gmail or the database raises, or the process dies: what is committed stays.
Fail(a) ==
  /\ run[a].at # "idle"
  /\ Goes(a, Idle)
  /\ UNCHANGED <<gmail, message, threadOf, thread, token>>

-----------------------------------------------------------------------------
Next ==
  \/ \E m \in Mails : Arrive(m)
  \/ \E w \in Windows, replace \in BOOLEAN, cap \in Caps :
       \/ BeginJob(w, replace, cap)
       \/ \E mode \in Modes : BeginCli(mode, w, replace, cap)
  \/ \E a \in Runners :
       \/ Profile(a)
       \/ List(a)
       \/ HistoryPage(a)
       \/ SmokeCheck(a)
       \/ Look(a)
       \/ Fetch(a)
       \/ Persist(a)
       \/ Fail(a)
  \/ SaveToken

Spec == Init /\ [][Next]_vars

-----------------------------------------------------------------------------
\* Properties.

TypeOK ==
  /\ gmail \in Seq(Mails)
  /\ run \in [Runners -> Run]
  /\ message \in SUBSET Mids
  /\ threadOf \in [Mids -> Mids \cup {None}]
  /\ thread \in [Mids -> {"none", "plain", "conflict"}]
  /\ token \in Nat

\* The saved token claims no more than the database holds: every mail up to it is stored,
\* so that continuing from it misses none, whatever arrived or failed meanwhile.
TokenIsComplete == \A i \in 1..token : i <= Len(gmail) /\ Mid[gmail[i]] \in message

\* Two ids are linked by the headers of some mails: no set closed under their references
\* holds one and not the other.
Closed(ids, mails) ==
  \A m \in mails : \A j \in DOMAIN References[m] :
     Mid[m] \in ids <=> References[m][j] \in ids
Linked(x, y, mails) == \A ids \in SUBSET Mids : Closed(ids, mails) /\ x \in ids => y \in ids

\* A batch is cut into threads along its headers alone, in whatever order it was listed,
\* and the threads of a provider's group that spans several are all flagged.
BatchFollowsHeaders ==
  \A a \in Runners : run[a].at = "fetched" =>
    LET batch == Kept(run[a])
        mails == Range(batch)
        root == Roots(batch)
        linked(m, n) == Linked(Mid[m], Mid[n], mails)
    IN  \A m \in mails :
          /\ \A n \in mails : root[Mid[m]] = root[Mid[n]] <=> linked(m, n)
          /\ root[Mid[m]] \in Conflicted(batch, root) <=>
               \E k, n \in mails : linked(m, k) /\ Group[k] = Group[n] /\ ~linked(k, n)

\* However many runs have stored them, two messages share a thread only if headers of
\* mail that has arrived link them.
StoreFollowsHeaders ==
  \A x, y \in message : threadOf[x] = threadOf[y] => Linked(x, y, Range(gmail))

\* "Reconstruct threads from headers" (threads.py), never from subjects or the provider's groups.
ThreadsFollowHeaders == BatchFollowsHeaders /\ StoreFollowsHeaders

\* A windowed listing holds the mails of the days from..to, both included, that had arrived
\* when it was made; all of them, unless it hit the cap.
WindowIsInclusive ==
  \A a \in Runners : run[a].at = "fetched" /\ IsWindowed(run[a].window) =>
    LET w == run[a].window
        inside == {i \in 1..run[a].read : /\ w.from # 0 => DayOf(i) >= w.from
                                          /\ w.to # 0 => DayOf(i) <= w.to}
        mails == {gmail[i] : i \in inside}
    IN  /\ Range(run[a].ids) \subseteq mails
        /\ ~HitCap(run[a]) => Range(run[a].ids) = mails
=============================================================================
