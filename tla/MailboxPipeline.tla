-------------------------- MODULE MailboxPipeline ---------------------------
(***************************************************************************)
(* The rows derived from a mailbox and the jobs that write them: the       *)
(* windowed Gmail ingest (services/ingest/gmail_windowed.py), the          *)
(* post-ingest handlers (services/jobs/handlers/), the persistence         *)
(* functions they share (services/db/store.py) and the scripts two of them *)
(* call (scripts/embed_backfill.py, scripts/materialize_projects.py).      *)
(*                                                                         *)
(* An action is what one database commit makes visible, or a read whose    *)
(* result is used after other sessions may have committed (the fetch, the  *)
(* model and embedding calls take seconds to minutes).  Org, edge,         *)
(* attachment and project-member rows live and die with the rows modelled. *)
(***************************************************************************)
EXTENDS Integers, FiniteSets

CONSTANTS
  Workers,     \* worker processes, one database session each
  Mailboxes,
  Msgs,        \* message rows: their ids are scoped to one mailbox
  Persons,     \* person rows: their ids are a hash of the address alone
  Threads,
  None,
  Windows,     \* Windows[m]: what a fetch from mailbox m may return
  Contacts,    \* Contacts[x]: the persons in the headers of message x
  ThreadOf,    \* ThreadOf[x]: the thread of message x
  Sensitive,   \* the messages with a sensitivity tag
  Faults       \* how a job may fail: "rollback", and "client" (see Raise)

ASSUME MailboxConstants ==
  /\ None \notin Mailboxes
  /\ None \notin [mbx : Mailboxes, window : SUBSET Msgs, replace : BOOLEAN]
  /\ Windows \in [Mailboxes -> SUBSET SUBSET Msgs]
  /\ Contacts \in [Msgs -> SUBSET Persons]
  /\ ThreadOf \in [Msgs -> Threads]
  /\ Sensitive \subseteq Msgs
  /\ Faults \subseteq {"rollback", "client"}

VARIABLES
  stored,      \* message rows of each mailbox
  person,      \* the mailbox_id of each person row, None if there is no row
  identity,    \* identity rows: an address of a mailbox resolved to a person
  event,       \* event rows: mailbox, actor, cited message
  embedding,   \* messages of each mailbox with a current vector
  assignment,  \* threads of each mailbox assigned to a project
  owner,       \* mailboxes whose owner_person_id is set
  sess         \* what each worker has read or fetched, and is about to write

derived == <<person, identity, event, embedding, assignment>>
rows    == <<stored, derived, owner>>
vars    == <<rows, sess>>

Identity == [mbx : Mailboxes, person : Persons]
Event    == [mbx : Mailboxes, actor : Persons, src : Msgs]

Steps == {"idle", "fetched", "stored", "linked", "enriching", "extracting",
          "embedding", "called", "clustering"}
Session == [step : Steps, mbx : Mailboxes \cup {None}, msgs : SUBSET Msgs,
            people : SUBSET Persons, batch : SUBSET Msgs, replace : BOOLEAN]

Job(step, m, msgs, people, replace) ==
  [step |-> step, mbx |-> m, msgs |-> msgs, people |-> people, batch |-> {},
   replace |-> replace]

Idle == Job("idle", None, {}, {}, FALSE)

-----------------------------------------------------------------------------
ContactsOf(msgs) == UNION {Contacts[x] : x \in msgs}
ThreadsOf(msgs)  == {ThreadOf[x] : x \in msgs}
PeopleOf(m)      == {i.person : i \in {j \in identity : j.mbx = m}}

\* Threads that extraction and clustering may look at: no message of theirs tagged.
CleanThreads(msgs) == ThreadsOf(msgs) \ ThreadsOf(msgs \cap Sensitive)

\* embed_backfill's candidates without a vector.
Unembedded(m) == (stored[m] \ Sensitive) \ embedding[m]

Starts(w, s) ==
  /\ sess[w] = Idle
  /\ sess' = [sess EXCEPT ![w] = s]
  /\ UNCHANGED rows

Ends(w) == sess' = [sess EXCEPT ![w] = Idle]

-----------------------------------------------------------------------------
Init ==
  /\ stored = [m \in Mailboxes |-> {}]
  /\ person = [p \in Persons |-> None]
  /\ identity = {}
  /\ event = {}
  /\ embedding = [m \in Mailboxes |-> {}]
  /\ assignment = [m \in Mailboxes |-> {}]
  /\ owner = {}
  /\ sess = [w \in Workers |-> Idle]

-----------------------------------------------------------------------------
\* What the persistence functions write.

\* Mutants of Clear: events are left behind; projects are not filtered by mailbox.
ClearKeepsEvents(m) ==
  /\ person' = [p \in Persons |-> IF person[p] = m THEN None ELSE person[p]]
  /\ identity' = {i \in identity : i.mbx # m /\ person[i.person] # m}
  /\ event' = event
  /\ embedding' = [embedding EXCEPT ![m] = {}]
  /\ assignment' = [assignment EXCEPT ![m] = {}]
ClearAllProjects(m) ==
  /\ person' = [p \in Persons |-> IF person[p] = m THEN None ELSE person[p]]
  /\ identity' = {i \in identity : i.mbx # m /\ person[i.person] # m}
  /\ event' = {e \in event : e.mbx # m /\ person[e.actor] # m}
  /\ embedding' = [embedding EXCEPT ![m] = {}]
  /\ assignment' = [n \in Mailboxes |-> {}]

\* clear_mailbox_snapshot_for_reingest: the derived rows of m go.  Deleting the
\* person rows of m takes every identity and event that refers to them along (ON
\* DELETE CASCADE), whatever mailbox those belong to.
Clear(m) ==
  /\ person' = [p \in Persons |-> IF person[p] = m THEN None ELSE person[p]]
  /\ identity' = {i \in identity : i.mbx # m /\ person[i.person] # m}
  /\ event' = {e \in event : e.mbx # m /\ person[e.actor] # m}
  /\ embedding' = [embedding EXCEPT ![m] = {}]
  /\ assignment' = [assignment EXCEPT ![m] = {}]

\* persist_l0, of messages of an ingest s, after the clear of a replace.
PersistL0(s, msgs) ==
  /\ stored' = [stored EXCEPT ![s.mbx] = (IF s.replace THEN {} ELSE @) \cup msgs]
  /\ IF s.replace THEN Clear(s.mbx) ELSE UNCHANGED derived

\* persist_l1, of people and of those among them whose addresses it resolves: the upsert of a
\* person row also writes its mailbox_id.
PersistL1(m, people, resolved) ==
  /\ person' = [p \in Persons |-> IF p \in people THEN m ELSE person[p]]
  /\ identity' = identity \cup [mbx : {m}, person : resolved]
  /\ UNCHANGED <<stored, event, embedding, assignment>>

\* persist_events: the events that cite a processed message are replaced by es.
PersistEvents(m, processed, es) ==
  /\ event' = {e \in event : ~(e.mbx = m /\ e.src \in processed)} \cup es
  /\ UNCHANGED <<stored, person, identity, embedding, assignment>>

-----------------------------------------------------------------------------
\* gmail_ingest_window: fetch, (clear +) L0, L1, owner.

Fetch(w, m) ==
  \E x \in Windows[m], replace \in BOOLEAN :
     Starts(w, Job("fetched", m, x, {}, replace))

\* Mutant of StoreL0: the mailbox is not passed on to persist_l1.
StoreL0LosesMailbox(w) ==
  LET s == sess[w]
  IN  /\ s.step = "fetched"
      /\ PersistL0(s, s.msgs)
      /\ sess' = [sess EXCEPT ![w].step = "stored", ![w].mbx = None]
      /\ UNCHANGED owner

\* The commit in persist_l0, with the pending deletes of a replace.
StoreL0(w) ==
  LET s == sess[w]
  IN  /\ s.step = "fetched"
      /\ PersistL0(s, s.msgs)
      /\ sess' = [sess EXCEPT ![w].step = "stored"]
      /\ UNCHANGED owner

\* The commit in persist_l1, of the window's messages only.
StoreL1(w) ==
  /\ sess[w].step = "stored"
  /\ PersistL1(sess[w].mbx, ContactsOf(sess[w].msgs), ContactsOf(sess[w].msgs))
  /\ sess' = [sess EXCEPT ![w].step = "linked"]
  /\ UNCHANGED owner

\* The owner is in the headers of every message, so only an empty window lacks it.
SetOwner(w) ==
  /\ sess[w].step = "linked"
  /\ owner' = IF sess[w].msgs = {} THEN owner ELSE owner \cup {sess[w].mbx}
  /\ Ends(w)
  /\ UNCHANGED <<stored, derived>>

-----------------------------------------------------------------------------
\* l1_enrichment, from the stored messages.
ReadForEnrichment(w, m) ==
  Starts(w, Job("enriching", m, stored[m], {}, FALSE))

Enrich(w) ==
  /\ sess[w].step = "enriching"
  /\ PersistL1(sess[w].mbx, ContactsOf(sess[w].msgs), ContactsOf(sess[w].msgs))
  /\ Ends(w)
  /\ UNCHANGED owner

-----------------------------------------------------------------------------
\* event_extraction: l1_enrichment_required unless the owner is known.
ReadForExtraction(w, m) ==
  /\ m \in owner
  /\ Starts(w, Job("extracting", m, stored[m], PeopleOf(m), FALSE))

\* What the model may return for the messages read: an actor the identity map
\* resolves, a cited message of a clean thread.
Extracted(s) ==
  {e \in [mbx : {s.mbx}, actor : s.people, src : s.msgs] :
     e.actor \in Contacts[e.src] /\ ThreadOf[e.src] \in CleanThreads(s.msgs)}

\* The insert is refused, and the job with it, when an actor's row is gone.
ExtractEvents(w, es) ==
  /\ sess[w].step = "extracting"
  /\ es \subseteq Extracted(sess[w])
  /\ \A e \in es : person[e.actor] # None
  /\ PersistEvents(sess[w].mbx, sess[w].msgs, es)
  /\ Ends(w)
  /\ UNCHANGED owner

-----------------------------------------------------------------------------
\* embedding_backfill: the messages without a vector are read once; then one paid
\* call and one commit per batch.

\* Mutant of ReadForEmbedding: the vectors that exist are not looked at.
ReadForEmbeddingAll(w, m) ==
  /\ stored[m] \ Sensitive # {}
  /\ Starts(w, Job("embedding", m, stored[m] \ Sensitive, {}, FALSE))

ReadForEmbedding(w, m) ==
  /\ Unembedded(m) # {}
  /\ Starts(w, Job("embedding", m, Unembedded(m), {}, FALSE))

CallEmbed(w, batch) ==
  /\ sess[w].step = "embedding"
  /\ batch \subseteq sess[w].msgs /\ batch # {}
  /\ sess' = [sess EXCEPT ![w].step = "called", ![w].batch = batch]
  /\ UNCHANGED rows

\* _upsert_batch: refused, and the job with it, when a message of the batch is gone.
StoreBatch(w) ==
  LET s == sess[w]
      left == s.msgs \ s.batch
  IN  /\ s.step = "called"
      /\ s.batch \subseteq stored[s.mbx]
      /\ embedding' = [embedding EXCEPT ![s.mbx] = @ \cup s.batch]
      /\ sess' = [sess EXCEPT ![w] = IF left = {} THEN Idle
                    ELSE [s EXCEPT !.step = "embedding", !.msgs = left, !.batch = {}]]
      /\ UNCHANGED <<stored, person, identity, event, assignment, owner>>

-----------------------------------------------------------------------------
\* project_materialization: some eligible threads are read, all of them without
\* limit_threads.  It returns early when there is none and refuses to run when a
\* message of theirs has no vector.
ReadForClustering(w, m) ==
  \E ts \in SUBSET CleanThreads(stored[m]) :
     LET x == {y \in stored[m] : ThreadOf[y] \in ts}
     IN  /\ ts # {}
         /\ x \subseteq embedding[m]
         /\ Starts(w, Job("clustering", m, x, {}, FALSE))

\* _persist_clustering replaces the mailbox's assignments by those of the threads it
\* clustered; it is refused when one of them is gone.
Materialize(w, ts) ==
  LET s == sess[w]
  IN  /\ s.step = "clustering"
      /\ ts \subseteq ThreadsOf(s.msgs) \cap ThreadsOf(stored[s.mbx])
      /\ assignment' = [assignment EXCEPT ![s.mbx] = ts]
      /\ Ends(w)
      /\ UNCHANGED <<stored, person, identity, event, embedding, owner>>

-----------------------------------------------------------------------------
\* Mutant of Raise: the clear commits by itself, before persist_l0.
RaiseAfterClear(w, fault) ==
  LET s == sess[w]
  IN  /\ s # Idle
      /\ IF s.step = "fetched" /\ s.replace THEN Clear(s.mbx) ELSE UNCHANGED derived
      /\ stored' = IF s.step = "fetched" /\ s.replace
                   THEN [stored EXCEPT ![s.mbx] = {}] ELSE stored
      /\ Ends(w)
      /\ UNCHANGED owner

\* What persist_l0, persist_l1 and persist_events have pending when one of the next rows cannot
\* be built: each table has one statement, and deletes come first.
PendingL0(s) == \E upserted \in {{}, s.msgs} : PersistL0(s, upserted)
PendingL1(s) ==
  \E people, resolved \in {{}, ContactsOf(s.msgs)} :
     resolved \subseteq people /\ PersistL1(s.mbx, people, resolved)
PendingEvents(s) == PersistEvents(s.mbx, s.msgs, {})

\* A job fails before its next commit.
\*   "rollback": the process died, the database refused a statement, or nothing was
\*      pending; what was pending is rolled back.
\*   "client": an exception that the database did not raise leaves the handler between
\*      its statements and the commit they wait for (a row that cannot be built or sent).
\*      run_claimed catches it, does not roll back, and _on_error commits the session to
\*      write the job's status, what is pending with it.
Raise(w, fault) ==
  LET s == sess[w]
      Pends(steps) == fault = "client" /\ s.step \in steps
  IN  /\ s # Idle
      /\ CASE Pends({"fetched"}) -> PendingL0(s)
           [] Pends({"stored", "enriching"}) -> PendingL1(s)
           [] Pends({"extracting"}) -> PendingEvents(s)
           [] OTHER -> UNCHANGED <<stored, derived>>
      /\ Ends(w)
      /\ UNCHANGED owner

-----------------------------------------------------------------------------
Next ==
  \E w \in Workers :
     \/ \E m \in Mailboxes :
           \/ Fetch(w, m)
           \/ ReadForEnrichment(w, m)
           \/ ReadForExtraction(w, m)
           \/ ReadForEmbedding(w, m)
           \/ ReadForClustering(w, m)
     \/ StoreL0(w)
     \/ StoreL1(w)
     \/ SetOwner(w)
     \/ Enrich(w)
     \/ \E es \in SUBSET Extracted(sess[w]) : ExtractEvents(w, es)
     \/ \E batch \in SUBSET sess[w].msgs : CallEmbed(w, batch)
     \/ StoreBatch(w)
     \/ \E ts \in SUBSET Threads : Materialize(w, ts)
     \/ \E fault \in Faults : Raise(w, fault)

Spec == Init /\ [][Next]_vars

-----------------------------------------------------------------------------
\* Properties.

TypeOK ==
  /\ stored \in [Mailboxes -> SUBSET Msgs]
  /\ person \in [Persons -> Mailboxes \cup {None}]
  /\ identity \subseteq Identity
  /\ event \subseteq Event
  /\ embedding \in [Mailboxes -> SUBSET Msgs]
  /\ assignment \in [Mailboxes -> SUBSET Threads]
  /\ owner \subseteq Mailboxes
  /\ sess \in [Workers -> Session]

\* With one worker, what the surfaces of a mailbox show (people, events, search,
\* projects) comes from messages the mailbox holds now: no mix of appends, replaces,
\* re-runs and failures leaves a row derived from a message that has been replaced.
SurfacesReflectStored ==
  /\ \A i \in identity : i.person \in ContactsOf(stored[i.mbx])
  /\ \A e \in event : e.src \in stored[e.mbx]
  /\ \A m \in Mailboxes : /\ embedding[m] \subseteq stored[m]
                          /\ assignment[m] \subseteq ThreadsOf(stored[m])

RowsOf(m) ==
  <<stored[m], {p \in Persons : person[p] = m}, {i \in identity : i.mbx = m},
    {e \in event : e.mbx = m}, embedding[m], assignment[m], owner \cap {m}>>

\* A job changes rows of its own mailbox only, as long as no two mailboxes have a
\* contact in common ("scoped strictly by mailbox_id ... never touches another
\* mailbox", store.py).
ScopedToMailbox ==
  [][\A m \in Mailboxes :
       RowsOf(m)' # RowsOf(m) => \E w \in Workers : sess[w] # Idle /\ sess[w].mbx = m]_vars

\* The ingest each worker has fetched and not yet stored.
Pending ==
  [w \in Workers |-> IF sess[w].step = "fetched"
                     THEN [mbx |-> sess[w].mbx, window |-> sess[w].msgs,
                           replace |-> sess[w].replace]
                     ELSE None]

\* The windowed ingest keeps the promise of Snapshot, whatever other jobs and faults
\* come between its steps, unless a "client" fault is among them.
Promise == INSTANCE Snapshot WITH ingest <- Pending
KeepsPromise == Promise!Spec

\* No embedding is paid for a message that has one (with one worker).
NeverPaidTwice ==
  [][\A w \in Workers :
       sess[w].step = "embedding" /\ sess'[w].step = "called"
       => sess'[w].batch \cap embedding[sess[w].mbx] = {}]_vars

-----------------------------------------------------------------------------
\* What comments and documents say, and the code does not do.

\* gmail_windowed.py: "if persist_l0 fails, the clear rolls back and the old snapshot
\* is intact": a step that takes messages away stores the window that replaces them.
FailedReplaceKeepsSnapshot ==
  [][\A m \in Mailboxes :
       stored[m] \ stored'[m] # {}
       => \E w \in Workers : sess[w].step = "fetched" /\ stored'[m] = sess[w].msgs]_vars
=============================================================================
