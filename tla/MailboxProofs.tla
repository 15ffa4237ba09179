---------------------------- MODULE MailboxProofs -----------------------------
(***************************************************************************)
(* Theorems of MailboxPipeline, for every set of mailboxes, messages,      *)
(* contacts, threads and windows.                                          *)
(***************************************************************************)
EXTENDS MailboxPipeline, TLAPS

\* A session is idle or works for a mailbox.
OnMailbox == \A w \in Workers :
  sess[w] # Idle => sess[w].step # "idle" /\ sess[w].mbx \in Mailboxes

TypeInv == TypeOK /\ OnMailbox

LEMMA IdleIsSession == Idle \in Session /\ Idle.step = "idle"
  BY DEF Idle, Job, Session, Steps

\* Sessions that start, and that move on.
LEMMA Started ==
  ASSUME NEW step \in Steps \ {"idle"}, NEW m \in Mailboxes, NEW x \in SUBSET Msgs,
         NEW ps \in SUBSET Persons, NEW replace \in BOOLEAN
  PROVE  Job(step, m, x, ps, replace) \in Session /\ Job(step, m, x, ps, replace) # Idle
<1>1. Job(step, m, x, ps, replace) \in Session
  BY DEF Job, Session
<1>2. Job(step, m, x, ps, replace).step # Idle.step
  BY IdleIsSession DEF Job
<1> QED
  BY <1>1, <1>2

LEMMA Columns ==
  ASSUME NEW step, NEW m, NEW x, NEW ps, NEW replace
  PROVE  LET s == Job(step, m, x, ps, replace)
         IN  /\ s.step = step /\ s.mbx = m /\ s.msgs = x /\ s.people = ps
             /\ s.batch = {} /\ s.replace = replace
  BY DEF Job

LEMMA StepEdits ==
  ASSUME NEW s \in Session, NEW t \in Steps
  PROVE  [s EXCEPT !.step = t] \in Session
  BY DEF Session

LEMMA BatchEdits ==
  ASSUME NEW s \in Session, NEW b \in SUBSET Msgs
  PROVE  [s EXCEPT !.batch = b] \in Session
  BY DEF Session

LEMMA MsgsEdits ==
  ASSUME NEW s \in Session, NEW x \in SUBSET Msgs
  PROVE  [s EXCEPT !.msgs = x] \in Session
  BY DEF Session

\* What a job holds when it starts.
Fresh(s, m) ==
  /\ s \in Session /\ s # Idle /\ s.mbx = m
  /\ s.step \in Steps \ {"idle", "stored", "linked", "called"}
  /\ IF s.step = "fetched" THEN s.msgs \in Windows[m] ELSE s.msgs \subseteq stored[m]
  /\ s.people \subseteq PeopleOf(m)
  /\ s.batch = {}

LEMMA FreshJob ==
  ASSUME NEW m \in Mailboxes, NEW step \in Steps \ {"idle", "stored", "linked", "called"},
         NEW x \in SUBSET Msgs, NEW ps \in SUBSET Persons, NEW replace \in BOOLEAN,
         IF step = "fetched" THEN x \in Windows[m] ELSE x \subseteq stored[m],
         ps \subseteq PeopleOf(m)
  PROVE  Fresh(Job(step, m, x, ps, replace), m)
<1> DEFINE s == Job(step, m, x, ps, replace)
<1>1. s \in Session /\ s # Idle
  BY Started
<1>2. s.step = step /\ s.mbx = m /\ s.msgs = x /\ s.people = ps /\ s.batch = {}
  BY Columns
<1> HIDE DEF s
<1>3. Fresh(s, m)
  BY <1>1, <1>2 DEF Fresh
<1> QED
  BY <1>3 DEF s

\* The five ways a job starts.
LEMMA JobsStartFresh ==
  ASSUME TypeInv, NEW w \in Workers, NEW m \in Mailboxes,
         \/ Fetch(w, m)
         \/ ReadForEnrichment(w, m)
         \/ ReadForExtraction(w, m)
         \/ ReadForEmbedding(w, m)
         \/ ReadForClustering(w, m)
  PROVE  \E s : Fresh(s, m) /\ Starts(w, s)
<1>1. CASE Fetch(w, m)
  <2>1. PICK x \in Windows[m], replace \in BOOLEAN :
          Starts(w, Job("fetched", m, x, {}, replace))
    BY <1>1 DEF Fetch
  <2>2. x \in SUBSET Msgs
    BY MailboxConstants
  <2>3. Fresh(Job("fetched", m, x, {}, replace), m)
    BY <2>2, FreshJob DEF Steps
  <2> QED
    BY <2>1, <2>3
<1>2. CASE ReadForEnrichment(w, m)
  <2>1. Fresh(Job("enriching", m, stored[m], {}, FALSE), m)
    BY FreshJob DEF Steps, TypeInv, TypeOK
  <2> QED
    BY <1>2, <2>1 DEF ReadForEnrichment
<1>3. CASE ReadForExtraction(w, m)
  <2>1. stored[m] \in SUBSET Msgs /\ PeopleOf(m) \in SUBSET Persons
    BY DEF PeopleOf, TypeInv, TypeOK, Identity
  <2>2. Fresh(Job("extracting", m, stored[m], PeopleOf(m), FALSE), m)
    BY <2>1, FreshJob DEF Steps
  <2> QED
    BY <1>3, <2>2 DEF ReadForExtraction
<1>4. CASE ReadForEmbedding(w, m)
  <2>1. Unembedded(m) \in SUBSET Msgs /\ Unembedded(m) \subseteq stored[m]
    BY DEF Unembedded, TypeInv, TypeOK
  <2>2. Fresh(Job("embedding", m, Unembedded(m), {}, FALSE), m)
    BY <2>1, FreshJob DEF Steps
  <2> QED
    BY <1>4, <2>2 DEF ReadForEmbedding
<1>5. CASE ReadForClustering(w, m)
  <2>0. PICK ts \in SUBSET CleanThreads(stored[m]) :
          Starts(w, Job("clustering", m, {y \in stored[m] : ThreadOf[y] \in ts}, {}, FALSE))
    BY <1>5 DEF ReadForClustering
  <2> DEFINE x == {y \in stored[m] : ThreadOf[y] \in ts}
  <2>1. x \in SUBSET Msgs /\ x \subseteq stored[m]
    BY DEF TypeInv, TypeOK
  <2>2. Starts(w, Job("clustering", m, x, {}, FALSE))
    BY <2>0
  <2> HIDE DEF x
  <2>3. Fresh(Job("clustering", m, x, {}, FALSE), m)
    BY <2>1, FreshJob DEF Steps
  <2> QED
    BY <2>2, <2>3
<1> QED
  BY <1>1, <1>2, <1>3, <1>4, <1>5

\* A session that starts, or that ends, keeps the types.
LEMMA StartTypes ==
  ASSUME TypeInv, NEW w \in Workers, NEW m \in Mailboxes, NEW s, Fresh(s, m), Starts(w, s)
  PROVE  TypeInv'
<1>1. sess' \in [Workers -> Session]
  BY DEF Starts, TypeInv, TypeOK, Fresh
<1>2. OnMailbox'
  BY DEF Starts, TypeInv, TypeOK, OnMailbox, Fresh
<1> QED
  BY <1>1, <1>2 DEF Starts, TypeInv, TypeOK, rows, derived

LEMMA EndTypes ==
  ASSUME TypeInv, NEW w \in Workers, Ends(w)
  PROVE  sess' \in [Workers -> Session] /\ OnMailbox'
  BY IdleIsSession DEF Ends, TypeInv, TypeOK, OnMailbox

\* A session that moves on, still for its mailbox.
LEMMA MoveTypes ==
  ASSUME TypeInv, NEW w \in Workers, NEW s \in Session, s.step # "idle",
         s.mbx \in Mailboxes, sess' = [sess EXCEPT ![w] = s]
  PROVE  sess' \in [Workers -> Session] /\ OnMailbox'
  BY DEF TypeInv, TypeOK, OnMailbox

LEMMA ClearTypes ==
  ASSUME TypeOK, NEW m \in Mailboxes, Clear(m)
  PROVE  /\ person' \in [Persons -> Mailboxes \cup {None}]
         /\ identity' \subseteq Identity /\ event' \subseteq Event
         /\ embedding' \in [Mailboxes -> SUBSET Msgs]
         /\ assignment' \in [Mailboxes -> SUBSET Threads]
  BY DEF Clear, TypeOK

LEMMA PersistL0Types ==
  ASSUME TypeOK, NEW s, s.mbx \in Mailboxes, NEW x \in SUBSET Msgs, PersistL0(s, x)
  PROVE  /\ stored' \in [Mailboxes -> SUBSET Msgs]
         /\ person' \in [Persons -> Mailboxes \cup {None}]
         /\ identity' \subseteq Identity /\ event' \subseteq Event
         /\ embedding' \in [Mailboxes -> SUBSET Msgs]
         /\ assignment' \in [Mailboxes -> SUBSET Threads]
<1>1. stored' \in [Mailboxes -> SUBSET Msgs]
  BY DEF PersistL0, TypeOK
<1>2. CASE s.replace
  BY <1>1, <1>2, ClearTypes DEF PersistL0
<1>3. CASE ~s.replace
  BY <1>1, <1>3 DEF PersistL0, TypeOK, derived
<1> QED
  BY <1>2, <1>3

LEMMA PersistL1Types ==
  ASSUME TypeOK, NEW m \in Mailboxes, NEW people \in SUBSET Persons, NEW resolved \in SUBSET Persons,
         PersistL1(m, people, resolved)
  PROVE  /\ person' \in [Persons -> Mailboxes \cup {None}]
         /\ identity' \subseteq Identity
         /\ UNCHANGED <<stored, event, embedding, assignment>>
  BY DEF PersistL1, TypeOK, Identity

LEMMA ContactsTyped ==
  ASSUME NEW x \in SUBSET Msgs
  PROVE  ContactsOf(x) \in SUBSET Persons
  BY MailboxConstants DEF ContactsOf

\* What a failure may leave written.
LEMMA RaiseLeaves ==
  ASSUME TypeInv, NEW w \in Workers, NEW fault \in Faults, Raise(w, fault)
  PROVE  /\ sess[w] # Idle /\ sess[w] \in Session /\ sess[w].mbx \in Mailboxes
         /\ Ends(w) /\ owner' = owner
         /\ \/ sess[w].step = "fetched"
               /\ \E x \in SUBSET sess[w].msgs : PersistL0(sess[w], x)
            \/ sess[w].step \in {"stored", "enriching"}
               /\ \E people, resolved \in SUBSET ContactsOf(sess[w].msgs) :
                     PersistL1(sess[w].mbx, people, resolved)
            \/ PersistEvents(sess[w].mbx, sess[w].msgs, {})
            \/ UNCHANGED <<stored, derived>>
<1>1. /\ sess[w] # Idle /\ Ends(w) /\ owner' = owner
      /\ \/ sess[w].step = "fetched" /\ PendingL0(sess[w])
         \/ sess[w].step \in {"stored", "enriching"} /\ PendingL1(sess[w])
         \/ PendingEvents(sess[w])
         \/ UNCHANGED <<stored, derived>>
  BY DEF Raise
<1>2. sess[w] \in Session /\ sess[w].mbx \in Mailboxes
  BY <1>1 DEF TypeInv, TypeOK, OnMailbox
<1>3. PendingL0(sess[w]) => \E x \in SUBSET sess[w].msgs : PersistL0(sess[w], x)
  <2>1. {} \in SUBSET sess[w].msgs /\ sess[w].msgs \in SUBSET sess[w].msgs
    OBVIOUS
  <2> QED
    BY <2>1 DEF PendingL0
<1>4. PendingL1(sess[w]) => \E people, resolved \in SUBSET ContactsOf(sess[w].msgs) :
                              PersistL1(sess[w].mbx, people, resolved)
  <2> DEFINE c == ContactsOf(sess[w].msgs)
  <2>1. {{}, c} \subseteq SUBSET c
    OBVIOUS
  <2> HIDE DEF c
  <2>2. PendingL1(sess[w]) => \E people, resolved \in {{}, c} : PersistL1(sess[w].mbx, people, resolved)
    BY DEF PendingL1, c
  <2>3. PendingL1(sess[w]) => \E people, resolved \in SUBSET c : PersistL1(sess[w].mbx, people, resolved)
    BY <2>1, <2>2
  <2> QED
    BY <2>3 DEF c
<1> QED
  BY <1>1, <1>2, <1>3, <1>4 DEF PendingEvents

LEMMA TypeInvInit == Init => TypeInv
  BY MailboxConstants, IdleIsSession DEF Init, TypeInv, TypeOK, OnMailbox

\* One step per action.
LEMMA TypeInvNext == TypeInv /\ [Next]_vars => TypeInv'
<1> SUFFICES ASSUME TypeInv, [Next]_vars PROVE TypeInv'
  OBVIOUS
<1> USE MailboxConstants
<1>1. ASSUME NEW w \in Workers, NEW m \in Mailboxes,
             \/ Fetch(w, m) \/ ReadForEnrichment(w, m) \/ ReadForExtraction(w, m)
             \/ ReadForEmbedding(w, m) \/ ReadForClustering(w, m)
      PROVE  TypeInv'
  BY <1>1, JobsStartFresh, StartTypes
<1>2. ASSUME NEW w \in Workers, StoreL0(w) PROVE TypeInv'
  <2> DEFINE s == sess[w]
  <2>1. s \in Session /\ s.mbx \in Mailboxes /\ s.msgs \subseteq Msgs
    BY <1>2, IdleIsSession DEF StoreL0, TypeInv, TypeOK, OnMailbox, Session
  <2>2. PersistL0(s, s.msgs) /\ owner' = owner
    BY <1>2 DEF StoreL0
  <2>3. sess' \in [Workers -> Session] /\ OnMailbox'
    <3>1. [s EXCEPT !.step = "stored"] \in Session
      BY <2>1, StepEdits DEF Steps
    <3>2. [s EXCEPT !.step = "stored"].step # "idle" /\ [s EXCEPT !.step = "stored"].mbx = s.mbx
      BY <2>1 DEF Session
    <3>3. sess' = [sess EXCEPT ![w] = [s EXCEPT !.step = "stored"]]
      BY <1>2 DEF StoreL0
    <3> HIDE DEF s
    <3> QED
      BY <2>1, <3>1, <3>2, <3>3, MoveTypes
  <2> HIDE DEF s
  <2> QED
    BY <2>1, <2>2, <2>3, PersistL0Types DEF TypeInv, TypeOK
<1>3. ASSUME NEW w \in Workers, StoreL1(w) PROVE TypeInv'
  <2> DEFINE s == sess[w]
  <2>1. s \in Session /\ s.mbx \in Mailboxes /\ s.msgs \in SUBSET Msgs
    BY <1>3, IdleIsSession DEF StoreL1, TypeInv, TypeOK, OnMailbox, Session
  <2>2. [s EXCEPT !.step = "linked"] \in Session
    BY <2>1, StepEdits DEF Steps
  <2>3. [s EXCEPT !.step = "linked"].step # "idle" /\ [s EXCEPT !.step = "linked"].mbx = s.mbx
    BY <2>1 DEF Session
  <2>4. /\ sess' = [sess EXCEPT ![w] = [s EXCEPT !.step = "linked"]]
        /\ PersistL1(s.mbx, ContactsOf(s.msgs), ContactsOf(s.msgs))
    BY <1>3 DEF StoreL1
  <2> HIDE DEF s
  <2>5. sess' \in [Workers -> Session] /\ OnMailbox'
    BY <2>1, <2>2, <2>3, <2>4, MoveTypes
  <2> QED
    BY <1>3, <2>1, <2>4, <2>5, PersistL1Types, ContactsTyped DEF StoreL1, TypeInv, TypeOK
<1>4. ASSUME NEW w \in Workers, SetOwner(w) PROVE TypeInv'
  <2>1. sess[w].mbx \in Mailboxes
    BY <1>4, IdleIsSession DEF SetOwner, TypeInv, TypeOK, OnMailbox
  <2> QED
    BY <1>4, <2>1, EndTypes DEF SetOwner, TypeInv, TypeOK, derived
<1>5. ASSUME NEW w \in Workers, Enrich(w) PROVE TypeInv'
  <2>1. sess[w].mbx \in Mailboxes /\ sess[w].msgs \in SUBSET Msgs
    BY <1>5, IdleIsSession DEF Enrich, TypeInv, TypeOK, OnMailbox, Session
  <2> QED
    BY <1>5, <2>1, EndTypes, PersistL1Types, ContactsTyped DEF Enrich, TypeInv, TypeOK
<1>6. ASSUME NEW w \in Workers, NEW es \in SUBSET Extracted(sess[w]), ExtractEvents(w, es)
      PROVE  TypeInv'
  <2>1. /\ sess[w].mbx \in Mailboxes /\ sess[w].msgs \in SUBSET Msgs
        /\ sess[w].people \in SUBSET Persons
    BY <1>6, IdleIsSession DEF ExtractEvents, TypeInv, TypeOK, OnMailbox, Session
  <2>2. es \subseteq Event
    BY <2>1 DEF Extracted, Event
  <2> QED
    BY <1>6, <2>2, EndTypes DEF ExtractEvents, PersistEvents, TypeInv, TypeOK
<1>7. ASSUME NEW w \in Workers, NEW batch \in SUBSET sess[w].msgs, CallEmbed(w, batch)
      PROVE  TypeInv'
  <2> DEFINE s == sess[w]
             t == [s EXCEPT !.step = "called", !.batch = batch]
  <2>1. s \in Session /\ s.mbx \in Mailboxes /\ batch \in SUBSET Msgs
    BY <1>7, IdleIsSession DEF CallEmbed, TypeInv, TypeOK, OnMailbox, Session
  <2>2. t \in Session /\ t.step # "idle" /\ t.mbx = s.mbx
    <3>1. [s EXCEPT !.step = "called"] \in Session
      BY <2>1, StepEdits DEF Steps
    <3>2. [[s EXCEPT !.step = "called"] EXCEPT !.batch = batch] \in Session
      BY <2>1, <3>1, BatchEdits
    <3>3. t.step # "idle" /\ t.mbx = s.mbx
      BY <2>1 DEF Session
    <3> QED
      BY <3>2, <3>3
  <2>3. sess' = [sess EXCEPT ![w] = t]
    BY <1>7 DEF CallEmbed
  <2> HIDE DEF s, t
  <2>4. sess' \in [Workers -> Session] /\ OnMailbox'
    BY <2>1, <2>2, <2>3, MoveTypes
  <2> QED
    BY <1>7, <2>4 DEF CallEmbed, TypeInv, TypeOK, rows, derived
<1>8. ASSUME NEW w \in Workers, StoreBatch(w) PROVE TypeInv'
  <2> DEFINE s == sess[w]
             left == s.msgs \ s.batch
             t == [s EXCEPT !.step = "embedding", !.msgs = left, !.batch = {}]
  <2>1. s \in Session /\ s.mbx \in Mailboxes /\ s.batch \in SUBSET Msgs /\ left \in SUBSET Msgs
    BY <1>8, IdleIsSession DEF StoreBatch, TypeInv, TypeOK, OnMailbox, Session
  <2>2. t \in Session /\ t.step # "idle" /\ t.mbx = s.mbx
    <3>1. [s EXCEPT !.step = "embedding"] \in Session
      BY <2>1, StepEdits DEF Steps
    <3>2. [[s EXCEPT !.step = "embedding"] EXCEPT !.msgs = left] \in Session
      BY <2>1, <3>1, MsgsEdits
    <3>3. [[[s EXCEPT !.step = "embedding"] EXCEPT !.msgs = left] EXCEPT !.batch = {}] \in Session
      BY <3>2, BatchEdits
    <3>4. t.step # "idle" /\ t.mbx = s.mbx
      BY <2>1 DEF Session
    <3> QED
      BY <3>3, <3>4
  <2>3. sess' = [sess EXCEPT ![w] = IF left = {} THEN Idle ELSE t]
    BY <1>8 DEF StoreBatch
  <2>4. embedding' \in [Mailboxes -> SUBSET Msgs]
    BY <1>8, <2>1 DEF StoreBatch, TypeInv, TypeOK
  <2> HIDE DEF s, t, left
  <2>5. sess' \in [Workers -> Session] /\ OnMailbox'
    <3>1. CASE left = {}
      BY <2>3, <3>1, EndTypes DEF Ends
    <3>2. CASE left # {}
      BY <2>1, <2>2, <2>3, <3>2, MoveTypes
    <3> QED
      BY <3>1, <3>2
  <2> QED
    BY <1>8, <2>4, <2>5 DEF StoreBatch, TypeInv, TypeOK
<1>9. ASSUME NEW w \in Workers, NEW ts \in SUBSET Threads, Materialize(w, ts) PROVE TypeInv'
  <2>1. sess[w].mbx \in Mailboxes
    BY <1>9, IdleIsSession DEF Materialize, TypeInv, TypeOK, OnMailbox
  <2> QED
    BY <1>9, <2>1, EndTypes DEF Materialize, TypeInv, TypeOK
<1>10. ASSUME NEW w \in Workers, NEW fault \in Faults, Raise(w, fault) PROVE TypeInv'
  <2>1. /\ sess[w].mbx \in Mailboxes /\ sess[w].msgs \in SUBSET Msgs /\ owner' = owner
        /\ sess' \in [Workers -> Session] /\ OnMailbox'
    BY <1>10, RaiseLeaves, EndTypes DEF Session
  <2>2. ASSUME NEW x \in SUBSET sess[w].msgs, PersistL0(sess[w], x) PROVE TypeInv'
    BY <2>1, <2>2, PersistL0Types DEF TypeInv, TypeOK
  <2>3. ASSUME NEW people \in SUBSET ContactsOf(sess[w].msgs),
               NEW resolved \in SUBSET ContactsOf(sess[w].msgs),
               PersistL1(sess[w].mbx, people, resolved)
        PROVE  TypeInv'
    <3>1. people \in SUBSET Persons /\ resolved \in SUBSET Persons
      BY <2>1, ContactsTyped
    <3> QED
      BY <2>1, <2>3, <3>1, PersistL1Types DEF TypeInv, TypeOK
  <2>4. CASE PersistEvents(sess[w].mbx, sess[w].msgs, {})
    BY <2>1, <2>4 DEF PersistEvents, TypeInv, TypeOK
  <2>5. CASE UNCHANGED <<stored, derived>>
    BY <2>1, <2>5 DEF derived, TypeInv, TypeOK
  <2> QED
    BY <1>10, <2>2, <2>3, <2>4, <2>5, RaiseLeaves
<1>11. CASE UNCHANGED vars
  BY <1>11 DEF vars, rows, derived, TypeInv, TypeOK, OnMailbox
<1> QED
  BY <1>1, <1>2, <1>3, <1>4, <1>5, <1>6, <1>7, <1>8, <1>9, <1>10, <1>11 DEF Next

\* Type correctness of the rows and of what the sessions hold.
THEOREM TypeCorrect == Spec => []TypeOK
<1>1. Spec => []TypeInv
  BY TypeInvInit, TypeInvNext, PTL DEF Spec
<1>2. TypeInv => TypeOK
  BY DEF TypeInv
<1> QED
  BY <1>1, <1>2, PTL

-----------------------------------------------------------------------------
\* One worker: what a job holds past its fetch is still stored when it is used.
Current == \A w \in Workers :
  sess[w].step \notin {"idle", "fetched"} => sess[w].msgs \subseteq stored[sess[w].mbx]

SurfaceInv == TypeInv /\ SurfacesReflectStored /\ Current

LEMMA Monotone ==
  ASSUME NEW x, NEW y, x \subseteq y
  PROVE  ContactsOf(x) \subseteq ContactsOf(y) /\ ThreadsOf(x) \subseteq ThreadsOf(y)
  BY DEF ContactsOf, ThreadsOf

\* After a clear nothing derived is left of m, and what is left was there before.
LEMMA ClearEmpties ==
  ASSUME TypeOK, NEW m \in Mailboxes, Clear(m)
  PROVE  /\ \A i \in identity' : i \in identity /\ i.mbx # m
         /\ \A e \in event' : e \in event /\ e.mbx # m
         /\ \A n \in Mailboxes : /\ embedding'[n] = IF n = m THEN {} ELSE embedding[n]
                                 /\ assignment'[n] = IF n = m THEN {} ELSE assignment[n]
  BY DEF Clear, TypeOK

\* The surfaces after each of the writes.
LEMMA PersistL0Surfaces ==
  ASSUME TypeOK, SurfacesReflectStored, NEW s, s.mbx \in Mailboxes, NEW x, PersistL0(s, x)
  PROVE  SurfacesReflectStored'
<1>1. \A n \in Mailboxes : stored'[n] = IF n = s.mbx
        THEN (IF s.replace THEN {} ELSE stored[n]) \cup x ELSE stored[n]
  BY DEF PersistL0, TypeOK
<1>2. CASE s.replace
  <2>1. Clear(s.mbx)
    BY <1>2 DEF PersistL0
  <2>2. \A i \in identity' : i.person \in ContactsOf(stored'[i.mbx])
    <3>1. \A i \in identity' : i \in identity /\ i.mbx # s.mbx /\ i.mbx \in Mailboxes
      BY <2>1, ClearEmpties DEF TypeOK, Identity
    <3> QED
      BY <1>1, <3>1 DEF SurfacesReflectStored
  <2>3. \A e \in event' : e.src \in stored'[e.mbx]
    <3>1. \A e \in event' : e \in event /\ e.mbx # s.mbx /\ e.mbx \in Mailboxes
      BY <2>1, ClearEmpties DEF TypeOK, Event
    <3> QED
      BY <1>1, <3>1 DEF SurfacesReflectStored
  <2>4. \A n \in Mailboxes : /\ embedding'[n] \subseteq stored'[n]
                             /\ assignment'[n] \subseteq ThreadsOf(stored'[n])
    BY <1>1, <2>1, ClearEmpties DEF SurfacesReflectStored
  <2> QED
    BY <2>2, <2>3, <2>4 DEF SurfacesReflectStored, ContactsOf, ThreadsOf
<1>3. CASE ~s.replace
  <2>1. UNCHANGED derived
    BY <1>3 DEF PersistL0
  <2>2. \A n \in Mailboxes : stored[n] \subseteq stored'[n]
    BY <1>1, <1>3
  <2>3. \A n \in Mailboxes : /\ ContactsOf(stored[n]) \subseteq ContactsOf(stored'[n])
                             /\ ThreadsOf(stored[n]) \subseteq ThreadsOf(stored'[n])
    BY <2>2, Monotone
  <2>4. \A i \in identity : i.mbx \in Mailboxes
    BY DEF TypeOK, Identity
  <2>5. \A e \in event : e.mbx \in Mailboxes
    BY DEF TypeOK, Event
  <2>6. \A i \in identity' : i.person \in ContactsOf(stored'[i.mbx])
    BY <2>1, <2>3, <2>4 DEF derived, SurfacesReflectStored
  <2>7. \A e \in event' : e.src \in stored'[e.mbx]
    BY <2>1, <2>2, <2>5 DEF derived, SurfacesReflectStored
  <2>8. \A n \in Mailboxes : /\ embedding'[n] \subseteq stored'[n]
                             /\ assignment'[n] \subseteq ThreadsOf(stored'[n])
    BY <2>1, <2>2, <2>3 DEF derived, SurfacesReflectStored
  <2> QED
    BY <2>6, <2>7, <2>8 DEF SurfacesReflectStored, ContactsOf, ThreadsOf
<1> QED
  BY <1>2, <1>3

LEMMA PersistL1Surfaces ==
  ASSUME SurfacesReflectStored, NEW m, NEW people, NEW resolved,
         resolved \subseteq ContactsOf(stored[m]), PersistL1(m, people, resolved)
  PROVE  SurfacesReflectStored'
<1>1. \A i \in identity' : i.person \in ContactsOf(stored[i.mbx])
  BY DEF PersistL1, SurfacesReflectStored
<1> QED
  BY <1>1 DEF PersistL1, SurfacesReflectStored, ContactsOf, ThreadsOf

LEMMA SurfaceNext ==
  ASSUME \A v, w \in Workers : v = w, SurfaceInv, [Next]_vars
  PROVE  SurfacesReflectStored' /\ Current'
<1> USE DEF SurfaceInv
<1>t. TypeInv' /\ TypeOK
  BY TypeInvNext DEF TypeInv
<1>1. ASSUME NEW w \in Workers, NEW m \in Mailboxes,
             \/ Fetch(w, m) \/ ReadForEnrichment(w, m) \/ ReadForExtraction(w, m)
             \/ ReadForEmbedding(w, m) \/ ReadForClustering(w, m)
      PROVE  SurfacesReflectStored' /\ Current'
  <2>1. PICK s : Fresh(s, m) /\ Starts(w, s)
    BY <1>1, JobsStartFresh
  <2>2. SurfacesReflectStored'
    BY <2>1 DEF Starts, rows, derived, SurfacesReflectStored, ContactsOf, ThreadsOf
  <2>3. Current'
    BY <2>1, <1>t DEF Starts, rows, Fresh, Current, TypeOK
  <2> QED
    BY <2>2, <2>3
<1>2. ASSUME NEW w \in Workers, StoreL0(w) PROVE SurfacesReflectStored' /\ Current'
  <2> DEFINE s == sess[w]
  <2>1. s \in Session /\ s.mbx \in Mailboxes
    BY <1>2, IdleIsSession DEF StoreL0, TypeInv, TypeOK, OnMailbox
  <2>2. PersistL0(s, s.msgs)
    BY <1>2 DEF StoreL0
  <2>3. Current'
    <3>1. sess'[w].msgs = s.msgs /\ sess'[w].mbx = s.mbx
      BY <1>2, <1>t, <2>1 DEF StoreL0, TypeOK, Session
    <3>2. s.msgs \subseteq stored'[s.mbx]
      BY <1>t, <2>1, <2>2 DEF PersistL0, TypeOK
    <3>3. \A v \in Workers : v = w
      OBVIOUS
    <3> QED
      BY <3>1, <3>2, <3>3 DEF Current
  <2> HIDE DEF s
  <2> QED
    BY <1>t, <2>1, <2>2, <2>3, PersistL0Surfaces
<1>3. ASSUME NEW w \in Workers, sess[w].step \in {"stored", "enriching"}, NEW people,
             NEW resolved \in SUBSET ContactsOf(sess[w].msgs), PersistL1(sess[w].mbx, people, resolved)
      PROVE  SurfacesReflectStored'
  <2>1. sess[w].msgs \subseteq stored[sess[w].mbx]
    BY <1>3 DEF Current
  <2>2. resolved \subseteq ContactsOf(stored[sess[w].mbx])
    BY <1>3, <2>1, Monotone
  <2> QED
    BY <1>3, <2>2, PersistL1Surfaces
<1>4. ASSUME NEW w \in Workers, StoreL1(w) PROVE SurfacesReflectStored' /\ Current'
  <2>1. sess'[w].msgs = sess[w].msgs /\ sess'[w].mbx = sess[w].mbx /\ stored' = stored
    BY <1>4, <1>t DEF StoreL1, TypeOK, Session, PersistL1
  <2>2. Current'
    BY <1>4, <2>1 DEF StoreL1, Current
  <2> QED
    BY <1>3, <1>4, <2>2 DEF StoreL1
<1>e. ASSUME NEW w \in Workers, Ends(w) PROVE Current'
  BY <1>e, <1>t, IdleIsSession DEF Ends, Current, TypeOK
<1>5. ASSUME NEW w \in Workers, SetOwner(w) PROVE SurfacesReflectStored' /\ Current'
  BY <1>5, <1>e DEF SetOwner, derived, SurfacesReflectStored, ContactsOf, ThreadsOf
<1>6. ASSUME NEW w \in Workers, Enrich(w) PROVE SurfacesReflectStored' /\ Current'
  BY <1>3, <1>6, <1>e DEF Enrich
<1>7. ASSUME NEW w \in Workers, NEW es \in SUBSET Extracted(sess[w]), ExtractEvents(w, es)
      PROVE  SurfacesReflectStored' /\ Current'
  <2>1. sess[w].msgs \subseteq stored[sess[w].mbx]
    BY <1>7 DEF ExtractEvents, Current
  <2>2. \A e \in es : e.src \in stored[e.mbx]
    BY <2>1 DEF Extracted
  <2>3. \A e \in event' : e.src \in stored[e.mbx]
    BY <1>7, <2>2 DEF ExtractEvents, PersistEvents, SurfacesReflectStored
  <2> QED
    BY <1>7, <1>e, <2>3
    DEF ExtractEvents, PersistEvents, SurfacesReflectStored, ContactsOf, ThreadsOf
<1>8. ASSUME NEW w \in Workers, NEW batch \in SUBSET sess[w].msgs, CallEmbed(w, batch)
      PROVE  SurfacesReflectStored' /\ Current'
  <2>1. sess'[w].msgs = sess[w].msgs /\ sess'[w].mbx = sess[w].mbx /\ stored' = stored
    BY <1>8, <1>t DEF CallEmbed, rows, TypeOK, Session
  <2>2. Current'
    BY <1>8, <2>1 DEF CallEmbed, Current
  <2> QED
    BY <1>8, <2>2 DEF CallEmbed, rows, derived, SurfacesReflectStored, ContactsOf, ThreadsOf
<1>9. ASSUME NEW w \in Workers, StoreBatch(w) PROVE SurfacesReflectStored' /\ Current'
  <2> DEFINE s == sess[w]
             left == s.msgs \ s.batch
  <2>1. /\ s \in Session /\ s.mbx \in Mailboxes /\ s.msgs \subseteq stored[s.mbx]
        /\ s.batch \subseteq stored[s.mbx]
    BY <1>9, IdleIsSession DEF StoreBatch, TypeInv, TypeOK, OnMailbox, Current
  <2>2. \A n \in Mailboxes : embedding'[n] \subseteq stored[n]
    BY <1>9, <1>t, <2>1 DEF StoreBatch, SurfacesReflectStored, TypeOK
  <2>3. Current'
    <3>1. CASE left = {}
      BY <1>9, <3>1, <1>e DEF StoreBatch, Ends
    <3>2. CASE left # {}
      <4>1. sess' = [sess EXCEPT ![w] = [s EXCEPT !.step = "embedding", !.msgs = left, !.batch = {}]]
        BY <1>9, <3>2 DEF StoreBatch
      <4>2. sess'[w].msgs = left /\ sess'[w].mbx = s.mbx
        BY <1>t, <2>1, <4>1 DEF TypeOK, Session
      <4> QED
        BY <1>9, <2>1, <4>2 DEF StoreBatch, Current
    <3> QED
      BY <3>1, <3>2
  <2> QED
    BY <1>9, <2>2, <2>3 DEF StoreBatch, SurfacesReflectStored, ContactsOf, ThreadsOf
<1>10. ASSUME NEW w \in Workers, NEW ts \in SUBSET Threads, Materialize(w, ts)
       PROVE  SurfacesReflectStored' /\ Current'
  <2>1. sess[w].mbx \in Mailboxes
    BY <1>10, IdleIsSession DEF Materialize, TypeInv, TypeOK, OnMailbox
  <2>2. \A n \in Mailboxes : assignment'[n] \subseteq ThreadsOf(stored[n])
    BY <1>10, <1>t, <2>1 DEF Materialize, SurfacesReflectStored, TypeOK
  <2> QED
    BY <1>10, <1>e, <2>2 DEF Materialize, SurfacesReflectStored, ContactsOf, ThreadsOf
<1>11. ASSUME NEW w \in Workers, NEW fault \in Faults, Raise(w, fault)
       PROVE  SurfacesReflectStored' /\ Current'
  <2>1. sess[w].mbx \in Mailboxes /\ Ends(w)
    BY <1>11, RaiseLeaves
  <2>2. ASSUME NEW x \in SUBSET sess[w].msgs, PersistL0(sess[w], x) PROVE SurfacesReflectStored'
    BY <1>t, <2>1, <2>2, PersistL0Surfaces
  <2>3. ASSUME PersistEvents(sess[w].mbx, sess[w].msgs, {}) PROVE SurfacesReflectStored'
    BY <2>3 DEF PersistEvents, SurfacesReflectStored, ContactsOf, ThreadsOf
  <2>4. ASSUME UNCHANGED <<stored, derived>> PROVE SurfacesReflectStored'
    BY <2>4 DEF derived, SurfacesReflectStored, ContactsOf, ThreadsOf
  <2>5. SurfacesReflectStored'
    BY <1>3, <1>11, <2>2, <2>3, <2>4, RaiseLeaves
  <2> QED
    BY <1>e, <2>1, <2>5
<1>12. CASE UNCHANGED vars
  BY <1>12 DEF vars, rows, derived, SurfacesReflectStored, Current, ContactsOf, ThreadsOf
<1> QED
  BY <1>1, <1>2, <1>4, <1>5, <1>6, <1>7, <1>8, <1>9, <1>10, <1>11, <1>12 DEF Next

\* With one worker, everything shown for a mailbox is derived from messages it holds.
THEOREM SurfacesHold ==
  ASSUME \A v, w \in Workers : v = w
  PROVE  Spec => []SurfacesReflectStored
<1>1. Init => SurfaceInv
  BY TypeInvInit, IdleIsSession DEF Init, SurfaceInv, SurfacesReflectStored, Current
<1>2. SurfaceInv /\ [Next]_vars => SurfaceInv'
  BY SurfaceNext, TypeInvNext DEF SurfaceInv
<1>3. SurfaceInv => SurfacesReflectStored
  BY DEF SurfaceInv
<1> QED
  BY <1>1, <1>2, <1>3, PTL DEF Spec

-----------------------------------------------------------------------------
\* The ingest as an instance of Snapshot: every step is a step of Snapshot or changes
\* neither the stored messages nor what has been fetched.
LEMMA PendingMoves ==
  ASSUME TypeOK, NEW w \in Workers, NEW t, sess' = [sess EXCEPT ![w] = t]
  PROVE  Pending' = [Pending EXCEPT ![w] =
           IF t.step = "fetched"
           THEN [mbx |-> t.mbx, window |-> t.msgs, replace |-> t.replace] ELSE None]
  BY DEF Pending, TypeOK

LEMMA PendingStays ==
  ASSUME TypeOK, NEW w \in Workers, NEW t, sess' = [sess EXCEPT ![w] = t],
         sess[w].step # "fetched", t.step # "fetched"
  PROVE  Pending' = Pending
  BY DEF Pending, TypeOK

\* What is pending of a fetched window.
LEMMA PendingWindow ==
  ASSUME TypeInv, NEW w \in Workers, sess[w].step = "fetched"
  PROVE  /\ Pending[w] # None
         /\ Pending[w] = [mbx |-> sess[w].mbx, window |-> sess[w].msgs,
                          replace |-> sess[w].replace]
<1>1. /\ sess[w].mbx \in Mailboxes /\ sess[w].msgs \in SUBSET Msgs
      /\ sess[w].replace \in BOOLEAN
  BY IdleIsSession DEF TypeInv, TypeOK, OnMailbox, Session
<1> QED
  BY <1>1, MailboxConstants DEF Pending

LEMMA PromiseInit == Init => Promise!Init
  BY IdleIsSession DEF Init, Promise!Init, Promise!NoIngest, Pending

LEMMA PromiseNext ==
  ASSUME "client" \notin Faults, TypeInv, [Next]_vars
  PROVE  [Promise!Next]_<<stored, Pending>>
<1> USE DEF TypeInv
<1>1. ASSUME NEW w \in Workers, NEW m \in Mailboxes, Fetch(w, m) PROVE Promise!Next
  <2>1. PICK x \in Windows[m], replace \in BOOLEAN :
          Starts(w, Job("fetched", m, x, {}, replace))
    BY <1>1 DEF Fetch
  <2> DEFINE t == Job("fetched", m, x, {}, replace)
  <2>2. t.step = "fetched" /\ t.mbx = m /\ t.msgs = x /\ t.replace = replace
    BY Columns
  <2>3. sess[w] = Idle /\ sess' = [sess EXCEPT ![w] = t] /\ stored' = stored
    BY <2>1 DEF Starts, rows
  <2> HIDE DEF t
  <2>4. Pending' = [Pending EXCEPT ![w] = [mbx |-> m, window |-> x, replace |-> replace]]
    BY <2>2, <2>3, PendingMoves
  <2>5. Pending[w] = None
    BY <2>3, IdleIsSession DEF Pending
  <2>6. Promise!Fetched(w, m)
    BY <2>3, <2>4, <2>5 DEF Promise!Fetched, Promise!NoIngest
  <2> QED
    BY <2>6 DEF Promise!Next
<1>2. ASSUME NEW w \in Workers, StoreL0(w) PROVE Promise!Next
  <2> DEFINE s == sess[w]
             t == [s EXCEPT !.step = "stored"]
  <2>1. s \in Session /\ s.step = "fetched" /\ sess' = [sess EXCEPT ![w] = t]
    BY <1>2 DEF StoreL0, TypeOK
  <2>2. t.step # "fetched"
    BY <2>1 DEF Session
  <2>3. stored' = [stored EXCEPT ![s.mbx] = (IF s.replace THEN {} ELSE @) \cup s.msgs]
    BY <1>2 DEF StoreL0, PersistL0
  <2>4. Pending[w] # None /\ Pending[w] = [mbx |-> s.mbx, window |-> s.msgs, replace |-> s.replace]
    BY <2>1, PendingWindow
  <2> HIDE DEF s, t
  <2>5. Pending' = [Pending EXCEPT ![w] = None]
    BY <2>1, <2>2, PendingMoves
  <2>6. Promise!Taken(w)
    BY <2>3, <2>4, <2>5 DEF Promise!Taken, Promise!NoIngest
  <2> QED
    BY <2>6 DEF Promise!Next
<1>3. ASSUME NEW w \in Workers, NEW fault \in Faults, Raise(w, fault)
      PROVE  [Promise!Next]_<<stored, Pending>>
  <2>1. stored' = stored /\ sess' = [sess EXCEPT ![w] = Idle]
    BY <1>3 DEF Raise, Ends
  <2>2. CASE sess[w].step = "fetched"
    <3>1. Pending[w] # None
      BY <2>2, PendingWindow
    <3>2. Pending' = [Pending EXCEPT ![w] = None]
      BY <2>1, IdleIsSession, PendingMoves
    <3>3. Promise!GivenUp(w)
      BY <2>1, <3>1, <3>2 DEF Promise!GivenUp, Promise!NoIngest
    <3> QED
      BY <3>3 DEF Promise!Next
  <2>3. CASE sess[w].step # "fetched"
    BY <2>1, <2>3, IdleIsSession, PendingStays
  <2> QED
    BY <2>2, <2>3
\* The steps of the other jobs, and of the ingest after its first commit.
<1>4. ASSUME NEW w \in Workers, NEW t, sess' = [sess EXCEPT ![w] = t], stored' = stored,
             sess[w].step # "fetched", t.step # "fetched"
      PROVE  UNCHANGED <<stored, Pending>>
  BY <1>4, PendingStays
<1>5. ASSUME NEW w \in Workers, NEW m \in Mailboxes,
             \/ ReadForEnrichment(w, m) \/ ReadForExtraction(w, m)
             \/ ReadForEmbedding(w, m) \/ ReadForClustering(w, m)
      PROVE  UNCHANGED <<stored, Pending>>
  <2>1. PICK step, x, ps : step \in Steps \ {"fetched"} /\ Starts(w, Job(step, m, x, ps, FALSE))
    BY <1>5 DEF ReadForEnrichment, ReadForExtraction, ReadForEmbedding,
                ReadForClustering, Steps
  <2> DEFINE t == Job(step, m, x, ps, FALSE)
  <2>2. t.step # "fetched"
    <3>1. t.step = step
      BY DEF Job
    <3> QED
      BY <2>1, <3>1
  <2> HIDE DEF t
  <2>3. sess' = [sess EXCEPT ![w] = t] /\ stored' = stored /\ sess[w].step # "fetched"
    BY <2>1, IdleIsSession DEF Starts, rows, t
  <2> QED
    BY <1>4, <2>2, <2>3
<1>6. ASSUME NEW w \in Workers, Ends(w), stored' = stored, sess[w].step # "fetched"
      PROVE  UNCHANGED <<stored, Pending>>
  BY <1>4, <1>6, IdleIsSession DEF Ends
<1>7. ASSUME NEW w \in Workers, StoreL1(w) PROVE UNCHANGED <<stored, Pending>>
  <2>1. [sess[w] EXCEPT !.step = "linked"].step # "fetched"
    BY DEF TypeOK, Session
  <2> QED
    BY <1>4, <1>7, <2>1 DEF StoreL1, PersistL1
<1>8. ASSUME NEW w \in Workers, SetOwner(w) PROVE UNCHANGED <<stored, Pending>>
  BY <1>6, <1>8 DEF SetOwner
<1>9. ASSUME NEW w \in Workers, Enrich(w) PROVE UNCHANGED <<stored, Pending>>
  BY <1>6, <1>9 DEF Enrich, PersistL1
<1>10. ASSUME NEW w \in Workers, NEW es, ExtractEvents(w, es)
       PROVE  UNCHANGED <<stored, Pending>>
  BY <1>6, <1>10 DEF ExtractEvents, PersistEvents
<1>11. ASSUME NEW w \in Workers, NEW batch, CallEmbed(w, batch)
       PROVE  UNCHANGED <<stored, Pending>>
  <2>1. [sess[w] EXCEPT !.step = "called", !.batch = batch].step # "fetched"
    BY DEF TypeOK, Session
  <2> QED
    BY <1>4, <1>11, <2>1 DEF CallEmbed, rows
<1>12. ASSUME NEW w \in Workers, StoreBatch(w) PROVE UNCHANGED <<stored, Pending>>
  <2> DEFINE left == sess[w].msgs \ sess[w].batch
             t == [sess[w] EXCEPT !.step = "embedding", !.msgs = left, !.batch = {}]
  <2>1. t.step # "fetched"
    BY DEF TypeOK, Session
  <2>2. /\ sess' = [sess EXCEPT ![w] = IF left = {} THEN Idle ELSE t]
        /\ stored' = stored /\ sess[w].step = "called"
    BY <1>12 DEF StoreBatch
  <2> HIDE DEF t, left
  <2> QED
    BY <1>4, <2>1, <2>2, IdleIsSession
<1>13. ASSUME NEW w \in Workers, NEW ts, Materialize(w, ts) PROVE UNCHANGED <<stored, Pending>>
  BY <1>6, <1>13 DEF Materialize
<1>14. CASE UNCHANGED vars
  BY <1>14 DEF vars, rows, Pending
<1> QED
  BY <1>1, <1>2, <1>3, <1>5, <1>7, <1>8, <1>9, <1>10, <1>11, <1>12, <1>13, <1>14 DEF Next

\* Without a client fault, the pipeline implements Snapshot.
THEOREM PromiseKept ==
  ASSUME "client" \notin Faults
  PROVE  Spec => KeepsPromise
<1>1. TypeInv /\ [Next]_vars => [Promise!Next]_<<stored, Pending>>
  BY PromiseNext
<1> QED
  BY <1>1, TypeInvInit, TypeInvNext, PromiseInit, PTL DEF Spec, KeepsPromise, Promise!Spec

-----------------------------------------------------------------------------
\* Jobs stay in their mailbox when no contact is in the mail of two mailboxes.
Mail(m)  == UNION Windows[m]
Reach(m) == ContactsOf(Mail(m))

Apart == \A m, n \in Mailboxes : m # n => Reach(m) \cap Reach(n) = {}

\* Rows and sessions of a mailbox are about its own mail and contacts.
LocalRows ==
  /\ \A m \in Mailboxes : stored[m] \subseteq Mail(m)
  /\ \A p \in Persons : person[p] # None => p \in Reach(person[p])
  /\ \A i \in identity : i.person \in Reach(i.mbx)
  /\ \A e \in event : e.actor \in Reach(e.mbx)

LocalSessions == \A w \in Workers :
  sess[w] # Idle => /\ sess[w].msgs \subseteq Mail(sess[w].mbx)
                    /\ sess[w].people \subseteq Reach(sess[w].mbx)

LocalInv == TypeInv /\ LocalRows /\ LocalSessions

\* The rows of n are left alone by each of the writes that work for m.
LEMMA ClearIsLocal ==
  ASSUME Apart, TypeOK, LocalRows, NEW m \in Mailboxes, NEW n \in Mailboxes, m # n, Clear(m)
  PROVE  /\ {p \in Persons : person'[p] = n} = {p \in Persons : person[p] = n}
         /\ {i \in identity' : i.mbx = n} = {i \in identity : i.mbx = n}
         /\ {e \in event' : e.mbx = n} = {e \in event : e.mbx = n}
         /\ embedding'[n] = embedding[n]
         /\ assignment'[n] = assignment[n]
<1> USE MailboxConstants
<1>1. \A p \in Persons : person[p] = m => p \in Reach(m)
  BY DEF LocalRows
<1>2. \A p \in Reach(n) \cap Persons : person[p] # m
  BY <1>1 DEF Apart
<1>3. \A i \in identity : i.mbx = n => person[i.person] # m
  BY <1>2 DEF LocalRows, TypeOK, Identity
<1>4. \A e \in event : e.mbx = n => person[e.actor] # m
  BY <1>2 DEF LocalRows, TypeOK, Event
<1>5. {p \in Persons : person'[p] = n} = {p \in Persons : person[p] = n}
  BY DEF Clear, TypeOK
<1>6. {i \in identity' : i.mbx = n} = {i \in identity : i.mbx = n}
  BY <1>3 DEF Clear
<1>7. {e \in event' : e.mbx = n} = {e \in event : e.mbx = n}
  BY <1>4 DEF Clear
<1> QED
  BY <1>5, <1>6, <1>7 DEF Clear, TypeOK

LEMMA PersistL1IsLocal ==
  ASSUME Apart, TypeOK, LocalRows, NEW m \in Mailboxes, NEW n \in Mailboxes, m # n,
         NEW people \in SUBSET Reach(m), NEW resolved, PersistL1(m, people, resolved)
  PROVE  /\ {p \in Persons : person'[p] = n} = {p \in Persons : person[p] = n}
         /\ {i \in identity' : i.mbx = n} = {i \in identity : i.mbx = n}
<1> USE MailboxConstants
<1>1. \A p \in Persons : person[p] = n => p \notin people
  BY DEF LocalRows, Apart
<1>2. \A p \in Persons : person'[p] = IF p \in people THEN m ELSE person[p]
  BY DEF PersistL1
<1>3. {p \in Persons : person'[p] = n} = {p \in Persons : person[p] = n}
  BY <1>1, <1>2
<1>4. \A i \in identity' : i.mbx = n => i \in identity
  BY DEF PersistL1
<1>5. identity \subseteq identity'
  BY DEF PersistL1
<1> QED
  BY <1>3, <1>4, <1>5

\* What the writes leave is again about the mail and contacts of its mailbox.
LEMMA ClearLocalRows ==
  ASSUME TypeOK, LocalRows, NEW m \in Mailboxes, Clear(m)
  PROVE  /\ \A p \in Persons : person'[p] # None => p \in Reach(person'[p])
         /\ \A i \in identity' : i.person \in Reach(i.mbx)
         /\ \A e \in event' : e.actor \in Reach(e.mbx)
  BY DEF Clear, LocalRows

LEMMA PersistL1LocalRows ==
  ASSUME TypeOK, LocalRows, NEW m \in Mailboxes, NEW people \in SUBSET Reach(m),
         NEW resolved \in SUBSET Reach(m), PersistL1(m, people, resolved)
  PROVE  LocalRows'
<1>1. \A p \in Persons : person'[p] # None => p \in Reach(person'[p])
  BY DEF PersistL1, LocalRows
<1>2. \A i \in identity' : i.person \in Reach(i.mbx)
  BY DEF PersistL1, LocalRows
<1> QED
  BY <1>1, <1>2 DEF PersistL1, LocalRows, Reach, Mail, ContactsOf

\* Sessions: one that starts, moves on or ends stays with its mailbox.
LEMMA LocalStart ==
  ASSUME LocalInv, NEW w \in Workers, NEW m \in Mailboxes, NEW s, Fresh(s, m), Starts(w, s)
  PROVE  LocalSessions'
<1>1. s.msgs \subseteq Mail(m)
  BY MailboxConstants DEF Fresh, Mail, LocalInv, LocalRows
<1>2. s.people \subseteq Reach(m)
  BY DEF Fresh, PeopleOf, LocalInv, LocalRows
<1>3. s.mbx = m /\ sess' = [sess EXCEPT ![w] = s]
  BY DEF Fresh, Starts
<1> QED
  BY <1>1, <1>2, <1>3 DEF LocalInv, LocalSessions, TypeInv, TypeOK, Mail, Reach, ContactsOf

LEMMA LocalMove ==
  ASSUME LocalInv, NEW w \in Workers, NEW t, sess' = [sess EXCEPT ![w] = t],
         t # Idle => /\ sess[w] # Idle /\ t.mbx = sess[w].mbx
                     /\ t.msgs \subseteq sess[w].msgs /\ t.people = sess[w].people
  PROVE  LocalSessions'
  BY DEF LocalInv, LocalSessions, TypeInv, TypeOK, Mail, Reach, ContactsOf

LEMMA LocalEnd ==
  ASSUME LocalInv, NEW w \in Workers, Ends(w)
  PROVE  LocalSessions'
  BY LocalMove DEF Ends

\* The body of ScopedToMailbox.
Scoped == \A m \in Mailboxes :
  RowsOf(m)' # RowsOf(m) => \E w \in Workers : sess[w] # Idle /\ sess[w].mbx = m

\* A job of mailbox m that leaves the rows of the others alone is scoped.
LEMMA OthersAlone ==
  ASSUME NEW w \in Workers, sess[w] # Idle,
         \A n \in Mailboxes : n # sess[w].mbx =>
            /\ stored'[n] = stored[n]
            /\ {p \in Persons : person'[p] = n} = {p \in Persons : person[p] = n}
            /\ {i \in identity' : i.mbx = n} = {i \in identity : i.mbx = n}
            /\ {e \in event' : e.mbx = n} = {e \in event : e.mbx = n}
            /\ embedding'[n] = embedding[n]
            /\ assignment'[n] = assignment[n]
            /\ owner' \cap {n} = owner \cap {n}
  PROVE  Scoped
  BY DEF Scoped, RowsOf

LEMMA RowsAlone ==
  ASSUME UNCHANGED rows
  PROVE  Scoped /\ (LocalRows => LocalRows')
  BY DEF Scoped, RowsOf, rows, derived, LocalRows

LEMMA PersistL0IsLocal ==
  ASSUME Apart, TypeOK, LocalRows, NEW w \in Workers, sess[w] # Idle, sess[w].mbx \in Mailboxes,
         NEW x \in SUBSET Mail(sess[w].mbx), PersistL0(sess[w], x), owner' = owner
  PROVE  Scoped /\ LocalRows'
<1> DEFINE s == sess[w]
<1>1. \A n \in Mailboxes : stored'[n] = IF n = s.mbx
        THEN (IF s.replace THEN {} ELSE stored[n]) \cup x ELSE stored[n]
  BY DEF PersistL0, TypeOK
<1>2. \A n \in Mailboxes : stored'[n] \subseteq Mail(n)
  BY <1>1 DEF LocalRows
<1>3. CASE s.replace
  <2>1. Clear(s.mbx)
    BY <1>3 DEF PersistL0
  <2>2. Scoped
    BY <1>1, <2>1, ClearIsLocal, OthersAlone
  <2>3. LocalRows'
    BY <1>2, <2>1, ClearLocalRows DEF LocalRows, Mail, Reach, ContactsOf
  <2> QED
    BY <2>2, <2>3
<1>4. CASE ~s.replace
  <2>1. UNCHANGED derived
    BY <1>4 DEF PersistL0
  <2>2. Scoped
    BY <1>1, <2>1, OthersAlone DEF derived
  <2>3. LocalRows'
    BY <1>2, <2>1 DEF derived, LocalRows, Mail, Reach, ContactsOf
  <2> QED
    BY <2>2, <2>3
<1> QED
  BY <1>3, <1>4

\* One step per action.
LEMMA ScopedNext ==
  ASSUME Apart, LocalInv, [Next]_vars
  PROVE  Scoped /\ LocalRows' /\ LocalSessions'
<1> USE DEF LocalInv
<1>t. TypeOK
  BY DEF TypeInv
<1>1. ASSUME NEW w \in Workers, NEW m \in Mailboxes,
             \/ Fetch(w, m) \/ ReadForEnrichment(w, m) \/ ReadForExtraction(w, m)
             \/ ReadForEmbedding(w, m) \/ ReadForClustering(w, m)
      PROVE  Scoped /\ LocalRows' /\ LocalSessions'
  <2>1. PICK s : Fresh(s, m) /\ Starts(w, s)
    BY <1>1, JobsStartFresh
  <2> QED
    BY <2>1, LocalStart, RowsAlone DEF Starts
\* What a busy session holds.
<1>s. ASSUME NEW w \in Workers, sess[w].step # "idle"
      PROVE  /\ sess[w] # Idle /\ sess[w] \in Session /\ sess[w].mbx \in Mailboxes
             /\ sess[w].msgs \in SUBSET Mail(sess[w].mbx)
             /\ sess[w].people \in SUBSET Reach(sess[w].mbx)
  BY <1>s, IdleIsSession DEF TypeInv, TypeOK, OnMailbox, LocalSessions
<1>2. ASSUME NEW w \in Workers, StoreL0(w) PROVE Scoped /\ LocalRows' /\ LocalSessions'
  <2> DEFINE s == sess[w]
             t == [s EXCEPT !.step = "stored"]
  <2>1. /\ s # Idle /\ s \in Session /\ s.mbx \in Mailboxes
        /\ s.msgs \in SUBSET Mail(s.mbx)
    BY <1>2, <1>s DEF StoreL0
  <2>2. PersistL0(s, s.msgs) /\ owner' = owner
    BY <1>2 DEF StoreL0
  <2>3. LocalSessions'
    <3>1. t.mbx = s.mbx /\ t.msgs = s.msgs /\ t.people = s.people
      BY <2>1 DEF Session
    <3>2. sess' = [sess EXCEPT ![w] = t]
      BY <1>2 DEF StoreL0
    <3> HIDE DEF t
    <3> QED
      BY <2>1, <3>1, <3>2, LocalMove
  <2> QED
    BY <1>t, <2>1, <2>2, <2>3, PersistL0IsLocal
<1>3. ASSUME NEW w \in Workers, sess[w].step \in {"stored", "enriching"},
             NEW people \in SUBSET ContactsOf(sess[w].msgs),
             NEW resolved \in SUBSET ContactsOf(sess[w].msgs),
             PersistL1(sess[w].mbx, people, resolved), owner' = owner
      PROVE  Scoped /\ LocalRows'
  <2>1. sess[w] # Idle /\ sess[w].mbx \in Mailboxes
        /\ sess[w].msgs \in SUBSET Mail(sess[w].mbx)
    BY <1>3, <1>s
  <2>2. people \in SUBSET Reach(sess[w].mbx) /\ resolved \in SUBSET Reach(sess[w].mbx)
    BY <2>1, Monotone DEF Reach
  <2>3. LocalRows'
    BY <1>3, <1>t, <2>1, <2>2, PersistL1LocalRows
  <2>4. UNCHANGED <<stored, event, embedding, assignment>>
    BY <1>3 DEF PersistL1
  <2>5. Scoped
    BY <1>3, <1>t, <2>1, <2>2, <2>4, PersistL1IsLocal, OthersAlone
  <2> QED
    BY <2>3, <2>5
<1>4. ASSUME NEW w \in Workers, StoreL1(w) PROVE Scoped /\ LocalRows' /\ LocalSessions'
  <2> DEFINE t == [sess[w] EXCEPT !.step = "linked"]
  <2>1. sess[w] # Idle /\ sess[w] \in Session /\ sess' = [sess EXCEPT ![w] = t]
    BY <1>4, <1>s DEF StoreL1
  <2>2. t.mbx = sess[w].mbx /\ t.msgs = sess[w].msgs /\ t.people = sess[w].people
    BY <2>1 DEF Session
  <2> HIDE DEF t
  <2>3. LocalSessions'
    BY <2>1, <2>2, LocalMove
  <2> QED
    BY <1>3, <1>4, <2>3 DEF StoreL1
<1>5. ASSUME NEW w \in Workers, SetOwner(w) PROVE Scoped /\ LocalRows' /\ LocalSessions'
  <2>1. sess[w] # Idle
    BY <1>5, <1>s DEF SetOwner
  <2>2. Scoped
    BY <1>5, <2>1, OthersAlone DEF SetOwner, derived
  <2> QED
    BY <1>5, <2>2, LocalEnd DEF SetOwner, derived, LocalRows
<1>6. ASSUME NEW w \in Workers, Enrich(w) PROVE Scoped /\ LocalRows' /\ LocalSessions'
  BY <1>3, <1>6, LocalEnd DEF Enrich
<1>7. ASSUME NEW w \in Workers, NEW es \in SUBSET Extracted(sess[w]), ExtractEvents(w, es)
      PROVE  Scoped /\ LocalRows' /\ LocalSessions'
  <2>1. sess[w] # Idle /\ sess[w].people \in SUBSET Reach(sess[w].mbx)
    BY <1>7, <1>s DEF ExtractEvents
  <2>2. \A e \in es : e.mbx = sess[w].mbx /\ e.actor \in Reach(e.mbx)
    BY <2>1 DEF Extracted
  <2>3. /\ UNCHANGED <<stored, person, identity, embedding, assignment, owner>>
        /\ event' = {e \in event : ~(e.mbx = sess[w].mbx /\ e.src \in sess[w].msgs)} \cup es
    BY <1>7 DEF ExtractEvents, PersistEvents
  <2>4. \A n \in Mailboxes : n # sess[w].mbx =>
          {e \in event' : e.mbx = n} = {e \in event : e.mbx = n}
    BY <2>2, <2>3
  <2>5. Scoped
    BY <2>1, <2>3, <2>4, OthersAlone
  <2>6. LocalRows'
    BY <2>2, <2>3 DEF LocalRows, Mail, Reach, ContactsOf
  <2> QED
    BY <1>7, <2>5, <2>6, LocalEnd DEF ExtractEvents
<1>8. ASSUME NEW w \in Workers, NEW batch \in SUBSET sess[w].msgs, CallEmbed(w, batch)
      PROVE  Scoped /\ LocalRows' /\ LocalSessions'
  <2> DEFINE t == [sess[w] EXCEPT !.step = "called", !.batch = batch]
  <2>1. /\ sess[w] # Idle /\ sess[w] \in Session /\ sess' = [sess EXCEPT ![w] = t]
        /\ UNCHANGED rows
    BY <1>8, <1>s DEF CallEmbed
  <2>2. t.mbx = sess[w].mbx /\ t.msgs = sess[w].msgs /\ t.people = sess[w].people
    BY <2>1 DEF Session
  <2> HIDE DEF t
  <2> QED
    BY <2>1, <2>2, LocalMove, RowsAlone
<1>9. ASSUME NEW w \in Workers, StoreBatch(w) PROVE Scoped /\ LocalRows' /\ LocalSessions'
  <2> DEFINE s == sess[w]
             left == s.msgs \ s.batch
             t == [s EXCEPT !.step = "embedding", !.msgs = left, !.batch = {}]
  <2>1. s # Idle /\ s \in Session /\ s.mbx \in Mailboxes
    BY <1>9, <1>s DEF StoreBatch
  <2>2. t.mbx = s.mbx /\ t.msgs \subseteq s.msgs /\ t.people = s.people
    BY <2>1 DEF Session
  <2>3. sess' = [sess EXCEPT ![w] = IF left = {} THEN Idle ELSE t]
    BY <1>9 DEF StoreBatch
  <2>4. \A n \in Mailboxes : n # s.mbx => embedding'[n] = embedding[n]
    BY <1>9, <1>t DEF StoreBatch, TypeOK
  <2>5. UNCHANGED <<stored, person, identity, event, assignment, owner>>
    BY <1>9 DEF StoreBatch
  <2> HIDE DEF t, left
  <2>6. LocalSessions'
    BY <2>1, <2>2, <2>3, LocalMove
  <2>7. Scoped
    BY <2>1, <2>4, <2>5, OthersAlone
  <2> QED
    BY <2>5, <2>6, <2>7 DEF LocalRows, Mail, Reach, ContactsOf
<1>10. ASSUME NEW w \in Workers, NEW ts \in SUBSET Threads, Materialize(w, ts)
       PROVE  Scoped /\ LocalRows' /\ LocalSessions'
  <2>1. sess[w] # Idle
    BY <1>10, <1>s DEF Materialize
  <2>2. /\ \A n \in Mailboxes : n # sess[w].mbx => assignment'[n] = assignment[n]
        /\ UNCHANGED <<stored, person, identity, event, embedding, owner>>
    BY <1>10, <1>t DEF Materialize, TypeOK
  <2>3. Scoped
    BY <2>1, <2>2, OthersAlone
  <2> QED
    BY <1>10, <2>2, <2>3, LocalEnd DEF Materialize, LocalRows, Mail, Reach, ContactsOf
<1>11. ASSUME NEW w \in Workers, NEW fault \in Faults, Raise(w, fault)
       PROVE  Scoped /\ LocalRows' /\ LocalSessions'
  <2> DEFINE m == sess[w].mbx
  <2>1. sess[w] # Idle /\ m \in Mailboxes /\ owner' = owner /\ Ends(w)
    BY <1>11, RaiseLeaves
  <2>2. LocalSessions'
    BY <2>1, LocalEnd
  <2>3. ASSUME sess[w].step = "fetched", NEW x \in SUBSET sess[w].msgs, PersistL0(sess[w], x)
        PROVE  Scoped /\ LocalRows'
    <3>1. x \in SUBSET Mail(m)
      BY <1>s, <2>3
    <3> QED
      BY <1>t, <2>1, <2>3, <3>1, PersistL0IsLocal
  <2>4. ASSUME PersistEvents(m, sess[w].msgs, {}) PROVE Scoped /\ LocalRows'
    <3>1. /\ UNCHANGED <<stored, person, identity, embedding, assignment>>
          /\ event' = {e \in event : ~(e.mbx = m /\ e.src \in sess[w].msgs)}
      BY <2>4 DEF PersistEvents
    <3>2. \A n \in Mailboxes : n # m =>
            {e \in event' : e.mbx = n} = {e \in event : e.mbx = n}
      BY <3>1
    <3>3. Scoped
      BY <2>1, <3>1, <3>2, OthersAlone
    <3> QED
      BY <3>1, <3>3 DEF LocalRows, Mail, Reach, ContactsOf
  <2>5. ASSUME UNCHANGED <<stored, derived>> PROVE Scoped /\ LocalRows'
    BY <2>1, <2>5, RowsAlone DEF rows
  <2>6. Scoped /\ LocalRows'
    BY <1>3, <1>11, <2>1, <2>3, <2>4, <2>5, RaiseLeaves
  <2> QED
    BY <2>2, <2>6
<1>12. CASE UNCHANGED vars
  <2>1. UNCHANGED rows /\ UNCHANGED sess
    BY <1>12 DEF vars
  <2> QED
    BY <2>1, RowsAlone DEF LocalSessions, Mail, Reach, ContactsOf
<1> QED
  BY <1>1, <1>2, <1>4, <1>5, <1>6, <1>7, <1>8, <1>9, <1>10, <1>11, <1>12 DEF Next

\* When no contact is in the mail of two mailboxes, no job touches another mailbox.
THEOREM ScopedHolds ==
  ASSUME Apart
  PROVE  Spec => ScopedToMailbox
<1>1. Init => LocalInv
  BY TypeInvInit DEF Init, LocalInv, LocalRows, LocalSessions
<1>2. LocalInv /\ [Next]_vars => LocalInv'
  BY ScopedNext, TypeInvNext DEF LocalInv
<1>3. LocalInv /\ [Next]_vars => [Scoped]_vars
  BY ScopedNext
<1>4. Spec => [][Scoped]_vars
  BY <1>1, <1>2, <1>3, PTL DEF Spec
<1> QED
  BY <1>4 DEF ScopedToMailbox, Scoped

-----------------------------------------------------------------------------
\* One worker: what a backfill has still to embed has no vector yet.
Unpaid == \A w \in Workers :
  /\ sess[w].step = "embedding" => sess[w].msgs \cap embedding[sess[w].mbx] = {}
  /\ sess[w].step = "called" => (sess[w].msgs \ sess[w].batch) \cap embedding[sess[w].mbx] = {}

\* The body of NeverPaidTwice.
PaidOnce == \A w \in Workers :
  sess[w].step = "embedding" /\ sess'[w].step = "called"
  => sess'[w].batch \cap embedding[sess[w].mbx] = {}

LEMMA UnpaidEnd ==
  ASSUME \A v, w \in Workers : v = w, TypeInv, NEW w \in Workers, NEW t, t \in Session,
         sess' = [sess EXCEPT ![w] = t], t.step \notin {"embedding", "called"}
  PROVE  Unpaid' /\ PaidOnce
<1>1. \A v \in Workers : v = w /\ sess'[v] = t
  BY DEF TypeInv, TypeOK
<1> QED
  BY <1>1 DEF Unpaid, PaidOnce

LEMMA UnpaidNext ==
  ASSUME \A v, w \in Workers : v = w, TypeInv, Unpaid, [Next]_vars
  PROVE  Unpaid' /\ PaidOnce
<1>t. TypeOK
  BY DEF TypeInv
<1>e. ASSUME NEW w \in Workers, Ends(w) PROVE Unpaid' /\ PaidOnce
  BY <1>e, UnpaidEnd, IdleIsSession DEF Ends
\* A step of the session that leaves the backfill alone.
<1>m. ASSUME NEW w \in Workers, NEW step \in Steps \ {"embedding", "called"},
             sess' = [sess EXCEPT ![w].step = step]
      PROVE  Unpaid' /\ PaidOnce
  <2> DEFINE t == [sess[w] EXCEPT !.step = step]
  <2>1. sess[w] \in Session
    BY <1>t DEF TypeOK
  <2>2. t \in Session
    BY <2>1, StepEdits
  <2>3. t.step = step
    BY <2>1 DEF Session
  <2>4. sess' = [sess EXCEPT ![w] = t]
    BY <1>m
  <2> HIDE DEF t
  <2> QED
    BY <1>m, <2>2, <2>3, <2>4, UnpaidEnd
<1>1. ASSUME NEW w \in Workers, NEW m \in Mailboxes,
             \/ Fetch(w, m) \/ ReadForEnrichment(w, m) \/ ReadForExtraction(w, m)
             \/ ReadForClustering(w, m)
      PROVE  Unpaid' /\ PaidOnce
  <2>1. PICK s : Fresh(s, m) /\ Starts(w, s)
    BY <1>1, JobsStartFresh
  <2>2. PICK step, x, ps, r : /\ step \in Steps \ {"embedding", "called"}
                               /\ Starts(w, Job(step, m, x, ps, r))
    BY <1>1 DEF Fetch, ReadForEnrichment, ReadForExtraction, ReadForClustering, Steps
  <2> DEFINE t == Job(step, m, x, ps, r)
  <2>3. t.step = step
    BY DEF Job
  <2>4. sess' = [sess EXCEPT ![w] = t] /\ sess' = [sess EXCEPT ![w] = s]
    BY <2>1, <2>2 DEF Starts
  <2> HIDE DEF t
  <2>5. t = s
    BY <1>t, <2>4 DEF TypeOK
  <2> QED
    BY <2>1, <2>2, <2>3, <2>4, <2>5, UnpaidEnd DEF Fresh
<1>2. ASSUME NEW w \in Workers, NEW m \in Mailboxes, ReadForEmbedding(w, m)
      PROVE  Unpaid' /\ PaidOnce
  <2> DEFINE t == Job("embedding", m, Unembedded(m), {}, FALSE)
  <2>1. t.step = "embedding" /\ t.mbx = m /\ t.msgs = Unembedded(m)
    BY DEF Job
  <2>2. sess' = [sess EXCEPT ![w] = t] /\ embedding' = embedding
    BY <1>2 DEF ReadForEmbedding, Starts, rows, derived
  <2> HIDE DEF t
  <2>3. \A v \in Workers : v = w /\ sess'[v] = t
    BY <1>t, <2>2 DEF TypeOK
  <2>4. Unembedded(m) \cap embedding[m] = {}
    BY DEF Unembedded
  <2> QED
    BY <2>1, <2>2, <2>3, <2>4 DEF Unpaid, PaidOnce
<1>3. ASSUME NEW w \in Workers, StoreL0(w) PROVE Unpaid' /\ PaidOnce
  BY <1>3, <1>m DEF StoreL0, Steps
<1>4. ASSUME NEW w \in Workers, StoreL1(w) PROVE Unpaid' /\ PaidOnce
  BY <1>4, <1>m DEF StoreL1, Steps
<1>5. ASSUME NEW w \in Workers, NEW batch, CallEmbed(w, batch) PROVE Unpaid' /\ PaidOnce
  <2> DEFINE t == [sess[w] EXCEPT !.step = "called", !.batch = batch]
  <2>1. /\ sess[w] \in Session /\ sess[w].step = "embedding"
        /\ batch \subseteq sess[w].msgs /\ embedding' = embedding
        /\ sess' = [sess EXCEPT ![w] = t]
    BY <1>5, <1>t DEF CallEmbed, TypeOK, rows, derived
  <2>2. t.step = "called" /\ t.mbx = sess[w].mbx /\ t.msgs = sess[w].msgs /\ t.batch = batch
    BY <2>1 DEF Session
  <2> HIDE DEF t
  <2>3. \A v \in Workers : v = w /\ sess'[v] = t
    BY <1>t, <2>1 DEF TypeOK
  <2>4. sess[w].msgs \cap embedding[sess[w].mbx] = {}
    BY <2>1 DEF Unpaid
  <2> QED
    BY <2>1, <2>2, <2>3, <2>4 DEF Unpaid, PaidOnce
<1>6. ASSUME NEW w \in Workers, StoreBatch(w) PROVE Unpaid' /\ PaidOnce
  <2> DEFINE s == sess[w]
             left == s.msgs \ s.batch
             t == [s EXCEPT !.step = "embedding", !.msgs = left, !.batch = {}]
  <2>1. /\ s \in Session /\ s.step = "called" /\ s.mbx \in Mailboxes
        /\ embedding' = [embedding EXCEPT ![s.mbx] = @ \cup s.batch]
        /\ sess' = [sess EXCEPT ![w] = IF left = {} THEN Idle ELSE t]
    BY <1>6, <1>t, IdleIsSession DEF StoreBatch, TypeInv, TypeOK, OnMailbox
  <2>2. left \cap embedding[s.mbx] = {}
    BY <2>1 DEF Unpaid
  <2>3. left \cap embedding'[s.mbx] = {}
    BY <1>t, <2>1, <2>2 DEF TypeOK
  <2>4. t.step = "embedding" /\ t.mbx = s.mbx /\ t.msgs = left
    BY <2>1 DEF Session
  <2>5. CASE left = {}
    BY <1>e, <2>1, <2>5 DEF Ends
  <2>6. CASE left # {}
    <3> HIDE DEF t, left
    <3>1. \A v \in Workers : v = w /\ sess'[v] = t
      BY <1>t, <2>1, <2>6 DEF TypeOK
    <3> QED
      BY <2>1, <2>3, <2>4, <3>1 DEF Unpaid, PaidOnce
  <2> QED
    BY <2>5, <2>6
<1>7. CASE UNCHANGED vars
  BY <1>7 DEF vars, rows, derived, Unpaid, PaidOnce
<1> QED
  BY <1>1, <1>2, <1>3, <1>4, <1>5, <1>6, <1>7, <1>e
  DEF Next, SetOwner, Enrich, ExtractEvents, Materialize, Raise

\* With one worker, no message that has a vector is sent to be embedded.
THEOREM PaidOnceHolds ==
  ASSUME \A v, w \in Workers : v = w
  PROVE  Spec => NeverPaidTwice
<1>1. Init => TypeInv /\ Unpaid
  BY TypeInvInit, IdleIsSession DEF Init, Unpaid
<1>2. TypeInv /\ Unpaid /\ [Next]_vars => TypeInv' /\ Unpaid' /\ [PaidOnce]_vars
  BY UnpaidNext, TypeInvNext
<1>3. Spec => [][PaidOnce]_vars
  BY <1>1, <1>2, PTL DEF Spec
<1> QED
  BY <1>3 DEF NeverPaidTwice, PaidOnce

=============================================================================
