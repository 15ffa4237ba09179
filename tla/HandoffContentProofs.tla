------------------------ MODULE HandoffContentProofs ------------------------
(***************************************************************************)
(* What a generated package holds and what its publication has been        *)
(* through, for any mail, scopes and packages, and any number of commits   *)
(* by jobs between the generator's reads.                                  *)
(***************************************************************************)
EXTENDS HandoffContent, FiniteSetTheorems, TLAPS

PkgFields == {"status", "box", "gen"}
ClaimFields == {"kind", "words", "project", "label", "cites", "weak"}

\* Records and tables have their fields and their rows.
Shaped ==
  /\ DOMAIN req = DOMAIN Idle
  /\ DOMAIN pkg = Packages /\ \A p \in Packages : DOMAIN pkg[p] = PkgFields
  /\ DOMAIN scope = Packages /\ DOMAIN claims = Packages /\ DOMAIN evidence = Packages
  /\ DOMAIN basis = Packages
  /\ \A l \in loaded : l[2] \in Packages

\* A message row is there for each citation of an event: rows go only with their events.
EventsBacked ==
  /\ stored \subseteq Universe /\ OneRowPerHeader(stored) /\ events \subseteq Event
  /\ \A e \in events : \A h \in e.cites : \E m \in stored : m.header = h /\ m.box = e.box

\* Until the messages are read: a citation in a thread that was found eligible has been open.
CitesOpen ==
  req.at \in {"people", "mail"} =>
    \A e \in events : e.box = req.box =>
      \A h \in e.cites : \A m \in stored :
        m.header = h /\ ~m.noise /\ m.thread \in req.eligible => h \in clean

\* Once they are: what passed the gates was no noise and is not removed by the creator, and a
\* citation among it has been open.
SafeIsSafe ==
  req.at = "events" =>
    \A h \in req.safe : /\ h \notin scope[req.pkg].xheaders
                        /\ \E m \in Universe : m.header = h /\ ~m.noise
CitesSafe ==
  req.at = "events" =>
    \A e \in events : e.box = req.box => e.cites \cap req.safe \subseteq clean

\* The candidate, before and after its bodies are read.
ClaimsShaped ==
  req.at \in {"snapshot", "labels", "write"} => \A c \in req.claims : DOMAIN c = ClaimFields
ClaimsOpen ==
  req.at = "snapshot" => Cited(req.claims) \subseteq clean \ scope[req.pkg].xheaders
DraftHolds ==
  req.at \in {"labels", "write"} =>
    /\ \A c \in req.claims : c.cites # {} /\ c.cites \subseteq HeadersOf(req.evidence)
    /\ HeadersOf(req.evidence) \subseteq Cited(req.claims) \cap (clean \ scope[req.pkg].xheaders)

Running == req.at \in {"people", "mail", "events", "snapshot", "labels", "write"} => req.pkg \in Packages

RunHolds == Running /\ CitesOpen /\ SafeIsSafe /\ CitesSafe /\ ClaimsShaped /\ ClaimsOpen /\ DraftHolds

ContentInv == Shaped /\ EventsBacked /\ RunHolds /\ PackageHolds

-----------------------------------------------------------------------------
LEMMA IdleHolds ==
  /\ Idle.at = "idle"
  /\ DOMAIN Idle = {"at", "pkg", "seen", "box", "eligible", "emails", "safe", "held", "claims", "evidence",
                    "from", "window", "domains", "carried", "people", "words", "resolved"}
  BY DEF Idle

LEMMA InitHolds == Init => ContentInv
<1> SUFFICES ASSUME Init PROVE ContentInv
  OBVIOUS
<1>1. Shaped BY DEF Init, Shaped, PkgFields
<1>2. stored \subseteq Universe /\ OneRowPerHeader(stored)
  BY ContentConstants DEF Init, OneRowPerHeader
<1>3. EventsBacked
  <2>1. ASSUME NEW e \in events PROVE e \in Event /\ \A h \in e.cites : \E m \in stored : m.header = h /\ m.box = e.box
    <3>1. PICK b \in Boxes : e \in Found(b) BY DEF Init
    <3>2. e \in Extractable /\ e.box = b BY <3>1 DEF Found
    <3>3. PICK t \in Eligible(b) : e.cites \subseteq {m.header : m \in {n \in stored : n.thread = t /\ n.box = b}}
      BY <3>1 DEF Found
    <3> QED BY <3>2, <3>3, ContentConstants
  <2> QED BY <1>2, <2>1 DEF EventsBacked
<1>4. req = Idle BY DEF Init
<1>5. RunHolds
  BY <1>4, IdleHolds DEF RunHolds, Running, CitesOpen, SafeIsSafe, CitesSafe, ClaimsShaped, ClaimsOpen, DraftHolds
<1>6. PackageHolds BY DEF Init, PackageHolds, HeadersOf, Cited
<1> QED BY <1>1, <1>3, <1>5, <1>6 DEF ContentInv

-----------------------------------------------------------------------------
\* What every job does to a run beyond its own rows.
LEMMA CommitHolds ==
  ASSUME ContentInv, Commit, EventsBacked', CitesOpen', CitesSafe'
  PROVE  ContentInv'
<1>1. UNCHANGED <<pkg, scope, claims, evidence, excluded, basis, loaded, req>> BY DEF Commit, rows
<1>2. req.at # "idle" => clean \subseteq clean' BY DEF Commit
<1>3. Shaped' BY <1>1 DEF ContentInv, Shaped
<1>4. Running' /\ SafeIsSafe' /\ ClaimsShaped'
  BY <1>1 DEF ContentInv, RunHolds, Running, SafeIsSafe, ClaimsShaped
<1>5. ClaimsOpen' BY <1>1, <1>2 DEF ContentInv, RunHolds, ClaimsOpen, Cited
<1>6. DraftHolds' BY <1>1, <1>2 DEF ContentInv, RunHolds, DraftHolds, Cited, HeadersOf
<1>7. PackageHolds' BY <1>1 DEF ContentInv, PackageHolds, Cited, HeadersOf
<1> QED BY <1>3, <1>4, <1>5, <1>6, <1>7 DEF ContentInv, RunHolds

\* A citation keeps what holds of it as long as its event and its message stay.
LEMMA OldEvents ==
  ASSUME ContentInv, Commit,
         NEW e \in events, e.box = req.box, NEW h \in e.cites,
         \A m \in stored' : m.header = h => m \in stored
  PROVE  /\ req.at \in {"people", "mail"} =>
              \A m \in stored' : m.header = h /\ ~m.noise /\ m.thread \in req.eligible => h \in clean'
         /\ req.at = "events" => (h \in req.safe => h \in clean')
<1>1. req.at # "idle" => clean \subseteq clean' BY DEF Commit
<1> QED BY <1>1 DEF ContentInv, RunHolds, CitesOpen, CitesSafe

LEMMA IngestHolds == ASSUME ContentInv, Ingest PROVE ContentInv'
<1>1. PICK x \in Universe \ stored : stored' = stored \cup {x} /\ OneRowPerHeader(stored')
  BY DEF Ingest
<1>2. UNCHANGED <<events, req>> /\ Commit BY DEF Ingest, Commit
<1>3. EventsBacked' BY <1>1, <1>2 DEF ContentInv, EventsBacked
<1>4. ASSUME NEW e \in events, NEW h \in e.cites PROVE \A m \in stored' : m.header = h => m \in stored
  BY <1>1, <1>4 DEF ContentInv, EventsBacked, OneRowPerHeader
<1>5. CitesOpen' BY <1>2, <1>4, OldEvents DEF CitesOpen
<1>6. CitesSafe' BY <1>2, <1>4, OldEvents DEF CitesSafe
<1> QED BY <1>2, <1>3, <1>5, <1>6, CommitHolds

LEMMA ReplaceHolds == ASSUME ContentInv, Replace PROVE ContentInv'
<1>0. PICK box \in Boxes : \E ms \in SUBSET {m \in Universe : m.box = box} :
        /\ OneRowPerHeader(ms)
        /\ stored' = {m \in stored : m.box # box} \cup ms
        /\ events' = {e \in events : e.box # box}
  BY DEF Replace
<1>1. PICK ms \in SUBSET {m \in Universe : m.box = box} :
        /\ OneRowPerHeader(ms)
        /\ stored' = {m \in stored : m.box # box} \cup ms
        /\ events' = {e \in events : e.box # box}
  BY <1>0
<1>2. UNCHANGED req /\ Commit BY DEF Replace, Commit
<1>3. stored \subseteq Universe BY DEF ContentInv, EventsBacked
<1>4. OneRowPerHeader(stored')
  BY <1>1, <1>3, ContentConstants DEF ContentInv, EventsBacked, OneRowPerHeader
<1>5. EventsBacked' BY <1>1, <1>3, <1>4 DEF ContentInv, EventsBacked
<1>6. ASSUME NEW e \in events', NEW h \in e.cites PROVE \A m \in stored' : m.header = h => m \in stored
  <2>1. PICK n \in stored : n.header = h /\ n.box = e.box BY <1>1, <1>6 DEF ContentInv, EventsBacked
  <2> QED BY <1>1, <1>3, <1>6, <2>1, ContentConstants
<1>7. events' \subseteq events BY <1>1
<1>8. CitesOpen' BY <1>2, <1>6, <1>7, OldEvents DEF CitesOpen
<1>9. CitesSafe' BY <1>2, <1>6, <1>7, OldEvents DEF CitesSafe
<1> QED BY <1>2, <1>5, <1>8, <1>9, CommitHolds

LEMMA EnrichHolds == ASSUME ContentInv, Enrich PROVE ContentInv'
<1>1. UNCHANGED <<stored, events, req>> /\ Commit BY DEF Enrich, Commit
<1>2. EventsBacked' BY <1>1 DEF ContentInv, EventsBacked
<1>3. CitesOpen' BY <1>1, OldEvents DEF CitesOpen
<1>4. CitesSafe' BY <1>1, OldEvents DEF CitesSafe
<1> QED BY <1>1, <1>2, <1>3, <1>4, CommitHolds

\* Events lose their project at most.
LEMMA MaterializeHolds == ASSUME ContentInv, Materialize PROVE ContentInv'
<1>1. /\ UNCHANGED <<stored, req>> /\ Commit
      /\ events' = {IF e.project = None \/ e.project \in projects' THEN e ELSE [e EXCEPT !.project = None] : e \in events}
  BY DEF Materialize, Commit
<1>2. ASSUME NEW e \in events'
      PROVE  e \in Event /\ \E d \in events : d.cites = e.cites /\ d.box = e.box
  <2>1. PICK d \in events : e = IF d.project = None \/ d.project \in projects' THEN d ELSE [d EXCEPT !.project = None]
    BY <1>1
  <2>2. d \in Event BY DEF ContentInv, EventsBacked
  <2> QED BY <2>1, <2>2 DEF Event
<1>3. EventsBacked' BY <1>1, <1>2 DEF ContentInv, EventsBacked
<1>4. CitesOpen' BY <1>1, <1>2, OldEvents DEF CitesOpen
<1>5. CitesSafe' BY <1>1, <1>2, OldEvents DEF CitesSafe
<1> QED BY <1>1, <1>3, <1>4, <1>5, CommitHolds

\* What extraction cites is open, unless it is noise.
LEMMA ExtractHolds == ASSUME ContentInv, Extract PROVE ContentInv'
<1>0. PICK box \in Boxes : \E es \in SUBSET Found(box) : events' = {e \in events : e.box # box} \cup es
  BY DEF Extract
<1>1. PICK es \in SUBSET Found(box) : events' = {e \in events : e.box # box} \cup es BY <1>0
<1>2. UNCHANGED <<stored, req>> /\ Commit BY DEF Extract, Commit
<1>3. /\ stored \subseteq Universe /\ OneRowPerHeader(stored) BY DEF ContentInv, EventsBacked
<1>4. req.at # "idle" => Open \subseteq clean'
  <2>1. Open' = Open BY <1>2 DEF Open, Eligible
  <2> QED BY <2>1, <1>2 DEF Commit
<1>5. ASSUME NEW e \in es
      PROVE  /\ e \in Event /\ e.box = box
             /\ \A h \in e.cites : \E m \in stored : /\ m.header = h /\ m.box = box
                                                      /\ m.thread \in Eligible(box)
  <2>1. e \in Extractable /\ e.box = box BY <1>5 DEF Found
  <2>2. PICK t \in Eligible(box) : e.cites \subseteq {m.header : m \in {n \in stored : n.thread = t /\ n.box = box}}
    BY <1>5 DEF Found
  <2> QED BY <2>1, <2>2, ContentConstants
<1>6. EventsBacked' BY <1>1, <1>2, <1>5 DEF ContentInv, EventsBacked
<1>7. ASSUME NEW e \in es, NEW h \in e.cites, req.at # "idle"
      PROVE  (\E m \in Universe : m.header = h /\ ~m.noise) => h \in clean'
  <2>1. PICK m \in stored : m.header = h /\ m.box = box /\ m.thread \in Eligible(box) BY <1>5, <1>7
  <2>2. ~m.noise => h \in Open BY <2>1 DEF Open
  <2> QED BY <1>3, <1>4, <1>7, <2>1, <2>2, ContentConstants
<1>8. CitesOpen'
  <2> SUFFICES ASSUME req.at \in {"people", "mail"}, NEW e \in events', e.box = req.box, NEW h \in e.cites,
                      NEW m \in stored, m.header = h, ~m.noise, m.thread \in req.eligible
               PROVE  h \in clean'
    BY <1>2 DEF CitesOpen
  <2>1. CASE e \in es BY <2>1, <1>3, <1>7
  <2>2. CASE e \in events BY <2>2, <1>2, OldEvents
  <2> QED BY <1>1, <2>1, <2>2
<1>9. CitesSafe'
  <2> SUFFICES ASSUME req.at = "events", NEW e \in events', e.box = req.box, NEW h \in e.cites, h \in req.safe
               PROVE  h \in clean'
    BY <1>2 DEF CitesSafe
  <2>1. CASE e \in es
    <3>1. \E m \in Universe : m.header = h /\ ~m.noise BY DEF ContentInv, RunHolds, SafeIsSafe
    <3> QED BY <2>1, <3>1, <1>7
  <2>2. CASE e \in events BY <2>2, <1>2, OldEvents
  <2> QED BY <1>1, <2>1, <2>2
<1> QED BY <1>2, <1>6, <1>8, <1>9, CommitHolds

-----------------------------------------------------------------------------
RunStages == {"people", "mail", "events", "snapshot", "labels", "write"}

\* A step of the handler that runs, which only reads.
LEMMA GoHolds ==
  ASSUME ContentInv, NEW r, Go(r), DOMAIN r = DOMAIN Idle, RunHolds'
  PROVE  ContentInv'
<1>1. req' = r /\ UNCHANGED <<stored, events, pkg, scope, claims, evidence, basis, loaded>>
  BY DEF Go, mail, rows
<1>2. Shaped' BY <1>1 DEF ContentInv, Shaped
<1>3. EventsBacked' BY <1>1 DEF ContentInv, EventsBacked
<1>4. PackageHolds' BY <1>1 DEF ContentInv, PackageHolds, Cited, HeadersOf
<1> QED BY <1>2, <1>3, <1>4 DEF ContentInv

LEMMA OutsideRun ==
  ASSUME req'.at \notin RunStages
  PROVE  RunHolds'
  BY DEF RunStages, RunHolds, Running, CitesOpen, SafeIsSafe, CitesSafe, ClaimsShaped, ClaimsOpen, DraftHolds

\* A step outside a run that leaves the contents of packages alone.
LEMMA ApartHolds ==
  ASSUME ContentInv, UNCHANGED <<stored, events, claims, evidence, basis>>, Shaped', req'.at \notin RunStages
  PROVE  ContentInv'
<1>1. EventsBacked' BY DEF ContentInv, EventsBacked
<1>2. PackageHolds' BY DEF ContentInv, PackageHolds, Cited, HeadersOf
<1> QED BY <1>1, <1>2, OutsideRun DEF ContentInv

LEMMA StartHolds == ASSUME ContentInv, GenerateEligible PROVE ContentInv'
<1>1. PICK l \in loaded :
        /\ req' = [Idle EXCEPT !.at = "people", !.pkg = l[2], !.seen = l[3],
                              !.box = pkg[l[2]].box, !.eligible = Eligible(pkg[l[2]].box)]
        /\ loaded' = loaded \ {l} /\ clean' = Open
  BY DEF GenerateEligible
<1>2. UNCHANGED <<stored, events, pkg, scope, claims, evidence, basis>>
  BY DEF GenerateEligible, mail, rows
<1>3. /\ req'.at = "people" /\ req'.pkg = l[2] /\ req'.box = pkg[l[2]].box
      /\ req'.eligible = Eligible(req'.box) /\ DOMAIN req' = DOMAIN Idle
  BY <1>1, IdleHolds
<1>4. Shaped' BY <1>1, <1>2, <1>3 DEF ContentInv, Shaped
<1>5. EventsBacked' BY <1>2 DEF ContentInv, EventsBacked
<1>6. PackageHolds' BY <1>2 DEF ContentInv, PackageHolds, Cited, HeadersOf
<1>7. Running' BY <1>1, <1>3 DEF Running, ContentInv, Shaped
<1>8. CitesOpen'
  <2> SUFFICES ASSUME NEW e \in events, e.box = req'.box, NEW h \in e.cites, NEW m \in stored,
                      m.header = h, ~m.noise, m.thread \in req'.eligible
               PROVE  h \in clean'
    BY <1>2 DEF CitesOpen
  <2>1. PICK n \in stored : n.header = h /\ n.box = e.box BY DEF ContentInv, EventsBacked
  <2>2. n = m BY <2>1 DEF ContentInv, EventsBacked, OneRowPerHeader
  <2>3. m.header \in Open BY <1>3, <2>1, <2>2 DEF Open
  <2> QED BY <1>1, <2>3
<1> QED
  BY <1>3, <1>4, <1>5, <1>6, <1>7, <1>8
  DEF ContentInv, RunHolds, SafeIsSafe, CitesSafe, ClaimsShaped, ClaimsOpen, DraftHolds

LEMMA PeopleHolds == ASSUME ContentInv, GeneratePeople PROVE ContentInv'
<1> DEFINE r == [To("mail") EXCEPT !.emails = AddressesOf(scope[req.pkg], req.box)]
<1>1. Go(r) /\ req.at = "people" BY DEF GeneratePeople
<1>2. /\ DOMAIN r = DOMAIN Idle /\ r.at = "mail" /\ r.pkg = req.pkg /\ r.box = req.box
      /\ r.eligible = req.eligible
  BY IdleHolds DEF ContentInv, Shaped, To
<1>3. req' = r /\ UNCHANGED <<stored, events, clean>> BY <1>1 DEF Go, mail
<1> HIDE DEF r
<1>4. RunHolds'
  BY <1>1, <1>2, <1>3 DEF ContentInv, RunHolds, Running, CitesOpen, SafeIsSafe, CitesSafe, ClaimsShaped,
    ClaimsOpen, DraftHolds
<1> QED BY <1>1, <1>2, <1>4, GoHolds

LEMMA MailHolds == ASSUME ContentInv, GenerateMail PROVE ContentInv'
<1> DEFINE s == scope[req.pkg]
           kept == Retained(InScope(s, req.box, req.emails), s)
           r == [To("events") EXCEPT !.safe = {m.header : m \in {n \in kept : n.thread \in req.eligible}},
                                     !.held = {m.thread : m \in kept} \ req.eligible]
<1>1. Go(r) /\ req.at = "mail" BY DEF GenerateMail
<1>2. /\ DOMAIN r = DOMAIN Idle /\ r.at = "events" /\ r.pkg = req.pkg /\ r.box = req.box
      /\ r.safe = {m.header : m \in {n \in kept : n.thread \in req.eligible}}
  BY IdleHolds DEF ContentInv, Shaped, To
<1>3. req' = r /\ UNCHANGED <<stored, events, scope, clean>> BY <1>1 DEF Go, mail, rows
<1>4. \A h \in r.safe : /\ h \notin s.xheaders
                         /\ \E m \in stored : m.header = h /\ ~m.noise /\ m.thread \in req.eligible
  BY <1>2 DEF Retained, InScope
<1> HIDE DEF r
<1>5. stored \subseteq Universe BY DEF ContentInv, EventsBacked
<1>6. SafeIsSafe' BY <1>2, <1>3, <1>4, <1>5 DEF SafeIsSafe
<1>7. CitesSafe'
  <2> SUFFICES ASSUME NEW e \in events, e.box = req.box, NEW h \in e.cites, h \in r.safe
               PROVE  h \in clean
    BY <1>2, <1>3 DEF CitesSafe
  <2>1. PICK m \in stored : m.header = h /\ ~m.noise /\ m.thread \in req.eligible BY <1>4
  <2> QED BY <1>1, <2>1 DEF ContentInv, RunHolds, CitesOpen
<1>8. RunHolds'
  BY <1>1, <1>2, <1>3, <1>6, <1>7 DEF ContentInv, RunHolds, Running, CitesOpen, ClaimsShaped, ClaimsOpen, DraftHolds
<1> QED BY <1>1, <1>2, <1>8, GoHolds

LEMMA EventsHolds == ASSUME ContentInv, GenerateEvents PROVE ContentInv'
<1> DEFINE cs == ClaimsFromEvents(scope[req.pkg], req.box, req.safe)
           r == [To("snapshot") EXCEPT !.claims = cs]
<1>1. Go(r) /\ req.at = "events" BY DEF GenerateEvents
<1>2. DOMAIN r = DOMAIN Idle /\ r.at = "snapshot" /\ r.pkg = req.pkg /\ r.claims = cs
  BY IdleHolds DEF ContentInv, Shaped, To
<1>3. req' = r /\ UNCHANGED <<scope, clean>> BY <1>1 DEF Go, rows
<1> HIDE DEF r
<1>4. ASSUME NEW c \in cs
      PROVE  DOMAIN c = ClaimFields /\ c.cites \subseteq clean \ scope[req.pkg].xheaders
  <2>1. PICK e \in events :
          /\ e.box = req.box
          /\ c = [kind |-> Kind(e.type), words |-> e.words, project |-> e.project, label |-> {},
                  cites |-> e.cites \cap req.safe, weak |-> e.weak]
    BY <1>4 DEF ClaimsFromEvents
  <2>2. e.cites \cap req.safe \subseteq clean BY <1>1, <2>1 DEF ContentInv, RunHolds, CitesSafe
  <2>3. \A h \in req.safe : h \notin scope[req.pkg].xheaders BY <1>1 DEF ContentInv, RunHolds, SafeIsSafe
  <2> QED BY <2>1, <2>2, <2>3 DEF ClaimFields
<1> HIDE DEF cs
<1>5. ClaimsShaped' BY <1>2, <1>3, <1>4 DEF ClaimsShaped
<1>6. ClaimsOpen' BY <1>2, <1>3, <1>4 DEF ClaimsOpen, Cited
<1>7. RunHolds'
  BY <1>1, <1>2, <1>3, <1>5, <1>6 DEF ContentInv, RunHolds, Running, CitesOpen, SafeIsSafe, CitesSafe, DraftHolds
<1> QED BY <1>1, <1>2, <1>7, GoHolds

\* The bodies are read of what is still there; claims that cite none of it are dropped.
LEMMA SnapshotHolds == ASSUME ContentInv, GenerateSnapshot PROVE ContentInv'
<1> DEFINE es == Snapshot(req.box, Cited(req.claims))
           cs == Trim(req.claims, es)
           r == [To("labels") EXCEPT !.evidence = es, !.claims = cs]
<1>1. Go(r) /\ req.at = "snapshot" BY DEF GenerateSnapshot
<1>2. DOMAIN r = DOMAIN Idle /\ r.at = "labels" /\ r.pkg = req.pkg /\ r.claims = cs /\ r.evidence = es
  BY IdleHolds DEF ContentInv, Shaped, To
<1>3. req' = r /\ UNCHANGED <<scope, clean>> BY <1>1 DEF Go, rows
<1> HIDE DEF r
<1>4. HeadersOf(es) \subseteq Cited(req.claims) BY DEF HeadersOf, Snapshot
<1> HIDE DEF es
<1>5. \A d \in req.claims : LET t == [d EXCEPT !.cites = @ \cap HeadersOf(es)] IN
         t.cites = d.cites \cap HeadersOf(es) /\ DOMAIN t = ClaimFields
  BY <1>1 DEF ContentInv, RunHolds, ClaimsShaped, ClaimFields
<1>6. \A c \in cs : c.cites # {} /\ c.cites \subseteq HeadersOf(es) /\ DOMAIN c = ClaimFields
  BY <1>5 DEF Trim
<1>7. HeadersOf(es) \subseteq Cited(cs)
  <2> SUFFICES ASSUME NEW h \in HeadersOf(es) PROVE \E c \in cs : h \in c.cites
    BY DEF Cited
  <2>1. PICK d \in req.claims : h \in d.cites BY <1>4 DEF Cited
  <2> DEFINE t == [d EXCEPT !.cites = @ \cap HeadersOf(es)]
  <2>2. t.cites = d.cites \cap HeadersOf(es) BY <1>5
  <2>3. t \in {[x EXCEPT !.cites = @ \cap HeadersOf(es)] : x \in req.claims} OBVIOUS
  <2> HIDE DEF t
  <2>4. t \in cs BY <2>1, <2>2, <2>3 DEF Trim
  <2> QED BY <2>1, <2>2, <2>4
<1>8. Cited(req.claims) \subseteq clean \ scope[req.pkg].xheaders
  BY <1>1 DEF ContentInv, RunHolds, ClaimsOpen
<1> HIDE DEF cs
<1>9. ClaimsShaped' BY <1>2, <1>3, <1>6 DEF ClaimsShaped
<1>10. DraftHolds'
  <2>1. HeadersOf(es) \subseteq Cited(cs) \cap (clean \ scope[req.pkg].xheaders) BY <1>4, <1>7, <1>8
  <2> QED BY <1>2, <1>3, <1>6, <2>1 DEF DraftHolds, HeadersOf, Cited
<1>11. RunHolds'
  BY <1>1, <1>2, <1>3, <1>9, <1>10 DEF ContentInv, RunHolds, Running, CitesOpen, SafeIsSafe, CitesSafe, ClaimsOpen
<1> QED BY <1>1, <1>2, <1>11, GoHolds

LEMMA LabelsHold == ASSUME ContentInv, GenerateLabels PROVE ContentInv'
<1> DEFINE cs == Labelled(req.claims, req.box)
           r == [To("write") EXCEPT !.claims = cs]
<1>1. Go(r) /\ req.at = "labels" BY DEF GenerateLabels
<1>2. /\ DOMAIN r = DOMAIN Idle /\ r.at = "write" /\ r.pkg = req.pkg /\ r.claims = cs
      /\ r.evidence = req.evidence
  BY IdleHolds DEF ContentInv, Shaped, To
<1>3. req' = r /\ UNCHANGED <<scope, clean>> BY <1>1 DEF Go, rows
<1> HIDE DEF r
<1>4. /\ \A c \in cs : DOMAIN c = ClaimFields /\ \E d \in req.claims : c.cites = d.cites
      /\ \A d \in req.claims : \E c \in cs : c.cites = d.cites
  <2>1. ASSUME NEW d \in req.claims, NEW v
        PROVE  DOMAIN [d EXCEPT !.label = v] = ClaimFields /\ [d EXCEPT !.label = v].cites = d.cites
    BY <1>1 DEF ContentInv, RunHolds, ClaimsShaped, ClaimFields
  <2> DEFINE LabelOf(d) == IF d.project = None THEN {} ELSE ProjectLabel(d.project, req.box)
  <2>2. cs = {[d EXCEPT !.label = LabelOf(d)] : d \in req.claims} BY DEF Labelled
  <2> HIDE DEF cs, LabelOf
  <2>3. ASSUME NEW d \in req.claims PROVE \E c \in cs : c.cites = d.cites
    <3>1. [d EXCEPT !.label = LabelOf(d)] \in cs BY <2>2
    <3> QED BY <2>1, <3>1
  <2>4. ASSUME NEW c \in cs PROVE DOMAIN c = ClaimFields /\ \E d \in req.claims : c.cites = d.cites
    <3>1. PICK d \in req.claims : c = [d EXCEPT !.label = LabelOf(d)] BY <2>2
    <3> QED BY <2>1, <3>1
  <2> QED BY <2>3, <2>4
<1>5. Cited(cs) = Cited(req.claims) BY <1>4 DEF Cited
<1> HIDE DEF cs
<1>6. ClaimsShaped' BY <1>2, <1>3, <1>4 DEF ClaimsShaped
<1>7. DraftHolds'
  <2>1. /\ \A c \in cs : c.cites # {} /\ c.cites \subseteq HeadersOf(req.evidence)
        /\ HeadersOf(req.evidence) \subseteq Cited(cs) \cap (clean \ scope[req.pkg].xheaders)
    BY <1>1, <1>4, <1>5 DEF ContentInv, RunHolds, DraftHolds
  <2> QED BY <1>2, <1>3, <2>1 DEF DraftHolds, HeadersOf, Cited
<1>8. RunHolds'
  BY <1>1, <1>2, <1>3, <1>6, <1>7 DEF ContentInv, RunHolds, Running, CitesOpen, SafeIsSafe, CitesSafe, ClaimsOpen
<1> QED BY <1>1, <1>2, <1>8, GoHolds

LEMMA WriteHolds == ASSUME ContentInv, GenerateWrite PROVE ContentInv'
<1>1. PICK p \in Packages : p = req.pkg
  BY DEF GenerateWrite, ContentInv, RunHolds, Running
<1>2. /\ claims' = [claims EXCEPT ![p] = req.claims]
      /\ evidence' = [evidence EXCEPT ![p] = req.evidence]
      /\ basis' = [basis EXCEPT ![p] = clean \ scope[p].xheaders]
      /\ req' = Idle /\ UNCHANGED <<stored, events, scope, loaded>>
  BY <1>1 DEF GenerateWrite, mail
<1>3. \E st : pkg' = [pkg EXCEPT ![p].gen = @ + 1, ![p].status = st] BY <1>1 DEF GenerateWrite
<1>4. DOMAIN pkg' = Packages /\ \A q \in Packages : DOMAIN pkg'[q] = PkgFields
  BY <1>3 DEF ContentInv, Shaped, PkgFields
<1>5. Shaped' BY <1>2, <1>4 DEF ContentInv, Shaped
<1>6. EventsBacked' BY <1>2 DEF ContentInv, EventsBacked
<1>7. RunHolds' BY <1>2, IdleHolds, OutsideRun DEF RunStages
<1>8. PackageHolds'
  <2>1. /\ claims'[p] = req.claims /\ evidence'[p] = req.evidence /\ basis'[p] = clean \ scope[req.pkg].xheaders
        /\ \A q \in Packages : q # p => /\ claims'[q] = claims[q] /\ evidence'[q] = evidence[q]
                                         /\ basis'[q] = basis[q]
    BY <1>1, <1>2 DEF ContentInv, Shaped
  <2>2. /\ \A c \in req.claims : c.cites # {} /\ c.cites \subseteq HeadersOf(req.evidence)
        /\ HeadersOf(req.evidence) \subseteq Cited(req.claims) \cap (clean \ scope[req.pkg].xheaders)
    BY DEF ContentInv, RunHolds, DraftHolds, GenerateWrite
  <2> QED BY <2>1, <2>2 DEF ContentInv, PackageHolds, Cited, HeadersOf
<1> QED BY <1>5, <1>6, <1>7, <1>8 DEF ContentInv

-----------------------------------------------------------------------------
\* The creator's other handlers, and the readers.
LEMMA CreatorHolds ==
  ASSUME ContentInv,
         NEW p \in Packages,
         \/ \E box \in Senders : Create(p, box)
         \/ \E s \in Scopes : UpdateScope(p, s)
         \/ \E op \in {"generate", "publish"} : Load(op, p)
         \/ Review(p) \/ ReadClaims(p)
  PROVE  ContentInv'
<1>1. UNCHANGED <<stored, events, claims, evidence, basis, req>> /\ req.at = "idle"
  BY DEF Create, UpdateScope, Load, Review, ReadClaims, Ready, mail, rows
<1>2. Shaped'
  <2>1. ASSUME NEW box, Create(p, box) PROVE Shaped'
    BY <1>1, <2>1 DEF ContentInv, Shaped, Create, PkgFields
  <2>2. ASSUME NEW s, UpdateScope(p, s) PROVE Shaped'
    BY <1>1, <2>2 DEF ContentInv, Shaped, UpdateScope
  <2>3. ASSUME NEW op, Load(op, p) PROVE Shaped'
    <3>1. loaded' = loaded \cup {<<op, p, pkg[p].status>>} /\ UNCHANGED <<pkg, scope>>
      BY <2>3 DEF Load, rows
    <3>2. \A l \in loaded' : l[2] \in Packages BY <3>1 DEF ContentInv, Shaped
    <3> QED BY <1>1, <3>1, <3>2 DEF ContentInv, Shaped
  <2>4. ASSUME Review(p) \/ ReadClaims(p) PROVE Shaped'
    BY <1>1, <2>4 DEF ContentInv, Shaped, Review, ReadClaims, rows
  <2> QED BY <2>1, <2>2, <2>3, <2>4
<1> QED BY <1>1, <1>2, ApartHolds DEF RunStages

LEMMA PublishHolds == ASSUME ContentInv, Publish PROVE ContentInv'
<1>1. PICK l \in loaded :
        /\ req.at = "idle" /\ loaded' = loaded \ {l}
        /\ \/ pkg' = [pkg EXCEPT ![l[2]].status = "published"]
           \/ UNCHANGED pkg
  BY DEF Publish, Ready
<1>2. UNCHANGED <<stored, events, claims, evidence, basis, req, scope>> BY DEF Publish, mail
<1>3. Shaped' BY <1>1, <1>2 DEF ContentInv, Shaped, PkgFields
<1> QED BY <1>1, <1>2, <1>3, ApartHolds DEF RunStages

LEMMA ReturnStep ==
  ASSUME ContentInv, NEW r, Go(r), DOMAIN r = DOMAIN Idle, r.at \notin RunStages
  PROVE  ContentInv'
<1>1. req'.at \notin RunStages BY DEF Go
<1> QED BY <1>1, OutsideRun, GoHolds

LEMMA CarriesHolds ==
  ASSUME ContentInv, NEW p, NEW original, NEW box, NEW w, ReturnCarries(original, p, box, w)
  PROVE  ContentInv'
<1> DEFINE r == [Idle EXCEPT !.at = "carried_labels", !.pkg = p, !.box = box, !.from = pkg[original].box,
                   !.window = w,
                   !.carried = scope[original].projects \cup ({c.project : c \in claims[original]} \ {None}),
                   !.people = scope[original].people,
                   !.domains = scope[original].domains \cup {Domain[e.sender] : e \in evidence[original]}]
<1>1. Go(r) BY DEF ReturnCarries
<1>2. DOMAIN r = DOMAIN Idle /\ r.at \notin RunStages BY IdleHolds DEF RunStages
<1> HIDE DEF r
<1> QED BY <1>1, <1>2, ReturnStep

LEMMA ReturnHolds ==
  ASSUME ContentInv, ReturnLabels \/ ReturnProjects \/ ReturnEmails \/ ReturnPeople
  PROVE  ContentInv'
<1>1. ASSUME NEW at, at \notin RunStages, NEW v
      PROVE  /\ DOMAIN [To(at) EXCEPT !.words = v] = DOMAIN Idle /\ [To(at) EXCEPT !.words = v].at \notin RunStages
             /\ DOMAIN [To(at) EXCEPT !.resolved = v] = DOMAIN Idle /\ [To(at) EXCEPT !.resolved = v].at \notin RunStages
             /\ DOMAIN [To(at) EXCEPT !.emails = v] = DOMAIN Idle /\ [To(at) EXCEPT !.emails = v].at \notin RunStages
             /\ DOMAIN [To(at) EXCEPT !.people = v] = DOMAIN Idle /\ [To(at) EXCEPT !.people = v].at \notin RunStages
  BY <1>1, IdleHolds DEF To, ContentInv, Shaped
<1>2. {"their_projects", "carried_emails", "their_people", "draft"} \cap RunStages = {} BY DEF RunStages
<1>3. CASE ReturnLabels
  <2>1. PICK v : Go([To("their_projects") EXCEPT !.words = v]) BY <1>3 DEF ReturnLabels
  <2> QED BY <1>1, <1>2, <2>1, ReturnStep
<1>4. CASE ReturnProjects
  <2>1. PICK v : Go([To("carried_emails") EXCEPT !.resolved = v]) BY <1>4 DEF ReturnProjects
  <2> QED BY <1>1, <1>2, <2>1, ReturnStep
<1>5. CASE ReturnEmails
  <2>1. PICK v : Go([To("their_people") EXCEPT !.emails = v]) BY <1>5 DEF ReturnEmails
  <2> QED BY <1>1, <1>2, <2>1, ReturnStep
<1>6. CASE ReturnPeople
  <2>1. PICK v : Go([To("draft") EXCEPT !.people = v]) BY <1>6 DEF ReturnPeople
  <2> QED BY <1>1, <1>2, <2>1, ReturnStep
<1> QED BY <1>3, <1>4, <1>5, <1>6

LEMMA ReturnDraftHolds == ASSUME ContentInv, ReturnDraft PROVE ContentInv'
<1>1. UNCHANGED <<stored, events, claims, evidence, basis, loaded>> /\ req' = Idle
  BY DEF ReturnDraft, mail
<1>2. Shaped' BY <1>1 DEF ContentInv, Shaped, ReturnDraft, PkgFields
<1> QED BY <1>1, <1>2, ApartHolds, IdleHolds DEF RunStages

\* A step that leaves everything of the invariant alone.
LEMMA StillHolds ==
  ASSUME ContentInv, UNCHANGED <<mail, rows, loaded, req, clean>>
  PROVE  ContentInv'
<1>1. UNCHANGED <<stored, events, pkg, scope, claims, evidence, basis>> BY DEF mail, rows
<1>2. Shaped' BY <1>1 DEF ContentInv, Shaped
<1>3. EventsBacked' BY <1>1 DEF ContentInv, EventsBacked
<1>4. PackageHolds' BY <1>1 DEF ContentInv, PackageHolds, Cited, HeadersOf
<1>5. RunHolds'
  BY <1>1 DEF ContentInv, RunHolds, Running, CitesOpen, SafeIsSafe, CitesSafe, ClaimsShaped, ClaimsOpen,
    DraftHolds, Cited, HeadersOf
<1> QED BY <1>2, <1>3, <1>4, <1>5 DEF ContentInv

LEMMA NextHolds == ASSUME ContentInv, [Next]_vars PROVE ContentInv'
<1>1. CASE ReadEvidence \/ Respond \/ UNCHANGED vars
  BY <1>1, StillHolds DEF ReadEvidence, Respond, vars
<1> QED
  BY <1>1, IngestHolds, ReplaceHolds, EnrichHolds, MaterializeHolds, ExtractHolds, CreatorHolds, CarriesHolds, ReturnHolds,
     StartHolds, PeopleHolds, MailHolds, EventsHolds, SnapshotHolds, LabelsHold, WriteHolds, PublishHolds,
     ReturnDraftHolds
  DEF Next

\* No citation, no claim; no evidence that is not cited, was removed by the creator, or was
\* never open to a handoff while the candidate was made: whatever jobs commit between the
\* generator's reads, and however many of them.
THEOREM CandidatesHold == Spec => []PackageHolds
<1>1. ContentInv => PackageHolds BY DEF ContentInv
<1> QED BY <1>1, InitHolds, NextHolds, PTL DEF Spec

-----------------------------------------------------------------------------
-----------------------------------------------------------------------------
\* Answers.  What a recipient is told of claims and evidence that are claims cs and evidence es.
Matches(q, cs, es) ==
  \/ \E c \in cs : Score(q, c.words \cup c.label) > 0
  \/ \E e \in es : Score(q, e.words) > 0
\* cs and es are a package as it was written.
Whole(cs, es) ==
  /\ \A c \in cs : c.cites # {} /\ c.cites \subseteq HeadersOf(es)
  /\ HeadersOf(es) \subseteq Cited(cs)
Told(q, a, cs, es) ==
  /\ a.evidence \subseteq es
  /\ \A c \in a.claims : c.cites # {} /\ c.cites \subseteq HeadersOf(a.evidence)
  /\ a.claims # {} => HeadersOf(a.evidence) \subseteq Cited(a.claims)
  /\ a.answered => Matches(q, cs, es)
  /\ Whole(cs, es) /\ Matches(q, cs, es) => a.answered

LEMMA ScoreCounts ==
  ASSUME NEW q \in Queries, NEW words
  PROVE  Score(q, words) \in Nat /\ (Score(q, words) > 0 <=> q.words \cap words # {})
<1>1. IsFiniteSet(q.words) BY ContentConstants
<1>2. IsFiniteSet(q.words \cap words) BY <1>1, FS_Subset
<1>3. Cardinality(q.words \cap words) \in Nat BY <1>2, FS_CardinalityType
<1>4. Cardinality(q.words \cap words) = 0 <=> q.words \cap words = {} BY <1>2, FS_EmptySet
<1> QED BY <1>3, <1>4 DEF Score

\* Of a list that is not empty, a cap leaves something.
LEMMA CappedIs ==
  ASSUME NEW S, IsFiniteSet(S), NEW n \in Nat \ {0}, NEW T \in SUBSET S,
         Cardinality(T) = Min({n, Cardinality(S)})
  PROVE  S # {} => T # {}
<1>1. Cardinality(S) \in Nat /\ (Cardinality(S) = 0 <=> S = {})
  BY FS_CardinalityType, FS_EmptySet
<1>2. \A k \in Nat : \E x \in {n, k} : \A y \in {n, k} : x <= y
  OBVIOUS
<1>3. Min({n, Cardinality(S)}) \in {n, Cardinality(S)} BY <1>1, <1>2 DEF Min
<1>4. S # {} => Cardinality(T) # 0 BY <1>1, <1>3
<1> QED BY <1>4, FS_EmptySet

LEMMA BackedIs ==
  ASSUME NEW cs, cs \subseteq Claim, NEW es
  PROVE  /\ \A c \in Backed(cs, es) : c.cites # {} /\ c.cites \subseteq HeadersOf(es) /\ c \in Claim
         /\ \A d \in cs : d.cites \cap HeadersOf(es) # {} =>
              \E c \in Backed(cs, es) : c.cites = d.cites \cap HeadersOf(es)
         /\ (\A c \in cs : c.cites # {} /\ c.cites \subseteq HeadersOf(es)) => Backed(cs, es) = cs
<1> DEFINE H == HeadersOf(es)
           Cut(d) == [d EXCEPT !.cites = @ \cap H]
<1>1. ASSUME NEW d \in cs
      PROVE  /\ Cut(d) \in Claim /\ Cut(d).cites = d.cites \cap H
             /\ d.cites \subseteq H => Cut(d) = d
  <2>1. d \in Claim OBVIOUS
  <2> QED BY <2>1 DEF Claim
<1>2. Backed(cs, es) = {c \in {Cut(d) : d \in cs} : c.cites # {}} BY DEF Backed
<1> HIDE DEF Cut
<1>3. \A c \in Backed(cs, es) : \E d \in cs : c = Cut(d) /\ c.cites # {} BY <1>2
<1>4. \A d \in cs : Cut(d).cites # {} => Cut(d) \in Backed(cs, es) BY <1>2
<1>5. ASSUME \A c \in cs : c.cites # {} /\ c.cites \subseteq H PROVE Backed(cs, es) = cs
  <2>1. \A d \in cs : Cut(d) = d BY <1>1, <1>5
  <2> QED BY <1>2, <1>5, <2>1
<1>6. \A c \in Backed(cs, es) : c.cites # {} /\ c.cites \subseteq H /\ c \in Claim BY <1>1, <1>3
<1>7. \A d \in cs : d.cites \cap H # {} => \E c \in Backed(cs, es) : c.cites = d.cites \cap H
  BY <1>1, <1>4
<1> QED BY <1>5, <1>6, <1>7

LEMMA GroundedIs ==
  ASSUME NEW q \in Queries, NEW shaped, IsFiniteSet(shaped), shaped \subseteq Claim, shaped # {},
         NEW es, IsFiniteSet(es), NEW a \in Grounded(q, shaped, es)
  PROVE  /\ a.evidence \subseteq es
         /\ \A c \in a.claims : c.cites # {} /\ c.cites \subseteq HeadersOf(a.evidence)
         /\ a.claims # {} => HeadersOf(a.evidence) \subseteq Cited(a.claims)
         /\ (\A c \in shaped : c.cites # {} /\ c.cites \subseteq HeadersOf(es)) => a.answered
<1> DEFINE Quoted(top) == {e \in es : e.header \in Cited(top)}
<1>1. PICK top \in SUBSET shaped :
        /\ Cardinality(top) = Min({MaxClaims, Cardinality(shaped)})
        /\ a \in {IF chosen = {} THEN Unanswered ELSE Answered(Backed(top, chosen), chosen) :
                    chosen \in Top(Quoted(top), MaxEvidence, LAMBDA x, y : x.day < y.day)}
  BY DEF Grounded, Top
<1>2. PICK chosen \in SUBSET Quoted(top) :
        /\ Cardinality(chosen) = Min({MaxEvidence, Cardinality(Quoted(top))})
        /\ a = IF chosen = {} THEN Unanswered ELSE Answered(Backed(top, chosen), chosen)
  BY <1>1 DEF Top
<1>3. top # {} BY <1>1, CappedIs, ContentConstants
<1>4. IsFiniteSet(Quoted(top)) BY FS_Subset
<1>5. Quoted(top) # {} => chosen # {} BY <1>2, <1>4, CappedIs, ContentConstants
<1>6. CASE chosen = {}
  <2>1. a = Unanswered BY <1>2, <1>6
  <2>2. Quoted(top) = {} BY <1>5, <1>6
  <2>3. ASSUME \A c \in shaped : c.cites # {} /\ c.cites \subseteq HeadersOf(es) PROVE FALSE
    <3>1. PICK c \in top : TRUE BY <1>3
    <3>2. PICK h \in c.cites : h \in HeadersOf(es) BY <2>3
    <3>3. PICK e \in es : e.header = h BY <3>2 DEF HeadersOf
    <3>4. e \in Quoted(top) BY <3>2, <3>3 DEF Cited
    <3> QED BY <2>2, <3>4
  <2> QED BY <2>1, <2>3 DEF Unanswered
<1>7. CASE chosen # {}
  <2>1. a.answered /\ a.claims = Backed(top, chosen) /\ a.evidence = chosen BY <1>2, <1>7 DEF Answered
  <2>2. \A c \in Backed(top, chosen) : c.cites # {} /\ c.cites \subseteq HeadersOf(chosen)
    BY BackedIs
  <2>3. HeadersOf(chosen) \subseteq Cited(Backed(top, chosen))
    <3> SUFFICES ASSUME NEW h \in HeadersOf(chosen) PROVE \E c \in Backed(top, chosen) : h \in c.cites
      BY DEF Cited
    <3>1. PICK d \in top : h \in d.cites BY DEF HeadersOf, Cited
    <3>2. d.cites \cap HeadersOf(chosen) # {} BY <3>1
    <3>3. PICK c \in Backed(top, chosen) : c.cites = d.cites \cap HeadersOf(chosen) BY <3>2, BackedIs
    <3> QED BY <3>1, <3>3
  <2> QED BY <2>1, <2>2, <2>3
<1> QED BY <1>6, <1>7

LEMMA AnswerAboutIs ==
  ASSUME NEW q \in Queries, NEW cs, IsFiniteSet(cs), cs \subseteq Claim, NEW es, IsFiniteSet(es),
         NEW label, label = {} \/ (label \in Named(q, cs)), {} \notin Named(q, cs),
         label = {} => Named(q, cs) = {},
         NEW a \in AnswerAbout(q, label, cs, es)
  PROVE  Told(q, a, cs, es)
<1> DEFINE found  == Candidates(q, cs, label)
           shaped == Shape(IntentName(q), found)
           es0    == Matched(q, es)
<1>1. found \subseteq cs BY DEF Candidates
<1>2. shaped \subseteq found BY DEF Shape
<1>3. label # {} => Matches(q, cs, es)
  <2> SUFFICES ASSUME label \in Named(q, cs) PROVE Matches(q, cs, es)
    OBVIOUS
  <2>1. PICK c \in cs : label = c.label /\ Score(q, label) > 0 BY DEF Named
  <2>2. q.words \cap c.label # {} BY <2>1, ScoreCounts
  <2>3. q.words \cap (c.words \cup c.label) # {} BY <2>2
  <2>4. Score(q, c.words \cup c.label) > 0 BY <2>3, ScoreCounts
  <2> QED BY <2>1, <2>4 DEF Matches
<1>4. found # {} => Matches(q, cs, es) BY <1>3 DEF Candidates, Matches
<1>5. es0 # {} => Matches(q, cs, es) BY DEF Matched, Matches
<1>6. label = {} /\ found = {} /\ es0 = {} => ~Matches(q, cs, es)
  BY DEF Candidates, Matched, Matches
<1>7. CASE label = {} /\ found = {} /\ es0 = {}
  <2>1. a = Unanswered BY <1>7 DEF AnswerAbout
  <2> QED BY <1>6, <1>7, <2>1 DEF Told, Unanswered
<1>8. CASE ~(label = {} /\ found = {} /\ es0 = {}) /\ shaped # {}
  <2>1. a \in Grounded(q, shaped, es) BY <1>8 DEF AnswerAbout
  <2>2. IsFiniteSet(shaped) /\ shaped \subseteq Claim /\ shaped \subseteq cs BY <1>1, <1>2, FS_Subset
  <2>3. Matches(q, cs, es) BY <1>2, <1>4, <1>8
  <2> HIDE DEF shaped
  <2> QED BY <1>8, <2>1, <2>2, <2>3, GroundedIs DEF Told, Whole
<1>9. CASE ~(label = {} /\ found = {} /\ es0 = {}) /\ shaped = {}
  <2>1. Matches(q, cs, es) BY <1>3, <1>4, <1>5, <1>9
  <2>2. a = Answered({}, {}) \/ a \in EvidenceOnly(q, es) BY <1>9 DEF AnswerAbout
  <2>3. a \in EvidenceOnly(q, es) => \E chosen \in SUBSET es : a = Answered({}, chosen)
    BY DEF EvidenceOnly, Top, Matched
  <2>4. PICK chosen \in SUBSET es : a = Answered({}, chosen) BY <2>2, <2>3
  <2> QED BY <2>1, <2>4 DEF Told, Answered
<1> QED BY <1>7, <1>8, <1>9

LEMMA AnswersAre ==
  ASSUME NEW q \in Queries, NEW cs, IsFiniteSet(cs), cs \subseteq Claim, NEW es, IsFiniteSet(es),
         NEW a \in AnswersTo(q, cs, es)
  PROVE  Told(q, a, cs, es)
<1>1. CASE q.words = {}
  <2>1. a = Unanswered BY <1>1 DEF AnswersTo
  <2>2. \A words : ~(Score(q, words) > 0) BY <1>1, ScoreCounts
  <2>3. ~Matches(q, cs, es) BY <2>2 DEF Matches
  <2> QED BY <2>1, <2>3 DEF Told, Unanswered
<1>2. CASE q.words # {}
  <2>1. {} \notin Named(q, cs) BY ScoreCounts DEF Named
  <2>2. PICK l : /\ IF Named(q, cs) = {} THEN l = {} ELSE l \in Named(q, cs)
                 /\ a \in AnswerAbout(q, l, cs, es)
    BY <1>2 DEF AnswersTo
  <2> QED BY <2>1, <2>2, AnswerAboutIs
<1> QED BY <1>1, <1>2

-----------------------------------------------------------------------------
\* The contract of claims cs and evidence es.
LEMMA EntryIs ==
  ASSUME NEW label, NEW cs, cs \subseteq Claim
  PROVE  LET n == Entry(label, cs) IN
         /\ n.refs = Cited(cs) /\ n.decisions \cup n.loops = cs
         /\ Cited(n.decisions \cup n.loops \cup n.blockers \cup n.people) \subseteq n.refs
<1>1. \A c \in cs : c.kind \in {"open_loop", "decision"} BY DEF Claim
<1> QED BY <1>1 DEF Entry, Cited

LEMMA ContractIs ==
  ASSUME NEW cs, cs \subseteq Claim, NEW es
  PROVE  LET contract == Contract(cs, es) IN
         /\ UNION {n.refs : n \in contract} = HeadersOf(es)
         /\ \A n \in contract : Cited(n.decisions \cup n.loops \cup n.blockers \cup n.people) \subseteq n.refs
         /\ Whole(cs, es) => /\ \A n \in contract : n.decisions \cup n.loops # {}
                             /\ UNION {n.decisions \cup n.loops : n \in contract} = cs
<1> DEFINE backed == Backed(cs, es)
           other  == HeadersOf(es) \ Cited(backed)
           Of(l)  == Entry(l, {c \in backed : Group(c) = l})
           labels == {Group(c) : c \in backed}
           rest   == [Entry({"other"}, {}) EXCEPT !.refs = other]
           contract == Contract(cs, es)
<1>1. backed \subseteq Claim /\ \A c \in backed : c.cites \subseteq HeadersOf(es) BY BackedIs
<1>2. contract = {Of(l) : l \in labels} \cup When(other # {}, rest) BY DEF Contract
<1>3. \A l : /\ Of(l).refs = Cited({c \in backed : Group(c) = l})
             /\ Of(l).decisions \cup Of(l).loops = {c \in backed : Group(c) = l}
             /\ Cited(Of(l).decisions \cup Of(l).loops \cup Of(l).blockers \cup Of(l).people) \subseteq Of(l).refs
  BY <1>1, EntryIs
<1>4. /\ rest.refs = other /\ rest.decisions = {} /\ rest.loops = {} /\ rest.blockers = {} /\ rest.people = {}
  BY DEF Entry
<1>5. Whole(cs, es) => backed = cs /\ other = {}
  BY BackedIs DEF Whole
<1>6. Cited(backed) \subseteq HeadersOf(es) BY <1>1 DEF Cited
<1> HIDE DEF Of, backed, rest
<1>7. \A n \in contract : (\E l \in labels : n = Of(l)) \/ (other # {} /\ n = rest)
  BY <1>2 DEF When
<1>8. (\A l \in labels : Of(l) \in contract) /\ (other # {} => rest \in contract)
  BY <1>2 DEF When
<1> HIDE DEF contract, other
<1>9. UNION {n.refs : n \in contract} = HeadersOf(es)
  <2>1. ASSUME NEW n \in contract PROVE n.refs \subseteq HeadersOf(es)
    <3>1. CASE \E l \in labels : n = Of(l) BY <1>3, <1>6, <3>1 DEF Cited
    <3>2. CASE n = rest BY <1>4, <3>2 DEF other
    <3> QED BY <1>7, <3>1, <3>2
  <2>2. ASSUME NEW h \in HeadersOf(es) PROVE \E n \in contract : h \in n.refs
    <3>1. CASE h \in Cited(backed)
      <4>1. PICK c \in backed : h \in c.cites BY <3>1 DEF Cited
      <4>2. h \in Of(Group(c)).refs BY <1>3, <4>1 DEF Cited
      <4> QED BY <1>8, <4>1, <4>2
    <3>2. CASE h \notin Cited(backed) BY <1>4, <1>8, <3>2 DEF other
    <3> QED BY <3>1, <3>2
  <2> QED BY <2>1, <2>2
<1>10. \A n \in contract : Cited(n.decisions \cup n.loops \cup n.blockers \cup n.people) \subseteq n.refs
  <2>1. Cited(rest.decisions \cup rest.loops \cup rest.blockers \cup rest.people) \subseteq rest.refs
    BY <1>4 DEF Cited
  <2> QED BY <1>3, <1>7, <2>1
<1>11. ASSUME Whole(cs, es)
       PROVE  /\ \A n \in contract : n.decisions \cup n.loops # {}
              /\ UNION {n.decisions \cup n.loops : n \in contract} = cs
  <2>1. \A n \in contract : \E l \in labels : n = Of(l) BY <1>5, <1>7, <1>11
  <2>2. \A l \in labels : Of(l).decisions \cup Of(l).loops # {} BY <1>3
  <2>3. UNION {n.decisions \cup n.loops : n \in contract} \subseteq backed BY <1>3, <2>1
  <2>4. ASSUME NEW c \in backed PROVE \E n \in contract : c \in n.decisions \cup n.loops
    <3>1. c \in Of(Group(c)).decisions \cup Of(Group(c)).loops BY <1>3
    <3> QED BY <1>8, <3>1
  <2> QED BY <1>5, <1>11, <2>1, <2>2, <2>3, <2>4
<1> QED BY <1>9, <1>10, <1>11 DEF contract

LEMMA SectionsHoldAll == ASSUME NEW cs PROVE UNION {s.points : s \in Sections(cs)} = cs
<1>1. \A s \in Sections(cs) : s.points \subseteq cs BY DEF Sections
<1>2. ASSUME NEW c \in cs PROVE \E s \in Sections(cs) : c \in s.points
  <2> DEFINE s == [kind |-> c.kind, points |-> {d \in cs : d.kind = c.kind}]
  <2>1. s \in Sections(cs) BY DEF Sections
  <2> QED BY <2>1
<1> QED BY <1>1, <1>2

\* The window's query has no gate that generation has not.
LEMMA DiagnosisHolds == DiagnosticHolds
<1> SUFFICES ASSUME NEW p \in Packages, Diagnostic(scope[p], pkg[p].box) # "all_events_excluded_by_policy"
             PROVE  ClaimsFromEvents(scope[p], pkg[p].box, {m.header : m \in Again(p)}) = {}
  BY DEF DiagnosticHolds
<1> DEFINE s == scope[p]
           box == pkg[p].box
           safe == {m.header : m \in Again(p)}
           mine == {e \in events : e.box = box}
<1>1. \/ mine = {}
      \/ WindowHeaders(s, box, UNION {e.cites : e \in mine}) = {}
  BY DEF Diagnostic
<1>2. ASSUME NEW e \in events, e.box = box, NEW h \in e.cites \cap safe PROVE FALSE
  <2>1. PICK m \in Again(p) : m.header = h BY <1>2
  <2>2. /\ m \in stored /\ m.box = box /\ Within(m, s) /\ Selected(m, s)
        /\ Concerns(m, s, AddressesOf(s, box))
    BY <2>1 DEF Again, Retained, InScope
  <2>3. h \in UNION {d.cites : d \in mine} BY <1>2
  <2>4. h \in WindowHeaders(s, box, UNION {d.cites : d \in mine})
    BY <2>1, <2>2, <2>3 DEF WindowHeaders
  <2> QED BY <1>1, <1>2, <2>4
<1>3. {f \in events : /\ f.box = box /\ f.cites \cap safe # {}
                      /\ s.projects = {} \/ f.project = None \/ f.project \in s.projects} = {}
  BY <1>2
<1> HIDE DEF safe, box
<1> QED BY <1>3 DEF ClaimsFromEvents, s, box, safe

-----------------------------------------------------------------------------
\* Types, and what a recipient's handler has read.
EventsTyped == IsFiniteSet(events) /\ \A e \in events : e.project = None \/ ProjectBox[e.project] = e.box
DraftTyped ==
  /\ req.claims \subseteq Claim /\ IsFiniteSet(req.claims)
  /\ req.evidence \subseteq Evidence /\ IsFiniteSet(req.evidence) /\ OneRowPerHeader(req.evidence)
SeedTyped ==
  /\ req.box \in Boxes \cup {None} /\ req.window \in Int \X Int
  /\ req.resolved \subseteq Projects /\ req.people \subseteq Persons /\ req.domains \subseteq Domains
MayGenerate == req.at \in RunStages => Cardinality(Generations) < MaxGen
RowsFinite == \A p \in Packages : IsFiniteSet(claims[p]) /\ IsFiniteSet(evidence[p])

\* What is shown was written together, if the two reads saw one generation.
ViewRead == view.at = "evidence" =>
  /\ view.pkg \in Packages /\ pkg[view.pkg].status # "absent" /\ view.gen \in Nat /\ view.gen <= pkg[view.pkg].gen
  /\ view.gen = pkg[view.pkg].gen => view.claims = claims[view.pkg]
ViewShown == view.at = "shown" =>
  IsFiniteSet(view.evidence) /\ (view.whole => Whole(view.claims, view.evidence))
ViewHolds ==
  /\ view.at \in {"idle", "evidence", "shown"} /\ view.claims \subseteq Claim /\ IsFiniteSet(view.claims)
  /\ DOMAIN view = DOMAIN NoView
  /\ ViewRead /\ ViewShown

RunTyped == DraftTyped /\ SeedTyped /\ MayGenerate
TypesInv == TypeOK /\ EventsTyped /\ RunTyped /\ RowsFinite /\ ViewHolds

LEMMA AddressesArePersons == ASSUME NEW ms, ms \subseteq Universe PROVE Addresses(ms) \subseteq Persons
  BY ContentConstants DEF Addresses, Persons

LEMMA UniverseFields ==
  /\ \A m \in Universe : m.header \in Headers /\ m.thread \in Threads /\ m.words \subseteq Words
  /\ \A e \in Extractable : e.words \subseteq Words
  /\ \A r \in Projects : Label[r] \subseteq Words
  BY DEF Headers, Threads, Words

LEMMA FiniteImage == ASSUME NEW S, IsFiniteSet(S), NEW f, DOMAIN f = S PROVE IsFiniteSet({f[x] : x \in S})
<1> DEFINE g == [x \in S |-> f[x]]
           T == {f[x] : x \in S}
<1>1. g \in Surjection(S, T) BY DEF Surjection
<1> QED BY <1>1, FS_Surjection

LEMMA FoundIs ==
  ASSUME NEW box
  PROVE  Found(box) \subseteq Extractable
         /\ \A e \in Found(box) : e.box = box /\ e.project \in projects \cup {None}
  BY DEF Found

LEMMA GenerationsCount ==
  ASSUME TypeOK, Cardinality(Generations) < MaxGen, NEW p \in Packages
  PROVE  pkg[p].gen < MaxGen
<1> SUFFICES ASSUME pkg[p].gen = MaxGen PROVE FALSE
  BY ContentConstants DEF TypeOK
<1> DEFINE mine == {p} \X (1..MaxGen)
<1>1. IsFiniteSet(1..MaxGen) /\ Cardinality(1..MaxGen) = MaxGen
  <2>1. MaxGen \in Nat /\ MaxGen \in Int /\ 1 \in Int BY ContentConstants
  <2>2. IsFiniteSet(1..MaxGen) /\ Cardinality(1..MaxGen) = IF 1 > MaxGen THEN 0 ELSE MaxGen - 1 + 1
    BY <2>1, FS_Interval
  <2> QED BY <2>1, <2>2
<1>2. IsFiniteSet({p}) /\ Cardinality({p}) = 1 BY FS_Singleton
<1>3. Cardinality(mine) = 1 * MaxGen BY <1>1, <1>2, FS_Product
<1>4. IsFiniteSet(Packages \X (1..MaxGen)) BY <1>1, ContentConstants, FS_Product
<1>5. Generations \subseteq Packages \X (1..MaxGen) BY DEF Generations
<1>6. IsFiniteSet(Generations) BY <1>4, <1>5, FS_Subset
<1>7. mine \subseteq Generations BY ContentConstants DEF Generations
<1>8. Cardinality(mine) <= Cardinality(Generations) BY <1>6, <1>7, FS_Subset
<1>9. Cardinality(Generations) \in Nat BY <1>6, FS_CardinalityType
<1> QED BY <1>3, <1>8, <1>9, ContentConstants

LEMMA InitTypes == Init => TypesInv
<1> SUFFICES ASSUME Init PROVE TypesInv
  OBVIOUS
<1>1. stored \subseteq Universe /\ OneRowPerHeader(stored) /\ known \subseteq Persons /\ projects \subseteq Projects
  BY ContentConstants, AddressesArePersons DEF Init, OneRowPerHeader
<1>2. assigned \subseteq Threads \X projects
  <2>1. PICK f \in [Boxes -> SUBSET (Threads \X projects)] : assigned = UNION {f[b] : b \in Boxes} BY DEF Init
  <2> QED BY <2>1
<1>3. events \subseteq Extractable /\ \A e \in events : e.project \in projects \cup {None}
  BY FoundIs DEF Init
<1>4. EventsTyped BY <1>3, ContentConstants, FS_Subset DEF EventsTyped
<1>5. Unfiltered(CHOOSE w \in Windows : TRUE) \in Scope
  <2>1. (CHOOSE w \in Windows : TRUE) \in Int \X Int BY ContentConstants
  <2> QED BY <2>1 DEF Unfiltered, Scope
<1>6. \A p \in Packages :
        /\ pkg[p].status = "absent" /\ pkg[p].box = None /\ pkg[p].gen = 0
        /\ scope[p] \in Scope /\ claims[p] = {} /\ evidence[p] = {}
  BY <1>5 DEF Init
<1>7. TypeOK BY <1>1, <1>2, <1>3, <1>6, ContentConstants DEF Init, TypeOK, Statuses, OneRowPerHeader
<1>8. req = Idle /\ view = NoView BY DEF Init
<1>9. IsFiniteSet({}) BY FS_EmptySet
<1>10. RunTyped BY <1>8, <1>9 DEF RunTyped, DraftTyped, SeedTyped, MayGenerate, RunStages, Idle, OneRowPerHeader
<1>11. ViewHolds BY <1>8, <1>9 DEF ViewHolds, ViewRead, ViewShown, NoView
<1> QED BY <1>4, <1>6, <1>7, <1>9, <1>10, <1>11 DEF TypesInv, RowsFinite

\* A step that leaves rows of packages, the run and the view alone.
LEMMA CommitTypes ==
  ASSUME TypesInv, Commit, EventsTyped',
         stored' \subseteq Universe, OneRowPerHeader(stored'), known' \subseteq Persons,
         projects' \subseteq Projects, assigned' \subseteq Threads \X projects',
         \A e \in events' : e.project \in projects' \cup {None}
  PROVE  TypesInv'
<1>1. /\ UNCHANGED <<pkg, scope, claims, evidence, req, view>>
      /\ writes' = writes + 1 /\ writes < MaxWrites
  BY DEF Commit, rows
<1>2. TypeOK' BY <1>1, ContentConstants DEF TypesInv, TypeOK, OneRowPerHeader
<1>3. RunTyped' BY <1>1 DEF TypesInv, RunTyped, DraftTyped, SeedTyped, MayGenerate, Generations, OneRowPerHeader
<1>4. RowsFinite' BY <1>1 DEF TypesInv, RowsFinite
<1>5. ViewHolds' BY <1>1 DEF TypesInv, ViewHolds, ViewRead, ViewShown, Whole, HeadersOf, Cited
<1> QED BY <1>2, <1>3, <1>4, <1>5 DEF TypesInv

LEMMA JobsType ==
  ASSUME ContentInv, TypesInv, Ingest \/ Replace \/ Enrich \/ Materialize \/ Extract
  PROVE  TypesInv'
<1>1. /\ stored \subseteq Universe /\ OneRowPerHeader(stored) /\ known \subseteq Persons
      /\ projects \subseteq Projects /\ assigned \subseteq Threads \X projects
      /\ \A e \in events : e.project \in projects \cup {None}
      /\ IsFiniteSet(events) /\ \A e \in events : e.project = None \/ ProjectBox[e.project] = e.box
  BY DEF TypesInv, TypeOK, EventsTyped
<1>2. CASE Ingest
  <2>1. Commit /\ UNCHANGED <<known, projects, assigned, events>> BY <1>2 DEF Ingest
  <2>2. stored' \subseteq Universe /\ OneRowPerHeader(stored') BY <1>1, <1>2 DEF Ingest
  <2>3. EventsTyped' BY <1>1, <2>1 DEF EventsTyped
  <2> QED BY <1>1, <2>1, <2>2, <2>3, CommitTypes
<1>3. CASE Replace
  <2>0. PICK box \in Boxes : \E ms \in SUBSET {m \in Universe : m.box = box} :
          /\ OneRowPerHeader(ms)
          /\ stored' = {m \in stored : m.box # box} \cup ms
          /\ known' = {k \in known : k[1] # box}
          /\ projects' = {r \in projects : ProjectBox[r] # box}
          /\ assigned' = {a \in assigned : ProjectBox[a[2]] # box}
          /\ events' = {e \in events : e.box # box}
          /\ Commit
    BY <1>3 DEF Replace
  <2>1. PICK ms \in SUBSET {m \in Universe : m.box = box} :
          /\ OneRowPerHeader(ms)
          /\ stored' = {m \in stored : m.box # box} \cup ms
          /\ known' = {k \in known : k[1] # box}
          /\ projects' = {r \in projects : ProjectBox[r] # box}
          /\ assigned' = {a \in assigned : ProjectBox[a[2]] # box}
          /\ events' = {e \in events : e.box # box}
          /\ Commit
    BY <2>0
  <2>2. stored' \subseteq Universe /\ known' \subseteq Persons /\ projects' \subseteq Projects
        /\ assigned' \subseteq Threads \X projects'
    BY <1>1, <2>1
  <2>3. OneRowPerHeader(stored')
    BY <1>1, <2>1, ContentConstants DEF OneRowPerHeader
  <2>4. \A e \in events' : e.project \in projects' \cup {None} BY <1>1, <2>1
  <2>5. events' \subseteq events BY <2>1
  <2>6. EventsTyped' BY <1>1, <2>5, FS_Subset DEF EventsTyped
  <2> QED BY <2>1, <2>2, <2>3, <2>4, <2>6, CommitTypes
<1>4. CASE Enrich
  <2>1. PICK box \in Boxes : /\ known' = known \cup Addresses({m \in stored : m.box = box})
                             /\ UNCHANGED <<stored, projects, assigned, events>> /\ Commit
    BY <1>4 DEF Enrich
  <2>2. {m \in stored : m.box = box} \subseteq Universe BY <1>1
  <2>3. known' \subseteq Persons BY <1>1, <2>1, <2>2, AddressesArePersons
  <2>4. EventsTyped' BY <1>1, <2>1 DEF EventsTyped
  <2> QED BY <1>1, <2>1, <2>3, <2>4, CommitTypes
<1>5. CASE Materialize
  <2>0. PICK box \in Boxes : \E ps \in SUBSET {r \in Projects : ProjectBox[r] = box} : \E as \in Assignments(ps, box) :
            /\ projects' = {r \in projects : ProjectBox[r] # box} \cup ps
            /\ assigned' = {a \in assigned : ProjectBox[a[2]] # box} \cup as
            /\ events' = {IF e.project = None \/ e.project \in projects' THEN e ELSE [e EXCEPT !.project = None] : e \in events}
            /\ UNCHANGED <<stored, known>>
            /\ Commit
    BY <1>5 DEF Materialize
  <2>1. PICK ps \in SUBSET {r \in Projects : ProjectBox[r] = box} :
          \E as \in Assignments(ps, box) :
            /\ projects' = {r \in projects : ProjectBox[r] # box} \cup ps
            /\ assigned' = {a \in assigned : ProjectBox[a[2]] # box} \cup as
            /\ events' = {IF e.project = None \/ e.project \in projects' THEN e ELSE [e EXCEPT !.project = None] : e \in events}
            /\ UNCHANGED <<stored, known>>
            /\ Commit
    BY <2>0
  <2>2. PICK as \in Assignments(ps, box) :
            /\ projects' = {r \in projects : ProjectBox[r] # box} \cup ps
            /\ assigned' = {a \in assigned : ProjectBox[a[2]] # box} \cup as
            /\ events' = {IF e.project = None \/ e.project \in projects' THEN e ELSE [e EXCEPT !.project = None] : e \in events}
            /\ UNCHANGED <<stored, known>>
            /\ Commit
    BY <2>1
  <2>3. as \subseteq Threads \X ps BY DEF Assignments, Eligible
  <2>4. projects' \subseteq Projects BY <1>1, <2>2
  <2>5. assigned' \subseteq Threads \X projects' BY <1>1, <2>2, <2>3
  <2> DEFINE f == [e \in events |-> IF e.project = None \/ e.project \in projects' THEN e ELSE [e EXCEPT !.project = None]]
  <2>6. events' = {f[e] : e \in events} BY <2>2
  <2>7. ASSUME NEW e \in events
        PROVE  f[e].project \in projects' \cup {None} /\ (f[e].project = None \/ ProjectBox[f[e].project] = f[e].box)
    <3>1. e \in Event BY DEF ContentInv, EventsBacked
    <3>2. CASE e.project = None \/ e.project \in projects' BY <1>1, <3>2
    <3>3. CASE ~(e.project = None \/ e.project \in projects')
      <4>1. f[e] = [e EXCEPT !.project = None] BY <3>3
      <4>2. f[e].project = None BY <3>1, <4>1 DEF Event
      <4> QED BY <4>2
    <3> QED BY <3>2, <3>3
  <2>8. DOMAIN f = events OBVIOUS
  <2> HIDE DEF f
  <2>9. IsFiniteSet(events') BY <1>1, <2>6, <2>8, FiniteImage
  <2>10. EventsTyped' /\ \A e \in events' : e.project \in projects' \cup {None}
    BY <2>6, <2>7, <2>9 DEF EventsTyped
  <2> QED BY <1>1, <2>2, <2>4, <2>5, <2>10, CommitTypes
<1>6. CASE Extract
  <2>0. PICK box \in Boxes : \E es \in SUBSET Found(box) :
          /\ events' = {e \in events : e.box # box} \cup es
          /\ UNCHANGED <<stored, known, projects, assigned>> /\ Commit
    BY <1>6 DEF Extract
  <2>1. PICK es \in SUBSET Found(box) :
          /\ events' = {e \in events : e.box # box} \cup es
          /\ UNCHANGED <<stored, known, projects, assigned>> /\ Commit
    BY <2>0
  <2>2. es \subseteq Extractable /\ \A e \in es : e.project \in projects \cup {None} BY FoundIs
  <2>3. IsFiniteSet(es) /\ IsFiniteSet({e \in events : e.box # box}) BY <1>1, <2>2, ContentConstants, FS_Subset
  <2>4. IsFiniteSet(events') BY <2>1, <2>3, FS_Union
  <2>5. EventsTyped' BY <1>1, <2>1, <2>2, <2>4, ContentConstants DEF EventsTyped
  <2>6. \A e \in events' : e.project \in projects' \cup {None} BY <1>1, <2>1, <2>2
  <2> QED BY <1>1, <2>1, <2>5, <2>6, CommitTypes
<1> QED BY <1>2, <1>3, <1>4, <1>5, <1>6

-----------------------------------------------------------------------------
\* A step of a handler that only reads.
LEMMA GoTypes ==
  ASSUME TypesInv, NEW r, Go(r), RunTyped'
  PROVE  TypesInv'
<1>1. UNCHANGED <<stored, known, projects, assigned, events, pkg, scope, claims, evidence, view, writes>>
  BY DEF Go, mail, rows
<1>2. TypeOK' BY <1>1 DEF TypesInv, TypeOK, OneRowPerHeader
<1>3. EventsTyped' /\ RowsFinite' BY <1>1 DEF TypesInv, EventsTyped, RowsFinite
<1>4. ViewHolds' BY <1>1 DEF TypesInv, ViewHolds, ViewRead, ViewShown, Whole, HeadersOf, Cited
<1> QED BY <1>2, <1>3, <1>4 DEF TypesInv

\* The reads of the generator, one by one: what they do to the candidate.
LEMMA ReadTypes ==
  ASSUME ContentInv, TypesInv, NEW r, Go(r), req.at \in RunStages,
         r.box = req.box, r.window = req.window, r.resolved = req.resolved, r.people = req.people /\ r.domains = req.domains,
         r.claims \subseteq Claim, IsFiniteSet(r.claims),
         r.evidence \subseteq Evidence, IsFiniteSet(r.evidence), OneRowPerHeader(r.evidence)
  PROVE  TypesInv'
<1>1. req' = r /\ UNCHANGED pkg BY DEF Go, rows
<1>2. SeedTyped' BY <1>1 DEF TypesInv, RunTyped, SeedTyped
<1>3. DraftTyped' BY <1>1 DEF DraftTyped, OneRowPerHeader
<1>4. MayGenerate' BY <1>1 DEF TypesInv, RunTyped, MayGenerate, Generations
<1> QED BY <1>2, <1>3, <1>4, GoTypes DEF RunTyped

LEMMA StartTypes == ASSUME ContentInv, TypesInv, GenerateEligible PROVE TypesInv'
<1>1. PICK l \in loaded :
        /\ Cardinality(Generations) < MaxGen
        /\ req' = [Idle EXCEPT !.at = "people", !.pkg = l[2], !.seen = l[3],
                              !.box = pkg[l[2]].box, !.eligible = Eligible(pkg[l[2]].box)]
  BY DEF GenerateEligible
<1>2. UNCHANGED <<stored, known, projects, assigned, events, pkg, scope, claims, evidence, view, writes>>
  BY DEF GenerateEligible, mail, rows
<1>3. /\ req'.box = pkg[l[2]].box /\ req'.claims = {} /\ req'.evidence = {} /\ req'.window = <<0, 0>>
      /\ req'.resolved = {} /\ req'.people = {} /\ req'.domains = {}
  BY <1>1 DEF Idle
<1>4. pkg[l[2]].box \in Boxes \cup {None} BY DEF ContentInv, Shaped, TypesInv, TypeOK
<1>5. IsFiniteSet({}) BY FS_EmptySet
<1>6. RunTyped'
  <2>1. Generations' = Generations BY <1>2 DEF Generations
  <2>2. MayGenerate' BY <1>1, <2>1 DEF MayGenerate
  <2>3. SeedTyped' BY <1>2, <1>3, <1>4 DEF SeedTyped
  <2>4. DraftTyped' BY <1>3, <1>5 DEF DraftTyped, OneRowPerHeader
  <2> QED BY <2>2, <2>3, <2>4 DEF RunTyped
<1>7. TypeOK' BY <1>2 DEF TypesInv, TypeOK, OneRowPerHeader
<1>8. EventsTyped' /\ RowsFinite' BY <1>2 DEF TypesInv, EventsTyped, RowsFinite
<1>9. ViewHolds' BY <1>2 DEF TypesInv, ViewHolds, ViewRead, ViewShown, Whole, HeadersOf, Cited
<1> QED BY <1>6, <1>7, <1>8, <1>9 DEF TypesInv

LEMMA PeopleTypes == ASSUME ContentInv, TypesInv, GeneratePeople PROVE TypesInv'
<1> DEFINE r == [To("mail") EXCEPT !.emails = AddressesOf(scope[req.pkg], req.box)]
<1>1. Go(r) /\ req.at \in RunStages BY DEF GeneratePeople, RunStages
<1>2. /\ r.box = req.box /\ r.window = req.window /\ r.resolved = req.resolved /\ r.people = req.people /\ r.domains = req.domains
      /\ r.claims = req.claims /\ r.evidence = req.evidence
  BY IdleHolds DEF ContentInv, Shaped, To
<1> HIDE DEF r
<1> QED BY <1>1, <1>2, ReadTypes DEF TypesInv, RunTyped, DraftTyped

LEMMA MailTypes == ASSUME ContentInv, TypesInv, GenerateMail PROVE TypesInv'
<1> DEFINE kept == Retained(InScope(scope[req.pkg], req.box, req.emails), scope[req.pkg])
           r == [To("events") EXCEPT !.safe = {m.header : m \in {n \in kept : n.thread \in req.eligible}},
                                     !.held = {m.thread : m \in kept} \ req.eligible]
<1>1. Go(r) /\ req.at \in RunStages BY DEF GenerateMail, RunStages
<1>2. /\ r.box = req.box /\ r.window = req.window /\ r.resolved = req.resolved /\ r.people = req.people /\ r.domains = req.domains
      /\ r.claims = req.claims /\ r.evidence = req.evidence
  BY IdleHolds DEF ContentInv, Shaped, To
<1> HIDE DEF r
<1> QED BY <1>1, <1>2, ReadTypes DEF TypesInv, RunTyped, DraftTyped

LEMMA ClaimsFromEventsAre ==
  ASSUME ContentInv, TypesInv, NEW s, NEW box, NEW safe
  PROVE  ClaimsFromEvents(s, box, safe) \subseteq Claim /\ IsFiniteSet(ClaimsFromEvents(s, box, safe))
<1> DEFINE from == {f \in events : /\ f.box = box /\ f.cites \cap safe # {}
                                   /\ s.projects = {} \/ f.project = None \/ f.project \in s.projects}
           f == [e \in from |-> [kind |-> Kind(e.type), words |-> e.words, project |-> e.project, label |-> {},
                                 cites |-> e.cites \cap safe, weak |-> e.weak]]
<1>1. ClaimsFromEvents(s, box, safe) = {f[e] : e \in from} BY DEF ClaimsFromEvents
<1>2. IsFiniteSet(from) BY FS_Subset DEF TypesInv, EventsTyped
<1>3. ASSUME NEW e \in from PROVE f[e] \in Claim
  <2>1. e \in Event BY DEF ContentInv, EventsBacked
  <2> QED BY <2>1 DEF Event, Claim, Kind
<1>4. DOMAIN f = from OBVIOUS
<1> HIDE DEF from, f
<1> QED BY <1>1, <1>2, <1>3, <1>4, FiniteImage

LEMMA EventsType == ASSUME ContentInv, TypesInv, GenerateEvents PROVE TypesInv'
<1> DEFINE cs == ClaimsFromEvents(scope[req.pkg], req.box, req.safe)
           r == [To("snapshot") EXCEPT !.claims = cs]
<1>1. Go(r) /\ req.at \in RunStages BY DEF GenerateEvents, RunStages
<1>2. /\ r.box = req.box /\ r.window = req.window /\ r.resolved = req.resolved /\ r.people = req.people /\ r.domains = req.domains
      /\ r.claims = cs /\ r.evidence = req.evidence
  BY IdleHolds DEF ContentInv, Shaped, To
<1>3. cs \subseteq Claim /\ IsFiniteSet(cs) BY ClaimsFromEventsAre
<1> HIDE DEF r, cs
<1> QED BY <1>1, <1>2, <1>3, ReadTypes DEF TypesInv, RunTyped, DraftTyped

LEMMA SnapshotIs ==
  ASSUME TypesInv, NEW box, NEW headers
  PROVE  LET es == Snapshot(box, headers) IN es \subseteq Evidence /\ IsFiniteSet(es) /\ OneRowPerHeader(es)
<1> DEFINE es == Snapshot(box, headers)
           from == {n \in stored : n.box = box /\ n.header \in headers}
           f == [m \in from |-> [header |-> m.header, words |-> m.words, sender |-> m.sender, day |-> m.day]]
<1>1. es = {f[m] : m \in from} BY DEF Snapshot
<1>2. stored \subseteq Universe /\ OneRowPerHeader(stored) BY DEF TypesInv, TypeOK
<1>3. IsFiniteSet(from)
  <2>1. from \subseteq Universe BY <1>2
  <2> QED BY <2>1, ContentConstants, FS_Subset
<1>4. ASSUME NEW m \in from PROVE f[m] \in Evidence /\ f[m].header = m.header
  BY <1>2, UniverseFields, ContentConstants DEF Evidence
<1>5. DOMAIN f = from /\ \A m, n \in from : m.header = n.header => m = n
  BY <1>2 DEF OneRowPerHeader
<1> HIDE DEF from, f
<1>6. IsFiniteSet(es) BY <1>1, <1>3, <1>5, FiniteImage
<1>7. es \subseteq Evidence BY <1>1, <1>4
<1>8. OneRowPerHeader(es) BY <1>1, <1>4, <1>5 DEF OneRowPerHeader
<1> QED BY <1>6, <1>7, <1>8

LEMMA TrimIs ==
  ASSUME NEW cs, cs \subseteq Claim, IsFiniteSet(cs), NEW es
  PROVE  Trim(cs, es) \subseteq Claim /\ IsFiniteSet(Trim(cs, es))
<1> DEFINE f == [d \in cs |-> [d EXCEPT !.cites = @ \cap HeadersOf(es)]]
           cut == {f[d] : d \in cs}
<1>1. \A d \in cs : f[d] \in Claim
  <2> TAKE d \in cs
  <2>1. d \in Claim OBVIOUS
  <2> QED BY <2>1 DEF Claim
<1>2. Trim(cs, es) = {c \in cut : c.cites # {}} BY DEF Trim
<1>3. DOMAIN f = cs OBVIOUS
<1> HIDE DEF f
<1>4. IsFiniteSet(cut) BY <1>3, FiniteImage
<1> QED BY <1>1, <1>2, <1>4, FS_Subset

LEMMA SnapshotTypes == ASSUME ContentInv, TypesInv, GenerateSnapshot PROVE TypesInv'
<1> DEFINE es == Snapshot(req.box, Cited(req.claims))
           cs == Trim(req.claims, es)
           r == [To("labels") EXCEPT !.evidence = es, !.claims = cs]
<1>1. Go(r) /\ req.at \in RunStages BY DEF GenerateSnapshot, RunStages
<1>2. /\ r.box = req.box /\ r.window = req.window /\ r.resolved = req.resolved /\ r.people = req.people /\ r.domains = req.domains
      /\ r.claims = cs /\ r.evidence = es
  BY IdleHolds DEF ContentInv, Shaped, To
<1>3. es \subseteq Evidence /\ IsFiniteSet(es) /\ OneRowPerHeader(es) BY SnapshotIs
<1>4. cs \subseteq Claim /\ IsFiniteSet(cs) BY TrimIs DEF TypesInv, RunTyped, DraftTyped
<1> HIDE DEF r, cs, es
<1> QED BY <1>1, <1>2, <1>3, <1>4, ReadTypes

LEMMA LabelsType == ASSUME ContentInv, TypesInv, GenerateLabels PROVE TypesInv'
<1> DEFINE LabelOf(c) == IF c.project = None THEN {} ELSE ProjectLabel(c.project, req.box)
           f == [c \in req.claims |-> [c EXCEPT !.label = LabelOf(c)]]
           cs == Labelled(req.claims, req.box)
           r == [To("write") EXCEPT !.claims = cs]
<1>1. Go(r) /\ req.at \in RunStages BY DEF GenerateLabels, RunStages
<1>2. /\ r.box = req.box /\ r.window = req.window /\ r.resolved = req.resolved /\ r.people = req.people /\ r.domains = req.domains
      /\ r.claims = cs /\ r.evidence = req.evidence
  BY IdleHolds DEF ContentInv, Shaped, To
<1>3. cs = {f[c] : c \in req.claims} BY DEF Labelled
<1>4. req.claims \subseteq Claim /\ IsFiniteSet(req.claims) BY DEF TypesInv, RunTyped, DraftTyped
<1>5. ASSUME NEW c \in req.claims PROVE f[c] \in Claim
  <2>1. c \in Claim BY <1>4
  <2>2. projects \subseteq Projects BY DEF TypesInv, TypeOK
  <2>3. LabelOf(c) \subseteq Words BY <2>2, UniverseFields DEF ProjectLabel
  <2> HIDE DEF LabelOf
  <2> QED BY <2>1, <2>3 DEF Claim
<1>6. DOMAIN f = req.claims OBVIOUS
<1> HIDE DEF r, cs, f
<1>7. cs \subseteq Claim /\ IsFiniteSet(cs) BY <1>3, <1>4, <1>5, <1>6, FiniteImage
<1> QED BY <1>1, <1>2, <1>7, ReadTypes DEF TypesInv, RunTyped, DraftTyped

LEMMA WriteTypes == ASSUME ContentInv, TypesInv, GenerateWrite PROVE TypesInv'
<1>1. PICK p \in Packages : p = req.pkg
  BY DEF GenerateWrite, ContentInv, RunHolds, Running
<1>2. /\ claims' = [claims EXCEPT ![p] = req.claims]
      /\ evidence' = [evidence EXCEPT ![p] = req.evidence]
      /\ req' = Idle /\ req.at = "write"
      /\ UNCHANGED <<stored, known, projects, assigned, events, scope, view, writes>>
  BY <1>1 DEF GenerateWrite, mail
<1>3. PICK st \in {pkg[p].status, "generated"} : pkg' = [pkg EXCEPT ![p].gen = @ + 1, ![p].status = st]
  BY <1>1 DEF GenerateWrite
<1>4. pkg[p].gen < MaxGen
  <2>1. Cardinality(Generations) < MaxGen BY <1>2 DEF TypesInv, RunTyped, MayGenerate, RunStages
  <2> QED BY <2>1, GenerationsCount DEF TypesInv
<1>5. /\ pkg'[p].gen = pkg[p].gen + 1 /\ pkg'[p].status = st /\ pkg'[p].box = pkg[p].box
      /\ \A x \in Packages : x # p => pkg'[x] = pkg[x]
  BY <1>3 DEF ContentInv, Shaped, PkgFields
<1>6. /\ claims'[p] = req.claims /\ evidence'[p] = req.evidence
      /\ \A x \in Packages : x # p => claims'[x] = claims[x] /\ evidence'[x] = evidence[x]
  BY <1>2 DEF ContentInv, Shaped
<1>7. DraftTyped BY DEF TypesInv, RunTyped
<1>8. TypeOK'
  <2>1. ASSUME NEW x \in Packages
        PROVE  /\ pkg'[x].status \in Statuses /\ pkg'[x].box \in Boxes \cup {None} /\ pkg'[x].gen \in 0..MaxGen
               /\ claims'[x] \subseteq Claim /\ evidence'[x] \subseteq Evidence /\ OneRowPerHeader(evidence'[x])
    <3>1. /\ pkg[x].status \in Statuses /\ pkg[x].box \in Boxes \cup {None} /\ pkg[x].gen \in 0..MaxGen
          /\ claims[x] \subseteq Claim /\ evidence[x] \subseteq Evidence /\ OneRowPerHeader(evidence[x])
      BY DEF TypesInv, TypeOK
    <3>2. CASE x = p
      BY <1>3, <1>4, <1>5, <1>6, <1>7, <3>1, <3>2, ContentConstants DEF Statuses, DraftTyped, OneRowPerHeader
    <3>3. CASE x # p BY <1>5, <1>6, <3>1, <3>3
    <3> QED BY <3>2, <3>3
  <2> QED BY <1>2, <2>1 DEF TypesInv, TypeOK, OneRowPerHeader
<1>9. EventsTyped' BY <1>2 DEF TypesInv, EventsTyped
<1>10. RowsFinite' BY <1>6, <1>7 DEF TypesInv, RowsFinite, DraftTyped
<1>11. RunTyped'
  BY <1>2, FS_EmptySet DEF RunTyped, DraftTyped, SeedTyped, MayGenerate, RunStages, Idle, OneRowPerHeader
<1>12. ViewRead'
  <2> SUFFICES ASSUME view.at = "evidence"
               PROVE  /\ view.pkg \in Packages /\ pkg'[view.pkg].status # "absent"
                      /\ view.gen \in Nat /\ view.gen <= pkg'[view.pkg].gen
                      /\ view.gen = pkg'[view.pkg].gen => view.claims = claims'[view.pkg]
    BY <1>2 DEF ViewRead
  <2>1. /\ view.pkg \in Packages /\ pkg[view.pkg].status # "absent"
        /\ view.gen \in Nat /\ view.gen <= pkg[view.pkg].gen
        /\ view.gen = pkg[view.pkg].gen => view.claims = claims[view.pkg]
    BY DEF TypesInv, ViewHolds, ViewRead
  <2>2. pkg[view.pkg].gen \in Nat BY <2>1 DEF TypesInv, TypeOK
  <2>3. CASE view.pkg = p
    <3>1. view.gen # pkg[p].gen + 1 /\ view.gen <= pkg[p].gen + 1 BY <2>1, <2>2, <2>3
    <3> QED BY <1>3, <1>5, <2>1, <2>3, <3>1
  <2>4. CASE view.pkg # p BY <1>5, <1>6, <2>1, <2>4
  <2> QED BY <2>3, <2>4
<1>13. ViewHolds'
  BY <1>2, <1>12 DEF TypesInv, ViewHolds, ViewShown, Whole, HeadersOf, Cited
<1> QED BY <1>8, <1>9, <1>10, <1>11, <1>13 DEF TypesInv

-----------------------------------------------------------------------------
\* The creator's other handlers: what they change of a package keeps its types, and the
\* generation that a recipient's handler has read.
LEMMA PackageTypes ==
  ASSUME TypesInv, Ready, UNCHANGED <<mail, claims, evidence, view, writes>>, req'.at \notin RunStages,
         DraftTyped', SeedTyped',
         \A p \in Packages :
           /\ scope'[p] \in Scope
           /\ pkg'[p].status \in Statuses /\ pkg'[p].box \in Boxes \cup {None} /\ pkg'[p].gen \in 0..MaxGen
           /\ pkg[p].status # "absent" => pkg'[p].status # "absent" /\ pkg'[p].gen = pkg[p].gen
  PROVE  TypesInv'
<1>1. UNCHANGED <<stored, known, projects, assigned, events, claims, evidence, view, writes>> BY DEF mail
<1>2. TypeOK' BY <1>1 DEF TypesInv, TypeOK, OneRowPerHeader
<1>3. EventsTyped' /\ RowsFinite' BY <1>1 DEF TypesInv, EventsTyped, RowsFinite
<1>4. ViewRead' BY <1>1 DEF TypesInv, ViewHolds, ViewRead
<1>5. ViewHolds' BY <1>1, <1>4 DEF TypesInv, ViewHolds, ViewShown, Whole, HeadersOf, Cited
<1>6. MayGenerate' BY DEF MayGenerate
<1> QED BY <1>2, <1>3, <1>5, <1>6 DEF TypesInv, RunTyped

LEMMA CreatorTypes ==
  ASSUME ContentInv, TypesInv, NEW p \in Packages,
         \/ \E box \in Senders : Create(p, box)
         \/ \E s \in Scopes : UpdateScope(p, s)
         \/ \E op \in {"generate", "publish"} : Load(op, p)
         \/ Review(p)
  PROVE  TypesInv'
<1>1. /\ Ready /\ UNCHANGED <<mail, claims, evidence, view, req, writes>>
  BY DEF Create, UpdateScope, Load, Review, rows
<1>2. req'.at \notin RunStages /\ DraftTyped' /\ SeedTyped'
  BY <1>1 DEF Ready, RunStages, TypesInv, RunTyped, DraftTyped, SeedTyped, OneRowPerHeader
<1>3. \A x \in Packages :
        /\ scope[x] \in Scope
        /\ pkg[x].status \in Statuses /\ pkg[x].box \in Boxes \cup {None} /\ pkg[x].gen \in 0..MaxGen
  BY DEF TypesInv, TypeOK
<1>4. ASSUME NEW box \in Senders, Create(p, box) PROVE TypesInv'
  <2>1. /\ pkg[p].status = "absent" /\ scope' = scope
        /\ pkg' = [pkg EXCEPT ![p] = [status |-> "draft", box |-> box, gen |-> 0]]
    BY <1>4 DEF Create
  <2>2. \A x \in Packages :
           pkg'[x] = IF x = p THEN [status |-> "draft", box |-> box, gen |-> 0] ELSE pkg[x]
    BY <2>1 DEF ContentInv, Shaped
  <2> QED BY <1>1, <1>2, <1>3, <2>1, <2>2, ContentConstants, PackageTypes DEF Statuses
<1>5. ASSUME NEW s \in Scopes, UpdateScope(p, s) PROVE TypesInv'
  <2>1. scope' = [scope EXCEPT ![p] = s] /\ pkg' = pkg BY <1>5 DEF UpdateScope
  <2>2. \A x \in Packages : scope'[x] = IF x = p THEN s ELSE scope[x] BY <2>1 DEF ContentInv, Shaped
  <2>3. s \in Scope BY ContentConstants
  <2> QED BY <1>1, <1>2, <1>3, <2>1, <2>2, <2>3, PackageTypes
<1>6. ASSUME (\E op \in {"generate", "publish"} : Load(op, p)) \/ Review(p) PROVE TypesInv'
  <2>1. scope' = scope /\ pkg' = pkg BY <1>6 DEF Load, Review, rows
  <2> QED BY <1>1, <1>2, <1>3, <2>1, PackageTypes
<1> QED BY <1>4, <1>5, <1>6

LEMMA PublishTypes == ASSUME ContentInv, TypesInv, Publish PROVE TypesInv'
<1>1. Ready /\ UNCHANGED <<mail, scope, claims, evidence, view, req, writes>> BY DEF Publish
<1>2. req'.at \notin RunStages /\ DraftTyped' /\ SeedTyped'
  BY <1>1 DEF Ready, RunStages, TypesInv, RunTyped, DraftTyped, SeedTyped, OneRowPerHeader
<1>3. PICK l \in loaded :
        \/ pkg' = [pkg EXCEPT ![l[2]].status = "published"]
        \/ UNCHANGED pkg
  BY DEF Publish
<1>4. \A x \in Packages :
        /\ pkg'[x].status \in {pkg[x].status, "published"} /\ pkg'[x].box = pkg[x].box /\ pkg'[x].gen = pkg[x].gen
  BY <1>3 DEF ContentInv, Shaped, PkgFields
<1>5. \A x \in Packages :
        /\ scope[x] \in Scope
        /\ pkg[x].status \in Statuses /\ pkg[x].box \in Boxes \cup {None} /\ pkg[x].gen \in 0..MaxGen
  BY DEF TypesInv, TypeOK
<1> QED BY <1>1, <1>2, <1>4, <1>5, PackageTypes DEF Statuses

LEMMA SeedTypes ==
  ASSUME TypesInv, NEW r, Go(r), r.at \notin RunStages,
         r.claims = req.claims \/ r.claims = {}, r.evidence = req.evidence \/ r.evidence = {},
         r.box \in Boxes \cup {None}, r.window \in Int \X Int, r.resolved \subseteq Projects, r.people \subseteq Persons,
         r.domains \subseteq Domains
  PROVE  TypesInv'
<1>1. req' = r BY DEF Go
<1>2. SeedTyped' /\ MayGenerate' BY <1>1 DEF SeedTyped, MayGenerate
<1>3. DraftTyped' BY <1>1, FS_EmptySet DEF TypesInv, RunTyped, DraftTyped, OneRowPerHeader
<1> QED BY <1>2, <1>3, GoTypes DEF RunTyped

LEMMA CarriesTypes ==
  ASSUME ContentInv, TypesInv, NEW p \in Packages, NEW original \in Packages, NEW box \in Boxes, NEW w \in Windows,
         ReturnCarries(original, p, box, w)
  PROVE  TypesInv'
<1> DEFINE r == [Idle EXCEPT !.at = "carried_labels", !.pkg = p, !.box = box, !.from = pkg[original].box,
                   !.window = w,
                   !.carried = scope[original].projects \cup ({c.project : c \in claims[original]} \ {None}),
                   !.people = scope[original].people,
                   !.domains = scope[original].domains \cup {Domain[e.sender] : e \in evidence[original]}]
<1>1. Go(r) BY DEF ReturnCarries
<1>2. /\ r.at = "carried_labels" /\ r.claims = {} /\ r.evidence = {} /\ r.box = box /\ r.window = w
      /\ r.resolved = {} /\ r.people = scope[original].people
      /\ r.domains = scope[original].domains \cup {Domain[e.sender] : e \in evidence[original]}
  BY DEF Idle
<1>3. w \in Int \X Int BY ContentConstants
<1>4. /\ scope[original].people \subseteq Persons /\ scope[original].domains \subseteq Domains
      /\ \A e \in evidence[original] : Domain[e.sender] \in Domains
  BY DEF TypesInv, TypeOK, Scope, Evidence, Domains
<1> HIDE DEF r
<1> QED BY <1>1, <1>2, <1>3, <1>4, SeedTypes DEF RunStages

LEMMA ReturnTypes ==
  ASSUME ContentInv, TypesInv, ReturnLabels \/ ReturnProjects \/ ReturnEmails \/ ReturnPeople
  PROVE  TypesInv'
<1>1. projects \subseteq Projects /\ known \subseteq Persons /\ SeedTyped
  BY DEF TypesInv, TypeOK, RunTyped
<1>2. DOMAIN req = DOMAIN Idle BY DEF ContentInv, Shaped
<1>3. CASE ReturnLabels
  <2> DEFINE r(v) == [To("their_projects") EXCEPT !.words = v]
  <2>1. PICK v : Go(r(v)) BY <1>3 DEF ReturnLabels
  <2>2. /\ r(v).at = "their_projects" /\ r(v).claims = req.claims /\ r(v).evidence = req.evidence /\ r(v).box = req.box
        /\ r(v).window = req.window /\ r(v).resolved = req.resolved /\ r(v).people = req.people /\ r(v).domains = req.domains
    BY <1>2, IdleHolds DEF To
  <2> HIDE DEF r
  <2> QED BY <1>1, <2>1, <2>2, SeedTypes DEF SeedTyped, RunStages
<1>4. CASE ReturnProjects
  <2> DEFINE v == {x \in projects : ProjectBox[x] = req.box /\ Label[x] \cap req.words # {}}
             r == [To("carried_emails") EXCEPT !.resolved = v]
  <2>1. Go(r) BY <1>4 DEF ReturnProjects
  <2>2. /\ r.at = "carried_emails" /\ r.claims = req.claims /\ r.evidence = req.evidence /\ r.box = req.box
        /\ r.window = req.window /\ r.resolved = v /\ r.people = req.people /\ r.domains = req.domains
    BY <1>2, IdleHolds DEF To
  <2>3. v \subseteq Projects BY <1>1
  <2> HIDE DEF r, v
  <2> QED BY <1>1, <2>1, <2>2, <2>3, SeedTypes DEF SeedTyped, RunStages
<1>5. CASE ReturnEmails
  <2> DEFINE r(v) == [To("their_people") EXCEPT !.emails = v]
  <2>1. PICK v : Go(r(v)) BY <1>5 DEF ReturnEmails
  <2>2. /\ r(v).at = "their_people" /\ r(v).claims = req.claims /\ r(v).evidence = req.evidence /\ r(v).box = req.box
        /\ r(v).window = req.window /\ r(v).resolved = req.resolved /\ r(v).people = req.people /\ r(v).domains = req.domains
    BY <1>2, IdleHolds DEF To
  <2> HIDE DEF r
  <2> QED BY <1>1, <2>1, <2>2, SeedTypes DEF SeedTyped, RunStages
<1>6. CASE ReturnPeople
  <2> DEFINE v == {k \in known : k[1] = req.box /\ (k[2] \in req.emails \/ Domain[k[2]] \in req.domains)}
             r == [To("draft") EXCEPT !.people = v]
  <2>1. Go(r) BY <1>6 DEF ReturnPeople
  <2>2. /\ r.at = "draft" /\ r.claims = req.claims /\ r.evidence = req.evidence /\ r.box = req.box
        /\ r.window = req.window /\ r.resolved = req.resolved /\ r.people = v /\ r.domains = req.domains
    BY <1>2, IdleHolds DEF To
  <2>3. v \subseteq Persons BY <1>1
  <2> HIDE DEF r, v
  <2> QED BY <1>1, <2>1, <2>2, <2>3, SeedTypes DEF SeedTyped, RunStages
<1> QED BY <1>3, <1>4, <1>5, <1>6

LEMMA SeededIsAScope == ASSUME SeedTyped PROVE Seeded \in Scope
<1>1. req.window \in Int \X Int /\ req.resolved \subseteq Projects /\ req.domains \subseteq Domains
      /\ (IF req.resolved = {} THEN req.people ELSE {}) \subseteq Persons
  BY DEF SeedTyped
<1> QED BY <1>1 DEF Seeded, Unfiltered, Scope

LEMMA ReturnDraftTypes == ASSUME ContentInv, TypesInv, ReturnDraft PROVE TypesInv'
<1>1. /\ req.at = "draft" /\ pkg[req.pkg].status = "absent" /\ req' = Idle
      /\ pkg' = [pkg EXCEPT ![req.pkg] = [status |-> "draft", box |-> req.box, gen |-> 0]]
      /\ scope' = [scope EXCEPT ![req.pkg] = Seeded]
      /\ UNCHANGED <<stored, known, projects, assigned, events, claims, evidence, view, writes>>
  BY DEF ReturnDraft, mail
<1>2. \A x \in Packages :
        /\ pkg'[x] = IF x = req.pkg THEN [status |-> "draft", box |-> req.box, gen |-> 0] ELSE pkg[x]
        /\ scope'[x] = IF x = req.pkg THEN Seeded ELSE scope[x]
  BY <1>1 DEF ContentInv, Shaped
<1>3. Seeded \in Scope /\ req.box \in Boxes \cup {None}
  BY SeededIsAScope DEF TypesInv, RunTyped, SeedTyped
<1>4. ASSUME NEW x \in Packages
      PROVE  /\ scope'[x] \in Scope
             /\ pkg'[x].status \in Statuses /\ pkg'[x].box \in Boxes \cup {None} /\ pkg'[x].gen \in 0..MaxGen
             /\ pkg[x].status # "absent" => pkg'[x].status # "absent" /\ pkg'[x].gen = pkg[x].gen
  <2>1. scope[x] \in Scope /\ pkg[x].status \in Statuses /\ pkg[x].box \in Boxes \cup {None} /\ pkg[x].gen \in 0..MaxGen
    BY DEF TypesInv, TypeOK
  <2> QED BY <1>1, <1>2, <1>3, <2>1, ContentConstants DEF Statuses
<1>5. TypeOK' BY <1>1, <1>4 DEF TypesInv, TypeOK, OneRowPerHeader
<1>6. EventsTyped' /\ RowsFinite' BY <1>1 DEF TypesInv, EventsTyped, RowsFinite
<1>7. ViewRead' BY <1>1, <1>4 DEF TypesInv, ViewHolds, ViewRead
<1>8. ViewHolds' BY <1>1, <1>7 DEF TypesInv, ViewHolds, ViewShown, Whole, HeadersOf, Cited
<1>9. RunTyped'
  BY <1>1, FS_EmptySet DEF RunTyped, DraftTyped, SeedTyped, MayGenerate, RunStages, Idle, OneRowPerHeader
<1> QED BY <1>5, <1>6, <1>8, <1>9 DEF TypesInv

\* A recipient's reads.
LEMMA RestTypes ==
  ASSUME TypesInv, UNCHANGED <<mail, rows, req, writes>>, ViewHolds'
  PROVE  TypesInv'
<1>1. UNCHANGED <<stored, known, projects, assigned, events, pkg, scope, claims, evidence, req, writes>>
  BY DEF mail, rows
<1>2. TypeOK' BY <1>1 DEF TypesInv, TypeOK, OneRowPerHeader
<1>3. EventsTyped' /\ RowsFinite' BY <1>1 DEF TypesInv, EventsTyped, RowsFinite
<1>4. RunTyped' BY <1>1 DEF TypesInv, RunTyped, DraftTyped, SeedTyped, MayGenerate, Generations, OneRowPerHeader
<1> QED BY <1>2, <1>3, <1>4 DEF TypesInv

LEMMA ReaderTypes ==
  ASSUME ContentInv, TypesInv, (\E p \in Packages : ReadClaims(p)) \/ ReadEvidence \/ Respond
  PROVE  TypesInv'
<1>1. UNCHANGED <<mail, rows, req, writes>> BY DEF ReadClaims, ReadEvidence, Respond
<1>2. ASSUME NEW p \in Packages, ReadClaims(p) PROVE ViewHolds'
  <2>1. view' = [NoView EXCEPT !.at = "evidence", !.pkg = p, !.claims = claims[p], !.gen = pkg[p].gen]
        /\ pkg[p].status = "published" /\ UNCHANGED <<pkg, claims>>
    BY <1>2 DEF ReadClaims, rows
  <2>2. /\ view'.at = "evidence" /\ view'.pkg = p /\ view'.claims = claims[p] /\ view'.gen = pkg[p].gen
        /\ DOMAIN view' = DOMAIN NoView
    BY <2>1 DEF NoView
  <2>3. claims[p] \subseteq Claim /\ IsFiniteSet(claims[p]) /\ pkg[p].gen \in Nat
    BY DEF TypesInv, TypeOK, RowsFinite
  <2> QED BY <2>1, <2>2, <2>3 DEF ViewHolds, ViewRead, ViewShown
<1>3. ASSUME ReadEvidence PROVE ViewHolds'
  <2>1. /\ view' = [view EXCEPT !.at = "shown", !.evidence = evidence[view.pkg], !.whole = pkg[view.pkg].gen = view.gen]
        /\ view.at = "evidence"
    BY <1>3 DEF ReadEvidence
  <2>2. DOMAIN view = {"at", "pkg", "claims", "gen", "evidence", "whole"} BY DEF TypesInv, ViewHolds, NoView
  <2>3. /\ view'.at = "shown" /\ view'.claims = view.claims /\ view'.evidence = evidence[view.pkg]
        /\ view'.whole = (pkg[view.pkg].gen = view.gen) /\ DOMAIN view' = DOMAIN view
    BY <2>1, <2>2
  <2>4. /\ view.pkg \in Packages /\ (view.gen = pkg[view.pkg].gen => view.claims = claims[view.pkg])
        /\ view.claims \subseteq Claim /\ IsFiniteSet(view.claims) /\ DOMAIN view = DOMAIN NoView
    BY <2>1 DEF TypesInv, ViewHolds, ViewRead
  <2>5. IsFiniteSet(evidence[view.pkg]) BY <2>4 DEF TypesInv, RowsFinite
  <2>6. Whole(claims[view.pkg], evidence[view.pkg]) BY <2>4 DEF ContentInv, PackageHolds, Whole
  <2>7. view'.whole => Whole(view'.claims, view'.evidence) BY <2>3, <2>4, <2>6
  <2> QED BY <2>3, <2>4, <2>5, <2>7 DEF ViewHolds, ViewRead, ViewShown, Whole, HeadersOf, Cited
<1>4. ASSUME Respond PROVE ViewHolds'
  BY <1>4, FS_EmptySet DEF Respond, ViewHolds, ViewRead, ViewShown, NoView
<1> QED BY <1>1, <1>2, <1>3, <1>4, RestTypes

LEMMA NextTypes == ASSUME ContentInv, TypesInv, [Next]_vars PROVE TypesInv'
<1>1. CASE UNCHANGED vars
  <2>1. UNCHANGED <<mail, rows, req, writes, view, pkg, claims>> BY <1>1 DEF vars, rows
  <2>2. ViewHolds' BY <2>1 DEF TypesInv, ViewHolds, ViewRead, ViewShown, Whole, HeadersOf, Cited
  <2> QED BY <2>1, <2>2, RestTypes
<1> QED
  BY <1>1, JobsType, CreatorTypes, CarriesTypes, ReturnTypes, ReaderTypes, StartTypes, PeopleTypes, MailTypes,
     EventsType, SnapshotTypes, LabelsType, WriteTypes, PublishTypes, ReturnDraftTypes
  DEF Next

LEMMA ContentTypes == Spec => [](ContentInv /\ TypesInv)
  BY InitHolds, NextHolds, InitTypes, NextTypes, PTL DEF Spec

\* Message, package and evidence rows have their types and their unique keys, an event's project
\* is there as long as the event names it, and no generation is counted beyond the bound,
\* whatever jobs, creators and recipients do.
THEOREM TypesHold == Spec => []TypeOK
<1>1. TypesInv => TypeOK BY DEF TypesInv
<1> QED BY <1>1, ContentTypes, PTL

LEMMA RecipientHolds == ASSUME TypesInv PROVE RecipientSees
<1> SUFFICES ASSUME view.at = "shown"
             PROVE  /\ \A q \in Queries : \A a \in AnswersTo(q, view.claims, view.evidence) : AnswerHolds(q, a)
                    /\ ContractHolds(Contract(view.claims, view.evidence))
                    /\ UNION {s.points : s \in Sections(view.claims)} = view.claims
  BY DEF RecipientSees
<1>1. /\ view.claims \subseteq Claim /\ IsFiniteSet(view.claims) /\ IsFiniteSet(view.evidence)
      /\ (view.whole => Whole(view.claims, view.evidence))
  BY DEF TypesInv, ViewHolds, ViewShown
<1>2. ASSUME NEW q \in Queries, NEW a \in AnswersTo(q, view.claims, view.evidence) PROVE AnswerHolds(q, a)
  <2>1. Told(q, a, view.claims, view.evidence) BY <1>1, AnswersAre
  <2> QED BY <1>1, <2>1 DEF Told, AnswerHolds, Matches
<1>3. ContractHolds(Contract(view.claims, view.evidence)) BY <1>1, ContractIs DEF ContractHolds
<1> QED BY <1>2, <1>3, SectionsHoldAll

\* Whatever generation each of a recipient's two reads has seen: an answer's claims cite evidence of
\* the answer, all of it is of the package, and the contract accounts for each message shown; if
\* both saw one generation, the answer is withheld only if nothing in the package matches, and no
\* message is left over.  And the creator of an empty candidate is told why by a query that agrees
\* with the generator's.
THEOREM WhatIsShownHolds == Spec => []ShownHolds
<1>1. TypesInv => ShownHolds BY RecipientHolds, DiagnosisHolds DEF ShownHolds
<1> QED BY <1>1, ContentTypes, PTL
-----------------------------------------------------------------------------
\* A high pattern in a text makes a finding of its own on the row, whatever else matches, and a high
\* finding is of the one pattern of its category.
LEMMA HighRules ==
  /\ HighWords = {Rules[i][1] : i \in 1..3}
  /\ \A i \in DOMAIN Rules : Rules[i][3] = "high" <=> i \in 1..3
  /\ \A i, j \in 1..3 : i \in DOMAIN Rules /\ (Rules[i][2] = Rules[j][2] => i = j)
  BY DEF HighWords, Rules

LEMMA HighIsFound ==
  ASSUME NEW words, NEW ref, NEW i \in 1..3, Rules[i][1] \in words
  PROVE  Finding(Rules[i][2], "high", ref) \in ScanText(words, ref)
<1>1. i \in DOMAIN Rules /\ Rules[i][3] = "high" BY HighRules
<1>2. \A k \in 1..(i - 1) : k \in 1..3 /\ k # i OBVIOUS
<1>3. \A k \in 1..(i - 1) : Rules[k][2] # Rules[i][2] BY <1>2, HighRules
<1> QED BY <1>1, <1>3 DEF ScanText

LEMMA FoundIsHigh ==
  ASSUME NEW words, NEW ref, NEW f \in ScanText(words, ref), f.severity = "high"
  PROVE  f.ref = ref /\ \A i \in 1..3 : f.category = Rules[i][2] => Rules[i][1] \in words
<1>1. PICK j \in DOMAIN Rules : f = Finding(Rules[j][2], Rules[j][3], ref) /\ Rules[j][1] \in words
  BY DEF ScanText
<1>2. f.category = Rules[j][2] /\ f.severity = Rules[j][3] /\ f.ref = ref BY <1>1 DEF Finding
<1>3. j \in 1..3 BY <1>2, HighRules
<1> QED BY <1>1, <1>2, <1>3, HighRules

\* What a scan says of a claim it says of that claim, and of evidence of that header.
LEMMA ClaimFindings ==
  ASSUME NEW c, NEW ref, NEW f \in ScanClaim(c, ref)
  PROVE  f.ref = ref
<1>1. f \in ScanText(c.words, ref) \/ \E category, severity : f = Finding(category, severity, ref)
  BY DEF ScanClaim, When
<1>2. f \in ScanText(c.words, ref) => \E category, severity : f = Finding(category, severity, ref)
  BY DEF ScanText
<1> QED BY <1>1, <1>2 DEF Finding

LEMMA EvidenceFindings ==
  ASSUME NEW e, NEW f \in ScanEvidence(e)
  PROVE  /\ f.ref = HeaderRef(e)
         /\ f.severity = "high" => f \in ScanText(e.words, HeaderRef(e))
<1>1. f \in ScanText(e.words, HeaderRef(e)) \/ f = Finding("personal_sensitive", "medium", HeaderRef(e))
  BY DEF ScanEvidence
<1>2. f \in ScanText(e.words, HeaderRef(e)) => \E category, severity : f = Finding(category, severity, HeaderRef(e))
  BY DEF ScanText
<1> QED BY <1>1, <1>2 DEF Finding

\* An acknowledged id is the category and row of a high finding that was shown.
LEMMA AckedIs ==
  ASSUME NEW category, NEW ref, <<category, ref>> \in Acked
  PROVE  \E f \in ScanPackage(reviewed.pkg, reviewed.gen, reviewed.claims, reviewed.evidence) :
           f.severity = "high" /\ f.category = category /\ f.ref = ref
  BY DEF Acked, Ids, High

LEMMA RefsDiffer ==
  ASSUME NEW p, NEW gen, NEW c, NEW e
  PROVE  /\ ClaimRef(p, gen, c) # HeaderRef(e)
         /\ \A q, k, d : ClaimRef(p, gen, c) = ClaimRef(q, k, d) => p = q /\ gen = k /\ c = d
         /\ \A r : HeaderRef(e) = HeaderRef(r) => e.header = r.header
  BY DEF ClaimRef, HeaderRef

\* The gate of the publish handler: what lets a package through.
LEMMA GateHolds ==
  ASSUME NEW p \in Packages, Ids(High(Findings(p))) \subseteq Acked
  PROVE  /\ \A c \in claims[p] : c.words \cap HighWords # {} => c \in reviewed.claims /\ ShownNow(p)
         /\ \A e \in evidence[p] : \A word \in e.words \cap HighWords :
              \E r \in reviewed.evidence : r.header = e.header /\ word \in r.words
<1>1. ASSUME NEW f \in Findings(p), f.severity = "high" PROVE <<f.category, f.ref>> \in Acked
  BY <1>1 DEF Ids, High
<1>2. ASSUME NEW c \in claims[p], c.words \cap HighWords # {}
      PROVE  c \in reviewed.claims /\ ShownNow(p)
  <2> DEFINE ref == ClaimRef(p, pkg[p].gen, c)
  <2>1. PICK i \in 1..3 : Rules[i][1] \in c.words BY <1>2, HighRules
  <2> DEFINE f == Finding(Rules[i][2], "high", ref)
  <2>2. f \in ScanClaim(c, ref) BY <2>1, HighIsFound DEF ScanClaim
  <2>3. f \in Findings(p) BY <2>2 DEF Findings, ScanPackage
  <2>4. f.severity = "high" /\ f.ref = ref BY DEF Finding
  <2> HIDE DEF f
  <2>5. PICK g \in ScanPackage(reviewed.pkg, reviewed.gen, reviewed.claims, reviewed.evidence) : g.ref = ref
    <3>1. <<f.category, ref>> \in Acked BY <1>1, <2>3, <2>4
    <3> HIDE DEF ref
    <3> QED BY <3>1, AckedIs
  <2>6. ASSUME NEW d \in reviewed.claims, g \in ScanClaim(d, ClaimRef(reviewed.pkg, reviewed.gen, d))
        PROVE  c \in reviewed.claims /\ ShownNow(p)
    <3>1. ref = ClaimRef(reviewed.pkg, reviewed.gen, d) BY <2>5, <2>6, ClaimFindings
    <3> QED BY <3>1, RefsDiffer DEF ShownNow
  <2>7. ASSUME NEW r \in reviewed.evidence, g \in ScanEvidence(r) PROVE FALSE
    BY <2>5, <2>7, EvidenceFindings, RefsDiffer
  <2> QED BY <2>5, <2>6, <2>7 DEF ScanPackage
<1>3. ASSUME NEW e \in evidence[p], NEW word \in e.words \cap HighWords
      PROVE  \E r \in reviewed.evidence : r.header = e.header /\ word \in r.words
  <2>1. PICK i \in 1..3 : Rules[i][1] = word BY HighRules
  <2> DEFINE f == Finding(Rules[i][2], "high", HeaderRef(e))
  <2>2. f \in ScanText(e.words, HeaderRef(e)) BY <2>1, HighIsFound
  <2>3. ScanText(e.words, HeaderRef(e)) \subseteq ScanEvidence(e) BY DEF ScanEvidence
  <2>4. f \in Findings(p) BY <2>2, <2>3 DEF Findings, ScanPackage
  <2>5. f.severity = "high" /\ f.category = Rules[i][2] /\ f.ref = HeaderRef(e) BY DEF Finding
  <2> HIDE DEF f
  <2>6. PICK g \in ScanPackage(reviewed.pkg, reviewed.gen, reviewed.claims, reviewed.evidence) :
          g.severity = "high" /\ g.category = Rules[i][2] /\ g.ref = HeaderRef(e)
    <3>1. <<Rules[i][2], HeaderRef(e)>> \in Acked
      <4>1. <<f.category, f.ref>> \in Acked BY <1>1, <2>4, <2>5
      <4> QED BY <4>1, <2>5
    <3> QED BY <3>1, AckedIs
  <2>7. ASSUME NEW d \in reviewed.claims, g \in ScanClaim(d, ClaimRef(reviewed.pkg, reviewed.gen, d)) PROVE FALSE
    BY <2>6, <2>7, ClaimFindings, RefsDiffer
  <2>8. PICK r \in reviewed.evidence : g \in ScanEvidence(r) BY <2>6, <2>7 DEF ScanPackage
  <2>9. g.ref = HeaderRef(r) /\ g \in ScanText(r.words, HeaderRef(r)) BY <2>6, <2>8, EvidenceFindings
  <2>10. word \in r.words BY <2>1, <2>6, <2>9, FoundIsHigh
  <2> QED BY <2>6, <2>9, <2>10, RefsDiffer
<1> QED BY <1>2, <1>3

\* Only the publish handler makes a package published.
LEMMA OnlyPublish ==
  ASSUME Shaped, Running, [Next]_vars, ~Publish, NEW p \in Packages, pkg'[p].status = "published"
  PROVE  pkg[p].status = "published"
<1>1. ASSUME NEW q \in Packages, NEW box, Create(q, box) PROVE pkg[p].status = "published"
  BY <1>1 DEF Create, Shaped
<1>2. CASE GenerateWrite
  <2>1. PICK q \in Packages : q = req.pkg BY <1>2 DEF GenerateWrite, Running
  <2>2. \/ pkg' = [pkg EXCEPT ![q].gen = @ + 1, ![q].status = "generated"]
        \/ pkg' = [pkg EXCEPT ![q].gen = @ + 1, ![q].status = @]
    BY <1>2, <2>1 DEF GenerateWrite
  <2>3. CASE pkg' = [pkg EXCEPT ![q].gen = @ + 1, ![q].status = "generated"]
    BY <2>3 DEF Shaped, PkgFields
  <2>4. CASE pkg' = [pkg EXCEPT ![q].gen = @ + 1, ![q].status = @]
    BY <2>4 DEF Shaped, PkgFields
  <2> QED BY <2>2, <2>3, <2>4
<1>3. CASE ReturnDraft BY <1>3 DEF ReturnDraft, Shaped
<1>4. CASE UNCHANGED pkg BY <1>4
<1>5. \/ GenerateWrite \/ ReturnDraft \/ UNCHANGED pkg
      \/ \E q \in Packages, box \in Senders : Create(q, box)
  BY DEF Next, Ingest, Replace, Enrich, Materialize, Extract, Commit, UpdateScope, Load, Review, ReadClaims,
    ReturnCarries, Go, GenerateEligible, GeneratePeople, GenerateMail, GenerateEvents, GenerateSnapshot,
    GenerateLabels, ReturnLabels, ReturnProjects, ReturnEmails, ReturnPeople, ReadEvidence, Respond, rows, vars
<1> QED BY <1>1, <1>2, <1>3, <1>4, <1>5

\* What the creator was last shown is what the package still holds, unless it has been generated again.
ReviewInv == reviewed.pkg \in Packages =>
  /\ pkg[reviewed.pkg].status # "absent"
  /\ reviewed.gen \in Nat /\ reviewed.gen <= pkg[reviewed.pkg].gen
  /\ reviewed.gen = pkg[reviewed.pkg].gen =>
       reviewed.claims = claims[reviewed.pkg] /\ reviewed.evidence = evidence[reviewed.pkg]

\* A step that shows nothing and generates nothing.
LEMMA ReviewStays ==
  ASSUME ReviewInv, UNCHANGED <<reviewed, claims, evidence>>,
         \A p \in Packages : pkg[p].status # "absent" => pkg'[p].status # "absent" /\ pkg'[p].gen = pkg[p].gen
  PROVE  ReviewInv'
  BY DEF ReviewInv

LEMMA WriteKeepsReview == ASSUME ContentInv, TypesInv, ReviewInv, GenerateWrite PROVE ReviewInv'
<1>1. PICK p \in Packages : p = req.pkg
  BY DEF GenerateWrite, ContentInv, RunHolds, Running
<1>2. PICK st \in {pkg[p].status, "generated"} : pkg' = [pkg EXCEPT ![p].gen = @ + 1, ![p].status = st]
  BY <1>1 DEF GenerateWrite
<1>3. /\ pkg'[p].gen = pkg[p].gen + 1 /\ pkg'[p].status = st
      /\ \A x \in Packages : x # p => pkg'[x] = pkg[x]
  BY <1>2 DEF ContentInv, Shaped, PkgFields
<1>4. \A x \in Packages : x # p => claims'[x] = claims[x] /\ evidence'[x] = evidence[x]
  BY <1>1 DEF GenerateWrite, ContentInv, Shaped
<1>5. reviewed' = reviewed BY DEF GenerateWrite
<1>6. CASE reviewed.pkg = p
  <2>1. pkg[p].gen \in Nat BY DEF TypesInv, TypeOK
  <2>2. reviewed.gen \in Nat /\ reviewed.gen < pkg'[p].gen BY <1>3, <1>6, <2>1 DEF ReviewInv
  <2>3. reviewed.gen <= pkg'[p].gen /\ reviewed.gen # pkg'[p].gen
    <3> DEFINE m == pkg'[p].gen
               n == reviewed.gen
    <3>1. m \in Nat BY <1>3, <2>1
    <3> SUFFICES n <= m /\ n # m OBVIOUS
    <3>2. n \in Nat /\ n < m BY <2>2
    <3> HIDE DEF m, n
    <3> QED BY <3>1, <3>2
  <2>4. pkg'[p].status # "absent"
    <3>1. pkg[p].status # "absent" BY <1>6 DEF ReviewInv
    <3> QED BY <1>2, <1>3, <3>1
  <2> QED BY <1>5, <1>6, <2>2, <2>3, <2>4 DEF ReviewInv
<1>7. CASE reviewed.pkg # p BY <1>3, <1>4, <1>5, <1>7 DEF ReviewInv
<1> QED BY <1>6, <1>7

LEMMA NextReview == ASSUME ContentInv, TypesInv, ReviewInv, [Next]_vars PROVE ReviewInv'
<1>1. CASE UNCHANGED <<pkg, claims, evidence, reviewed>> BY <1>1, ReviewStays
<1>2. ASSUME NEW p \in Packages, Review(p) PROVE ReviewInv'
  <2>1. reviewed'.pkg = p /\ reviewed'.gen = pkg[p].gen /\ reviewed'.claims = claims[p]
        /\ reviewed'.evidence = evidence[p] /\ pkg[p].status = "generated"
        /\ UNCHANGED <<pkg, claims, evidence>>
    BY <1>2 DEF Review, rows
  <2>2. pkg[p].gen \in Nat BY DEF TypesInv, TypeOK
  <2> QED BY <2>1, <2>2 DEF ReviewInv
<1>3. ASSUME NEW p \in Packages, NEW box, Create(p, box) PROVE ReviewInv'
  <2>1. \A x \in Packages : pkg[x].status # "absent" => pkg'[x] = pkg[x]
    BY <1>3 DEF Create, ContentInv, Shaped
  <2> QED BY <1>3, <2>1, ReviewStays DEF Create
<1>4. CASE ReturnDraft
  <2>1. \A x \in Packages : pkg[x].status # "absent" => pkg'[x] = pkg[x]
    BY <1>4 DEF ReturnDraft, ContentInv, Shaped
  <2> QED BY <1>4, <2>1, ReviewStays DEF ReturnDraft
<1>5. CASE Publish
  <2>1. PICK l \in loaded :
          \/ pkg' = [pkg EXCEPT ![l[2]].status = "published"]
          \/ UNCHANGED pkg
    BY <1>5 DEF Publish
  <2>2. \A x \in Packages : pkg'[x].status \in {pkg[x].status, "published"} /\ pkg'[x].gen = pkg[x].gen
    BY <2>1 DEF ContentInv, Shaped, PkgFields
  <2> QED BY <1>5, <2>2, ReviewStays DEF Publish
<1>6. CASE GenerateWrite BY <1>6, WriteKeepsReview
<1>7. \/ GenerateWrite \/ ReturnDraft \/ Publish \/ UNCHANGED <<pkg, claims, evidence, reviewed>>
      \/ \E p \in Packages : Review(p) \/ \E box \in Senders : Create(p, box)
  BY DEF Next, Ingest, Replace, Enrich, Materialize, Extract, Commit, UpdateScope, Load, ReadClaims,
    ReturnCarries, Go, GenerateEligible, GeneratePeople, GenerateMail, GenerateEvents, GenerateSnapshot,
    GenerateLabels, ReturnLabels, ReturnProjects, ReturnEmails, ReturnPeople, ReadEvidence, Respond, rows, vars
<1> QED BY <1>1, <1>2, <1>3, <1>4, <1>5, <1>6, <1>7

LEMMA Reviewed == Spec => [](ContentInv /\ TypesInv /\ ReviewInv)
<1>1. Init => ReviewInv BY ContentConstants DEF Init, ReviewInv, NothingReviewed
<1> QED BY <1>1, InitHolds, NextHolds, InitTypes, NextTypes, NextReview, PTL DEF Spec

\* A package goes out only when its creator has been shown, of this generation, each claim that a
\* high pattern matches, and, for each high pattern of a message, evidence of that message with that
\* pattern: the row as it is, if it is this package and generation that was shown.
THEOREM PublicationIsReviewed == Spec => PublishedWasReviewed
<1> DEFINE Gone(p) == pkg[p].status # "published" /\ pkg'[p].status = "published"
           Was(p) == /\ \A c \in claims[p] : c.words \cap HighWords # {} => c \in reviewed.claims /\ ShownNow(p)
                     /\ \A e \in evidence[p] : \A word \in e.words \cap HighWords :
                          \E r \in reviewed.evidence :
                            r.header = e.header /\ word \in r.words /\ (ShownNow(p) => r = e)
<1>1. ASSUME ContentInv, TypesInv, ReviewInv, [Next]_vars, NEW p \in Packages, Gone(p) PROVE Was(p)
  <2>1. Publish BY <1>1, OnlyPublish DEF ContentInv, RunHolds
  <2>2. PICK l \in loaded :
          IF evidence[l[2]] # {} /\ Ids(High(Findings(l[2]))) \subseteq Acked /\ pkg[l[2]].status = "generated"
          THEN pkg' = [pkg EXCEPT ![l[2]].status = "published"] ELSE UNCHANGED pkg
    BY <2>1 DEF Publish
  <2>3. l[2] = p /\ Ids(High(Findings(l[2]))) \subseteq Acked BY <1>1, <2>2 DEF ContentInv, Shaped
  <2>4. ShownNow(p) => reviewed.evidence = evidence[p] BY <1>1 DEF ReviewInv, ShownNow
  <2>5. \A r, e \in evidence[p] : r.header = e.header => r = e
    BY <1>1 DEF TypesInv, TypeOK, OneRowPerHeader
  <2> QED BY <2>3, <2>4, <2>5, GateHolds
<1>2. ContentInv /\ TypesInv /\ ReviewInv /\ [Next]_vars => [\A p \in Packages : Gone(p) => Was(p)]_vars
  BY <1>1
<1>3. PublishedWasReviewed <=> [][\A p \in Packages : Gone(p) => Was(p)]_vars BY DEF PublishedWasReviewed
<1> QED BY <1>2, <1>3, Reviewed, PTL DEF Spec
========================================
