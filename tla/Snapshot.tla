------------------------------ MODULE Snapshot ------------------------------
(***************************************************************************)
(* What a windowed ingest promises about the messages of a mailbox         *)
(* (services/ingest/gmail_windowed.py, docstring of run_windowed_ingest):  *)
(* a job fetches a window, then either the mailbox takes the window in one *)
(* step (added to, or in place of, what it holds) or nothing changes.      *)
(***************************************************************************)
CONSTANTS Workers, Mailboxes, Msgs, Windows, None

VARIABLES
  stored,   \* the messages each mailbox holds
  ingest    \* the ingest each worker has fetched and not yet stored

Ingest == [mbx : Mailboxes, window : SUBSET Msgs, replace : BOOLEAN]

NoIngest == None

Init ==
  /\ stored = [m \in Mailboxes |-> {}]
  /\ ingest = [w \in Workers |-> NoIngest]

\* The fetch comes before anything is deleted.
Fetched(w, m) ==
  /\ ingest[w] = NoIngest
  /\ \E x \in Windows[m], replace \in BOOLEAN :
        ingest' = [ingest EXCEPT ![w] = [mbx |-> m, window |-> x, replace |-> replace]]
  /\ UNCHANGED stored

Taken(w) ==
  /\ ingest[w] # NoIngest
  /\ LET i == ingest[w]
     IN  stored' = [stored EXCEPT ![i.mbx] = (IF i.replace THEN {} ELSE @) \cup i.window]
  /\ ingest' = [ingest EXCEPT ![w] = NoIngest]

GivenUp(w) ==
  /\ ingest[w] # NoIngest
  /\ ingest' = [ingest EXCEPT ![w] = NoIngest]
  /\ UNCHANGED stored

Next ==
  \E w \in Workers :
     \/ \E m \in Mailboxes : Fetched(w, m)
     \/ Taken(w)
     \/ GivenUp(w)

Spec == Init /\ [][Next]_<<stored, ingest>>
=============================================================================
