----------------------------- MODULE OAuthVault -----------------------------
(***************************************************************************)
(* Provider accounts and the token vault (services/oauth/flow.py,          *)
(* vault.py, gmail_client.py, resolver.py; the routes of                   *)
(* services/api/routers/oauth_gmail.py and oauth_calendar.py, and the      *)
(* disconnect of routers/admin.py).                                        *)
(*                                                                         *)
(* The database holds a row per (mailbox, provider) with an opaque ref;    *)
(* the refresh token is in the vault, which no database transaction        *)
(* covers.  A connect stores the new token, revokes the old one and then   *)
(* commits the row; a disconnect revokes and then commits.  Any of these   *)
(* steps may be the last of its request (a commit or the vault raises, the *)
(* process dies): that is a fault.  The handlers have no await, so in one  *)
(* API process they exclude each other (Overlap says that several serve),  *)
(* while the job worker resolves grants in a process of its own.           *)
(***************************************************************************)
EXTENDS Integers, FiniteSets

CONSTANTS
  Mailboxes,
  Providers,    \* Gmail and the calendar, of which only Gmail is read by jobs
  Gmail,
  Googles,      \* Google accounts
  Subjects,     \* those whose subject the consent tells; a row of another one has none
  Owner,        \* the (tenant, user) that owns each mailbox
  Matches,      \* Google accounts with the mailbox's owner_email (all of them, if it has none)
  States,       \* oauth_state ids
  Refs,         \* vault refs (a uuid each)
  Requests,     \* callbacks and disconnects being served
  Workers,      \* job workers
  None,
  Overlap,      \* TRUE: several API processes
  MaxFaults     \* bound on the faults

ASSUME OAuthConstants ==
  /\ None \notin Refs \cup Googles \cup Mailboxes \cup Providers \cup States
  /\ None \notin Mailboxes \X Providers
  /\ Gmail \in Providers
  /\ Matches \in [Mailboxes -> SUBSET Googles] /\ Subjects \subseteq Googles
  /\ Overlap \in BOOLEAN
  /\ MaxFaults \in Nat

VARIABLES
  state,     \* oauth_state rows
  account,   \* mailbox_provider_account rows
  vault,     \* what the vault holds under each ref; a ref is used once
  req,       \* requests in progress
  grant,     \* the mailbox and the ref from which a worker is about to mint an access token
  faults

vars == <<state, account, vault, req, grant, faults>>

Slots == Mailboxes \X Providers

State   == [status : {"absent", "open", "consumed", "expired"}, slot : Slots \cup {None}]
Account == [status : {"absent", "connected", "disconnected"},
            ref : Refs \cup {None}, google : Googles \cup {None}]
Secret  == [status : {"unused", "held", "gone"}, slot : Slots \cup {None},
            google : Googles \cup {None}, from : States \cup {None}]
Request == [at : {"idle", "claimed", "checked", "stored", "replaced", "read", "revoked"},
            slot : Slots \cup {None}, from : States \cup {None}, google : Googles \cup {None},
            ref : Refs \cup {None}, seen : Account]
Grant   == [mailbox : Mailboxes \cup {None}, ref : Refs \cup {None}]

NoState   == [status |-> "absent", slot |-> None]
NoAccount == [status |-> "absent", ref |-> None, google |-> None]
NoSecret  == [status |-> "unused", slot |-> None, google |-> None, from |-> None]
NoGrant   == [mailbox |-> None, ref |-> None]
Idle      == [at |-> "idle", slot |-> None, from |-> None, google |-> None, ref |-> None,
              seen |-> NoAccount]

-----------------------------------------------------------------------------
OwnerOf(slot) == Owner[slot[1]]
ProviderOf(slot) == slot[2]

\* An attribute reaches the UPDATE only if it differs from the session's copy.
Merge(now, seen, new) ==
  [status |-> IF new.status = seen.status THEN now.status ELSE new.status,
   ref    |-> IF new.ref = seen.ref THEN now.ref ELSE new.ref,
   google |-> IF new.google = seen.google THEN now.google ELSE new.google]

\* Nothing else is served by the same process.
Turn == Overlap \/ \A c \in Requests : req[c].at = "idle"

Goes(c, r) == req' = [req EXCEPT ![c] = r]

\* vault.revoke: the entry is dropped, whether or not the provider revokes the token.
Drop(ref) == vault' = [vault EXCEPT ![ref].status = "gone"]

-----------------------------------------------------------------------------
Init ==
  /\ state = [s \in States |-> NoState]
  /\ account = [a \in Slots |-> NoAccount]
  /\ vault = [r \in Refs |-> NoSecret]
  /\ req = [c \in Requests |-> Idle]
  /\ grant = [w \in Workers |-> NoGrant]
  /\ faults = 0

\* start_connect: the state is bound to the mailbox and the provider.
StartConnect(s, slot) ==
  /\ Turn
  /\ state[s].status = "absent"
  /\ state' = [state EXCEPT ![s] = [status |-> "open", slot |-> slot]]
  /\ UNCHANGED <<account, vault, req, grant, faults>>

StateExpires(s) ==
  /\ state[s].status = "open"
  /\ state' = [state EXCEPT ![s].status = "expired"]
  /\ UNCHANGED <<account, vault, req, grant, faults>>

-----------------------------------------------------------------------------
\* complete_callback on a provider's route: the conditional update that spends the state.
\* Any other callback is refused, and changes nothing.
Claim(c, s, route) ==
  /\ Turn
  /\ req[c] = Idle
  /\ state[s].status = "open"
  /\ ProviderOf(state[s].slot) = route
  /\ state' = [state EXCEPT ![s].status = "consumed"]
  /\ Goes(c, [Idle EXCEPT !.at = "claimed", !.slot = state[s].slot, !.from = s])
  /\ UNCHANGED <<account, vault, grant, faults>>

\* The two routes that Google redirects to.
GmailCallback(c, s) == Claim(c, s, Gmail)
CalendarCallback(c, s) == \E p \in Providers \ {Gmail} : Claim(c, s, p)

\* exchange_code: Google says who consented, and it is whom the mailbox expects.
Consents(c, g) == g \in Matches[req[c].slot[1]]

\* The Google account is connected, for this provider, by somebody else: the rows are searched
\* by subject, if there is one.
Elsewhere(slot, g) ==
  /\ g \in Subjects
  /\ \E a \in Slots : /\ ProviderOf(a) = ProviderOf(slot)
                      /\ account[a].status = "connected" /\ account[a].google = g
                      /\ OwnerOf(a) # OwnerOf(slot)

\* Mutant of Exchange: whoever has connected the account before does not matter.
ExchangeAnywhere(c, g) ==
  /\ req[c].at = "claimed"
  /\ Consents(c, g)
  /\ Goes(c, [req[c] EXCEPT !.at = "checked", !.google = g])
  /\ UNCHANGED <<state, account, vault, grant, faults>>

\* The mismatch rules.
Exchange(c, g) ==
  /\ req[c].at = "claimed"
  /\ Consents(c, g)
  /\ ~Elsewhere(req[c].slot, g)
  /\ Goes(c, [req[c] EXCEPT !.at = "checked", !.google = g])
  /\ UNCHANGED <<state, account, vault, grant, faults>>

\* exchange_code raises, or a rule refuses: the state stays consumed.
Refuse(c) ==
  /\ req[c].at = "claimed"
  /\ Goes(c, Idle)
  /\ UNCHANGED <<state, account, vault, grant, faults>>

\* store_refresh_token under a new ref.
StoreToken(c, r) ==
  /\ req[c].at = "checked"
  /\ vault[r].status = "unused"
  /\ vault' = [vault EXCEPT ![r] = [status |-> "held", slot |-> req[c].slot,
                                    google |-> req[c].google, from |-> req[c].from]]
  /\ Goes(c, [req[c] EXCEPT !.at = "stored", !.ref = r])
  /\ UNCHANGED <<state, account, grant, faults>>

\* The row is read; a reconnect drops the previous vault entry, and a failure to do so
\* is swallowed.
ReplaceToken(c) ==
  LET old == account[req[c].slot].ref
  IN  /\ req[c].at = "stored"
      /\ \/ /\ old = None
            /\ UNCHANGED <<vault, faults>>
         \/ /\ old # None
            /\ Drop(old)
            /\ UNCHANGED faults
         \/ /\ old # None /\ faults < MaxFaults
            /\ faults' = faults + 1
            /\ UNCHANGED vault
      /\ Goes(c, [req[c] EXCEPT !.at = "replaced", !.seen = account[req[c].slot]])
      /\ UNCHANGED <<state, account, grant>>

\* The commit of the row; two inserts of one slot collide on its unique constraint.
Connect(c) ==
  LET a == req[c].slot
      new == [status |-> "connected", ref |-> req[c].ref, google |-> req[c].google]
  IN  /\ req[c].at = "replaced"
      /\ req[c].seen.status = "absent" => account[a].status = "absent"
      /\ account' = [account EXCEPT ![a] = Merge(@, req[c].seen, new)]
      /\ Goes(c, Idle)
      /\ UNCHANGED <<state, vault, grant, faults>>

-----------------------------------------------------------------------------
\* disconnect_account reads the row ...
DisconnectRead(c, a) ==
  /\ Turn
  /\ req[c] = Idle
  /\ account[a].status = "connected"
  /\ Goes(c, [Idle EXCEPT !.at = "read", !.slot = a, !.seen = account[a]])
  /\ UNCHANGED <<state, account, vault, grant, faults>>

\* ... for the owner, or for an administrator of the tenant.
OwnerDisconnects(c, a) == DisconnectRead(c, a)
AdminDisconnects(c, a) == DisconnectRead(c, a)

DisconnectRevoke(c) ==
  /\ req[c].at = "read"
  /\ Goes(c, [req[c] EXCEPT !.at = "revoked"])
  /\ Drop(req[c].seen.ref)
  /\ UNCHANGED <<state, account, grant, faults>>

\* Mutant of Disconnect: a status the table allows and the code never writes.
DisconnectAsRevoked(c) ==
  LET new == [req[c].seen EXCEPT !.status = "revoked", !.ref = None]
  IN  /\ req[c].at = "revoked"
      /\ account' = [account EXCEPT ![req[c].slot] = Merge(@, req[c].seen, new)]
      /\ Goes(c, Idle)
      /\ UNCHANGED <<state, vault, grant, faults>>

\* Mutant of Disconnect: the row keeps its ref.
DisconnectKeepsRef(c) ==
  LET new == [req[c].seen EXCEPT !.status = "disconnected"]
  IN  /\ req[c].at = "revoked"
      /\ account' = [account EXCEPT ![req[c].slot] = Merge(@, req[c].seen, new)]
      /\ Goes(c, Idle)
      /\ UNCHANGED <<state, vault, grant, faults>>

Disconnect(c) ==
  LET new == [req[c].seen EXCEPT !.status = "disconnected", !.ref = None]
  IN  /\ req[c].at = "revoked"
      /\ account' = [account EXCEPT ![req[c].slot] = Merge(@, req[c].seen, new)]
      /\ Goes(c, Idle)
      /\ UNCHANGED <<state, vault, grant, faults>>

\* The vault or the database raises, or the process dies, before the next step.
Fail(c) ==
  /\ req[c].at # "idle"
  /\ faults < MaxFaults
  /\ faults' = faults + 1
  /\ Goes(c, Idle)
  /\ UNCHANGED <<state, account, vault, grant>>

-----------------------------------------------------------------------------
\* resolve_gmail_grant: the connected account's ref ...
ResolveGrant(w, m) ==
  LET a == account[<<m, Gmail>>]
  IN  /\ grant[w] = NoGrant
      /\ a.status = "connected" /\ a.ref # None
      /\ grant' = [grant EXCEPT ![w] = [mailbox |-> m, ref |-> a.ref]]
      /\ UNCHANGED <<state, account, vault, req, faults>>

\* ... and an access token minted by the vault, or VaultKeyError if it has gone.
Mint(w) ==
  /\ grant[w] # NoGrant
  /\ grant' = [grant EXCEPT ![w] = NoGrant]
  /\ UNCHANGED <<state, account, vault, req, faults>>

-----------------------------------------------------------------------------
Next ==
  \/ \E s \in States : StateExpires(s) \/ \E a \in Slots : StartConnect(s, a)
  \/ \E c \in Requests :
       \/ \E s \in States : GmailCallback(c, s) \/ CalendarCallback(c, s)
       \/ \E g \in Googles : Exchange(c, g)
       \/ Refuse(c)
       \/ \E r \in Refs : StoreToken(c, r)
       \/ ReplaceToken(c)
       \/ Connect(c)
       \/ \E a \in Slots : OwnerDisconnects(c, a) \/ AdminDisconnects(c, a)
       \/ DisconnectRevoke(c)
       \/ Disconnect(c)
       \/ Fail(c)
  \/ \E w \in Workers : Mint(w) \/ \E m \in Mailboxes : ResolveGrant(w, m)

Spec == Init /\ [][Next]_vars

-----------------------------------------------------------------------------
\* Properties.

TypeOK ==
  /\ state \in [States -> State]
  /\ account \in [Slots -> Account]
  /\ vault \in [Refs -> Secret]
  /\ req \in [Requests -> Request]
  /\ grant \in [Workers -> Grant]
  /\ faults \in 0..MaxFaults

\* A state is spent by one callback: a redirect that is repeated, or delivered to two
\* processes, never stores a second token.
StateSpentOnce ==
  \A q, r \in Refs : vault[q].from # None /\ vault[q].from = vault[r].from => q = r

\* "This Google account is connected elsewhere": no two owners have it connected, if its
\* subject is known.
OneOwnerPerGoogle ==
  \A a, b \in Slots :
     /\ account[a].status = "connected" /\ account[b].status = "connected"
     /\ ProviderOf(a) = ProviderOf(b) /\ account[a].google = account[b].google
     /\ account[a].google \in Subjects
     => OwnerOf(a) = OwnerOf(b)

\* A token in the vault that no row names and no request is about to name.
Orphans ==
  {r \in Refs : /\ vault[r].status = "held"
                /\ \A a \in Slots : account[a].ref # r
                /\ \A c \in Requests : req[c].ref # r}

\* "Never orphan a live token": each one is the trace of one failed step.
OrphansAreFaults == Cardinality(Orphans) <= faults

\* A connected account has its token, unless a request that drops it is under way or has
\* failed.
Dangling ==
  {a \in Slots : /\ account[a].status = "connected"
                 /\ vault[account[a].ref].status # "held"
                 /\ \A c \in Requests : req[c].slot # a}
DanglingAreFaults == Cardinality(Dangling) <= faults

\* A disconnected account names no token, a connected one names a token of its own
\* mailbox and provider, of a Google account its mailbox expects, and a job reads mail
\* with a token of its own mailbox's Gmail account.
RowsNameTheirTokens ==
  /\ \A a \in Slots :
       IF account[a].status = "connected"
       THEN /\ vault[account[a].ref].slot = a
            /\ vault[account[a].ref].google = account[a].google
            /\ account[a].google \in Matches[a[1]]
       ELSE account[a].ref = None
  /\ \A w \in Workers :
       grant[w].ref # None => vault[grant[w].ref].slot = <<grant[w].mailbox, Gmail>>

\* Tokens and rows agree as far as a vault outside the database's transactions allows.
TokensHold == StateSpentOnce /\ OrphansAreFaults /\ DanglingAreFaults /\ RowsNameTheirTokens
=============================================================================
