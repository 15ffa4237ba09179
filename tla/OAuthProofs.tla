----------------------------- MODULE OAuthProofs -----------------------------
(***************************************************************************)
(* Provider accounts and their tokens, for any mailboxes, providers,       *)
(* requests and workers: the types; and, with one API process, the owners  *)
(* of Google accounts and what a vault outside the transaction may cost.   *)
(***************************************************************************)
EXTENDS OAuthVault, FiniteSetTheorems, TLAPS

\* What a request is about, and what a state is bound to.
Aimed == /\ \A c \in Requests : req[c].at # "idle" => req[c].slot \in Slots
         /\ \A s \in States : state[s].status = "open" => state[s].slot \in Slots

TypeInv == TypeOK /\ Aimed

-----------------------------------------------------------------------------
LEMMA IdleIsARequest == Idle \in Request /\ Idle.at = "idle" /\ Idle.ref = None /\ Idle.slot = None
  BY DEF Idle, Request, Account, NoAccount

LEMMA InitTyped == Init => TypeInv
  BY IdleIsARequest, OAuthConstants
  DEF Init, TypeInv, TypeOK, Aimed, State, Account, Secret, Grant, NoState, NoAccount, NoSecret, NoGrant

\* A request that goes on, or ends, keeps the types if its record does.
LEMMA GoesKeepsTypes ==
  ASSUME TypeInv, NEW c \in Requests, NEW q \in Request, q.at # "idle" => q.slot \in Slots,
         Goes(c, q), UNCHANGED state
  PROVE  req' \in [Requests -> Request] /\ Aimed'
  BY DEF TypeInv, TypeOK, Aimed, Goes

LEMMA MergeTyped ==
  ASSUME NEW x \in Account, NEW y \in Account, NEW z \in Account
  PROVE  Merge(x, y, z) \in Account
  BY DEF Merge, Account

LEMMA NextTyped == ASSUME TypeInv, [Next]_vars PROVE TypeInv'
<1> USE DEF TypeInv
<1>0. /\ state \in [States -> State] /\ account \in [Slots -> Account] /\ vault \in [Refs -> Secret]
      /\ req \in [Requests -> Request] /\ grant \in [Workers -> Grant] /\ faults \in 0..MaxFaults
  BY DEF TypeOK
<1>f. MaxFaults \in Nat BY OAuthConstants
<1>i. Idle \in Request BY IdleIsARequest
<1>1. ASSUME NEW s \in States, NEW a \in Slots, StartConnect(s, a) PROVE TypeInv'
  BY <1>1 DEF StartConnect, TypeOK, Aimed, State
<1>2. ASSUME NEW s \in States, StateExpires(s) PROVE TypeInv'
  BY <1>2 DEF StateExpires, TypeOK, Aimed, State
<1>3. ASSUME NEW c \in Requests, NEW s \in States, NEW p \in Providers, Claim(c, s, p) PROVE TypeInv'
  <2>1. state[s].slot \in Slots BY <1>3 DEF Claim, Aimed
  <2>2. [Idle EXCEPT !.at = "claimed", !.slot = state[s].slot, !.from = s] \in Request
    BY <2>1, <1>i DEF Request
  <2> QED BY <1>3, <2>1, <2>2, <1>0 DEF Claim, Goes, TypeOK, Aimed, State, Request, Idle
<1>4. ASSUME NEW c \in Requests, NEW g \in Googles, Exchange(c, g) PROVE TypeInv'
  <2>1. [req[c] EXCEPT !.at = "checked", !.google = g] \in Request BY <1>0 DEF Request
  <2>2. req[c].slot \in Slots BY <1>4 DEF Exchange, Aimed
  <2> QED BY <1>4, <2>1, <2>2, <1>0, GoesKeepsTypes DEF Exchange, TypeOK, Request
<1>5. ASSUME NEW c \in Requests, Refuse(c) PROVE TypeInv'
  BY <1>5, <1>i, IdleIsARequest, GoesKeepsTypes DEF Refuse, TypeOK
<1>6. ASSUME NEW c \in Requests, NEW r \in Refs, StoreToken(c, r) PROVE TypeInv'
  <2>1. [req[c] EXCEPT !.at = "stored", !.ref = r] \in Request BY <1>0 DEF Request
  <2>2. req[c].slot \in Slots BY <1>6 DEF StoreToken, Aimed
  <2>3. [status |-> "held", slot |-> req[c].slot, google |-> req[c].google, from |-> req[c].from] \in Secret
    BY <1>0 DEF Request, Secret
  <2>4. vault' \in [Refs -> Secret] BY <1>0, <1>6, <2>3 DEF StoreToken
  <2> QED BY <1>6, <2>1, <2>2, <2>4, <1>0, GoesKeepsTypes DEF StoreToken, TypeOK, Request
<1>7. ASSUME NEW c \in Requests, ReplaceToken(c) PROVE TypeInv'
  <2>1. req[c].slot \in Slots BY <1>7 DEF ReplaceToken, Aimed
  <2>2. [req[c] EXCEPT !.at = "replaced", !.seen = account[req[c].slot]] \in Request
    BY <1>0, <2>1 DEF Request
  <2>3. vault' \in [Refs -> Secret] BY <1>0, <1>7 DEF ReplaceToken, Drop, Secret
  <2>4. faults' \in 0..MaxFaults BY <1>0, <1>f, <1>7 DEF ReplaceToken
  <2> QED BY <1>7, <2>1, <2>2, <2>3, <2>4, <1>0, GoesKeepsTypes DEF ReplaceToken, TypeOK, Request
<1>8. ASSUME NEW c \in Requests, Connect(c) PROVE TypeInv'
  <2>1. req[c].slot \in Slots BY <1>8 DEF Connect, Aimed
  <2>2. [status |-> "connected", ref |-> req[c].ref, google |-> req[c].google] \in Account
    BY <1>0 DEF Request, Account
  <2>3. req[c].seen \in Account BY <1>0 DEF Request
  <2>4. account' \in [Slots -> Account] BY <1>0, <1>8, <2>1, <2>2, <2>3, MergeTyped DEF Connect
  <2> QED BY <1>8, <2>4, <1>0, <1>i, IdleIsARequest, GoesKeepsTypes DEF Connect, TypeOK
<1>9. ASSUME NEW c \in Requests, NEW a \in Slots, DisconnectRead(c, a) PROVE TypeInv'
  <2>1. [Idle EXCEPT !.at = "read", !.slot = a, !.seen = account[a]] \in Request
    BY <1>0, <1>i DEF Request
  <2>2. [Idle EXCEPT !.at = "read", !.slot = a, !.seen = account[a]].slot = a BY DEF Idle
  <2> QED BY <1>9, <2>1, <2>2, <1>0, GoesKeepsTypes DEF DisconnectRead, TypeOK
<1>10. ASSUME NEW c \in Requests, DisconnectRevoke(c) PROVE TypeInv'
  <2>1. [req[c] EXCEPT !.at = "revoked"] \in Request BY <1>0 DEF Request
  <2>2. req[c].slot \in Slots BY <1>10 DEF DisconnectRevoke, Aimed
  <2>3. vault' \in [Refs -> Secret] BY <1>0, <1>10 DEF DisconnectRevoke, Drop, Secret
  <2> QED BY <1>10, <2>1, <2>2, <2>3, <1>0, GoesKeepsTypes DEF DisconnectRevoke, TypeOK, Request
<1>11. ASSUME NEW c \in Requests, Disconnect(c) PROVE TypeInv'
  <2>1. req[c].seen \in Account BY <1>0 DEF Request
  <2>2. [req[c].seen EXCEPT !.status = "disconnected", !.ref = None] \in Account BY <2>1 DEF Account
  <2>3. account' \in [Slots -> Account] BY <1>0, <1>11, <2>1, <2>2, MergeTyped DEF Disconnect
  <2> QED BY <1>11, <2>3, <1>0, <1>i, IdleIsARequest, GoesKeepsTypes DEF Disconnect, TypeOK
<1>12. ASSUME NEW c \in Requests, Fail(c) PROVE TypeInv'
  <2>1. faults' \in 0..MaxFaults BY <1>0, <1>f, <1>12 DEF Fail
  <2> QED BY <1>12, <2>1, <1>0, <1>i, IdleIsARequest, GoesKeepsTypes DEF Fail, TypeOK
<1>13. ASSUME NEW w \in Workers, Mint(w) \/ \E m \in Mailboxes : ResolveGrant(w, m) PROVE TypeInv'
  <2>1. ASSUME NEW m \in Mailboxes, ResolveGrant(w, m) PROVE grant' \in [Workers -> Grant]
    <3>1. <<m, Gmail>> \in Slots BY OAuthConstants DEF Slots
    <3> QED BY <1>0, <2>1, <3>1 DEF ResolveGrant, Account, Grant
  <2>2. grant' \in [Workers -> Grant] BY <1>0, <1>13, <2>1 DEF Mint, NoGrant, Grant
  <2> QED BY <1>13, <2>2, <1>0 DEF Mint, ResolveGrant, TypeOK, Aimed
<1>14. CASE UNCHANGED vars BY <1>14 DEF vars, TypeOK, Aimed
<1> QED
  BY <1>1, <1>2, <1>3, <1>4, <1>5, <1>6, <1>7, <1>8, <1>9, <1>10, <1>11, <1>12, <1>13, <1>14, OAuthConstants
  DEF Next, GmailCallback, CalendarCallback, OwnerDisconnects, AdminDisconnects

\* Every row, secret and request keeps its type, however many API processes serve.
THEOREM TypeCorrect == Spec => []TypeOK
<1>1. TypeInv => TypeOK BY DEF TypeInv
<1> QED BY <1>1, InitTyped, NextTyped, PTL DEF Spec

-----------------------------------------------------------------------------
\* One request at a time.
Single == /\ \A c \in Requests : req[c].at = "idle" => req[c] = Idle
          /\ \A c, d \in Requests : c # d => req[c] = Idle \/ req[d] = Idle

\* A state that is not spent has brought no token, and the request that has spent one has
\* brought none with it yet.
Unspent == \A s \in States : state[s].status # "consumed" => \A r \in Refs : vault[r].from # s

Spends(c) ==
  req[c].at \in {"claimed", "checked"} =>
    /\ req[c].from \in States
    /\ state[req[c].from].status = "consumed"
    /\ \A r \in Refs : vault[r].from # req[c].from

\* The Google account was free when it was checked, and is.
Checks(c) ==
  req[c].at \in {"checked", "stored", "replaced"} =>
    req[c].google \in Matches[req[c].slot[1]] /\ ~Elsewhere(req[c].slot, req[c].google)

\* The token a request has stored is held, and no row names it yet.
Carries(c) ==
  IF req[c].at \in {"stored", "replaced"}
  THEN /\ req[c].ref \in Refs
       /\ vault[req[c].ref].status = "held"
       /\ vault[req[c].ref].slot = req[c].slot
       /\ vault[req[c].ref].google = req[c].google
       /\ \A a \in Slots : account[a].ref # req[c].ref
  ELSE req[c].ref = None

\* The row a request has read is as it was read.
Saw(c) ==
  /\ req[c].at \in {"replaced", "read", "revoked"} => req[c].seen = account[req[c].slot]
  /\ req[c].at \in {"read", "revoked"} => account[req[c].slot].status = "connected"
  /\ req[c].at = "revoked" => vault[account[req[c].slot].ref].status # "held"

RequestHolds(c) == Spends(c) /\ Checks(c) /\ Carries(c) /\ Saw(c)

\* Refs that are named have been used.
Named == /\ \A a \in Slots : /\ account[a].ref # None => vault[account[a].ref].status # "unused"
                             /\ account[a].status = "connected" => account[a].ref # None
         /\ \A w \in Workers : grant[w].ref # None => vault[grant[w].ref].status # "unused"

\* Tokens that will be orphans once the row is committed: their revocation was swallowed.
Pending == {r \in Refs : /\ vault[r].status = "held"
                         /\ \E c \in Requests : req[c].at = "replaced" /\ req[c].seen.ref = r}

Owed == Orphans \cup Pending
OwedPaid == IsFiniteSet(Owed) /\ Cardinality(Owed) <= faults

\* Rows without their token; those excepted that a request is about to write.
Loose == {a \in Slots : /\ account[a].status = "connected"
                        /\ vault[account[a].ref].status # "held"
                        /\ \A c \in Requests : req[c].at \in {"replaced", "revoked"} => req[c].slot # a}
LoosePaid == IsFiniteSet(Loose) /\ Cardinality(Loose) <= faults

Vaulted == /\ Single /\ Unspent /\ Named
           /\ \A c \in Requests : RequestHolds(c)
           /\ OneOwnerPerGoogle /\ StateSpentOnce /\ RowsNameTheirTokens
           /\ OwedPaid /\ LoosePaid

LEMMA CostIsCounted == TypeInv => faults \in Nat /\ MaxFaults \in Nat
  BY OAuthConstants DEF TypeInv, TypeOK

LEMMA NoMore ==
  ASSUME NEW S, NEW T, IsFiniteSet(S), NEW n \in Nat, Cardinality(S) <= n, T \subseteq S
  PROVE  IsFiniteSet(T) /\ Cardinality(T) <= n
<1>1. IsFiniteSet(T) /\ Cardinality(T) <= Cardinality(S) BY FS_Subset
<1>2. Cardinality(T) \in Nat /\ Cardinality(S) \in Nat BY <1>1, FS_CardinalityType
<1> QED BY <1>1, <1>2

LEMMA OneMore ==
  ASSUME NEW S, NEW T, NEW x, IsFiniteSet(S), NEW n \in Nat, Cardinality(S) <= n, T \subseteq S \cup {x}
  PROVE  IsFiniteSet(T) /\ Cardinality(T) <= n + 1
<1>1. IsFiniteSet(S \cup {x}) BY FS_AddElement
<1>2. Cardinality(S) \in Nat BY FS_CardinalityType
<1>3. Cardinality(S \cup {x}) <= n + 1
  <2>1. Cardinality(S \cup {x}) = IF x \in S THEN Cardinality(S) ELSE Cardinality(S) + 1
    BY FS_AddElement
  <2> QED BY <1>2, <2>1
<1> QED BY <1>1, <1>3, NoMore

LEMMA Alone ==
  ASSUME Single, NEW c \in Requests, req[c].at # "idle"
  PROVE  \A d \in Requests : d # c => req[d] = Idle
  BY IdleIsARequest DEF Single

LEMMA TurnIsQuiet ==
  ASSUME Single, ~Overlap, Turn
  PROVE  \A d \in Requests : req[d] = Idle
  BY DEF Single, Turn

LEMMA StepsAlone ==
  ASSUME TypeInv, NEW c \in Requests, \A d \in Requests : d # c => req[d] = Idle,
         NEW q, Goes(c, q), q.at = "idle" => q = Idle
  PROVE  Single' /\ req'[c] = q /\ \A d \in Requests : d # c => req'[d] = Idle
  BY IdleIsARequest DEF TypeInv, TypeOK, Single, Goes

\* What is to be shown of a step of a request: it alone is under way.
LEMMA Settles ==
  ASSUME NEW c \in Requests, Single', \A d \in Requests : d # c => req'[d] = Idle,
         Unspent', Spends(c)', Checks(c)', Carries(c)', Saw(c)', Named', OneOwnerPerGoogle',
         StateSpentOnce', RowsNameTheirTokens', OwedPaid', LoosePaid'
  PROVE  Vaulted'
<1>1. ASSUME NEW d \in Requests PROVE RequestHolds(d)'
  <2>1. CASE d = c BY <2>1 DEF RequestHolds
  <2>2. CASE d # c
    BY <2>2, IdleIsARequest DEF RequestHolds, Spends, Checks, Carries, Saw
  <2> QED BY <2>1, <2>2
<1> QED BY <1>1 DEF Vaulted

\* A request that only begins, checks or gives up.
LEMMA QuietStep ==
  ASSUME TypeInv, Vaulted, NEW c \in Requests, \A d \in Requests : d # c => req[d] = Idle,
         NEW q, Goes(c, q), q.at = "idle" => q = Idle, q.ref = None,
         req[c].at \in {"idle", "claimed"}, q.at \in {"idle", "claimed", "checked", "read"},
         UNCHANGED <<account, vault, grant, faults>>,
         Unspent', Spends(c)', Checks(c)', Saw(c)'
  PROVE  Vaulted'
<1>1. Single' /\ req'[c] = q /\ \A d \in Requests : d # c => req'[d] = Idle BY StepsAlone
<1>2. Carries(c)' BY <1>1 DEF Carries
<1>3. Named' BY DEF Vaulted, Named
<1>4. OneOwnerPerGoogle' BY DEF Vaulted, OneOwnerPerGoogle
<1>5. StateSpentOnce' BY DEF Vaulted, StateSpentOnce
<1>6. RowsNameTheirTokens' BY DEF Vaulted, RowsNameTheirTokens
<1>7. req[c].ref = None BY DEF Vaulted, RequestHolds, Carries
<1>8. \A d \in Requests : req[d].ref = None /\ req[d].at \notin {"replaced", "revoked"}
  BY <1>7, IdleIsARequest
<1>9. Owed' \subseteq Owed
  BY <1>1, <1>8, IdleIsARequest, OAuthConstants DEF Owed, Orphans, Pending
<1>10. Loose' \subseteq Loose BY <1>8 DEF Loose
<1>11. OwedPaid' BY <1>9, NoMore, CostIsCounted DEF Vaulted, OwedPaid
<1>12. LoosePaid' BY <1>10, NoMore, CostIsCounted DEF Vaulted, LoosePaid
<1> QED BY <1>1, <1>2, <1>3, <1>4, <1>5, <1>6, <1>11, <1>12, Settles

LEMMA ClaimHolds ==
  ASSUME TypeInv, Vaulted, ~Overlap, NEW c \in Requests, NEW s \in States, NEW p \in Providers,
         Claim(c, s, p)
  PROVE  Vaulted'
<1> DEFINE q == [Idle EXCEPT !.at = "claimed", !.slot = state[s].slot, !.from = s]
<1>1. \A d \in Requests : req[d] = Idle BY TurnIsQuiet DEF Vaulted, Claim
<1>2. q.at = "claimed" /\ q.from = s /\ q.ref = None BY DEF Idle
<1>3. /\ Goes(c, q) /\ UNCHANGED <<account, vault, grant, faults>>
      /\ state' = [state EXCEPT ![s].status = "consumed"]
  BY DEF Claim
<1>4. req'[c] = q BY <1>1, <1>2, <1>3, StepsAlone
<1>5. \A r \in Refs : vault[r].from # s BY DEF Claim, Vaulted, Unspent
<1>6. \A t \in States : t # s => state'[t] = state[t] BY <1>3 DEF TypeInv, TypeOK
<1>7. state'[s].status = "consumed" BY <1>3 DEF TypeInv, TypeOK, State
<1>8. Unspent' BY <1>3, <1>6, <1>7 DEF Vaulted, Unspent
<1>9. Spends(c)' /\ Checks(c)' /\ Saw(c)' BY <1>2, <1>3, <1>4, <1>5, <1>7 DEF Spends, Checks, Saw
<1> HIDE DEF q
<1> QED BY <1>1, <1>2, <1>3, <1>8, <1>9, QuietStep, IdleIsARequest

LEMMA ExchangeHolds ==
  ASSUME TypeInv, Vaulted, NEW c \in Requests, NEW g \in Googles, Exchange(c, g)
  PROVE  Vaulted'
<1> DEFINE q == [req[c] EXCEPT !.at = "checked", !.google = g]
<1>0. req[c] \in Request /\ req[c].at = "claimed" BY DEF TypeInv, TypeOK, Exchange
<1>1. \A d \in Requests : d # c => req[d] = Idle BY <1>0, Alone DEF Vaulted
<1>2. q.at = "checked" /\ q.from = req[c].from /\ q.ref = req[c].ref /\ q.google = g /\ q.slot = req[c].slot
  BY <1>0 DEF Request
<1>3. Goes(c, q) /\ UNCHANGED <<state, account, vault, grant, faults>> BY DEF Exchange
<1>4. req'[c] = q BY <1>1, <1>2, <1>3, StepsAlone
<1>5. Unspent' BY <1>3 DEF Vaulted, Unspent
<1>6. Spends(c)' BY <1>0, <1>2, <1>3, <1>4 DEF Vaulted, RequestHolds, Spends
<1>7. Checks(c)' BY <1>2, <1>3, <1>4 DEF Exchange, Consents, Checks, Elsewhere
<1>8. Saw(c)' BY <1>2, <1>4 DEF Saw
<1>9. q.ref = None BY <1>0, <1>2 DEF Vaulted, RequestHolds, Carries
<1> HIDE DEF q
<1> QED BY <1>0, <1>1, <1>2, <1>3, <1>5, <1>6, <1>7, <1>8, <1>9, QuietStep

LEMMA RefuseHolds ==
  ASSUME TypeInv, Vaulted, NEW c \in Requests, Refuse(c)
  PROVE  Vaulted'
<1>1. \A d \in Requests : d # c => req[d] = Idle BY Alone DEF Vaulted, Refuse
<1>2. Goes(c, Idle) /\ UNCHANGED <<state, account, vault, grant, faults>> BY DEF Refuse
<1>3. req'[c] = Idle BY <1>1, <1>2, StepsAlone
<1>4. Unspent' BY <1>2 DEF Vaulted, Unspent
<1>5. Spends(c)' /\ Checks(c)' /\ Saw(c)' BY <1>3, IdleIsARequest DEF Spends, Checks, Saw
<1> QED BY <1>1, <1>2, <1>4, <1>5, QuietStep, IdleIsARequest DEF Refuse

LEMMA DisconnectReadHolds ==
  ASSUME TypeInv, Vaulted, ~Overlap, NEW c \in Requests, NEW a \in Slots, DisconnectRead(c, a)
  PROVE  Vaulted'
<1> DEFINE q == [Idle EXCEPT !.at = "read", !.slot = a, !.seen = account[a]]
<1>1. \A d \in Requests : req[d] = Idle BY TurnIsQuiet DEF Vaulted, DisconnectRead
<1>2. q.at = "read" /\ q.ref = None /\ q.slot = a /\ q.seen = account[a] BY DEF Idle
<1>3. Goes(c, q) /\ UNCHANGED <<state, account, vault, grant, faults>> BY DEF DisconnectRead
<1>4. req'[c] = q BY <1>1, <1>2, <1>3, StepsAlone
<1>5. Unspent' BY <1>3 DEF Vaulted, Unspent
<1>6. Spends(c)' /\ Checks(c)' BY <1>2, <1>4 DEF Spends, Checks
<1>7. Saw(c)' BY <1>2, <1>3, <1>4 DEF Saw, DisconnectRead
<1> HIDE DEF q
<1> QED BY <1>1, <1>2, <1>3, <1>5, <1>6, <1>7, QuietStep, IdleIsARequest

LEMMA StoreTokenHolds ==
  ASSUME TypeInv, Vaulted, NEW c \in Requests, NEW r \in Refs, StoreToken(c, r)
  PROVE  Vaulted'
<1> DEFINE q == [req[c] EXCEPT !.at = "stored", !.ref = r]
           new == [status |-> "held", slot |-> req[c].slot, google |-> req[c].google, from |-> req[c].from]
<1>0. req[c] \in Request /\ req[c].at = "checked" BY DEF TypeInv, TypeOK, StoreToken
<1>1. \A d \in Requests : d # c => req[d] = Idle BY <1>0, Alone DEF Vaulted
<1>2. /\ q.at = "stored" /\ q.ref = r /\ q.slot = req[c].slot /\ q.google = req[c].google
      /\ q.from = req[c].from
  BY <1>0 DEF Request
<1>3. /\ Goes(c, q) /\ UNCHANGED <<state, account, grant, faults>>
      /\ vault[r].status = "unused" /\ vault' = [vault EXCEPT ![r] = new]
  BY DEF StoreToken
<1>4. Single' /\ req'[c] = q /\ \A d \in Requests : d # c => req'[d] = Idle
  BY <1>1, <1>2, <1>3, StepsAlone
<1> HIDE DEF q
<1>5. /\ vault'[r] = new /\ \A x \in Refs : x # r => vault'[x] = vault[x]
  BY <1>3 DEF TypeInv, TypeOK
<1>6. \A a \in Slots : /\ account[a].ref # r
                       /\ account[a].status = "connected" => vault'[account[a].ref] = vault[account[a].ref]
  <2>1. ASSUME NEW a \in Slots PROVE account[a].ref # r
    BY <1>3, OAuthConstants DEF Vaulted, Named
  <2>2. ASSUME NEW a \in Slots, account[a].status = "connected" PROVE account[a].ref \in Refs
    BY <2>2 DEF Vaulted, Named, TypeInv, TypeOK, Account
  <2> QED BY <1>5, <2>1, <2>2
<1>7. \A w \in Workers : grant[w].ref # r /\ (grant[w].ref # None => grant[w].ref \in Refs)
  BY <1>3, OAuthConstants DEF Vaulted, Named, TypeInv, TypeOK, Grant
<1>8. Spends(c) /\ Checks(c) /\ Carries(c) BY DEF Vaulted, RequestHolds
<1>9. Unspent' BY <1>0, <1>3, <1>5, <1>8 DEF Vaulted, Unspent, Spends
<1>10. Spends(c)' /\ Saw(c)' BY <1>2, <1>4 DEF Spends, Saw
<1>11. Checks(c)' BY <1>0, <1>2, <1>3, <1>4, <1>8 DEF Checks, Elsewhere
<1>12. Carries(c)' BY <1>2, <1>3, <1>4, <1>5, <1>6 DEF Carries
<1>13. Named'
  <2>1. \A a \in Slots : account[a].ref # None => account[a].ref \in Refs
    BY DEF TypeInv, TypeOK, Account
  <2> QED BY <1>3, <1>5, <1>6, <1>7, <2>1 DEF Vaulted, Named
<1>14. OneOwnerPerGoogle' BY <1>3 DEF Vaulted, OneOwnerPerGoogle
<1>15. StateSpentOnce' BY <1>0, <1>5, <1>8 DEF Vaulted, StateSpentOnce, Spends
<1>16. RowsNameTheirTokens' BY <1>3, <1>5, <1>6, <1>7 DEF Vaulted, RowsNameTheirTokens
<1>17. Owed' \subseteq Owed
  <2>1. \A d \in Requests : req[d].ref = None /\ req[d].at # "replaced"
    BY <1>0, <1>1, <1>8, IdleIsARequest DEF Carries
  <2>2. Pending' = {} BY <1>2, <1>4, IdleIsARequest DEF Pending
  <2>3. Orphans' \subseteq Orphans BY <1>2, <1>3, <1>4, <1>5, <2>1, OAuthConstants DEF Orphans
  <2> QED BY <2>2, <2>3 DEF Owed
<1>18. Loose' \subseteq Loose
  <2>1. \A d \in Requests : req[d].at \notin {"replaced", "revoked"} BY <1>0, <1>1, IdleIsARequest
  <2> QED BY <1>3, <1>6, <2>1 DEF Loose
<1>19. OwedPaid' BY <1>3, <1>17, NoMore, CostIsCounted DEF Vaulted, OwedPaid
<1>20. LoosePaid' BY <1>3, <1>18, NoMore, CostIsCounted DEF Vaulted, LoosePaid
<1> QED BY <1>4, <1>9, <1>10, <1>11, <1>12, <1>13, <1>14, <1>15, <1>16, <1>19, <1>20, Settles

\* What dropping the token of a row's own slot does to the rows.
LEMMA DropFrame ==
  ASSUME TypeInv, Vaulted, NEW a \in Slots, account[a].ref # None, Drop(account[a].ref),
         UNCHANGED <<state, account, grant>>
  PROVE  /\ vault'[account[a].ref].status = "gone"
         /\ \A r \in Refs : /\ r # account[a].ref => vault'[r] = vault[r]
                            /\ vault'[r].slot = vault[r].slot /\ vault'[r].google = vault[r].google
                            /\ vault'[r].from = vault[r].from
                            /\ vault'[r].status = "unused" => vault[r].status = "unused"
                            /\ vault'[r].status = "held" => vault[r].status = "held"
         /\ Unspent' /\ Named' /\ OneOwnerPerGoogle' /\ StateSpentOnce' /\ RowsNameTheirTokens'
<1>1. account[a].ref \in Refs BY DEF TypeInv, TypeOK, Account
<1>2. /\ vault'[account[a].ref].status = "gone"
      /\ \A r \in Refs : /\ r # account[a].ref => vault'[r] = vault[r]
                         /\ vault'[r].slot = vault[r].slot /\ vault'[r].google = vault[r].google
                         /\ vault'[r].from = vault[r].from
                         /\ vault'[r].status \in {vault[r].status, "gone"}
  BY <1>1 DEF Drop, TypeInv, TypeOK, Secret
<1>3. Unspent' BY <1>2 DEF Vaulted, Unspent
<1>4. Named'
  <2>1. \A b \in Slots : account[b].ref # None => account[b].ref \in Refs
    BY DEF TypeInv, TypeOK, Account
  <2>2. \A w \in Workers : grant[w].ref # None => grant[w].ref \in Refs
    BY DEF TypeInv, TypeOK, Grant
  <2> QED BY <1>2, <2>1, <2>2 DEF Vaulted, Named
<1>5. OneOwnerPerGoogle' BY DEF Vaulted, OneOwnerPerGoogle
<1>6. StateSpentOnce' BY <1>2 DEF Vaulted, StateSpentOnce
<1>7. RowsNameTheirTokens'
  <2>1. \A b \in Slots : account[b].status = "connected" => account[b].ref \in Refs
    BY DEF Vaulted, Named, TypeInv, TypeOK, Account
  <2>2. \A w \in Workers : grant[w].ref # None => grant[w].ref \in Refs
    BY DEF TypeInv, TypeOK, Grant
  <2> QED BY <1>2, <2>1, <2>2 DEF Vaulted, RowsNameTheirTokens
<1> QED BY <1>2, <1>3, <1>4, <1>5, <1>6, <1>7

\* Only the slot's own row names it, and no other row's token is dropped.
LEMMA OwnToken ==
  ASSUME TypeInv, Vaulted, NEW a \in Slots, NEW b \in Slots, a # b,
         account[a].ref # None, account[b].status = "connected"
  PROVE  account[b].ref \in Refs /\ account[b].ref # account[a].ref
<1>1. account[b].ref \in Refs BY DEF Vaulted, Named, TypeInv, TypeOK, Account
<1>2. account[a].status = "connected" BY DEF Vaulted, RowsNameTheirTokens
<1> QED BY <1>1, <1>2 DEF Vaulted, RowsNameTheirTokens

LEMMA ReplaceTokenHolds ==
  ASSUME TypeInv, Vaulted, NEW c \in Requests, ReplaceToken(c)
  PROVE  Vaulted'
<1> DEFINE q == [req[c] EXCEPT !.at = "replaced", !.seen = account[req[c].slot]]
<1>0. req[c] \in Request /\ req[c].at = "stored" /\ req[c].slot \in Slots
  BY DEF TypeInv, TypeOK, Aimed, ReplaceToken
<1>1. \A d \in Requests : d # c => req[d] = Idle BY <1>0, Alone DEF Vaulted
<1>2. /\ q.at = "replaced" /\ q.ref = req[c].ref /\ q.slot = req[c].slot /\ q.google = req[c].google
      /\ q.seen = account[req[c].slot]
  BY <1>0 DEF Request
<1>3. Goes(c, q) /\ UNCHANGED <<state, account, grant>> BY DEF ReplaceToken
<1>4. Single' /\ req'[c] = q /\ \A d \in Requests : d # c => req'[d] = Idle
  BY <1>1, <1>2, <1>3, StepsAlone
<1> HIDE DEF q
<1> DEFINE a == req[c].slot
           old == account[a].ref
<1>5. PICK b \in Slots : b = a BY <1>0
<1>8. Checks(c) /\ Carries(c) BY DEF Vaulted, RequestHolds
<1>9. Spends(c)' BY <1>2, <1>4 DEF Spends
<1>10. Checks(c)' BY <1>0, <1>2, <1>3, <1>4, <1>8 DEF Checks, Elsewhere
<1>11. Saw(c)' BY <1>2, <1>3, <1>4 DEF Saw
<1>12. CASE vault' = vault
  <2>1. Carries(c)' BY <1>0, <1>2, <1>3, <1>4, <1>8, <1>12 DEF Carries
  <2>2. Unspent' /\ Named' /\ OneOwnerPerGoogle' /\ StateSpentOnce' /\ RowsNameTheirTokens'
    BY <1>3, <1>12 DEF Vaulted, Unspent, Named, OneOwnerPerGoogle, StateSpentOnce, RowsNameTheirTokens
  <2>3. Orphans' \subseteq Orphans
    BY <1>1, <1>2, <1>3, <1>4, <1>12, IdleIsARequest DEF Orphans
  <2>4. Pending' \subseteq {old} BY <1>2, <1>4, IdleIsARequest DEF Pending
  <2>5. Loose' \subseteq Loose BY <1>0, <1>1, <1>3, <1>12, IdleIsARequest DEF Loose
  <2>6. CASE old = None /\ faults' = faults
    <3>1. Pending' = {} BY <1>2, <1>4, <2>6, IdleIsARequest, OAuthConstants DEF Pending
    <3>2. Owed' \subseteq Owed BY <2>3, <3>1 DEF Owed
    <3>3. OwedPaid' BY <2>6, <3>2, NoMore, CostIsCounted DEF Vaulted, OwedPaid
    <3>4. LoosePaid' BY <2>5, <2>6, NoMore, CostIsCounted DEF Vaulted, LoosePaid
    <3> QED BY <1>4, <1>9, <1>10, <1>11, <2>1, <2>2, <3>3, <3>4, Settles
  <2>7. CASE faults' = faults + 1
    <3>1. Owed' \subseteq Owed \cup {old} BY <2>3, <2>4 DEF Owed
    <3>2. OwedPaid' BY <2>7, <3>1, OneMore, CostIsCounted DEF Vaulted, OwedPaid
    <3>3. Loose' \subseteq Loose \cup {a} BY <2>5
    <3>4. LoosePaid' BY <2>7, <3>3, OneMore, CostIsCounted DEF Vaulted, LoosePaid
    <3> QED BY <1>4, <1>9, <1>10, <1>11, <2>1, <2>2, <3>2, <3>4, Settles
  <2>8. CASE old # None /\ Drop(old) /\ faults' = faults
    <3>1. Owed' \subseteq Owed
      <4>1. vault'[account[b].ref].status = "gone" BY <1>3, <1>5, <2>8, DropFrame
      <4>2. Pending' = {} BY <1>2, <1>4, <1>5, <4>1, IdleIsARequest DEF Pending
      <4> QED BY <2>3, <4>2 DEF Owed
    <3>2. OwedPaid' BY <2>8, <3>1, NoMore, CostIsCounted DEF Vaulted, OwedPaid
    <3>3. LoosePaid' BY <2>5, <2>8, NoMore, CostIsCounted DEF Vaulted, LoosePaid
    <3> QED BY <1>4, <1>9, <1>10, <1>11, <2>1, <2>2, <3>2, <3>3, Settles
  <2> QED BY <1>12, <2>6, <2>7, <2>8 DEF ReplaceToken
<1>13. CASE old # None /\ Drop(old) /\ faults' = faults
  <2>1. /\ vault'[account[b].ref].status = "gone"
        /\ \A r \in Refs : /\ r # account[b].ref => vault'[r] = vault[r]
                           /\ vault'[r].status = "held" => vault[r].status = "held"
        /\ Unspent' /\ Named' /\ OneOwnerPerGoogle' /\ StateSpentOnce' /\ RowsNameTheirTokens'
    BY <1>3, <1>5, <1>13, DropFrame
  <2>2. Carries(c)' BY <1>0, <1>2, <1>3, <1>4, <1>5, <1>8, <2>1 DEF Carries
  <2>3. Owed' \subseteq Owed
    <3>1. Orphans' \subseteq Orphans
      BY <1>1, <1>2, <1>3, <1>4, <2>1, IdleIsARequest DEF Orphans
    <3>2. Pending' = {} BY <1>2, <1>4, <1>5, <2>1, IdleIsARequest DEF Pending
    <3> QED BY <3>1, <3>2 DEF Owed
  <2>4. Loose' \subseteq Loose
    <3>1. ASSUME NEW x \in Loose' PROVE x \in Slots /\ x # b /\ account[x].status = "connected"
      BY <1>2, <1>3, <1>4, <1>5, <3>1 DEF Loose
    <3>2. ASSUME NEW x \in Loose' PROVE vault'[account[x].ref] = vault[account[x].ref]
      BY <1>5, <1>13, <2>1, <3>1, OwnToken
    <3> QED BY <1>0, <1>1, <1>3, <3>1, <3>2, IdleIsARequest DEF Loose
  <2>5. OwedPaid' BY <1>13, <2>3, NoMore, CostIsCounted DEF Vaulted, OwedPaid
  <2>6. LoosePaid' BY <1>13, <2>4, NoMore, CostIsCounted DEF Vaulted, LoosePaid
  <2> QED BY <1>4, <1>9, <1>10, <1>11, <2>1, <2>2, <2>5, <2>6, Settles
<1> QED BY <1>12, <1>13 DEF ReplaceToken

LEMMA ConnectHolds ==
  ASSUME TypeInv, Vaulted, NEW c \in Requests, Connect(c)
  PROVE  Vaulted'
<1>0. req[c] \in Request /\ req[c].at = "replaced" /\ req[c].slot \in Slots
  BY DEF TypeInv, TypeOK, Aimed, Connect
<1>1. \A d \in Requests : d # c => req[d] = Idle BY <1>0, Alone DEF Vaulted
<1>2. PICK a \in Slots : a = req[c].slot BY <1>0
<1>3. PICK r \in Refs : r = req[c].ref BY <1>0 DEF Vaulted, RequestHolds, Carries
<1>4. PICK g : g = req[c].google OBVIOUS
<1>5. Goes(c, Idle) /\ UNCHANGED <<state, vault, grant, faults>> BY DEF Connect
<1>6. Single' /\ req'[c] = Idle /\ \A d \in Requests : d # c => req'[d] = Idle
  BY <1>1, <1>5, StepsAlone
<1>7. /\ vault[r].status = "held" /\ vault[r].slot = a /\ vault[r].google = g
      /\ \A b \in Slots : account[b].ref # r
      /\ g \in Matches[a[1]] /\ ~Elsewhere(a, g)
      /\ req[c].seen = account[a]
  BY <1>0, <1>2, <1>3, <1>4 DEF Vaulted, RequestHolds, Checks, Carries, Saw
<1>8. /\ account'[a].status = "connected" /\ account'[a].ref = r /\ account'[a].google = g
      /\ \A b \in Slots : b # a => account'[b] = account[b]
  BY <1>2, <1>3, <1>4, <1>7 DEF Connect, Merge, TypeInv, TypeOK
<1>9. Spends(c)' /\ Checks(c)' /\ Carries(c)' /\ Saw(c)'
  BY <1>6, IdleIsARequest DEF Spends, Checks, Carries, Saw
<1>10. Unspent' /\ StateSpentOnce' BY <1>5 DEF Vaulted, Unspent, StateSpentOnce
<1>11. Named' BY <1>5, <1>7, <1>8, OAuthConstants DEF Vaulted, Named
<1>12. OneOwnerPerGoogle'
  <2>1. ASSUME g \in Subjects, NEW b \in Slots, b # a, account[b].status = "connected",
               ProviderOf(b) = ProviderOf(a), account[b].google = g
        PROVE  OwnerOf(b) = OwnerOf(a)
    BY <1>7, <2>1 DEF Elsewhere
  <2> QED BY <1>8, <2>1 DEF Vaulted, OneOwnerPerGoogle
<1>13. RowsNameTheirTokens' BY <1>5, <1>7, <1>8 DEF Vaulted, RowsNameTheirTokens
<1>14. Owed' \subseteq Owed
  <2>1. Pending' = {} BY <1>6, IdleIsARequest DEF Pending
  <2>2. ASSUME NEW x \in Orphans' PROVE x \in Owed
    <3>1. x \in Refs /\ vault[x].status = "held" /\ \A b \in Slots : account'[b].ref # x
      BY <1>5 DEF Orphans
    <3>2. x # r /\ \A b \in Slots : b # a => account[b].ref # x BY <1>8, <3>1
    <3>3. CASE account[a].ref = x BY <1>0, <1>7, <3>1, <3>3 DEF Owed, Pending
    <3>4. CASE account[a].ref # x
      <4>1. \A d \in Requests : req[d].ref # x
        BY <1>1, <1>3, <3>1, <3>2, IdleIsARequest, OAuthConstants
      <4> QED BY <3>1, <3>2, <3>4, <4>1 DEF Owed, Orphans
    <3> QED BY <3>3, <3>4
  <2> QED BY <2>1, <2>2 DEF Owed
<1>15. Loose' \subseteq Loose
  <2>1. ASSUME NEW x \in Loose' PROVE x \in Loose
    <3>1. x \in Slots /\ x # a BY <1>5, <1>7, <1>8 DEF Loose
    <3>2. account[x].status = "connected" /\ vault[account[x].ref].status # "held"
      BY <1>5, <1>8, <3>1 DEF Loose
    <3>3. \A d \in Requests : req[d].at \in {"replaced", "revoked"} => req[d].slot # x
      BY <1>1, <1>2, <3>1, IdleIsARequest
    <3> QED BY <3>1, <3>2, <3>3 DEF Loose
  <2> QED BY <2>1
<1>16. OwedPaid' BY <1>5, <1>14, NoMore, CostIsCounted DEF Vaulted, OwedPaid
<1>17. LoosePaid' BY <1>5, <1>15, NoMore, CostIsCounted DEF Vaulted, LoosePaid
<1> QED BY <1>6, <1>9, <1>10, <1>11, <1>12, <1>13, <1>16, <1>17, Settles

LEMMA DisconnectRevokeHolds ==
  ASSUME TypeInv, Vaulted, NEW c \in Requests, DisconnectRevoke(c)
  PROVE  Vaulted'
<1> DEFINE q == [req[c] EXCEPT !.at = "revoked"]
<1>0. req[c] \in Request /\ req[c].at = "read" /\ req[c].slot \in Slots
  BY DEF TypeInv, TypeOK, Aimed, DisconnectRevoke
<1>1. \A d \in Requests : d # c => req[d] = Idle BY <1>0, Alone DEF Vaulted
<1>2. /\ q.at = "revoked" /\ q.ref = req[c].ref /\ q.slot = req[c].slot /\ q.seen = req[c].seen
  BY <1>0 DEF Request
<1>3. Goes(c, q) /\ UNCHANGED <<state, account, grant, faults>> BY DEF DisconnectRevoke
<1>4. Single' /\ req'[c] = q /\ \A d \in Requests : d # c => req'[d] = Idle
  BY <1>1, <1>2, <1>3, StepsAlone
<1> HIDE DEF q
<1>5. PICK a \in Slots : a = req[c].slot BY <1>0
<1>6. req[c].seen = account[a] /\ account[a].status = "connected" /\ req[c].ref = None
  BY <1>0, <1>5 DEF Vaulted, RequestHolds, Saw, Carries
<1>7. account[a].ref # None /\ Drop(account[a].ref)
  BY <1>6 DEF Vaulted, Named, DisconnectRevoke
<1>8. /\ vault'[account[a].ref].status = "gone"
      /\ \A r \in Refs : /\ r # account[a].ref => vault'[r] = vault[r]
                         /\ vault'[r].status = "held" => vault[r].status = "held"
      /\ Unspent' /\ Named' /\ OneOwnerPerGoogle' /\ StateSpentOnce' /\ RowsNameTheirTokens'
  BY <1>3, <1>7, DropFrame
<1>9. Spends(c)' /\ Checks(c)' BY <1>2, <1>4 DEF Spends, Checks
<1>10. Carries(c)' BY <1>2, <1>4, <1>6 DEF Carries
<1>11. Saw(c)' BY <1>2, <1>3, <1>4, <1>5, <1>6, <1>8 DEF Saw
<1>12. Owed' \subseteq Owed
  <2>1. Pending' = {} BY <1>2, <1>4, IdleIsARequest DEF Pending
  <2>2. Orphans' \subseteq Orphans
    BY <1>1, <1>2, <1>3, <1>4, <1>8, IdleIsARequest DEF Orphans
  <2> QED BY <2>1, <2>2 DEF Owed
<1>13. Loose' \subseteq Loose
  <2>1. ASSUME NEW x \in Loose' PROVE x \in Slots /\ x # a /\ account[x].status = "connected"
    BY <1>2, <1>3, <1>4, <1>5, <2>1 DEF Loose
  <2>2. ASSUME NEW x \in Loose' PROVE vault'[account[x].ref] = vault[account[x].ref]
    BY <1>7, <1>8, <2>1, OwnToken
  <2> QED BY <1>0, <1>1, <1>3, <2>1, <2>2, IdleIsARequest DEF Loose
<1>14. OwedPaid' BY <1>3, <1>12, NoMore, CostIsCounted DEF Vaulted, OwedPaid
<1>15. LoosePaid' BY <1>3, <1>13, NoMore, CostIsCounted DEF Vaulted, LoosePaid
<1> QED BY <1>4, <1>8, <1>9, <1>10, <1>11, <1>14, <1>15, Settles

LEMMA DisconnectHolds ==
  ASSUME TypeInv, Vaulted, NEW c \in Requests, Disconnect(c)
  PROVE  Vaulted'
<1>0. req[c] \in Request /\ req[c].at = "revoked" /\ req[c].slot \in Slots
  BY DEF TypeInv, TypeOK, Aimed, Disconnect
<1>1. \A d \in Requests : d # c => req[d] = Idle BY <1>0, Alone DEF Vaulted
<1>2. PICK a \in Slots : a = req[c].slot BY <1>0
<1>3. Goes(c, Idle) /\ UNCHANGED <<state, vault, grant, faults>> BY DEF Disconnect
<1>4. Single' /\ req'[c] = Idle /\ \A d \in Requests : d # c => req'[d] = Idle
  BY <1>1, <1>3, StepsAlone
<1>5. /\ req[c].seen = account[a] /\ account[a].status = "connected"
      /\ account[a].ref # None /\ vault[account[a].ref].status # "held"
  BY <1>0, <1>2 DEF Vaulted, RequestHolds, Saw, Named
<1>6. account[a] \in Account BY DEF TypeInv, TypeOK
<1>7. [account[a] EXCEPT !.status = "disconnected", !.ref = None].status = "disconnected"
      /\ [account[a] EXCEPT !.status = "disconnected", !.ref = None].ref = None
  BY <1>6 DEF Account
<1>8. /\ account'[a].status = "disconnected" /\ account'[a].ref = None
      /\ \A b \in Slots : b # a => account'[b] = account[b]
  BY <1>2, <1>5, <1>7 DEF Disconnect, Merge, TypeInv, TypeOK
<1>9. Spends(c)' /\ Checks(c)' /\ Carries(c)' /\ Saw(c)'
  BY <1>4, IdleIsARequest DEF Spends, Checks, Carries, Saw
<1>10. Unspent' /\ StateSpentOnce' BY <1>3 DEF Vaulted, Unspent, StateSpentOnce
<1>11. Named' BY <1>3, <1>8 DEF Vaulted, Named
<1>12. OneOwnerPerGoogle' BY <1>8 DEF Vaulted, OneOwnerPerGoogle
<1>13. RowsNameTheirTokens' BY <1>3, <1>8 DEF Vaulted, RowsNameTheirTokens
<1>14. Owed' \subseteq Owed
  <2>1. Pending' = {} BY <1>4, IdleIsARequest DEF Pending
  <2>2. \A d \in Requests : req[d].ref = None
    BY <1>0, <1>1, IdleIsARequest DEF Vaulted, RequestHolds, Carries
  <2>3. ASSUME NEW x \in Orphans' PROVE x \in Orphans
    <3>1. x \in Refs /\ vault[x].status = "held" /\ \A b \in Slots : account'[b].ref # x
      BY <1>3 DEF Orphans
    <3>2. \A b \in Slots : account[b].ref # x BY <1>5, <1>8, <3>1
    <3> QED BY <2>2, <3>1, <3>2, OAuthConstants DEF Orphans
  <2> QED BY <2>1, <2>3 DEF Owed
<1>15. Loose' \subseteq Loose
  <2>1. ASSUME NEW x \in Loose' PROVE x \in Loose
    <3>1. x \in Slots /\ x # a BY <1>8 DEF Loose
    <3>2. account[x].status = "connected" /\ vault[account[x].ref].status # "held"
      BY <1>3, <1>8, <3>1 DEF Loose
    <3>3. \A d \in Requests : req[d].at \in {"replaced", "revoked"} => req[d].slot # x
      BY <1>1, <1>2, <3>1, IdleIsARequest
    <3> QED BY <3>1, <3>2, <3>3 DEF Loose
  <2> QED BY <2>1
<1>16. OwedPaid' BY <1>3, <1>14, NoMore, CostIsCounted DEF Vaulted, OwedPaid
<1>17. LoosePaid' BY <1>3, <1>15, NoMore, CostIsCounted DEF Vaulted, LoosePaid
<1> QED BY <1>4, <1>9, <1>10, <1>11, <1>12, <1>13, <1>16, <1>17, Settles

\* What a failure may leave behind: the token that the request has stored, and a row whose
\* token it has dropped.
LEMMA FailHolds ==
  ASSUME TypeInv, Vaulted, NEW c \in Requests, Fail(c)
  PROVE  Vaulted'
<1>1. \A d \in Requests : d # c => req[d] = Idle BY Alone DEF Vaulted, Fail
<1>2. Goes(c, Idle) /\ UNCHANGED <<state, account, vault, grant>> /\ faults' = faults + 1 BY DEF Fail
<1>3. Single' /\ req'[c] = Idle /\ \A d \in Requests : d # c => req'[d] = Idle
  BY <1>1, <1>2, StepsAlone
<1>4. Spends(c)' /\ Checks(c)' /\ Carries(c)' /\ Saw(c)'
  BY <1>3, IdleIsARequest DEF Spends, Checks, Carries, Saw
<1>5. Unspent' /\ Named' /\ OneOwnerPerGoogle' /\ StateSpentOnce' /\ RowsNameTheirTokens'
  BY <1>2 DEF Vaulted, Unspent, Named, OneOwnerPerGoogle, StateSpentOnce, RowsNameTheirTokens
<1>6. Owed' \subseteq Owed \cup {req[c].ref}
  <2>1. Pending' = {} BY <1>3, IdleIsARequest DEF Pending
  <2>2. ASSUME NEW x \in Orphans', x # req[c].ref PROVE x \in Orphans
    BY <1>1, <1>2, <2>2, IdleIsARequest, OAuthConstants DEF Orphans
  <2> QED BY <2>1, <2>2 DEF Owed
<1>7. Loose' \subseteq Loose \cup {req[c].slot}
  <2>1. ASSUME NEW x \in Loose', x # req[c].slot PROVE x \in Loose
    BY <1>1, <1>2, <2>1, IdleIsARequest DEF Loose
  <2> QED BY <2>1
<1>8. OwedPaid' BY <1>2, <1>6, OneMore, CostIsCounted DEF Vaulted, OwedPaid
<1>9. LoosePaid' BY <1>2, <1>7, OneMore, CostIsCounted DEF Vaulted, LoosePaid
<1> QED BY <1>3, <1>4, <1>5, <1>8, <1>9, Settles

\* Steps that no request takes.
LEMMA ApartHolds ==
  ASSUME TypeInv, Vaulted, UNCHANGED <<account, vault, req, faults>>, Unspent', Named', RowsNameTheirTokens',
         \A c \in Requests : Spends(c)'
  PROVE  Vaulted'
<1>1. Single' BY DEF Vaulted, Single
<1>2. ASSUME NEW c \in Requests PROVE RequestHolds(c)'
  BY DEF Vaulted, RequestHolds, Checks, Carries, Saw, Elsewhere
<1>3. OneOwnerPerGoogle' /\ StateSpentOnce' BY DEF Vaulted, OneOwnerPerGoogle, StateSpentOnce
<1>4. OwedPaid' BY DEF Vaulted, OwedPaid, Owed, Orphans, Pending
<1>5. LoosePaid' BY DEF Vaulted, LoosePaid, Loose
<1> QED BY <1>1, <1>2, <1>3, <1>4, <1>5 DEF Vaulted

LEMMA StateStepHolds ==
  ASSUME TypeInv, Vaulted, NEW s \in States, StateExpires(s) \/ \E a \in Slots : StartConnect(s, a)
  PROVE  Vaulted'
<1>1. UNCHANGED <<account, vault, req, grant, faults>> BY DEF StateExpires, StartConnect
<1>2. /\ state[s].status # "consumed"
      /\ \A t \in States : t # s => state'[t] = state[t]
  BY DEF StateExpires, StartConnect, TypeInv, TypeOK
<1>3. Unspent' BY <1>1, <1>2 DEF Vaulted, Unspent
<1>4. ASSUME NEW c \in Requests PROVE Spends(c)'
  BY <1>1, <1>2 DEF Vaulted, RequestHolds, Spends
<1>5. Named' /\ RowsNameTheirTokens' BY <1>1 DEF Vaulted, Named, RowsNameTheirTokens
<1> QED BY <1>1, <1>3, <1>4, <1>5, ApartHolds

LEMMA GrantStepHolds ==
  ASSUME TypeInv, Vaulted, NEW w \in Workers, Mint(w) \/ \E m \in Mailboxes : ResolveGrant(w, m)
  PROVE  Vaulted'
<1>1. UNCHANGED <<state, account, vault, req, faults>> BY DEF Mint, ResolveGrant
<1>2. Unspent' BY <1>1 DEF Vaulted, Unspent
<1>3. ASSUME NEW c \in Requests PROVE Spends(c)' BY <1>1 DEF Vaulted, RequestHolds, Spends
<1>4. \A v \in Workers : v # w => grant'[v] = grant[v]
  BY DEF Mint, ResolveGrant, TypeInv, TypeOK
<1>5. grant'[w].ref # None =>
        /\ vault[grant'[w].ref].status # "unused"
        /\ vault[grant'[w].ref].slot = <<grant'[w].mailbox, Gmail>>
  <2>1. CASE Mint(w) BY <2>1 DEF Mint, NoGrant, TypeInv, TypeOK
  <2>2. ASSUME NEW m \in Mailboxes, ResolveGrant(w, m)
        PROVE  /\ vault[grant'[w].ref].status # "unused"
               /\ vault[grant'[w].ref].slot = <<grant'[w].mailbox, Gmail>>
    <3>1. PICK a \in Slots : a = <<m, Gmail>> BY OAuthConstants DEF Slots
    <3>2. /\ account[a].status = "connected" /\ account[a].ref # None
          /\ grant'[w].ref = account[a].ref /\ grant'[w].mailbox = m
      BY <2>2, <3>1 DEF ResolveGrant, TypeInv, TypeOK
    <3> QED BY <3>1, <3>2 DEF Vaulted, Named, RowsNameTheirTokens
  <2> QED BY <2>1, <2>2
<1>6. Named' BY <1>1, <1>4, <1>5 DEF Vaulted, Named
<1>7. RowsNameTheirTokens' BY <1>1, <1>4, <1>5 DEF Vaulted, RowsNameTheirTokens
<1> QED BY <1>1, <1>2, <1>3, <1>6, <1>7, ApartHolds

LEMMA InitVaulted == Init => Vaulted
<1> SUFFICES ASSUME Init PROVE Vaulted
  OBVIOUS
<1>1. TypeInv BY InitTyped
<1>2. /\ \A c \in Requests : req[c] = Idle /\ req[c].ref = None /\ req[c].at = "idle"
      /\ \A a \in Slots : account[a].status = "absent" /\ account[a].ref = None
      /\ \A r \in Refs : vault[r].status = "unused" /\ vault[r].from = None
      /\ \A w \in Workers : grant[w].ref = None
  BY IdleIsARequest DEF Init, NoAccount, NoSecret, NoGrant
<1>3. Single /\ Unspent /\ Named BY <1>2, OAuthConstants DEF Single, Unspent, Named
<1>4. \A c \in Requests : RequestHolds(c)
  BY <1>2 DEF RequestHolds, Spends, Checks, Carries, Saw
<1>5. OneOwnerPerGoogle /\ StateSpentOnce /\ RowsNameTheirTokens
  BY <1>2 DEF OneOwnerPerGoogle, StateSpentOnce, RowsNameTheirTokens
<1>6. Owed = {} /\ Loose = {} BY <1>2 DEF Owed, Orphans, Pending, Loose
<1>7. OwedPaid /\ LoosePaid
  BY <1>1, <1>6, FS_EmptySet, CostIsCounted DEF OwedPaid, LoosePaid
<1> QED BY <1>3, <1>4, <1>5, <1>7 DEF Vaulted

LEMMA NextVaulted == ASSUME ~Overlap, TypeInv, Vaulted, [Next]_vars PROVE Vaulted'
<1>1. ASSUME NEW c \in Requests, NEW s \in States, GmailCallback(c, s) \/ CalendarCallback(c, s)
      PROVE  Vaulted'
  BY <1>1, ClaimHolds, OAuthConstants DEF GmailCallback, CalendarCallback
<1>2. ASSUME NEW c \in Requests, NEW a \in Slots, OwnerDisconnects(c, a) \/ AdminDisconnects(c, a)
      PROVE  Vaulted'
  BY <1>2, DisconnectReadHolds DEF OwnerDisconnects, AdminDisconnects
<1>3. CASE UNCHANGED vars
  <2>1. Unspent' /\ Named' /\ RowsNameTheirTokens'
    BY <1>3 DEF vars, Vaulted, Unspent, Named, RowsNameTheirTokens
  <2>2. ASSUME NEW c \in Requests PROVE Spends(c)'
    BY <1>3 DEF vars, Vaulted, RequestHolds, Spends
  <2> QED BY <1>3, <2>1, <2>2, ApartHolds DEF vars
<1> QED
  BY <1>1, <1>2, <1>3, StateStepHolds, ExchangeHolds, RefuseHolds, StoreTokenHolds, ReplaceTokenHolds,
     ConnectHolds, DisconnectRevokeHolds, DisconnectHolds, FailHolds, GrantStepHolds
  DEF Next

LEMMA VaultedIsInductive == ASSUME ~Overlap PROVE Spec => [](TypeInv /\ Vaulted)
<1>1. Init => TypeInv /\ Vaulted BY InitTyped, InitVaulted
<1>2. TypeInv /\ Vaulted /\ [Next]_vars => TypeInv' /\ Vaulted' BY NextTyped, NextVaulted
<1> QED BY <1>1, <1>2, PTL DEF Spec

\* With one API process no Google account is connected, for one provider, by two owners:
\* what the mismatch rule checked still holds when the row is committed.
THEOREM OneOwnerHolds == ASSUME ~Overlap PROVE Spec => []OneOwnerPerGoogle
<1>1. Vaulted => OneOwnerPerGoogle BY DEF Vaulted
<1> QED BY <1>1, VaultedIsInductive, PTL

\* With one API process a state brings one token, a row names a token of its own, and each
\* orphaned token and each connected row without its token is the trace of one failure.
THEOREM TokensAreKept == ASSUME ~Overlap PROVE Spec => []TokensHold
<1>1. ASSUME TypeInv, Vaulted PROVE TokensHold
  <2>1. Orphans \subseteq Owed BY DEF Owed
  <2>2. Dangling \subseteq Loose BY DEF Dangling, Loose
  <2>3. OrphansAreFaults BY <1>1, <2>1, NoMore, CostIsCounted DEF Vaulted, OwedPaid, OrphansAreFaults
  <2>4. DanglingAreFaults BY <1>1, <2>2, NoMore, CostIsCounted DEF Vaulted, LoosePaid, DanglingAreFaults
  <2> QED BY <1>1, <2>3, <2>4 DEF Vaulted, TokensHold
<1> QED BY <1>1, VaultedIsInductive, PTL
=============================================================================
