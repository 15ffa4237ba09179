-------------------------- MODULE MCHandoffContent --------------------------
\* Instance of HandoffContent: a thread of the owner's mailbox into which a tagged message may come, and
\* whose first mail has two bodies, one at a time (another copy of it may be fetched in its place); a thread
\* in the coverer's; a claim of two messages of which one may go, and one that a high pattern matches.
EXTENDS HandoffContent, TLC

CONSTANTS home, away, ana, ben, h1, h2, h3, h4, t1, t3, p1, p2, acme, out, k1, k2

Row(h, t, b, day, from, to, noise, tag, words) ==
  [header |-> h, thread |-> t, box |-> b, day |-> day, sender |-> from, to |-> to,
   noise |-> noise, tagged |-> tag, words |-> words]
MCUniverse == {Row(h1, t1, home, 1, ana, {ben}, FALSE, FALSE, {"atlas", "ssn", "medical"}),
               Row(h1, t1, home, 1, ana, {ben}, FALSE, FALSE, {"atlas", "ssn", "credential"}),
               Row(h2, t1, home, 2, ben, {ana}, FALSE, FALSE, {"launch"}),
               Row(h3, t1, home, 2, ben, {ana}, FALSE, TRUE, {"launch"}),
               Row(h4, t3, away, 2, ana, {ben}, FALSE, FALSE, {"atlas"})}
MCStarts == {{m \in MCUniverse : ~m.tagged /\ "medical" \notin m.words}}
Seen(b, type, cites, project, words) ==
  [box |-> b, type |-> type, cites |-> cites, project |-> project, words |-> words, weak |-> FALSE]
MCExtractable == {Seen(home, "did", {h1, h2}, None, {"atlas"}),
                  Seen(home, "proposed", {h2}, p1, {"launch", "blocked", "payment"}),
                  Seen(away, "outcome", {h4}, None, {"launch"})}
MCDomain == ana :> acme @@ ben :> out
MCProjectBox == p1 :> home @@ p2 :> away
MCLabel == p1 :> {"atlas"} @@ p2 :> {"atlas", "team"}
All(w) == [window |-> w, threads |-> {}, projects |-> {}, people |-> {}, xthreads |-> {}, xheaders |-> {},
           domains |-> {}]
MCWindows == {<<1, 2>>}
MCScopes == {[All(<<1, 1>>) EXCEPT !.people = {<<home, ana>>}],
             [All(<<1, 2>>) EXCEPT !.projects = {p1}, !.xheaders = {h1}, !.domains = {out}]}
Permuted == Permutations({k1, k2})
MCQueries == {[words |-> {"atlas"}, asks |-> {}], [words |-> {"launch"}, asks |-> {"next_steps", "status"}],
              [words |-> {"medical"}, asks |-> {"decisions"}], [words |-> {"pay"}, asks |-> {"blocked"}],
              [words |-> {}, asks |-> {"status"}]}
=============================================================================
