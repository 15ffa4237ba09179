------------------------------ MODULE MCMaps ------------------------------
\* Instances of Maps: one thread of two messages, the second of them tagged, and another thread.
EXTENDS Maps, TLC

CONSTANTS owner, ana, ben, h1, h2, h3, t1, t2, acme, p1, p2

Row(h, t, from, to, noise, tag, says) ==
  [header |-> h, thread |-> t, sender |-> from, to |-> to, noise |-> noise, tagged |-> tag, says |-> says]
MCUniverse == {Row(h1, t1, ana, {owner, ben}, FALSE, FALSE, {"vendor"}),
               Row(h2, t1, owner, {ben}, FALSE, TRUE, {}),
               Row(h3, t2, ben, {owner, ana}, FALSE, FALSE, {"manager"})}
MCFilters == {[types |-> {}, weight |-> 0, recency |-> FALSE],
              [types |-> {"thread_copresence", "direct_exchange"}, weight |-> 1, recency |-> TRUE]}
MCDomain == ana :> acme @@ ben :> acme
=============================================================================
