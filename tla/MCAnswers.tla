----------------------------- MODULE MCAnswers -----------------------------
\* Instances of Answers: a thread of two messages, and a message of another mailbox with the
\* Message-ID of one of them.
EXTENDS Answers, TLC

CONSTANTS mine, theirs, h1, h2, t1, t2, ana, ben, p1

Row(mbx, h, t, who, noise) ==
  [mbx |-> mbx, header |-> h, thread |-> t, sender |-> who, noise |-> noise]
MCUniverse == {Row(mine, h1, t1, ana, FALSE), Row(mine, h2, t1, ben, FALSE),
               Row(theirs, h1, t2, ana, FALSE)}
MCMembers == p1 :> {ana, ben}
MCTakes == [t \in Threads |-> IF t = t1 THEN {ana, ben} ELSE {ana}]
MCSpecific == (p1 :> 2) @@ (ana :> 1) @@ (ben :> 3)
MCClaims == {{{h} : h \in hs} : hs \in SUBSET Headers} \cup {{hs} : hs \in SUBSET Headers}
=============================================================================
