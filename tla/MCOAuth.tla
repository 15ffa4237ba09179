------------------------------- MODULE MCOAuth -------------------------------
\* Instances of OAuthVault: two mailboxes of two owners, the second of whom is expected to
\* consent with one of two Google accounts, whose subject Google tells of the one only.
EXTENDS OAuthVault, TLC

CONSTANTS m1, m2, g1, g2, o1, o2

MCOwner == (m1 :> o1) @@ (m2 :> o2)
MCMatches == (m1 :> Googles) @@ (m2 :> {g1, g2})
MCSymmetry == Permutations(States) \cup Permutations(Refs)
=============================================================================
