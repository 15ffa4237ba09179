----------------------------- MODULE MCMailbox ------------------------------
\* Instances of MailboxPipeline for TLC.
EXTENDS MailboxPipeline, TLC

CONSTANTS m1, m2, x1, x2, x3, alice, bob, carol, t1, t2

\* Three messages; x2 answers x1 and carries a sensitivity tag, x3 is on its own.
MCThreadOf  == x1 :> t1 @@ x2 :> t1 @@ x3 :> t2

\* The second mailbox has other contacts, or shares one with the first.
MCContactsApart  == x1 :> {alice} @@ x2 :> {alice, bob} @@ x3 :> {carol}
MCContactsShared == x1 :> {alice} @@ x2 :> {alice, bob} @@ x3 :> {alice}

\* x1, x2 are mail of the first mailbox, x3 of the second.
MCWindowsApart == m1 :> {{}, {x1}, {x2}, {x1, x2}} @@ m2 :> {{x3}}
\* All the mail is in one mailbox.
MCWindowsOne   == m1 :> {{x1}, {x2}, {x3}}
=============================================================================
