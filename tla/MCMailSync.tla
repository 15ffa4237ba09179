----------------------------- MODULE MCMailSync -----------------------------
\* Instances of MailSync: a conversation whose last mail refers to its first and to a reply
\* that never reaches this mailbox, and a mail that the provider puts into the same group
\* without any header.
EXTENDS MailSync, TLC

CONSTANTS first, reply, again, other

MCMid == [m \in Mails |-> m]
MCReferences == (first :> <<>>) @@ (again :> <<first, reply>>) @@ (other :> <<>>)
MCGroup == [m \in Mails |-> "g"]
=============================================================================
