------------------------------ MODULE MCMailbox -----------------------------
EXTENDS Mailbox
CONSTANTS b1, r1, r2
OneBatch == {b1}
TwoRecipients == {r1, r2}
Audiences == [b \in OneBatch |-> TwoRecipients]
=============================================================================
