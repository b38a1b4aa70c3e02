------------------------------ MODULE MCOutbox ------------------------------
\* Instances of Outbox: messages in one conversation, or in two.
EXTENDS Outbox

CONSTANTS general, random
Single == [i \in 1..MaxAuthored |-> general]
Split == [i \in 1..MaxAuthored |-> IF i = 1 THEN general ELSE random]
=============================================================================
