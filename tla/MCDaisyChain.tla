---------------------------- MODULE MCDaisyChain ----------------------------
(* Instances of DaisyChain for TLC. *)
EXTENDS DaisyChain

\* irqack() of a circuit that requests has a vector and takes the line down.
SaneFresh == {[vector |-> TRUE, drop |-> TRUE]}

\* irqack() of an active circuit finds nothing to acknowledge.
SaneAgain == {[vector |-> FALSE, drop |-> TRUE], [vector |-> FALSE, drop |-> FALSE]}

\* Every outcome, also IRQ_NOT_ACK and a line that stays up.
AllAcks == AckOutcomes
=============================================================================
