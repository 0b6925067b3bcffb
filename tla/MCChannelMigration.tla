------------------------ MODULE MCChannelMigration ------------------------
(* Instances of ChannelMigration: which side sends how much.               *)
EXTENDS ChannelMigration

\* The provider answers: the numbered direction of a direct channel.
AcceptorSendsTwo == [p \in Peers |-> IF p = Acceptor THEN 2 ELSE 0]
AcceptorSendsOne == [p \in Peers |-> IF p = Acceptor THEN 1 ELSE 0]
\* The connector sends: unnumbered until the channel has been resumed once.
DialerSendsTwo == [p \in Peers |-> IF p = Dialer THEN 2 ELSE 0]
DialerSendsOne == [p \in Peers |-> IF p = Dialer THEN 1 ELSE 0]
BothSendOne == [p \in Peers |-> 1]
===========================================================================
