------------------------------ MODULE MCUdpWal ------------------------------
(* A model-checking instance of UdpWal.                                      *)
EXTENDS UdpWal

CONSTANTS big

Write(cards, dur) == [read |-> FALSE, cards |-> cards, dur |-> dur]

\* One card without an answer; two cards, for one poll or two, before one that is too
\* long; a batch of too many cards; a read.
SomeRequests ==
    {Write(<<1>>, FireAndForget), Write(<<1, 2, big>>, AckDurable),
     Write(<<1, 2, 1, 2>>, AckQueued), [read |-> TRUE, cards |-> <<>>, dur |-> FireAndForget]}

=============================================================================
