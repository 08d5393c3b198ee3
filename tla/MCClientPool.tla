---------------------------- MODULE MCClientPool ----------------------------
\* Two local connections that race for a short while, and one that comes back
\* after the keeper and the breaker had time to act.
EXTENDS ClientPool

CONSTANTS c1, c2, s1, s2, s3

Conns == {c1, c2}
Sessions == {s1, s2, s3}
Race == [time |-> MaxTime - 1, acquires |-> [c \in Conns |-> 1]]
Return == [time |-> 0, acquires |-> [c \in Conns |-> IF c = c1 THEN 2 ELSE 0]]
RaceOrReturn == {Race, Return}

=============================================================================
