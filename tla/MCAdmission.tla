----------------------------- MODULE MCAdmission -----------------------------
\* One IPv4 source and two IPv6 sources of one /48; three sockets at a time.
EXTENDS Admission, TLC

CONSTANTS v4, a6, b6, p48, c1, c2, c3

MCSource == {v4, a6, b6}
MCPrefix == {p48}
MCAggKey == [s \in {a6, b6} |-> p48]
MCConn == {c1, c2, c3}

\* The names of the sockets are interchangeable.
ConnSymmetry == Permutations(MCConn)

=============================================================================
