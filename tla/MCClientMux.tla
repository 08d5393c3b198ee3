----------------------------- MODULE MCClientMux -----------------------------
\* One substream of a session.
EXTENDS ClientMux

CONSTANT c1

OneConn == {c1}

==============================================================================
