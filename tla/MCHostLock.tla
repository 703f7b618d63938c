----------------------------- MODULE MCHostLock -----------------------------
\* Three invocations are enough for a holder, an attempt that takes over and a
\* reader of the lock file that sees the hand-over between the two.
EXTENDS HostLock

CONSTANTS a1, a2, a3

MCAttempt == {a1, a2, a3}
=============================================================================
