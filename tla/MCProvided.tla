----------------------------- MODULE MCProvided -----------------------------
EXTENDS Provided

\* One loop receives bundles; the others share its buffers, or do without.
MCKinds ==
  LET first == CHOOSE r \in Receivers : TRUE
  IN [r \in Receivers |-> IF r = first THEN {"recv"} ELSE {"recvmsg", "accept", "watch", "ticks"}]
=============================================================================
