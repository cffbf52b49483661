---------------------------- MODULE MCBranchMqtt ----------------------------
EXTENDS BranchMqttProofs

CONSTANTS b1, b2, r1, r2, r3

MCBranches == {b1, b2}
MCRequests == {r1, r2, r3}
=============================================================================
