------------------------------- MODULE MCReplica -------------------------------
EXTENDS Replica
=============================================================================
