---------------------------- MODULE MCMapShards ----------------------------
EXTENDS MapShards
=============================================================================
