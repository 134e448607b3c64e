---------------------------- MODULE MCJobRunner ----------------------------
EXTENDS JobRunner
=============================================================================
