---------------------------- MODULE MCTraceSink ----------------------------
EXTENDS TraceSink
============================================================================
