--------------------------- MODULE MCServiceWatch ---------------------------
EXTENDS ServiceWatch
=============================================================================
