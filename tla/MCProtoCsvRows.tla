--------------------------- MODULE MCProtoCsvRows ---------------------------
EXTENDS ProtoCsvRows
=============================================================================
