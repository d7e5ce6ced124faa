----------------------------- MODULE MCStmtGen -----------------------------
EXTENDS StmtGen
MCVals == Binding
=============================================================================
