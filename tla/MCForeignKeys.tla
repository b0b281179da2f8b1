--------------------------- MODULE MCForeignKeys ---------------------------
EXTENDS ForeignKeys

CONSTANTS fa, fb, old, new

\* The source has one of the two constraints, in another form, or it has none
\* and a load finds its empty record.
SourceKeys == {[k \in Keys |-> IF k = fa THEN new ELSE None]}
MCReports  == SourceKeys \cup {Empty}
=============================================================================
