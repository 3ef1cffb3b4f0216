------------------------------ MODULE MCKProcess ------------------------------
EXTENDS KProcess

\* A long life of the table alone, and shorter ones with threads and pages.
MCBounds == {[nodes |-> 9, pages |-> 0, waiting |-> 0], [nodes |-> 6, pages |-> 3, waiting |-> 2]}
=============================================================================
