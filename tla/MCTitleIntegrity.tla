--------------------------- MODULE MCTitleIntegrity ---------------------------
EXTENDS TitleIntegrity

MCSizes == {3, 5, 6}
=============================================================================
