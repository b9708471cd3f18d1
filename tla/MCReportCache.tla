--------------------------- MODULE MCReportCache ---------------------------
EXTENDS ReportCache, TLC

Symmetry == Permutations(Writers)
=============================================================================
