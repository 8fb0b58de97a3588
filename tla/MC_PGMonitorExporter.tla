------------------------- MODULE MC_PGMonitorExporter -------------------------
EXTENDS PGMonitorExporter
=============================================================================
