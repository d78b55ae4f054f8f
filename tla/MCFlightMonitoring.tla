------------------------- MODULE MCFlightMonitoring -------------------------
EXTENDS FlightMonitoring

\* Symmetry is not used: one worker, one client, and flights that Init tells apart.
=============================================================================
