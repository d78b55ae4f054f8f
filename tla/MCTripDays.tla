---------------------------- MODULE MCTripDays ----------------------------
EXTENDS TripDays

CONSTANTS t1, t2

\* Empty trips; one with a blank day in the middle; one with a full day and a
\* second trip right after it.
Plans ==
    {[t \in Trips |-> <<>>],
     [t \in Trips |-> IF t = t1 THEN <<1, 0, 1>> ELSE <<>>],
     [t \in Trips |-> IF t = t1 THEN <<3, 1>> ELSE <<0, 0, 1>>]}
=============================================================================
