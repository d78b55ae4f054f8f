---------------------------- MODULE DateCalendar ----------------------------
(***************************************************************************)
(* What the trips of one owner promise each other about the calendar       *)
(* (docs/08, O-02): every trip holds a run of consecutive dates, no date   *)
(* is held twice, and one trip at a time changes what it holds.            *)
(***************************************************************************)
EXTENDS Naturals

CONSTANTS Trips, MaxDate

VARIABLE span   \* the dates each trip holds

Runs == {a..b : a, b \in 1..MaxDate} \cup {{}}

Hold(t) ==
    \E run \in Runs :
        /\ \A u \in Trips \ {t} : span[u] \cap run = {}
        /\ span' = [span EXCEPT ![t] = run]

Init == /\ span \in [Trips -> Runs]
        /\ \A t, u \in Trips : t # u => span[t] \cap span[u] = {}
Next == \E t \in Trips : Hold(t)
Spec == Init /\ [][Next]_span
=============================================================================
