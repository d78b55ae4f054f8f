---------------------------- MODULE MCRouteQuery ----------------------------
EXTENDS RouteQuery

Route(id, d, a, fare, transfers) ==
    [id |-> id, departure |-> d, arrival |-> a, fare |-> fare, transfers |-> transfers]
Yen(n) == {[amount |-> n, currency |-> "JPY"]}
Euro(n) == {[amount |-> n, currency |-> "EUR"]}

\* Two that tie and a late and cheap one.
Priced == {Route(1, 1, 3, Yen(2), 1), Route(2, 2, 3, Yen(2), 1), Route(3, 0, 4, Yen(1), 0)}
\* Fares unknown.
Unpriced == {Route(1, 0, 3, {}, 1), Route(2, 1, 3, {}, 1), Route(3, 2, 3, {}, 0)}
\* Fares in two currencies and none.
Mixed == {Route(1, 0, 2, Yen(2), 0), Route(2, 1, 3, Euro(1), 1), Route(3, 1, 4, {}, 2)}

NoHint == [type |-> "NONE", at |-> 0]
DepartAt(t) == [type |-> "DEPART_AT", at |-> t]
ArriveBy(t) == [type |-> "ARRIVE_BY", at |-> t]
Query(h, d, s) == [hint |-> h, deadline |-> d, offered |-> s]

Queries == {Query(NoHint, {}, Priced), Query(DepartAt(1), {4}, Mixed),
            Query(ArriveBy(3), {4}, Unpriced)}
=============================================================================
