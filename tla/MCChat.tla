-------------------------------- MODULE MCChat --------------------------------
(* Two windows of one browser.  One of them may load its page twice and send *)
(* two texts: a join, and a text to the room it joined.                      *)
EXTENDS Chat

CONSTANTS b1, w1

MCBrowserOf == [w \in Windows |-> b1]
MCMaxSubmits == [w \in Windows |-> IF w = w1 THEN 2 ELSE 1]
MCMaxLoads == [w \in Windows |-> IF w = w1 THEN 2 ELSE 1]

\* Of their numbers only the order of the requests that wait for an answer
\* matters, and that the others are several.  Of the tabs of a window that may
\* submit no more, the active one matters only to TypeOK.
Rank(q) == Cardinality({p \in requests : p.sender = q.sender /\ p.id < q.id})
Active(w) ==
  IF submits[w] < MaxSubmits[w] \/ active[w] > Len(tabs[w]) THEN active[w] ELSE 0
View ==
  <<redis, username, loads, tabs, [w \in Windows |-> Active(w)], polls,
    {[q EXCEPT !.id = Rank(q)] : q \in requests}, texts>>
===============================================================================
