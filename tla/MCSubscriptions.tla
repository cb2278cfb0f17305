---- MODULE MCSubscriptions ----
(* Model-checking instance of Subscriptions: a query that reads one table, *)
(* and another one while the first table's revision is odd.                *)
EXTENDS Subscriptions

MCDepends(revs) == IF revs["a"] % 2 = 1 THEN {"a", "b"} ELSE {"a"}
====
