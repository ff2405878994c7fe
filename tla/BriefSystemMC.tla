---------------------------- MODULE BriefSystemMC ----------------------------
(***************************************************************************)
(* A small instance of BriefSystem: two sends of one draft, the first      *)
(* without a cookie.                                                       *)
(***************************************************************************)
EXTENDS BriefSystem

Sends == [u \in 1..2 |-> [key |-> 1, browser |-> u - 1, payload |-> 1]]
OneKey == [u \in 1..2 |-> "k"]
CookieLater == [u \in 1..2 |-> IF u = 1 THEN "nobody" ELSE "b"]
OneFile == [f \in {"f1"} |-> 1]
SomeIds == [x \in {"k", "b"} |-> IF x = "k" THEN 7 ELSE 3]
=============================================================================
