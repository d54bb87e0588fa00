---------------------------- MODULE MCCollection ----------------------------
(***************************************************************************)
(* The load balancer moves elements and the collection is modified twice,  *)
(* so that what one modification leaves behind meets the next; broadcasts  *)
(* are made before, between and after.                                     *)
(***************************************************************************)
EXTENDS Collection, TLC

CONSTANTS n1, n2, n3, a, b

MCHome == (a :> n1) @@ (b :> n2)

MCHere == {<<b, n3>>}

MCProg == <<"broadcast", "decide", "sum", "inform", "arrive", "regroup", "apply", "regroup",
            "broadcast", "modify", "stamp", "group", "modify", "stamp", "group", "broadcast">>

\* One operation in the first modification, two that may race in the second.
MCMaxOps == [p \in DOMAIN MCProg |-> IF p = 10 THEN 1 ELSE 2]
=============================================================================
