--------------------------- MODULE MCCollectives ---------------------------
(***************************************************************************)
(* A program in which collectives of two scopes are under way while the    *)
(* nodes pass a named barrier twice in a row; two phases follow, and a     *)
(* continuation attached to an unnamed barrier.                            *)
(***************************************************************************)
EXTENDS Collectives

CONSTANT k     \* the named barrier

MCProg == << <<"async", "s">>, <<"barrier", k>>, <<"barrier", k>>, <<"async", "t">>,
             <<"wait", <<"s", 1>>>>, <<"wait", <<"t", 1>>>>, <<"nextPhase", 0>>,
             <<"nextPhase", 0>>, <<"barrierThen", "-">> >>

MCStamp == ({"seq"} \X (2 .. 5)) \cup (Scope \X {1})
=============================================================================
