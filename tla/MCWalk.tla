------------------------------- MODULE MCWalk -------------------------------
EXTENDS Walk

\* A scenario of a daemon phase d, a sweep s of two phases at once, and a loop
\* l around the phase y.
TreeNodes == {"root", "d", "s", "x1", "x2", "l", "lb", "y"}
TreeKind == [n \in TreeNodes |->
    CASE n \in {"root", "lb"} -> "body" [] n = "s" -> "sweep" [] n = "l" -> "loop" [] OTHER -> "phase"]
TreeKids == [n \in TreeNodes |->
    CASE n = "root" -> <<"d", "s", "l">> [] n = "s" -> <<"x1", "x2">>
      [] n = "l" -> <<"lb">> [] n = "lb" -> <<"y">> [] OTHER -> <<>>]
TreeLimit == [n \in TreeNodes |-> IF n = "s" THEN 2 ELSE 1]
=============================================================================
