------------------------------ MODULE MCFlowEngine ------------------------------
EXTENDS FlowEngine
CONSTANTS a, b, c, d

Edge(s, t, br) == [source |-> s, target |-> t, branch |-> br]

\* Every graph of three nodes that follows the order a, b, c; a and b may be conditions.
Pairs == {<<a, b>>, <<a, c>>, <<b, c>>}
Plain == {"stop", "continue"}
SmallFlows ==
  UNION {
    LET Choices == {Edge(p[1], p[2], TRUE) : p \in Pairs} \cup
                   {Edge(p[1], p[2], FALSE) : p \in {q \in Pairs : q[1] \in C}}
    IN [nodes : {{a, b, c}}, edges : SUBSET Choices, conditions : {C},
        onError : {[n \in {a, b, c} |-> IF n = b THEN q ELSE p] : p \in Plain, q \in Policies}]
    : C \in SUBSET {a, b}}

Cyclic ==
  [nodes : {{a, b, c, d}}, conditions : {{}}, onError : {[n \in {a, b, c, d} |-> "stop"]},
   edges : {{Edge(a, b, TRUE), Edge(b, c, TRUE), Edge(c, b, TRUE), Edge(c, d, TRUE)},
            {Edge(a, a, TRUE)}}]

\* A diamond whose branches have different lengths, with and without a condition at its head.
Diamonds ==
  [nodes : {{a, b, c, d}}, conditions : {{}, {a}},
   edges : {{Edge(a, b, TRUE), Edge(a, c, FALSE), Edge(b, d, TRUE), Edge(c, d, TRUE)},
            {Edge(a, b, TRUE), Edge(a, d, FALSE), Edge(b, c, TRUE), Edge(c, d, TRUE)}},
   onError : {[n \in {a, b, c, d} |-> IF n = b THEN p ELSE "stop"] : p \in Policies}]

Empty == [nodes |-> {}, edges |-> {}, conditions |-> {}, onError |-> [n \in {} |-> "stop"]]

MCFlows == SmallFlows \cup Cyclic \cup Diamonds \cup {Empty}
================================================================================
