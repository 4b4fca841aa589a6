------------------------------ MODULE MCRuntime ------------------------------
(* An instance of Runtime for TLC: the numbers up to 2 as the datatype.    *)
EXTENDS Runtime

Numbers == 0..2
Contexts == {0, 1}
Names == {"Nat", "P", "Q"}

R(p, n, prem, field, avail) ==
    [concl |-> <<p, n>>, prem |-> prem, field |-> field, avail |-> avail]
Plain(rules) == [rules |-> rules, arbitrary |-> FALSE]
Arbitrary(rules) == [rules |-> rules, arbitrary |-> TRUE]

\* P(n), or P(n + step) from P(n).
Base(p, n) == Plain({R(p, n, {}, {}, TRUE)})
Up(p, step) == Plain({R(p, n + step, {<<p, n>>}, {}, TRUE) : n \in 0..(2 - step)})
\* P(n) from P(m) for every m below n; the view is empty at n = 0.
Below(p, ns) ==
    Arbitrary({R(p, n, {}, {<<p, m>> : m \in 0..(n - 1)}, n > 0) : n \in ns})
\* Q(n) from P(n).
Copy(q, p) == Plain({R(q, n, {<<p, n>>}, {}, TRUE) : n \in Numbers})

Tabled ==
    {[Nat |-> <<Base("Nat", 0), Up("Nat", 1)>>, P |-> p, Q |-> q] :
        p \in {<<Base("P", 0), Up("P", 2)>>, <<Base("P", 2), Base("P", 1)>>,
               <<Base("P", 0), Below("P", 1..2)>>, <<Below("P", 0..2)>>},
        q \in {<<Base("Q", 0), Up("Q", 1)>>, <<Base("Q", 1), Copy("Q", "P")>>,
               <<Base("Q", 2), Below("Q", 1..2)>>, <<Below("Q", 0..1)>>}}

-----------------------------------------------------------------------------
Where(Test(_, _)) == {w \in Place : Test(w[1], w[2])}
AtIndex(p) == [w \in Place |-> <<p, w[1]>>]
AtContext(p) == [w \in Place |-> <<p, w[2]>>]

Th0(target, aux, goal, assumed, ensured) ==
    [target |-> target, aux |-> aux, goal |-> goal, assumed |-> assumed, ensured |-> ensured]

Goals == {Where(LAMBDA d, c : d # 1), Where(LAMBDA d, c : d >= c), Where(LAMBDA d, c : d <= 1)}
Auxes == {Place, Where(LAMBDA d, c : c = 0)}

NatTheorems == {Th0("Nat", a, g, {}, {}) : a \in Auxes, g \in Goals \cup {Place}}
PTheorems ==
    {Th0("P", a, g, s, {}) : a \in Auxes, g \in Goals, s \in {{}, {AtIndex("Q")}, {AtContext("Q")}}}
    \cup {Th0("P", Place, Place, s, {AtIndex("Q")}) : s \in {{}, {AtContext("P")}}}
Few == {Th0("P", Place, Where(LAMBDA d, c : d # 1), s, {}) : s \in {{}, {AtIndex("Q")}}}
    \cup {Th0("P", Place, Place, {}, {AtIndex("Q")})}

Check(reusable, induct, th) ==
    [op |-> "check", reusable |-> reusable, induct |-> induct, ground |-> FALSE, th |-> th,
     atom |-> Nothing]
Member(a) ==
    [op |-> "check", reusable |-> FALSE, induct |-> "none", ground |-> TRUE, th |-> Nothing, atom |-> a]
Predicate(p) == [op |-> "predicate", pred |-> p]
Synth == [op |-> "synth"]
Model == [op |-> "model"]

Doc(items) == {[table |-> t, items |-> items] : t \in Theories}
Docs(itemss) == UNION {Doc(items) : items \in itemss}
AnyTable == CHOOSE t \in Theories : TRUE

NatDocs ==
    {[table |-> AnyTable, items |-> items] : items \in
        {<<Check(TRUE, i, th), Check(FALSE, j, uh)>> :
            i, j \in {"none", "parameter"}, th, uh \in NatTheorems}}

PQ == <<Predicate("P"), Predicate("Q")>>
PredicateDocs ==
    Docs({PQ \o <<Check(TRUE, "predicate", th), Check(FALSE, "predicate", uh)>> :
            th \in PTheorems, uh \in Few}
      \cup {PQ \o <<Check(FALSE, i, th)>> : i \in {"none", "parameter", "predicate"}, th \in PTheorems}
      \cup {PQ \o <<Check(FALSE, "predicate", Th0("Q", Place, g, {}, {}))>> : g \in Goals}
      \cup {<<Check(TRUE, "parameter", th)>> \o PQ \o <<Check(FALSE, "predicate", uh)>> :
               th \in NatTheorems, uh \in Few}
      \cup {PQ \o <<Member(a)>> : a \in {"P", "Q"} \X Numbers}
      \cup {<<Member(<<"P", 0>>)>> \o PQ,
            <<Check(TRUE, "parameter", CHOOSE th \in NatTheorems : TRUE), Predicate("Q")>>,
            <<Check(TRUE, "none", CHOOSE th \in PTheorems : TRUE)>> \o PQ,
            <<Predicate("P"), Predicate("P")>>,
            <<Predicate("P"), Synth>>})

Shapes ==
    {[table |-> AnyTable, items |-> items] : items \in
        {<<>>, <<Model, Model>>, <<Synth>>, <<Synth, Synth>>, <<[op |-> "witness"]>>,
         <<Synth, Check(TRUE, "none", CHOOSE th \in NatTheorems : TRUE)>>}}

-----------------------------------------------------------------------------
L == {"l0", "l1"}
Rt == {"r0", "r1"}
Systems ==
    [left : {<<"l0", "l1">>}, right : {<<"r0", "r1">>},
     leftStep : SUBSET (L \X L), rightStep : SUBSET (Rt \X Rt),
     leftLabel : SUBSET L, rightLabel : {{}, {"r1"}}, initial : {<<"l0", "r0">>}]
SolveDocs ==
    {[table |-> AnyTable, items |-> items] : items \in
        {<<Model, [op |-> "solve", system |-> s]>> : s \in Systems}
        \cup {<<[op |-> "solve", system |-> CHOOSE s \in Systems : TRUE]>>}}

Documents == NatDocs \cup PredicateDocs \cup Shapes \cup SolveDocs
=============================================================================
