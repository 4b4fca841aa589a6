---------------------------- MODULE Bisimulation ----------------------------
(***************************************************************************)
(* `solve bisimulation`: the clauses put to Z3, and the way of the model's *)
(* relation through the canonical array, the surface table and back.       *)
(* Source: src/src/fine/bisimulation_runtime.cpp and table_value in        *)
(* runtime.cpp.  A system is two enums (sequences of their cases), a step  *)
(* table and a Boolean label table for each, and the initial pair.         *)
(***************************************************************************)
EXTENDS Naturals, Sequences, SequencesExt

Pairs(s) == ToSet(s.left) \X ToSet(s.right)

LabelsAgree(s, R) ==
    \A p \in R : (p[1] \in s.leftLabel) = (p[2] \in s.rightLabel)

\* Mutant: one right step has to match all the left steps.
LeftStepMatchedByOne(s, R) ==
    \A p \in R : \E r \in ToSet(s.right) :
        \A l \in ToSet(s.left) :
            <<p[1], l>> \in s.leftStep => <<p[2], r>> \in s.rightStep /\ <<l, r>> \in R

LeftStepMatched(s, R) ==
    \A p \in R, l \in ToSet(s.left) :
        <<p[1], l>> \in s.leftStep =>
            \E r \in ToSet(s.right) : <<p[2], r>> \in s.rightStep /\ <<l, r>> \in R

\* Mutant: the matching step may lead to any pair.
RightStepMatchedAnywhere(s, R) ==
    \A p \in R, r \in ToSet(s.right) :
        <<p[2], r>> \in s.rightStep => \E l \in ToSet(s.left) : <<p[1], l>> \in s.leftStep

RightStepMatched(s, R) ==
    \A p \in R, r \in ToSet(s.right) :
        <<p[2], r>> \in s.rightStep =>
            \E l \in ToSet(s.left) : <<p[1], l>> \in s.leftStep /\ <<l, r>> \in R

\* The relations a satisfiable query may return.
Models(s) ==
    {R \in SUBSET Pairs(s) : /\ LabelsAgree(s, R)
                             /\ LeftStepMatched(s, R)
                             /\ RightStepMatched(s, R)
                             /\ s.initial \in R}

-----------------------------------------------------------------------------
(* An array term: a constant array under stores, the outermost one first.  *)

EmptyArray == [default |-> FALSE, stores |-> <<>>]

Store(array, key, val) ==
    [array EXCEPT !.stores = <<[key |-> key, val |-> val]>> \o @]

\* The cells in the order of the two enumeration loops.
Cells(s) ==
    FlattenSeq([i \in DOMAIN s.left |->
        [j \in DOMAIN s.right |-> <<s.left[i], s.right[j]>>]])

\* Mutant: an entry is pushed before the rest of the array is lifted.
LiftTableOuterFirst(array) ==
    [default |-> array.default, entries |-> array.stores]

\* lift_table_into goes down to the constant array and pushes on its way up.
LiftTable(array) ==
    [default |-> array.default, entries |-> Reverse(array.stores)]

\* The elaborated table literal: one store for each entry, in order.
TableValue(table) ==
    FoldLeft(LAMBDA array, e : Store(array, e.key, e.val),
             [EmptyArray EXCEPT !.default = table.default], table.entries)

DuplicateKey(table) ==
    \E i, j \in DOMAIN table.entries :
        i # j /\ table.entries[i].key = table.entries[j].key

\* What a surface table says of a pair.
Reads(table, key) ==
    IF \E e \in ToSet(table.entries) : e.key = key
    THEN \E e \in ToSet(table.entries) : e.key = key /\ e.val
    ELSE table.default

-----------------------------------------------------------------------------
(* The reference: bisimilarity by refining the pairs with equal labels.    *)

Refine(s, R) ==
    {p \in R :
       /\ {l \in ToSet(s.left) : <<p[1], l>> \in s.leftStep}
            \subseteq {q[1] : q \in {x \in R : <<p[2], x[2]>> \in s.rightStep}}
       /\ {r \in ToSet(s.right) : <<p[2], r>> \in s.rightStep}
            \subseteq {q[2] : q \in {x \in R : <<p[1], x[1]>> \in s.leftStep}}}

Bisimilar(s) ==
    LET same == {p \in Pairs(s) : (p[1] \in s.leftLabel) <=> (p[2] \in s.rightLabel)}
        bound == Len(s.left) * Len(s.right)
        after[n \in 0..bound] == IF n = 0 THEN same ELSE Refine(s, after[n - 1])
    IN  after[bound]
=============================================================================
