----------------------------- MODULE MCRecorder -----------------------------
(* Small instances of Recorder: one quantifier with two instances, one of    *)
(* them a negation, two other terms, and documents of at most two            *)
(* declarations.                                                             *)
EXTENDS Recorder

CONSTANTS quant, plain, negation, lit, thm, all

MCTerm == {quant, plain, negation, lit, thm, all}
MCUnliftable == {{}, {lit}, {plain}, {all}}

Item(kind, proof, node) ==
    [kind |-> kind, proof |-> proof, node |-> node,
     theorem |-> thm, closed |-> all]

\* Every executable kind alone and after a proof by induction; a document that
\* only proves.
MCDocument ==
    {<<Item(kind, FALSE, 1)>> : kind \in Kind}
        \cup {<<Item("induct", TRUE, 1), Item(kind, FALSE, 2)>> : kind \in Kind}
        \cup {<<Item("induct", TRUE, 1)>>}

=============================================================================
