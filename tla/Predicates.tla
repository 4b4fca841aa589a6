----------------------------- MODULE Predicates -----------------------------
(***************************************************************************)
(* The proof obligations Fine generates for a theorem, and what they mean. *)
(* Source: src/src/fine/predicate_runtime.cpp (declare_predicate,          *)
(* execute_predicate_induction) and execute_check in runtime.cpp.          *)
(*                                                                         *)
(* A predicate P(index) is a list of constructors.  A constructor is kept  *)
(* as the set of its ground instances, one rule for each assignment of its *)
(* parameters: the conclusion's atom, the atoms of the premises, and for   *)
(* an `arbitrary` field the premise atoms of all the values that satisfy   *)
(* the field's view and whether the view is available there (its witness   *)
(* satisfies the requirement, or some value does if none is declared).     *)
(* A datatype is the predicate Data of its own constructors.               *)
(***************************************************************************)
EXTENDS Naturals, Sequences

CONSTANTS
    Pred,      \* predicate names
    Index,     \* values of a predicate's indices
    Context,   \* values of the check parameters that are not indices
    Data       \* the datatype, as a predicate

Atom == Pred \X Index
Rule == [concl : Atom, prem : SUBSET Atom, field : SUBSET Atom, avail : BOOLEAN]
Constructor == [rules : SUBSET Rule, arbitrary : BOOLEAN]
Tables == [Pred -> Seq(Constructor)]

Rules(T) == UNION {UNION {T[p][k].rules : k \in DOMAIN T[p]} : p \in Pred}

\* What declare_predicate lets through: a constructor produces its own
\* predicate, a field's premises recurse on it, a constructor without a field
\* has nothing to be unavailable; a datatype's fields are total.
WellFormed(T) ==
    /\ T \in Tables
    /\ \A p \in Pred : \A k \in DOMAIN T[p] : \A r \in T[p][k].rules :
          /\ r.concl[1] = p
          /\ \A a \in r.field : a[1] = p
          /\ ~T[p][k].arbitrary => r.field = {} /\ r.avail
          /\ p = Data => ~T[p][k].arbitrary /\ \A a \in r.prem : a[1] = Data

-----------------------------------------------------------------------------
(* The least constructor-generated interpretation. *)

Closed(T, I) ==
    \A r \in Rules(T) : r.prem \cup r.field \subseteq I => r.concl \in I

Least(T) ==
    LET closed == {I \in SUBSET Atom : Closed(T, I)}
    IN  {a \in Atom : \A I \in closed : a \in I}

\* Every value of a datatype is built by its constructors.
Generated(T) == \A d \in Index : <<Data, d>> \in Least(T)

-----------------------------------------------------------------------------
(* Theorems.  `aux` and `goal` are predicate-free conditions on the index  *)
(* and the context; `assumed` and `ensured` are the predicate atoms of the *)
(* assumptions and of the guarantee, as functions of both.                 *)

Place == Index \X Context
Theorem == [target : Pred, aux : SUBSET Place, goal : SUBSET Place,
            assumed : SUBSET [Place -> Atom], ensured : SUBSET [Place -> Atom]]

Assumptions(th, I, d, c) ==
    <<d, c>> \in th.aux /\ \A f \in th.assumed : f[<<d, c>>] \in I

Guarantees(th, I, d, c) ==
    <<d, c>> \in th.goal /\ \A f \in th.ensured : f[<<d, c>>] \in I

\* The theorem at one index, generalized over the context.
Contextual(th, I, d) ==
    \A c \in Context : Assumptions(th, I, d, c) => Guarantees(th, I, d, c)

\* The theorem under an interpretation of the predicates.
Holds(th, I) == \A d \in Index : <<th.target, d>> \in I => Contextual(th, I, d)

True(T, th) == Holds(th, Least(T))

-----------------------------------------------------------------------------
(* The queries.  To Z3 a predicate is an uninterpreted relation; a datatype *)
(* has all its values.  A query is satisfiable when some interpretation    *)
(* that obeys the theorems admitted so far satisfies it.                   *)

Interpretations(adm) ==
    {I \in SUBSET Atom : /\ \A d \in Index : <<Data, d>> \in I
                         /\ \A n \in DOMAIN adm : Holds(adm[n], I)}

\* Mutant: the premises of the alternative are left out.
OneLayerShallow(T, I, a) == \E r \in Rules(T) : r.concl = a /\ r.avail

\* one_layer: some constructor of the atom's predicate produces it.
OneLayer(T, I, a) ==
    \E r \in Rules(T) :
        r.concl = a /\ r.prem \subseteq I /\ r.avail /\ r.field \subseteq I

\* One induction hypothesis for each recursive premise, at its exact index.
Hypotheses(th, I, r) ==
    /\ \A a \in r.prem : Contextual(th, I, a[2])
    /\ r.avail
    /\ \A a \in r.field : Contextual(th, I, a[2])

Resources(T, th, I, d, c) ==
    /\ Assumptions(th, I, d, c)
    /\ \A f \in th.assumed : OneLayer(T, I, f[<<d, c>>])

GoalResource(T, th, I, d, c) ==
    IF th.ensured = {} THEN <<d, c>> \in th.goal
    ELSE \A f \in th.ensured : OneLayer(T, I, f[<<d, c>>])

BranchIsSat(T, adm, th, k) ==
    \E I \in Interpretations(adm), r \in T[th.target][k].rules, c \in Context :
        /\ Hypotheses(th, I, r)
        /\ Resources(T, th, I, r.concl[2], c)
        /\ ~GoalResource(T, th, I, r.concl[2], c)

\* Is the negated availability obligation of a constructor satisfiable?
Unavailable(T, adm, p, k) ==
    \E I \in Interpretations(adm), r \in T[p][k].rules : ~r.avail

\* The predicates used through one_layer.
OneLayerPredicates(th) ==
    {p \in Pred : \E f \in th.assumed \cup th.ensured, w \in Place : f[w][1] = p}

RecursiveOnly(T, p, k) ==
    \A r \in T[p][k].rules : \A a \in r.prem : a[1] = p

\* execute_check's single query: some value built by a constructor whose
\* direct recursive fields satisfy the theorem does not satisfy it.
StructuralCounterexamples(T, adm, th) ==
    {w \in Place :
        \E I \in Interpretations(adm) :
           /\ \E r \in Rules(T) :
                 /\ r.concl = <<Data, w[1]>>
                 /\ \A a \in r.prem : Contextual(th, I, a[2])
           /\ Assumptions(th, I, w[1], w[2]) /\ ~Guarantees(th, I, w[1], w[2])}

\* The query of a check without induction.
PlainCounterexamples(adm, th) ==
    {w \in Place :
        \E I \in Interpretations(adm) :
           Assumptions(th, I, w[1], w[2]) /\ ~Guarantees(th, I, w[1], w[2])}

-----------------------------------------------------------------------------
(* The fixedpoint engine, which is given only the predicates without       *)
(* arbitrary fields.                                                       *)

\* Mutant: one constructor without a field is enough.
HornCompleteSome(T, p) == \E k \in DOMAIN T[p] : ~T[p][k].arbitrary

HornComplete(T, p) == \A k \in DOMAIN T[p] : ~T[p][k].arbitrary

\* The rules given to the engine when the predicates in D are declared.
HornRules(T, D) ==
    UNION {UNION {T[p][k].rules : k \in DOMAIN T[p]} :
              p \in {q \in D : HornComplete(T, q)}}

\* Z3 throws on a rule that mentions a relation it was not given.
RulesAreInterpreted(T, D) ==
    \A r \in HornRules(T, D) : \A a \in r.prem : HornComplete(T, a[1])

\* The relation the engine computes: the least one closed under its rules.
FixedPoint(T, D) ==
    LET closed == {I \in SUBSET Atom :
                     \A r \in HornRules(T, D) : r.prem \subseteq I => r.concl \in I}
    IN  {a \in Atom : \A I \in closed : a \in I}
=============================================================================
