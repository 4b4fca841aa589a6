--------------------------- MODULE RecorderProofs ---------------------------
(***************************************************************************)
(* The recorder's bookkeeping, for any terms, documents, failing lifts and *)
(* number of callbacks.  Each method of the recorder is shown to Grow it:  *)
(* the trace is extended by events that are no quantifier lemma, pending   *)
(* instances stay, and no term is forgotten.                               *)
(***************************************************************************)
EXTENDS Recorder, TLAPS

Ops == {"document", "snapshot", "node", "term", "edge", "validate",
        "query.open", "proof.use", "instance", "clause", "inst", "lemma",
        "step", "result", "query.close", "answer", "assignment",
        "witness.accept", "proof.admit", "proof.close", "run.close"}

Events == [op : Ops, terms : Seq(Term), scope : Nat, ref : Nat,
           node : SUBSET Node, status : {"", "verified", "refuted"}]

Evidence == [quantifier : Quantifier, instance : Instance, event : Nat]

Recorders == [terms : Seq(Term), validated : Nat, nodes : SUBSET Node,
              pending : SUBSET Evidence, trace : Seq(Events), failed : Fault]

\* The exceptions that can be thrown: all but those of the pending instances.
Thrown == Fault \ {"duplicate", "unpaired"}

DeclaredBy(r, n, t) ==
    \E j \in 1 .. n : /\ r.trace[j].op = "term"
                      /\ t \in Range(r.trace[j].terms)

NamesAreDeclared(r) ==
    \A k \in 1 .. Len(r.trace) : r.trace[k].op # "term" =>
        \A t \in Range(r.trace[k].terms) : DeclaredBy(r, k - 1, t)

TermsAreDeclared(r) ==
    \A t \in Range(r.terms) : DeclaredBy(r, Len(r.trace), t)

\* A recorder whose trace names only what it declared ...
Named(r) ==
    /\ r \in Recorders
    /\ r.validated <= Len(r.terms)
    /\ NamesAreDeclared(r)

\* ... and that has declared all it remembers unless a lift has failed.
Sound(r) ==
    /\ Named(r)
    /\ r.failed = "no" => TermsAreDeclared(r)

Grows(r, s) ==
    /\ s.pending = r.pending
    /\ Len(r.trace) <= Len(s.trace)
    /\ \A k \in 1 .. Len(r.trace) : s.trace[k] = r.trace[k]
    /\ \A k \in Len(r.trace) + 1 .. Len(s.trace) : s.trace[k].op # "inst"
    /\ Range(r.terms) \subseteq Range(s.terms)
    /\ s.failed = r.failed \/ s.failed \in Thrown
    /\ s.failed = "no" => r.failed = "no"

-----------------------------------------------------------------------------
(* The recorder's methods. *)

\* Two methods called one after the other grow the recorder.
LEMMA GrowsTwice ==
    ASSUME NEW r \in Recorders, NEW s \in Recorders, NEW u \in Recorders,
           Grows(r, s), Grows(s, u)
    PROVE  Grows(r, u)
<1>1. /\ Len(r.trace) \in Nat /\ Len(s.trace) \in Nat /\ Len(u.trace) \in Nat
  BY DEF Recorders
<1>2. \A k \in Len(r.trace) + 1 .. Len(u.trace) : u.trace[k].op # "inst"
  <2> TAKE k \in Len(r.trace) + 1 .. Len(u.trace)
  <2>1. CASE k <= Len(s.trace)
    BY <1>1, <2>1 DEF Grows
  <2>2. CASE k > Len(s.trace)
    BY <1>1, <2>2 DEF Grows
  <2> QED BY <1>1, <2>1, <2>2
<1>3. \A k \in 1 .. Len(r.trace) : u.trace[k] = r.trace[k]
  BY <1>1 DEF Grows
<1> QED BY <1>1, <1>2, <1>3 DEF Grows

\* A method that leaves the recorder alone grows it trivially.
LEMMA GrowsNot ==
    ASSUME NEW r \in Recorders
    PROVE  Grows(r, r)
<1>1. Len(r.trace) \in Nat
  BY DEF Recorders
<1> QED BY <1>1 DEF Grows

\* record: appending an event that names remembered terms keeps the recorder
\* sound.
LEMMA RecordGrows ==
    ASSUME NEW r, Sound(r), NEW e \in Events, e.op # "term",
           r.failed = "no" => Range(e.terms) \subseteq Range(r.terms)
    PROVE  /\ Sound(Record(r, e))
           /\ e.op # "inst" => Grows(r, Record(r, e))
           /\ Record(r, e).terms = r.terms
           /\ Record(r, e).failed = r.failed
<1>0. r \in Recorders
  BY DEF Sound, Named
<1>1. CASE r.failed # "no"
  BY <1>0, <1>1, GrowsNot DEF Record
<1>2. CASE r.failed = "no"
  <2> DEFINE s == Record(r, e)
  <2>1. s = [r EXCEPT !.trace = Append(r.trace, e)]
    BY <1>2 DEF Record
  <2> HIDE DEF s
  <2>a. Append(r.trace, e) \in Seq(Events)
    BY <1>0 DEF Recorders
  <2>2. /\ s \in Recorders /\ s.pending = r.pending /\ s.terms = r.terms
        /\ s.validated = r.validated
        /\ s.failed = r.failed /\ s.trace = Append(r.trace, e)
    BY <1>0, <2>1, <2>a DEF Recorders
  <2>3. /\ Len(r.trace) \in Nat
        /\ Len(s.trace) = Len(r.trace) + 1
        /\ s.trace[Len(r.trace) + 1] = e
        /\ \A k \in 1 .. Len(r.trace) : s.trace[k] = r.trace[k]
    BY <1>0, <2>2 DEF Recorders
  <2>4. \A t : \A n \in 0 .. Len(r.trace) :
            DeclaredBy(r, n, t) => DeclaredBy(s, n, t)
    <3> SUFFICES ASSUME NEW t, NEW n \in 0 .. Len(r.trace),
                        DeclaredBy(r, n, t)
                 PROVE  DeclaredBy(s, n, t)
      OBVIOUS
    <3>1. PICK j \in 1 .. n : /\ r.trace[j].op = "term"
                              /\ t \in Range(r.trace[j].terms)
      BY DEF DeclaredBy
    <3>2. j \in 1 .. Len(r.trace)
      BY <2>3
    <3>3. s.trace[j] = r.trace[j]
      BY <2>3, <3>2
    <3> QED BY <3>1, <3>3 DEF DeclaredBy
  <2>5. NamesAreDeclared(s)
    <3> SUFFICES ASSUME NEW k \in 1 .. Len(s.trace), s.trace[k].op # "term",
                        NEW t \in Range(s.trace[k].terms)
                 PROVE  DeclaredBy(s, k - 1, t)
      BY DEF NamesAreDeclared
    <3>1. CASE k <= Len(r.trace)
      <4>1. k \in 1 .. Len(r.trace) /\ k - 1 \in 0 .. Len(r.trace)
        BY <2>3, <3>1
      <4>2. DeclaredBy(r, k - 1, t)
        BY <2>3, <4>1 DEF Sound, Named, NamesAreDeclared
      <4> QED BY <2>4, <4>1, <4>2
    <3>2. CASE k = Len(r.trace) + 1
      <4>1. DeclaredBy(r, Len(r.trace), t)
        BY <1>2, <2>3, <3>2 DEF Sound, Named, TermsAreDeclared
      <4> QED BY <2>3, <2>4, <3>2, <4>1
    <3> QED BY <2>3, <3>1, <3>2
  <2>6. TermsAreDeclared(s)
    <3> SUFFICES ASSUME NEW t \in Range(s.terms)
                 PROVE  DeclaredBy(s, Len(s.trace), t)
      BY DEF TermsAreDeclared
    <3>1. DeclaredBy(r, Len(r.trace), t)
      BY <1>2, <2>2 DEF Sound, Named, TermsAreDeclared
    <3>2. DeclaredBy(s, Len(r.trace), t)
      BY <2>3, <2>4, <3>1
    <3>3. 1 .. Len(r.trace) \subseteq 1 .. Len(s.trace)
      BY <2>3
    <3> QED BY ONLY <3>2, <3>3 DEF DeclaredBy
  <2>7. e.op # "inst" => Grows(r, s)
    BY <2>2, <2>3 DEF Grows
  <2> QED BY <2>2, <2>5, <2>6, <2>7 DEF Sound, Named, s
<1> QED BY <1>1, <1>2

\* An exception keeps what is recorded.
LEMMA ThrowGrows ==
    ASSUME NEW r, Named(r), NEW why \in Thrown \ {"no"}
    PROVE  /\ Sound(Throw(r, why)) /\ Grows(r, Throw(r, why))
           /\ Throw(r, why).terms = r.terms
           /\ Throw(r, why).failed # "no"
<1>0. r \in Recorders /\ Len(r.trace) \in Nat
  BY DEF Sound, Named, Recorders
<1>1. CASE r.failed # "no"
  BY <1>0, <1>1, GrowsNot DEF Throw, Sound
<1>2. CASE r.failed = "no"
  <2> DEFINE s == Throw(r, why)
  <2>1. s = [r EXCEPT !.failed = why]
    BY <1>2 DEF Throw
  <2> HIDE DEF s
  <2>2. /\ s \in Recorders /\ s.pending = r.pending /\ s.terms = r.terms
        /\ s.validated = r.validated
        /\ s.failed = why /\ s.trace = r.trace
    BY <1>0, <2>1 DEF Recorders, Thrown, Fault
  <2>3. NamesAreDeclared(s)
    BY <2>2 DEF Sound, Named, NamesAreDeclared, DeclaredBy
  <2>4. Grows(r, s)
    BY <1>0, <2>2 DEF Grows
  <2> QED BY <2>2, <2>3, <2>4 DEF Sound, Named, s
<1> QED BY <1>1, <1>2

\* The terms of a sequence, and of one that is longer by a term.
LEMMA RangeAppend ==
    ASSUME NEW S, NEW seq \in Seq(S), NEW t \in S
    PROVE  Range(Append(seq, t)) = Range(seq) \cup {t}
<1> DEFINE new == Append(seq, t)
<1>1. /\ new \in Seq(S) /\ Len(seq) \in Nat /\ Len(new) = Len(seq) + 1
      /\ new[Len(seq) + 1] = t
      /\ \A k \in 1 .. Len(seq) : new[k] = seq[k]
  OBVIOUS
<1>2. DOMAIN new = 1 .. Len(seq) + 1 /\ DOMAIN seq = 1 .. Len(seq)
  BY <1>1
<1> HIDE DEF new
<1>3. ASSUME NEW u \in Range(new) PROVE u \in Range(seq) \cup {t}
  <2>1. PICK k \in DOMAIN new : u = new[k]
    BY <1>3 DEF Range
  <2> QED BY <1>1, <1>2, <2>1 DEF Range
<1>4. ASSUME NEW u \in Range(seq) \cup {t} PROVE u \in Range(new)
  BY <1>1, <1>2, <1>4 DEF Range
<1> QED BY <1>3, <1>4 DEF new

\* An event names the terms it is given.
LEMMA EventIsTyped ==
    ASSUME item \in Nat, NEW op \in Ops, NEW ts \in Seq(Term)
    PROVE  /\ Event(op, ts) \in Events
           /\ Event(op, ts).op = op /\ Event(op, ts).terms = ts
           /\ Event(op, ts).scope = item
<1> DEFINE e == Event(op, ts)
<1>1. /\ e.op = op /\ e.terms = ts /\ e.scope = item /\ e.ref = 0
      /\ e.node = {} /\ e.status = ""
  BY DEF Event
<1>2. e \in Events
  <2>1. e = [op |-> op, terms |-> ts, scope |-> item, ref |-> 0, node |-> {},
             status |-> ""]
    BY DEF Event
  <2>2. {} \in SUBSET Node
    OBVIOUS
  <2> HIDE DEF e
  <2> QED BY <2>1, <2>2 DEF Events
<1> QED BY <1>1, <1>2

\* term: a term is declared when its lift succeeds; when it fails the term is
\* remembered, and the exception keeps it from being named.
LEMMA TermGrows ==
    ASSUME item \in Nat, NEW r, Sound(r), NEW t \in Term
    PROVE  /\ Sound(TermOf(r, t)) /\ Grows(r, TermOf(r, t))
           /\ TermOf(r, t).failed = "no" => t \in Range(TermOf(r, t).terms)
           /\ TermOf(r, t).failed \in {r.failed, "lift"}
<1>0. r \in Recorders /\ Len(r.trace) \in Nat
  BY DEF Sound, Named, Recorders
<1>1. CASE r.failed # "no" \/ t \in Range(r.terms)
  <2>1. TermOf(r, t) = r
    BY <1>1 DEF TermOf
  <2> QED BY <1>0, <1>1, <2>1, GrowsNot
<1>2. CASE r.failed = "no" /\ t \notin Range(r.terms)
  <2> DEFINE m == [r EXCEPT !.terms = Append(r.terms, t)]
             e == Event("term", <<t>>)
             s == TermOf(r, t)
  <2>1. s = IF t \in unliftable THEN Throw(m, "lift") ELSE Record(m, e)
    BY <1>2 DEF TermOf
  <2>2. /\ Append(r.terms, t) \in Seq(Term)
        /\ Range(Append(r.terms, t)) = Range(r.terms) \cup {t}
        /\ r.validated <= Len(Append(r.terms, t))
    <3>1. /\ r.terms \in Seq(Term) /\ r.validated \in Nat
          /\ r.validated <= Len(r.terms)
      BY <1>0 DEF Recorders, Sound, Named
    <3> QED BY <3>1, RangeAppend
  <2>3. /\ m \in Recorders /\ m.pending = r.pending /\ m.trace = r.trace
        /\ m.failed = "no" /\ m.terms = Append(r.terms, t)
        /\ m.validated = r.validated
    BY <1>0, <1>2, <2>2 DEF Recorders
  <2> HIDE DEF m
  <2>4. CASE t \in unliftable
    <3>1. s = [m EXCEPT !.failed = "lift"]
      BY <2>1, <2>3, <2>4 DEF Throw
    <3> HIDE DEF s
    <3>2. /\ s \in Recorders /\ s.pending = r.pending /\ s.trace = r.trace
          /\ s.failed = "lift" /\ s.terms = Append(r.terms, t)
          /\ s.validated <= Len(s.terms)
      BY <2>2, <2>3, <3>1 DEF Recorders, Fault
    <3>3. Sound(s)
      BY <3>2 DEF Sound, Named, NamesAreDeclared, DeclaredBy
    <3>4. Grows(r, s)
      BY <1>0, <2>2, <3>2 DEF Grows, Thrown, Fault
    <3> QED BY <3>2, <3>3, <3>4 DEF s
  <2>5. CASE t \notin unliftable
    <3>1. s = [m EXCEPT !.trace = Append(m.trace, e)]
      BY <2>1, <2>3, <2>5 DEF Record
    <3>2. e \in Events /\ e.op = "term" /\ e.terms = <<t>>
      <4>1. <<t>> \in Seq(Term) /\ "term" \in Ops
        BY DEF Ops
      <4> QED BY <4>1, EventIsTyped
    <3> HIDE DEF s, e
    <3>3. Append(m.trace, e) \in Seq(Events)
      BY <2>3, <3>2 DEF Recorders
    <3>4. /\ s \in Recorders /\ s.pending = r.pending
          /\ s.trace = Append(r.trace, e)
          /\ s.failed = "no" /\ s.terms = Append(r.terms, t)
          /\ s.validated <= Len(s.terms)
      BY <2>2, <2>3, <3>1, <3>3 DEF Recorders
    <3>5. /\ Len(s.trace) = Len(r.trace) + 1
          /\ s.trace[Len(r.trace) + 1] = e
          /\ \A k \in 1 .. Len(r.trace) : s.trace[k] = r.trace[k]
      BY <1>0, <3>2, <3>4 DEF Recorders
    <3>6. \A u : \A n \in 0 .. Len(r.trace) :
              DeclaredBy(r, n, u) => DeclaredBy(s, n, u)
      <4> SUFFICES ASSUME NEW u, NEW n \in 0 .. Len(r.trace),
                          DeclaredBy(r, n, u)
                   PROVE  DeclaredBy(s, n, u)
        OBVIOUS
      <4>1. PICK j \in 1 .. n : /\ r.trace[j].op = "term"
                                /\ u \in Range(r.trace[j].terms)
        BY DEF DeclaredBy
      <4>2. j \in 1 .. Len(r.trace)
        BY <1>0
      <4>3. s.trace[j] = r.trace[j]
        BY <3>5, <4>2
      <4> QED BY <4>1, <4>3 DEF DeclaredBy
    <3>7. NamesAreDeclared(s)
      <4> SUFFICES ASSUME NEW k \in 1 .. Len(s.trace), s.trace[k].op # "term",
                          NEW u \in Range(s.trace[k].terms)
                   PROVE  DeclaredBy(s, k - 1, u)
        BY DEF NamesAreDeclared
      <4>1. k \in 1 .. Len(r.trace) /\ k - 1 \in 0 .. Len(r.trace)
        BY <1>0, <3>2, <3>5
      <4>2. DeclaredBy(r, k - 1, u)
        BY <3>5, <4>1 DEF Sound, Named, NamesAreDeclared
      <4> QED BY <3>6, <4>1, <4>2
    <3>8. TermsAreDeclared(s)
      <4> SUFFICES ASSUME NEW u \in Range(s.terms)
                   PROVE  DeclaredBy(s, Len(s.trace), u)
        BY DEF TermsAreDeclared
      <4>1. CASE u \in Range(r.terms)
        <5>1. DeclaredBy(r, Len(r.trace), u)
          BY <1>2, <4>1 DEF Sound, Named, TermsAreDeclared
        <5>2. DeclaredBy(s, Len(r.trace), u)
          BY <1>0, <3>6, <5>1
        <5>3. 1 .. Len(r.trace) \subseteq 1 .. Len(s.trace)
          BY <1>0, <3>5
        <5> QED BY ONLY <5>2, <5>3 DEF DeclaredBy
      <4>2. CASE u = t
        <5>1. t \in Range(e.terms)
          BY <3>2 DEF Range
        <5>2. Len(r.trace) + 1 \in 1 .. Len(s.trace)
          BY <1>0, <3>5
        <5>3. /\ s.trace[Len(r.trace) + 1].op = "term"
              /\ u \in Range(s.trace[Len(r.trace) + 1].terms)
          BY <3>2, <3>5, <4>2, <5>1
        <5> QED BY ONLY <5>2, <5>3 DEF DeclaredBy
      <4> QED BY <2>2, <3>4, <4>1, <4>2
    <3>9. Grows(r, s)
      BY <1>0, <1>2, <2>2, <3>2, <3>4, <3>5 DEF Grows
    <3> QED BY <1>2, <2>2, <3>4, <3>7, <3>8, <3>9 DEF Sound, Named, s
  <2> QED BY <2>4, <2>5
<1> QED BY <1>1, <1>2
\* What a recorder whose lists are those of a sound one is.
LEMMA SoundAlike ==
    ASSUME NEW r, Sound(r), NEW s \in Recorders, s.trace = r.trace,
           s.terms = r.terms, s.failed = r.failed, s.validated = r.validated
    PROVE  Sound(s)
BY DEF Sound, Named, NamesAreDeclared, TermsAreDeclared, DeclaredBy

\* Events that carry a node, a status or a reference besides.
LEMMA EventsWith ==
    ASSUME NEW e \in Events
    PROVE  /\ \A n \in Node :
                 /\ [e EXCEPT !.node = {n}] \in Events
                 /\ [e EXCEPT !.node = {n}].op = e.op
                 /\ [e EXCEPT !.node = {n}].terms = e.terms
           /\ \A st \in {"verified", "refuted"} :
                 /\ [e EXCEPT !.status = st] \in Events
                 /\ [e EXCEPT !.status = st].op = e.op
                 /\ [e EXCEPT !.status = st].terms = e.terms
           /\ \A k \in Nat :
                 /\ [e EXCEPT !.ref = k] \in Events
                 /\ [e EXCEPT !.ref = k].op = e.op
                 /\ [e EXCEPT !.ref = k].terms = e.terms
                 /\ [e EXCEPT !.ref = k].scope = e.scope
                 /\ [e EXCEPT !.ref = k].ref = k
BY DEF Events

\* Several events that name remembered terms, recorded one after the other.
LEMMA ManyEventsGrow ==
    ASSUME NEW r, Sound(r), r.failed = "no", NEW es \in Seq(Events),
           \A j \in 1 .. Len(es) : /\ es[j].op \notin {"term", "inst"}
                                   /\ Range(es[j].terms) \subseteq Range(r.terms),
           NEW s \in Recorders, s.trace = r.trace \o es, s.terms = r.terms,
           s.pending = r.pending, s.failed = "no", s.validated <= Len(s.terms)
    PROVE  Sound(s) /\ Grows(r, s)
<1>1. /\ r \in Recorders /\ Len(r.trace) \in Nat /\ Len(es) \in Nat
      /\ r.trace \in Seq(Events)
  BY DEF Sound, Named, Recorders
<1>2. /\ Len(s.trace) = Len(r.trace) + Len(es)
      /\ \A k \in 1 .. Len(r.trace) : s.trace[k] = r.trace[k]
      /\ \A k \in Len(r.trace) + 1 .. Len(s.trace) :
            /\ s.trace[k] = es[k - Len(r.trace)]
            /\ k - Len(r.trace) \in 1 .. Len(es)
  BY <1>1
<1>3. \A t : \A n \in 0 .. Len(r.trace), k \in Nat :
          n <= k /\ DeclaredBy(r, n, t) => DeclaredBy(s, k, t)
  BY <1>1, <1>2 DEF DeclaredBy
<1>4. NamesAreDeclared(s)
  <2> SUFFICES ASSUME NEW k \in 1 .. Len(s.trace), s.trace[k].op # "term",
                      NEW t \in Range(s.trace[k].terms)
               PROVE  DeclaredBy(s, k - 1, t)
    BY DEF NamesAreDeclared
  <2>1. CASE k <= Len(r.trace)
    <3>1. k \in 1 .. Len(r.trace) /\ k - 1 \in 0 .. Len(r.trace)
      BY <1>1, <1>2, <2>1
    <3>2. DeclaredBy(r, k - 1, t)
      BY <1>2, <3>1 DEF Sound, Named, NamesAreDeclared
    <3> QED BY <1>1, <1>3, <3>1, <3>2
  <2>2. CASE k > Len(r.trace)
    <3>1. k \in Len(r.trace) + 1 .. Len(s.trace)
      BY <1>1, <1>2, <2>2
    <3>2. t \in Range(r.terms)
      BY <1>2, <3>1
    <3>3. DeclaredBy(r, Len(r.trace), t)
      BY <3>2 DEF Sound, Named, TermsAreDeclared
    <3>4. /\ k - 1 \in Nat /\ Len(r.trace) <= k - 1
          /\ Len(r.trace) \in 0 .. Len(r.trace)
      BY <1>1, <3>1
    <3> QED BY <1>3, <3>3, <3>4
  <2> QED BY <1>1, <1>2, <2>1, <2>2
<1>5. TermsAreDeclared(s)
  <2> SUFFICES ASSUME NEW t \in Range(s.terms)
               PROVE  DeclaredBy(s, Len(s.trace), t)
    BY DEF TermsAreDeclared
  <2>1. DeclaredBy(r, Len(r.trace), t)
    BY DEF Sound, Named, TermsAreDeclared
  <2> QED BY <1>1, <1>2, <1>3, <2>1
<1>6. Grows(r, s)
  BY <1>1, <1>2 DEF Grows
<1> QED BY <1>4, <1>5, <1>6 DEF Sound, Named

\* source_node keeps the recorder sound.
LEMMA SourceNodeGrows ==
    ASSUME item \in Nat, NEW r, Sound(r), NEW n \in Node
    PROVE  Sound(SourceNode(r, n)) /\ Grows(r, SourceNode(r, n))
<1>0. r \in Recorders /\ Len(r.trace) \in Nat
  BY DEF Sound, Named, Recorders
<1>1. CASE r.failed # "no" \/ n \in r.nodes
  BY <1>0, <1>1, GrowsNot DEF SourceNode
<1>2. CASE ~(r.failed # "no" \/ n \in r.nodes)
  <2> DEFINE m == [r EXCEPT !.nodes = r.nodes \cup {n}]
             e == [Event("node", <<>>) EXCEPT !.node = {n}]
  <2>1. SourceNode(r, n) = Record(m, e)
    BY <1>2 DEF SourceNode
  <2>2. /\ m \in Recorders /\ m.pending = r.pending /\ m.trace = r.trace
        /\ m.failed = r.failed /\ m.terms = r.terms
        /\ m.validated = r.validated
    BY <1>0 DEF Recorders
  <2>3. e \in Events /\ e.op = "node" /\ e.terms = <<>>
    <3>1. <<>> \in Seq(Term) /\ "node" \in Ops
      BY DEF Ops
    <3>2. /\ Event("node", <<>>) \in Events /\ Event("node", <<>>).op = "node"
          /\ Event("node", <<>>).terms = <<>>
      BY <3>1, EventIsTyped
    <3> QED BY <3>2, EventsWith
  <2> HIDE DEF m, e
  <2>4. Sound(m) /\ Grows(r, m)
    BY <1>0, <2>2, SoundAlike DEF Grows
  <2>5. Range(e.terms) = {}
    BY <2>3 DEF Range
  <2>6. Sound(Record(m, e)) /\ Grows(m, Record(m, e))
    BY <2>3, <2>4, <2>5, RecordGrows
  <2> QED BY <1>0, <2>1, <2>2, <2>4, <2>6, GrowsTwice DEF Sound, Named
<1> QED BY <1>1, <1>2

\* source_term declares its node and its term before the edge between them.
LEMMA SourceTermGrows ==
    ASSUME item \in Nat, NEW r, Sound(r), NEW n \in Node, NEW t \in Term
    PROVE  /\ Sound(SourceTerm(r, n, t)) /\ Grows(r, SourceTerm(r, n, t))
           /\ SourceTerm(r, n, t).failed = "no" =>
                 t \in Range(SourceTerm(r, n, t).terms)
<1> DEFINE a == SourceNode(r, n)
           b == TermOf(a, t)
           e == [Event("edge", <<t>>) EXCEPT !.node = {n}]
<1>1. Sound(a) /\ Grows(r, a)
  BY SourceNodeGrows
<1> HIDE DEF a
<1>2. /\ Sound(b) /\ Grows(a, b)
      /\ b.failed = "no" => t \in Range(b.terms)
  BY <1>1, TermGrows
<1>3. e \in Events /\ e.op = "edge" /\ e.terms = <<t>>
  <2>1. <<t>> \in Seq(Term) /\ "edge" \in Ops
    BY DEF Ops
  <2>2. /\ Event("edge", <<t>>) \in Events /\ Event("edge", <<t>>).op = "edge"
        /\ Event("edge", <<t>>).terms = <<t>>
    BY <2>1, EventIsTyped
  <2> QED BY <2>2, EventsWith
<1> HIDE DEF b, e
<1>4. Range(e.terms) = {t}
  BY <1>3 DEF Range
<1>5. /\ Sound(Record(b, e)) /\ Grows(b, Record(b, e))
      /\ Record(b, e).terms = b.terms /\ Record(b, e).failed = b.failed
  BY <1>2, <1>3, <1>4, RecordGrows
<1>6. Grows(r, b)
  BY <1>1, <1>2, GrowsTwice DEF Sound, Named
<1>7. Grows(r, Record(b, e))
  BY <1>2, <1>5, <1>6, GrowsTwice DEF Sound, Named
<1>8. SourceTerm(r, n, t) = Record(b, e)
  BY DEF SourceTerm, a, b, e
<1> QED BY <1>2, <1>5, <1>7, <1>8

\* validate_terms lifts remembered terms only, and each call those that the
\* last one left.
LEMMA ValidateGrows ==
    ASSUME item \in Nat, NEW r, Sound(r), NEW bad \in Nat,
           bad = 0 \/ bad \in r.validated + 1 .. Len(r.terms)
    PROVE  /\ Sound(Validate(r, bad)) /\ Grows(r, Validate(r, bad))
           /\ Validate(r, bad).terms = r.terms
<1>0. /\ r \in Recorders /\ Len(r.terms) \in Nat /\ r.validated \in Nat
      /\ r.validated <= Len(r.terms) /\ r.terms \in Seq(Term)
      /\ r.trace \in Seq(Events)
  BY DEF Sound, Named, Recorders
<1>1. CASE r.failed # "no"
  BY <1>0, <1>1, GrowsNot DEF Validate
<1>2. CASE r.failed = "no"
  <2> DEFINE n == IF bad = 0 THEN Len(r.terms) ELSE bad - 1
             d == n - r.validated
             E(j) == Event("validate", <<r.terms[r.validated + j]>>)
             seen == [j \in 1 .. d |-> E(j)]
             v == IF bad = 0 THEN n ELSE bad
             s == [r EXCEPT !.trace = r.trace \o seen, !.validated = v]
  <2>1. Validate(r, bad) = IF bad = 0 THEN s ELSE Throw(s, "reify")
    BY <1>2 DEF Validate
  <2>2. /\ n \in Nat /\ r.validated <= n /\ n <= Len(r.terms) /\ d \in Nat
        /\ v \in Nat /\ v <= Len(r.terms)
    BY <1>0
  <2> HIDE DEF n, d, v
  <2>3. \A j \in 1 .. d :
            /\ E(j) \in Events /\ E(j).op = "validate"
            /\ E(j).terms = <<r.terms[r.validated + j]>>
            /\ r.terms[r.validated + j] \in Range(r.terms)
    <3> TAKE j \in 1 .. d
    <3>1. r.validated + j \in 1 .. Len(r.terms)
      BY <1>0, <2>2 DEF d
    <3>2. /\ r.terms[r.validated + j] \in Term
          /\ r.terms[r.validated + j] \in Range(r.terms)
      BY <1>0, <3>1 DEF Range
    <3>3. <<r.terms[r.validated + j]>> \in Seq(Term) /\ "validate" \in Ops
      BY <3>2 DEF Ops
    <3> QED BY <3>2, <3>3, EventIsTyped
  <2> HIDE DEF E
  <2>4. /\ seen \in Seq(Events) /\ Len(seen) = d
        /\ \A j \in 1 .. Len(seen) : seen[j] = E(j)
    BY <2>2, <2>3
  <2> HIDE DEF seen
  <2>5. r.trace \o seen \in Seq(Events)
    BY <1>0, <2>4
  <2>6. /\ s \in Recorders /\ s.trace = r.trace \o seen /\ s.terms = r.terms
        /\ s.pending = r.pending /\ s.failed = "no" /\ s.validated = v
    BY <1>0, <1>2, <2>2, <2>5 DEF Recorders
  <2> HIDE DEF s
  <2>7. \A j \in 1 .. Len(seen) :
            /\ seen[j].op \notin {"term", "inst"}
            /\ Range(seen[j].terms) \subseteq Range(r.terms)
    BY <2>3, <2>4 DEF Range
  <2>8. Sound(s) /\ Grows(r, s)
    BY <1>2, <2>2, <2>4, <2>6, <2>7, ManyEventsGrow
  <2>9. /\ Sound(Throw(s, "reify")) /\ Grows(s, Throw(s, "reify"))
        /\ Throw(s, "reify").terms = s.terms
    <3>1. "reify" \in Thrown \ {"no"}
      BY DEF Thrown, Fault
    <3> QED BY <2>8, <3>1, ThrowGrows DEF Sound
  <2>10. Grows(r, Throw(s, "reify"))
    BY <1>0, <2>6, <2>8, <2>9, GrowsTwice DEF Sound, Named
  <2> QED BY <2>1, <2>6, <2>8, <2>9, <2>10
<1> QED BY <1>1, <1>2
-----------------------------------------------------------------------------
(* The invariant. *)

\* The property InstancesJoinTheirOwnQuery, of any recorder.
Joined(r) ==
    \A k \in 1 .. Len(r.trace) : r.trace[k].op = "inst" =>
        LET e == r.trace[k]
        IN  /\ e.ref \in 1 .. k - 1
            /\ r.trace[e.ref].op = "instance"
            /\ r.trace[e.ref].scope = e.scope
            /\ \A j \in 1 .. Len(r.trace) :
                  r.trace[j].op = "inst" /\ r.trace[j].ref = e.ref => j = k

\* The recorder holds exactly the evidence of one accepted instance, recorded
\* in this query, that no lemma has used.
Awaits(r, q, i) ==
    \E n \in 1 .. Len(r.trace) :
        /\ r.pending = {[quantifier |-> q, instance |-> i, event |-> n]}
        /\ r.trace[n].op = "instance"
        /\ r.trace[n].scope = item
        /\ \A j \in 1 .. Len(r.trace) :
              r.trace[j].op = "inst" => r.trace[j].ref # n

Control ==
    /\ doc \in Document
    /\ item \in Nat \ {0}
    /\ phase \in {"start", "idle", "query", "done"}
    /\ phase = "start" => rec = EmptyRecorder /\ item = 1
    /\ phase \in {"start", "idle"} => inflight = NoInstance /\ failure = "no"
    /\ phase = "query" => item \in DOMAIN doc
    /\ phase # "done" => rec.failed = "no"
    /\ failure \in Thrown /\ rec.failed \in Thrown
    /\ phase = "query" /\ failure # "no" => Current.kind = "spacer"
    /\ phase = "query" /\ inflight # NoInstance => Current.kind \in Observed
    /\ inflight = NoInstance \/ inflight \in Quantifier \X Instance

\* What proof.use names was declared when the proof was admitted.
AdmittedAreDeclared ==
    phase # "done" => \A k \in 1 .. item - 1 :
        k \in DOMAIN doc /\ doc[k].closed \in Range(rec.terms)

PendingIsInFlight ==
    /\ phase = "query" /\ inflight # NoInstance =>
          Awaits(rec, inflight[1], inflight[2])
    /\ inflight = NoInstance /\ rec.failed = "no" => rec.pending = {}

PInv ==
    /\ Control
    /\ Named(rec) /\ (failure = "no" => Sound(rec))
    /\ AdmittedAreDeclared
    /\ Joined(rec)
    /\ PendingIsInFlight

\* A step that changes neither the recorder nor the control of the run, such as
\* a callback after a kept failure.
LEMMA NothingChanges ==
    ASSUME PInv, UNCHANGED <<doc, item, phase, inflight, rec, failure>>
    PROVE  PInv'
<1>1. /\ doc' = doc /\ item' = item /\ phase' = phase /\ inflight' = inflight
      /\ rec' = rec /\ failure' = failure
  OBVIOUS
<1>2. Control'
  BY <1>1 DEF PInv, Control, Current
<1>3. Named(rec)'
  BY <1>1 DEF PInv, Named, NamesAreDeclared, DeclaredBy
<1>4. (failure = "no" => TermsAreDeclared(rec) \/ rec.failed # "no")'
  BY <1>1 DEF PInv, Sound, TermsAreDeclared, DeclaredBy
<1>5. AdmittedAreDeclared'
  BY <1>1 DEF PInv, AdmittedAreDeclared
<1>6. Joined(rec)'
  BY <1>1 DEF PInv, Joined
<1>7. PendingIsInFlight'
  BY <1>1 DEF PInv, PendingIsInFlight, Awaits
<1> QED BY <1>2, <1>3, <1>4, <1>5, <1>6, <1>7 DEF PInv, Sound

\* Methods other than the one that logs a lemma keep the lemmas joined.
LEMMA JoinedGrows ==
    ASSUME NEW r \in Recorders, NEW s \in Recorders, Grows(r, s), Joined(r)
    PROVE  Joined(s)
<1>1. Len(r.trace) \in Nat /\ Len(s.trace) \in Nat
  BY DEF Recorders
<1>2. \A k \in 1 .. Len(s.trace) : s.trace[k].op = "inst" =>
          k \in 1 .. Len(r.trace) /\ s.trace[k] = r.trace[k]
  BY <1>1 DEF Grows
<1> SUFFICES ASSUME NEW k \in 1 .. Len(s.trace), s.trace[k].op = "inst"
             PROVE  LET e == s.trace[k]
                    IN  /\ e.ref \in 1 .. k - 1
                        /\ s.trace[e.ref].op = "instance"
                        /\ s.trace[e.ref].scope = e.scope
                        /\ \A j \in 1 .. Len(s.trace) :
                              s.trace[j].op = "inst" /\ s.trace[j].ref = e.ref
                                  => j = k
  BY DEF Joined
<1>3. k \in 1 .. Len(r.trace) /\ s.trace[k] = r.trace[k]
  BY <1>2
<1>4. /\ r.trace[k].ref \in 1 .. k - 1
      /\ r.trace[r.trace[k].ref].op = "instance"
      /\ r.trace[r.trace[k].ref].scope = r.trace[k].scope
      /\ \A j \in 1 .. Len(r.trace) :
            r.trace[j].op = "inst" /\ r.trace[j].ref = r.trace[k].ref => j = k
  BY <1>3 DEF Joined
<1>5. r.trace[k].ref \in 1 .. Len(r.trace)
  BY <1>1, <1>3, <1>4
<1>6. s.trace[r.trace[k].ref] = r.trace[r.trace[k].ref]
  BY <1>5 DEF Grows
<1> QED BY <1>2, <1>3, <1>4, <1>6

\* ... and the evidence that is awaited in place.
LEMMA AwaitsGrows ==
    ASSUME NEW r \in Recorders, NEW s \in Recorders, Grows(r, s),
           NEW q, NEW i, Awaits(r, q, i)
    PROVE  Awaits(s, q, i)
<1>1. Len(r.trace) \in Nat /\ Len(s.trace) \in Nat
  BY DEF Recorders
<1>2. PICK n \in 1 .. Len(r.trace) :
        /\ r.pending = {[quantifier |-> q, instance |-> i, event |-> n]}
        /\ r.trace[n].op = "instance"
        /\ r.trace[n].scope = item
        /\ \A j \in 1 .. Len(r.trace) :
              r.trace[j].op = "inst" => r.trace[j].ref # n
  BY DEF Awaits
<1>3. n \in 1 .. Len(s.trace) /\ s.trace[n] = r.trace[n]
  BY <1>1 DEF Grows
<1>4. \A j \in 1 .. Len(s.trace) : s.trace[j].op = "inst" =>
          j \in 1 .. Len(r.trace) /\ s.trace[j] = r.trace[j]
  BY <1>1 DEF Grows
<1>5. s.pending = r.pending
  BY DEF Grows
<1>6. \A j \in 1 .. Len(s.trace) : s.trace[j].op = "inst" => s.trace[j].ref # n
  BY ONLY <1>2, <1>4
<1>7. /\ s.pending = {[quantifier |-> q, instance |-> i, event |-> n]}
      /\ s.trace[n].op = "instance" /\ s.trace[n].scope = item
  BY ONLY <1>2, <1>3, <1>5
<1> QED BY ONLY <1>3, <1>6, <1>7 DEF Awaits

\* A declaration of a document and what it names.
LEMMA CurrentIsTyped ==
    ASSUME doc \in Document, NEW k \in DOMAIN doc
    PROVE  /\ doc \in Seq([kind : Kind, proof : BOOLEAN, node : Node,
                           theorem : Term, closed : Term])
           /\ doc[k].node \in Node /\ doc[k].theorem \in Term
           /\ doc[k].closed \in Term /\ doc[k].kind \in Kind
           /\ doc[k].proof => doc[k].kind \in {"plain", "induct"}
<1> DEFINE D == [kind : Kind, proof : BOOLEAN, node : Node,
                 theorem : Term, closed : Term]
<1>1. doc \in Seq(D)
  BY RecorderConstants
<1> HIDE DEF D
<1>2. doc[k] \in D
  BY <1>1
<1> QED BY <1>1, <1>2, RecorderConstants DEF D

\* A handler that grew a sound recorder keeps the invariant.
LEMMA HandlerKeeps ==
    ASSUME PInv, NEW r, Sound(r), Grows(rec, r),
           NEW next \in {"idle", "query", "done"}, Proceed(r, next),
           UNCHANGED <<doc, inflight>>, item' \in {item, item + 1},
           failure' \in {"no", failure},
           next = "idle" => inflight = NoInstance /\ failure' = "no",
           next = "query" => /\ item' = item /\ item \in DOMAIN doc
                             /\ phase = "query" \/ inflight = NoInstance
                             /\ phase = "query" \/ failure' = "no",
           phase' # "done" /\ item' = item + 1 =>
               item \in DOMAIN doc /\ doc[item].closed \in Range(r.terms),
           phase # "done"
    PROVE  PInv'
<1>1. /\ rec' = r /\ rec \in Recorders /\ r \in Recorders
      /\ phase' = IF r.failed = "no" THEN next ELSE "done"
  BY DEF Proceed, PInv, Sound, Named
<1>2. Joined(r)
  BY <1>1, JoinedGrows DEF PInv
<1>3. r.pending = rec.pending /\ Range(rec.terms) \subseteq Range(r.terms)
  BY DEF Grows
<1>4. r.failed \in Thrown
  BY DEF Grows, PInv, Control
<1>5. Control'
  BY <1>1, <1>4 DEF PInv, Control, Current
<1>6. AdmittedAreDeclared'
  <2> SUFFICES ASSUME phase' # "done", NEW k \in 1 .. item' - 1
               PROVE  k \in DOMAIN doc /\ doc[k].closed \in Range(r.terms)
    BY <1>1 DEF AdmittedAreDeclared
  <2>1. CASE k \in 1 .. item - 1
    BY <1>3, <2>1 DEF PInv, AdmittedAreDeclared
  <2>2. CASE k = item /\ item' = item + 1
    BY <2>2
  <2>3. item \in Nat /\ item' \in {item, item + 1}
    BY DEF PInv, Control
  <2>4. k \in 1 .. item - 1 \/ (k = item /\ item' = item + 1)
    <3>1. CASE item' = item
      BY <3>1
    <3>2. CASE item' = item + 1
      <4>1. k \in 1 .. (item + 1) - 1
        BY <3>2
      <4> QED BY <2>3, <3>2, <4>1
    <3> QED BY <2>3, <3>1, <3>2
  <2> QED BY <2>1, <2>2, <2>4
<1>7. PendingIsInFlight'
  <2>1. ASSUME phase' = "query", inflight # NoInstance
        PROVE  Awaits(rec, inflight[1], inflight[2])' 
    <3>1. phase = "query" /\ item' = item
      BY <1>1, <2>1
    <3>2. Awaits(rec, inflight[1], inflight[2])
      BY <2>1, <3>1 DEF PInv, PendingIsInFlight
    <3>3. Awaits(r, inflight[1], inflight[2])
      BY <1>1, <3>2, AwaitsGrows
    <3> QED BY <1>1, <3>1, <3>3 DEF Awaits
  <2>2. ASSUME inflight = NoInstance, r.failed = "no"
        PROVE  r.pending = {}
    <3>1. rec.failed = "no"
      BY <2>2 DEF Grows
    <3> QED BY <1>3, <2>2, <3>1 DEF PInv, PendingIsInFlight
  <2> QED BY <1>1, <2>1, <2>2 DEF PendingIsInFlight
<1>8. Named(rec)' /\ Sound(rec)' /\ Joined(rec)'
  BY <1>1, <1>2 DEF Sound, Named, NamesAreDeclared, TermsAreDeclared,
                    DeclaredBy, Joined
<1> QED BY <1>5, <1>6, <1>7, <1>8 DEF PInv
-----------------------------------------------------------------------------
(* The handlers. *)

\* Recording an event that names nothing, or terms just remembered.
LEMMA RecordEventGrows ==
    ASSUME item \in Nat, NEW r, Sound(r), NEW op \in Ops \ {"term", "inst"},
           NEW ts \in Seq(Term),
           r.failed = "no" => Range(ts) \subseteq Range(r.terms)
    PROVE  LET s == Record(r, Event(op, ts))
           IN  /\ Sound(s) /\ Grows(r, s)
               /\ s.terms = r.terms /\ s.failed = r.failed
<1>1. /\ Event(op, ts) \in Events /\ Event(op, ts).op = op
      /\ Event(op, ts).terms = ts
  BY EventIsTyped
<1> QED BY <1>1, RecordGrows

\* Two terms, then an event that names them.
LEMMA PairGrows ==
    ASSUME item \in Nat, NEW r, Sound(r), NEW t \in Term, NEW u \in Term
    PROVE  LET s == TermOf(TermOf(r, t), u)
           IN  /\ Sound(s) /\ Grows(r, s)
               /\ s.failed = "no" => {t, u} \subseteq Range(s.terms)
               /\ s.failed \in {r.failed, "lift"}
<1> DEFINE a == TermOf(r, t)
           s == TermOf(a, u)
<1>1. /\ Sound(a) /\ Grows(r, a) /\ (a.failed = "no" => t \in Range(a.terms))
      /\ a.failed \in {r.failed, "lift"}
  BY TermGrows
<1> HIDE DEF a
<1>2. /\ Sound(s) /\ Grows(a, s) /\ (s.failed = "no" => u \in Range(s.terms))
      /\ s.failed \in {a.failed, "lift"}
  BY <1>1, TermGrows
<1> HIDE DEF s
<1>3. Grows(r, s)
  BY <1>1, <1>2, GrowsTwice DEF Sound, Named
<1>4. s.failed = "no" => t \in Range(s.terms)
  BY <1>1, <1>2 DEF Grows
<1> QED BY <1>1, <1>2, <1>3, <1>4 DEF a, s

\* The constructor and declare_document_sources.
LEMMA StartKeeps ==
    ASSUME PInv, Start
    PROVE  PInv'
<1>0. /\ item = 1 /\ item \in Nat /\ phase = "start" /\ rec = EmptyRecorder
      /\ inflight = NoInstance /\ failure = "no" /\ doc \in Document
      /\ Sound(rec) /\ rec.failed = "no"
  BY DEF PInv, Control, Start
<1> DEFINE a == Record(rec, Event("document", <<>>))
           b == Record(a, Event("snapshot", <<>>))
           E(k) == [Event("node", <<>>) EXCEPT !.node = {doc[k].node}]
           ns == {doc[k].node : k \in DOMAIN doc}
           es == [k \in DOMAIN doc |-> E(k)]
           s == [b EXCEPT !.nodes = ns, !.trace = b.trace \o es]
<1>1. <<>> \in Seq(Term) /\ Range(<<>>) = {}
  BY DEF Range
<1>2. Sound(a) /\ Grows(rec, a) /\ a.terms = rec.terms /\ a.failed = "no"
  BY <1>0, <1>1, RecordEventGrows DEF Ops
<1> HIDE DEF a
<1>3. Sound(b) /\ Grows(a, b) /\ b.terms = a.terms /\ b.failed = "no"
  BY <1>0, <1>1, <1>2, RecordEventGrows DEF Ops
<1> HIDE DEF b
<1>4. \A k \in DOMAIN doc : /\ E(k) \in Events /\ E(k).op = "node"
                            /\ E(k).terms = <<>> /\ doc[k].node \in Node
  <2> TAKE k \in DOMAIN doc
  <2>1. doc[k].node \in Node
    BY <1>0, CurrentIsTyped
  <2>2. /\ Event("node", <<>>) \in Events /\ Event("node", <<>>).op = "node"
        /\ Event("node", <<>>).terms = <<>>
    <3>1. "node" \in Ops
      BY DEF Ops
    <3> QED BY <1>0, <1>1, <3>1, EventIsTyped
  <2> QED BY <2>1, <2>2, EventsWith
<1>5. Len(doc) \in Nat /\ DOMAIN doc = 1 .. Len(doc)
  <2> DEFINE D == [kind : Kind, proof : BOOLEAN, node : Node,
                   theorem : Term, closed : Term]
  <2>1. doc \in Seq(D)
    BY <1>0, RecorderConstants
  <2> HIDE DEF D
  <2> QED BY <2>1
<1> HIDE DEF E
<1>6. /\ es \in Seq(Events) /\ Len(es) = Len(doc)
      /\ \A k \in 1 .. Len(es) : es[k] = E(k)
  BY <1>4, <1>5
<1>7. ns \in SUBSET Node
  BY <1>4
<1> HIDE DEF ns, es
<1>8. b \in Recorders /\ b.trace \in Seq(Events) /\ b.validated <= Len(b.terms)
  BY <1>3 DEF Sound, Named, Recorders
<1>9. b.trace \o es \in Seq(Events)
  BY <1>6, <1>8
<1>10. /\ s \in Recorders /\ s.trace = b.trace \o es /\ s.terms = b.terms
       /\ s.pending = b.pending /\ s.failed = "no"
       /\ s.validated = b.validated
  BY <1>3, <1>7, <1>8, <1>9 DEF Recorders
<1> HIDE DEF s
<1>11. \A j \in 1 .. Len(es) : /\ es[j].op \notin {"term", "inst"}
                               /\ Range(es[j].terms) \subseteq Range(b.terms)
  BY <1>1, <1>4, <1>5, <1>6
<1>12. Sound(s) /\ Grows(b, s)
  BY <1>3, <1>6, <1>8, <1>10, <1>11, ManyEventsGrow
<1>13. Grows(rec, b)
  BY <1>0, <1>2, <1>3, GrowsTwice DEF Sound, Named
<1>14. Grows(rec, s)
  BY <1>0, <1>3, <1>12, <1>13, GrowsTwice DEF Sound, Named
<1>15. Proceed(s, "idle") /\ UNCHANGED <<doc, item, inflight, failure>>
  BY DEF Start, a, b, E, ns, es, s
<1> QED BY <1>0, <1>12, <1>14, <1>15, HandlerKeeps

\* The source edges of a declaration, its query and the proofs it may use.
LEMMA OpenQueryKeeps ==
    ASSUME PInv, OpenQuery
    PROVE  PInv'
<1>0. /\ item \in Nat /\ phase = "idle" /\ item \in DOMAIN doc
      /\ inflight = NoInstance /\ failure = "no" /\ doc \in Document
      /\ Sound(rec)
  BY DEF PInv, Control, OpenQuery
<1>1. Current.node \in Node /\ Current.theorem \in Term
  BY <1>0, CurrentIsTyped DEF Current
<1> DEFINE t == Current.theorem
           a == SourceTerm(rec, Current.node, t)
           b == Record(a, Event("query.open", <<t>>))
           used == [k \in 1 .. item - 1 |-> doc[k].closed]
           c == Record(b, Event("proof.use", used))
<1>2. /\ Sound(a) /\ Grows(rec, a)
      /\ a.failed = "no" => t \in Range(a.terms)
  BY <1>0, <1>1, SourceTermGrows
<1> HIDE DEF a
<1>3. <<t>> \in Seq(Term) /\ Range(<<t>>) = {t}
  BY <1>1 DEF Range
<1>4. Sound(b) /\ Grows(a, b) /\ b.terms = a.terms /\ b.failed = a.failed
  BY <1>0, <1>2, <1>3, RecordEventGrows DEF Ops
<1> HIDE DEF b
<1>5. \A k \in 1 .. item - 1 :
          doc[k].closed \in Term /\ doc[k].closed \in Range(rec.terms)
  BY <1>0, CurrentIsTyped DEF PInv, AdmittedAreDeclared
<1>6. used \in Seq(Term) /\ Range(used) \subseteq Range(rec.terms)
  BY <1>0, <1>5 DEF Range
<1> HIDE DEF used
<1>7. Range(used) \subseteq Range(b.terms)
  BY <1>2, <1>4, <1>6 DEF Grows
<1>8. Sound(c) /\ Grows(b, c)
  BY <1>0, <1>4, <1>6, <1>7, RecordEventGrows DEF Ops
<1> HIDE DEF c
<1>9. Grows(rec, b)
  BY <1>0, <1>2, <1>4, GrowsTwice DEF Sound, Named
<1>10. Grows(rec, c)
  BY <1>0, <1>4, <1>8, <1>9, GrowsTwice DEF Sound, Named
<1>11. /\ Proceed(c, "query") /\ failure' = "no"
       /\ UNCHANGED <<doc, item, inflight>>
  BY DEF OpenQuery, a, b, c, used
<1> QED BY <1>0, <1>8, <1>10, <1>11, HandlerKeeps

\* A document with nothing to execute is rejected.
LEMMA NothingKeeps ==
    ASSUME PInv, NothingToExecute
    PROVE  PInv'
<1>0. item \in Nat /\ phase = "idle" /\ failure = "no" /\ Sound(rec)
  BY DEF PInv, Control, NothingToExecute
<1>1. "executable" \in Thrown \ {"no"}
  BY DEF Thrown, Fault
<1> DEFINE r == Throw(rec, "executable")
<1>2. Sound(r) /\ Grows(rec, r) /\ r.failed # "no"
  BY <1>0, <1>1, ThrowGrows DEF Sound
<1> HIDE DEF r
<1>3. Proceed(r, "done") /\ UNCHANGED <<doc, item, inflight, failure>>
  BY DEF NothingToExecute, r
<1> QED BY <1>0, <1>2, <1>3, HandlerKeeps
\* on_binding: with nothing pending, the instance just recorded is what the
\* recorder awaits.
LEMMA AcceptInstanceKeeps ==
    ASSUME PInv, NEW q \in Quantifier, NEW i \in Instance, AcceptInstance(q, i)
    PROVE  PInv'
<1>0. /\ item \in Nat /\ phase = "query" /\ Current.kind \in Observed
      /\ inflight = NoInstance /\ inflight' = <<q, i>> /\ failure = "no"
      /\ Sound(rec) /\ rec.failed = "no" /\ rec.pending = {}
      /\ UNCHANGED <<doc, item, failure>> /\ q \in Term /\ i \in Term
  BY RecorderConstants
     DEF PInv, Control, PendingIsInFlight, AcceptInstance, Callback, Observed
<1> DEFINE a == TermOf(TermOf(rec, q), i)
           e == Event("instance", <<q, i>>)
           b == Record(a, e)
           s == Remember(b, q, i)
<1>1. /\ Sound(a) /\ Grows(rec, a)
      /\ a.failed = "no" => {q, i} \subseteq Range(a.terms)
      /\ a.failed \in {"no", "lift"}
  BY <1>0, PairGrows
<1> HIDE DEF a
<1>2. <<q, i>> \in Seq(Term) /\ Range(<<q, i>>) = {q, i} /\ "instance" \in Ops
  BY <1>0 DEF Range, Ops
<1>3. e \in Events /\ e.op = "instance" /\ e.scope = item
  <2>1. item \in Nat /\ <<q, i>> \in Seq(Term) /\ "instance" \in Ops
    BY <1>0, <1>2
  <2> QED BY ONLY <2>1, EventIsTyped
<1>4. Sound(b) /\ Grows(a, b) /\ b.terms = a.terms /\ b.failed = a.failed
  <2>1. /\ item \in Nat /\ Sound(a) /\ <<q, i>> \in Seq(Term)
        /\ a.failed = "no" => Range(<<q, i>>) \subseteq Range(a.terms)
    BY <1>0, <1>1, <1>2
  <2>2. "instance" \in Ops \ {"term", "inst"}
    BY DEF Ops
  <2> QED BY ONLY <2>1, <2>2, RecordEventGrows
<1>5. Grows(rec, b) /\ rec \in Recorders /\ b \in Recorders /\ a \in Recorders
  BY <1>0, <1>1, <1>4, GrowsTwice DEF Sound, Named
<1>6. Proceed(s, "query")
  BY DEF AcceptInstance, a, b, e, s
<1>7. CASE b.failed # "no"
  <2>1. s = b /\ rec' = b /\ phase' = "done"
    BY <1>6, <1>7 DEF Remember, Proceed
  <2>2. Joined(b) /\ b.failed \in Thrown
    BY <1>1, <1>4, <1>5, JoinedGrows DEF PInv, Thrown, Fault
  <2>3. Control' /\ AdmittedAreDeclared'
    BY <1>0, <2>1, <2>2 DEF PInv, Control, AdmittedAreDeclared
  <2>4. PendingIsInFlight'
    BY <1>7, <2>1 DEF PendingIsInFlight
  <2>5. Named(rec)' /\ Sound(rec)' /\ Joined(rec)'
    BY <1>4, <2>1, <2>2 DEF Sound, Named, NamesAreDeclared, TermsAreDeclared,
                            DeclaredBy, Joined
  <2> QED BY <2>3, <2>4, <2>5 DEF PInv
<1>8. CASE b.failed = "no"
  <2> DEFINE p == [quantifier |-> q, instance |-> i, event |-> Len(b.trace)]
  <2>1. b.pending = {}
    BY <1>0, <1>5 DEF Grows
  <2>2. s = [b EXCEPT !.pending = {p}]
    BY <1>8, <2>1 DEF Remember, Pending
  <2>3. a.trace \in Seq(Events) /\ b.trace = Append(a.trace, e)
    <3>1. b = [a EXCEPT !.trace = Append(a.trace, e)]
      BY <1>4, <1>8 DEF Record
    <3> HIDE DEF b
    <3> QED BY <1>5, <3>1 DEF Recorders
  <2>4. /\ Len(a.trace) \in Nat /\ Len(b.trace) = Len(a.trace) + 1
        /\ b.trace[Len(b.trace)] = e /\ Len(b.trace) \in 1 .. Len(b.trace)
    BY <1>3, <2>3
  <2> HIDE DEF b, s
  <2>5. p \in Evidence
    BY <1>5, <2>4 DEF Evidence
  <2>6. /\ s \in Recorders /\ s.pending = {p} /\ s.trace = b.trace
        /\ s.terms = b.terms /\ s.failed = "no" /\ s.validated = b.validated
    BY <1>5, <1>8, <2>2, <2>5 DEF Recorders
  <2>7. Sound(s) /\ Joined(b)
    <3>1. Sound(s)
      BY <1>4, <1>8, <2>6, SoundAlike
    <3>2. Joined(b)
      BY <1>5, JoinedGrows DEF PInv
    <3> QED BY <3>1, <3>2
  <2>8. Joined(s)
    BY <2>6, <2>7 DEF Joined
  <2>9. \A j \in 1 .. Len(b.trace) :
            b.trace[j].op = "inst" => b.trace[j].ref # Len(b.trace)
    BY <2>4, <2>7 DEF Joined
  <2>10. Awaits(s, q, i)
    BY <1>3, <2>4, <2>6, <2>9 DEF Awaits
  <2>11. rec' = s /\ phase' = "query"
    BY <1>6, <2>6 DEF Proceed
  <2>12. <<q, i>> # NoInstance /\ <<q, i>>[1] = q /\ <<q, i>>[2] = i
         /\ <<q, i>> \in Quantifier \X Instance
    BY DEF NoInstance
  <2>13. Control'
    BY <1>0, <2>6, <2>11, <2>12 DEF PInv, Control, Current, Thrown, Fault
  <2>14. Range(rec.terms) \subseteq Range(s.terms)
    BY <1>5, <2>6 DEF Grows
  <2>15. AdmittedAreDeclared'
    BY <1>0, <2>11, <2>14 DEF PInv, AdmittedAreDeclared
  <2>16. PendingIsInFlight'
    BY <1>0, <2>10, <2>11, <2>12 DEF PendingIsInFlight, Awaits
  <2>17. Named(rec)' /\ Sound(rec)' /\ Joined(rec)'
    BY <2>7, <2>8, <2>11 DEF Sound, Named, NamesAreDeclared, TermsAreDeclared,
                             DeclaredBy, Joined
  <2> QED BY <2>13, <2>15, <2>16, <2>17 DEF PInv
<1> QED BY <1>7, <1>8

\* on_clause for any other clause.
LEMMA LogClauseKeeps ==
    ASSUME PInv, NEW l \in Literal, NEW h \in Literal, LogClause(l, h)
    PROVE  PInv'
<1>0. /\ item \in Nat /\ phase = "query" /\ Current.kind \in Observed
      /\ item \in DOMAIN doc /\ failure = "no" /\ Sound(rec)
      /\ UNCHANGED <<doc, item, inflight, failure>> /\ l \in Term /\ h \in Term
  BY RecorderConstants DEF PInv, Control, LogClause, Callback, Observed
<1> DEFINE a == TermOf(TermOf(rec, l), h)
           b == Record(a, Event("clause", <<l, h>>))
<1>1. /\ Sound(a) /\ Grows(rec, a)
      /\ a.failed = "no" => {l, h} \subseteq Range(a.terms)
  BY <1>0, PairGrows
<1> HIDE DEF a
<1>2. <<l, h>> \in Seq(Term) /\ Range(<<l, h>>) = {l, h}
  BY <1>0 DEF Range
<1>3. Sound(b) /\ Grows(a, b)
  BY <1>0, <1>1, <1>2, RecordEventGrows DEF Ops
<1> HIDE DEF b
<1>4. Grows(rec, b)
  BY <1>0, <1>1, <1>3, GrowsTwice DEF Sound, Named
<1>5. Proceed(b, "query")
  BY DEF LogClause, a, b
<1> QED BY <1>0, <1>3, <1>4, <1>5, HandlerKeeps
\* The lemma of the accepted instance takes the evidence that is awaited, so
\* the join is with an instance of this query and with no other lemma's.
LEMMA LogInstanceKeeps ==
    ASSUME PInv, NEW l \in Literal, NEW h \in Literal, NEW x \in Literal,
           LogInstance(l, h, x)
    PROVE  PInv'
<1> DEFINE q == inflight[1]
           i == inflight[2]
<1>0. /\ item \in Nat /\ phase = "query" /\ inflight # NoInstance
      /\ inflight \in Quantifier \X Instance /\ inflight' = NoInstance
      /\ failure = "no" /\ Sound(rec) /\ rec \in Recorders /\ item \in DOMAIN doc
      /\ Awaits(rec, q, i) /\ UNCHANGED <<doc, item, failure>>
  BY DEF PInv, Control, PendingIsInFlight, LogInstance, Callback, Observed,
         Sound, Named
<1>1. l \in Term /\ h \in Term /\ x \in Term /\ q \in Term /\ i \in Term
  BY <1>0, RecorderConstants
<1> DEFINE r1 == TermOf(TermOf(rec, l), h)
           lifted == TermOf(TermOf(r1, q), i)
           r2 == IF i \in Negated THEN Throw(r1, "shape") ELSE lifted
           taken == Take(r2, q, i)
           m == [r2 EXCEPT !.pending = r2.pending \ taken]
           r3 == TermOf(m, x)
           ts == <<q, i, l, h, x>>
<1> HIDE DEF q, i
<1>2. /\ Sound(r1) /\ Grows(rec, r1)
      /\ r1.failed = "no" => {l, h} \subseteq Range(r1.terms)
  BY <1>0, <1>1, PairGrows
<1> HIDE DEF r1
<1>3. /\ Sound(r2) /\ Grows(r1, r2)
      /\ r2.failed = "no" => {q, i} \subseteq Range(r2.terms)
  <2>1. CASE i \in Negated
    <3>1. "shape" \in Thrown \ {"no"}
      BY DEF Thrown, Fault
    <3>2. /\ Sound(Throw(r1, "shape")) /\ Grows(r1, Throw(r1, "shape"))
          /\ Throw(r1, "shape").failed # "no"
      BY <1>2, <3>1, ThrowGrows DEF Sound
    <3> QED BY <2>1, <3>2
  <2>2. CASE i \notin Negated
    <3>1. /\ Sound(lifted) /\ Grows(r1, lifted)
          /\ lifted.failed = "no" => {q, i} \subseteq Range(lifted.terms)
      BY <1>0, <1>1, <1>2, PairGrows
    <3> QED BY <2>2, <3>1
  <2> QED BY <2>1, <2>2
<1> HIDE DEF r2
<1>4. /\ r2 \in Recorders /\ Grows(rec, r2)
      /\ r2.failed = "no" => {l, h, q, i} \subseteq Range(r2.terms)
  <2>1. r2 \in Recorders /\ Grows(rec, r2)
    BY <1>0, <1>2, <1>3, GrowsTwice DEF Sound, Named
  <2>2. r2.failed = "no" => {l, h} \subseteq Range(r2.terms)
    BY <1>2, <1>3 DEF Grows
  <2> QED BY <1>3, <2>1, <2>2
<1>5. Joined(r2) /\ Awaits(r2, q, i)
  BY <1>0, <1>4, JoinedGrows, AwaitsGrows DEF PInv
<1>6. PICK n \in 1 .. Len(r2.trace) :
        /\ r2.pending = {[quantifier |-> q, instance |-> i, event |-> n]}
        /\ r2.trace[n].op = "instance"
        /\ r2.trace[n].scope = item
        /\ \A j \in 1 .. Len(r2.trace) :
              r2.trace[j].op = "inst" => r2.trace[j].ref # n
  BY <1>5 DEF Awaits
<1>7. /\ taken = {[quantifier |-> q, instance |-> i, event |-> n]}
      /\ taken # {} /\ (CHOOSE p \in taken : TRUE).event = n
  <2>1. taken = {[quantifier |-> q, instance |-> i, event |-> n]}
    BY <1>6 DEF Take, Pending
  <2>2. taken # {} /\ (CHOOSE p \in taken : TRUE) \in taken
    BY <2>1
  <2> QED BY <2>1, <2>2
<1>8. /\ m \in Recorders /\ m.pending = {} /\ m.trace = r2.trace
      /\ m.terms = r2.terms /\ m.failed = r2.failed
      /\ m.validated = r2.validated
  BY <1>4, <1>6, <1>7 DEF Recorders
<1> HIDE DEF m, taken
<1>9. Sound(m)
  BY <1>3, <1>8, SoundAlike
<1>10. /\ Sound(r3) /\ Grows(m, r3)
       /\ r3.failed = "no" => x \in Range(r3.terms)
  BY <1>0, <1>1, <1>9, TermGrows
<1> HIDE DEF r3
<1>11. /\ r3 \in Recorders /\ r3.pending = {} /\ Len(r3.trace) \in Nat
       /\ Len(r2.trace) \in Nat /\ r3.failed \in Thrown
  <2>1. r3 \in Recorders
    BY <1>10 DEF Sound, Named
  <2>2. Len(r3.trace) \in Nat /\ Len(r2.trace) \in Nat
    BY <1>4, <2>1 DEF Recorders
  <2>3. r3.pending = {}
    BY <1>8, <1>10 DEF Grows
  <2>4. r2.failed \in Thrown
    BY <1>4 DEF Grows, PInv, Control
  <2>5. r3.failed \in Thrown
    BY <1>8, <1>10, <2>4 DEF Grows
  <2> QED BY <2>1, <2>2, <2>3, <2>5
<1>12. Joined(r3)
  <2>1. Joined(m)
    BY <1>5, <1>8 DEF Joined
  <2> QED BY <1>8, <1>10, <1>11, <2>1, JoinedGrows
<1>13. /\ n \in 1 .. Len(r3.trace) /\ n \in Nat
       /\ r3.trace[n].op = "instance" /\ r3.trace[n].scope = item
       /\ \A j \in 1 .. Len(r3.trace) :
             r3.trace[j].op = "inst" => r3.trace[j].ref # n
  <2>1. /\ Len(r2.trace) <= Len(r3.trace)
        /\ \A k \in 1 .. Len(r2.trace) : r3.trace[k] = r2.trace[k]
        /\ \A k \in Len(r2.trace) + 1 .. Len(r3.trace) :
              r3.trace[k].op # "inst"
    BY <1>8, <1>10 DEF Grows
  <2>2. \A j \in 1 .. Len(r3.trace) : r3.trace[j].op = "inst" =>
            j \in 1 .. Len(r2.trace)
    BY <1>11, <2>1
  <2> QED BY <1>6, <1>11, <2>1, <2>2
<1>14. ts \in Seq(Term) /\ Range(ts) = {q, i, l, h, x}
  BY <1>1 DEF Range
<1>15. r3.failed = "no" => Range(ts) \subseteq Range(r3.terms)
  BY <1>4, <1>8, <1>10, <1>14 DEF Grows
<1> HIDE DEF ts
<1> DEFINE e == [Event("inst", ts) EXCEPT !.ref = n]
           s == Record(r3, e)
<1>16. /\ e \in Events /\ e.op = "inst" /\ e.terms = ts /\ e.scope = item
       /\ e.ref = n
  <2>1. item \in Nat /\ "inst" \in Ops
    BY <1>0 DEF Ops
  <2>2. /\ Event("inst", ts) \in Events /\ Event("inst", ts).op = "inst"
        /\ Event("inst", ts).terms = ts /\ Event("inst", ts).scope = item
    BY ONLY <1>14, <2>1, EventIsTyped
  <2> QED BY <1>13, <2>2, EventsWith
<1> HIDE DEF e
<1>17. Sound(s) /\ s.terms = r3.terms /\ s.failed = r3.failed
  BY <1>10, <1>15, <1>16, RecordGrows
<1>18. Joined(s) /\ s.pending = {}
  <2>1. CASE r3.failed # "no"
    BY <1>11, <1>12, <2>1 DEF Record
  <2>2. CASE r3.failed = "no"
    <3>1. s = [r3 EXCEPT !.trace = Append(r3.trace, e)]
      BY <2>2 DEF Record
    <3> HIDE DEF s
    <3>2. s.trace = Append(r3.trace, e) /\ s.pending = {}
      BY <1>11, <3>1 DEF Recorders
    <3>3. /\ Len(s.trace) = Len(r3.trace) + 1
          /\ s.trace[Len(r3.trace) + 1] = e
          /\ \A k \in 1 .. Len(r3.trace) : s.trace[k] = r3.trace[k]
      BY <1>11, <1>16, <3>2 DEF Recorders
    <3>4. ASSUME NEW k \in 1 .. Len(s.trace), s.trace[k].op = "inst"
          PROVE  /\ s.trace[k].ref \in 1 .. k - 1
                 /\ s.trace[s.trace[k].ref].op = "instance"
                 /\ s.trace[s.trace[k].ref].scope = s.trace[k].scope
                 /\ \A j \in 1 .. Len(s.trace) :
                       s.trace[j].op = "inst" /\ s.trace[j].ref = s.trace[k].ref
                           => j = k
      <4>1. CASE k = Len(r3.trace) + 1
        <5>1. s.trace[k] = e /\ n \in 1 .. k - 1 /\ s.trace[n] = r3.trace[n]
          BY <1>11, <1>13, <3>3, <4>1
        <5>2. ASSUME NEW j \in 1 .. Len(s.trace), s.trace[j].op = "inst",
                     s.trace[j].ref = n
              PROVE  j = k
          <6>1. j \notin 1 .. Len(r3.trace)
            BY <1>13, <3>3, <5>2
          <6> QED BY <1>11, <3>3, <4>1, <6>1
        <5> QED BY <1>13, <1>16, <5>1, <5>2
      <4>2. CASE k \in 1 .. Len(r3.trace)
        <5>1. /\ r3.trace[k].ref \in 1 .. k - 1
              /\ r3.trace[r3.trace[k].ref].op = "instance"
              /\ r3.trace[r3.trace[k].ref].scope = r3.trace[k].scope
              /\ \A j \in 1 .. Len(r3.trace) :
                    r3.trace[j].op = "inst" /\ r3.trace[j].ref = r3.trace[k].ref
                        => j = k
          BY <1>12, <3>3, <3>4, <4>2 DEF Joined
        <5>2. r3.trace[k].ref \in 1 .. Len(r3.trace) /\ r3.trace[k].ref # n
          <6>1. r3.trace[k].op = "inst"
            BY ONLY <3>3, <3>4, <4>2
          <6>2. r3.trace[k].ref # n
            BY ONLY <1>13, <4>2, <6>1
          <6>3. r3.trace[k].ref \in 1 .. Len(r3.trace)
            BY ONLY <1>11, <4>2, <5>1
          <6> QED BY <6>2, <6>3
        <5>3. /\ s.trace[k] = r3.trace[k]
              /\ s.trace[r3.trace[k].ref] = r3.trace[r3.trace[k].ref]
          BY <3>3, <4>2, <5>2
        <5>4. ASSUME NEW j \in 1 .. Len(s.trace), s.trace[j].op = "inst",
                     s.trace[j].ref = r3.trace[k].ref
              PROVE  j = k
          <6>1. j # Len(r3.trace) + 1
            BY <1>16, <3>3, <5>2, <5>4
          <6>2. j \in 1 .. Len(r3.trace)
            BY <1>11, <3>3, <6>1
          <6> QED BY <3>3, <5>1, <5>4, <6>2
        <5> QED BY <5>1, <5>3, <5>4
      <4>3. k \in 1 .. Len(r3.trace) \/ k = Len(r3.trace) + 1
        BY ONLY <1>11, <3>3, k \in 1 .. Len(s.trace)
      <4> QED BY ONLY <4>1, <4>2, <4>3
    <3> QED BY <3>2, <3>4 DEF Joined
  <2> QED BY <2>1, <2>2
<1> HIDE DEF s
<1>19. Proceed(s, "query")
  BY <1>7 DEF LogInstance, q, i, r1, r2, taken, m, r3, ts, e, s
<1>20. /\ rec' = s /\ phase' \in {"query", "done"}
       /\ phase' # "done" => s.failed = "no"
  BY <1>19 DEF Proceed
<1>21. Control'
  BY <1>0, <1>11, <1>17, <1>20 DEF PInv, Control, Current
<1>22. AdmittedAreDeclared'
  <2>1. Range(rec.terms) \subseteq Range(s.terms)
    BY <1>4, <1>8, <1>10, <1>17 DEF Grows
  <2> QED BY <1>0, <1>20, <2>1 DEF PInv, AdmittedAreDeclared
<1>23. PendingIsInFlight'
  BY <1>0, <1>18, <1>20 DEF PendingIsInFlight
<1>24. Named(rec)' /\ Sound(rec)' /\ Joined(rec)'
  BY <1>17, <1>18, <1>20 DEF Sound, Named, NamesAreDeclared, TermsAreDeclared,
                             DeclaredBy, Joined
<1> QED BY <1>21, <1>22, <1>23, <1>24 DEF PInv
\* guarded: what a failed callback leaves is kept from every later one.
LEMMA GuardedKeeps ==
    ASSUME PInv, phase = "query", Current.kind = "spacer",
           UNCHANGED <<doc, item, phase, inflight>>, NEW r,
           failure = "no" => Sound(r) /\ Grows(rec, r), Guarded(r)
    PROVE  PInv'
<1>1. CASE failure # "no"
  <2>1. UNCHANGED <<rec, failure>>
    BY <1>1 DEF Guarded
  <2> QED
    BY <2>1, NothingChanges
<1>2. CASE failure = "no"
  <2> DEFINE s == [r EXCEPT !.failed = "no"]
  <2>1. rec' = s /\ failure' = r.failed /\ Sound(r) /\ Grows(rec, r)
    BY <1>2 DEF Guarded
  <2>2. rec \in Recorders /\ r \in Recorders /\ rec.failed = "no"
    BY <2>1 DEF PInv, Control, Sound, Named
  <2>3. /\ s \in Recorders /\ s.pending = r.pending /\ s.trace = r.trace
        /\ s.terms = r.terms /\ s.failed = "no" /\ s.validated = r.validated
    BY <2>2 DEF Recorders, Fault
  <2> HIDE DEF s
  <2>4. inflight = NoInstance
    BY DEF PInv, Control, Observed
  <2>5. s.pending = {} /\ Range(rec.terms) \subseteq Range(s.terms)
    BY <2>1, <2>2, <2>3, <2>4 DEF Grows, PInv, PendingIsInFlight
  <2>6. Joined(s)
    <3>1. Joined(r)
      BY <2>1, <2>2, JoinedGrows DEF PInv
    <3> QED BY <2>3, <3>1 DEF Joined
  <2>7. Named(s)
    BY <2>1, <2>3 DEF Sound, Named, NamesAreDeclared, DeclaredBy
  <2>8. r.failed = "no" => Sound(s)
    BY <2>1, <2>3, SoundAlike
  <2>9. r.failed \in Thrown
    BY <2>1 DEF Grows, PInv, Control
  <2>10. Control'
    BY <2>1, <2>3, <2>4, <2>9 DEF PInv, Control, Current, Thrown, Fault
  <2>11. AdmittedAreDeclared' /\ PendingIsInFlight'
    BY <2>1, <2>4, <2>5
       DEF PInv, AdmittedAreDeclared, PendingIsInFlight
  <2>12. Named(rec)' /\ (failure = "no" => Sound(rec))' /\ Joined(rec)'
    BY <2>1, <2>6, <2>7, <2>8
       DEF Sound, Named, NamesAreDeclared, TermsAreDeclared, DeclaredBy, Joined
  <2> QED BY <2>10, <2>11, <2>12 DEF PInv
<1> QED BY <1>1, <1>2

\* The Spacer callbacks.
LEMMA SpacerKeeps ==
    ASSUME PInv, SpacerStep \/ \E t \in Literal : SpacerLemma(t)
    PROVE  PInv'
<1>0. item \in Nat
  BY DEF PInv, Control
<1>1. CASE SpacerStep
  <2> DEFINE r == Record(rec, Event("step", <<>>))
  <2>1. <<>> \in Seq(Term) /\ Range(<<>>) = {}
    BY DEF Range
  <2>2. failure = "no" => Sound(r) /\ Grows(rec, r)
    BY <1>0, <2>1, RecordEventGrows DEF PInv, Ops
  <2> HIDE DEF r
  <2>3. /\ phase = "query" /\ Current.kind = "spacer" /\ Guarded(r)
        /\ UNCHANGED <<doc, item, phase, inflight>>
    BY <1>1 DEF SpacerStep, Callback, r
  <2> QED BY <2>2, <2>3, GuardedKeeps
<1>2. ASSUME NEW t \in Literal, SpacerLemma(t) PROVE PInv'
  <2> DEFINE a == TermOf(rec, t)
             r == Record(a, Event("lemma", <<t>>))
  <2>1. t \in Term /\ <<t>> \in Seq(Term) /\ Range(<<t>>) = {t}
    BY RecorderConstants DEF Range
  <2>2. ASSUME failure = "no" PROVE Sound(r) /\ Grows(rec, r)
    <3>1. Sound(rec) /\ rec \in Recorders
      BY <2>2 DEF PInv, Sound, Named
    <3>2. /\ Sound(a) /\ Grows(rec, a)
          /\ a.failed = "no" => t \in Range(a.terms)
      BY <1>0, <2>1, <3>1, TermGrows
    <3> HIDE DEF a
    <3>3. Sound(r) /\ Grows(a, r)
      BY <1>0, <2>1, <3>2, RecordEventGrows DEF Ops
    <3> QED BY <3>1, <3>2, <3>3, GrowsTwice DEF Sound, Named
  <2> HIDE DEF r
  <2>3. /\ phase = "query" /\ Current.kind = "spacer" /\ Guarded(r)
        /\ UNCHANGED <<doc, item, phase, inflight>>
    BY <1>2 DEF SpacerLemma, Callback, r
  <2> QED BY <2>2, <2>3, GuardedKeeps
<1> QED BY <1>1, <1>2

\* What is recorded once a query has returned; the closed theorem of a proof
\* that holds is declared.
LEMMA ConcludeGrows ==
    ASSUME item \in Nat, doc \in Document, item \in DOMAIN doc,
           NEW r, Sound(r), NEW result \in {"sat", "unsat", "unknown"},
           NEW v \in Term, NEW exact \in BOOLEAN
    PROVE  LET s == Conclude(r, result, v, exact)
           IN  /\ Sound(s) /\ Grows(r, s)
               /\ s.failed = "no" /\ Current.proof /\ result = "unsat" =>
                     Current.closed \in Range(s.terms)
<1> DEFINE s == Conclude(r, result, v, exact)
<1>0. /\ Current.closed \in Term /\ Current.kind \in Kind
      /\ Current.proof => Current.kind \in {"plain", "induct"}
  BY CurrentIsTyped DEF Current
<1>1. /\ {"unknown", "identity"} \subseteq Thrown \ {"no"}
      /\ <<>> \in Seq(Term) /\ Range(<<>>) = {}
      /\ \A t \in Term : <<t>> \in Seq(Term) /\ Range(<<t>>) = {t}
  BY DEF Thrown, Fault, Range
<1>2. \A u, op : Sound(u) /\ op \in Ops \ {"term", "inst"} =>
          LET w == Record(u, Event(op, <<>>))
          IN  Sound(w) /\ Grows(u, w) /\ w.terms = u.terms
  BY <1>1, RecordEventGrows
<1>3. \A u, op : \A t \in Term : Sound(u) /\ op \in Ops \ {"term", "inst"} =>
          LET w == Record(TermOf(u, t), Event(op, <<t>>))
          IN  /\ Sound(w) /\ Grows(u, w)
              /\ w.failed = "no" => t \in Range(w.terms)
  <2> SUFFICES ASSUME NEW u, NEW op \in Ops \ {"term", "inst"},
                      NEW t \in Term, Sound(u)
               PROVE  LET w == Record(TermOf(u, t), Event(op, <<t>>))
                      IN  /\ Sound(w) /\ Grows(u, w)
                          /\ w.failed = "no" => t \in Range(w.terms)
    OBVIOUS
  <2> DEFINE a == TermOf(u, t)
             w == Record(a, Event(op, <<t>>))
  <2>1. Sound(a) /\ Grows(u, a) /\ (a.failed = "no" => t \in Range(a.terms))
    BY TermGrows
  <2> HIDE DEF a
  <2>2. Sound(w) /\ Grows(a, w) /\ w.terms = a.terms /\ w.failed = a.failed
    <3>1. /\ <<t>> \in Seq(Term)
          /\ a.failed = "no" => Range(<<t>>) \subseteq Range(a.terms)
      BY <1>1, <2>1
    <3> QED BY <2>1, <3>1, RecordEventGrows
  <2> HIDE DEF w
  <2>3. Grows(u, w)
    BY <2>1, <2>2, GrowsTwice DEF Sound, Named
  <2> QED BY <2>1, <2>2, <2>3 DEF a, w
<1>4. \A u : \A why \in {"unknown", "identity"} : Sound(u) =>
          /\ Sound(Throw(u, why)) /\ Grows(u, Throw(u, why))
          /\ Throw(u, why).failed # "no"
  BY <1>1, ThrowGrows DEF Sound
<1>5. CASE Current.kind = "spacer"
  <2>1. ~Current.proof
    BY <1>0, <1>5
  <2>2. CASE result = "unknown"
    BY <1>4, <1>5, <2>1, <2>2 DEF Conclude
  <2>3. CASE result # "unknown"
    <3>1. s = Record(TermOf(r, v), Event("answer", <<v>>))
      BY <1>5, <2>3 DEF Conclude
    <3>2. "answer" \in Ops \ {"term", "inst"}
      BY DEF Ops
    <3> QED BY <1>3, <2>1, <3>1, <3>2
  <2> QED BY <2>2, <2>3
<1>6. CASE Current.kind # "spacer"
  <2> DEFINE a == Record(r, Event("result", <<>>))
             b == Record(a, Event("query.close", <<>>))
             rejected == {"unknown"}
                 \cup (IF Current.kind = "bisim" THEN {"unsat"} ELSE {})
  <2>1. {"result", "query.close", "assignment", "witness.accept",
         "proof.admit"} \subseteq Ops \ {"term", "inst"}
    BY DEF Ops
  <2>2. Sound(a) /\ Grows(r, a)
    BY <1>2, <2>1
  <2> HIDE DEF a
  <2>3. Sound(b) /\ Grows(a, b)
    BY <1>2, <2>1, <2>2
  <2> HIDE DEF b
  <2>4. Grows(r, b)
    BY <2>2, <2>3, GrowsTwice DEF Sound, Named
  <2>5. s = CASE result \in rejected -> Throw(b, "unknown")
              [] result = "sat" -> AcceptWitness(b, v, exact)
              [] OTHER -> IF Current.proof
                          THEN Record(TermOf(b, Current.closed),
                                      Event("proof.admit", <<Current.closed>>))
                          ELSE b
    BY <1>6 DEF Conclude, a, b
  <2>6. /\ Sound(s) /\ Grows(b, s)
        /\ s.failed = "no" /\ Current.proof /\ result = "unsat" =>
              Current.closed \in Range(s.terms)
    <3>1. CASE result \in rejected
      <4>1. s = Throw(b, "unknown")
        BY <2>5, <3>1
      <4> QED BY <1>4, <2>3, <4>1
    <3>2. CASE result = "sat"
      <4> DEFINE c == Record(TermOf(b, v), Event("assignment", <<v>>))
      <4>1. s = AcceptWitness(b, v, exact)
        BY <2>5, <3>2
      <4>2. s = IF exact THEN Record(c, Event("witness.accept", <<>>))
                ELSE Throw(c, "identity")
        BY <4>1 DEF AcceptWitness
      <4>3. Sound(c) /\ Grows(b, c)
        BY <1>3, <2>1, <2>3
      <4> HIDE DEF c
      <4>4. Sound(s) /\ Grows(c, s)
        BY <1>2, <1>4, <2>1, <4>2, <4>3
      <4>5. Grows(b, s)
        BY <2>3, <4>3, <4>4, GrowsTwice DEF Sound, Named
      <4> QED BY <3>2, <4>4, <4>5
    <3>3. CASE result \notin rejected /\ result # "sat" /\ Current.proof
      <4>1. s = Record(TermOf(b, Current.closed),
                       Event("proof.admit", <<Current.closed>>))
        BY <2>5, <3>3
      <4> QED BY <1>0, <1>3, <2>1, <2>3, <4>1
    <3>4. CASE result \notin rejected /\ result # "sat" /\ ~Current.proof
      <4>1. s = b
        BY <2>5, <3>4
      <4> QED BY <2>3, <3>4, <4>1, GrowsNot DEF Sound, Named
    <3> QED BY <3>1, <3>2, <3>3, <3>4
  <2> HIDE DEF s
  <2>7. Grows(r, s)
    BY <2>3, <2>4, <2>6, GrowsTwice DEF Sound, Named
  <2> QED BY <2>6, <2>7 DEF s
<1> QED BY <1>5, <1>6
\* The query returns: only a proof that holds lets the document continue, and
\* only when no callback has failed.
LEMMA AnswerKeeps ==
    ASSUME PInv, NEW result \in {"sat", "unsat", "unknown"}, NEW v \in Literal,
           NEW exact \in BOOLEAN, NEW bad \in Nat,
           Answer(result, v, exact, bad)
    PROVE  PInv'
<1>0. /\ item \in Nat /\ phase = "query" /\ inflight = NoInstance
      /\ doc \in Document /\ item \in DOMAIN doc /\ failure \in Thrown
      /\ Named(rec) /\ rec \in Recorders /\ rec.failed = "no"
      /\ failure = "no" => Sound(rec)
      /\ failure # "no" => Current.kind = "spacer"
      /\ UNCHANGED <<doc, inflight, failure>> /\ v \in Term
  BY RecorderConstants DEF PInv, Control, Answer, Named
<1> DEFINE r1 == IF failure = "no" THEN rec ELSE Throw(rec, failure)
           r2 == IF r1.failed = "no" THEN Conclude(r1, result, v, exact)
                 ELSE r1
           r3 == Validate(r2, bad)
           r4 == Close(r3, result)
           next == IF Current.proof /\ result = "unsat" THEN "idle" ELSE "done"
<1>1. /\ Sound(r1) /\ Grows(rec, r1)
      /\ r1.failed = "no" <=> failure = "no"
  <2>1. CASE failure = "no"
    BY <1>0, <2>1, GrowsNot
  <2>2. CASE failure # "no"
    <3>1. failure \in Thrown \ {"no"}
      BY <1>0, <2>2
    <3>2. /\ Sound(Throw(rec, failure)) /\ Grows(rec, Throw(rec, failure))
          /\ Throw(rec, failure).failed # "no"
      BY <1>0, <3>1, ThrowGrows
    <3> QED BY <2>2, <3>2
  <2> QED BY <2>1, <2>2
<1> HIDE DEF r1
<1>2. /\ Sound(r2) /\ Grows(r1, r2)
      /\ r2.failed = "no" /\ Current.proof /\ result = "unsat" =>
            Current.closed \in Range(r2.terms)
  <2>1. CASE r1.failed = "no"
    <3> DEFINE c == Conclude(r1, result, v, exact)
    <3>1. /\ Sound(c) /\ Grows(r1, c)
          /\ c.failed = "no" /\ Current.proof /\ result = "unsat" =>
                Current.closed \in Range(c.terms)
      BY <1>0, <1>1, ConcludeGrows
    <3> QED BY <2>1, <3>1
  <2>2. CASE r1.failed # "no"
    BY <1>1, <2>2, GrowsNot DEF Sound, Named
  <2> QED BY <2>1, <2>2
<1> HIDE DEF r2
<1>3. /\ bad = 0 \/ bad \in r2.validated + 1 .. Len(r2.terms)
      /\ Proceed(r4, next)
      /\ item' = IF phase' = "idle" THEN item + 1 ELSE item
  BY DEF Answer, r1, r2
<1>4. Sound(r3) /\ Grows(r2, r3) /\ r3.terms = r2.terms
  BY <1>0, <1>2, <1>3, ValidateGrows
<1> HIDE DEF r3
<1>5. Sound(r4) /\ Grows(r3, r4) /\ r4.terms = r3.terms
  <2> DEFINE op == IF Current.proof THEN "proof.close" ELSE "run.close"
             st == IF result = "unsat" THEN "verified" ELSE "refuted"
             e == [Event(op, <<>>) EXCEPT !.status = st]
  <2>1. op \in Ops \ {"term", "inst"} /\ <<>> \in Seq(Term) /\ Range(<<>>) = {}
    BY DEF Ops, Range
  <2>2. st \in {"verified", "refuted"}
    OBVIOUS
  <2> HIDE DEF op, st
  <2>3. /\ Event(op, <<>>) \in Events /\ Event(op, <<>>).op = op
        /\ Event(op, <<>>).terms = <<>>
    <3>1. item \in Nat /\ op \in Ops /\ <<>> \in Seq(Term)
      BY <1>0, <2>1
    <3> QED BY ONLY <3>1, EventIsTyped
  <2>4. e \in Events /\ e.op = op /\ e.terms = <<>>
    BY <2>2, <2>3, EventsWith
  <2>5. r4 = Record(r3, e)
    BY DEF Close, op, st
  <2> HIDE DEF e, r4
  <2> QED BY <1>4, <2>1, <2>4, <2>5, RecordGrows
<1> HIDE DEF r4
<1>6. Grows(rec, r2)
  BY <1>0, <1>1, <1>2, GrowsTwice DEF Sound, Named
<1>7. Grows(rec, r3)
  BY <1>0, <1>2, <1>4, <1>6, GrowsTwice DEF Sound, Named
<1>8. Grows(rec, r4)
  BY <1>0, <1>4, <1>5, <1>7, GrowsTwice DEF Sound, Named
<1>9. next \in {"idle", "done"} /\ (next = "idle" => failure = "no")
  BY <1>0, CurrentIsTyped DEF Current
<1>10. ASSUME phase' # "done"
       PROVE  Current.closed \in Range(r4.terms)
  <2>1. r4.failed = "no" /\ Current.proof /\ result = "unsat"
    BY <1>3, <1>10 DEF Proceed
  <2>2. r2.failed = "no"
    BY <1>4, <1>5, <2>1 DEF Grows
  <2> QED BY <1>2, <1>4, <1>5, <2>1, <2>2
<1> HIDE DEF next
<1> QED BY <1>0, <1>3, <1>5, <1>8, <1>9, <1>10, HandlerKeeps DEF Current

-----------------------------------------------------------------------------
(* The theorems. *)

\* The recorder of the constructor satisfies the invariant.
LEMMA InitPInv == Init => PInv
<1> SUFFICES ASSUME Init PROVE PInv
  OBVIOUS
<1>1. /\ rec = EmptyRecorder /\ item = 1 /\ phase = "start" /\ doc \in Document
      /\ inflight = NoInstance /\ failure = "no"
  BY DEF Init
<1>2. /\ rec \in Recorders /\ rec.trace = <<>> /\ rec.terms = <<>>
      /\ rec.pending = {} /\ rec.failed = "no" /\ rec.validated = 0
  <2>1. EmptyRecorder \in Recorders
    <3>1. "no" \in Fault
      BY DEF Fault
    <3> QED BY ONLY <3>1 DEF EmptyRecorder, Recorders
  <2>2. /\ EmptyRecorder.trace = <<>> /\ EmptyRecorder.terms = <<>>
        /\ EmptyRecorder.pending = {} /\ EmptyRecorder.failed = "no"
        /\ EmptyRecorder.validated = 0
    BY DEF EmptyRecorder
  <2> QED BY ONLY <1>1, <2>1, <2>2
<1>3. Len(rec.trace) = 0 /\ Len(rec.terms) = 0 /\ Range(rec.terms) = {}
  BY <1>2 DEF Range
<1>4. Sound(rec)
  BY <1>2, <1>3 DEF Sound, Named, NamesAreDeclared, TermsAreDeclared
<1>5. Joined(rec)
  BY <1>3 DEF Joined
<1>6. Control
  <2>1. "no" \in Thrown
    BY DEF Thrown, Fault
  <2> QED BY ONLY <1>1, <1>2, <2>1 DEF Control
<1>7. AdmittedAreDeclared
  BY <1>1 DEF AdmittedAreDeclared
<1>8. PendingIsInFlight
  BY <1>1, <1>2 DEF PendingIsInFlight
<1> QED BY <1>4, <1>5, <1>6, <1>7, <1>8 DEF PInv, Sound

\* Every handler keeps it.
LEMMA NextKeepsPInv == PInv /\ [Next]_vars => PInv'
<1> SUFFICES ASSUME PInv, [Next]_vars PROVE PInv'
  OBVIOUS
<1>1. CASE Start
  BY <1>1, StartKeeps
<1>2. CASE OpenQuery
  BY <1>2, OpenQueryKeeps
<1>3. CASE NothingToExecute
  BY <1>3, NothingKeeps
<1>4. CASE \E q \in Quantifier, i \in Instance : AcceptInstance(q, i)
  BY <1>4, AcceptInstanceKeeps
<1>5. CASE \E l, h \in Literal : LogClause(l, h)
  BY <1>5, LogClauseKeeps
<1>6. CASE \E l, h, b \in Literal : LogInstance(l, h, b)
  BY <1>6, LogInstanceKeeps
<1>7. CASE SpacerStep \/ \E t \in Literal : SpacerLemma(t)
  BY <1>7, SpacerKeeps
<1>8. CASE \E result \in {"sat", "unsat", "unknown"}, v \in Literal,
              exact \in BOOLEAN, bad \in 0 .. Cardinality(Term) :
              Answer(result, v, exact, bad)
  <2>1. PICK result \in {"sat", "unsat", "unknown"}, v \in Literal,
             exact \in BOOLEAN, bad \in 0 .. Cardinality(Term) :
             Answer(result, v, exact, bad)
    BY <1>8
  <2>2. bad \in Nat
    OBVIOUS
  <2> QED BY <2>1, <2>2, AnswerKeeps
<1>9. CASE UNCHANGED vars
  BY <1>9, NothingChanges DEF vars
<1> QED BY <1>1, <1>2, <1>3, <1>4, <1>5, <1>6, <1>7, <1>8, <1>9 DEF Next

\* The bookkeeping of the recorder and its observers, whatever Z3 calls back
\* and wherever a lift throws.
THEOREM RecorderInvariant == Spec => []PInv
BY InitPInv, NextKeepsPInv, PTL DEF Spec

\* No event names a term before the event that declares it, although term()
\* remembers a term before the lift that may throw.
THEOREM NamesAreAlwaysDeclared == Spec => []EventsNameDeclaredTerms
<1>1. PInv => EventsNameDeclaredTerms
  <2> SUFFICES ASSUME PInv, NEW k \in DOMAIN rec.trace,
                      rec.trace[k].op # "term",
                      NEW t \in Range(rec.trace[k].terms)
               PROVE  t \in TermsOf(Before(rec.trace, k), {"term"})
    BY DEF EventsNameDeclaredTerms
  <2>1. /\ rec.trace \in Seq(Events) /\ Len(rec.trace) \in Nat
        /\ k \in 1 .. Len(rec.trace)
    BY DEF PInv, Named, Recorders
  <2>2. PICK j \in 1 .. k - 1 : /\ rec.trace[j].op = "term"
                                /\ t \in Range(rec.trace[j].terms)
    BY <2>1 DEF PInv, Named, NamesAreDeclared, DeclaredBy
  <2> DEFINE b == Before(rec.trace, k)
  <2>3. j \in DOMAIN b /\ b[j] = rec.trace[j]
    <3>1. k - 1 \in 0 .. Len(rec.trace)
      BY ONLY <2>1
    <3>2. b = SubSeq(rec.trace, 1, k - 1)
      BY DEF Before
    <3> QED BY ONLY <2>1, <3>1, <3>2, j \in 1 .. k - 1
  <2> HIDE DEF b
  <2>4. t \in TermsOf(b, {"term"})
    BY <2>2, <2>3 DEF TermsOf
  <2> QED BY <2>4 DEF b
<1> QED BY <1>1, RecorderInvariant, PTL

\* A quantifier lemma is joined to an instance accepted in its own query, and
\* no two lemmas to one instance (take_quantifier_instance).
THEOREM LemmasJoinTheirInstance == Spec => []InstancesJoinTheirOwnQuery
<1>1. PInv => InstancesJoinTheirOwnQuery
  <2> SUFFICES ASSUME PInv PROVE InstancesJoinTheirOwnQuery
    OBVIOUS
  <2>1. DOMAIN rec.trace = 1 .. Len(rec.trace)
    BY DEF PInv, Named, Recorders
  <2> QED BY <2>1 DEF PInv, Joined, InstancesJoinTheirOwnQuery
<1> QED BY <1>1, RecorderInvariant, PTL

\* remember_ and take_quantifier_instance never throw: what is pending is the
\* one instance whose lemma is still to come.
THEOREM NothingIsLeftPending == Spec => []NoInstanceIsLeftPending
<1>1. PInv => NoInstanceIsLeftPending
  <2> SUFFICES ASSUME PInv PROVE NoInstanceIsLeftPending
    OBVIOUS
  <2>1. DOMAIN rec.trace = 1 .. Len(rec.trace)
    BY DEF PInv, Named, Recorders
  <2> QED BY <2>1 DEF PInv, Control, PendingIsInFlight, Awaits, Thrown,
                      NoInstanceIsLeftPending
<1> QED BY <1>1, RecorderInvariant, PTL
=============================================================================
