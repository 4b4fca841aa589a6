----------------------------- MODULE MCSynthesis -----------------------------
(* Instances of Synthesis for TLC.                                         *)
EXTENDS Synthesis

Ints == {"x", "y", "value"}

Inputs(con, symbols, values) == {[con |-> con, at |-> at] : at \in [symbols -> values]}

(* synth f(x: Int, y: Int), and a match on `none | some(value: Int)` with  *)
(* a parameter flag: Bool.                                                 *)
PlainPoints == Inputs("plain", {"x", "y"}, 0..1)
MatchPoints == Inputs("none", {"flag"}, {0, 2}) \cup Inputs("some", {"flag", "value"}, {0, 2})

Arm(con, params, named, hole, val, bad) ==
  [con |-> con, params |-> params, named |-> named, hole |-> hole, val |-> val, bad |-> bad]
Constant(con, n) == [p \in {q \in Point : q.con = con} |-> n]

Plain == [match |-> FALSE, cases |-> {"plain"},
          arms |-> <<Arm("plain", <<"x", "y">>, {"x", "y"}, "?", <<>>, FALSE)>>]

OpenNone == Arm("none", <<"flag">>, {}, "?n", <<>>, FALSE)
OpenSome == Arm("some", <<"flag", "value">>, {"value"}, "?s", <<>>, FALSE)
GivenNone == Arm("none", <<"flag">>, {}, NoHole, Constant("none", 0), FALSE)
GivenSome == Arm("some", <<"flag", "value">>, {"value"}, NoHole, Constant("some", 1), FALSE)
BlindSome == [OpenSome EXCEPT !.named = {}]
SameHole == [OpenSome EXCEPT !.hole = "?n"]
BadSome == [OpenSome EXCEPT !.bad = TRUE]

Match(arms) == [match |-> TRUE, cases |-> {"none", "some"}, arms |-> arms]

Matches == {Match(arms) : arms \in
  {<<OpenNone, OpenSome>>, <<GivenSome, OpenNone>>, <<GivenNone, GivenSome>>, <<OpenNone, SameHole>>,
   <<OpenSome>>, <<OpenNone, BadSome>>, <<GivenNone, OpenNone>>, <<BlindSome, OpenNone>>}}
Plains == {Plain}

(* Every way of writing the program, over the inputs of both.              *)
BothPoints == PlainPoints \cup MatchPoints
Both == Plains \cup Matches

(* One parameter, so that larger terms are in reach.                       *)
UnaryPoints == Inputs("plain", {"x"}, 0..2)
Unary == {[Plain EXCEPT !.arms = <<Arm("plain", <<"x">>, {"x"}, "?", <<>>, FALSE)>>]}
=============================================================================
