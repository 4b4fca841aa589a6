-------------------------- MODULE MCRainfallEdits --------------------------
(***************************************************************************)
(* Every transaction of at most MaxEdits edits on one text, and every pair *)
(* of submitted texts of at most MaxChars characters, built up one edit    *)
(* and one character at a time.                                            *)
(***************************************************************************)
EXTENDS RainfallEdits

CONSTANTS MaxEdits, MaxChars

VARIABLES old, new, edits
vars == <<old, new, edits>>

(* Its four bytes differ from each other, so a misplaced byte shows.       *)
EditedText == <<"a", "t1", "?">>
Inserts == {<<>>, <<"b">>, <<"b", "a">>}

Init ==
  /\ old \in {EditedText, <<>>}
  /\ new = <<>>
  /\ edits = <<>>

AppendEdit ==
  /\ old = EditedText /\ new = <<>> /\ Len(edits) < MaxEdits
  /\ \E from, to \in 0..Len(Encode(old)), insert \in Inserts :
       edits' = Append(edits, Edit(from, to, insert))
  /\ LoadEdits(edits', Len(Encode(old)))
  /\ UNCHANGED <<old, new>>

TypeOld ==
  /\ old # EditedText /\ new = <<>> /\ Len(old) < MaxChars
  /\ \E c \in Char : old' = Append(old, c)
  /\ UNCHANGED <<new, edits>>

TypeNew ==
  /\ edits = <<>> /\ Len(new) < MaxChars
  /\ \E c \in Char : new' = Append(new, c)
  /\ UNCHANGED <<old, edits>>

Next == AppendEdit \/ TypeOld \/ TypeNew

Spec == Init /\ [][Next]_vars

-----------------------------------------------------------------------------
Bytes == Encode(old)

(* apply_edits keeps every surviving byte and every inserted byte, each at *)
(* the offset the transaction sends it to, and nothing else.               *)
EditsArePlaced ==
  LET result == ApplyEdits(Bytes, edits)
  IN  /\ Len(result) = Len(Bytes) + SumDelta(edits, DOMAIN edits)
      /\ \A k \in 0..(Len(Bytes) - 1) :
           Survives(k, edits) => result[Image(k, edits) + 1] = Bytes[k + 1]
      /\ \A j \in DOMAIN edits : \A i \in DOMAIN edits[j].insert :
           result[InsertedAt(j, edits) + i] = edits[j].insert[i]

(* transport_range moves a marker onto every byte of it that survives and  *)
(* the text of every replacement that reaches into it, onto nothing but    *)
(* those and text inserted inside it, and drops it only when neither is    *)
(* left ("a wholly deleted range becomes unplaced").                       *)
TransportFollowsBytes ==
  \A begin \in 0..(Len(Bytes) - 1) : \A end \in (begin + 1)..Len(Bytes) :
    LET span  == TransportRange(begin, end, edits)
        cells == IF span = Unplaced THEN {} ELSE span[1]..(span[2] - 1)
    IN  /\ KeptCells(begin, end, edits) \subseteq cells
        /\ cells \subseteq CoverableCells(begin, end, edits)

(* The edit minimal_edit derives from a submitted text is a legal          *)
(* transaction on the displayed bytes and turns them into that text.       *)
MinimalEditReachesText ==
  LET e == MinimalEdit(old, new)
  IN  /\ LoadEdits(e, Len(Bytes))
      /\ ApplyEdits(Bytes, e) = Encode(new)

(* "spanning exactly the changed middle": no edit on character boundaries  *)
(* that gives the same text replaces and inserts fewer characters.         *)
MinimalEditIsMinimal ==
  LET kept(p, s) == /\ p + s <= Len(old) /\ p + s <= Len(new)
                    /\ \A i \in 1..p : old[i] = new[i]
                    /\ \A i \in 0..(s - 1) : old[Len(old) - i] = new[Len(new) - i]
      e == MinimalEdit(old, new)[1]
  IN  old # new =>
        \A p, s \in 0..MaxChars :
          kept(p, s) =>
            p + s <= Len(old) - Len(Decode(SubSeq(Bytes, e.from + 1, e.to)))
=============================================================================
