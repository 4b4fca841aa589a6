--------------------------- MODULE RainfallEdits ---------------------------
(***************************************************************************)
(* Byte-offset edit transactions (fine/rainfall_projection.py) and the     *)
(* one-edit diff of the live editor (fine/rainfall_live.py).               *)
(*                                                                         *)
(* A source is a sequence of bytes.  Five bytes are enough to tell apart   *)
(* what the code tells apart: two letters, the "?" that opens a hole, and  *)
(* two characters of two bytes each that share their first byte.           *)
(***************************************************************************)
EXTENDS Integers, Sequences, SequencesExt

Tail2 == {"t1", "t2"}
Char == {"a", "b", "?"} \cup Tail2
Byte == Char \cup {"lead"}

(* str.encode("utf-8"): the characters "t1" and "t2" take two bytes.       *)
Encode(chars) ==
  FlattenSeq([i \in DOMAIN chars |->
                IF chars[i] \in Tail2 THEN <<"lead", chars[i]>> ELSE <<chars[i]>>])

(* bytes.decode("utf-8") succeeds exactly on these byte sequences ...      *)
IsUtf8(bytes) ==
  /\ bytes \in Seq(Byte)
  /\ \A i \in DOMAIN bytes :
       /\ bytes[i] = "lead" => i < Len(bytes) /\ bytes[i + 1] \in Tail2
       /\ bytes[i] \in Tail2 => i > 1 /\ bytes[i - 1] = "lead"

(* ... and yields these characters.                                        *)
Decode(bytes) == SelectSeq(bytes, LAMBDA b : b # "lead")

Edit(from, to, insert) == [from |-> from, to |-> to, insert |-> insert]

Delta(e) == Len(e.insert) - (e.to - e.from)

(***************************************************************************)
(* load_edits: in bounds, in source order, disjoint, and never two         *)
(* insertions at one offset.                                               *)
(***************************************************************************)
LoadEdits(edits, length) ==
  \A i \in DOMAIN edits :
    LET e == edits[i]
    IN  /\ 0 <= e.from /\ e.from <= e.to /\ e.to <= length
        /\ i > 1 => /\ e.from >= edits[i - 1].to
                    /\ ~(/\ e.from = e.to
                         /\ edits[i - 1].from = e.from
                         /\ edits[i - 1].to = e.to)

\* Mutant: the cursor stays at the beginning of the edit, so deleted text remains.
ApplyEditsKeeping(source, edits) ==
  LET piece(acc, e) ==
        [out    |-> acc.out \o SubSeq(source, acc.cursor + 1, e.from) \o e.insert,
         cursor |-> e.from]
      all == FoldLeft(piece, [out |-> <<>>, cursor |-> 0], edits)
  IN  all.out \o SubSeq(source, all.cursor + 1, Len(source))

ApplyEdits(source, edits) ==
  LET piece(acc, e) ==
        [out    |-> acc.out \o SubSeq(source, acc.cursor + 1, e.from) \o e.insert,
         cursor |-> e.to]
      all == FoldLeft(piece, [out |-> <<>>, cursor |-> 0], edits)
  IN  all.out \o SubSeq(source, all.cursor + 1, Len(source))

(***************************************************************************)
(* transport_range.  An annotation that lost its range has the span        *)
(* Unplaced (None); a placed one has <<begin, end>>, half open.            *)
(***************************************************************************)
Unplaced == <<>>

\* Mutant: the offsets of a later edit are not shifted by the earlier ones.
TransportStepUnshifted(r, e) ==
  LET before == e.to <= r.begin
      after  == ~before /\ e.from >= r.end
  IN  [begin |-> IF before THEN r.begin + Delta(e)
                 ELSE IF ~after /\ r.begin >= e.from THEN e.from
                 ELSE r.begin,
       end   |-> IF after THEN r.end
                 ELSE IF ~before /\ r.end <= e.to THEN e.from + Len(e.insert)
                 ELSE r.end + Delta(e),
       delta |-> r.delta + Delta(e)]

TransportStep(r, e) ==
  LET eb == e.from + r.delta
      ee == e.to + r.delta
      before == ee <= r.begin
      after  == ~before /\ eb >= r.end
  IN  [begin |-> IF before THEN r.begin + Delta(e)
                 ELSE IF ~after /\ r.begin >= eb THEN eb
                 ELSE r.begin,
       end   |-> IF after THEN r.end
                 ELSE IF ~before /\ r.end <= ee THEN eb + Len(e.insert)
                 ELSE r.end + Delta(e),
       delta |-> r.delta + Delta(e)]

\* Mutant: a range that collapsed to nothing keeps a place.
TransportRangeCollapsed(begin, end, edits) ==
  LET r == FoldLeft(TransportStep, [begin |-> begin, end |-> end, delta |-> 0], edits)
  IN  IF r.begin > r.end THEN Unplaced ELSE <<r.begin, r.end>>

TransportRange(begin, end, edits) ==
  LET r == FoldLeft(TransportStep, [begin |-> begin, end |-> end, delta |-> 0], edits)
  IN  IF r.begin >= r.end THEN Unplaced ELSE <<r.begin, r.end>>

(***************************************************************************)
(* minimal_edit: the common prefix and suffix are counted in characters,   *)
(* the edit is in bytes.                                                   *)
(***************************************************************************)
CommonPrefix(old, new) ==
  CHOOSE n \in 0..Len(old) :
    /\ n <= Len(new) /\ SubSeq(old, 1, n) = SubSeq(new, 1, n)
    /\ n < Len(old) /\ n < Len(new) => old[n + 1] # new[n + 1]

\* Mutant: the suffix may run back into the common prefix.
CommonSuffixUnbounded(old, new, prefix) ==
  CHOOSE n \in 0..Len(old) :
    /\ n <= Len(new)
    /\ \A i \in 0..(n - 1) : old[Len(old) - i] = new[Len(new) - i]
    /\ n < Len(old) /\ n < Len(new) => old[Len(old) - n] # new[Len(new) - n]

\* Mutant: no common suffix is looked for.
CommonSuffixNone(old, new, prefix) == 0

CommonSuffix(old, new, prefix) ==
  CHOOSE n \in 0..(Len(old) - prefix) :
    /\ n <= Len(new) - prefix
    /\ \A i \in 0..(n - 1) : old[Len(old) - i] = new[Len(new) - i]
    /\ n < Len(old) - prefix /\ n < Len(new) - prefix
         => old[Len(old) - n] # new[Len(new) - n]

\* Mutant: the offsets are those of characters.
MinimalEditChars(old, new) ==
  LET prefix == CommonPrefix(old, new)
      suffix == CommonSuffix(old, new, prefix)
  IN  IF old = new THEN <<>>
      ELSE << Edit(prefix, Len(old) - suffix,
                   Encode(SubSeq(new, prefix + 1, Len(new) - suffix))) >>

MinimalEdit(old, new) ==
  LET prefix == CommonPrefix(old, new)
      suffix == CommonSuffix(old, new, prefix)
  IN  IF old = new THEN <<>>
      ELSE << Edit(Len(Encode(SubSeq(old, 1, prefix))),
                   Len(Encode(SubSeq(old, 1, Len(old) - suffix))),
                   Encode(SubSeq(new, prefix + 1, Len(new) - suffix))) >>

-----------------------------------------------------------------------------
(* Reference definitions, by where each byte ends up.                      *)

SumDelta(edits, J) == MapThenSumSet(LAMBDA j : Delta(edits[j]), J)

Survives(k, edits) == \A j \in DOMAIN edits : k < edits[j].from \/ k >= edits[j].to

(* The offset, after the transaction, of the surviving byte at offset k.   *)
Image(k, edits) == k + SumDelta(edits, {j \in DOMAIN edits : edits[j].to <= k})

(* The offsets, after the transaction, of the bytes the j-th edit inserts. *)
InsertedAt(j, edits) == edits[j].from + SumDelta(edits, 1..(j - 1))

InsertedCells(j, edits) ==
  InsertedAt(j, edits)..(InsertedAt(j, edits) + Len(edits[j].insert) - 1)

(* What a marker on begin..end must cover afterwards: its surviving bytes  *)
(* and the text of every replacement that reaches into it ...              *)
Reaches(e, begin, end) == e.from < end /\ e.to > begin

KeptCells(begin, end, edits) ==
  {Image(k, edits) : k \in {x \in begin..(end - 1) : Survives(x, edits)}}
  \cup UNION {InsertedCells(j, edits) :
                j \in {x \in DOMAIN edits : /\ edits[x].from < edits[x].to
                                            /\ Reaches(edits[x], begin, end)}}

(* ... and all it may cover: the text inserted strictly inside it as well. *)
CoverableCells(begin, end, edits) ==
  KeptCells(begin, end, edits)
  \cup UNION {InsertedCells(j, edits) :
                j \in {x \in DOMAIN edits : Reaches(edits[x], begin, end)}}
=============================================================================
