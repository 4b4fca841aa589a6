------------------------- MODULE DisplayedEvidence -------------------------
(***************************************************************************)
(* What the host promises an editor, with no generations, files, locks or  *)
(* processes: a document whose revisions only advance, and a set of        *)
(* markers shown on it.  A marker is [claim, span, status]; its claim says *)
(* which snapshot of the document, and which span of it, it is about.      *)
(***************************************************************************)
EXTENDS Integers, Sequences

VARIABLES doc, shown

Placed(x) == x.span # <<>>

Init ==
  /\ doc.revision = 0
  /\ shown = {}

(* An edit moves to the next revision.  It neither adds nor drops a        *)
(* marker, no marker is current after it, and what had lost its place      *)
(* stays unplaced.                                                         *)
Edit ==
  /\ doc'.revision = doc.revision + 1
  /\ doc'.document = doc.document
  /\ {y.claim : y \in shown'} = {x.claim : x \in shown}
  /\ \A y \in shown' : \E x \in shown :
       /\ y.claim = x.claim
       /\ y.status = IF Placed(y) THEN "transported" ELSE "unplaced"
       /\ Placed(y) => Placed(x)

(* Publication replaces the markers whole, by markers about the displayed  *)
(* snapshot that sit where their claims say.                               *)
Publish ==
  /\ UNCHANGED doc
  /\ \A y \in shown' :
       /\ y.status = "current"
       /\ y.claim.snapshot = doc
       /\ y.span = y.claim.span

Next == Edit \/ Publish

Spec == Init /\ [][Next]_<<doc, shown>>
=============================================================================
