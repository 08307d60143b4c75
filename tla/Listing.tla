------------------------------- MODULE Listing --------------------------------
(***************************************************************************)
(* A list of at most so many values: put at the end, and taken away from   *)
(* any place, the others staying in their order.                           *)
(***************************************************************************)
EXTENDS Naturals, Sequences, SequencesExt

CONSTANTS Value, Room

VARIABLE listed

Init == listed = <<>>

Put(v) == Len(listed) < Room /\ listed' = Append(listed, v)

TakeOut(i) == listed' = RemoveAt(listed, i)

\* What the first so many values come to without some, the others in their order.
Remaining(s, gone) ==
  LET rest[i \in 0..Len(s)] ==
        IF i = 0 THEN <<>> ELSE IF s[i] \in gone THEN rest[i - 1] ELSE Append(rest[i - 1], s[i])
  IN rest

Others(s, gone) == Remaining(s, gone)[Len(s)]

\* All those of some values.
RemoveAll(gone) == listed' = Others(listed, gone)

Next ==
  \/ \E v \in Value : Put(v)
  \/ \E i \in 1..Len(listed) : TakeOut(i)
  \/ \E gone \in SUBSET Value : RemoveAll(gone)

Spec == Init /\ [][Next]_listed
=============================================================================
