------------------------------ MODULE LossyFifo ------------------------------
(***************************************************************************)
(* Lines that may lose what they carry but neither reorder, repeat nor     *)
(* alter it.                                                               *)
(***************************************************************************)
EXTENDS Naturals, Sequences

CONSTANTS
  Line,
  Burst  \* what may be sent at once: sequences of items

VARIABLES
  pending,  \* sent on each line, and not yet received or passed over
  got       \* what was received last on each, <<>> at first

lineVars == <<pending, got>>

Init == pending = [l \in Line |-> <<>>] /\ got = [l \in Line |-> <<>>]

Send(l, s) == pending' = [pending EXCEPT ![l] = @ \o s] /\ UNCHANGED got

SendSome(l) == pending'[l] # pending[l] /\ \E s \in Burst : Send(l, s)

\* What was sent before the item received is lost.
Receive(l) ==
  \E i \in 1..Len(pending[l]) :
    /\ got' = [got EXCEPT ![l] = pending[l][i]]
    /\ pending' = [pending EXCEPT ![l] = SubSeq(@, i + 1, Len(@))]

Next == \E l \in Line : Receive(l) \/ SendSome(l)

Spec == Init /\ [][Next]_lineVars
=============================================================================
