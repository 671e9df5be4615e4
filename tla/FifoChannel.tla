----------------------------- MODULE FifoChannel -----------------------------
(***************************************************************************)
(* What a blocking queue promises: items are delivered once each, in the   *)
(* order in which they were accepted, and no more of them are under way    *)
(* at any time than the channel has slots.                                 *)
(***************************************************************************)
EXTENDS Integers, Sequences

CONSTANT Item

VARIABLES
  slots,      \* fixed when the channel is made, 0 for no limit
  accepted, delivered

Init == slots \in Nat /\ accepted = << >> /\ delivered = << >>

Accept(x) ==
  /\ slots > 0 => Len(accepted) - Len(delivered) < slots
  /\ accepted' = Append(accepted, x)
  /\ UNCHANGED <<slots, delivered>>

Deliver ==
  /\ Len(delivered) < Len(accepted)
  /\ delivered' = Append(delivered, accepted[Len(delivered) + 1])
  /\ UNCHANGED <<slots, accepted>>

Next == (\E x \in Item : Accept(x)) \/ Deliver

Spec == Init /\ [][Next]_<<slots, accepted, delivered>>
=============================================================================
