------------------------------ MODULE LossyFifo ------------------------------
(***************************************************************************)
(* What a bounded, never-blocking telemetry queue promises: an offered     *)
(* item is either accepted or counted as dropped, no more than Room items  *)
(* wait at any time, and the accepted items come out once each and in the  *)
(* order they were accepted.  It says nothing about the items still        *)
(* waiting when the queue is closed.                                       *)
(***************************************************************************)
EXTENDS Naturals, Sequences

CONSTANTS Item, Room

VARIABLES accepted,   \* every item taken in, in order
          delivered,  \* every item handed out, in order
          dropped     \* how many items were refused

vars == <<accepted, delivered, dropped>>

Init ==
    /\ accepted = <<>>
    /\ delivered = <<>>
    /\ dropped = 0

Accept(i) ==
    /\ Len(accepted) - Len(delivered) < Room
    /\ accepted' = Append(accepted, i)
    /\ UNCHANGED <<delivered, dropped>>

Refuse ==
    /\ dropped' = dropped + 1
    /\ UNCHANGED <<accepted, delivered>>

Deliver ==
    /\ Len(delivered) < Len(accepted)
    /\ delivered' = Append(delivered, accepted[Len(delivered) + 1])
    /\ UNCHANGED <<accepted, dropped>>

Next ==
    \/ \E i \in Item : Accept(i)
    \/ Refuse
    \/ Deliver

Spec == Init /\ [][Next]_vars
==============================================================================
