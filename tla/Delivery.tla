------------------------------ MODULE Delivery ------------------------------
(***************************************************************************)
(* What chainsmith and pulley promise together, without connections or     *)
(* messages: a pulley ends up with the chain that some start of chainsmith *)
(* built for its target, or with a failure.  To the modules after it,      *)
(* Deliver and GiveUp are Install's GetChain and LoseServer.               *)
(***************************************************************************)
EXTENDS Naturals

CONSTANTS
  Pulley,
  Arch         \* the architectures chainsmith builds for

VARIABLES
  starts,      \* how often chainsmith has been started
  target,      \* the architecture of each pulley
  outcome      \* what each pulley got: the chain, or a failure

deliveryVars == <<starts, target, outcome>>

Open(c) == outcome[c].how = "none"

DeliveryInit ==
  /\ starts = 0
  /\ outcome = [c \in Pulley |-> [how |-> "none"]]

Start ==
  /\ starts' = starts + 1
  /\ UNCHANGED <<target, outcome>>

Deliver(c) ==
  /\ Open(c)
  /\ target[c] \in Arch
  /\ \E e \in 1..starts :
       outcome' = [outcome EXCEPT ![c] = [how |-> "chain", target |-> target[c], epoch |-> e]]
  /\ UNCHANGED <<starts, target>>

GiveUp(c) ==
  /\ Open(c)
  /\ outcome' = [outcome EXCEPT ![c] = [how |-> "failed"]]
  /\ UNCHANGED <<starts, target>>

DeliveryNext == Start \/ \E c \in Pulley : Deliver(c) \/ GiveUp(c)

\* What may happen, without the promise that something does.
DeliverySafety == DeliveryInit /\ [][DeliveryNext]_deliveryVars

DeliverySpec ==
  /\ DeliverySafety
  /\ \A c \in Pulley : WF_deliveryVars(Deliver(c) \/ GiveUp(c))
=============================================================================
