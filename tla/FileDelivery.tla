---------------------------- MODULE FileDelivery ----------------------------
(***************************************************************************)
(* What a TFTP transfer promises: the client is given the blocks of one    *)
(* file in order, each once; the server reports completion only when it    *)
(* has them all, and may give up at any time before.                       *)
(***************************************************************************)
EXTENDS Naturals

CONSTANT Blocks   \* the number of blocks of the file, the short last one included

VARIABLES
  delivered,  \* blocks the client has
  outcome     \* "running", "done" or "failed"

Init == delivered = 0 /\ outcome = "running"

Deliver ==
  /\ delivered < Blocks
  /\ delivered' = delivered + 1
  /\ UNCHANGED outcome

Complete ==
  /\ outcome = "running"
  /\ delivered = Blocks
  /\ outcome' = "done"
  /\ UNCHANGED delivered

GiveUp ==
  /\ outcome = "running"
  /\ outcome' = "failed"
  /\ UNCHANGED delivered

Next == Deliver \/ Complete \/ GiveUp

Spec == Init /\ [][Next]_<<delivered, outcome>>
=============================================================================
