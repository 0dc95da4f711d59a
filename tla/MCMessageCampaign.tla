------------------------- MODULE MCMessageCampaign --------------------------
(***************************************************************************)
(* Small instances of MessageCampaign; recipients and starts are           *)
(* interchangeable.                                                        *)
(***************************************************************************)
EXTENDS MessageCampaign, TLC

Symmetry == Permutations(Recipients) \cup Permutations(Runs)

=============================================================================
