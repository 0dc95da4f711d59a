-------------------------- MODULE MCWhatsAppInbox ---------------------------
(***************************************************************************)
(* Small instances of WhatsAppInbox; executives, message ids and requests  *)
(* are interchangeable.                                                    *)
(***************************************************************************)
EXTENDS WhatsAppInbox, TLC

Symmetry == Permutations(Executives) \cup Permutations(Pids) \cup Permutations(Reqs)

=============================================================================
