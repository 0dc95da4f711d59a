------------------------ MODULE MCSiteVisitCalendar -------------------------
(***************************************************************************)
(* Small instances of SiteVisitCalendar; users and requests are            *)
(* interchangeable.                                                        *)
(***************************************************************************)
EXTENDS SiteVisitCalendar, TLC

Symmetry == Permutations(Users) \cup Permutations(Reqs)

=============================================================================
