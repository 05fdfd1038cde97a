-------------------------- MODULE MCTicketLifecycle --------------------------
(***************************************************************************)
(* TicketLifecycle on a small instance.  Requests and ticket ids are        *)
(* interchangeable; every property is a safety property, so the symmetry    *)
(* is sound.                                                                *)
(***************************************************************************)
EXTENDS TicketLifecycle, TLC

Symmetry == Permutations(Requests) \cup Permutations(Tickets)
===============================================================================
