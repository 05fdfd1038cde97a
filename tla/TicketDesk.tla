------------------------------ MODULE TicketDesk ------------------------------
(***************************************************************************)
(* What the ticket system promises to an organisation, with none of the    *)
(* machinery that delivers it: every organisation issues the numbers 1, 2, *)
(* 3, ... without a gap, and a ticket is a small automaton                 *)
(* open -> claimed -> closed whose holder changes only by a claim, an      *)
(* unclaim or a transfer.                                                  *)
(*                                                                         *)
(* A ticket that two overlapping requests have both written is "disputed": *)
(* the promise about its holder is gone, the promise about its number and  *)
(* its organisation is not.  TicketLifecycle is shown to implement this    *)
(* specification.                                                          *)
(***************************************************************************)
EXTENDS Integers

CONSTANTS Orgs, Tickets, Actors, None

VARIABLES
    issued,   \* issued[o]: the last number organisation o has given out
    desk      \* desk[t]: None, or what the organisation knows of ticket t

vars == <<issued, desk>>

Phase == {"open", "claimed", "closed", "disputed"}

Entry == [org : Orgs, number : Nat \ {0}, phase : Phase,
          holder : Actors \cup {None}]

Init ==
    /\ issued = [o \in Orgs |-> 0]
    /\ desk = [t \in Tickets |-> None]

Open(t, o) ==
    /\ desk[t] = None
    /\ issued' = [issued EXCEPT ![o] = @ + 1]
    /\ desk' = [desk EXCEPT ![t] =
                    [org |-> o, number |-> issued[o] + 1,
                     phase |-> "open", holder |-> None]]

(* The ticket moves from one of the phases `from` to phase `to`. *)
Move(t, from, to, holder) ==
    /\ desk[t] # None
    /\ desk[t].phase \in from
    /\ desk' = [desk EXCEPT ![t] = [org |-> @.org, number |-> @.number,
                                    phase |-> to, holder |-> holder]]
    /\ UNCHANGED issued

Claim(t, who)    == Move(t, {"open"}, "claimed", who)
Unclaim(t)       == Move(t, {"claimed"}, "open", None)
Transfer(t, who) == Move(t, {"claimed"}, "claimed", who)
Close(t)         == desk[t] # None /\ Move(t, {"open", "claimed"}, "closed", desk[t].holder)
Dispute(t)       == Move(t, Phase, "disputed", None)

Next ==
    \E t \in Tickets :
        \/ \E o \in Orgs : Open(t, o)
        \/ \E who \in Actors : Claim(t, who) \/ Transfer(t, who)
        \/ Unclaim(t)
        \/ Close(t)
        \/ Dispute(t)

Spec == Init /\ [][Next]_vars
===============================================================================
