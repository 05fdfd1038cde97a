------------------------------ MODULE TicketBot ------------------------------
(***************************************************************************)
(* The Discord bot's ticket desk: forms and buttons in Discord, the HTTP    *)
(* calls they make and the backend that answers them                        *)
(* (discord_bot/views/ticket_views.py over services/api_client.py).         *)
(*                                                                          *)
(* The bot keeps nothing but its running interactions: a channel and a      *)
(* ticket are two records in two systems, and only the order of the calls   *)
(* keeps them together.  A call may be lost on its way out or back, or be   *)
(* answered after the bot's ten seconds have passed, and the backend acts   *)
(* on what reaches it all the same.                                         *)
(*                                                                          *)
(* The backend is atomic here, one action for each commit; what overlapping *)
(* requests can do to one ticket is the subject of TicketLifecycle.         *)
(***************************************************************************)
EXTENDS Integers, FiniteSets

CONSTANTS
    Channels,       \* Discord channels the bot may create
    Tickets,        \* ticket ids
    Members,        \* Discord members with a staff role
    Interactions,   \* forms and button presses handled at the same time
    Nothing         \* "no row", "no interaction", "no call"

VARIABLES
    linked,     \* the guild has an active link to an organisation
    channel,    \* "none", "open" or "deleted"
    control,    \* the channel has a message with the control view
    tickets,    \* the tickets table: id -> row or Nothing
    task,       \* what the bot is doing for each interaction, or Nothing
    call,       \* the HTTP call of each interaction, or Nothing
    told,       \* tickets the bot has had an answer about
    smooth      \* history: no failure, timeout or crash so far

botVars == <<linked, channel, control, tickets, task, call, told, smooth>>

-------------------------------------------------------------------------------
Ops == {"open", "claim", "unclaim", "transfer", "close"}

Row == [channel : Channels, status : {"open", "claimed", "closed"},
        holder : Members \cup {Nothing}, born : 1 .. Cardinality(Tickets)]

Task == [op : Ops, channel : Channels, ticket : Tickets \cup {Nothing},
         pc : {"choosing", "waiting", "posting", "deleting"}]

Call == [op : Ops, channel : Channels, ticket : Tickets \cup {Nothing},
         who : Members \cup {Nothing}, phase : {"sent", "resolved", "answered"},
         ok : BOOLEAN]

(* Nothing is no row, no interaction and no call; the ids of tickets are    *)
(* finite.                                                                  *)
ASSUME NothingAssumption == Nothing \notin Row \cup Task \cup Call

ASSUME TicketsAssumption == IsFiniteSet(Tickets)

(* Every channel, row, interaction and call has its type. *)
BotTypeOK ==
    /\ linked \in BOOLEAN
    /\ channel \in [Channels -> {"none", "open", "deleted"}]
    /\ control \in [Channels -> BOOLEAN]
    /\ tickets \in [Tickets -> Row \cup {Nothing}]
    /\ task \in [Interactions -> Task \cup {Nothing}]
    /\ call \in [Interactions -> Call \cup {Nothing}]
    /\ told \subseteq Tickets
    /\ smooth \in BOOLEAN

Doing(i, pc) == task[i] # Nothing /\ task[i].pc = pc

InPhase(i, phase) == call[i] # Nothing /\ call[i].phase = phase

Stored == {t \in Tickets : tickets[t] # Nothing}

OnChannel(c) == {t \in Stored : tickets[t].channel = c}

IsUnclosed(t) == t \in Stored /\ tickets[t].status # "closed"

(* get_by_discord_channel_id: the most recently created ticket. *)
Newest(c) ==
    CHOOSE t \in OnChannel(c) :
        \A u \in OnChannel(c) : tickets[u].born =< tickets[t].born

Idle(i) == task[i] = Nothing /\ call[i] = Nothing

-------------------------------------------------------------------------------
(* Discord: the form and the buttons *)

Send(i, op, c, t, who) ==
    call' = [call EXCEPT ![i] = [op |-> op, channel |-> c, ticket |-> t,
                                 who |-> who, phase |-> "sent", ok |-> FALSE]]

(* TicketFormModal.on_submit creates the channel, then calls the backend.   *)
SubmitForm(i, c) ==
    /\ Idle(i)
    /\ channel[c] = "none"
    /\ channel' = [channel EXCEPT ![c] = "open"]
    /\ task' = [task EXCEPT ![i] = [op |-> "open", channel |-> c,
                                    ticket |-> Nothing, pc |-> "waiting"]]
    /\ Send(i, "open", c, Nothing, Nothing)
    /\ UNCHANGED <<linked, control, tickets, told, smooth>>

(* A button of the control view: the ticket is looked up by channel, the    *)
(* operation then names it by id.  Transfer first shows a member select.    *)
Press(i, op, c, who) ==
    /\ Idle(i)
    /\ channel[c] = "open" /\ control[c]
    /\ OnChannel(c) # {}
    /\ task' = [task EXCEPT ![i] = [op |-> op, channel |-> c, ticket |-> Newest(c),
                                    pc |-> IF op = "transfer" THEN "choosing"
                                           ELSE "waiting"]]
    /\ IF op = "transfer" THEN UNCHANGED call ELSE Send(i, op, c, Newest(c), who)
    /\ UNCHANGED <<linked, channel, control, tickets, told, smooth>>

(* TicketTransferSelectView.select_user *)
Choose(i, who) ==
    /\ Doing(i, "choosing")
    /\ task' = [task EXCEPT ![i].pc = "waiting"]
    /\ Send(i, "transfer", task[i].channel, task[i].ticket, who)
    /\ UNCHANGED <<linked, channel, control, tickets, told, smooth>>

(* The select view times out after sixty seconds. *)
Dismiss(i) ==
    /\ Doing(i, "choosing")
    /\ task' = [task EXCEPT ![i] = Nothing]
    /\ UNCHANGED <<linked, channel, control, tickets, call, told, smooth>>

-------------------------------------------------------------------------------
(* The backend *)

(* An answer nobody waits for any more is dropped. *)
Answer(i, ok, t) ==
    call' = [call EXCEPT ![i] =
                IF Doing(i, "waiting") THEN [@ EXCEPT !.phase = "answered", !.ok = ok,
                                                   !.ticket = t]
                ELSE Nothing]

(* resolve_org_id, in a transaction of its own *)
ResolveGuild(i) ==
    /\ InPhase(i, "sent") /\ call[i].op = "open"
    /\ IF linked THEN call' = [call EXCEPT ![i].phase = "resolved"]
       ELSE Answer(i, FALSE, Nothing)
    /\ UNCHANGED <<linked, channel, control, tickets, task, told, smooth>>

(* Mutant: the creation order is not stored. *)
NewRow_Unordered(c) == [channel |-> c, status |-> "open", holder |-> Nothing, born |-> 0]

NewRow(c) == [channel |-> c, status |-> "open", holder |-> Nothing,
              born |-> Cardinality(Stored) + 1]

ChannelIsFree(c) == \A t \in OnChannel(c) : ~ IsUnclosed(t)

CreateTicket(i, t) ==
    /\ InPhase(i, "resolved")
    /\ tickets[t] = Nothing
    /\ ChannelIsFree(call[i].channel)
    /\ tickets' = [tickets EXCEPT ![t] = NewRow(call[i].channel)]
    /\ Answer(i, TRUE, t)
    /\ UNCHANGED <<linked, channel, control, task, told, smooth>>

(* Mutant: transfer and close do not look at the status. *)
Permits_AnyStatus(op, row) ==
    CASE op = "claim"   -> row.status = "open"
      [] op = "unclaim" -> row.status = "claimed"
      [] OTHER          -> TRUE

Permits(op, row) ==
    CASE op = "claim"                   -> row.status = "open"
      [] op \in {"unclaim", "transfer"} -> row.status = "claimed"
      [] OTHER                          -> row.status # "closed"

After(op, row, who) ==
    CASE op \in {"claim", "transfer"} -> [row EXCEPT !.status = "claimed", !.holder = who]
      [] op = "unclaim"               -> [row EXCEPT !.status = "open", !.holder = Nothing]
      [] OTHER                        -> [row EXCEPT !.status = "closed"]

(* A claim, unclaim, transfer or close that reaches the backend. *)
Act(i) ==
    /\ InPhase(i, "sent") /\ call[i].op # "open"
    /\ LET t == call[i].ticket
           ok == Permits(call[i].op, tickets[t])
       IN  /\ tickets' = IF ok THEN [tickets EXCEPT ![t] = After(call[i].op, @, call[i].who)]
                         ELSE tickets
           /\ Answer(i, ok, t)
    /\ UNCHANGED <<linked, channel, control, task, told, smooth>>

(* The same operations from the web application. *)
WebAct(t, op, who) ==
    /\ t \in Stored /\ op # "open"
    /\ Permits(op, tickets[t])
    /\ tickets' = [tickets EXCEPT ![t] = After(op, @, who)]
    /\ UNCHANGED <<linked, channel, control, task, call, told, smooth>>

(* A web client opens a further ticket on a ticket channel. *)
WebOpen(t, c) ==
    /\ tickets[t] = Nothing
    /\ channel[c] = "open" /\ control[c]
    /\ ChannelIsFree(c)
    /\ tickets' = [tickets EXCEPT ![t] = NewRow(c)]
    /\ UNCHANGED <<linked, channel, control, task, call, told, smooth>>

(* A link is set up or removed. *)
Relink ==
    /\ linked' = ~ linked
    /\ UNCHANGED <<channel, control, tickets, task, call, told, smooth>>

-------------------------------------------------------------------------------
(* The bot again: what follows an answer *)

(* Mutant: a refused form leaves its channel behind. *)
Receive_NoCleanUp(i) ==
    /\ Doing(i, "waiting") /\ InPhase(i, "answered")
    /\ IF task[i].op = "open" /\ call[i].ok
       THEN /\ told' = told \cup {call[i].ticket}
            /\ task' = [task EXCEPT ![i].pc = "posting"]
       ELSE /\ task' = [task EXCEPT ![i] = Nothing]
            /\ UNCHANGED told
    /\ call' = [call EXCEPT ![i] = Nothing]
    /\ UNCHANGED <<linked, channel, control, tickets, smooth>>

Receive(i) ==
    /\ Doing(i, "waiting") /\ InPhase(i, "answered")
    /\ IF task[i].op # "open" THEN task' = [task EXCEPT ![i] = Nothing] /\ UNCHANGED told
       ELSE IF call[i].ok
       THEN /\ told' = told \cup {call[i].ticket}
            /\ task' = [task EXCEPT ![i].pc = "posting"]
       ELSE /\ task' = [task EXCEPT ![i].pc = "deleting"]
            /\ UNCHANGED told
    /\ call' = [call EXCEPT ![i] = Nothing]
    /\ UNCHANGED <<linked, channel, control, tickets, smooth>>

(* Mutant: the client waits for ever. *)
Timeout_Never(i) == FALSE /\ UNCHANGED botVars

(* httpx gives up: to the bot a call that may still take effect has failed. *)
Timeout(i) ==
    /\ Doing(i, "waiting")
    /\ task' = [task EXCEPT ![i] = IF @.op = "open" THEN [@ EXCEPT !.pc = "deleting"]
                                   ELSE Nothing]
    /\ call' = [call EXCEPT ![i] = IF InPhase(i, "answered") THEN Nothing ELSE @]
    /\ smooth' = FALSE
    /\ UNCHANGED <<linked, channel, control, tickets, told>>

PostControl(i) ==
    /\ Doing(i, "posting")
    /\ control' = [control EXCEPT ![task[i].channel] = TRUE]
    /\ task' = [task EXCEPT ![i] = Nothing]
    /\ UNCHANGED <<linked, channel, tickets, call, told, smooth>>

DeleteChannel(i) ==
    /\ Doing(i, "deleting")
    /\ channel' = [channel EXCEPT ![task[i].channel] = "deleted"]
    /\ task' = [task EXCEPT ![i] = Nothing]
    /\ UNCHANGED <<linked, control, tickets, call, told, smooth>>

(* channel.send or channel.delete raises and ends the interaction. *)
DiscordFails(i) ==
    /\ Doing(i, "posting") \/ Doing(i, "deleting")
    /\ task' = [task EXCEPT ![i] = Nothing]
    /\ smooth' = FALSE
    /\ UNCHANGED <<linked, channel, control, tickets, call, told>>

-------------------------------------------------------------------------------
(* Failures *)

(* The call or its answer is lost, or the backend's transaction fails. *)
Lose(i) ==
    /\ call[i] # Nothing
    /\ call' = [call EXCEPT ![i] = Nothing]
    /\ smooth' = FALSE
    /\ UNCHANGED <<linked, channel, control, tickets, task, told>>

(* The bot restarts: its interactions are gone, its calls are not.  The     *)
(* control views are registered again and go on working.                    *)
Crash ==
    /\ task' = [i \in Interactions |-> Nothing]
    /\ call' = [i \in Interactions |-> IF InPhase(i, "answered") THEN Nothing ELSE call[i]]
    /\ smooth' = FALSE
    /\ UNCHANGED <<linked, channel, control, tickets, told>>

-------------------------------------------------------------------------------
BotInit ==
    /\ linked = TRUE
    /\ channel = [c \in Channels |-> "none"]
    /\ control = [c \in Channels |-> FALSE]
    /\ tickets = [t \in Tickets |-> Nothing]
    /\ task = [i \in Interactions |-> Nothing]
    /\ call = [i \in Interactions |-> Nothing]
    /\ told = {}
    /\ smooth = TRUE

(* What the bot does by itself once an interaction has begun. *)
BotStep(i) ==
    \/ Receive(i)
    \/ Timeout(i)
    \/ PostControl(i)
    \/ DeleteChannel(i)
    \/ DiscordFails(i)
    \/ Dismiss(i)

BotNext ==
    \/ \E i \in Interactions :
          \/ \E c \in Channels : SubmitForm(i, c)
          \/ \E op \in Ops \ {"open"}, c \in Channels, who \in Members : Press(i, op, c, who)
          \/ \E who \in Members : Choose(i, who)
          \/ ResolveGuild(i)
          \/ \E t \in Tickets : CreateTicket(i, t)
          \/ Act(i)
          \/ BotStep(i)
          \/ Lose(i)
    \/ \E t \in Tickets, op \in Ops, who \in Members : WebAct(t, op, who)
    \/ \E t \in Tickets, c \in Channels : WebOpen(t, c)
    \/ Relink
    \/ Crash

(* The event loop runs every interaction, the HTTP client gives up after    *)
(* ten seconds and the select view after sixty: none of them waits for the  *)
(* network, the backend or a member.                                        *)
Fairness == \A i \in Interactions : WF_botVars(BotStep(i))

BotSpec == BotInit /\ [][BotNext]_botVars /\ Fairness

-------------------------------------------------------------------------------
(* Properties *)

Busy(c) ==
    \E i \in Interactions :
        \/ task[i] # Nothing /\ task[i].channel = c
        \/ call[i] # Nothing /\ call[i].channel = c

(* The channel of a ticket the bot was told of is never deleted: on_submit   *)
(* deletes a channel only while it believes that it has no ticket.           *)
ToldTicketsKeepTheirChannel ==
    \A t \in told : channel[tickets[t].channel] = "open"

(* As long as nothing fails, no channel is left without a ticket and no      *)
(* ticket without its channel and buttons once the form has been handled.    *)
NothingIsStranded ==
    smooth => \A c \in Channels : Busy(c) \/
        (channel[c] = "open" <=> OnChannel(c) # {} /\ control[c])

ChannelsAndTicketsStayTogether == ToldTicketsKeepTheirChannel /\ NothingIsStranded

(* Buttons and selects act on the ticket id they looked up earlier, while    *)
(* the channel may have got a newer ticket: whatever is late, the bot        *)
(* changes no ticket but the newest of its channel.                          *)
StaleControlsAreHarmless ==
    [][\A i \in Interactions, t \in Tickets :
          (Act(i) /\ tickets[t] # tickets'[t]) => t = Newest(tickets[t].channel)]_botVars

(* Every form and every button press comes to an end, whatever is lost.      *)
EveryInteractionEnds == \A i \in Interactions : task[i] # Nothing ~> task[i] = Nothing
===============================================================================
