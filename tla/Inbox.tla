-------------------------------- MODULE Inbox --------------------------------
(***************************************************************************)
(* What happens to a line once it is read: flood protection, the bounded   *)
(* event queue to the user interface, and the reports of what was dropped  *)
(* (connect_once, emit and report_drops of conn/actor.rs, ReceiveLimiter   *)
(* of conn/ratelimit.rs).  The interface reads the queue from another      *)
(* thread, so it may take an event between any two steps of the actor.     *)
(***************************************************************************)
EXTENDS Integers, Sequences, SequencesExt

CONSTANTS
    EventQueue,   \* EVENT_QUEUE
    Burst,        \* ReceiveLimiter::DEFAULT_BURST
    MaxLost       \* drops explored

ASSUME InboxAssumption == EventQueue \in Nat \ {0} /\ Burst \in Nat \ {0} /\ MaxLost \in Nat

VARIABLES
    tokens,        \* whole tokens in the receive limiter's bucket
    flooded,       \* ReceiveLimiter.dropped
    backpressured, \* Actor.dropped_events
    events,        \* the event channel
    pc,            \* where the event loop is: idle, or about to call report_drops
    listing,       \* a LIST is being answered
    told,          \* drops the interface has been told of
    lost           \* lines and events dropped in all

vars == <<tokens, flooded, backpressured, events, pc, listing, told, lost>>

Event == [kind |-> "event", count |-> 0]
DropsEvent(n) == [kind |-> "dropped", count |-> n]

Init ==
    /\ tokens = Burst /\ flooded = 0 /\ backpressured = 0
    /\ events = <<>> /\ pc = "idle" /\ listing = FALSE
    /\ told = 0 /\ lost = 0

\* emit
Emit ==
    IF Len(events) < EventQueue
    THEN events' = Append(events, Event) /\ UNCHANGED <<backpressured, lost>>
    ELSE backpressured' = backpressured + 1 /\ lost' = lost + 1 /\ UNCHANGED events

\* handle, for a line that is shown or one that is not.
Handle(shown) ==
    /\ pc' = "report"
    /\ IF shown THEN Emit ELSE UNCHANGED <<events, backpressured, lost>>

\* A line the limiter admits.
Admitted(shown) ==
    /\ pc = "idle" /\ tokens > 0 /\ lost < MaxLost
    /\ tokens' = tokens - 1
    /\ Handle(shown)
    /\ UNCHANGED <<flooded, listing, told>>

\* A line it does not: dropped, counted, and the loop continues without a report.
Flooded ==
    /\ pc = "idle" /\ tokens = 0 /\ lost < MaxLost
    /\ flooded' = flooded + 1
    /\ lost' = lost + 1
    /\ UNCHANGED <<tokens, backpressured, events, pc, listing, told>>

\* A line of the LIST that was asked for, which the limiter does not see.
ListReply(shown) ==
    /\ pc = "idle" /\ listing /\ lost < MaxLost
    /\ Handle(shown)
    /\ UNCHANGED <<tokens, flooded, listing, told>>

\* RPL_LISTEND: the answer is over and the exemption with it.
ListEnd ==
    /\ pc = "idle" /\ listing /\ lost < MaxLost
    /\ listing' = FALSE
    /\ Handle(TRUE)
    /\ UNCHANGED <<tokens, flooded, told>>

\* A command of the user, here the one that starts a LIST; the report follows.
ListChannels ==
    /\ pc = "idle"
    /\ listing' = TRUE
    /\ pc' = "report"
    /\ UNCHANGED <<tokens, flooded, backpressured, events, told, lost>>

\* Mutant of ReportDrops: the limiter's count is read and not cleared.
ReportDropsReads ==
    /\ pc = "report"
    /\ pc' = "idle"
    /\ LET total == flooded + backpressured IN
       events' = IF total > 0 /\ Len(events) < EventQueue
                 THEN Append(events, DropsEvent(total)) ELSE events
    /\ backpressured' = 0
    /\ UNCHANGED <<tokens, flooded, listing, told, lost>>

\* Mutant of ReportDrops: reports what a slow interface cost and forgets the flood.
ReportDropsHalf ==
    /\ pc = "report"
    /\ pc' = "idle"
    /\ events' = IF backpressured > 0 /\ Len(events) < EventQueue
                 THEN Append(events, DropsEvent(backpressured)) ELSE events
    /\ flooded' = 0 /\ backpressured' = 0
    /\ UNCHANGED <<tokens, listing, told, lost>>

\* report_drops: both counters are taken before it is known whether there is room.
ReportDrops ==
    /\ pc = "report"
    /\ pc' = "idle"
    /\ LET total == flooded + backpressured IN
       events' = IF total > 0 /\ Len(events) < EventQueue
                 THEN Append(events, DropsEvent(total)) ELSE events
    /\ flooded' = 0 /\ backpressured' = 0
    /\ UNCHANGED <<tokens, listing, told, lost>>

Refill ==
    /\ tokens < Burst
    /\ tokens' = tokens + 1
    /\ UNCHANGED <<flooded, backpressured, events, pc, listing, told, lost>>

\* The user interface takes the next event.
UiReads ==
    /\ events # <<>>
    /\ told' = told + Head(events).count
    /\ events' = Tail(events)
    /\ UNCHANGED <<tokens, flooded, backpressured, pc, listing, lost>>

Next ==
    \/ \E shown \in BOOLEAN : Admitted(shown) \/ ListReply(shown)
    \/ Flooded \/ ListEnd \/ ListChannels \/ ReportDrops \/ Refill \/ UiReads

\* The actor finishes the pass of the loop it is in.
Spec == Init /\ [][Next]_vars /\ WF_vars(ReportDrops)

-----------------------------------------------------------------------------
Queued == FoldSeq(LAMBDA e, sum : e.count + sum, 0, events)

TypeOK ==
    /\ tokens \in 0..Burst /\ pc \in {"idle", "report"} /\ listing \in BOOLEAN
    /\ flooded \in 0..MaxLost /\ backpressured \in 0..MaxLost /\ lost \in 0..MaxLost /\ told \in Nat
    /\ events \in Seq([kind : {"event", "dropped"}, count : 0..MaxLost])
    /\ Len(events) <= EventQueue

(* Nothing is reported twice, and nothing that was not dropped: what the user   *)
(* has been told, will be told and is still to be counted never exceeds what    *)
(* was lost (take_dropped, "without double-counting").                          *)
NeverOverReported == told + Queued + flooded + backpressured <= lost

(* A drop goes missing from the account only while the event queue is full: a   *)
(* step taken with room in it never widens the gap between what was lost and    *)
(* what is counted, queued or told (report_drops on a queue with room).         *)
AccountedWithRoom ==
    [][Len(events) < EventQueue => (lost' - told' - Queued' - flooded' - backpressured')
                                     <= (lost - told - Queued - flooded - backpressured)]_vars

(* "We drop the excess and count it, so the UI can honestly report \"N messages *)
(* dropped\"" (conn/ratelimit.rs): every drop is counted, queued or told.       *)
EveryDropCounted == told + Queued + flooded + backpressured = lost
=============================================================================
