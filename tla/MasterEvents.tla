---------------------------- MODULE MasterEvents ----------------------------
(***************************************************************************)
(* The EA of a master terminal (IPTRADE.mq5): OnTimer compares what the    *)
(* terminal shows with what was reported before, pushes placed, modified   *)
(* and closed events, and every 5 s a snapshot, if SnapshotReflectsRealData*)
(* lets it.  The terminal is updated by its own threads at any time:       *)
(* between its two listings and the loop over the vanished ones,           *)
(* and while a push blocks.  Each phase of OnTimer is one action.          *)
(*                                                                         *)
(* A ticket is a position, or a pending order that may become the position *)
(* of the same number when it is filled.  Prices, symbols, the tickets a   *)
(* partial close leaves behind ("from #"), and copies of other masters,    *)
(* which every loop skips, are left out.                                   *)
(***************************************************************************)
EXTENDS Naturals, FiniteSets

CONSTANTS
    Tickets,     \* order and position tickets, never reused by the broker
    HistoryLag   \* HistorySelect may miss what just happened to a ticket

ASSUME EventsAssumption == HistoryLag \in BOOLEAN

VARIABLES
    book,               \* the broker's truth about each ticket
    hidden,             \* tickets whose last deal or order HistorySelect misses
    touched,            \* volume, price or stops changed since UpdateOrderState
    connected,          \* IsTerminalConnected
    reportedPositions,  \* g_reportedPositions
    reportedOrders,     \* g_reportedOrders
    reportedDeals,      \* g_reportedDeals
    orderStates,        \* tickets of g_orderStates
    lastSnapshot,       \* g_lastSnapshotOpenTickets
    active,             \* activeTickets of the running ProcessTradeEvents
    pc,                 \* phase of OnTimer
    told,               \* history: what the slaves were last told of a ticket
    snap                \* history: tickets of the newest snapshot

brokerVars == <<book, hidden, touched, connected>>
eaVars == <<reportedPositions, reportedOrders, reportedDeals, orderStates,
            lastSnapshot, active, pc>>
historyVars == <<told, snap>>
vars == <<brokerVars, eaVars, historyVars>>

TypeOK ==
    /\ book \in [Tickets -> {"none", "pending", "open", "closed", "cancelled", "expired"}]
    /\ hidden \in SUBSET Tickets
    /\ touched \in SUBSET Tickets
    /\ connected \in BOOLEAN
    /\ reportedPositions \in SUBSET Tickets
    /\ reportedOrders \in SUBSET Tickets
    /\ reportedDeals \in SUBSET Tickets
    /\ orderStates \in SUBSET Tickets
    /\ lastSnapshot \in SUBSET Tickets
    /\ active \in SUBSET Tickets
    /\ pc \in {"scan", "orders", "vanished", "gate", "collect"}
    /\ told \in [Tickets -> {"nothing", "placed", "closed"}]
    /\ snap \in SUBSET Tickets

Positions == {t \in Tickets : book[t] = "open"}
Orders == {t \in Tickets : book[t] = "pending"}

\* ReconcileInitialState: what is there counts as reported, nothing is pushed.
ReconcileInitialState ==
    /\ reportedPositions' = Positions
    /\ reportedOrders' = Orders
    /\ reportedDeals' = {}
    /\ orderStates' = Positions \cup Orders
    /\ lastSnapshot' = {}
    /\ touched' = {}

Init ==
    /\ book \in [Tickets -> {"none", "pending", "open"}]
    /\ hidden = {}
    /\ touched = {}
    /\ connected = TRUE
    /\ reportedPositions = Positions
    /\ reportedOrders = Orders
    /\ reportedDeals = {}
    /\ orderStates = Positions \cup Orders
    /\ lastSnapshot = {}
    /\ active = {}
    /\ pc = "scan"
    /\ told = [t \in Tickets |-> "nothing"]
    /\ snap = {}

-----------------------------------------------------------------------------
(* The broker and the terminal's connection (not part of the repository).  *)

BookMoves == {<<"none", "pending">>, <<"none", "open">>, <<"pending", "open">>,
              <<"open", "closed">>, <<"pending", "cancelled">>, <<"pending", "expired">>}

\* The history may come to know of a fill, a close or a cancellation only later.
MayHide(t) ==
    \E late \in {FALSE, HistoryLag} :
        hidden' = IF late THEN hidden \cup {t} ELSE hidden \ {t}

Trade(t) ==
    /\ \E move \in BookMoves : /\ book[t] = move[1]
                               /\ book' = [book EXCEPT ![t] = move[2]]
    /\ IF book[t] = "none" \/ book'[t] = "expired" THEN UNCHANGED hidden ELSE MayHide(t)
    /\ touched' = touched \ {t}
    /\ UNCHANGED <<connected, eaVars, told, snap>>

HistoryShows(t) ==
    /\ t \in hidden
    /\ hidden' = hidden \ {t}
    /\ UNCHANGED <<book, touched, connected, eaVars, told, snap>>

\* Stops or price are changed, or a part is closed.
Touch(t) ==
    /\ t \in Positions \cup Orders
    /\ touched' = touched \cup {t}
    /\ UNCHANGED <<book, hidden, connected, eaVars, told, snap>>

Connection ==
    /\ connected' = ~connected
    /\ UNCHANGED <<book, hidden, touched, eaVars, told, snap>>

-----------------------------------------------------------------------------
(* OnTimer.                                                                *)

\* The events of a phase are pushed; told remembers the last one of a ticket.
Say(events) ==
    told' = [t \in Tickets |->
               IF <<"closed", t>> \in events THEN "closed"
               ELSE IF \E k \in {"placed", "modified"} : <<k, t>> \in events
               THEN "placed" ELSE told[t]]

NewPositions == Positions \ reportedPositions
NewOrders == Orders \ reportedOrders

\* A new position whose opening deal leads to an order that was reported is not
\* placed again (GetOrderThatFilledPosition); the deal may be missing.
PendingOpened(t) == t \notin hidden /\ t \in orderStates \cup reportedOrders

\* Reported, with a state to compare, and changed.
ModifiedTickets(reported) == reported \cap orderStates \cap touched

PositionEvents ==
    ({"placed"} \X {t \in NewPositions : ~PendingOpened(t)})
      \cup ({"modified"} \X ModifiedTickets(Positions \cap reportedPositions))

OrderEvents ==
    ({"placed"} \X NewOrders)
      \cup ({"modified"} \X ModifiedTickets(Orders \cap reportedOrders))

\* ProcessTradeEvents, the loop over the positions.
ScanPositions ==
    /\ pc = "scan"
    /\ active' = Positions
    /\ Say(PositionEvents)
    /\ reportedPositions' = reportedPositions \cup Positions
    /\ orderStates' = orderStates \cup Positions
    /\ touched' = touched \ Positions
    /\ pc' = "orders"
    /\ UNCHANGED <<book, hidden, connected, reportedOrders, reportedDeals>>
    /\ UNCHANGED <<lastSnapshot, snap>>

\* Mutant of ScanOrders: a new order is not added to g_reportedOrders.
ScanOrdersForgetting ==
    /\ pc = "orders"
    /\ active' = active \cup Orders
    /\ Say(OrderEvents)
    /\ orderStates' = orderStates \cup Orders
    /\ touched' = touched \ Orders
    /\ pc' = "vanished"
    /\ UNCHANGED <<book, hidden, connected, reportedPositions, reportedOrders>>
    /\ UNCHANGED <<reportedDeals, lastSnapshot, snap>>

\* The loop over the orders: one that was filled since the positions were listed
\* is in neither list.
ScanOrders ==
    /\ pc = "orders"
    /\ active' = active \cup Orders
    /\ Say(OrderEvents)
    /\ reportedOrders' = reportedOrders \cup Orders
    /\ orderStates' = orderStates \cup Orders
    /\ touched' = touched \ Orders
    /\ pc' = "vanished"
    /\ UNCHANGED <<book, hidden, connected, reportedPositions, reportedDeals>>
    /\ UNCHANGED <<lastSnapshot, snap>>

\* A position needs its closing deal, an order its cancellation; an expired or
\* filled order is dropped in silence.
ProvedGone(t) ==
    /\ t \notin reportedDeals /\ t \notin hidden
    /\ book[t] = IF t \in reportedPositions THEN "closed" ELSE "cancelled"

\* Reported or known, and in neither listing.
VanishedTickets == {t \in orderStates \ active : ProvedGone(t)}

\* Mutant of ReportVanished: the event is marked as reported, not its ticket.
ReportVanishedByEvent ==
    /\ pc = "vanished"
    /\ Say({"closed"} \X VanishedTickets)
    /\ reportedDeals' = reportedDeals \cup ({"closed"} \X VanishedTickets)
    /\ orderStates' = orderStates \cap active
    /\ active' = {}
    /\ pc' = "gate"
    /\ UNCHANGED <<brokerVars, reportedPositions, reportedOrders, lastSnapshot, snap>>

\* ProcessTradeEvents, the loop over g_orderStates: RemoveOrderState drops the
\* ticket whether its close was reported or not.
ReportVanished ==
    /\ pc = "vanished"
    /\ Say({"closed"} \X VanishedTickets)
    /\ reportedDeals' = reportedDeals \cup VanishedTickets
    /\ orderStates' = orderStates \cap active
    /\ active' = {}
    /\ pc' = "gate"
    /\ UNCHANGED <<brokerVars, reportedPositions, reportedOrders, lastSnapshot, snap>>

\* Mutant of SnapshotReflectsRealData: a reported close is no proof.
SnapshotReflectsOpenOnly == connected /\ lastSnapshot \subseteq Positions

SnapshotReflectsRealData ==
    /\ connected
    /\ \A t \in lastSnapshot : t \in Positions \cup reportedDeals

\* The 5 s are not over, or the snapshot is held back.
SkipSnapshot ==
    /\ pc = "gate"
    /\ pc' = "scan"
    /\ UNCHANGED <<brokerVars, reportedPositions, reportedOrders, reportedDeals>>
    /\ UNCHANGED <<orderStates, lastSnapshot, active, told, snap>>

\* BuildSnapshotEventJson and PushLocalEvent.
EmitSnapshot ==
    /\ pc = "gate" /\ SnapshotReflectsRealData
    /\ snap' = Positions \cup Orders
    /\ pc' = "collect"
    /\ UNCHANGED <<brokerVars, reportedPositions, reportedOrders, reportedDeals>>
    /\ UNCHANGED <<orderStates, lastSnapshot, active, told>>

\* CollectOpenPositionTickets, when the push has returned.
CollectOpenPositionTickets ==
    /\ pc = "collect"
    /\ lastSnapshot' = Positions
    /\ pc' = "scan"
    /\ UNCHANGED <<brokerVars, reportedPositions, reportedOrders, reportedDeals>>
    /\ UNCHANGED <<orderStates, active, told, snap>>

\* ReinitializeForAccountChange, or OnInit after a restart of the EA.
Reinitialize ==
    /\ pc = "scan"
    /\ ReconcileInitialState
    /\ UNCHANGED <<book, hidden, connected, active, pc, told, snap>>

Broker == \E t \in Tickets : Trade(t) \/ Touch(t)

OnTimer ==
    \/ ScanPositions \/ ScanOrders \/ ReportVanished
    \/ SkipSnapshot \/ EmitSnapshot \/ CollectOpenPositionTickets
    \/ Reinitialize

Next ==
    \/ Broker
    \/ \E t \in Tickets : HistoryShows(t)
    \/ Connection
    \/ OnTimer

Spec == Init /\ [][Next]_vars

(***************************************************************************)
(* The timer keeps firing, every 5 s a snapshot is due (the gate is passed *)
(* again and again, so strong fairness), and the broker's history shows    *)
(* every deal in the end.                                                  *)
(***************************************************************************)
Fairness ==
    /\ WF_vars(ScanPositions) /\ WF_vars(ScanOrders)
    /\ WF_vars(ReportVanished) /\ WF_vars(SkipSnapshot)
    /\ WF_vars(CollectOpenPositionTickets)
    /\ SF_vars(EmitSnapshot)
    /\ \A t \in Tickets : WF_vars(HistoryShows(t))

FairSpec == Spec /\ Fairness

-----------------------------------------------------------------------------
(* Properties.                                                             *)

\* An open position that the history does not yet trace to its order.
Unexplained(t) == book[t] = "open" /\ t \in hidden

\* What may be said of a ticket after what was said before.
LivesOn(events) ==
    \A t \in Tickets :
       /\ <<"placed", t>> \in events =>
             told[t] = "nothing" \/ (told[t] = "placed" /\ Unexplained(t))
       /\ <<"closed", t>> \in events => told[t] # "closed"
       /\ <<"modified", t>> \in events => told[t] # "closed"

\* What each phase of ProcessTradeEvents says.
SaysOnlyWhatLives ==
    /\ ScanPositions => LivesOn(PositionEvents)
    /\ ScanOrders => LivesOn(OrderEvents)
    /\ ReportVanished => LivesOn({"closed"} \X VanishedTickets)

\* Through fills, restarts and late deals no ticket is placed or modified after
\* its close or closed twice, and none is placed twice but a filled order whose
\* opening deal the history does not show (g_reportedPositions, g_reportedOrders,
\* g_reportedDeals, g_orderStates and GetOrderThatFilledPosition together).
OneLifePerTicket == [][SaysOnlyWhatLives]_vars

\* A ticket that left the terminal with nobody left to look for its deal: the
\* gate waits for a proof that cannot come any more.
Wedged == \E t \in lastSnapshot : t \notin Positions \cup orderStates \cup reportedDeals

Gone(t) == book[t] \in {"closed", "cancelled", "expired"}

\* With the terminal connected, slaves that were told of a ticket learn that it
\* is gone, by its closed event or by a snapshot without it, whatever deals come
\* late and orders expire in silence; only a wedged gate keeps it from them.
GoneIsTold ==
    <>[]connected =>
        \A t \in Tickets :
            (told[t] = "placed" /\ Gone(t))
                ~> (told[t] = "closed" \/ t \notin snap \/ Wedged)

\* OnTimer's comments: a position that "vanished without proof" is "not real
\* yet" (372): once the history shows the deal, the periodic snapshot goes on.
SnapshotsGoOn == <>[]connected => []<>(pc = "collect")
=============================================================================
