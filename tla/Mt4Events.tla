------------------------------ MODULE Mt4Events ------------------------------
(***************************************************************************)
(* The EA of a master terminal on MetaTrader 4 (IPTRADE.mq4): OnTimer goes *)
(* over the terminal's orders one by one, then over those that vanished,   *)
(* and every 5 s over the orders again for a snapshot.                     *)
(*                                                                         *)
(* MetaTrader 4 replaces an order that is partly closed by one with a new  *)
(* ticket: the new order's comment says "from #old", the closed one's "to  *)
(* #new".  The slaves know all of them by the ticket of the first, which   *)
(* the EA finds in what it has registered and in comments.                 *)
(*                                                                         *)
(* Broker and terminal may act between any two visits; what a scan queues  *)
(* is pushed in the same OnTimer, before a snapshot.  Whether the stops, a *)
(* price or a volume changed is a choice.                                  *)
(*                                                                         *)
(* Symbols, comments that are numbers, copies of other masters, which the  *)
(* scan skips, and 200 or more orders closed between two scans are left out. *)
(***************************************************************************)
EXTENDS Naturals

CONSTANT MaxTicket   \* orders the account ever has (a bound)

ASSUME TicketsAssumption == MaxTicket \in Nat

Tickets == 1..MaxTicket
NoTicket == 0

VARIABLES
    book,            \* the broker's truth about each order
    parent,          \* the order that the ticket is the rest of
    blank,           \* the terminal is connected but does not list its orders yet
    reportedOpen,    \* g_reportedOpenTickets
    reportedClosed,  \* g_reportedClosedTickets
    original,        \* originalTicket in g_orderStates, by ticket
    named,           \* g_ticketMaps and g_orderLifecycleStates, which agree
    lastSnapshot,    \* g_lastSnapshotOpenTickets
    active,          \* activeTickets of the running ProcessTradeEvents
    todo,            \* what the running loop has not visited
    pc,              \* phase of OnTimer
    said,            \* history: the events of the last step
    draft,           \* entries of the snapshot that is built, <<order, ticket>>
    astray,          \* history: orders with an ancestor the EA did not see in time
    blind            \* history: the scan met a blank terminal

brokerVars == <<book, parent, blank>>
eaVars == <<reportedOpen, reportedClosed, original, named, lastSnapshot, active,
            todo, draft, pc>>
vars == <<brokerVars, eaVars, said, astray, blind>>

Event(kind, t, ticket) == [kind |-> kind, of |-> t, ticket |-> ticket]

Phases == {"idle", "list", "vanished", "gate", "orders", "collect"}

TypeOK ==
    /\ book \in [Tickets -> {"none", "pending", "open", "closed", "parted"}]
    /\ parent \in [Tickets -> Tickets \cup {NoTicket}]
    /\ blank \in BOOLEAN
    /\ reportedOpen \in SUBSET Tickets
    /\ reportedClosed \in SUBSET Tickets
    /\ original \in [Tickets -> Tickets \cup {NoTicket}]
    /\ named \in [Tickets -> Tickets \cup {NoTicket}]
    /\ lastSnapshot \in SUBSET Tickets
    /\ active \in SUBSET Tickets
    /\ todo \in SUBSET Tickets
    /\ pc \in Phases
    /\ said \in SUBSET [kind : {"placed", "modified", "closed"}, of : Tickets,
                        ticket : Tickets]
    /\ draft \in SUBSET (Tickets \X Tickets)
    /\ astray \in SUBSET Tickets
    /\ blind \in BOOLEAN

Init ==
    /\ book = [t \in Tickets |-> "none"]
    /\ parent = [t \in Tickets |-> NoTicket]
    /\ blank = FALSE
    /\ reportedOpen = {} /\ reportedClosed = {}
    /\ original = [t \in Tickets |-> NoTicket]
    /\ named = [t \in Tickets |-> NoTicket]
    /\ lastSnapshot = {} /\ active = {} /\ todo = {}
    /\ pc = "idle"
    /\ said = {} /\ draft = {} /\ astray = {}
    /\ blind = FALSE

-----------------------------------------------------------------------------
(* What the terminal shows (MODE_TRADES, MODE_HISTORY).                    *)

With(states) == {t \in Tickets : ~blank /\ book[t] \in states}
Shown == With({"pending", "open"})
History == With({"closed", "parted"})

\* ExtractParentTicketFromComment, of an order that OrderSelect finds.
CommentParent(t) ==
    IF t \in With({"pending", "open", "closed"}) THEN parent[t] ELSE NoTicket

-----------------------------------------------------------------------------
(* The broker and the terminal's connection (not part of the repository).  *)

Unused(t) == book[t] = "none" /\ \A u \in Tickets : u < t => book[u] # "none"

Place(t) ==
    /\ Unused(t)
    /\ \E state \in {"pending", "open"} : book' = [book EXCEPT ![t] = state]
    /\ said' = {}
    /\ UNCHANGED <<parent, blank, eaVars, astray, blind>>

Fill(t) ==
    /\ book[t] = "pending"
    /\ book' = [book EXCEPT ![t] = "open"]
    /\ said' = {}
    /\ UNCHANGED <<parent, blank, eaVars, astray, blind>>

\* Closed, deleted or expired.
Close(t) ==
    /\ book[t] \in {"pending", "open"}
    /\ book' = [book EXCEPT ![t] = "closed"]
    /\ said' = {}
    /\ UNCHANGED <<parent, blank, eaVars, astray, blind>>

\* A part is closed; rest is the order that remains.
ClosePart(t, rest) ==
    /\ book[t] = "open" /\ Unused(rest)
    /\ book' = [book EXCEPT ![t] = "parted", ![rest] = "open"]
    /\ parent' = [parent EXCEPT ![rest] = t]
    /\ astray' = IF t \in astray \/ (parent[t] # NoTicket /\ named[t] = NoTicket)
                 THEN astray \cup {rest} ELSE astray
    /\ said' = {}
    /\ UNCHANGED <<blank, eaVars, blind>>

\* The orders of a terminal that has just connected are not there at once.
Connection ==
    /\ blank' = ~blank
    /\ blind' = (blind \/ (blank' /\ pc \in {"list", "vanished"}))
    /\ said' = {}
    /\ UNCHANGED <<book, parent, eaVars, astray>>

-----------------------------------------------------------------------------
(* Tickets of the slaves.                                                  *)

\* Mutant of GetUltimateMasterTicket: only comments are followed.
UltimateByComment(ticket) ==
    LET up[t \in Tickets] == IF CommentParent(t) = NoTicket THEN t
                             ELSE up[CommentParent(t)]
    IN  up[ticket]

\* What is registered first, comments where nothing is.
GetUltimateMasterTicket(ticket) ==
    LET up[t \in Tickets] ==
            IF named[t] \notin {t, NoTicket} THEN up[named[t]]
            ELSE IF CommentParent(t) = NoTicket THEN t ELSE up[CommentParent(t)]
    IN  up[ticket]

\* Mutant of ResolveLifecycleTicketForOrder: an order without a parent in its
\* comment gets what the comment gives.
ResolveByComment(t) ==
    IF named[t] # NoTicket THEN named[t] ELSE parent[t]

\* Of an order that is selected.
ResolveLifecycleTicketForOrder(t) ==
    IF named[t] # NoTicket THEN named[t]
    ELSE IF parent[t] # NoTicket THEN GetUltimateMasterTicket(parent[t])
    ELSE t

-----------------------------------------------------------------------------
(* ProcessTradeEvents.                                                     *)

StartScan ==
    /\ pc = "idle"
    /\ pc' = "list"
    /\ todo' = Shown
    /\ active' = {}
    /\ blind' = blank
    /\ said' = {}
    /\ UNCHANGED <<brokerVars, reportedOpen, reportedClosed>>
    /\ UNCHANGED <<original, named, lastSnapshot, astray, draft>>

\* What the visit of an order says, and the originalTicket it stores.
Says(t, events, stored) ==
    /\ said' = events
    /\ original' = [original EXCEPT ![t] = stored]

ListNew(t) ==
    /\ t \notin reportedOpen /\ parent[t] = NoTicket
    /\ LET ticket == ResolveLifecycleTicketForOrder(t)
       IN  Says(t, {Event("placed", t, ticket)}, ticket)

\* The closed volume comes from the state of the parent or else from the history,
\* where it may not be positive: then nothing is said.
ListRest(t) ==
    /\ t \notin reportedOpen /\ parent[t] # NoTicket
    /\ LET ticket == GetUltimateMasterTicket(parent[t])
       IN  \/ /\ original[parent[t]] # NoTicket \/ parent[t] \in History
              /\ Says(t, {Event("modified", t, ticket)}, ticket)
           \/ /\ original[parent[t]] = NoTicket
              /\ Says(t, {}, ticket)

\* Whether its stops, its price or its volume changed since is a choice.
ListKnown(t) ==
    /\ t \in reportedOpen
    /\ \/ /\ original[t] # NoTicket
          /\ LET ticket == IF parent[t] # NoTicket
                           THEN GetUltimateMasterTicket(parent[t]) ELSE original[t]
             IN  Says(t, {Event("modified", t, ticket)}, ticket)
       \/ Says(t, {}, ResolveLifecycleTicketForOrder(t))

\* One round of the loop over the orders.
ListOrder(t) ==
    /\ pc = "list" /\ t \in todo \cap Shown /\ \A u \in todo \cap Shown : u <= t
    /\ todo' = todo \ {t}
    /\ active' = active \cup {t}
    /\ named' = [named EXCEPT ![t] = ResolveLifecycleTicketForOrder(t)]
    /\ ListNew(t) \/ ListRest(t) \/ ListKnown(t)
    /\ reportedOpen' = reportedOpen \cup {t}
    /\ UNCHANGED <<brokerVars, reportedClosed, lastSnapshot, pc, draft>>
    /\ UNCHANGED <<astray, blind>>

\* Orders that ended before their turn are not visited, nor those that came.
EndOfList ==
    /\ pc = "list" /\ todo \cap Shown = {}
    /\ pc' = "vanished"
    /\ todo' = {}
    /\ said' = {}
    /\ UNCHANGED <<brokerVars, reportedOpen, reportedClosed>>
    /\ UNCHANGED <<original, named, lastSnapshot, active, astray, blind, draft>>

\* Mutant of PartlyClosed: the history is not asked for "to #".
PartlyClosedListed(t) == \E k \in active : CommentParent(k) = t

\* The rest is in activeTickets, or the history says that there is one.  (StringFind
\* of "from #12" also finds "from #123", which is left out.)
PartlyClosed(t) ==
    \/ \E k \in active : CommentParent(k) = t
    \/ t \in History /\ book[t] = "parted"

\* The loop over g_orderStates: the end of a rest is not told; the end of an order
\* is, whether or not the history knows it.
ReportVanished ==
    /\ pc = "vanished"
    /\ LET vanished == {t \in Tickets \ active : original[t] # NoTicket}
           own == {t \in vanished : original[t] = t}
           listed == {t \in own : \E k \in active : CommentParent(k) = t}
           over == {t \in own \ reportedClosed : ~PartlyClosed(t)}
       IN  /\ said' = {Event("closed", t, t) : t \in over}
           /\ reportedClosed' = reportedClosed \cup (own \ listed)
           /\ original' = [t \in Tickets |-> IF t \in vanished THEN NoTicket
                                                              ELSE original[t]]
    /\ pc' = "gate"
    /\ active' = {}
    /\ UNCHANGED <<brokerVars, reportedOpen, named, lastSnapshot, todo, draft>>
    /\ UNCHANGED <<astray, blind>>

-----------------------------------------------------------------------------
(* The periodic snapshot and the account change.                           *)

\* Mutant of SnapshotReflectsRealData: only open orders count.
SnapshotReflectsShown == lastSnapshot \subseteq Shown

\* OrderSelect finds an order by ticket while it is open and when it is closed.
\* (IsTerminalConnected is part of SkipSnapshot's choice.)
SnapshotReflectsRealData == lastSnapshot \subseteq Shown \cup History

SkipSnapshot ==
    /\ pc = "gate"
    /\ pc' = "idle"
    /\ said' = {}
    /\ UNCHANGED <<brokerVars, reportedOpen, reportedClosed>>
    /\ UNCHANGED <<original, named, lastSnapshot, active, todo, astray, blind, draft>>

\* BuildSnapshotEventJson goes over the orders twice: market orders first.
Entries(states) == {<<t, ResolveLifecycleTicketForOrder(t)>> : t \in With(states)}

Registered(entries) ==
    [t \in Tickets |-> IF \E entry \in entries : entry[1] = t
                       THEN ResolveLifecycleTicketForOrder(t) ELSE named[t]]

BuildOpenPositions ==
    /\ pc = "gate" /\ SnapshotReflectsRealData
    /\ pc' = "orders"
    /\ draft' = Entries({"open"})
    /\ named' = Registered(draft')
    /\ said' = {}
    /\ UNCHANGED <<brokerVars, reportedOpen, reportedClosed>>
    /\ UNCHANGED <<original, lastSnapshot, active, todo, astray, blind>>

\* The pending orders, and PushLocalEvent.
BuildPendingOrders ==
    /\ pc = "orders"
    /\ pc' = "collect"
    /\ draft' = draft \cup Entries({"pending"})
    /\ named' = Registered(Entries({"pending"}))
    /\ said' = {}
    /\ UNCHANGED <<brokerVars, reportedOpen, reportedClosed>>
    /\ UNCHANGED <<original, lastSnapshot, active, todo, astray, blind>>

\* When the push has returned.
CollectOpenPositionTickets ==
    /\ pc = "collect"
    /\ pc' = "idle"
    /\ lastSnapshot' = With({"open"})
    /\ draft' = {}
    /\ said' = {}
    /\ UNCHANGED <<brokerVars, reportedOpen, reportedClosed>>
    /\ UNCHANGED <<original, named, active, todo, astray, blind>>

\* ReconcileInitialState: everything is forgotten, and orders are new again.
ReconcileInitialState ==
    /\ reportedOpen' = {} /\ reportedClosed' = {}
    /\ original' = [t \in Tickets |-> NoTicket]
    /\ named' = [t \in Tickets |-> NoTicket]
    /\ lastSnapshot' = {}

\* ReinitializeForAccountChange, or OnInit after a restart of the EA.
Reinitialize ==
    /\ pc = "idle"
    /\ ReconcileInitialState
    /\ astray' = {t \in Tickets : parent[t] # NoTicket /\ parent[parent[t]] # NoTicket}
    /\ said' = {}
    /\ UNCHANGED <<brokerVars, active, todo, pc, draft, blind>>

Broker ==
    \/ \E t \in Tickets : Place(t) \/ Fill(t) \/ Close(t)
    \/ \E t, rest \in Tickets : ClosePart(t, rest)
    \/ Connection

OnTimer ==
    \/ StartScan \/ (\E t \in Tickets : ListOrder(t)) \/ EndOfList
    \/ ReportVanished \/ SkipSnapshot
    \/ BuildOpenPositions \/ BuildPendingOrders \/ CollectOpenPositionTickets

Next == Broker \/ OnTimer \/ Reinitialize

Spec == Init /\ [][Next]_vars

(***************************************************************************)
(* The timer keeps firing, and every 5 s a snapshot is due: the gate is    *)
(* passed again and again, so its fairness is strong.                      *)
(***************************************************************************)
Fairness == WF_vars(OnTimer) /\ SF_vars(BuildOpenPositions)

FairSpec == Spec /\ Fairness

-----------------------------------------------------------------------------
(* Properties.                                                             *)

\* The first order of the chain that a ticket belongs to.
Root[t \in Tickets] == IF parent[t] = NoTicket THEN t ELSE Root[parent[t]]

\* However often an order is partly closed, and whatever is closed, forgotten or
\* not yet listed in between, the slaves hear of it by the ticket of the first
\* order, in events and in snapshots.  Only a chain of which the EA did not see an
\* order in time, for it was replaced between two scans or before a restart, goes
\* astray (GetUltimateMasterTicket, ResolveLifecycleTicketForOrder).
ToldAsOne ==
    /\ \A event \in said : event.of \in astray \/ event.ticket = Root[event.of]
    /\ \A entry \in draft : entry[1] \in astray \/ entry[2] = Root[entry[1]]

\* Nothing of the chain is left.
Over(ticket) ==
    /\ book[ticket] # "none"
    /\ \A t \in Tickets : Root[t] = ticket => book[t] \notin {"pending", "open"}

\* A close is told of a ticket only when nothing of its chain is left, also when a
\* part is closed during the scan, unless the scan met a blank terminal.
ClosedIsOver ==
    \A event \in said : event.kind = "closed" => blind \/ Over(event.ticket)

\* While the terminal lists its orders, snapshots go on and in the end contain
\* nothing of a chain that is over: the end of a rest is never told by an event,
\* so this is how the slaves learn it.
EndIsSeen ==
    <>[]~blank =>
        []<>(pc = "collect" /\ \A entry \in draft : ~Over(Root[entry[1]]))
=============================================================================
