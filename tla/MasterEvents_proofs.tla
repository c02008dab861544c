------------------------ MODULE MasterEvents_proofs ------------------------
(***************************************************************************)
(* Proofs about MasterEvents, for any tickets, with and without late deals.*)
(***************************************************************************)
EXTENDS MasterEvents, TLAPS

-----------------------------------------------------------------------------
(* Types.                                                                  *)

\* What is told of a ticket is nothing or an event.
LEMMA SayType ==
    ASSUME NEW events, Say(events), TypeOK
    PROVE  told' \in [Tickets -> {"nothing", "placed", "closed"}]
BY DEF Say, TypeOK

\* The terminal starts with what it finds.
LEMMA TInit == Init => TypeOK
BY DEF Init, TypeOK, Positions, Orders

\* Every move of the broker.
LEMMA BrokerType ==
    ASSUME TypeOK, Broker
    PROVE  TypeOK'
<1> USE DEF eaVars
<1>1. ASSUME NEW t \in Tickets, Trade(t) PROVE TypeOK'
  <2>1. book' \in [Tickets -> {"none", "pending", "open", "closed", "cancelled",
                               "expired"}]
    BY <1>1 DEF Trade, BookMoves, TypeOK
  <2>2. hidden' \in SUBSET Tickets
    BY <1>1 DEF Trade, MayHide, TypeOK
  <2> QED BY <1>1, <2>1, <2>2 DEF Trade, TypeOK
<1>2. ASSUME NEW t \in Tickets, Touch(t) PROVE TypeOK'
  BY <1>2 DEF Touch, TypeOK
<1> QED BY <1>1, <1>2 DEF Broker

\* Every phase of OnTimer.
LEMMA OnTimerType ==
    ASSUME TypeOK, OnTimer
    PROVE  TypeOK'
<1> USE DEF brokerVars
<1>0. Positions \subseteq Tickets /\ Orders \subseteq Tickets
  BY DEF Positions, Orders
<1>1. CASE ScanPositions
  <2>1. told' \in [Tickets -> {"nothing", "placed", "closed"}]
    BY <1>1, SayType DEF ScanPositions
  <2> QED BY <1>0, <1>1, <2>1 DEF ScanPositions, TypeOK
<1>2. CASE ScanOrders
  <2>1. told' \in [Tickets -> {"nothing", "placed", "closed"}]
    BY <1>2, SayType DEF ScanOrders
  <2> QED BY <1>0, <1>2, <2>1 DEF ScanOrders, TypeOK
<1>3. CASE ReportVanished
  <2>1. told' \in [Tickets -> {"nothing", "placed", "closed"}]
    BY <1>3, SayType DEF ReportVanished
  <2>2. VanishedTickets \subseteq Tickets
    BY DEF VanishedTickets, TypeOK
  <2> QED BY <1>3, <2>1, <2>2 DEF ReportVanished, TypeOK
<1>4. CASE SkipSnapshot
  BY <1>4 DEF SkipSnapshot, TypeOK
<1>5. CASE EmitSnapshot
  BY <1>0, <1>5 DEF EmitSnapshot, TypeOK
<1>6. CASE CollectOpenPositionTickets
  BY <1>0, <1>6 DEF CollectOpenPositionTickets, TypeOK
<1>7. CASE Reinitialize
  BY <1>0, <1>7 DEF Reinitialize, ReconcileInitialState, TypeOK
<1> QED BY <1>1, <1>2, <1>3, <1>4, <1>5, <1>6, <1>7 DEF OnTimer

\* Every step of the broker, the connection and OnTimer.
LEMMA TNext == TypeOK /\ [Next]_vars => TypeOK'
<1> SUFFICES ASSUME TypeOK, [Next]_vars PROVE TypeOK'
  OBVIOUS
<1>1. CASE UNCHANGED vars
  BY <1>1 DEF vars, brokerVars, eaVars, historyVars, TypeOK
<1>2. ASSUME NEW t \in Tickets, HistoryShows(t) PROVE TypeOK'
  BY <1>2 DEF HistoryShows, eaVars, TypeOK
<1>3. CASE Connection
  BY <1>3 DEF Connection, eaVars, TypeOK
<1> QED BY <1>1, <1>2, <1>3, BrokerType, OnTimerType DEF Next

\* Trades, phases and restarts keep every variable in its type.
THEOREM MasterTypes == Spec => []TypeOK
BY TInit, TNext, PTL DEF Spec

-----------------------------------------------------------------------------
(* The life of a ticket.                                                   *)

\* What is there and was told is reported, in the list of its kind; a filled
\* order is in the list of the orders.
ToldIsReported ==
    \A t \in Tickets : told[t] # "nothing" =>
        /\ book[t] # "none"
        /\ book[t] = "pending" => t \in reportedOrders
        /\ book[t] = "open" => t \in reportedOrders \cup reportedPositions

\* What was told to be closed is gone, and nobody compares it any more.
ClosedIsOver ==
    \A t \in Tickets : told[t] = "closed" => Gone(t) /\ t \notin orderStates

LInv == TypeOK /\ ToldIsReported /\ ClosedIsOver

\* Nothing has been told.
LEMMA LInit == Init => LInv
BY TInit DEF Init, LInv, ToldIsReported, ClosedIsOver

\* The broker moves a ticket.
LEMMA BrokerStep ==
    ASSUME LInv, TypeOK', Broker
    PROVE  LInv'
<1> USE DEF eaVars
<1>1. ASSUME NEW t \in Tickets, Trade(t) PROVE LInv'
  <2>1. PICK move \in BookMoves : /\ book[t] = move[1]
                                  /\ book' = [book EXCEPT ![t] = move[2]]
    BY <1>1 DEF Trade
  <2>2. /\ book'[t] = move[2] /\ \A u \in Tickets \ {t} : book'[u] = book[u]
        /\ UNCHANGED <<told, orderStates, reportedOrders, reportedPositions>>
    BY <1>1, <2>1 DEF Trade, LInv, TypeOK
  <2>3. \/ book[t] = "none" /\ book'[t] \in {"pending", "open"}
        \/ book[t] = "pending" /\ book'[t] \in {"open", "cancelled", "expired"}
        \/ book[t] = "open" /\ book'[t] = "closed"
    BY <2>1, <2>2 DEF BookMoves
  <2>4. ToldIsReported'
    BY <2>2, <2>3 DEF LInv, ToldIsReported
  <2>5. ClosedIsOver'
    BY <2>2, <2>3 DEF LInv, ClosedIsOver, Gone
  <2> QED BY <1>1, <2>4, <2>5 DEF LInv, Trade
<1>2. ASSUME NEW t \in Tickets, Touch(t) PROVE LInv'
  BY <1>2 DEF Touch, LInv, ToldIsReported, ClosedIsOver, Gone
<1> QED BY <1>1, <1>2 DEF Broker

\* A step that says nothing and compares with what is reported as before.
LEMMA QuietStep ==
    ASSUME LInv, TypeOK',
           UNCHANGED <<book, told, reportedPositions, reportedOrders, orderStates>>
    PROVE  LInv'
BY DEF LInv, ToldIsReported, ClosedIsOver, Gone

\* The loop over the positions says what may be said.
LEMMA PositionsStep ==
    ASSUME LInv, TypeOK', ScanPositions
    PROVE  LInv' /\ LivesOn(PositionEvents)
<1>0. ToldIsReported /\ ClosedIsOver
  BY DEF LInv
<1> DEFINE placed == {t \in NewPositions : ~PendingOpened(t)}
           modified == ModifiedTickets(Positions \cap reportedPositions)
<1>1. /\ Say(PositionEvents) /\ UNCHANGED <<book, reportedOrders>>
      /\ reportedPositions' = reportedPositions \cup Positions
      /\ orderStates' = orderStates \cup Positions
  BY DEF ScanPositions
<1>2. \A t \in Positions : t \in Tickets /\ book[t] = "open" /\ told[t] # "closed"
  BY <1>0 DEF Positions, ClosedIsOver, Gone
<1>3. \A t \in placed : t \in Positions /\ (told[t] = "nothing" \/ Unexplained(t))
  BY <1>0 DEF NewPositions, PendingOpened, ToldIsReported, Positions, Unexplained
<1>4. \A t \in modified : t \in Positions
  BY DEF ModifiedTickets
<1>5. \A t \in Tickets : /\ <<"placed", t>> \in PositionEvents <=> t \in placed
                         /\ <<"modified", t>> \in PositionEvents <=> t \in modified
                         /\ <<"closed", t>> \notin PositionEvents
  BY DEF PositionEvents
<1> HIDE DEF placed, modified
<1>6. \A t \in Tickets : told'[t] = IF t \in placed \cup modified THEN "placed"
                                                                  ELSE told[t]
  BY <1>1, <1>5 DEF Say
<1>7. told \in [Tickets -> {"nothing", "placed", "closed"}]
  BY DEF LInv, TypeOK
<1>8. LivesOn(PositionEvents)
  BY <1>2, <1>3, <1>4, <1>5, <1>7 DEF LivesOn
<1>9. ToldIsReported'
  BY <1>0, <1>1, <1>2, <1>3, <1>4, <1>6 DEF ToldIsReported, Positions
<1>10. ClosedIsOver'
  BY <1>0, <1>1, <1>2, <1>6 DEF ClosedIsOver, Gone
<1> QED BY <1>8, <1>9, <1>10 DEF LInv

\* The loop over the orders says what may be said.
LEMMA OrdersStep ==
    ASSUME LInv, TypeOK', ScanOrders
    PROVE  LInv' /\ LivesOn(OrderEvents)
<1>0. ToldIsReported /\ ClosedIsOver
  BY DEF LInv
<1> DEFINE modified == ModifiedTickets(Orders \cap reportedOrders)
<1>1. /\ Say(OrderEvents) /\ UNCHANGED <<book, reportedPositions>>
      /\ reportedOrders' = reportedOrders \cup Orders
      /\ orderStates' = orderStates \cup Orders
  BY DEF ScanOrders
<1>2. \A t \in NewOrders : t \in Orders /\ told[t] = "nothing"
  BY <1>0 DEF NewOrders, ToldIsReported, Orders
<1>3. \A t \in modified : t \in Orders
  BY DEF ModifiedTickets
<1>4. \A t \in Orders : t \in Tickets /\ book[t] = "pending" /\ told[t] # "closed"
  BY <1>0 DEF Orders, ClosedIsOver, Gone
<1>5. \A t \in Tickets : /\ <<"placed", t>> \in OrderEvents <=> t \in NewOrders
                         /\ <<"modified", t>> \in OrderEvents <=> t \in modified
                         /\ <<"closed", t>> \notin OrderEvents
  BY DEF OrderEvents
<1> HIDE DEF modified
<1>6. \A t \in Tickets : told'[t] = IF t \in NewOrders \cup modified THEN "placed"
                                                                     ELSE told[t]
  BY <1>1, <1>5 DEF Say
<1>7. LivesOn(OrderEvents)
  BY <1>2, <1>3, <1>4, <1>5 DEF LivesOn
<1>8. ToldIsReported'
  BY <1>0, <1>1, <1>2, <1>3, <1>4, <1>6 DEF ToldIsReported, Orders
<1>9. ClosedIsOver'
  BY <1>0, <1>1, <1>2, <1>3, <1>4, <1>6 DEF ClosedIsOver, Gone
<1> QED BY <1>7, <1>8, <1>9 DEF LInv

\* The loop over the vanished ones says what may be said.
LEMMA VanishedStep ==
    ASSUME LInv, TypeOK', ReportVanished
    PROVE  LInv' /\ LivesOn({"closed"} \X VanishedTickets)
<1>0. ToldIsReported /\ ClosedIsOver
  BY DEF LInv
<1> DEFINE events == {"closed"} \X VanishedTickets
<1>1. /\ Say(events) /\ orderStates' = orderStates \cap active
      /\ UNCHANGED <<book, reportedPositions, reportedOrders>>
  BY DEF ReportVanished, brokerVars
<1>2. \A t \in VanishedTickets : t \in orderStates /\ t \notin active /\ Gone(t)
  BY DEF VanishedTickets, ProvedGone, Gone
<1>3. \A t \in Tickets : /\ <<"placed", t>> \notin events
                         /\ <<"modified", t>> \notin events
                         /\ <<"closed", t>> \in events <=> t \in VanishedTickets
  OBVIOUS
<1> HIDE DEF events
<1>4. \A t \in Tickets : told'[t] = IF t \in VanishedTickets THEN "closed" ELSE told[t]
  BY <1>1, <1>3 DEF Say
<1>5. LivesOn(events)
  BY <1>0, <1>2, <1>3 DEF LivesOn, ClosedIsOver
<1>6. ToldIsReported'
  BY <1>0, <1>1, <1>2, <1>4 DEF ToldIsReported, Gone
<1>7. ClosedIsOver'
  BY <1>0, <1>1, <1>2, <1>4 DEF ClosedIsOver, Gone
<1> QED BY <1>5, <1>6, <1>7 DEF LInv, events

\* Every step says what may be said.
LEMMA LNext == LInv /\ [Next]_vars => LInv' /\ [SaysOnlyWhatLives]_vars
<1> SUFFICES ASSUME LInv, [Next]_vars PROVE LInv' /\ SaysOnlyWhatLives
  OBVIOUS
<1>1. TypeOK'
  BY TNext DEF LInv
<1>2. SaysOnlyWhatLives
  BY <1>1, PositionsStep, OrdersStep, VanishedStep DEF SaysOnlyWhatLives
<1>3. CASE UNCHANGED vars
  BY <1>1, <1>2, <1>3, QuietStep DEF vars, brokerVars, eaVars, historyVars
<1>4. CASE Broker
  BY <1>1, <1>2, <1>4, BrokerStep
<1>5. ASSUME NEW t \in Tickets, HistoryShows(t) PROVE LInv'
  BY <1>1, <1>5, QuietStep DEF HistoryShows, eaVars
<1>6. CASE Connection
  BY <1>1, <1>2, <1>6, QuietStep DEF Connection, eaVars
<1>7. CASE OnTimer
  <2>1. CASE SkipSnapshot \/ EmitSnapshot \/ CollectOpenPositionTickets
    BY <1>1, <1>2, <2>1, QuietStep
    DEF SkipSnapshot, EmitSnapshot, CollectOpenPositionTickets, brokerVars
  <2>2. CASE Reinitialize
    <3>1. /\ UNCHANGED <<book, told>>
          /\ reportedPositions' = Positions /\ reportedOrders' = Orders
          /\ orderStates' = Positions \cup Orders
      BY <2>2 DEF Reinitialize, ReconcileInitialState
    <3>2. ToldIsReported'
      BY <3>1 DEF LInv, ToldIsReported, Positions, Orders
    <3>3. ClosedIsOver'
      BY <3>1 DEF LInv, ClosedIsOver, Gone, Positions, Orders
    <3> QED BY <1>1, <1>2, <3>2, <3>3 DEF LInv
  <2> QED BY <1>1, <1>2, <1>7, <2>1, <2>2, PositionsStep, OrdersStep, VanishedStep DEF OnTimer
<1> QED BY <1>2, <1>3, <1>4, <1>5, <1>6, <1>7 DEF Next

\* No ticket is closed twice, or placed or modified after its close, and none is
\* placed twice but a filled order that the history does not trace yet.
THEOREM MasterOneLife == Spec => OneLifePerTicket
BY LInit, LNext, PTL DEF Spec, OneLifePerTicket
=============================================================================
