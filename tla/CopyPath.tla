------------------------------ MODULE CopyPath ------------------------------
(***************************************************************************)
(* Market positions from the master terminal to the copies of its slaves:  *)
(* the master EA reports what happens at its broker over the EventChannel  *)
(* that SnapshotFanout implements, the slave EAs act on what arrives.      *)
(*                                                                         *)
(* A link is up while a line that is sent reaches the slave's command      *)
(* queue: the session is registered, both toggles are on, the role is      *)
(* master.  Which opens and closes OrderSend refuses or the in-flight      *)
(* guard suppresses is a choice here; pending orders, modifications and    *)
(* the way an EA recognises its copies are left to SlaveCopier.            *)
(***************************************************************************)
EXTENDS Naturals, Sequences

CONSTANTS
    Slaves,     \* slave terminals
    Readers,    \* threads that replay the stored snapshot
    Tickets,    \* master position tickets, never reused by the broker
    MaxPush,    \* push numbers saturate here (only the models need a bound)
    MaxChan     \* lines in flight to a slave before its session is dropped

ASSUME CopyPathAssumption == MaxPush \in Nat \ {0} /\ MaxChan \in Nat \ {0}

(***************************************************************************)
(* n numbers the pushes and is not on the wire; seq is the stamp of        *)
(* BuildSnapshotEventJson, 0 when the field is absent.  tickets is what    *)
(* the event is about (for a snapshot, the open positions), young those    *)
(* whose age_seconds was at most MARKET_ORDER_MAX_AGE_SEC when the line    *)
(* was built.                                                              *)
(***************************************************************************)
Message == [kind : {"placed", "closed", "snapshot", "replay"}, n : 0..MaxPush,
            seq : 0..MaxPush, tickets : SUBSET Tickets, young : SUBSET Tickets]

VARIABLES
    book,      \* the master's broker: "none", "young", "old" or "closed"
    reported,  \* g_reportedPositions of the master EA
    states,    \* tickets of g_orderStates: those looked for when they vanish
    deals,     \* g_reportedDeals: closes already reported
    emitted,   \* g_lastSnapshotOpenTickets
    push,      \* the EA thread after a snapshot was sent: at, what it sent
    up,        \* the link to the slave is up
    copy,      \* the slave's copies: 0, or the push that opened it
    lastSeq,   \* g_lastSnapSeq of the slave EA
    last, stored, held, chan   \* the channel

Channel == INSTANCE EventChannel WITH Lines <- Message

channelVars == <<last, stored, held, chan>>
masterVars == <<reported, states, deals, emitted, push>>
slaveVars == <<copy, lastSeq>>
vars == <<book, masterVars, up, slaveVars, channelVars>>

TypeOK ==
    /\ book \in [Tickets -> {"none", "young", "old", "closed"}]
    /\ reported \in SUBSET Tickets
    /\ states \in SUBSET Tickets
    /\ deals \in SUBSET Tickets
    /\ emitted \in SUBSET Tickets
    /\ push.at \in {"idle", "store", "collect"}
    /\ push.sent \in SUBSET Message
    /\ up \in [Slaves -> BOOLEAN]
    /\ copy \in [Slaves -> [Tickets -> 0..MaxPush]]
    /\ lastSeq \in [Slaves -> 0..MaxPush]
    /\ last \in 0..MaxPush
    /\ stored \in SUBSET Message
    /\ held \in [Readers -> SUBSET Message]
    /\ chan \in [Slaves -> Seq(Message)]

Idle == [at |-> "idle", sent |-> {}]

Init ==
    /\ book = [t \in Tickets |-> "none"]
    /\ reported = {}
    /\ states = {}
    /\ deals = {}
    /\ emitted = {}
    /\ push = Idle
    /\ up = [s \in Slaves |-> FALSE]
    /\ copy = [s \in Slaves |-> [t \in Tickets |-> 0]]
    /\ lastSeq = [s \in Slaves |-> 0]
    /\ Channel!ChannelInit

-----------------------------------------------------------------------------
(* The master's broker (not part of the repository).                       *)

IsOpen(t) == book[t] \in {"young", "old"}
OpenTickets == {t \in Tickets : IsOpen(t)}

\* Open, grow older than MARKET_ORDER_MAX_AGE_SEC, close.
BookMoves == {<<"none", "young">>, <<"young", "old">>, <<"young", "closed">>,
              <<"old", "closed">>}

Trade(t) ==
    /\ \E move \in BookMoves : /\ book[t] = move[1]
                               /\ book' = [book EXCEPT ![t] = move[2]]
    /\ UNCHANGED <<masterVars, up, slaveVars, channelVars>>

-----------------------------------------------------------------------------
(* The master EA: OnTimer and ProcessTradeEvents.                          *)

NextPush == IF last < MaxPush THEN last + 1 ELSE last

Event(kind, S) == [kind |-> kind, n |-> NextPush, seq |-> 0, tickets |-> S,
                   young |-> {t \in S : book[t] = "young"}]

\* BuildSnapshotEventJson stamps the event with the session's counter.
BuildSnapshotEvent == [Event("snapshot", OpenTickets) EXCEPT !.seq = NextPush]

\* simplify_event_json keeps the tickets and their ages, not session and seq.
Simplify(m) == [m EXCEPT !.seq = 0]

\* PushLocalEvent up to the broadcast; a slave that reads too slowly is dropped.
PushLocalEvent(m) ==
    LET ready == {s \in Slaves : up[s] /\ Len(chan[s]) < MaxChan}
    IN  /\ push.at = "idle"
        /\ Channel!Push(Simplify(m), ready)
        /\ up' = [s \in Slaves |-> s \in ready]
        /\ UNCHANGED <<book, emitted, slaveVars>>

\* ProcessTradeEvents: a position that is not in g_reportedPositions.
PushPlaced(t) ==
    /\ IsOpen(t) /\ t \notin reported
    /\ reported' = reported \cup {t}
    /\ states' = states \cup {t}
    /\ PushLocalEvent(Event("placed", {t}))
    /\ UNCHANGED <<deals, push>>

\* Mutant of ReportVanished: the deal's number is marked, not the position's.
ReportVanishedByDeal(t) ==
    /\ book[t] = "closed" /\ t \in states
    /\ push.at = "idle"
    /\ states' = states \ {t}
    /\ \/ /\ deals' = deals \cup {<<"deal", t>>}
          /\ PushLocalEvent(Event("closed", {t}))
       \/ UNCHANGED <<book, deals, emitted, up, slaveVars, channelVars>>
    /\ UNCHANGED <<reported, push>>

\* ProcessTradeEvents: a position with a state that is gone.  Only this scan looks
\* for its closing deal: if the history does not show it, nothing is pushed, and
\* RemoveOrderState drops the ticket all the same.
ReportVanished(t) ==
    /\ book[t] = "closed" /\ t \in states
    /\ push.at = "idle"
    /\ states' = states \ {t}
    /\ \/ /\ deals' = deals \cup {t}
          /\ PushLocalEvent(Event("closed", {t}))
       \/ UNCHANGED <<book, deals, emitted, up, slaveVars, channelVars>>
    /\ UNCHANGED <<reported, push>>

\* Every position of the last snapshot is still open or was reported closed.
SnapshotReflectsRealData == \A t \in emitted : IsOpen(t) \/ t \in deals

\* OnTimer, every 5 s.  With the toggle off or another role nothing is stored.
PushSnapshot ==
    /\ SnapshotReflectsRealData
    /\ PushLocalEvent(BuildSnapshotEvent)
    /\ \/ push' = [at |-> "store", sent |-> {Simplify(BuildSnapshotEvent)}]
       \/ /\ \A s \in Slaves : ~up[s]
          /\ push' = [at |-> "collect", sent |-> {}]
    /\ UNCHANGED <<reported, states, deals>>

StoreSnapshot ==
    /\ push.at = "store"
    /\ \E m \in push.sent : Channel!Store(m)
    /\ push' = [at |-> "collect", sent |-> {}]
    /\ UNCHANGED <<book, reported, states, deals, emitted, up, slaveVars>>

\* OnTimer after the push: CollectOpenPositionTickets reads the broker again.
Collect ==
    /\ push.at = "collect"
    /\ push' = Idle
    /\ emitted' = OpenTickets
    /\ UNCHANGED <<book, reported, states, deals, up, slaveVars, channelVars>>

-----------------------------------------------------------------------------
(* The master DLL's other threads, and the links.                          *)

ReadStored(c) ==
    /\ held[c] = {}
    /\ Channel!Read(c)
    /\ UNCHANGED <<book, masterVars, up, slaveVars>>

ReplayStored(c) ==
    LET ready == {s \in Slaves : up[s] /\ Len(chan[s]) < MaxChan}
    IN  /\ Channel!Replay(c, ready)
        /\ up' = [s \in Slaves |-> s \in ready]
        /\ UNCHANGED <<book, masterVars, slaveVars>>

LinkUp(s) ==
    /\ ~up[s]
    /\ up' = [up EXCEPT ![s] = TRUE]
    /\ UNCHANGED <<book, masterVars, slaveVars, channelVars>>

\* The connection or a toggle goes down; what is past it still arrives.
LinkDown(s) ==
    /\ up[s]
    /\ up' = [up EXCEPT ![s] = FALSE]
    /\ \E k \in 0..Len(chan[s]) : Channel!Lose(s, k)
    /\ UNCHANGED <<book, masterVars, slaveVars>>

-----------------------------------------------------------------------------
(* The slave EA: ProcessIncomingCommands.                                  *)

IsSnapshot(m) == m.kind \in {"snapshot", "replay"}

\* HandleReconcileSnapshot ignores a stamped snapshot that is not newer.
OrderGate(s, m) == m.seq = 0 \/ m.seq > lastSeq[s]

\* Mutant of Applied: no close on absence.
AppliedKeepingAbsent(s, m, R) ==
    [t \in Tickets |->
        IF t \in R \/ t \notin m.tickets THEN copy[s][t]
        ELSE IF m.kind = "closed" THEN 0
        ELSE IF copy[s][t] = 0 /\ t \in m.young THEN m.n ELSE copy[s][t]]

\* HandleCreate unless there is a copy, HandleCancel, HandleReconcileSnapshot; of
\* the tickets in R the broker or the in-flight guard refuses what is asked.
Applied(s, m, R) ==
    [t \in Tickets |->
        IF t \in R THEN copy[s][t]
        ELSE IF t \in m.tickets
        THEN IF m.kind = "closed" THEN 0
             ELSE IF copy[s][t] = 0 /\ t \in m.young THEN m.n ELSE copy[s][t]
        ELSE IF IsSnapshot(m) THEN 0 ELSE copy[s][t]]

HandleCommand(s, R) ==
    /\ Channel!Take(s)
    /\ LET m == Head(chan[s])
       IN  IF IsSnapshot(m) /\ ~OrderGate(s, m)
           THEN UNCHANGED slaveVars
           ELSE /\ copy' = [copy EXCEPT ![s] = Applied(s, m, R)]
                /\ lastSeq' = IF m.seq > 0 THEN [lastSeq EXCEPT ![s] = m.seq]
                                           ELSE lastSeq
    /\ UNCHANGED <<book, masterVars, up>>

Execute(s) == \E R \in SUBSET Tickets : HandleCommand(s, R)

-----------------------------------------------------------------------------
MasterEA ==
    \/ \E t \in Tickets : PushPlaced(t) \/ ReportVanished(t)
    \/ PushSnapshot
    \/ StoreSnapshot
    \/ Collect

Next ==
    \/ \E t \in Tickets : Trade(t)
    \/ MasterEA
    \/ \E c \in Readers : ReadStored(c) \/ ReplayStored(c)
    \/ \E s \in Slaves : LinkUp(s) \/ LinkDown(s) \/ Execute(s)

Spec == Init /\ [][Next]_vars

(***************************************************************************)
(* OnTimer comes back every 250 ms, finds the EA thread free again and     *)
(* again, and scans for opened and vanished positions and, each 5 s, sends *)
(* a snapshot if the gate is open: strong fairness, because the thread is  *)
(* busy in between.  A scan need not find the deal of what vanished.  A    *)
(* thread that read the snapshot sends it; the slave's timer empties its   *)
(* queue, and no ticket is refused for ever.  Nobody has to trade, connect *)
(* or toggle.                                                              *)
(***************************************************************************)
Fairness ==
    /\ WF_vars(StoreSnapshot) /\ WF_vars(Collect)
    /\ SF_vars(PushSnapshot)
    /\ \A t \in Tickets : SF_vars(PushPlaced(t)) /\ SF_vars(ReportVanished(t))
    /\ \A c \in Readers : WF_vars(ReplayStored(c))
    /\ \A s \in Slaves, t \in Tickets :
          SF_vars(\E R \in SUBSET (Tickets \ {t}) : HandleCommand(s, R))

FairSpec == Spec /\ Fairness

-----------------------------------------------------------------------------
(* Properties.                                                             *)

\* A position of the last snapshot is gone and nobody looks for its deal any more:
\* the gate waits for a proof that cannot come (SnapshotsGoOn in MasterEvents).
Wedged == \E t \in emitted : book[t] = "closed" /\ t \notin states \cup deals

\* However many lines were lost before and whether or not the history showed the
\* deals, once the link stays up and the gate is not wedged the slave ends up
\* without a copy of any closed position: the periodic snapshot repairs what lost
\* or missing closed events and stale replays left behind (OnTimer, close on
\* absence).
EventuallyNoPhantoms ==
    \A s \in Slaves :
        <>[](up[s] /\ ~Wedged)
            => <>[](\A t \in Tickets : book[t] = "closed" => copy[s][t] = 0)

\* IPTRADE.mq5 56-59 says "stale/out-of-order/replayed snapshots can never drive
\* a close": a snapshot that closes a copy is not older than what opened it.
StaleSnapshotNeverCloses ==
    [][\A s \in Slaves :
         chan[s] # <<>> /\ chan'[s] = Tail(chan[s]) /\ IsSnapshot(Head(chan[s])) =>
            \A t \in Tickets :
               copy[s][t] # 0 /\ copy'[s][t] = 0 => Head(chan[s]).n >= copy[s][t]]_vars
=============================================================================
