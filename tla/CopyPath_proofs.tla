-------------------------- MODULE CopyPath_proofs --------------------------
(***************************************************************************)
(* CopyPath keeps its types for any slaves, readers, tickets and bounds.   *)
(***************************************************************************)
EXTENDS CopyPath, TLAPS

-----------------------------------------------------------------------------
(* The channel.                                                            *)

\* Casting a message keeps every line a sequence of messages.
LEMMA CastType ==
    ASSUME chan \in [Slaves -> Seq(Message)], NEW m \in Message,
           NEW S \in SUBSET Slaves, Channel!Cast(m, S)
    PROVE  chan' \in [Slaves -> Seq(Message)]
BY DEF Channel!Cast

\* The push numbers saturate within their bound.
LEMMA NextPushType == TypeOK => NextPush \in 0..MaxPush
BY CopyPathAssumption DEF NextPush, TypeOK

\* What the EA sends and the DLL makes of it are messages.
LEMMA MessageTypes ==
    ASSUME TypeOK, NEW S \in SUBSET Tickets, NEW kind \in {"placed", "closed", "snapshot"}
    PROVE  Event(kind, S) \in Message
<1>1. NextPush \in 0..MaxPush /\ 0 \in 0..MaxPush
  BY NextPushType, CopyPathAssumption
<1>2. {t \in S : book[t] = "young"} \in SUBSET Tickets
  OBVIOUS
<1> QED BY <1>1, <1>2 DEF Event, Message

LEMMA SimplifyType == ASSUME NEW m \in Message PROVE Simplify(m) \in Message
BY CopyPathAssumption DEF Simplify, Message

LEMMA ReplayType ==
    ASSUME NEW m \in Message PROVE Channel!ReplayOf(m) \in Message
BY DEF Channel!ReplayOf, Message

LEMMA SnapshotType == TypeOK => BuildSnapshotEvent \in Message
<1> SUFFICES ASSUME TypeOK PROVE BuildSnapshotEvent \in Message
  OBVIOUS
<1>1. OpenTickets \in SUBSET Tickets
  BY DEF OpenTickets
<1>2. Event("snapshot", OpenTickets) \in Message
  BY <1>1, MessageTypes
<1> QED BY <1>2, NextPushType DEF BuildSnapshotEvent, Message

\* A push changes the channel and the links.
LEMMA PushType ==
    ASSUME TypeOK, NEW m \in Message, PushLocalEvent(m)
    PROVE  /\ up' \in [Slaves -> BOOLEAN]
           /\ last' \in 0..MaxPush /\ stored' = stored /\ held' = held
           /\ chan' \in [Slaves -> Seq(Message)]
<1> DEFINE ready == {s \in Slaves : up[s] /\ Len(chan[s]) < MaxChan}
<1>1. Channel!Push(Simplify(m), ready) /\ up' = [s \in Slaves |-> s \in ready]
  BY DEF PushLocalEvent
<1>2. Simplify(m) \in Message
  BY SimplifyType
<1>3. chan' \in [Slaves -> Seq(Message)]
  BY <1>1, <1>2, CastType DEF Channel!Push, TypeOK
<1>4. last' \in 0..MaxPush /\ stored' = stored /\ held' = held
  BY <1>1, <1>2 DEF Channel!Push, Message
<1> QED BY <1>1, <1>3, <1>4

-----------------------------------------------------------------------------
(* The steps.                                                              *)

LEMMA TInit == Init => TypeOK
BY CopyPathAssumption DEF Init, TypeOK, Idle, Channel!ChannelInit

\* The EA tells of one position.
LEMMA TellType ==
    ASSUME TypeOK, NEW t \in Tickets, PushPlaced(t) \/ ReportVanished(t)
    PROVE  TypeOK'
<1>1. CASE PushPlaced(t)
  <2>1. Event("placed", {t}) \in Message
    BY MessageTypes
  <2>2. PushLocalEvent(Event("placed", {t}))
    BY <1>1 DEF PushPlaced
  <2> QED BY <1>1, <2>1, <2>2, PushType DEF PushPlaced, PushLocalEvent, TypeOK,
          slaveVars
<1>2. CASE ReportVanished(t)
  <2>1. states' \in SUBSET Tickets /\ UNCHANGED <<book, reported, push, emitted, slaveVars>>
    BY <1>2 DEF ReportVanished, PushLocalEvent, TypeOK
  <2>2. CASE deals' = deals \cup {t} /\ PushLocalEvent(Event("closed", {t}))
    <3>1. Event("closed", {t}) \in Message
      BY MessageTypes
    <3> QED BY <2>1, <2>2, <3>1, PushType DEF TypeOK, slaveVars
  <2>3. CASE UNCHANGED <<book, deals, emitted, up, slaveVars, channelVars>>
    BY <2>1, <2>3 DEF TypeOK, slaveVars, channelVars
  <2> QED BY <1>2, <2>2, <2>3 DEF ReportVanished
<1> QED BY <1>1, <1>2

LEMMA PushSnapshotType == TypeOK /\ PushSnapshot => TypeOK'
<1> SUFFICES ASSUME TypeOK, PushSnapshot PROVE TypeOK'
  OBVIOUS
<1>1. BuildSnapshotEvent \in Message /\ Simplify(BuildSnapshotEvent) \in Message
  BY SnapshotType, SimplifyType
<1>2. PushLocalEvent(BuildSnapshotEvent)
  BY DEF PushSnapshot
<1>3. push'.at \in {"idle", "store", "collect"} /\ push'.sent \in SUBSET Message
  BY <1>1 DEF PushSnapshot
<1> QED BY <1>1, <1>2, <1>3, PushType DEF PushSnapshot, PushLocalEvent, TypeOK, slaveVars

LEMMA StoreType == TypeOK /\ StoreSnapshot => TypeOK'
<1> SUFFICES ASSUME TypeOK, StoreSnapshot PROVE TypeOK'
  OBVIOUS
<1>1. PICK m \in push.sent : Channel!Store(m)
  BY DEF StoreSnapshot
<1>2. Channel!ReplayOf(m) \in Message
  BY <1>1, ReplayType DEF TypeOK
<1>3. stored' \in SUBSET Message /\ last' = last /\ held' = held /\ chan' = chan
  BY <1>1, <1>2 DEF Channel!Store
<1> QED BY <1>3 DEF StoreSnapshot, TypeOK, slaveVars

LEMMA CollectType == TypeOK /\ Collect => TypeOK'
BY DEF Collect, TypeOK, Idle, OpenTickets, slaveVars, channelVars

LEMMA ReaderType ==
    ASSUME TypeOK, NEW c \in Readers, ReadStored(c) \/ ReplayStored(c)
    PROVE  TypeOK'
<1>1. CASE ReadStored(c)
  BY <1>1 DEF ReadStored, Channel!Read, TypeOK, masterVars, slaveVars
<1>2. CASE ReplayStored(c)
  <2> DEFINE ready == {s \in Slaves : up[s] /\ Len(chan[s]) < MaxChan}
  <2>1. Channel!Replay(c, ready) /\ up' = [s \in Slaves |-> s \in ready]
    BY <1>2 DEF ReplayStored
  <2>2. PICK m \in held[c] : Channel!Cast(m, ready)
    BY <2>1 DEF Channel!Replay
  <2>3. chan' \in [Slaves -> Seq(Message)]
    BY <2>2, CastType DEF TypeOK
  <2>4. held' \in [Readers -> SUBSET Message] /\ last' = last /\ stored' = stored
    BY <2>1 DEF Channel!Replay, TypeOK
  <2> QED BY <1>2, <2>1, <2>3, <2>4 DEF ReplayStored, TypeOK, masterVars, slaveVars
<1> QED BY <1>1, <1>2

LEMMA LinkType ==
    ASSUME TypeOK, NEW s \in Slaves, LinkUp(s) \/ LinkDown(s)
    PROVE  TypeOK'
<1>1. CASE LinkUp(s)
  BY <1>1 DEF LinkUp, TypeOK, masterVars, slaveVars, channelVars
<1>2. CASE LinkDown(s)
  <2>1. PICK k \in 0..Len(chan[s]) : Channel!Lose(s, k)
    BY <1>2 DEF LinkDown
  <2>2. SubSeq(chan[s], 1, k) \in Seq(Message)
    BY <2>1 DEF TypeOK
  <2>3. chan' \in [Slaves -> Seq(Message)]
    BY <2>1, <2>2 DEF Channel!Lose, TypeOK
  <2> QED BY <1>2, <2>1, <2>3 DEF LinkDown, Channel!Lose, TypeOK, masterVars, slaveVars
<1> QED BY <1>1, <1>2

\* A slave takes a line and acts on it.
LEMMA ExecuteType ==
    ASSUME TypeOK, NEW s \in Slaves, Execute(s)
    PROVE  TypeOK'
<1> DEFINE m == Head(chan[s])
<1>0. PICK R \in SUBSET Tickets : HandleCommand(s, R)
  BY DEF Execute
<1>1. chan[s] # <<>> /\ chan[s] \in Seq(Message)
  BY <1>0 DEF HandleCommand, Channel!Take, TypeOK
<1>2. m \in Message /\ Tail(chan[s]) \in Seq(Message)
  BY <1>1
<1>3. chan' \in [Slaves -> Seq(Message)] /\ UNCHANGED <<last, stored, held>>
  BY <1>0, <1>2 DEF HandleCommand, Channel!Take, TypeOK
<1>4. Applied(s, m, R) \in [Tickets -> 0..MaxPush]
  <2>1. copy[s] \in [Tickets -> 0..MaxPush] /\ m.n \in 0..MaxPush /\ 0 \in 0..MaxPush
    BY <1>2, CopyPathAssumption DEF TypeOK, Message
  <2> QED BY <2>1 DEF Applied
<1>5. copy' \in [Slaves -> [Tickets -> 0..MaxPush]]
  BY <1>0, <1>4 DEF HandleCommand, TypeOK, slaveVars
<1>6. lastSeq' \in [Slaves -> 0..MaxPush]
  <2>1. m.seq \in 0..MaxPush
    BY <1>2 DEF Message
  <2> QED BY <1>0, <2>1 DEF HandleCommand, TypeOK, slaveVars
<1> QED BY <1>0, <1>3, <1>5, <1>6 DEF HandleCommand, TypeOK, masterVars

\* The broker moves a position.
LEMMA TradeType == ASSUME TypeOK, NEW t \in Tickets, Trade(t) PROVE TypeOK'
BY DEF Trade, BookMoves, TypeOK, masterVars, slaveVars, channelVars

\* Every variable of master, channel and slaves keeps its type (CopyPath's
\* actions, OnTimer to ProcessIncomingCommands), whatever the bounds.
THEOREM CopyPathTypes == Spec => []TypeOK
<1>1. TypeOK /\ [Next]_vars => TypeOK'
  <2> SUFFICES ASSUME TypeOK, [Next]_vars PROVE TypeOK'
    OBVIOUS
  <2>1. CASE \E t \in Tickets : Trade(t)
    BY <2>1, TradeType
  <2>2. CASE MasterEA
    BY <2>2, TellType, PushSnapshotType, StoreType, CollectType DEF MasterEA
  <2>3. CASE \E c \in Readers : ReadStored(c) \/ ReplayStored(c)
    BY <2>3, ReaderType
  <2>4. CASE \E s \in Slaves : LinkUp(s) \/ LinkDown(s) \/ Execute(s)
    BY <2>4, LinkType, ExecuteType
  <2>5. CASE UNCHANGED vars
    BY <2>5 DEF vars, masterVars, slaveVars, channelVars, TypeOK
  <2> QED BY <2>1, <2>2, <2>3, <2>4, <2>5 DEF Next
<1> QED BY TInit, <1>1, PTL DEF Spec

-----------------------------------------------------------------------------
(* The channel's promise.                                                  *)

\* A push of the EA is one of the channel.
LEMMA PushIsChannel ==
    ASSUME TypeOK, NEW m \in Message, PushLocalEvent(m)
    PROVE  Channel!ChannelNext
<1> DEFINE ready == {s \in Slaves : up[s] /\ Len(chan[s]) < MaxChan}
<1>1. Channel!Push(Simplify(m), ready) /\ ready \in SUBSET Slaves
  BY DEF PushLocalEvent
<1>2. Simplify(m) \in Message
  BY SimplifyType
<1> QED BY <1>1, <1>2 DEF Channel!ChannelNext

\* Each step of the copy path is a step of the channel or leaves it alone.
LEMMA ChannelStep ==
    ASSUME TypeOK, [Next]_vars
    PROVE  [Channel!ChannelNext]_channelVars
<1>1. ASSUME NEW t \in Tickets, Trade(t) PROVE UNCHANGED channelVars
  BY <1>1 DEF Trade
<1>2. ASSUME NEW t \in Tickets, PushPlaced(t) PROVE Channel!ChannelNext
  <2>1. Event("placed", {t}) \in Message
    BY MessageTypes
  <2> QED BY <1>2, <2>1, PushIsChannel DEF PushPlaced
<1>3. ASSUME NEW t \in Tickets, ReportVanished(t) PROVE [Channel!ChannelNext]_channelVars
  <2>1. Event("closed", {t}) \in Message
    BY MessageTypes
  <2>2. CASE PushLocalEvent(Event("closed", {t}))
    BY <2>1, <2>2, PushIsChannel
  <2> QED BY <1>3, <2>2 DEF ReportVanished
<1>4. CASE PushSnapshot
  BY <1>4, SnapshotType, PushIsChannel DEF PushSnapshot
<1>5. CASE StoreSnapshot
  <2>1. PICK m \in push.sent : Channel!Store(m)
    BY <1>5 DEF StoreSnapshot
  <2> QED BY <2>1 DEF TypeOK, Channel!ChannelNext
<1>6. CASE Collect
  BY <1>6 DEF Collect
<1>7. ASSUME NEW c \in Readers, ReadStored(c) PROVE Channel!ChannelNext
  BY <1>7 DEF ReadStored, Channel!ChannelNext
<1>8. ASSUME NEW c \in Readers, ReplayStored(c) PROVE Channel!ChannelNext
  <2> DEFINE ready == {s \in Slaves : up[s] /\ Len(chan[s]) < MaxChan}
  <2>1. Channel!Replay(c, ready) /\ ready \in SUBSET Slaves
    BY <1>8 DEF ReplayStored
  <2> QED BY <2>1 DEF Channel!ChannelNext
<1>9. ASSUME NEW s \in Slaves, LinkUp(s) PROVE UNCHANGED channelVars
  BY <1>9 DEF LinkUp
<1>10. ASSUME NEW s \in Slaves, LinkDown(s) PROVE Channel!ChannelNext
  <2>1. PICK k \in 0..Len(chan[s]) : Channel!Lose(s, k)
    BY <1>10 DEF LinkDown
  <2> QED BY <2>1 DEF Channel!ChannelNext
<1>11. ASSUME NEW s \in Slaves, Execute(s) PROVE Channel!ChannelNext
  BY <1>11 DEF Execute, HandleCommand, Channel!ChannelNext
<1>12. CASE UNCHANGED vars
  BY <1>12 DEF vars, channelVars
<1> QED BY <1>1, <1>2, <1>3, <1>4, <1>5, <1>6, <1>7, <1>8, <1>9, <1>10, <1>11, <1>12
        DEF Next, MasterEA

\* Whatever terminals, links and threads do, the lines between them are those of the
\* channel that SnapshotFanout implements: nothing in CopyPath relies on more than
\* push_local_event and the replays give.
THEOREM CopyPathOnChannel == Spec => Channel!ChannelSpec
<1>1. Init => Channel!ChannelInit
  BY DEF Init
<1>2. TypeOK /\ [Next]_vars => [Channel!ChannelNext]_(Channel!vars)
  BY ChannelStep DEF channelVars, Channel!vars
<1> QED BY CopyPathTypes, <1>1, <1>2, PTL DEF Spec, Channel!ChannelSpec
=============================================================================
