----------------------- MODULE SnapshotFanout_proofs -----------------------
(***************************************************************************)
(* Proofs about SnapshotFanout, for every number of slaves, HTTP threads,  *)
(* pushes and any buffer size.                                             *)
(***************************************************************************)
EXTENDS SnapshotFanout, TLAPS

-----------------------------------------------------------------------------
(* The inductive invariant.                                                *)

\* Number of the newest push that push_local_event is done with, or has sent.
Sent == IF push.at \in {"check", "recheck", "send"} THEN pushed - 1 ELSE pushed

\* The EA thread is inside push_local_event only for a push.
PushStarted == push.at # "idle" => pushed > 0

\* A thread holds a snapshot exactly while it is about to send it.
CallerHolds == \A c \in Callers : caller[c].at = "send" <=> caller[c].n # 0

TInv == TypeOK /\ PushStarted /\ CallerHolds

-----------------------------------------------------------------------------
(* Types.                                                                  *)

\* broadcast_to_all appends the line for some of the registered sessions,
\* erases the others, and changes nothing else.
LEMMA BroadcastType ==
    ASSUME TypeOK, NEW l \in Line, Broadcast(l)
    PROVE  /\ registered' \in [Slaves -> BOOLEAN]
           /\ wire' \in [Slaves -> Seq(Line)]
           /\ got' \in [Slaves -> 0..MaxPush]
<1>1. l.n \in 0..MaxPush /\ wire \in [Slaves -> Seq(Line)]
  <2>1. l.n \in 1..MaxPush
    BY DEF Line
  <2> QED BY <2>1, FanoutAssumption DEF TypeOK
<1>2. \A s \in Slaves : Append(wire[s], l) \in Seq(Line)
  BY <1>1
<1>3. PICK F \in SUBSET {s \in Slaves : registered[s]} :
        /\ registered' = [s \in Slaves |-> registered[s] /\ s \notin F]
        /\ wire' = [s \in Slaves |-> IF registered[s] /\ s \notin F
                                     THEN Append(wire[s], l) ELSE wire[s]]
        /\ got' = [s \in Slaves |-> IF /\ registered[s] /\ s \notin F
                                       /\ l.kind # "event" /\ l.n > got[s]
                                    THEN l.n ELSE got[s]]
  BY DEF Broadcast
<1>4. registered' \in [Slaves -> BOOLEAN]
  BY <1>3
<1>5. wire' \in [Slaves -> Seq(Line)]
  BY <1>1, <1>2, <1>3
<1>6. got' \in [Slaves -> 0..MaxPush]
  BY <1>1, <1>3 DEF TypeOK
<1> QED BY <1>4, <1>5, <1>6

\* Where a thread may be, and what it may hold there.
CallerState == [at : {"idle", "lock", "disconnect", "check", "read", "send"},
                n : 0..MaxPush]

\* A thread moves on.
LEMMA CallerMoves ==
    ASSUME TypeOK, CallerHolds, NEW c \in Callers, NEW x \in CallerState,
           caller' = [caller EXCEPT ![c] = x], x.at = "send" <=> x.n # 0
    PROVE  caller' \in [Callers -> CallerState] /\ CallerHolds'
BY DEF TypeOK, CallerHolds, CallerState

\* The DLL starts with no push under way and no thread replaying.
LEMMA TInit == Init => TInv
BY FanoutAssumption DEF Init, TInv, TypeOK, PushStarted, CallerHolds, Callers

\* Every step of the EA thread, the handlers, the requests and the links keeps
\* the types, and what a thread holds is what it is about to send.
LEMMA TNext == TInv /\ [Next]_vars => TInv'
<1> SUFFICES ASSUME TInv, [Next]_vars PROVE TInv'
  OBVIOUS
<1> USE FanoutAssumption
<1>1. CASE UNCHANGED vars
  BY <1>1 DEF vars, dllVars, TInv, TypeOK, PushStarted, CallerHolds
<1>2. ASSUME NEW k \in {"event", "snapshot"}, PushLocalEvent(k) PROVE TInv'
  BY <1>2 DEF PushLocalEvent, TInv, TypeOK, PushStarted, CallerHolds
<1>3. CASE PushCheck
  BY <1>3 DEF PushCheck, PushGoto, TInv, TypeOK, PushStarted, CallerHolds
<1>4. CASE PushRecheck
  BY <1>4 DEF PushRecheck, PushGoto, TInv, TypeOK, PushStarted, CallerHolds
<1>5. CASE PushSend
  <2>1. [kind |-> push.kind, n |-> pushed] \in Line
    BY <1>5 DEF PushSend, TInv, TypeOK, PushStarted, Line
  <2>2. /\ registered' \in [Slaves -> BOOLEAN]
        /\ wire' \in [Slaves -> Seq(Line)]
        /\ got' \in [Slaves -> 0..MaxPush]
    BY <1>5, <2>1, BroadcastType DEF PushSend, TInv
  <2> QED BY <1>5, <2>2 DEF PushSend, PushGoto, TInv, TypeOK, PushStarted, CallerHolds
<1>6. CASE PushStore
  BY <1>6 DEF PushStore, PushGoto, TInv, TypeOK, PushStarted, CallerHolds
<1>7. ASSUME NEW s \in Slaves, Connect(s) PROVE TInv'
  BY <1>7 DEF Connect, CallerGoto, ReplayFrame, TInv, TypeOK, PushStarted, CallerHolds, Callers
<1>8. ASSUME NEW s \in Slaves, OnNewSession(s) PROVE TInv'
  BY <1>8 DEF OnNewSession, CallerGoto, ReplayFrame, TInv, TypeOK, PushStarted, CallerHolds,
              Callers
<1>9. ASSUME NEW s \in Slaves, LinkLost(s) PROVE TInv'
  BY <1>9 DEF LinkLost, ReplayFrame, TInv, TypeOK, PushStarted, CallerHolds
<1>10. ASSUME NEW s \in Slaves, Receive(s) PROVE TInv'
  <2>1. wire[s] \in Seq(Line) /\ wire[s] # <<>>
    BY <1>10 DEF Receive, TInv, TypeOK
  <2>2. Head(wire[s]) \in Line /\ Tail(wire[s]) \in Seq(Line)
    BY <2>1
  <2>3. Head(wire[s]).n \in 0..MaxPush
    BY <2>2 DEF Line
  <2> QED BY <1>10, <2>2, <2>3 DEF Receive, dllVars, TInv, TypeOK, PushStarted, CallerHolds
<1>11. ASSUME NEW r \in Requests, NEW b \in BOOLEAN, ToggleTcp(r, b) PROVE TInv'
  BY <1>11 DEF ToggleTcp, CallerGoto, ReplayFrame, TInv, TypeOK, PushStarted, CallerHolds,
               Callers
<1>12. ASSUME NEW r \in Requests, NEW b \in BOOLEAN, PutRole(r, b) PROVE TInv'
  BY <1>12 DEF PutRole, CallerGoto, ReplayFrame, TInv, TypeOK, PushStarted, CallerHolds,
               Callers
<1>13. ASSUME NEW r \in Requests, DisconnectAll(r) PROVE TInv'
  BY <1>13 DEF DisconnectAll, CallerGoto, ReplayFrame, TInv, TypeOK, PushStarted,
               CallerHolds, Callers
<1>14. ASSUME NEW c \in Callers, ReplayCheck(c) PROVE TInv'
  <2>1. \E at \in {"read", "idle"} : caller' = [caller EXCEPT ![c].at = at]
    BY <1>14 DEF ReplayCheck, Leave, CallerGoto
  <2>2. holder' = holder \/ holder' = holder \ {c}
    BY <1>14 DEF ReplayCheck, Leave
  <2>3. UNCHANGED <<pushed, push, enabled, isMaster, lastSnapshot>>
    BY <1>14 DEF ReplayCheck, ReplayFrame
  <2>4. UNCHANGED <<registered, wire, due, got, seen>>
    BY <1>14 DEF ReplayCheck, ReplayFrame
  <2>5. caller[c].at = "check"
    BY <1>14 DEF ReplayCheck
  <2>6. TypeOK'
    <3>1. caller' \in [Callers -> [at : {"idle", "lock", "disconnect", "check", "read", "send"},
                                   n : 0..MaxPush]]
      BY <2>1 DEF TInv, TypeOK
    <3>2. holder' \in SUBSET Slaves
      BY <2>2 DEF TInv, TypeOK
    <3> QED BY <2>3, <2>4, <3>1, <3>2 DEF TInv, TypeOK
  <2>7. CallerHolds'
    BY <2>1, <2>5 DEF TInv, TypeOK, CallerHolds
  <2> QED BY <2>3, <2>6, <2>7 DEF TInv, PushStarted
<1>15. ASSUME NEW c \in Callers, ReplayRead(c) PROVE TInv'
  <2>1. \/ caller' = [caller EXCEPT ![c].at = "idle"]
        \/ lastSnapshot # 0 /\ caller' = [caller EXCEPT ![c] = [at |-> "send", n |-> lastSnapshot]]
    BY <1>15 DEF ReplayRead, Leave, CallerGoto
  <2>2. holder' = holder \/ holder' = holder \ {c}
    BY <1>15 DEF ReplayRead, Leave
  <2>3. UNCHANGED <<pushed, push, enabled, isMaster, lastSnapshot>>
    BY <1>15 DEF ReplayRead, ReplayFrame
  <2>4. UNCHANGED <<registered, wire, due, got, seen>>
    BY <1>15 DEF ReplayRead, ReplayFrame
  <2>5. caller[c].at = "read"
    BY <1>15 DEF ReplayRead
  <2>6. \E x \in CallerState : /\ caller' = [caller EXCEPT ![c] = x]
                               /\ x.at = "send" <=> x.n # 0
    <3>1. caller[c] \in CallerState /\ caller[c].n = 0
      BY <2>5 DEF TInv, TypeOK, CallerHolds, CallerState
    <3>2. CASE caller' = [caller EXCEPT ![c].at = "idle"]
      <4>1. [caller[c] EXCEPT !.at = "idle"] \in CallerState
        BY <3>1 DEF CallerState
      <4> QED BY <3>1, <3>2, <4>1 DEF CallerState
    <3>3. CASE /\ lastSnapshot # 0
               /\ caller' = [caller EXCEPT ![c] = [at |-> "send", n |-> lastSnapshot]]
      <4>1. [at |-> "send", n |-> lastSnapshot] \in CallerState
        BY DEF TInv, TypeOK, CallerState
      <4> QED BY <3>3, <4>1
    <3> QED BY <2>1, <3>2, <3>3
  <2>7. caller' \in [Callers -> CallerState] /\ CallerHolds'
    BY <2>6, CallerMoves DEF TInv
  <2>8. TypeOK'
    BY <2>2, <2>3, <2>4, <2>7 DEF TInv, TypeOK, CallerState
  <2> QED BY <2>3, <2>7, <2>8 DEF TInv, PushStarted
<1>16. ASSUME NEW c \in Callers, ReplaySend(c) PROVE TInv'
  <2>1. [kind |-> "replay", n |-> caller[c].n] \in Line
    BY <1>16 DEF ReplaySend, TInv, TypeOK, CallerHolds, Line
  <2>2. /\ registered' \in [Slaves -> BOOLEAN]
        /\ wire' \in [Slaves -> Seq(Line)]
        /\ got' \in [Slaves -> 0..MaxPush]
    BY <1>16, <2>1, BroadcastType DEF ReplaySend, TInv
  <2> QED BY <1>16, <2>2 DEF ReplaySend, ReplayFrame, TInv, TypeOK, PushStarted, CallerHolds
<1>17. ASSUME NEW r \in Requests, DeleteConfig(r) PROVE TInv'
  <2>1. isMaster' \in BOOLEAN
    BY <1>17, Zenon DEF DeleteConfig
  <2>2. /\ due' = [s \in Slaves |-> 0]
        /\ UNCHANGED <<pushed, push, enabled, lastSnapshot, caller, holder>>
        /\ UNCHANGED <<registered, wire, got, seen>>
    BY <1>17 DEF DeleteConfig, ReplayFrame
  <2>3. due' \in [Slaves -> 0..MaxPush]
    BY <2>2
  <2> QED BY <2>1, <2>2, <2>3 DEF TInv, TypeOK, PushStarted, CallerHolds
<1>18. CASE SendReadyNotification
  <2>1. /\ isMaster' \in BOOLEAN /\ due' \in [Slaves -> 0..MaxPush]
        /\ UNCHANGED <<pushed, push, enabled, lastSnapshot, caller, holder>>
        /\ UNCHANGED <<registered, wire, got, seen>>
    BY <1>18 DEF SendReadyNotification
  <2> QED BY <2>1 DEF TInv, TypeOK, PushStarted, CallerHolds
<1> QED
  BY <1>1, <1>2, <1>3, <1>4, <1>5, <1>6, <1>7, <1>8, <1>9, <1>10, <1>11, <1>12, <1>13,
     <1>14, <1>15, <1>16, <1>17, <1>18
  DEF Next, MasterEA, Session, Request, Replay

\* The variables keep their types in every reachable state.
THEOREM FanoutTypes == Spec => []TypeOK
<1>1. TInv => TypeOK
  BY DEF TInv
<1> QED BY TInit, TNext, <1>1, PTL DEF Spec

-----------------------------------------------------------------------------
(* The order of first sendings.                                            *)

Fresh(l) == l.kind # "replay"

\* The first sendings in w come in order, all of them after push low.
Ordered(w, low) ==
    \A j \in 1..Len(w) :
        Fresh(w[j]) => /\ low < w[j].n
                       /\ \A i \in 1..(j - 1) : Fresh(w[i]) => w[i].n < w[j].n

\* The first sendings in w are of push high or earlier.
UpTo(w, high) == \A j \in 1..Len(w) : Fresh(w[j]) => w[j].n <= high

\* No slave is ahead of the EA thread, neither in what it has read nor in what
\* is under way to it.
NotAhead == \A s \in Slaves : seen[s] <= Sent /\ UpTo(wire[s], Sent)

OInv == FreshInOrder /\ NotAhead

\* The run's property is the order of each line after what its slave has read.
LEMMA OrderedDef == FreshInOrder <=> \A s \in Slaves : Ordered(wire[s], seen[s])
BY DEF FreshInOrder, Ordered, Fresh

\* A newer first sending, or any replay, may be added at the end of a line.
LEMMA OrderedAppend ==
    ASSUME NEW w \in Seq(Line), NEW l \in Line, NEW low \in Nat, NEW high \in Nat,
           Ordered(w, low), UpTo(w, high), Fresh(l) => low < l.n /\ high < l.n
    PROVE  Ordered(Append(w, l), low)
<1> DEFINE v == Append(w, l)
<1>1. /\ Len(v) = Len(w) + 1 /\ Len(w) \in Nat
      /\ \A i \in 1..Len(w) : v[i] = w[i] /\ w[i] \in Line
      /\ v[Len(w) + 1] = l
  OBVIOUS
<1>2. \A x \in Line : x.n \in Nat
  BY FanoutAssumption DEF Line
<1> HIDE DEF v
<1>3. ASSUME NEW j \in 1..Len(v), Fresh(v[j])
      PROVE  low < v[j].n /\ \A i \in 1..(j - 1) : Fresh(v[i]) => v[i].n < v[j].n
  <2>1. CASE j \in 1..Len(w)
    BY <1>1, <1>3, <2>1 DEF Ordered
  <2>2. CASE j = Len(w) + 1
    BY <1>1, <1>2, <1>3, <2>2 DEF UpTo
  <2> QED BY <1>1, <2>1, <2>2
<1> QED BY <1>3 DEF Ordered, v

\* TcpClient takes the head of the line: the rest is after it.
LEMMA OrderedTail ==
    ASSUME NEW w \in Seq(Line), w # <<>>, NEW low, Ordered(w, low)
    PROVE  Ordered(Tail(w), IF Fresh(Head(w)) THEN Head(w).n ELSE low)
<1> DEFINE v == Tail(w)
<1>1. /\ Len(v) = Len(w) - 1 /\ Len(w) \in Nat
      /\ \A i \in 1..Len(v) : v[i] = w[i + 1]
      /\ Head(w) = w[1] /\ Len(w) >= 1
  OBVIOUS
<1> HIDE DEF v
<1>2. ASSUME NEW j \in 1..Len(v), Fresh(v[j])
      PROVE  /\ (IF Fresh(Head(w)) THEN Head(w).n ELSE low) < v[j].n
             /\ \A i \in 1..(j - 1) : Fresh(v[i]) => v[i].n < v[j].n
  <2>1. j + 1 \in 1..Len(w) /\ v[j] = w[j + 1] /\ 1 \in 1..(j + 1 - 1)
    BY <1>1
  <2>2. \A i \in 1..(j - 1) : i + 1 \in 1..(j + 1 - 1) /\ v[i] = w[i + 1]
    BY <1>1
  <2> QED BY <1>1, <1>2, <2>1, <2>2 DEF Ordered
<1> QED BY <1>2 DEF Ordered, v

\* Adding a line that is not too new.
LEMMA UpToAppend ==
    ASSUME NEW w \in Seq(Line), NEW l \in Line, NEW high \in Nat,
           UpTo(w, high), Fresh(l) => l.n <= high
    PROVE  UpTo(Append(w, l), high)
BY DEF UpTo

\* Taking a line leaves none that is newer.
LEMMA UpToTail ==
    ASSUME NEW w \in Seq(Line), w # <<>>, NEW high, UpTo(w, high)
    PROVE  UpTo(Tail(w), high)
BY DEF UpTo

\* A later bound is a bound.
LEMMA UpToGrows ==
    ASSUME NEW w \in Seq(Line), NEW m \in Nat, NEW k \in Nat, m <= k, UpTo(w, m)
    PROVE  UpTo(w, k)
<1>1. \A j \in 1..Len(w) : w[j].n \in Nat
  <2>1. \A x \in Line : x.n \in Nat
    BY FanoutAssumption DEF Line
  <2> QED BY <2>1
<1> QED BY <1>1 DEF UpTo

\* The EA thread never goes back to an earlier push.
LEMMA SentGrows ==
    ASSUME TInv, TInv', [Next]_vars
    PROVE  Sent \in Nat /\ Sent' \in Nat /\ Sent <= Sent'
<1>1. pushed \in Nat /\ pushed' \in Nat
  BY FanoutAssumption DEF TInv, TypeOK
<1>2. \/ pushed' = pushed /\ push' = push
      \/ pushed' = pushed + 1 /\ push.at = "idle" /\ push'.at = "check"
      \/ pushed' = pushed /\ push.at = "check" /\ push'.at \in {"recheck", "idle"}
      \/ pushed' = pushed /\ push.at = "recheck" /\ push'.at \in {"send", "idle"}
      \/ pushed' = pushed /\ push.at = "send" /\ push'.at \in {"store", "idle"}
      \/ pushed' = pushed /\ push.at = "store" /\ push'.at = "idle"
  <2>1. CASE UNCHANGED vars
    BY <2>1 DEF vars, dllVars
  <2>2. CASE MasterEA
    BY <2>2 DEF MasterEA, PushLocalEvent, PushCheck, PushRecheck, PushSend, PushStore,
                PushGoto, SendReadyNotification, TInv, TypeOK
  <2>3. ASSUME NEW s \in Slaves, Session(s) PROVE pushed' = pushed /\ push' = push
    BY <2>3 DEF Session, Connect, OnNewSession, LinkLost, Receive, ReplayFrame, dllVars
  <2>4. ASSUME NEW r \in Requests, Request(r) PROVE pushed' = pushed /\ push' = push
    BY <2>4 DEF Request, ToggleTcp, PutRole, DeleteConfig, DisconnectAll, ReplayFrame
  <2>5. ASSUME NEW c \in Callers, Replay(c) PROVE pushed' = pushed /\ push' = push
    BY <2>5 DEF Replay, ReplayCheck, ReplayRead, ReplaySend, ReplayFrame
  <2> QED BY <2>1, <2>2, <2>3, <2>4, <2>5 DEF Next
<1>3. push.at # "idle" => pushed > 0
  BY DEF TInv, PushStarted
<1>4. Sent \in Nat
  BY <1>1, <1>3 DEF Sent
<1>5. CASE pushed' = pushed /\ push' = push
  BY <1>1, <1>3, <1>5 DEF Sent
<1>6. CASE pushed' = pushed + 1 /\ push.at = "idle" /\ push'.at = "check"
  BY <1>1, <1>6 DEF Sent
<1>7. CASE pushed' = pushed /\ push.at \in {"check", "recheck", "send"}
  BY <1>1, <1>3, <1>7 DEF Sent
<1>8. CASE pushed' = pushed /\ push.at = "store" /\ push'.at = "idle"
  BY <1>1, <1>8 DEF Sent
<1> QED BY <1>2, <1>4, <1>5, <1>6, <1>7, <1>8

\* Nothing is sent or read.
LEMMA OrderFrame ==
    ASSUME TInv, OInv, wire' = wire, seen' = seen,
           Sent \in Nat, Sent' \in Nat, Sent <= Sent'
    PROVE  OInv'
<1>1. FreshInOrder'
  BY DEF OInv, FreshInOrder
<1>2. ASSUME NEW s \in Slaves PROVE seen[s] <= Sent' /\ UpTo(wire[s], Sent')
  BY UpToGrows, FanoutAssumption DEF OInv, NotAhead, TInv, TypeOK
<1>3. NotAhead'
  BY <1>2 DEF NotAhead
<1> QED BY <1>1, <1>3 DEF OInv

\* A line is broadcast: a replay, or the first sending of a new push.
LEMMA OrderBroadcast ==
    ASSUME TInv, OInv, NEW l \in Line, Broadcast(l), seen' = seen,
           Sent \in Nat, Sent' \in Nat, Sent <= Sent',
           Fresh(l) => Sent < l.n /\ l.n <= Sent'
    PROVE  OInv'
<1>1. \A s \in Slaves : wire'[s] = wire[s] \/ wire'[s] = Append(wire[s], l)
  BY DEF Broadcast, TInv, TypeOK
<1>2. ASSUME NEW s \in Slaves
      PROVE  /\ Ordered(wire'[s], seen[s])
             /\ seen[s] <= Sent' /\ UpTo(wire'[s], Sent')
  <2>1. /\ wire[s] \in Seq(Line) /\ seen[s] \in Nat /\ l.n \in Nat
        /\ Ordered(wire[s], seen[s])
        /\ seen[s] <= Sent /\ UpTo(wire[s], Sent)
    <3>1. l.n \in Nat
      BY FanoutAssumption DEF Line
    <3>2. wire[s] \in Seq(Line) /\ seen[s] \in Nat
      BY FanoutAssumption DEF TInv, TypeOK
    <3> QED BY <3>1, <3>2, OrderedDef DEF OInv, NotAhead
  <2>2. UpTo(wire[s], Sent')
    BY <2>1, UpToGrows
  <2>3. CASE wire'[s] = wire[s]
    BY <2>1, <2>2, <2>3
  <2>4. CASE wire'[s] = Append(wire[s], l)
    <3>1. Fresh(l) => seen[s] < l.n /\ Sent < l.n
      BY <2>1
    <3>2. Ordered(wire'[s], seen[s])
      BY <2>1, <2>4, <3>1, OrderedAppend
    <3>3. UpTo(wire'[s], Sent')
      BY <2>1, <2>2, <2>4, UpToAppend
    <3> QED BY <2>1, <3>2, <3>3
  <2> QED BY <1>1, <2>3, <2>4
<1>3. NotAhead'
  BY <1>2 DEF NotAhead
<1>4. FreshInOrder'
  BY <1>2 DEF FreshInOrder, Ordered, Fresh
<1> QED BY <1>3, <1>4 DEF OInv

\* Nothing is under way in the beginning.
LEMMA OInit == Init => OInv
BY FanoutAssumption DEF Init, OInv, FreshInOrder, NotAhead, UpTo, Sent

\* Every step keeps the order: push_local_event sends numbers that grow, all
\* other broadcasts are replays, and slaves take lines from the front.
LEMMA ONext == TInv /\ TInv' /\ OInv /\ [Next]_vars => OInv'
<1> SUFFICES ASSUME TInv, TInv', OInv, [Next]_vars PROVE OInv'
  OBVIOUS
<1>1. Sent \in Nat /\ Sent' \in Nat /\ Sent <= Sent'
  BY SentGrows
<1>2. CASE wire' = wire /\ seen' = seen
  BY <1>1, <1>2, OrderFrame
<1>3. CASE PushSend
  <2>1. /\ [kind |-> push.kind, n |-> pushed] \in Line
        /\ pushed > 0 /\ pushed \in Nat
    BY <1>3, FanoutAssumption DEF PushSend, TInv, TypeOK, PushStarted, Line
  <2>2. Sent = pushed - 1 /\ Sent' = pushed
    BY <1>3 DEF PushSend, PushGoto, Sent, TInv, TypeOK
  <2>3. Broadcast([kind |-> push.kind, n |-> pushed]) /\ seen' = seen
    BY <1>3 DEF PushSend, PushGoto
  <2> QED BY <1>1, <2>1, <2>2, <2>3, OrderBroadcast
<1>4. ASSUME NEW c \in Callers, ReplaySend(c) PROVE OInv'
  <2>1. [kind |-> "replay", n |-> caller[c].n] \in Line
    BY <1>4 DEF ReplaySend, TInv, TypeOK, CallerHolds, Line
  <2>2. /\ Broadcast([kind |-> "replay", n |-> caller[c].n]) /\ seen' = seen
        /\ ~Fresh([kind |-> "replay", n |-> caller[c].n])
    BY <1>4 DEF ReplaySend, ReplayFrame, Fresh
  <2> QED BY <1>1, <2>1, <2>2, OrderBroadcast
<1>5. ASSUME NEW s \in Slaves, LinkLost(s) PROVE OInv'
  <2>1. /\ wire' = [wire EXCEPT ![s] = <<>>] /\ seen' = seen
        /\ wire \in [Slaves -> Seq(Line)] /\ seen \in [Slaves -> Nat]
    BY <1>5, FanoutAssumption DEF LinkLost, ReplayFrame, TInv, TypeOK
  <2>2. FreshInOrder'
    BY <2>1 DEF OInv, FreshInOrder
  <2>3. ASSUME NEW q \in Slaves PROVE seen[q] <= Sent' /\ UpTo(wire'[q], Sent')
    <3>1. seen[q] <= Sent /\ UpTo(wire[q], Sent) /\ seen[q] \in Nat
      BY <2>1 DEF OInv, NotAhead
    <3>2. UpTo(wire[q], Sent')
      BY <1>1, <2>1, <3>1, UpToGrows
    <3>3. UpTo(<<>>, Sent')
      BY DEF UpTo
    <3> QED BY <1>1, <2>1, <3>1, <3>2, <3>3
  <2> QED BY <2>1, <2>2, <2>3 DEF OInv, NotAhead
<1>6. ASSUME NEW s \in Slaves, Receive(s) PROVE OInv'
  <2>1. /\ wire[s] \in Seq(Line) /\ wire[s] # <<>>
        /\ wire \in [Slaves -> Seq(Line)] /\ seen \in [Slaves -> Nat]
        /\ wire' = [wire EXCEPT ![s] = Tail(wire[s])]
        /\ seen' = [seen EXCEPT ![s] = IF Fresh(Head(wire[s])) THEN Head(wire[s]).n ELSE @]
    <3>1. wire \in [Slaves -> Seq(Line)] /\ seen \in [Slaves -> Nat]
      BY FanoutAssumption DEF TInv, TypeOK
    <3>2. seen' = [seen EXCEPT ![s] = IF Fresh(Head(wire[s])) THEN Head(wire[s]).n ELSE @]
      <4>1. CASE Fresh(Head(wire[s]))
        BY <1>6, <4>1 DEF Receive, Fresh
      <4>2. CASE ~Fresh(Head(wire[s]))
        BY <1>6, <3>1, <4>2 DEF Receive, Fresh
      <4> QED BY <4>1, <4>2
    <3> QED BY <1>6, <3>1, <3>2 DEF Receive
  <2>2. Head(wire[s]) = wire[s][1] /\ 1 \in 1..Len(wire[s]) /\ Head(wire[s]) \in Line
    BY <2>1
  <2>3. \A q \in Slaves : /\ Ordered(wire[q], seen[q])
                          /\ seen[q] <= Sent /\ UpTo(wire[q], Sent)
    BY OrderedDef DEF OInv, NotAhead
  <2>4. Ordered(wire'[s], seen'[s])
    BY <2>1, <2>3, OrderedTail
  <2>5. seen'[s] <= Sent /\ seen'[s] \in Nat
    BY <2>1, <2>2, <2>3, FanoutAssumption DEF UpTo, Line
  <2>6. UpTo(wire'[s], Sent)
    BY <1>1, <2>1, <2>3, UpToTail
  <2>7. ASSUME NEW q \in Slaves
        PROVE  /\ Ordered(wire'[q], seen'[q])
               /\ seen'[q] <= Sent' /\ UpTo(wire'[q], Sent')
    <3>1. wire'[q] \in Seq(Line) /\ seen'[q] \in Nat
      BY FanoutAssumption DEF TInv, TypeOK
    <3>2. Ordered(wire'[q], seen'[q]) /\ seen'[q] <= Sent /\ UpTo(wire'[q], Sent)
      BY <2>1, <2>3, <2>4, <2>5, <2>6
    <3> QED BY <1>1, <3>1, <3>2, UpToGrows
  <2>8. FreshInOrder' /\ NotAhead'
    BY <2>7 DEF FreshInOrder, NotAhead, Ordered, Fresh
  <2> QED BY <2>8 DEF OInv
<1>7. \/ wire' = wire /\ seen' = seen
      \/ PushSend
      \/ \E c \in Callers : ReplaySend(c)
      \/ \E s \in Slaves : LinkLost(s) \/ Receive(s)
  <2>1. CASE UNCHANGED vars
    BY <2>1 DEF vars, dllVars
  <2>2. CASE MasterEA
    BY <2>2 DEF MasterEA, PushLocalEvent, PushCheck, PushRecheck, PushStore, PushGoto,
                SendReadyNotification
  <2>3. ASSUME NEW s \in Slaves, Session(s)
        PROVE  (wire' = wire /\ seen' = seen) \/ LinkLost(s) \/ Receive(s)
    BY <2>3 DEF Session, Connect, OnNewSession, ReplayFrame
  <2>4. ASSUME NEW r \in Requests, Request(r) PROVE wire' = wire /\ seen' = seen
    BY <2>4 DEF Request, ToggleTcp, PutRole, DeleteConfig, DisconnectAll, ReplayFrame
  <2>5. ASSUME NEW c \in Callers, Replay(c)
        PROVE  (wire' = wire /\ seen' = seen) \/ ReplaySend(c)
    BY <2>5 DEF Replay, ReplayCheck, ReplayRead, ReplayFrame
  <2> QED BY <2>1, <2>2, <2>3, <2>4, <2>5 DEF Next
<1> QED BY <1>2, <1>3, <1>4, <1>5, <1>6, <1>7

\* The first sendings of events reach a slave once and in the order of the
\* pushes, whatever the threads of the DLL and the network do.
THEOREM FanoutOrder == Spec => []FreshInOrder
<1>1. OInv => FreshInOrder
  BY DEF OInv
<1> QED BY TInit, TNext, OInit, ONext, <1>1, PTL DEF Spec

-----------------------------------------------------------------------------
(* The snapshot a new session is owed.                                     *)

\* What is stored is not newer than the last push.
StoredIsPushed == lastSnapshot <= pushed

\* A session is owed at most what is stored now, and nothing while the toggle
\* or the role is gone; a handler that is about to send holds what it owes.
OwedIsStored == \A s \in Slaves : due[s] <= lastSnapshot
OwedWhileOn == \A s \in Slaves : due[s] # 0 => enabled /\ isMaster
OwedIsHeld == \A s \in Slaves : caller[s].at = "send" => caller[s].n >= due[s]

BInv == StoredIsPushed /\ OwedIsStored /\ OwedWhileOn /\ OwedIsHeld /\ NewSessionBaseline

\* After a broadcast, who is still registered was, and has got the line.
LEMMA BroadcastGot ==
    ASSUME TypeOK, NEW l \in Line, Broadcast(l), NEW s \in Slaves
    PROVE  /\ registered'[s] => registered[s]
           /\ got'[s] >= got[s]
           /\ registered'[s] /\ l.kind # "event" => got'[s] >= l.n
<1>1. l.n \in Nat
  BY FanoutAssumption DEF Line
<1>2. got[s] \in Nat
  BY FanoutAssumption DEF TypeOK
<1>3. PICK F \in SUBSET {q \in Slaves : registered[q]} :
        /\ registered' = [q \in Slaves |-> registered[q] /\ q \notin F]
        /\ got' = [q \in Slaves |-> IF /\ registered[q] /\ q \notin F
                                       /\ l.kind # "event" /\ l.n > got[q]
                                    THEN l.n ELSE got[q]]
  BY DEF Broadcast
<1>4. registered'[s] <=> registered[s] /\ s \notin F
  BY <1>3
<1>5. got'[s] = IF registered[s] /\ s \notin F /\ l.kind # "event" /\ l.n > got[s]
                THEN l.n ELSE got[s]
  BY <1>3
<1> QED BY <1>1, <1>2, <1>4, <1>5

\* A session that does not exist is owed nothing.
LEMMA BInit == Init => BInv
BY FanoutAssumption
DEF Init, BInv, StoredIsPushed, OwedIsStored, OwedWhileOn, OwedIsHeld, NewSessionBaseline,
    Callers

\* Every step keeps what new sessions are owed: the handler of a session reads
\* the stored snapshot after it was registered, and the stored one only grows.
LEMMA BNext == TInv /\ TInv' /\ BInv /\ [Next]_vars => BInv'
<1> SUFFICES ASSUME TInv, TInv', BInv, [Next]_vars PROVE BInv'
  OBVIOUS
<1>0. /\ pushed \in Nat /\ lastSnapshot \in Nat /\ pushed' \in Nat /\ lastSnapshot' \in Nat
      /\ \A s \in Slaves : /\ due[s] \in Nat /\ due'[s] \in Nat
                           /\ got[s] \in Nat /\ got'[s] \in Nat
                           /\ s \in Callers
                           /\ caller[s].n \in Nat /\ caller'[s].n \in Nat
  BY FanoutAssumption DEF TInv, TypeOK, Callers
<1>1. CASE UNCHANGED vars
  BY <1>1 DEF vars, dllVars, BInv, StoredIsPushed, OwedIsStored, OwedWhileOn, OwedIsHeld,
              NewSessionBaseline
<1>2. CASE \/ \E k \in {"event", "snapshot"} : PushLocalEvent(k)
           \/ PushCheck \/ PushRecheck
  <2>1. pushed' >= pushed
    BY <1>0, <1>2 DEF PushLocalEvent, PushCheck, PushRecheck, PushGoto
  <2>2. UNCHANGED <<enabled, isMaster, lastSnapshot, caller, registered, due, got>>
    BY <1>2 DEF PushLocalEvent, PushCheck, PushRecheck, PushGoto
  <2> QED BY <1>0, <2>1, <2>2 DEF BInv, StoredIsPushed, OwedIsStored, OwedWhileOn,
                                  OwedIsHeld, NewSessionBaseline
<1>3. CASE PushSend
  <2>1. [kind |-> push.kind, n |-> pushed] \in Line
    BY <1>3 DEF PushSend, TInv, TypeOK, PushStarted, Line
  <2>2. \A s \in Slaves : (registered'[s] => registered[s]) /\ got'[s] >= got[s]
    BY <1>3, <2>1, BroadcastGot DEF PushSend, TInv
  <2>3. UNCHANGED <<pushed, enabled, isMaster, lastSnapshot, caller, due>>
    BY <1>3 DEF PushSend, PushGoto
  <2>4. NewSessionBaseline'
    BY <1>0, <2>2, <2>3 DEF BInv, NewSessionBaseline
  <2> QED BY <2>3, <2>4 DEF BInv, StoredIsPushed, OwedIsStored, OwedWhileOn, OwedIsHeld
<1>4. CASE PushStore
  <2>1. lastSnapshot' = pushed /\ pushed' = pushed
    BY <1>4 DEF PushStore, PushGoto
  <2>2. UNCHANGED <<enabled, isMaster, caller, registered, due, got>>
    BY <1>4 DEF PushStore, PushGoto
  <2>3. StoredIsPushed' /\ OwedIsStored'
    BY <1>0, <2>1, <2>2 DEF BInv, StoredIsPushed, OwedIsStored
  <2> QED BY <2>2, <2>3 DEF BInv, OwedWhileOn, OwedIsHeld, NewSessionBaseline
<1>5. ASSUME NEW s \in Slaves, Connect(s) PROVE BInv'
  <2>1. /\ caller[s].at = "idle" /\ caller' = [caller EXCEPT ![s].at = "lock"]
        /\ due' = [due EXCEPT ![s] = IF enabled /\ isMaster THEN lastSnapshot ELSE 0]
        /\ got' = [got EXCEPT ![s] = 0]
        /\ registered' = [registered EXCEPT ![s] = TRUE]
    BY <1>5 DEF Connect, CallerGoto
  <2>2. UNCHANGED <<pushed, lastSnapshot, enabled, isMaster>>
    BY <1>5 DEF Connect, ReplayFrame
  <2>3. OwedIsStored' /\ OwedWhileOn'
    BY <1>0, <2>1, <2>2 DEF BInv, OwedIsStored, OwedWhileOn, TInv, TypeOK
  <2>4. OwedIsHeld' /\ NewSessionBaseline'
    BY <1>0, <2>1, <2>2 DEF BInv, OwedIsHeld, NewSessionBaseline, TInv, TypeOK
  <2> QED BY <2>2, <2>3, <2>4 DEF BInv, StoredIsPushed
<1>6. ASSUME NEW s \in Slaves, OnNewSession(s) PROVE BInv'
  <2>1. caller' = [caller EXCEPT ![s].at = "check"]
    BY <1>6 DEF OnNewSession, CallerGoto
  <2>2. UNCHANGED <<pushed, lastSnapshot, enabled, isMaster, registered, due, got>>
    BY <1>6 DEF OnNewSession, ReplayFrame
  <2>3. OwedIsHeld' /\ NewSessionBaseline'
    BY <1>0, <2>1, <2>2 DEF BInv, OwedIsHeld, NewSessionBaseline, TInv, TypeOK
  <2> QED BY <2>2, <2>3 DEF BInv, StoredIsPushed, OwedIsStored, OwedWhileOn
<1>7. ASSUME NEW s \in Slaves, LinkLost(s) \/ Receive(s) PROVE BInv'
  <2>1. \A q \in Slaves : registered'[q] => registered[q]
    BY <1>7 DEF LinkLost, Receive, TInv, TypeOK
  <2>2. UNCHANGED <<pushed, lastSnapshot, enabled, isMaster, caller, due, got>>
    BY <1>7 DEF LinkLost, Receive, ReplayFrame, dllVars
  <2> QED BY <2>1, <2>2 DEF BInv, StoredIsPushed, OwedIsStored, OwedWhileOn, OwedIsHeld,
                            NewSessionBaseline
<1>8. ASSUME NEW r \in Requests, Request(r) PROVE BInv'
  <2>1. UNCHANGED <<pushed, lastSnapshot, got>>
    BY <1>8 DEF Request, ToggleTcp, PutRole, DeleteConfig, DisconnectAll, ReplayFrame
  <2>2. \A s \in Slaves : registered'[s] => registered[s]
    BY <1>8 DEF Request, ToggleTcp, PutRole, DeleteConfig, DisconnectAll
  <2>3. \A s \in Slaves : caller'[s] = caller[s]
    BY <1>8, FanoutAssumption DEF Request, ToggleTcp, PutRole, DeleteConfig, DisconnectAll, CallerGoto,
                                  TInv, TypeOK, Callers
  <2>4. \/ \A s \in Slaves : due'[s] = 0
        \/ due' = due /\ (enabled /\ isMaster => enabled' /\ isMaster')
    BY <1>8 DEF Request, ToggleTcp, PutRole, DeleteConfig, DisconnectAll
  <2>5. OwedIsStored' /\ OwedWhileOn'
    BY <1>0, <2>1, <2>4 DEF BInv, OwedIsStored, OwedWhileOn
  <2>6. OwedIsHeld' /\ NewSessionBaseline'
    BY <1>0, <2>1, <2>2, <2>3, <2>4 DEF BInv, OwedIsHeld, NewSessionBaseline
  <2> QED BY <2>1, <2>5, <2>6 DEF BInv, StoredIsPushed
<1>9. ASSUME NEW c \in Callers, ReplayCheck(c) \/ ReplayRead(c) PROVE BInv'
  <2>1. UNCHANGED <<pushed, lastSnapshot, enabled, isMaster, registered, due, got>>
    BY <1>9 DEF ReplayCheck, ReplayRead, ReplayFrame
  <2>2. \A s \in Slaves \ {c} : caller'[s] = caller[s]
    BY <1>0, <1>9 DEF ReplayCheck, ReplayRead, Leave, CallerGoto, TInv, TypeOK
  <2>3. \/ caller'[c].at = "read"
        \/ caller'[c].at = "idle" /\ ~(enabled /\ isMaster)
        \/ caller'[c].at = "idle" /\ lastSnapshot = 0
        \/ caller'[c].at = "send" /\ caller'[c].n = lastSnapshot
    BY <1>9 DEF ReplayCheck, ReplayRead, Leave, CallerGoto, TInv, TypeOK
  <2>4. c \in Slaves => /\ caller'[c].at = "send" => caller'[c].n >= due[c]
                        /\ caller'[c].at = "idle" => got[c] >= due[c]
    BY <1>0, <2>3 DEF BInv, OwedIsStored, OwedWhileOn
  <2>5. OwedIsHeld' /\ NewSessionBaseline'
    BY <2>1, <2>2, <2>4 DEF BInv, OwedIsHeld, NewSessionBaseline
  <2> QED BY <2>1, <2>5 DEF BInv, StoredIsPushed, OwedIsStored, OwedWhileOn
<1>10. ASSUME NEW c \in Callers, ReplaySend(c) PROVE BInv'
  <2> DEFINE l == [kind |-> "replay", n |-> caller[c].n]
  <2>1. l \in Line /\ l.kind # "event" /\ l.n = caller[c].n
    BY <1>10 DEF ReplaySend, TInv, TypeOK, CallerHolds, Line
  <2>2. Broadcast(l) /\ caller[c].at = "send"
    BY <1>10 DEF ReplaySend
  <2>3. UNCHANGED <<pushed, lastSnapshot, enabled, isMaster, due>>
    BY <1>10 DEF ReplaySend, ReplayFrame
  <2>4. \A s \in Slaves \ {c} : caller'[s] = caller[s]
    BY <1>0, <1>10 DEF ReplaySend, TInv, TypeOK
  <2>5. caller'[c].at = "idle"
    BY <1>10 DEF ReplaySend, TInv, TypeOK
  <2> HIDE DEF l
  <2>6. \A s \in Slaves : /\ registered'[s] => registered[s] /\ got'[s] >= l.n
                          /\ got'[s] >= got[s]
    BY <2>1, <2>2, BroadcastGot DEF TInv
  <2>7. OwedIsHeld'
    BY <2>3, <2>4, <2>5 DEF BInv, OwedIsHeld
  <2>8. ASSUME NEW s \in Slaves, registered'[s], caller'[s].at = "idle"
        PROVE  got'[s] >= due'[s]
    <3>1. CASE s = c
      BY <1>0, <2>1, <2>2, <2>3, <2>6, <2>8, <3>1 DEF BInv, OwedIsHeld
    <3>2. CASE s # c
      BY <1>0, <2>3, <2>4, <2>6, <2>8, <3>2 DEF BInv, NewSessionBaseline
    <3> QED BY <3>1, <3>2
  <2> QED BY <2>3, <2>7, <2>8 DEF BInv, StoredIsPushed, OwedIsStored, OwedWhileOn,
                                  NewSessionBaseline
<1>11. CASE SendReadyNotification
  <2>1. /\ UNCHANGED <<pushed, lastSnapshot, caller, registered, got>>
        /\ \A s \in Slaves : due'[s] = 0
    BY <1>11 DEF SendReadyNotification
  <2> QED BY <1>0, <2>1 DEF BInv, StoredIsPushed, OwedIsStored, OwedWhileOn, OwedIsHeld,
                            NewSessionBaseline
<1> QED
  BY <1>1, <1>2, <1>3, <1>4, <1>5, <1>6, <1>7, <1>8, <1>9, <1>10, <1>11
  DEF Next, MasterEA, Session, Replay

\* A session that got through the on-connect callback has been sent a snapshot
\* at least as new as the one that was stored when it registered.
THEOREM FanoutBaseline == Spec => []NewSessionBaseline
<1>1. BInv => NewSessionBaseline
  BY DEF BInv
<1> QED BY TInit, TNext, BInit, BNext, <1>1, PTL DEF Spec

-----------------------------------------------------------------------------
(* The fan-out implements the EventChannel.                                *)

\* The refinement mapping of Channel, named.
CLast == IF push.at \in {"check", "recheck", "send"} THEN pushed - 1 ELSE pushed
CStored == IF lastSnapshot = 0 THEN {} ELSE {[kind |-> "replay", n |-> lastSnapshot]}
CHeld == [c \in Callers |-> IF caller[c].n = 0 THEN {}
                            ELSE {[kind |-> "replay", n |-> caller[c].n]}]

\* Moving on does not change what a thread holds.
LEMMA GotoHolds ==
    ASSUME TypeOK, NEW c, NEW at, CallerGoto(c, at)
    PROVE  \A d \in Callers : caller'[d].n = caller[d].n
<1>1. \A d \in Callers : caller[d] \in CallerState
  BY DEF TypeOK, CallerState
<1>2. \A x \in CallerState : [x EXCEPT !.at = at].n = x.n
  BY DEF CallerState
<1>3. caller' = [caller EXCEPT ![c] = [caller[c] EXCEPT !.at = at]]
  BY DEF CallerGoto
<1>4. ASSUME NEW d \in Callers PROVE caller'[d].n = caller[d].n
  <2>1. CASE d = c
    BY <1>1, <1>2, <1>3, <2>1 DEF TypeOK
  <2>2. CASE d # c
    BY <1>3, <2>2 DEF TypeOK
  <2> QED BY <2>1, <2>2
<1> QED BY <1>4

\* A step the channel does not see.
LEMMA ChannelStutter ==
    ASSUME CLast' = CLast, lastSnapshot' = lastSnapshot, wire' = wire,
           \A c \in Callers : caller'[c].n = caller[c].n
    PROVE  UNCHANGED Channel!vars
BY DEF Channel!vars, CLast

\* broadcast_to_all reaches some set of slaves.
LEMMA BroadcastCast ==
    ASSUME NEW l, Broadcast(l)
    PROVE  \E S \in SUBSET Slaves : Channel!Cast(l, S)
<1>1. PICK F \in SUBSET {s \in Slaves : registered[s]} :
        wire' = [s \in Slaves |-> IF registered[s] /\ s \notin F
                                  THEN Append(wire[s], l) ELSE wire[s]]
  BY DEF Broadcast
<1>2. Channel!Cast(l, {s \in Slaves : registered[s] /\ s \notin F})
  BY <1>1 DEF Channel!Cast
<1> QED BY <1>2

\* The push is over and no slave gets it.
LEMMA ChannelSkip ==
    ASSUME TInv, push.at \in {"check", "recheck"}, push'.at = "idle", pushed' = pushed,
           lastSnapshot' = lastSnapshot, caller' = caller, wire' = wire
    PROVE  Channel!ChannelNext
<1> DEFINE l == [kind |-> "event", n |-> pushed]
<1>1. l \in Line /\ l.n = pushed /\ pushed > 0 /\ pushed \in Nat
  BY FanoutAssumption DEF TInv, TypeOK, PushStarted, Line
<1>2. Channel!Cast(l, {})
  BY DEF Channel!Cast, TInv, TypeOK
<1>3. Channel!Push(l, {})
  BY <1>1, <1>2 DEF Channel!Push, Channel!After
<1> QED BY <1>1, <1>3 DEF Channel!ChannelNext

\* Nothing pushed, stored, held or under way.
LEMMA ChannelInitially == Init => Channel!ChannelInit
BY DEF Init, Channel!ChannelInit

\* Every step of the DLL is one of the channel's or changes none of its state.
LEMMA ChannelStep == TInv /\ [Next]_vars => [Channel!ChannelNext]_Channel!vars
<1> SUFFICES ASSUME TInv, [Next]_vars PROVE Channel!ChannelNext \/ UNCHANGED Channel!vars
  OBVIOUS
<1>0. pushed \in Nat /\ (push.at # "idle" => pushed > 0)
  BY FanoutAssumption DEF TInv, TypeOK, PushStarted
<1>1. CASE UNCHANGED vars
  BY <1>1, ChannelStutter DEF vars, dllVars, CLast
<1>2. ASSUME NEW k \in {"event", "snapshot"}, PushLocalEvent(k)
      PROVE  UNCHANGED Channel!vars
  <2>1. CLast' = CLast
    BY <1>0, <1>2 DEF PushLocalEvent, CLast
  <2> QED BY <1>2, <2>1, ChannelStutter DEF PushLocalEvent
<1>3. CASE PushCheck \/ PushRecheck
  <2>1. /\ push.at \in {"check", "recheck"} /\ push'.at \in {"recheck", "send", "idle"}
        /\ UNCHANGED <<pushed, lastSnapshot, caller, wire>>
    BY <1>3 DEF PushCheck, PushRecheck, PushGoto, TInv, TypeOK
  <2>2. CASE push'.at = "idle"
    BY <2>1, <2>2, ChannelSkip
  <2>3. CASE push'.at # "idle"
    BY <2>1, <2>3, ChannelStutter DEF CLast
  <2> QED BY <2>2, <2>3
<1>4. CASE PushSend
  <2> DEFINE l == [kind |-> push.kind, n |-> pushed]
  <2>1. l \in Line /\ l.n = pushed
    BY <1>4 DEF PushSend, TInv, TypeOK, PushStarted, Line
  <2>2. PICK S \in SUBSET Slaves : Channel!Cast(l, S)
    BY <1>4, BroadcastCast DEF PushSend
  <2>3. /\ push.at = "send" /\ push'.at \in {"store", "idle"}
        /\ UNCHANGED <<pushed, lastSnapshot, caller>>
    BY <1>4 DEF PushSend, PushGoto, TInv, TypeOK
  <2> HIDE DEF l
  <2>4. Channel!Push(l, S)
    BY <1>0, <2>1, <2>2, <2>3 DEF Channel!Push, Channel!After
  <2> QED BY <2>1, <2>4 DEF Channel!ChannelNext
<1>5. CASE PushStore
  <2> DEFINE l == [kind |-> "snapshot", n |-> pushed]
  <2>1. l \in Line /\ l.n = pushed
    BY <1>5 DEF PushStore, TInv, TypeOK, PushStarted, Line
  <2>2. Channel!ReplayOf(l) = [kind |-> "replay", n |-> pushed]
    BY DEF Channel!ReplayOf
  <2>3. /\ push.at = "store" /\ push'.at = "idle" /\ lastSnapshot' = pushed
        /\ UNCHANGED <<pushed, caller, wire>>
    BY <1>5 DEF PushStore, PushGoto, TInv, TypeOK
  <2> HIDE DEF l
  <2>4. Channel!Store(l)
    BY <1>0, <2>1, <2>2, <2>3 DEF Channel!Store
  <2> QED BY <2>1, <2>4 DEF Channel!ChannelNext
<1>6. ASSUME NEW s \in Slaves, Connect(s) \/ OnNewSession(s) PROVE UNCHANGED Channel!vars
  <2>1. \A c \in Callers : caller'[c].n = caller[c].n
    BY <1>6, GotoHolds DEF Connect, OnNewSession, TInv
  <2>2. UNCHANGED <<pushed, push, lastSnapshot, wire>>
    BY <1>6 DEF Connect, OnNewSession, ReplayFrame
  <2> QED BY <2>1, <2>2, ChannelStutter DEF CLast
<1>7. ASSUME NEW r \in Requests, Request(r) PROVE UNCHANGED Channel!vars
  <2>1. \A c \in Callers : caller'[c].n = caller[c].n
    BY <1>7, GotoHolds DEF Request, ToggleTcp, PutRole, DeleteConfig, DisconnectAll, TInv
  <2>2. UNCHANGED <<pushed, push, lastSnapshot, wire>>
    BY <1>7 DEF Request, ToggleTcp, PutRole, DeleteConfig, DisconnectAll, ReplayFrame
  <2> QED BY <2>1, <2>2, ChannelStutter DEF CLast
<1>8. ASSUME NEW s \in Slaves, LinkLost(s) PROVE Channel!ChannelNext
  <2>1. /\ wire' = [wire EXCEPT ![s] = <<>>] /\ wire[s] \in Seq(Line)
        /\ UNCHANGED <<pushed, push, lastSnapshot, caller>>
    BY <1>8 DEF LinkLost, ReplayFrame, TInv, TypeOK
  <2>2. SubSeq(wire[s], 1, 0) = <<>> /\ 0 \in 0..Len(wire[s])
    BY <2>1
  <2>3. Channel!Lose(s, 0)
    BY <2>1, <2>2 DEF Channel!Lose
  <2> QED BY <2>2, <2>3 DEF Channel!ChannelNext
<1>9. ASSUME NEW s \in Slaves, Receive(s) PROVE Channel!ChannelNext
  <2>1. Channel!Take(s)
    BY <1>9 DEF Receive, dllVars, Channel!Take
  <2> QED BY <2>1 DEF Channel!ChannelNext
<1>10. ASSUME NEW c \in Callers, ReplayCheck(c) PROVE UNCHANGED Channel!vars
  <2>1. \A d \in Callers : caller'[d].n = caller[d].n
    BY <1>10, GotoHolds DEF ReplayCheck, Leave, TInv
  <2>2. UNCHANGED <<pushed, push, lastSnapshot, wire>>
    BY <1>10 DEF ReplayCheck, ReplayFrame
  <2> QED BY <2>1, <2>2, ChannelStutter DEF CLast
<1>11. ASSUME NEW c \in Callers, ReplayRead(c)
       PROVE  Channel!ChannelNext \/ UNCHANGED Channel!vars
  <2>1. UNCHANGED <<pushed, push, lastSnapshot, wire>>
    BY <1>11 DEF ReplayRead, ReplayFrame
  <2>2. CASE lastSnapshot = 0
    <3>1. \A d \in Callers : caller'[d].n = caller[d].n
      BY <1>11, <2>2, GotoHolds DEF ReplayRead, Leave, TInv
    <3> QED BY <2>1, <3>1, ChannelStutter DEF CLast
  <2>3. CASE lastSnapshot # 0
    <3>1. caller' = [caller EXCEPT ![c] = [at |-> "send", n |-> lastSnapshot]]
      BY <1>11, <2>3 DEF ReplayRead
    <3>2. CHeld' = [CHeld EXCEPT ![c] = CStored]
      BY <2>1, <2>3, <3>1 DEF CHeld, CStored, TInv, TypeOK
    <3>3. CStored # {}
      BY <2>3 DEF CStored
    <3>4. Channel!Read(c)
      BY <2>1, <3>2, <3>3 DEF Channel!Read, CHeld, CStored
    <3> QED BY <3>4 DEF Channel!ChannelNext
  <2> QED BY <2>2, <2>3
<1>12. ASSUME NEW c \in Callers, ReplaySend(c) PROVE Channel!ChannelNext
  <2> DEFINE l == [kind |-> "replay", n |-> caller[c].n]
  <2>1. PICK S \in SUBSET Slaves : Channel!Cast(l, S)
    BY <1>12, BroadcastCast DEF ReplaySend
  <2>2. caller[c].n # 0
    BY <1>12 DEF ReplaySend, TInv, CallerHolds
  <2>3. /\ caller' = [caller EXCEPT ![c] = [at |-> "idle", n |-> 0]]
        /\ UNCHANGED <<pushed, push, lastSnapshot>>
    BY <1>12 DEF ReplaySend, ReplayFrame
  <2>4. CHeld' = [CHeld EXCEPT ![c] = {}]
    BY <2>3 DEF CHeld, TInv, TypeOK
  <2>5. l \in CHeld[c]
    BY <2>2 DEF CHeld
  <2>6. Channel!Replay(c, S)
    BY <2>1, <2>3, <2>4, <2>5 DEF Channel!Replay, CHeld
  <2> QED BY <2>6 DEF Channel!ChannelNext
<1>13. CASE SendReadyNotification
  BY <1>13, ChannelStutter DEF SendReadyNotification, CLast
<1> QED
  BY <1>1, <1>2, <1>3, <1>4, <1>5, <1>6, <1>7, <1>8, <1>9, <1>10, <1>11, <1>12, <1>13
  DEF Next, MasterEA, Session, Replay

\* Seen from the two ends the DLL is an EventChannel: whatever holds of every
\* channel holds of the threads, locks and toggles of the DLL.
THEOREM FanoutIsChannel == Spec => ImplementsChannel
<1>1. TInv /\ [Next]_vars => [Channel!ChannelNext]_Channel!vars
  BY ChannelStep
<1> QED BY TInit, TNext, ChannelInitially, <1>1, PTL DEF Spec, ImplementsChannel, Channel!ChannelSpec
=============================================================================
