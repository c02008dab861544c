------------------------ MODULE TcpSessions_proofs -------------------------
(***************************************************************************)
(* Proofs about TcpSessions, for any number of connections, socket numbers *)
(* and lines.                                                              *)
(***************************************************************************)
EXTENDS TcpSessions, TLAPS

-----------------------------------------------------------------------------
(* Types.                                                                  *)

\* A handler moves from one place to another.
LEMMA GotoType ==
    ASSUME TypeOK, NEW c \in Conns, NEW from, NEW to \in Places, Goto(c, from, to)
    PROVE  /\ at' \in [Conns -> Places]
           /\ at[c] = from /\ at'[c] = to
           /\ \A d \in Conns \ {c} : at'[d] = at[d]
BY DEF Goto, TypeOK

\* A handler that replies has the line in its buffer.
HasLine == \A c \in Conns : at[c] = "reply" => buffer[c] # <<>>

TInv == TypeOK /\ HasLine

\* What is left of a sequence of lines after the first k.
LEMMA RestType ==
    ASSUME NEW lines \in Seq(Lines), NEW k \in 0..Len(lines)
    PROVE  SubSeq(lines, k + 1, Len(lines)) \in Seq(Lines)
OBVIOUS

\* Who a socket number stands for is a connection.
LEMMA BehindType ==
    ASSUME TypeOK, NEW c \in Conns
    PROVE  Behind(c) \in Conns \cup {Nobody}
BY DEF Behind, TypeOK, NoSock

\* The keys of a new session are keys.
LEMMA GenerateType ==
    ASSUME TypeOK, NEW c \in Conns, GenerateSessionId(c)
    PROVE  key' \in [Conns -> Conns] /\ twins' \in SUBSET Conns
BY DEF GenerateSessionId, TypeOK

\* Closing socket numbers.
LEMMA CloseType ==
    ASSUME TypeOK, NEW S, CloseSocks(S)
    PROVE  /\ owner' \in [Socks -> Conns \cup {Nobody}]
           /\ inbox' \in [Conns -> Seq(Lines)]
<1>1. owner' \in [Socks -> Conns \cup {Nobody}]
  BY DEF CloseSocks, TypeOK
<1>2. inbox' \in [Conns -> Seq(Lines)]
  BY DEF CloseSocks, TypeOK
<1> QED BY <1>1, <1>2

\* Cutting sessions off.
LEMMA CutType ==
    ASSUME TypeOK, NEW D, Cut(D)
    PROVE  /\ owner' \in [Socks -> Conns \cup {Nobody}]
           /\ inbox' \in [Conns -> Seq(Lines)]
           /\ sessions' \in [Conns -> Conns \cup {Nobody}]
           /\ lost' \in SUBSET Conns
<1>1. CloseSocks({sock[d] : d \in D})
  BY DEF Cut
<1>2. sessions' \in [Conns -> Conns \cup {Nobody}] /\ lost' \in SUBSET Conns
  BY DEF Cut, TypeOK
<1> QED BY <1>1, <1>2, CloseType

\* Every step of a handler.
LEMMA HandlerType ==
    ASSUME TInv, NEW c \in Conns, Handler(c)
    PROVE  TypeOK'
<1> USE DEF serverVars, threadVars, tableVars, peerVars, queueVars, historyVars
<1>0. TypeOK /\ HasLine
  BY DEF TInv
<1>1. CASE Handshake(c)
  <2>1. at' \in [Conns -> Places]
    BY <1>0, <1>1, GotoType DEF Handshake, Places
  <2>2. key' \in [Conns -> Conns] /\ twins' \in SUBSET Conns
    BY <1>0, <1>1, GenerateType DEF Handshake
  <2>3. Behind(c) \in Conns
    BY <1>0, <1>1, BehindType DEF Handshake
  <2>4. inbox[Behind(c)] \in Seq(Lines)
    BY <1>0, <2>3 DEF TypeOK
  <2>5. inbox' \in [Conns -> Seq(Lines)]
    BY <1>0, <1>1, <2>3, <2>4, RestType DEF Handshake, TypeOK
  <2> QED BY <1>0, <1>1, <2>1, <2>2, <2>5 DEF Handshake, TypeOK
<1>2. CASE HandshakeFails(c)
  <2>1. at' \in [Conns -> Places]
    BY <1>0, <1>2, GotoType DEF HandshakeFails, Places
  <2> QED BY <1>0, <1>2, <2>1 DEF HandshakeFails, TypeOK
<1>3. CASE InsertSession(c)
  <2>1. at' \in [Conns -> Places]
    BY <1>0, <1>3, GotoType DEF InsertSession, Places
  <2>2. sessions' \in [Conns -> Conns \cup {Nobody}]
    BY <1>0, <1>3 DEF InsertSession, TypeOK
  <2> QED BY <1>0, <1>3, <2>1, <2>2 DEF InsertSession, TypeOK
<1>4. CASE Receive(c)
  <2>1. Behind(c) \in Conns
    BY <1>0, <1>4, BehindType DEF Receive
  <2>2. inbox[Behind(c)] \in Seq(Lines)
    BY <1>0, <2>1 DEF TypeOK
  <2>3. PICK k \in 1..Len(inbox[Behind(c)]) :
           /\ buffer' = [buffer EXCEPT ![c] = SubSeq(inbox[Behind(c)], 1, k)]
           /\ inbox' = [inbox EXCEPT ![Behind(c)] = SubSeq(@, k + 1, Len(@))]
    BY <1>4 DEF Receive
  <2>4. SubSeq(inbox[Behind(c)], 1, k) \in Seq(Lines)
    BY <2>2
  <2>5. SubSeq(inbox[Behind(c)], k + 1, Len(inbox[Behind(c)])) \in Seq(Lines)
    BY <2>2, RestType
  <2>6. buffer' \in [Conns -> Seq(Lines)] /\ inbox' \in [Conns -> Seq(Lines)]
    BY <1>0, <2>1, <2>3, <2>4, <2>5 DEF TypeOK
  <2> QED BY <1>0, <1>4, <2>6 DEF Receive, TypeOK
<1>5. CASE ReceiveEnd(c)
  <2>1. at' \in [Conns -> Places]
    BY <1>0, <1>5, GotoType DEF ReceiveEnd, Places
  <2>2. Registered \subseteq Conns
    BY <1>0 DEF Registered, TypeOK
  <2>3. lost' \in SUBSET Conns
    BY <1>0, <1>5, <2>2 DEF ReceiveEnd, TypeOK
  <2> QED BY <1>0, <1>5, <2>1, <2>3 DEF ReceiveEnd, TypeOK
<1>6. CASE LeaveLoop(c)
  <2>1. at' \in [Conns -> Places]
    BY <1>0, <1>6, GotoType DEF LeaveLoop, Places
  <2> QED BY <1>0, <1>6, <2>1 DEF LeaveLoop, TypeOK
<1>7. CASE ProcessCommand(c)
  <2>1. at' \in [Conns -> Places]
    BY <1>0, <1>7, GotoType DEF ProcessCommand, Places
  <2>2. buffer[c] \in Seq(Lines) /\ buffer[c] # <<>>
    BY <1>0, <1>7 DEF ProcessCommand, TypeOK
  <2>3. Head(buffer[c]) \in Lines
    BY <2>2
  <2>4. queue \in Seq(Lines) /\ queue' \in {queue, Append(queue, Head(buffer[c]))}
    BY <1>0, <1>7 DEF ProcessCommand, Queued, TypeOK
  <2>5. queue' \in Seq(Lines)
    BY <2>3, <2>4
  <2> QED BY <1>0, <1>7, <2>1, <2>5 DEF ProcessCommand, TypeOK
<1>8. CASE SendResponse(c)
  <2>1. at' \in [Conns -> Places]
    BY <1>0, <1>8, GotoType DEF SendResponse, Places
  <2>2. buffer[c] \in Seq(Lines) /\ buffer[c] # <<>>
    BY <1>0, <1>8 DEF SendResponse, Goto, HasLine, TypeOK
  <2>3. Head(buffer[c]) \in Lines /\ Tail(buffer[c]) \in Seq(Lines)
    BY <2>2
  <2>4. buffer' = [buffer EXCEPT ![c] = Tail(buffer[c])]
    BY <1>8 DEF SendResponse
  <2>5. buffer' \in [Conns -> Seq(Lines)]
    BY <1>0, <2>3, <2>4 DEF TypeOK
  <2>6. answered' \in [Conns -> SUBSET Lines]
    <3>1. PICK line \in Lines : line = Head(buffer[c])
      BY <2>3
    <3>2. \/ answered' = answered
          \/ \E d \in Recipients(c) : answered' = [answered EXCEPT ![d] = {line}]
      BY <1>8, <3>1 DEF SendResponse
    <3>3. answered \in [Conns -> SUBSET Lines]
      BY <1>0 DEF TypeOK
    <3>4. {line} \in SUBSET Lines
      OBVIOUS
    <3> QED BY <3>2, <3>3, <3>4
  <2> QED BY <1>0, <1>8, <2>1, <2>5, <2>6 DEF SendResponse, TypeOK
<1>9. CASE EraseSession(c)
  <2>1. at' \in [Conns -> Places]
    BY <1>0, <1>9, GotoType DEF EraseSession, Places
  <2>2. sessions' \in [Conns -> Conns \cup {Nobody}]
    BY <1>0, <1>9 DEF EraseSession, TypeOK
  <2> QED BY <1>0, <1>9, <2>1, <2>2 DEF EraseSession, TypeOK
<1>10. CASE CloseOwnSocket(c)
  <2>1. at' \in [Conns -> Places]
    BY <1>0, <1>10, GotoType DEF CloseOwnSocket, Places
  <2>2. /\ owner' \in [Socks -> Conns \cup {Nobody}]
        /\ inbox' \in [Conns -> Seq(Lines)]
    BY <1>0, <1>10, CloseType DEF CloseOwnSocket
  <2>3. sock' \in [Conns -> Socks \cup {NoSock}]
    BY <1>0, <1>10 DEF CloseOwnSocket, TypeOK
  <2> QED BY <1>0, <1>10, <2>1, <2>2, <2>3 DEF CloseOwnSocket, TypeOK
<1> QED BY <1>1, <1>2, <1>3, <1>4, <1>5, <1>6, <1>7, <1>8, <1>9, <1>10 DEF Handler

\* A handler replies when it has processed the first line of its buffer.
LEMMA HandlerLine ==
    ASSUME TInv, NEW c \in Conns, Handler(c)
    PROVE  HasLine'
<1> USE DEF serverVars, threadVars, tableVars, peerVars, queueVars, historyVars
<1>1. TypeOK /\ HasLine
  BY DEF TInv
<1>2. PICK to \in Places : \/ at' = at
                           \/ Goto(c, at[c], to) /\ (to = "reply" => ProcessCommand(c))
  BY DEF Handler, Handshake, HandshakeFails, InsertSession, Receive, ReceiveEnd,
         LeaveLoop, ProcessCommand, SendResponse, EraseSession, CloseOwnSocket, Goto,
         Places
<1>3. \A d \in Conns \ {c} : at'[d] = at[d] /\ buffer'[d] = buffer[d]
  <2>1. \A d \in Conns \ {c} : at'[d] = at[d]
    BY <1>1, <1>2 DEF Goto, TypeOK
  <2>2. \A d \in Conns \ {c} : buffer'[d] = buffer[d]
    BY <1>1 DEF Handler, Handshake, HandshakeFails, InsertSession, Receive, ReceiveEnd,
         LeaveLoop, ProcessCommand, SendResponse, EraseSession, CloseOwnSocket, TypeOK
  <2> QED BY <2>1, <2>2
<1>4. at'[c] = "reply" => buffer'[c] # <<>>
  <2>1. CASE ProcessCommand(c)
    BY <2>1 DEF ProcessCommand
  <2>2. CASE ~ProcessCommand(c)
    <3>1. CASE Receive(c)
      BY <3>1 DEF Receive
    <3>2. CASE ~Receive(c)
      <4>1. \E from, place : Goto(c, from, place) /\ place # "reply"
        BY <2>2, <3>2 DEF Handler, Handshake, HandshakeFails, InsertSession,
           ReceiveEnd, LeaveLoop, SendResponse, EraseSession, CloseOwnSocket
      <4> QED BY <1>1, <4>1 DEF Goto, TypeOK
    <3> QED BY <3>1, <3>2
  <2> QED BY <2>1, <2>2
<1> QED BY <1>1, <1>3, <1>4 DEF HasLine

\* Nothing has been accepted yet.
LEMMA TInit == Init => TInv
<1> SUFFICES ASSUME Init PROVE TInv
  OBVIOUS
<1>1. <<>> \in Seq(Lines)
  OBVIOUS
<1>2. TypeOK
  BY <1>1, SessionsAssumption DEF Init, TypeOK, Places, NoSock, Nobody
<1>3. HasLine
  BY DEF Init, HasLine
<1> QED BY <1>2, <1>3 DEF TInv

\* Every step of handlers, peers, broadcasts, stop, start and the EA.
LEMMA TNext == TInv /\ [Next]_vars => TInv'
<1> SUFFICES ASSUME TInv, [Next]_vars PROVE TInv'
  OBVIOUS
<1> USE DEF serverVars, threadVars, tableVars, peerVars, queueVars, historyVars
<1>1. TypeOK /\ HasLine
  BY DEF TInv
<1>2. CASE UNCHANGED vars
  BY <1>1, <1>2 DEF vars, TInv, TypeOK, HasLine
<1>3. ASSUME NEW c \in Conns, Accept(c) PROVE TInv'
  <2>1. at' \in [Conns -> Places] /\ \A d \in Conns : at'[d] = "reply" => at[d] = "reply"
    BY <1>1, <1>3, GotoType DEF Accept, Places
  <2>2. PICK s \in Socks : /\ owner' = [owner EXCEPT ![s] = c]
                           /\ sock' = [sock EXCEPT ![c] = s]
    BY <1>3 DEF Accept
  <2>3. /\ owner' \in [Socks -> Conns \cup {Nobody}]
        /\ sock' \in [Conns -> Socks \cup {NoSock}]
    BY <1>1, <2>2 DEF TypeOK
  <2>4. shared' \in SUBSET Conns
    BY <1>1, <1>3 DEF Accept, TypeOK
  <2>5. TypeOK'
    BY <1>1, <1>3, <2>1, <2>3, <2>4 DEF Accept, TypeOK
  <2> QED BY <1>1, <1>3, <2>1, <2>5 DEF Accept, TInv, HasLine
<1>4. ASSUME NEW c \in Conns, PeerSends(c) PROVE TInv'
  <2>1. sent' \in 1..MaxLines /\ inbox[c] \in Seq(Lines)
    BY <1>1, <1>4, SessionsAssumption DEF PeerSends, TypeOK
  <2>2. <<c, sent'>> \in Lines
    BY <2>1 DEF Lines
  <2>3. Append(inbox[c], <<c, sent'>>) \in Seq(Lines)
    BY <2>1, <2>2
  <2>4. inbox' = [inbox EXCEPT ![c] = Append(inbox[c], <<c, sent'>>)]
    BY <1>4 DEF PeerSends
  <2>5. inbox' \in [Conns -> Seq(Lines)]
    BY <1>1, <2>3, <2>4 DEF TypeOK
  <2> QED BY <1>1, <1>4, <2>1, <2>5 DEF PeerSends, TInv, TypeOK, HasLine
<1>5. ASSUME NEW c \in Conns, PeerCloses(c) PROVE TInv'
  BY <1>1, <1>5 DEF PeerCloses, TInv, TypeOK, HasLine
<1>6. ASSUME NEW c \in Conns, Handler(c) PROVE TInv'
  BY <1>6, HandlerType, HandlerLine DEF TInv
<1>7. CASE BroadcastToAll \/ DisconnectAllClients \/ StopSessions
  <2>1. PICK D : Cut(D)
    BY <1>7 DEF BroadcastToAll, DisconnectAllClients, StopSessions
  <2>2. /\ owner' \in [Socks -> Conns \cup {Nobody}]
        /\ inbox' \in [Conns -> Seq(Lines)]
        /\ sessions' \in [Conns -> Conns \cup {Nobody}]
        /\ lost' \in SUBSET Conns
    BY <1>1, <2>1, CutType
  <2> QED BY <1>1, <1>7, <2>2 DEF BroadcastToAll, DisconnectAllClients, StopSessions,
                                  TInv, TypeOK, HasLine
<1>8. CASE Stop \/ Start
  BY <1>1, <1>8 DEF Stop, Start, TInv, TypeOK, HasLine
<1>9. CASE PollNextCommand
  <2>1. queue \in Seq(Lines) /\ queue # <<>>
    BY <1>1, <1>9 DEF PollNextCommand, TypeOK
  <2>2. Head(queue) \in Lines /\ Tail(queue) \in Seq(Lines)
    BY <2>1
  <2>3. Head(queue)[1] \in Conns /\ Head(queue)[2] \in 1..MaxLines
    BY <2>2 DEF Lines
  <2>4. polled' \in [Conns -> 0..MaxLines]
    BY <1>1, <1>9, <2>3, SessionsAssumption DEF PollNextCommand, TypeOK
  <2> QED BY <1>1, <1>9, <2>2, <2>4 DEF PollNextCommand, TInv, TypeOK, HasLine
<1>10. CASE ClearQueue
  <2>1. <<>> \in Seq(Lines)
    OBVIOUS
  <2> QED BY <1>1, <1>10, <2>1 DEF ClearQueue, TInv, TypeOK, HasLine
<1> QED BY <1>2, <1>3, <1>4, <1>5, <1>6, <1>7, <1>8, <1>9, <1>10 DEF Next

\* Handlers, peers, broadcasts, stop and start keep every variable in its type.
THEOREM SessionTypes == Spec => []TypeOK
<1>1. TInv => TypeOK
  BY DEF TInv
<1> QED BY <1>1, TInit, TNext, PTL DEF Spec

-----------------------------------------------------------------------------
(* Sessions and their handlers.                                            *)

\* Two handlers with the same key have drawn it together.
KeysApart == \A c, d \in Conns : c # d /\ key[c] = key[d] => {c, d} \subseteq twins

\* A session is stored under the key of its handler, which has not ended.
SessionsServed ==
    \A k \in Conns : sessions[k] # Nobody =>
        key[sessions[k]] = k /\ at[sessions[k]] \in {"loop", "reply", "erase"}

\* A handler that serves an intact connection is the one its key finds.
ServedFound ==
    \A c \in Conns \ twins :
        at[c] \in {"loop", "reply"} /\ owner[sock[c]] = c => sessions[key[c]] = c

\* A handler that runs has a socket number.
HasSock == \A c \in Conns : at[c] \notin {"none", "done"} => sock[c] \in Socks

HInv == TypeOK /\ KeysApart /\ SessionsServed /\ ServedFound /\ HasSock

\* Every handler draws a key of its own to begin with.
LEMMA HInit == Init => HInv
<1>1. Init => TypeOK
  BY TInit DEF TInv
<1> QED BY <1>1 DEF Init, HInv, KeysApart, SessionsServed, ServedFound, HasSock

\* A step that concerns no key, number or session.
LEMMA AsideStep ==
    ASSUME HInv, TypeOK', UNCHANGED <<key, sock, owner, sessions, twins>>,
           \A c \in Conns : \/ at'[c] = at[c]
                            \/ at[c] \in {"loop", "reply"} /\ at'[c] \in {"loop", "reply"}
                            \/ at[c] = "loop" /\ at'[c] = "erase"
                            \/ at[c] = "handshake" /\ at'[c] = "close"
    PROVE  HInv'
<1>1. KeysApart'
  BY DEF HInv, KeysApart
<1>2. SessionsServed'
  <2>1. \A k \in Conns : sessions[k] # Nobody => sessions[k] \in Conns
    BY DEF HInv, TypeOK
  <2> QED BY <2>1 DEF HInv, SessionsServed
<1>3. ServedFound' /\ HasSock'
  BY DEF HInv, ServedFound, HasSock
<1> QED BY <1>1, <1>2, <1>3 DEF HInv

\* Sessions that are cut off lose their numbers with their place.
LEMMA CutStep ==
    ASSUME HInv, TypeOK', NEW D, Cut(D), UNCHANGED <<at, key, sock, twins>>
    PROVE  HInv'
<1>1. /\ \A k \in Conns : sessions'[k] = IF sessions[k] \in D THEN Nobody
                                                              ELSE sessions[k]
      /\ \A s \in Socks : owner'[s] = IF \E d \in D : s = sock[d] THEN Nobody
                                                                  ELSE owner[s]
  BY DEF Cut, CloseSocks
<1>2. KeysApart' /\ HasSock'
  BY DEF HInv, KeysApart, HasSock
<1>3. SessionsServed'
  BY <1>1 DEF HInv, SessionsServed
<1>4. ServedFound'
  <2> SUFFICES ASSUME NEW c \in Conns \ twins, at[c] \in {"loop", "reply"},
                      owner'[sock[c]] = c
               PROVE  sessions'[key[c]] = c
    BY DEF ServedFound
  <2>1. /\ sock[c] \in Socks
        /\ key[c] \in Conns
        /\ c # Nobody
    <3>1. sock[c] \in Socks
      BY DEF HInv, HasSock
    <3>2. key[c] \in Conns
      BY DEF HInv, TypeOK
    <3>3. c # Nobody
      BY DEF Nobody, Conns
    <3> QED BY <3>1, <3>2, <3>3
  <2>2. c \notin D /\ owner[sock[c]] = c
    BY <1>1, <2>1
  <2>3. sessions[key[c]] = c
    BY <2>2 DEF HInv, ServedFound
  <2> QED BY <1>1, <2>1, <2>2, <2>3
<1> QED BY <1>2, <1>3, <1>4 DEF HInv

\* A handler that does not serve is not in the map.
LEMMA OutOfMap ==
    ASSUME TypeOK, SessionsServed, NEW c \in Conns,
           at[c] \notin {"loop", "reply", "erase"}
    PROVE  \A k \in Conns : sessions[k] # Nobody =>
              sessions[k] \in Conns /\ sessions[k] # c
<1>1. \A k \in Conns : sessions[k] # Nobody => sessions[k] \in Conns
  BY DEF TypeOK
<1>2. \A k \in Conns : sessions[k] # Nobody => sessions[k] # c
  BY DEF SessionsServed
<1> QED BY <1>1, <1>2

\* Every step of a handler.
LEMMA HandlerStep ==
    ASSUME HInv, TypeOK', NEW c \in Conns, Handler(c)
    PROVE  HInv'
<1> USE DEF serverVars, threadVars, tableVars, peerVars, queueVars, historyVars
<1>0. TypeOK /\ KeysApart /\ SessionsServed /\ ServedFound /\ HasSock
  BY DEF HInv
<1>1. CASE Handshake(c)
  <2>1. /\ at[c] = "handshake" /\ at'[c] = "insert"
        /\ \A d \in Conns \ {c} : at'[d] = at[d]
    BY <1>0, <1>1, GotoType DEF Handshake, Places
  <2>2. UNCHANGED <<sock, owner, sessions>>
    BY <1>1 DEF Handshake
  <2>3. PICK d \in Conns :
           /\ key' = [key EXCEPT ![c] = key[d]]
           /\ twins' = IF d = c THEN twins ELSE twins \cup {c, d}
    BY <1>1 DEF Handshake, GenerateSessionId
  <2>4. key'[c] = key[d] /\ \A e \in Conns \ {c} : key'[e] = key[e]
    BY <1>0, <2>3 DEF TypeOK
  <2>5. KeysApart'
    BY <1>0, <2>3, <2>4 DEF KeysApart
  <2>6. SessionsServed'
    <3>1. \A k \in Conns : sessions[k] # Nobody =>
            sessions[k] \in Conns /\ sessions[k] # c
      BY <1>0, <2>1, OutOfMap
    <3> QED BY <1>0, <2>1, <2>2, <2>4, <3>1 DEF SessionsServed
  <2>7. twins \subseteq twins'
    BY <2>3
  <2>8. ServedFound' /\ HasSock'
    BY <1>0, <2>1, <2>2, <2>4, <2>7 DEF ServedFound, HasSock
  <2> QED BY <2>5, <2>6, <2>8 DEF HInv
<1>2. CASE InsertSession(c)
  <2>1. /\ at[c] = "insert" /\ at'[c] = "loop"
        /\ \A d \in Conns \ {c} : at'[d] = at[d]
    BY <1>0, <1>2, GotoType DEF InsertSession, Places
  <2>2. /\ UNCHANGED <<key, sock, owner, twins>>
        /\ key[c] \in Conns
        /\ sessions' = [sessions EXCEPT ![key[c]] = c]
    BY <1>0, <1>2 DEF InsertSession, TypeOK
  <2>3. /\ sessions'[key[c]] = c
        /\ \A k \in Conns \ {key[c]} : sessions'[k] = sessions[k]
    BY <1>0, <2>2 DEF TypeOK
  <2>4. KeysApart' /\ HasSock'
    BY <1>0, <2>1, <2>2 DEF KeysApart, HasSock
  <2>5. SessionsServed'
    <3>1. \A k \in Conns : sessions[k] # Nobody =>
            sessions[k] \in Conns /\ sessions[k] # c
      BY <1>0, <2>1, OutOfMap
    <3> QED BY <1>0, <2>1, <2>2, <2>3, <3>1 DEF SessionsServed
  <2>6. ServedFound'
    BY <1>0, <2>1, <2>2, <2>3 DEF ServedFound, KeysApart, TypeOK
  <2> QED BY <2>4, <2>5, <2>6 DEF HInv
<1>3. CASE EraseSession(c)
  <2>1. /\ at[c] = "erase" /\ at'[c] = "close"
        /\ \A d \in Conns \ {c} : at'[d] = at[d]
    BY <1>0, <1>3, GotoType DEF EraseSession, Places
  <2>2. /\ UNCHANGED <<key, sock, owner, twins>>
        /\ key[c] \in Conns
        /\ sessions' = [sessions EXCEPT ![key[c]] = Nobody]
    BY <1>0, <1>3 DEF EraseSession, TypeOK
  <2>3. /\ sessions'[key[c]] = Nobody
        /\ \A k \in Conns \ {key[c]} : sessions'[k] = sessions[k]
    BY <1>0, <2>2 DEF TypeOK
  <2>4. KeysApart' /\ HasSock'
    BY <1>0, <2>1, <2>2 DEF KeysApart, HasSock
  <2>5. SessionsServed'
    <3>1. \A k \in Conns \ {key[c]} : sessions[k] # Nobody =>
            sessions[k] \in Conns /\ sessions[k] # c
      BY <1>0 DEF SessionsServed, TypeOK
    <3> QED BY <1>0, <2>1, <2>2, <2>3, <3>1 DEF SessionsServed
  <2>6. ServedFound'
    BY <1>0, <2>1, <2>2, <2>3 DEF ServedFound, KeysApart, TypeOK
  <2> QED BY <2>4, <2>5, <2>6 DEF HInv
<1>4. CASE CloseOwnSocket(c)
  <2>1. /\ at[c] = "close" /\ at'[c] = "done"
        /\ \A d \in Conns \ {c} : at'[d] = at[d]
    BY <1>0, <1>4, GotoType DEF CloseOwnSocket, Places
  <2>2. /\ UNCHANGED <<key, sessions, twins>>
        /\ \A d \in Conns \ {c} : sock'[d] = sock[d]
        /\ \A s \in Socks : owner'[s] \in {owner[s], Nobody}
    BY <1>0, <1>4 DEF CloseOwnSocket, CloseSocks, TypeOK
  <2>3. KeysApart' /\ HasSock'
    BY <1>0, <2>1, <2>2 DEF KeysApart, HasSock
  <2>4. SessionsServed'
    <3>1. \A k \in Conns : sessions[k] # Nobody =>
            sessions[k] \in Conns /\ sessions[k] # c
      BY <1>0, <2>1, OutOfMap
    <3> QED BY <1>0, <2>1, <2>2, <3>1 DEF SessionsServed
  <2>5. ServedFound'
    <3> SUFFICES ASSUME NEW d \in Conns \ twins', at'[d] \in {"loop", "reply"},
                        owner'[sock'[d]] = d
                 PROVE  sessions'[key'[d]] = d
      BY DEF ServedFound
    <3>1. d # c /\ at[d] \in {"loop", "reply"} /\ sock'[d] = sock[d] /\ d # Nobody
      BY <2>1, <2>2 DEF Nobody, Conns
    <3>2. sock[d] \in Socks
      BY <1>0, <3>1 DEF HasSock
    <3>3. owner[sock[d]] = d
      BY <2>2, <3>1, <3>2
    <3> QED BY <1>0, <2>2, <3>1, <3>3 DEF ServedFound
  <2> QED BY <2>3, <2>4, <2>5 DEF HInv
<1>5. CASE \/ HandshakeFails(c) \/ Receive(c) \/ ReceiveEnd(c) \/ LeaveLoop(c)
           \/ ProcessCommand(c) \/ SendResponse(c)
  <2>1. UNCHANGED <<key, sock, owner, sessions, twins>>
    BY <1>5 DEF HandshakeFails, Receive, ReceiveEnd, LeaveLoop, ProcessCommand,
                SendResponse
  <2>2. \/ at' = at
        \/ Goto(c, "loop", "reply") \/ Goto(c, "reply", "loop")
        \/ Goto(c, "loop", "erase") \/ Goto(c, "handshake", "close")
    BY <1>5 DEF HandshakeFails, Receive, ReceiveEnd, LeaveLoop, ProcessCommand,
                SendResponse
  <2>3. \A d \in Conns :
           \/ at'[d] = at[d]
           \/ at[d] \in {"loop", "reply"} /\ at'[d] \in {"loop", "reply"}
           \/ at[d] = "loop" /\ at'[d] = "erase"
           \/ at[d] = "handshake" /\ at'[d] = "close"
    BY <1>0, <2>2 DEF Goto, TypeOK
  <2> QED BY <2>1, <2>3, AsideStep
<1> QED BY <1>1, <1>2, <1>3, <1>4, <1>5 DEF Handler

\* Every step keeps sessions and handlers together.
LEMMA HNext == HInv /\ TypeOK' /\ [Next]_vars => HInv'
<1> SUFFICES ASSUME HInv, TypeOK', [Next]_vars PROVE HInv'
  OBVIOUS
<1> USE DEF serverVars, threadVars, tableVars, peerVars, queueVars, historyVars
<1>0. TypeOK /\ KeysApart /\ SessionsServed /\ ServedFound /\ HasSock
  BY DEF HInv
<1>1. CASE UNCHANGED vars
  BY <1>1, AsideStep DEF vars
<1>2. ASSUME NEW c \in Conns, Accept(c) PROVE HInv'
  <2>1. /\ at[c] = "none" /\ at'[c] = "handshake"
        /\ \A d \in Conns \ {c} : at'[d] = at[d]
    BY <1>0, <1>2, GotoType DEF Accept, Places
  <2>2. PICK s \in Socks : /\ owner[s] = Nobody
                           /\ owner' = [owner EXCEPT ![s] = c]
                           /\ sock' = [sock EXCEPT ![c] = s]
    BY <1>2 DEF Accept
  <2>3. UNCHANGED <<key, sessions, twins>>
    BY <1>2 DEF Accept
  <2>4. /\ owner'[s] = c /\ \A t \in Socks \ {s} : owner'[t] = owner[t]
        /\ sock'[c] = s /\ \A d \in Conns \ {c} : sock'[d] = sock[d]
    BY <1>0, <2>2 DEF TypeOK
  <2>5. KeysApart' /\ HasSock'
    BY <1>0, <2>1, <2>3, <2>4 DEF KeysApart, HasSock
  <2>6. SessionsServed'
    <3>1. \A k \in Conns : sessions[k] # Nobody =>
            sessions[k] \in Conns /\ sessions[k] # c
      BY <1>0, <2>1, OutOfMap
    <3> QED BY <1>0, <2>1, <2>3, <3>1 DEF SessionsServed
  <2>7. ServedFound'
    <3> SUFFICES ASSUME NEW d \in Conns \ twins', at'[d] \in {"loop", "reply"},
                        owner'[sock'[d]] = d
                 PROVE  sessions'[key'[d]] = d
      BY DEF ServedFound
    <3>1. d # c /\ at[d] \in {"loop", "reply"} /\ sock'[d] = sock[d]
      BY <2>1, <2>4
    <3>2. sock[d] \in Socks
      BY <1>0, <3>1 DEF HasSock
    <3>3. owner[sock[d]] = d
      BY <2>4, <3>1, <3>2
    <3> QED BY <1>0, <2>3, <3>1, <3>3 DEF ServedFound
  <2> QED BY <2>5, <2>6, <2>7 DEF HInv
<1>3. ASSUME NEW c \in Conns, PeerSends(c) \/ PeerCloses(c) PROVE HInv'
  BY <1>3, AsideStep DEF PeerSends, PeerCloses
<1>4. ASSUME NEW c \in Conns, Handler(c) PROVE HInv'
  BY <1>4, HandlerStep
<1>5. CASE BroadcastToAll \/ DisconnectAllClients \/ StopSessions
  BY <1>5, CutStep DEF BroadcastToAll, DisconnectAllClients, StopSessions
<1>6. CASE Stop \/ Start \/ PollNextCommand \/ ClearQueue
  BY <1>6, AsideStep DEF Stop, Start, PollNextCommand, ClearQueue
<1> QED BY <1>1, <1>2, <1>3, <1>4, <1>5, <1>6 DEF Next

\* While a handler serves an intact connection its session is registered, and a
\* registered session has a handler that has not ended.
THEOREM SessionsServedByHandlers == Spec => []SessionsMatchHandlers
<1>1. HInv => SessionsMatchHandlers
  <2> SUFFICES ASSUME HInv PROVE SessionsMatchHandlers
    OBVIOUS
  <2>1. ASSUME NEW c \in Conns \ twins, at[c] \in {"loop", "reply"},
               owner[sock[c]] = c
        PROVE  c \in Registered
    <3>1. sessions[key[c]] = c /\ key[c] \in Conns /\ c # Nobody
      BY <2>1 DEF HInv, ServedFound, TypeOK, Conns, Nobody
    <3> QED BY <3>1 DEF Registered
  <2>2. \A c \in Registered : at[c] \in {"loop", "reply", "erase"}
    BY DEF HInv, SessionsServed, Registered
  <2> QED BY <2>1, <2>2 DEF SessionsMatchHandlers
<1>2. TInv => TypeOK
  BY DEF TInv
<1> QED BY <1>1, <1>2, TInit, TNext, HInit, HNext, PTL DEF Spec

-----------------------------------------------------------------------------
(* Replies.                                                                *)

\* A connection whose number another handler holds is shared.
SharedNumbers ==
    \A c, h \in Conns : h # c /\ sock[h] \in Socks /\ owner[sock[h]] = c => c \in shared

\* A connection that has not been accepted has no number and no lines.
NotYet ==
    \A c \in Conns : at[c] = "none" =>
        /\ \A s \in Socks : owner[s] # c
        /\ buffer[c] = <<>> /\ inbox[c] = <<>> /\ answered[c] = {}

\* The lines of a peer, as they were sent.
Own(c, lines) == \A i \in 1..Len(lines) : lines[i][1] = c /\ lines[i][2] <= sent
Rising(lines) == \A i, j \in 1..Len(lines) : i < j => lines[i][2] < lines[j][2]
Before(lines, more) ==
    \A i \in 1..Len(lines), j \in 1..Len(more) : lines[i][2] < more[j][2]
Answered(c, lines) == \A old \in answered[c], i \in 1..Len(lines) : old[2] < lines[i][2]

InOrder(c) ==
    /\ \A old \in answered[c] : old[2] <= sent
    /\ Own(c, buffer[c]) /\ Own(c, inbox[c])
    /\ Rising(buffer[c]) /\ Rising(inbox[c]) /\ Before(buffer[c], inbox[c])
    /\ Answered(c, buffer[c]) /\ Answered(c, inbox[c])

\* The number of the handler stands for its own connection, and for it alone.
Mine(c) == sock[c] \in Socks /\ owner[sock[c]] = c /\ c \notin shared

RepliesKept == SharedNumbers /\ NotYet /\ \A c \in Conns : Mine(c) => InOrder(c)

RInv == TInv /\ RepliesKept

\* Nothing has been sent.
LEMMA RInit == Init => RInv
BY TInit DEF Init, RInv, RepliesKept, SharedNumbers, NotYet, Mine, NoSock, Nobody, Socks, Conns

\* Who is behind a number that is nobody else's is the handler itself.
LEMMA BehindMine ==
    ASSUME TypeOK, SharedNumbers, NEW h \in Conns, NEW c \in Conns, Behind(h) = c,
           c \notin shared
    PROVE  h = c /\ Mine(c)
<1>1. sock[h] \in Socks /\ owner[sock[h]] = c
  BY DEF Behind, TypeOK, Nobody, NoSock, Conns, Socks
<1> QED BY <1>1 DEF SharedNumbers, Mine

\* Lines are numbered.
LEMMA LineNumbers ==
    ASSUME NEW lines \in Seq(Lines)
    PROVE  \A i \in 1..Len(lines) : lines[i][2] \in Nat
BY SessionsAssumption DEF Lines

\* The last lines of a sequence are lines of it, in the same order.
LEMMA LastLines ==
    ASSUME NEW lines \in Seq(Lines), NEW k \in 0..Len(lines)
    PROVE  /\ Len(SubSeq(lines, k + 1, Len(lines))) = Len(lines) - k
           /\ \A i \in 1..(Len(lines) - k) :
                 SubSeq(lines, k + 1, Len(lines))[i] = lines[i + k]
OBVIOUS

\* Nothing is added to what a peer has sent and been told.
LEMMA OrderKept ==
    ASSUME TInv, NEW c \in Conns, InOrder(c), sent' = sent,
           buffer'[c] = buffer[c], answered'[c] = answered[c],
           \/ inbox'[c] = <<>>
           \/ \E k \in 0..Len(inbox[c]) :
                 inbox'[c] = SubSeq(inbox[c], k + 1, Len(inbox[c]))
    PROVE  InOrder(c)'
<1>1. buffer[c] \in Seq(Lines) /\ inbox[c] \in Seq(Lines)
  BY DEF TInv, TypeOK
<1>2. CASE inbox'[c] = <<>>
  BY <1>1, <1>2 DEF InOrder, Own, Rising, Before, Answered
<1>3. ASSUME NEW k \in 0..Len(inbox[c]),
             inbox'[c] = SubSeq(inbox[c], k + 1, Len(inbox[c]))
      PROVE  InOrder(c)'
  <2>1. /\ Len(inbox'[c]) = Len(inbox[c]) - k
        /\ \A i \in 1..(Len(inbox[c]) - k) : inbox'[c][i] = inbox[c][i + k]
    BY <1>1, <1>3, LastLines
  <2>2. \A i \in 1..Len(inbox'[c]) : i + k \in 1..Len(inbox[c])
    BY <1>1, <2>1
  <2>3. Own(c, inbox[c])' /\ Answered(c, inbox[c])'
    BY <2>1, <2>2 DEF InOrder, Own, Answered
  <2>4. Before(buffer[c], inbox[c])'
    BY <2>1, <2>2 DEF InOrder, Before
  <2>5. Rising(inbox[c])'
    <3> SUFFICES ASSUME NEW i \in 1..Len(inbox'[c]), NEW j \in 1..Len(inbox'[c]), i < j
                 PROVE  inbox'[c][i][2] < inbox'[c][j][2]
      BY DEF Rising
    <3>1. i + k < j + k /\ i + k \in 1..Len(inbox[c]) /\ j + k \in 1..Len(inbox[c])
      BY <2>2
    <3> QED BY <2>1, <3>1 DEF InOrder, Rising
  <2>6. Own(c, buffer[c])' /\ Rising(buffer[c])' /\ Answered(c, buffer[c])'
    BY DEF InOrder, Own, Rising, Answered
  <2> QED BY <2>3, <2>4, <2>5, <2>6 DEF InOrder
<1> QED BY <1>2, <1>3

\* A step that leaves all lines and answers as they are.
LEMMA LinesKept ==
    ASSUME TInv, NEW c \in Conns, InOrder(c), sent' = sent, buffer'[c] = buffer[c],
           answered'[c] = answered[c], inbox'[c] = inbox[c]
    PROVE  InOrder(c)'
BY DEF InOrder, Own, Rising, Before, Answered

\* A step after which no number stands for anyone else than before.
LEMMA NumbersKept ==
    ASSUME RInv, shared' = shared,
           \A c \in Conns : /\ sock'[c] \in {sock[c], NoSock}
                            /\ at[c] # "none" => at'[c] # "none",
           \A s \in Socks : owner'[s] \in {owner[s], Nobody}
    PROVE  SharedNumbers' /\ \A c \in Conns : Mine(c)' => Mine(c)
<1>1. NoSock \notin Socks /\ Nobody \notin Conns
  BY DEF NoSock, Nobody, Socks, Conns
<1>2. SharedNumbers'
  BY <1>1 DEF RInv, RepliesKept, SharedNumbers
<1>3. \A c \in Conns : Mine(c)' => Mine(c)
  BY <1>1 DEF Mine
<1> QED BY <1>2, <1>3

\* Numbers are closed, by whomever.
LEMMA CloseKeeps ==
    ASSUME RInv, NEW S, CloseSocks(S), UNCHANGED <<buffer, sent, answered, shared>>,
           \A c \in Conns : /\ sock'[c] \in {sock[c], NoSock}
                            /\ at[c] # "none" => at'[c] # "none"
    PROVE  RepliesKept'
<1>1. /\ \A s \in Socks : owner'[s] \in {owner[s], Nobody}
      /\ \A c \in Conns : inbox'[c] \in {inbox[c], <<>>}
  BY DEF CloseSocks
<1>2. SharedNumbers' /\ \A c \in Conns : Mine(c)' => Mine(c)
  BY <1>1, NumbersKept
<1>3. NotYet'
  BY <1>1 DEF RInv, RepliesKept, NotYet, Conns, Nobody
<1>4. ASSUME NEW c \in Conns, Mine(c)' PROVE InOrder(c)'
  <2>1. InOrder(c) /\ TInv
    BY <1>2, <1>4 DEF RInv, RepliesKept
  <2> QED BY <1>1, <2>1, OrderKept, LinesKept
<1> QED BY <1>2, <1>3, <1>4 DEF RepliesKept

\* A step that touches neither numbers nor lines.
LEMMA QuietKeeps ==
    ASSUME RInv, UNCHANGED <<sock, owner, buffer, inbox, sent, answered, shared>>,
           \A c \in Conns : at[c] # "none" => at'[c] # "none"
    PROVE  RepliesKept'
<1>1. SharedNumbers' /\ \A c \in Conns : Mine(c)' => Mine(c)
  BY NumbersKept
<1>2. NotYet'
  BY DEF RInv, RepliesKept, NotYet
<1>3. ASSUME NEW c \in Conns, Mine(c)' PROVE InOrder(c)'
  <2>1. InOrder(c) /\ TInv
    BY <1>1, <1>3 DEF RInv, RepliesKept
  <2> QED BY <2>1, LinesKept
<1> QED BY <1>1, <1>2, <1>3 DEF RepliesKept

\* A new connection has no lines; with a number that is in use it is shared.
LEMMA AcceptKeeps ==
    ASSUME RInv, NEW c \in Conns, Accept(c)
    PROVE  RepliesKept'
<1> USE DEF serverVars, threadVars, tableVars, peerVars, queueVars, historyVars
<1>0. TypeOK /\ TInv /\ SharedNumbers /\ NotYet
  BY DEF RInv, RepliesKept, TInv
<1>1. /\ at[c] = "none" /\ at'[c] = "handshake"
      /\ \A d \in Conns \ {c} : at'[d] = at[d]
  BY <1>0, GotoType DEF Accept, Places
<1>2. PICK s \in Socks :
         /\ owner' = [owner EXCEPT ![s] = c]
         /\ sock' = [sock EXCEPT ![c] = s]
         /\ shared' = IF \E d \in Conns : sock[d] = s THEN shared \cup {c} ELSE shared
  BY DEF Accept
<1>3. UNCHANGED <<buffer, sent, inbox, answered>>
  BY DEF Accept
<1>4. /\ owner'[s] = c /\ \A t \in Socks \ {s} : owner'[t] = owner[t]
      /\ sock'[c] = s /\ \A d \in Conns \ {c} : sock'[d] = sock[d]
  BY <1>0, <1>2 DEF TypeOK
<1>5. SharedNumbers'
  <2> SUFFICES ASSUME NEW d \in Conns, NEW h \in Conns, h # d, sock'[h] \in Socks,
                      owner'[sock'[h]] = d
               PROVE  d \in shared'
    BY DEF SharedNumbers
  <2>1. CASE sock'[h] = s
    BY <1>2, <1>4, <2>1
  <2>2. CASE sock'[h] # s
    BY <1>0, <1>2, <1>4, <2>2 DEF SharedNumbers
  <2> QED BY <2>1, <2>2
<1>6. NotYet'
  BY <1>0, <1>1, <1>3, <1>4 DEF NotYet
<1>7. ASSUME NEW d \in Conns, Mine(d)' PROVE InOrder(d)'
  <2>1. CASE d = c
    <3>1. buffer'[d] = <<>> /\ inbox'[d] = <<>> /\ answered'[d] = {}
      BY <1>0, <1>1, <1>3, <2>1 DEF NotYet
    <3> QED BY <3>1 DEF InOrder, Own, Rising, Before, Answered
  <2>2. CASE d # c
    <3>1. Mine(d)
      BY <1>2, <1>4, <1>7, <2>2 DEF Mine
    <3> QED BY <1>0, <1>3, <3>1, LinesKept DEF RInv, RepliesKept
  <2> QED BY <2>1, <2>2
<1> QED BY <1>5, <1>6, <1>7 DEF RepliesKept

\* The new line of a peer comes last.
LEMMA PeerSendsKeeps ==
    ASSUME RInv, NEW d \in Conns, PeerSends(d)
    PROVE  RepliesKept'
<1> USE DEF serverVars, threadVars, tableVars, peerVars, queueVars, historyVars
<1>0. TypeOK /\ TInv /\ SharedNumbers /\ NotYet
  BY DEF RInv, RepliesKept, TInv
<1>1. UNCHANGED <<at, sock, owner, shared, buffer, answered>>
  BY DEF PeerSends
<1>2. /\ sent' = sent + 1 /\ sent \in Nat
      /\ inbox'[d] = Append(inbox[d], <<d, sent + 1>>)
      /\ \A c \in Conns \ {d} : inbox'[c] = inbox[c]
  BY <1>0, SessionsAssumption DEF PeerSends, TypeOK
<1>3. at[d] # "none"
  BY <1>0 DEF PeerSends, Live, NotYet
<1>4. SharedNumbers' /\ \A c \in Conns : Mine(c)' => Mine(c)
  BY <1>1, NumbersKept
<1>5. NotYet'
  BY <1>0, <1>1, <1>2, <1>3 DEF NotYet
<1>6. ASSUME NEW c \in Conns, Mine(c)' PROVE InOrder(c)'
  <2>1. InOrder(c)
    BY <1>4, <1>6 DEF RInv, RepliesKept
  <2>2. /\ buffer'[c] = buffer[c] /\ answered'[c] = answered[c]
        /\ buffer[c] \in Seq(Lines) /\ inbox[c] \in Seq(Lines)
    BY <1>0, <1>1 DEF TypeOK
  <2>6. /\ \A old \in answered[c] : old[2] \in Nat
        /\ (\A old \in answered[c] : old[2] <= sent)'
    <3>1. \A old \in answered[c] : old[2] \in Nat
      BY <1>0, SessionsAssumption DEF TypeOK, Lines
    <3> QED BY <1>2, <2>1, <2>2, <3>1 DEF InOrder
  <2>3. Own(c, buffer[c])' /\ Rising(buffer[c])' /\ Answered(c, buffer[c])'
    <3>1. Rising(buffer[c])' /\ Answered(c, buffer[c])'
      BY <2>1, <2>2 DEF InOrder, Rising, Answered
    <3>2. \A i \in 1..Len(buffer[c]) : buffer[c][i][2] \in Nat
      BY <2>2, LineNumbers
    <3>3. Own(c, buffer[c])'
      BY <1>2, <2>1, <2>2, <3>2 DEF InOrder, Own
    <3> QED BY <3>1, <3>3
  <2>4. CASE c # d
    <3>1. inbox'[c] = inbox[c]
      BY <1>2, <2>4
    <3>2. \A i \in 1..Len(inbox[c]) : inbox[c][i][2] \in Nat
      BY <2>2, LineNumbers
    <3>3. Own(c, inbox[c])'
      BY <1>2, <2>1, <3>1, <3>2 DEF InOrder, Own
    <3>4. Rising(inbox[c])' /\ Before(buffer[c], inbox[c])' /\ Answered(c, inbox[c])'
      BY <2>1, <2>2, <3>1 DEF InOrder, Rising, Before, Answered
    <3> QED BY <2>3, <2>6, <3>3, <3>4 DEF InOrder
  <2>5. CASE c = d
    <3> DEFINE n == Len(inbox[c])
    <3>1. /\ n \in Nat /\ Len(inbox'[c]) = n + 1
          /\ \A i \in 1..n : inbox'[c][i] = inbox[c][i]
          /\ inbox'[c][n + 1][1] = c /\ inbox'[c][n + 1][2] = sent + 1
      BY <1>2, <2>2, <2>5
    <3>2. \A i \in 1..n : inbox[c][i][1] = c /\ inbox[c][i][2] \in Nat /\ inbox[c][i][2] <= sent
      BY <2>1, <2>2, LineNumbers DEF InOrder, Own
    <3>3. \A i \in 1..Len(buffer[c]) : buffer[c][i][2] \in Nat /\ buffer[c][i][2] <= sent
      BY <2>1, <2>2, LineNumbers DEF InOrder, Own
    <3>4. \A old \in answered[c] : old[2] < sent + 1
      BY <1>2, <2>1, <2>6 DEF InOrder
    <3> HIDE DEF n
    <3>5. Own(c, inbox[c])'
      <4> SUFFICES ASSUME NEW i \in 1..Len(inbox'[c])
                   PROVE  inbox'[c][i][1] = c /\ inbox'[c][i][2] <= sent'
        BY DEF Own
      <4>1. i \in 1..n \/ i = n + 1
        BY <3>1
      <4> QED BY <1>2, <3>1, <3>2, <4>1
    <3>6. Rising(inbox[c])'
      <4> SUFFICES ASSUME NEW i \in 1..Len(inbox'[c]), NEW j \in 1..Len(inbox'[c]), i < j
                   PROVE  inbox'[c][i][2] < inbox'[c][j][2]
        BY DEF Rising
      <4>1. i \in 1..n /\ (j \in 1..n \/ j = n + 1)
        BY <3>1
      <4>2. \A k, l \in 1..n : k < l => inbox[c][k][2] < inbox[c][l][2]
        BY <2>1 DEF InOrder, Rising, n
      <4>3. CASE j \in 1..n
        BY <3>1, <4>1, <4>2, <4>3
      <4>4. CASE j = n + 1
        <5>1. inbox'[c][i][2] = inbox[c][i][2] /\ inbox'[c][j][2] = sent + 1
          BY <3>1, <4>1, <4>4
        <5>2. inbox[c][i][2] \in Nat /\ inbox[c][i][2] <= sent
          BY <3>2, <4>1
        <5> QED BY <1>2, <5>1, <5>2
      <4> QED BY <4>1, <4>3, <4>4
    <3>7. Before(buffer[c], inbox[c])'
      <4> SUFFICES ASSUME NEW i \in 1..Len(buffer'[c]), NEW j \in 1..Len(inbox'[c])
                   PROVE  buffer'[c][i][2] < inbox'[c][j][2]
        BY DEF Before
      <4>1. j \in 1..n \/ j = n + 1
        BY <3>1
      <4>2. \A k \in 1..Len(buffer[c]), l \in 1..n : buffer[c][k][2] < inbox[c][l][2]
        BY <2>1 DEF InOrder, Before, n
      <4>3. i \in 1..Len(buffer[c]) /\ buffer'[c][i] = buffer[c][i]
        BY <2>2
      <4>4. CASE j \in 1..n
        BY <3>1, <4>2, <4>3, <4>4
      <4>5. CASE j = n + 1
        <5>1. inbox'[c][j][2] = sent + 1
          BY <3>1, <4>5
        <5>2. buffer[c][i][2] \in Nat /\ buffer[c][i][2] <= sent
          BY <3>3, <4>3
        <5> QED BY <1>2, <4>3, <5>1, <5>2
      <4> QED BY <4>1, <4>4, <4>5
    <3>8. Answered(c, inbox[c])'
      <4> SUFFICES ASSUME NEW old \in answered'[c], NEW j \in 1..Len(inbox'[c])
                   PROVE  old[2] < inbox'[c][j][2]
        BY DEF Answered
      <4>1. j \in 1..n \/ j = n + 1
        BY <3>1
      <4>2. \A k \in answered[c], l \in 1..n : k[2] < inbox[c][l][2]
        BY <2>1 DEF InOrder, Answered, n
      <4> QED BY <1>2, <2>2, <3>1, <3>4, <4>1, <4>2
    <3> QED BY <2>3, <2>6, <3>5, <3>6, <3>7, <3>8 DEF InOrder
  <2> QED BY <2>4, <2>5
<1> QED BY <1>4, <1>5, <1>6 DEF RepliesKept

\* Whoever is behind a number has been accepted.
LEMMA BehindAccepted ==
    ASSUME TypeOK, NotYet, NEW c \in Conns, Behind(c) # Nobody
    PROVE  Behind(c) \in Conns /\ at[Behind(c)] # "none"
BY BehindType DEF Behind, NotYet, TypeOK, NoSock, Nobody

\* The handshake drops the first lines.
LEMMA HandshakeKeeps ==
    ASSUME RInv, NEW c \in Conns, Handshake(c)
    PROVE  RepliesKept'
<1> USE DEF serverVars, threadVars, tableVars, peerVars, queueVars, historyVars
<1>0. TypeOK /\ TInv /\ SharedNumbers /\ NotYet
  BY DEF RInv, RepliesKept, TInv
<1>1. UNCHANGED <<sock, owner, shared, buffer, sent, answered>>
  BY DEF Handshake
<1>2. /\ at[c] = "handshake" /\ at'[c] = "insert"
      /\ \A d \in Conns \ {c} : at'[d] = at[d]
  BY <1>0, GotoType DEF Handshake, Places
<1> DEFINE b == Behind(c)
<1>3. b \in Conns /\ at[b] # "none"
  BY <1>0, BehindAccepted DEF Handshake
<1>4. PICK k \in 0..Len(inbox[b]) :
         inbox' = [inbox EXCEPT ![b] = SubSeq(@, k + 1, Len(@))]
  BY DEF Handshake
<1> HIDE DEF b
<1>5. /\ inbox'[b] = SubSeq(inbox[b], k + 1, Len(inbox[b]))
      /\ \A d \in Conns \ {b} : inbox'[d] = inbox[d]
  BY <1>0, <1>3, <1>4 DEF TypeOK
<1>6. SharedNumbers' /\ \A d \in Conns : Mine(d)' => Mine(d)
  BY <1>1, <1>2, NumbersKept
<1>7. NotYet'
  BY <1>0, <1>1, <1>2, <1>3, <1>5 DEF NotYet
<1>8. ASSUME NEW d \in Conns, Mine(d)' PROVE InOrder(d)'
  <2>1. InOrder(d)
    BY <1>6, <1>8 DEF RInv, RepliesKept
  <2>2. CASE d = b
    BY <1>0, <1>1, <1>5, <2>1, <2>2, OrderKept
  <2>3. CASE d # b
    BY <1>0, <1>1, <1>5, <2>1, <2>3, LinesKept
  <2> QED BY <2>2, <2>3
<1> QED BY <1>6, <1>7, <1>8 DEF RepliesKept

\* Lines move from the inbox to the buffer of the handler.
LEMMA OrderMoved ==
    ASSUME TInv, NEW c \in Conns, InOrder(c), sent' = sent,
           answered'[c] = answered[c], NEW k \in 1..Len(inbox[c]),
           buffer'[c] = SubSeq(inbox[c], 1, k),
           inbox'[c] = SubSeq(inbox[c], k + 1, Len(inbox[c]))
    PROVE  InOrder(c)'
<1>1. inbox[c] \in Seq(Lines)
  BY DEF TInv, TypeOK
<1>2. /\ Len(inbox'[c]) = Len(inbox[c]) - k
      /\ \A i \in 1..(Len(inbox[c]) - k) : inbox'[c][i] = inbox[c][i + k]
  BY <1>1, LastLines
<1>3. Len(buffer'[c]) = k /\ \A i \in 1..k : buffer'[c][i] = inbox[c][i]
  BY <1>1
<1>4. /\ \A i \in 1..Len(inbox'[c]) : i + k \in 1..Len(inbox[c])
      /\ \A i \in 1..k : i \in 1..Len(inbox[c])
  BY <1>1, <1>2
<1>5. /\ Own(c, buffer[c])' /\ Answered(c, buffer[c])'
      /\ Own(c, inbox[c])' /\ Answered(c, inbox[c])'
      /\ (\A old \in answered[c] : old[2] <= sent)'
  BY <1>2, <1>3, <1>4 DEF InOrder, Own, Answered
<1>6. Rising(buffer[c])'
  BY <1>3, <1>4 DEF InOrder, Rising
<1>7. Rising(inbox[c])'
  <2> SUFFICES ASSUME NEW i \in 1..Len(inbox'[c]), NEW j \in 1..Len(inbox'[c]), i < j
               PROVE  inbox'[c][i][2] < inbox'[c][j][2]
    BY DEF Rising
  <2>1. i + k < j + k /\ i + k \in 1..Len(inbox[c]) /\ j + k \in 1..Len(inbox[c])
    BY <1>4
  <2> QED BY <1>2, <2>1 DEF InOrder, Rising
<1>8. Before(buffer[c], inbox[c])'
  <2> SUFFICES ASSUME NEW i \in 1..k, NEW j \in 1..Len(inbox'[c])
               PROVE  buffer'[c][i][2] < inbox'[c][j][2]
    BY <1>3 DEF Before
  <2>1. i < j + k /\ i \in 1..Len(inbox[c]) /\ j + k \in 1..Len(inbox[c])
    BY <1>4
  <2> QED BY <1>2, <1>3, <2>1 DEF InOrder, Rising
<1> QED BY <1>5, <1>6, <1>7, <1>8 DEF InOrder

\* A handler receives.
LEMMA ReceiveKeeps ==
    ASSUME RInv, NEW c \in Conns, Receive(c)
    PROVE  RepliesKept'
<1> USE DEF serverVars, threadVars, tableVars, peerVars, queueVars, historyVars
<1>0. TypeOK /\ TInv /\ SharedNumbers /\ NotYet
  BY DEF RInv, RepliesKept, TInv
<1>1. UNCHANGED <<at, sock, owner, shared, sent, answered>> /\ at[c] = "loop"
  BY DEF Receive
<1> DEFINE b == Behind(c)
<1>2. b \in Conns /\ at[b] # "none"
  BY <1>0, BehindAccepted DEF Receive
<1>3. PICK k \in 1..Len(inbox[b]) :
         /\ buffer' = [buffer EXCEPT ![c] = SubSeq(inbox[b], 1, k)]
         /\ inbox' = [inbox EXCEPT ![b] = SubSeq(@, k + 1, Len(@))]
  BY DEF Receive
<1>4. \A d \in Conns : b = d /\ d \notin shared => d = c
  BY <1>0, BehindMine
<1>5. \A d \in Conns : Mine(d) /\ d = c => d = b
  BY DEF Mine, Behind, NoSock, Socks
<1> HIDE DEF b
<1>6. /\ inbox'[b] = SubSeq(inbox[b], k + 1, Len(inbox[b]))
      /\ \A d \in Conns \ {b} : inbox'[d] = inbox[d]
      /\ buffer'[c] = SubSeq(inbox[b], 1, k)
      /\ \A d \in Conns \ {c} : buffer'[d] = buffer[d]
  BY <1>0, <1>2, <1>3 DEF TypeOK
<1>7. SharedNumbers' /\ \A d \in Conns : Mine(d)' => Mine(d)
  BY <1>1, NumbersKept
<1>8. NotYet'
  BY <1>0, <1>1, <1>2, <1>6 DEF NotYet
<1>9. ASSUME NEW d \in Conns, Mine(d)' PROVE InOrder(d)'
  <2>1. InOrder(d) /\ Mine(d)
    BY <1>7, <1>9 DEF RInv, RepliesKept
  <2>2. CASE d = c
    <3>1. d = b
      BY <1>5, <2>1, <2>2
    <3> QED BY <1>0, <1>1, <1>6, <2>1, <2>2, <3>1, OrderMoved
  <2>3. CASE d # c
    <3>1. d # b
      BY <1>4, <2>1, <2>3 DEF Mine
    <3> QED BY <1>0, <1>1, <1>6, <2>1, <2>3, <3>1, LinesKept
  <2> QED BY <2>2, <2>3
<1> QED BY <1>7, <1>8, <1>9 DEF RepliesKept

\* The first line is answered, or its answer is not delivered.
LEMMA OrderAnswered ==
    ASSUME TInv, NEW c \in Conns, InOrder(c), buffer[c] # <<>>, sent' = sent,
           inbox'[c] = inbox[c], buffer'[c] = Tail(buffer[c]),
           answered'[c] \in {answered[c], {Head(buffer[c])}}
    PROVE  InOrder(c)'
<1>1. buffer[c] \in Seq(Lines) /\ inbox[c] \in Seq(Lines)
  BY DEF TInv, TypeOK
<1>2. /\ Len(buffer'[c]) = Len(buffer[c]) - 1
      /\ \A i \in 1..(Len(buffer[c]) - 1) : buffer'[c][i] = buffer[c][i + 1]
      /\ Head(buffer[c]) = buffer[c][1] /\ 1 \in 1..Len(buffer[c])
  BY <1>1
<1>3. \A i \in 1..Len(buffer'[c]) : i + 1 \in 1..Len(buffer[c]) /\ 1 < i + 1
  BY <1>1, <1>2
<1>4. Own(c, buffer[c])' /\ Own(c, inbox[c])' /\ Rising(inbox[c])'
  BY <1>2, <1>3 DEF InOrder, Own, Rising
<1>5. Rising(buffer[c])'
  <2> SUFFICES ASSUME NEW i \in 1..Len(buffer'[c]), NEW j \in 1..Len(buffer'[c]), i < j
               PROVE  buffer'[c][i][2] < buffer'[c][j][2]
    BY DEF Rising
  <2>1. i + 1 < j + 1 /\ i + 1 \in 1..Len(buffer[c]) /\ j + 1 \in 1..Len(buffer[c])
    BY <1>3
  <2> QED BY <1>2, <2>1 DEF InOrder, Rising
<1>6. Before(buffer[c], inbox[c])'
  BY <1>2, <1>3 DEF InOrder, Before
<1>7. /\ Answered(c, buffer[c])' /\ Answered(c, inbox[c])'
      /\ (\A old \in answered[c] : old[2] <= sent)'
  <2>1. CASE answered'[c] = answered[c]
    BY <1>2, <1>3, <2>1 DEF InOrder, Answered
  <2>2. CASE answered'[c] = {Head(buffer[c])}
    <3>1. \A old \in answered'[c] : old = buffer[c][1]
      BY <1>2, <2>2
    <3>2. Answered(c, buffer[c])'
      BY <1>2, <1>3, <3>1 DEF InOrder, Answered, Rising
    <3>3. Answered(c, inbox[c])'
      BY <1>2, <3>1 DEF InOrder, Answered, Before
    <3>4. (\A old \in answered[c] : old[2] <= sent)'
      BY <1>2, <3>1 DEF InOrder, Own
    <3> QED BY <3>2, <3>3, <3>4
  <2> QED BY <2>1, <2>2
<1> QED BY <1>4, <1>5, <1>6, <1>7 DEF InOrder

\* A handler replies.
LEMMA SendResponseKeeps ==
    ASSUME RInv, NEW c \in Conns, SendResponse(c)
    PROVE  RepliesKept'
<1> USE DEF serverVars, threadVars, tableVars, peerVars, queueVars, historyVars
<1>0. TypeOK /\ TInv /\ SharedNumbers /\ NotYet /\ HasLine
  BY DEF RInv, RepliesKept, TInv
<1>1. UNCHANGED <<sock, owner, shared, sent, inbox>>
  BY DEF SendResponse
<1>2. /\ at[c] = "reply" /\ at'[c] = "loop"
      /\ \A d \in Conns \ {c} : at'[d] = at[d]
  BY <1>0, GotoType DEF SendResponse, Places
<1>3. /\ buffer'[c] = Tail(buffer[c]) /\ buffer[c] # <<>>
      /\ \A d \in Conns \ {c} : buffer'[d] = buffer[d]
  BY <1>0, <1>2 DEF SendResponse, TypeOK, HasLine
<1>4. \A d \in Conns : \/ answered'[d] = answered[d]
                       \/ d = Behind(c) /\ answered'[d] = {Head(buffer[c])}
  BY <1>0 DEF SendResponse, Recipients, TypeOK
<1>5. \A d \in Conns : Behind(c) = d /\ d \notin shared => d = c
  BY <1>0, BehindMine
<1>6. \A d \in Conns : Behind(c) = d => at[d] # "none"
  BY <1>0, BehindAccepted DEF Conns, Nobody
<1>7. SharedNumbers' /\ \A d \in Conns : Mine(d)' => Mine(d)
  BY <1>1, <1>2, NumbersKept
<1>8. NotYet'
  BY <1>0, <1>1, <1>2, <1>3, <1>4, <1>6 DEF NotYet
<1>9. ASSUME NEW d \in Conns, Mine(d)' PROVE InOrder(d)'
  <2>1. InOrder(d) /\ Mine(d)
    BY <1>7, <1>9 DEF RInv, RepliesKept
  <2>2. CASE d = c
    <3>1. answered'[c] \in {answered[c], {Head(buffer[c])}}
      BY <1>4
    <3>2. InOrder(c) /\ TInv
      BY <1>0, <2>1, <2>2
    <3> QED BY <1>1, <1>3, <2>2, <3>1, <3>2, OrderAnswered
  <2>3. CASE d # c
    <3>1. answered'[d] = answered[d]
      BY <1>4, <1>5, <2>1, <2>3 DEF Mine
    <3> QED BY <1>0, <1>1, <1>3, <2>1, <2>3, <3>1, LinesKept
  <2> QED BY <2>2, <2>3
<1> QED BY <1>7, <1>8, <1>9 DEF RepliesKept

\* Every step of a handler.
LEMMA HandlerKeeps ==
    ASSUME RInv, NEW c \in Conns, Handler(c)
    PROVE  RepliesKept'
<1> USE DEF serverVars, threadVars, tableVars, peerVars, queueVars, historyVars
<1>0. TypeOK
  BY DEF RInv, TInv
<1>1. CASE Handshake(c)
  BY <1>1, HandshakeKeeps
<1>2. CASE Receive(c)
  BY <1>2, ReceiveKeeps
<1>3. CASE SendResponse(c)
  BY <1>3, SendResponseKeeps
<1>4. CASE CloseOwnSocket(c)
  <2>1. \A d \in Conns : at[d] # "none" => at'[d] # "none"
    BY <1>0, <1>4, GotoType DEF CloseOwnSocket, Places
  <2>2. \A d \in Conns : sock'[d] \in {sock[d], NoSock}
    BY <1>0, <1>4 DEF CloseOwnSocket, TypeOK
  <2>3. /\ CloseSocks({sock[c]})
        /\ UNCHANGED <<buffer, sent, answered, shared>>
    BY <1>4 DEF CloseOwnSocket
  <2> QED BY <2>1, <2>2, <2>3, CloseKeeps
<1>5. CASE \/ HandshakeFails(c) \/ InsertSession(c) \/ ReceiveEnd(c) \/ LeaveLoop(c)
           \/ ProcessCommand(c) \/ EraseSession(c)
  <2>1. UNCHANGED <<sock, owner, buffer, inbox, sent, answered, shared>>
    BY <1>5 DEF HandshakeFails, InsertSession, ReceiveEnd, LeaveLoop, ProcessCommand,
                EraseSession
  <2>2. \E from \in Places, to \in Places \ {"none"} : Goto(c, from, to)
    BY <1>5 DEF HandshakeFails, InsertSession, ReceiveEnd, LeaveLoop, ProcessCommand,
                EraseSession, Places
  <2>3. \A d \in Conns : at[d] # "none" => at'[d] # "none"
    BY <1>0, <2>2, GotoType DEF Places
  <2> QED BY <2>1, <2>3, QuietKeeps
<1> QED BY <1>1, <1>2, <1>3, <1>4, <1>5 DEF Handler

\* Every step.
LEMMA RNext == RInv /\ [Next]_vars => RInv'
<1> SUFFICES ASSUME RInv, [Next]_vars PROVE RInv'
  OBVIOUS
<1> USE DEF serverVars, threadVars, tableVars, peerVars, queueVars, historyVars
<1> SUFFICES RepliesKept'
  BY TNext DEF RInv
<1>1. CASE UNCHANGED vars
  <2>1. UNCHANGED <<at, sock, owner, buffer, inbox, sent, answered, shared>>
    BY <1>1 DEF vars
  <2>2. \A c \in Conns : at[c] # "none" => at'[c] # "none"
    BY <2>1
  <2> QED BY <2>1, <2>2, QuietKeeps
<1>2. ASSUME NEW c \in Conns, Accept(c) PROVE RepliesKept'
  BY <1>2, AcceptKeeps
<1>3. ASSUME NEW c \in Conns, PeerSends(c) PROVE RepliesKept'
  BY <1>3, PeerSendsKeeps
<1>4. ASSUME NEW c \in Conns, PeerCloses(c) PROVE RepliesKept'
  BY <1>4, QuietKeeps DEF PeerCloses
<1>5. ASSUME NEW c \in Conns, Handler(c) PROVE RepliesKept'
  BY <1>5, HandlerKeeps
<1>6. CASE BroadcastToAll \/ DisconnectAllClients \/ StopSessions
  <2>1. PICK D : Cut(D)
    BY <1>6 DEF BroadcastToAll, DisconnectAllClients, StopSessions
  <2>2. UNCHANGED <<at, sock, buffer, sent, answered, shared>>
    BY <1>6 DEF BroadcastToAll, DisconnectAllClients, StopSessions
  <2>3. CloseSocks({sock[d] : d \in D})
    BY <2>1 DEF Cut
  <2>4. \A c \in Conns : /\ sock'[c] \in {sock[c], NoSock}
                          /\ at[c] # "none" => at'[c] # "none"
    BY <2>2
  <2> QED BY <2>2, <2>3, <2>4, CloseKeeps
<1>7. CASE Stop \/ Start \/ PollNextCommand \/ ClearQueue
  <2>1. UNCHANGED <<at, sock, owner, buffer, inbox, sent, answered, shared>>
    BY <1>7 DEF Stop, Start, PollNextCommand, ClearQueue
  <2>2. \A c \in Conns : at[c] # "none" => at'[c] # "none"
    BY <2>1
  <2> QED BY <2>1, <2>2, QuietKeeps
<1> QED BY <1>1, <1>2, <1>3, <1>4, <1>5, <1>6, <1>7 DEF Next

\* A step answers lines of the peer itself only.
LEMMA AnswerStep == RInv /\ [Next]_vars => [AnswersOwn]_vars
<1> SUFFICES ASSUME RInv, Next PROVE AnswersOwn
  OBVIOUS
<1> USE DEF serverVars, threadVars, tableVars, peerVars, queueVars, historyVars
<1>0. TypeOK /\ SharedNumbers /\ HasLine
  BY DEF RInv, RepliesKept, TInv
<1>1. CASE UNCHANGED answered
  BY <1>1 DEF AnswersOwn
<1>2. ASSUME NEW c \in Conns, SendResponse(c) PROVE AnswersOwn
  <2> SUFFICES ASSUME NEW d \in Conns \ shared, NEW new \in answered'[d] \ answered[d]
               PROVE  new[1] = d /\ \A old \in answered[d] : old[2] < new[2]
    BY DEF AnswersOwn
  <2>1. d = Behind(c) /\ new = Head(buffer[c])
    BY <1>0, <1>2 DEF SendResponse, Recipients, TypeOK
  <2>2. d = c /\ Mine(d)
    BY <1>0, <2>1, BehindMine
  <2>3. buffer[c] # <<>> /\ buffer[c] \in Seq(Lines)
    BY <1>0, <1>2 DEF SendResponse, Goto, HasLine, TypeOK
  <2>4. new = buffer[d][1] /\ 1 \in 1..Len(buffer[d])
    BY <2>1, <2>2, <2>3
  <2> QED BY <2>2, <2>4 DEF RInv, RepliesKept, InOrder, Own, Answered
<1>3. Next => UNCHANGED answered \/ \E c \in Conns : SendResponse(c)
  BY DEF Next, Handler, Accept, PeerSends, PeerCloses, Handshake, HandshakeFails,
         InsertSession, Receive, ReceiveEnd, LeaveLoop, ProcessCommand, EraseSession,
         CloseOwnSocket, BroadcastToAll, DisconnectAllClients, Stop, StopSessions,
         Start, PollNextCommand, ClearQueue
<1> QED BY <1>1, <1>2, <1>3

\* A peer gets replies to its own lines only, in their order, unless an older
\* handler shares its socket number.
THEOREM TcpReplies == Spec => RepliesAreOwn
BY RInit, RNext, AnswerStep, PTL DEF Spec, RepliesAreOwn

-----------------------------------------------------------------------------
(* Commands of the EA.                                                    *)

\* A number later than all lines of the peer that the EA has polled or will poll.
Later(c, n) ==
    /\ polled[c] < n
    /\ \A i \in 1..Len(queue) : queue[i][1] = c => queue[i][2] < n

\* The lines of the peer that wait for the EA.
QueueInOrder(c) ==
    /\ polled[c] <= sent
    /\ \A i \in 1..Len(queue) :
          queue[i][1] = c => polled[c] < queue[i][2] /\ queue[i][2] <= sent
    /\ \A i, j \in 1..Len(queue) :
          i < j /\ queue[i][1] = c /\ queue[j][1] = c => queue[i][2] < queue[j][2]

\* Its lines in the buffer of its handler; the one that is replied to is queued.
BufferInOrder(c) ==
    /\ \A i \in 1..Len(buffer[c]) : buffer[c][i][1] = c =>
          /\ buffer[c][i][2] <= sent
          /\ i > 1 \/ at[c] # "reply" => Later(c, buffer[c][i][2])
    /\ \A i, j \in 1..Len(buffer[c]) :
          i < j /\ buffer[c][i][1] = c /\ buffer[c][j][1] = c
              => buffer[c][i][2] < buffer[c][j][2]

\* Its lines that have not been received.
InboxInOrder(c) ==
    /\ \A j \in 1..Len(inbox[c]) :
          /\ inbox[c][j][2] <= sent
          /\ Later(c, inbox[c][j][2])
          /\ \A i \in 1..Len(buffer[c]) :
                buffer[c][i][1] = c => buffer[c][i][2] < inbox[c][j][2]
    /\ Rising(inbox[c])

\* No other handler has a line of it.
OwnHandler(c) ==
    \A h \in Conns \ {c} : \A i \in 1..Len(buffer[h]) : buffer[h][i][1] # c
Kept(c) ==
    QueueInOrder(c) /\ BufferInOrder(c) /\ InboxInOrder(c) /\ OwnHandler(c)
\* What has come on a connection was sent by its peer.
InboxOwn == \A c \in Conns : \A i \in 1..Len(inbox[c]) : inbox[c][i][1] = c

CommandsKept == InboxOwn /\ \A c \in Conns \ shared : Kept(c)

KInv == RInv /\ CommandsKept

\* Nothing has been sent.
LEMMA KInit == Init => KInv
<1> SUFFICES ASSUME Init PROVE KInv
  OBVIOUS
<1>1. RInv
  BY RInit
<1>2. /\ queue = <<>> /\ sent = 0
      /\ \A c \in Conns : polled[c] = 0 /\ buffer[c] = <<>> /\ inbox[c] = <<>>
  BY DEF Init
<1>3. Len(<<>>) = 0
  OBVIOUS
<1>4. \A c \in Conns : QueueInOrder(c) /\ BufferInOrder(c)
  BY <1>2, <1>3 DEF QueueInOrder, BufferInOrder
<1>5. \A c \in Conns : InboxInOrder(c) /\ OwnHandler(c)
  BY <1>2, <1>3 DEF InboxInOrder, OwnHandler, Rising
<1>6. InboxOwn
  BY <1>2, <1>3 DEF InboxOwn
<1> QED BY <1>1, <1>4, <1>5, <1>6 DEF KInv, CommandsKept, Kept

\* Lines at most leave the inbox, and no line is processed.
LEMMA KeptStill ==
    ASSUME TypeOK, NEW c \in Conns, Kept(c),
           UNCHANGED <<queue, polled, buffer, sent>>,
           at'[c] = "reply" \/ at[c] # "reply",
           \/ inbox'[c] \in {inbox[c], <<>>}
           \/ \E k \in 0..Len(inbox[c]) :
                 inbox'[c] = SubSeq(inbox[c], k + 1, Len(inbox[c]))
    PROVE  Kept(c)'
<1>1. QueueInOrder(c)' /\ OwnHandler(c)'
  BY DEF Kept, QueueInOrder, OwnHandler
<1>2. \A n : Later(c, n) => Later(c, n)'
  BY DEF Later
<1>3. BufferInOrder(c)'
  BY <1>2 DEF Kept, BufferInOrder, Later
<1>4. inbox[c] \in Seq(Lines)
  BY DEF TypeOK
<1>5. PICK k \in 0..Len(inbox[c]) :
         /\ Len(inbox'[c]) \in {0, Len(inbox[c]) - k}
         /\ \A i \in 1..Len(inbox'[c]) : inbox'[c][i] = inbox[c][i + k]
  <2>1. CASE inbox'[c] \in {inbox[c], <<>>}
    <3>1. 0 \in 0..Len(inbox[c])
      BY <1>4
    <3> QED BY <1>4, <2>1, <3>1
  <2>2. ASSUME NEW k \in 0..Len(inbox[c]),
               inbox'[c] = SubSeq(inbox[c], k + 1, Len(inbox[c]))
        PROVE  /\ Len(inbox'[c]) = Len(inbox[c]) - k
               /\ \A i \in 1..Len(inbox'[c]) : inbox'[c][i] = inbox[c][i + k]
    BY <1>4, <2>2, LastLines
  <2> QED BY <2>1, <2>2
<1>6. \A i \in 1..Len(inbox'[c]) : i + k \in 1..Len(inbox[c])
  BY <1>4, <1>5
<1>7. Rising(inbox[c])'
  <2> SUFFICES ASSUME NEW i \in 1..Len(inbox'[c]), NEW j \in 1..Len(inbox'[c]), i < j
               PROVE  inbox'[c][i][2] < inbox'[c][j][2]
    BY DEF Rising
  <2>1. i + k < j + k /\ i + k \in 1..Len(inbox[c]) /\ j + k \in 1..Len(inbox[c])
    BY <1>6
  <2> QED BY <1>5, <2>1 DEF Kept, InboxInOrder, Rising
<1>8. InboxInOrder(c)'
  <2> SUFFICES ASSUME NEW j \in 1..Len(inbox'[c])
               PROVE  /\ inbox'[c][j][2] <= sent'
                      /\ Later(c, inbox[c][j][2])'
                      /\ \A i \in 1..Len(buffer'[c]) :
                            buffer'[c][i][1] = c => buffer'[c][i][2] < inbox'[c][j][2]
    BY <1>7 DEF InboxInOrder
  <2>1. inbox'[c][j] = inbox[c][j + k] /\ j + k \in 1..Len(inbox[c])
    BY <1>5, <1>6
  <2>2. /\ inbox[c][j + k][2] <= sent
        /\ Later(c, inbox[c][j + k][2])
        /\ \A i \in 1..Len(buffer[c]) :
              buffer[c][i][1] = c => buffer[c][i][2] < inbox[c][j + k][2]
    BY <2>1 DEF Kept, InboxInOrder
  <2> QED BY <1>2, <2>1, <2>2 DEF Later
<1> QED BY <1>1, <1>3, <1>8 DEF Kept

\* Lines are in sequences, and their numbers are natural.
LEMMA LineTypes ==
    ASSUME TypeOK, NEW c \in Conns
    PROVE  /\ sent \in Nat /\ polled[c] \in Nat
           /\ queue \in Seq(Lines) /\ buffer[c] \in Seq(Lines) /\ inbox[c] \in Seq(Lines)
           /\ \A i \in 1..Len(queue) : queue[i][2] \in Nat
           /\ \A i \in 1..Len(buffer[c]) : buffer[c][i][2] \in Nat
           /\ \A i \in 1..Len(inbox[c]) : inbox[c][i][2] \in Nat
<1>1. /\ sent \in Nat /\ polled[c] \in Nat
      /\ queue \in Seq(Lines) /\ buffer[c] \in Seq(Lines) /\ inbox[c] \in Seq(Lines)
  BY SessionsAssumption DEF TypeOK
<1> QED BY <1>1, LineNumbers

\* A line more.
LEMMA Appended ==
    ASSUME NEW lines \in Seq(Lines), NEW line
    PROVE  /\ Len(lines) \in Nat /\ Len(Append(lines, line)) = Len(lines) + 1
           /\ \A i \in 1..Len(lines) : Append(lines, line)[i] = lines[i]
           /\ Append(lines, line)[Len(lines) + 1] = line
OBVIOUS

\* What a peer sends comes after all its lines.
LEMMA KeptSent ==
    ASSUME TypeOK, NEW c \in Conns, Kept(c), NEW d \in Conns, PeerSends(d)
    PROVE  Kept(c)'
<1> USE DEF serverVars, threadVars, tableVars, peerVars, queueVars, historyVars
<1>1. UNCHANGED <<at, queue, polled, buffer>> /\ sent' = sent + 1
  BY DEF PeerSends
<1>2. /\ sent \in Nat /\ polled[c] \in Nat
      /\ queue \in Seq(Lines) /\ buffer[c] \in Seq(Lines) /\ inbox[c] \in Seq(Lines)
      /\ \A i \in 1..Len(queue) : queue[i][2] \in Nat
      /\ \A i \in 1..Len(buffer[c]) : buffer[c][i][2] \in Nat
      /\ \A i \in 1..Len(inbox[c]) : inbox[c][i][2] \in Nat
  BY LineTypes
<1>3. /\ d = c => inbox'[c] = Append(inbox[c], <<c, sent + 1>>)
      /\ d # c => inbox'[c] = inbox[c]
  BY <1>1 DEF PeerSends, TypeOK
<1>4. QueueInOrder(c)'
  BY <1>1, <1>2 DEF Kept, QueueInOrder
<1>5. OwnHandler(c)' /\ \A n : Later(c, n) => Later(c, n)'
  BY <1>1 DEF Kept, OwnHandler, Later
<1>6. BufferInOrder(c)'
  BY <1>1, <1>2, <1>5 DEF Kept, BufferInOrder, Later
<1>7. \A i \in 1..Len(buffer[c]) : buffer[c][i][1] = c => buffer[c][i][2] < sent + 1
  <2>1. BufferInOrder(c)
    BY DEF Kept
  <2>2. \A i \in 1..Len(buffer[c]) : buffer[c][i][1] = c => buffer[c][i][2] <= sent
    BY <2>1 DEF BufferInOrder
  <2> QED BY <1>2, <2>2
<1>8. CASE d # c
  <2>1. inbox'[c] = inbox[c]
    BY <1>3, <1>8
  <2>2. InboxInOrder(c)
    BY DEF Kept
  <2>3. \A i \in 1..Len(inbox[c]) : inbox[c][i][2] <= sent'
    <3>1. \A i \in 1..Len(inbox[c]) : inbox[c][i][2] <= sent
      BY <2>2 DEF InboxInOrder
    <3> QED BY <1>1, <1>2, <3>1
  <2>4. InboxInOrder(c)'
    BY <1>1, <2>1, <2>2, <2>3 DEF InboxInOrder, Rising, Later
  <2> QED BY <1>4, <1>5, <1>6, <2>4 DEF Kept
<1>9. CASE d = c
  <2> DEFINE n == Len(inbox[c])
  <2>1. /\ n \in Nat /\ Len(inbox'[c]) = n + 1
        /\ \A i \in 1..n : inbox'[c][i] = inbox[c][i]
        /\ inbox'[c][n + 1] = <<c, sent + 1>>
    <3>1. inbox'[c] = Append(inbox[c], <<c, sent + 1>>)
      BY <1>3, <1>9
    <3> QED BY <1>2, <3>1, Appended
  <2>2. InboxInOrder(c)
    BY DEF Kept
  <2>3. Rising(inbox[c])
    BY <2>2 DEF InboxInOrder
  <2> HIDE DEF n
  <2>4. Rising(inbox[c])'
    <3> SUFFICES ASSUME NEW i \in 1..(n + 1), NEW j \in 1..(n + 1), i < j
                 PROVE  inbox'[c][i][2] < inbox'[c][j][2]
      BY <2>1 DEF Rising
    <3>1. i \in 1..n /\ (j \in 1..n \/ j = n + 1)
      BY <2>1
    <3>2. CASE j \in 1..n
      BY <2>1, <2>3, <3>1, <3>2 DEF Rising, n
    <3>3. CASE j = n + 1
      <4>1. inbox'[c][j][2] = sent + 1 /\ inbox'[c][i][2] = inbox[c][i][2]
        BY <2>1, <3>1, <3>3
      <4>2. inbox[c][i][2] \in Nat /\ inbox[c][i][2] <= sent
        BY <1>2, <2>2, <3>1 DEF n, InboxInOrder
      <4> QED BY <1>2, <4>1, <4>2
    <3> QED BY <3>1, <3>2, <3>3
  <2>5. ASSUME NEW j \in 1..(n + 1)
        PROVE  /\ inbox'[c][j][2] <= sent'
               /\ Later(c, inbox[c][j][2])'
               /\ \A i \in 1..Len(buffer'[c]) :
                     buffer'[c][i][1] = c => buffer'[c][i][2] < inbox'[c][j][2]
    <3>1. CASE j \in 1..n
      <4>1. /\ inbox[c][j][2] <= sent /\ inbox[c][j][2] \in Nat
            /\ Later(c, inbox[c][j][2])
            /\ \A i \in 1..Len(buffer[c]) :
                  buffer[c][i][1] = c => buffer[c][i][2] < inbox[c][j][2]
        BY <1>2, <3>1 DEF Kept, InboxInOrder, n
      <4>2. inbox'[c][j] = inbox[c][j]
        BY <2>1, <3>1
      <4>3. inbox'[c][j][2] <= sent'
        BY <1>1, <1>2, <4>1, <4>2
      <4> QED BY <1>1, <4>1, <4>2, <4>3 DEF Later
    <3>2. CASE j = n + 1
      <4>1. inbox'[c][j][2] = sent + 1
        BY <2>1, <3>2
      <4>2. Later(c, inbox[c][j][2])'
        <5>1. polled'[c] < sent + 1 /\ \A i \in 1..Len(queue) : queue[i][1] = c => queue[i][2] < sent + 1
          BY <1>1, <1>2 DEF Kept, QueueInOrder
        <5> QED BY <1>1, <4>1, <5>1 DEF Later
      <4>3. sent + 1 <= sent'
        BY <1>1, <1>2
      <4> QED BY <1>1, <1>7, <4>1, <4>2, <4>3
    <3> QED BY <2>1, <3>1, <3>2
  <2>6. InboxInOrder(c)'
    BY <2>1, <2>4, <2>5 DEF InboxInOrder
  <2> QED BY <1>4, <1>5, <1>6, <2>6 DEF Kept
<1> QED BY <1>8, <1>9

\* A handler receives: its own lines, or lines of a peer that is shared.
LEMMA KeptReceived ==
    ASSUME TypeOK, SharedNumbers, InboxOwn, NEW c \in Conns \ shared, Kept(c), NEW h \in Conns,
           Receive(h)
    PROVE  Kept(c)'
<1> USE DEF serverVars, threadVars, tableVars, peerVars, queueVars, historyVars
<1>1. UNCHANGED <<at, queue, polled, sent>> /\ at[h] = "loop" /\ buffer[h] = <<>>
  BY DEF Receive
<1> DEFINE b == Behind(h)
<1>2. b \in Conns
  BY BehindType DEF Receive
<1>3. PICK k \in 1..Len(inbox[b]) :
         /\ buffer' = [buffer EXCEPT ![h] = SubSeq(inbox[b], 1, k)]
         /\ inbox' = [inbox EXCEPT ![b] = SubSeq(@, k + 1, Len(@))]
  BY DEF Receive
<1>4. b = c => h = c
  BY BehindMine
<1> HIDE DEF b
<1>5. /\ inbox'[b] = SubSeq(inbox[b], k + 1, Len(inbox[b]))
      /\ \A d \in Conns \ {b} : inbox'[d] = inbox[d]
      /\ buffer'[h] = SubSeq(inbox[b], 1, k)
      /\ \A d \in Conns \ {h} : buffer'[d] = buffer[d]
  BY <1>2, <1>3 DEF TypeOK
<1>6. QueueInOrder(c)' /\ \A n : Later(c, n) => Later(c, n)'
  BY <1>1 DEF Kept, QueueInOrder, Later
<1>7. /\ inbox[b] \in Seq(Lines) /\ Len(buffer'[h]) = k
      /\ \A i \in 1..k : buffer'[h][i] = inbox[b][i] /\ i \in 1..Len(inbox[b])
  <2>1. inbox[b] \in Seq(Lines)
    BY <1>2 DEF TypeOK
  <2> QED BY <1>5, <2>1
<1>8. CASE b = c
  <2>1. h = c
    BY <1>4, <1>8
  <2>2. InboxInOrder(c)
    BY DEF Kept
  <2>3. OwnHandler(c)'
    BY <1>5, <2>1 DEF Kept, OwnHandler
  <2>4. \A i, j \in 1..k : i < j => buffer'[c][i][2] < buffer'[c][j][2]
    BY <1>7, <1>8, <2>1, <2>2 DEF InboxInOrder, Rising
  <2>5. \A i \in 1..k : /\ buffer'[c][i][2] <= sent'
                        /\ Later(c, buffer[c][i][2])'
    <3> SUFFICES ASSUME NEW i \in 1..k
                 PROVE  buffer'[c][i][2] <= sent' /\ Later(c, buffer[c][i][2])'
      OBVIOUS
    <3>1. buffer'[c][i] = inbox[c][i] /\ i \in 1..Len(inbox[c])
      BY <1>7, <1>8, <2>1
    <3>2. inbox[c][i][2] <= sent /\ Later(c, inbox[c][i][2])
      BY <2>2, <3>1 DEF InboxInOrder
    <3> QED BY <1>1, <1>6, <3>1, <3>2 DEF Later
  <2>6. BufferInOrder(c)'
    BY <1>7, <1>8, <2>1, <2>4, <2>5 DEF BufferInOrder
  <2>7. /\ Len(inbox'[c]) = Len(inbox[c]) - k
        /\ \A i \in 1..(Len(inbox[c]) - k) : inbox'[c][i] = inbox[c][i + k]
    <3>1. k \in 0..Len(inbox[c])
      BY <1>3, <1>7, <1>8
    <3>2. /\ inbox[c] \in Seq(Lines)
          /\ inbox'[c] = SubSeq(inbox[c], k + 1, Len(inbox[c]))
      BY <1>5, <1>7, <1>8
    <3> QED BY <3>1, <3>2, LastLines
  <2>8. \A i \in 1..Len(inbox'[c]) : i + k \in 1..Len(inbox[c])
    BY <1>7, <1>8, <2>7
  <2>9. Rising(inbox[c])'
    <3> SUFFICES ASSUME NEW i \in 1..Len(inbox'[c]), NEW j \in 1..Len(inbox'[c]), i < j
                 PROVE  inbox'[c][i][2] < inbox'[c][j][2]
      BY DEF Rising
    <3>1. i + k < j + k /\ i + k \in 1..Len(inbox[c]) /\ j + k \in 1..Len(inbox[c])
      BY <2>8
    <3> QED BY <2>2, <2>7, <3>1 DEF InboxInOrder, Rising
  <2>10. ASSUME NEW j \in 1..Len(inbox'[c])
         PROVE  /\ inbox'[c][j][2] <= sent'
                /\ Later(c, inbox[c][j][2])'
                /\ \A i \in 1..Len(buffer'[c]) :
                      buffer'[c][i][1] = c => buffer'[c][i][2] < inbox'[c][j][2]
    <3>1. inbox'[c][j] = inbox[c][j + k] /\ j + k \in 1..Len(inbox[c])
      BY <2>7, <2>8
    <3>2. /\ inbox[c][j + k][2] <= sent
          /\ Later(c, inbox[c][j + k][2])
      BY <2>2, <3>1 DEF InboxInOrder
    <3>3. \A i \in 1..k : inbox[c][i][2] < inbox[c][j + k][2]
      <4>1. \A i \in 1..k : i < j + k /\ i \in 1..Len(inbox[c])
        BY <1>7, <1>8
      <4> QED BY <2>2, <3>1, <4>1 DEF InboxInOrder, Rising
    <3>4. \A i \in 1..k : buffer'[c][i] = inbox[c][i]
      BY <1>7, <1>8, <2>1
    <3>5. \A i \in 1..Len(buffer'[c]) : buffer'[c][i][2] < inbox'[c][j][2]
      BY <1>7, <2>1, <3>1, <3>3, <3>4
    <3> QED BY <1>1, <1>6, <3>1, <3>2, <3>5 DEF Later
  <2>11. InboxInOrder(c)'
    BY <2>9, <2>10 DEF InboxInOrder
  <2> QED BY <1>6, <2>3, <2>6, <2>11 DEF Kept
<1>9. CASE b # c
  <2>1. inbox'[c] = inbox[c]
    BY <1>5, <1>9
  <2>2. \A i \in 1..Len(buffer'[h]) : buffer'[h][i][1] # c
    BY <1>2, <1>7, <1>9 DEF InboxOwn
  <2>3. OwnHandler(c)'
    BY <1>5, <2>2 DEF Kept, OwnHandler
  <2>4. QueueInOrder(c) /\ BufferInOrder(c) /\ InboxInOrder(c)
    BY DEF Kept
  <2>5. CASE h = c
    <3>1. BufferInOrder(c)'
      BY <2>2, <2>5 DEF BufferInOrder
    <3>2. InboxInOrder(c)'
      BY <1>1, <2>1, <2>2, <2>4, <2>5 DEF InboxInOrder, Later, Rising
    <3> QED BY <1>6, <2>3, <3>1, <3>2 DEF Kept
  <2>6. CASE h # c
    <3>1. buffer'[c] = buffer[c]
      BY <1>5, <2>6
    <3>2. BufferInOrder(c)'
      BY <1>1, <2>4, <3>1 DEF BufferInOrder, Later
    <3>3. InboxInOrder(c)'
      BY <1>1, <2>1, <2>4, <3>1 DEF InboxInOrder, Later, Rising
    <3> QED BY <1>6, <2>3, <3>2, <3>3 DEF Kept
  <2> QED BY <2>5, <2>6
<1> QED BY <1>8, <1>9

\* A command is queued: it is later than those that wait before it.
LEMMA KeptProcessed ==
    ASSUME TypeOK, NEW c \in Conns, Kept(c), NEW h \in Conns, ProcessCommand(h)
    PROVE  Kept(c)'
<1> USE DEF serverVars, threadVars, tableVars, peerVars, queueVars, historyVars
<1>1. UNCHANGED <<polled, sent, buffer, inbox>>
  BY DEF ProcessCommand
<1>2. /\ at[h] = "loop" /\ at'[h] = "reply"
      /\ \A d \in Conns \ {h} : at'[d] = at[d]
  BY GotoType DEF ProcessCommand, Places
<1>3. buffer[h] # <<>> /\ buffer[h] \in Seq(Lines)
  BY DEF ProcessCommand, TypeOK
<1> DEFINE line == buffer[h][1]
<1>4. /\ line = Head(buffer[h]) /\ 1 \in 1..Len(buffer[h])
  BY <1>3
<1>5. queue' = queue \/ queue' = Append(queue, line)
  BY <1>4 DEF ProcessCommand, Queued
<1> HIDE DEF line
<1>6. QueueInOrder(c) /\ BufferInOrder(c) /\ InboxInOrder(c) /\ OwnHandler(c)
  BY DEF Kept
<1>7. OwnHandler(c)' /\ Rising(inbox[c])'
  BY <1>1, <1>6 DEF OwnHandler, InboxInOrder, Rising
<1>8. ASSUME queue' = queue \/ line[1] # c, \A n : Later(c, n) => Later(c, n)',
             QueueInOrder(c)'
      PROVE  Kept(c)'
  <2>1. BufferInOrder(c)'
    BY <1>1, <1>2, <1>6, <1>8 DEF BufferInOrder, Later
  <2>2. InboxInOrder(c)'
    BY <1>1, <1>6, <1>7, <1>8 DEF InboxInOrder, Later
  <2> QED BY <1>7, <1>8, <2>1, <2>2 DEF Kept
<1>9. CASE queue' = queue
  BY <1>1, <1>6, <1>8, <1>9 DEF QueueInOrder, Later
<1>10. CASE queue' = Append(queue, line)
  <2> DEFINE m == Len(queue)
  <2>1. /\ m \in Nat /\ Len(queue') = m + 1
        /\ \A i \in 1..m : queue'[i] = queue[i]
        /\ queue'[m + 1] = line
    BY <1>10, Appended DEF TypeOK
  <2>2. \A i \in 1..m : /\ queue[i][1] = c => polled[c] < queue[i][2] /\ queue[i][2] <= sent
                        /\ \A j \in 1..m : i < j /\ queue[i][1] = c /\ queue[j][1] = c
                                              => queue[i][2] < queue[j][2]
    BY <1>6 DEF QueueInOrder
  <2>3. polled[c] <= sent
    BY <1>6 DEF QueueInOrder
  <2>4. \A n : Later(c, n) <=> /\ polled[c] < n
                               /\ \A i \in 1..m : queue[i][1] = c => queue[i][2] < n
    BY DEF Later
  <2> HIDE DEF m
  <2>5. CASE line[1] # c
    <3>1. \A n : Later(c, n) => Later(c, n)'
      BY <1>1, <2>1, <2>4, <2>5 DEF Later
    <3>2. QueueInOrder(c)'
      BY <1>1, <2>1, <2>2, <2>3, <2>5 DEF QueueInOrder
    <3> QED BY <1>8, <2>5, <3>1, <3>2
  <2>6. CASE line[1] = c
    <3>1. h = c
      BY <1>4, <1>6, <2>6 DEF OwnHandler, line
    <3>2. line[2] <= sent /\ Later(c, line[2])
      BY <1>2, <1>4, <1>6, <2>6, <3>1 DEF BufferInOrder, line
    <3>3. QueueInOrder(c)'
      <4>1. \A i \in 1..(m + 1) :
               queue'[i][1] = c => polled'[c] < queue'[i][2] /\ queue'[i][2] <= sent'
        BY <1>1, <2>1, <2>2, <3>2 DEF Later
      <4>2. ASSUME NEW i \in 1..(m + 1), NEW j \in 1..(m + 1),
                   i < j, queue'[i][1] = c, queue'[j][1] = c
            PROVE  queue'[i][2] < queue'[j][2]
        <5>1. i \in 1..m /\ (j \in 1..m \/ j = m + 1)
          BY <2>1, <4>2
        <5>2. CASE j \in 1..m
          BY <2>1, <2>2, <4>2, <5>1, <5>2
        <5>3. CASE j = m + 1
          BY <2>1, <2>4, <3>2, <4>2, <5>1, <5>3
        <5> QED BY <5>1, <5>2, <5>3
      <4> QED BY <1>1, <2>1, <2>3, <4>1, <4>2 DEF QueueInOrder
    <3>4. \A n : Later(c, n) /\ line[2] < n => Later(c, n)'
      BY <1>1, <2>1, <2>4 DEF Later
    <3>5. BufferInOrder(c)'
      <4>1. \A i, j \in 1..Len(buffer'[c]) :
               i < j /\ buffer'[c][i][1] = c /\ buffer'[c][j][1] = c
                   => buffer'[c][i][2] < buffer'[c][j][2]
        BY <1>1, <1>6 DEF BufferInOrder
      <4>2. ASSUME NEW i \in 1..Len(buffer'[c]), buffer'[c][i][1] = c
            PROVE  /\ buffer'[c][i][2] <= sent'
                   /\ i > 1 => Later(c, buffer[c][i][2])'
        <5>1. /\ buffer[c][i][2] <= sent
              /\ Later(c, buffer[c][i][2])
              /\ i > 1 => line[2] < buffer[c][i][2]
          BY <1>1, <1>2, <1>4, <1>6, <2>6, <3>1, <4>2 DEF BufferInOrder, line
        <5> QED BY <1>1, <3>4, <5>1 DEF Later
      <4> QED BY <1>2, <3>1, <4>1, <4>2 DEF BufferInOrder
    <3>6. InboxInOrder(c)'
      <4> SUFFICES ASSUME NEW j \in 1..Len(inbox'[c])
                   PROVE  /\ inbox'[c][j][2] <= sent'
                          /\ Later(c, inbox[c][j][2])'
                          /\ \A i \in 1..Len(buffer'[c]) :
                                buffer'[c][i][1] = c => buffer'[c][i][2] < inbox'[c][j][2]
        BY <1>7 DEF InboxInOrder
      <4>1. /\ inbox[c][j][2] <= sent
            /\ Later(c, inbox[c][j][2])
            /\ \A i \in 1..Len(buffer[c]) :
                  buffer[c][i][1] = c => buffer[c][i][2] < inbox[c][j][2]
        BY <1>1, <1>6 DEF InboxInOrder
      <4>2. line[2] < inbox[c][j][2]
        BY <1>4, <2>6, <3>1, <4>1 DEF line
      <4> QED BY <1>1, <3>4, <4>1, <4>2 DEF Later
    <3> QED BY <1>7, <3>3, <3>5, <3>6 DEF Kept
  <2> QED BY <2>5, <2>6
<1> QED BY <1>5, <1>9, <1>10

\* The first line of a buffer is answered and leaves it.
LEMMA KeptAnswered ==
    ASSUME TypeOK, HasLine, NEW c \in Conns, Kept(c), NEW h \in Conns, SendResponse(h)
    PROVE  Kept(c)'
<1> USE DEF serverVars, threadVars, tableVars, peerVars, queueVars, historyVars
<1>1. UNCHANGED <<polled, sent, queue, inbox>>
  BY DEF SendResponse
<1>2. /\ at[h] = "reply" /\ at'[h] = "loop"
      /\ \A d \in Conns \ {h} : at'[d] = at[d]
  BY GotoType DEF SendResponse, Places
<1>3. /\ buffer[h] # <<>> /\ buffer[h] \in Seq(Lines)
      /\ buffer'[h] = Tail(buffer[h])
      /\ \A d \in Conns \ {h} : buffer'[d] = buffer[d]
  BY <1>2 DEF SendResponse, TypeOK, HasLine
<1>4. /\ Len(buffer'[h]) = Len(buffer[h]) - 1
      /\ \A i \in 1..Len(buffer'[h]) :
            buffer'[h][i] = buffer[h][i + 1] /\ i + 1 \in 1..Len(buffer[h])
  BY <1>3
<1>5. QueueInOrder(c) /\ BufferInOrder(c) /\ InboxInOrder(c) /\ OwnHandler(c)
  BY DEF Kept
<1>6. QueueInOrder(c)' /\ \A n : Later(c, n) => Later(c, n)'
  BY <1>1, <1>5 DEF QueueInOrder, Later
<1>7. OwnHandler(c)'
  <2> SUFFICES ASSUME NEW d \in Conns \ {c}, NEW i \in 1..Len(buffer'[d])
               PROVE  buffer'[d][i][1] # c
    BY DEF OwnHandler
  <2>1. CASE d = h
    BY <1>4, <1>5, <2>1 DEF OwnHandler
  <2>2. CASE d # h
    BY <1>3, <1>5, <2>2 DEF OwnHandler
  <2> QED BY <2>1, <2>2
<1>8. CASE h # c
  <2>1. BufferInOrder(c)'
    BY <1>1, <1>2, <1>3, <1>5, <1>8 DEF BufferInOrder, Later
  <2>2. InboxInOrder(c)'
    BY <1>1, <1>3, <1>5, <1>8 DEF InboxInOrder, Later, Rising
  <2> QED BY <1>6, <1>7, <2>1, <2>2 DEF Kept
<1>9. CASE h = c
  <2>1. \A i \in 1..Len(buffer'[c]) : buffer'[c][i][1] = c =>
           buffer'[c][i][2] <= sent /\ Later(c, buffer'[c][i][2])
    <3> SUFFICES ASSUME NEW i \in 1..Len(buffer'[c]), buffer'[c][i][1] = c
                 PROVE  buffer'[c][i][2] <= sent /\ Later(c, buffer'[c][i][2])
      OBVIOUS
    <3>1. /\ buffer'[c][i] = buffer[c][i + 1]
          /\ i + 1 \in 1..Len(buffer[c]) /\ i + 1 > 1
      BY <1>4, <1>9
    <3> QED BY <1>5, <3>1 DEF BufferInOrder
  <2>2. \A i, j \in 1..Len(buffer'[c]) :
           i < j /\ buffer'[c][i][1] = c /\ buffer'[c][j][1] = c
               => buffer'[c][i][2] < buffer'[c][j][2]
    <3> SUFFICES ASSUME NEW i \in 1..Len(buffer'[c]), NEW j \in 1..Len(buffer'[c]),
                        i < j, buffer'[c][i][1] = c, buffer'[c][j][1] = c
                 PROVE  buffer'[c][i][2] < buffer'[c][j][2]
      OBVIOUS
    <3>1. /\ buffer'[c][i] = buffer[c][i + 1] /\ buffer'[c][j] = buffer[c][j + 1]
          /\ i + 1 \in 1..Len(buffer[c]) /\ j + 1 \in 1..Len(buffer[c]) /\ i + 1 < j + 1
      BY <1>4, <1>9
    <3> QED BY <1>5, <3>1 DEF BufferInOrder
  <2>3. BufferInOrder(c)'
    BY <1>1, <2>1, <2>2 DEF BufferInOrder, Later
  <2>4. InboxInOrder(c)'
    <3> SUFFICES ASSUME NEW j \in 1..Len(inbox[c]), NEW i \in 1..Len(buffer'[c]),
                        buffer'[c][i][1] = c
                 PROVE  buffer'[c][i][2] < inbox[c][j][2]
      BY <1>1, <1>5 DEF InboxInOrder, Later, Rising
    <3>1. buffer'[c][i] = buffer[c][i + 1] /\ i + 1 \in 1..Len(buffer[c])
      BY <1>4, <1>9
    <3> QED BY <1>5, <3>1 DEF InboxInOrder
  <2> QED BY <1>6, <1>7, <2>3, <2>4 DEF Kept
<1> QED BY <1>8, <1>9

\* The EA takes the first command, or the queue is cleared.
LEMMA KeptTaken ==
    ASSUME TypeOK, NEW c \in Conns, Kept(c), PollNextCommand \/ ClearQueue
    PROVE  Kept(c)'
<1> USE DEF serverVars, threadVars, tableVars, peerVars, queueVars, historyVars
<1>1. UNCHANGED <<at, sent, buffer, inbox>>
  BY DEF PollNextCommand, ClearQueue
<1>2. QueueInOrder(c) /\ BufferInOrder(c) /\ InboxInOrder(c) /\ OwnHandler(c)
  BY DEF Kept
<1>3. queue # <<>> /\ queue \in Seq(Lines)
  BY DEF PollNextCommand, ClearQueue, TypeOK
<1>4. /\ 1 \in 1..Len(queue) /\ Head(queue) = queue[1] /\ queue[1][1] \in Conns
      /\ Len(Tail(queue)) = Len(queue) - 1
      /\ \A i \in 1..Len(Tail(queue)) :
            Tail(queue)[i] = queue[i + 1] /\ i + 1 \in 1..Len(queue) /\ 1 < i + 1
  BY <1>3 DEF Lines
<1>5. /\ queue' = Tail(queue) \/ queue' = <<>>
      /\ \/ polled'[c] = polled[c]
         \/ queue' = Tail(queue) /\ queue[1][1] = c /\ polled'[c] = queue[1][2]
  BY <1>4 DEF PollNextCommand, ClearQueue, TypeOK
<1>6. \A i \in 1..Len(queue') :
         queue'[i] = queue[i + 1] /\ i + 1 \in 1..Len(queue) /\ 1 < i + 1
  BY <1>4, <1>5
<1>7. \A n : Later(c, n) => Later(c, n)'
  BY <1>4, <1>5, <1>6 DEF Later
<1>8. QueueInOrder(c)'
  <2>1. polled'[c] <= sent
    BY <1>2, <1>4, <1>5 DEF QueueInOrder
  <2>2. ASSUME NEW i \in 1..Len(queue'), queue'[i][1] = c
        PROVE  polled'[c] < queue'[i][2] /\ queue'[i][2] <= sent
    BY <1>2, <1>4, <1>5, <1>6, <2>2 DEF QueueInOrder
  <2>3. ASSUME NEW i \in 1..Len(queue'), NEW j \in 1..Len(queue'),
               i < j, queue'[i][1] = c, queue'[j][1] = c
        PROVE  queue'[i][2] < queue'[j][2]
    <3>1. /\ queue'[i] = queue[i + 1] /\ queue'[j] = queue[j + 1]
          /\ i + 1 \in 1..Len(queue) /\ j + 1 \in 1..Len(queue) /\ i + 1 < j + 1
      BY <1>6, <2>3
    <3> QED BY <1>2, <2>3, <3>1 DEF QueueInOrder
  <2> QED BY <1>1, <2>1, <2>2, <2>3 DEF QueueInOrder
<1>9. BufferInOrder(c)'
  BY <1>1, <1>2, <1>7 DEF BufferInOrder, Later
<1>10. InboxInOrder(c)' /\ OwnHandler(c)'
  BY <1>1, <1>2, <1>7 DEF InboxInOrder, OwnHandler, Rising, Later
<1> QED BY <1>8, <1>9, <1>10 DEF Kept

\* Only what a peer sends comes into an inbox; the first lines leave it, or all do.
LEMMA InboxStep ==
    ASSUME TypeOK, Next, \A d \in Conns : ~PeerSends(d), NEW c \in Conns
    PROVE  \/ inbox'[c] \in {inbox[c], <<>>}
           \/ \E k \in 0..Len(inbox[c]) :
                 inbox'[c] = SubSeq(inbox[c], k + 1, Len(inbox[c]))
<1> USE DEF serverVars, threadVars, tableVars, peerVars, queueVars, historyVars
<1>1. ASSUME NEW h \in Conns, Handshake(h)
      PROVE  \E k \in 0..Len(inbox[c]) :
                inbox'[c] = SubSeq(inbox[c], k + 1, Len(inbox[c])) \/ inbox'[c] = inbox[c]
  <2>1. Behind(h) \in Conns
    BY <1>1, BehindType DEF Handshake
  <2>2. PICK k \in 0..Len(inbox[Behind(h)]) :
           inbox' = [inbox EXCEPT ![Behind(h)] = SubSeq(@, k + 1, Len(@))]
    BY <1>1 DEF Handshake
  <2>3. inbox[c] \in Seq(Lines) /\ 0 \in 0..Len(inbox[c])
    BY DEF TypeOK
  <2> QED BY <2>1, <2>2, <2>3 DEF TypeOK
<1>2. ASSUME NEW h \in Conns, Receive(h)
      PROVE  \E k \in 0..Len(inbox[c]) :
                inbox'[c] = SubSeq(inbox[c], k + 1, Len(inbox[c])) \/ inbox'[c] = inbox[c]
  <2>1. Behind(h) \in Conns
    BY <1>2, BehindType DEF Receive
  <2>2. PICK k \in 1..Len(inbox[Behind(h)]) :
           inbox' = [inbox EXCEPT ![Behind(h)] = SubSeq(@, k + 1, Len(@))]
    BY <1>2 DEF Receive
  <2>3. inbox[c] \in Seq(Lines) /\ 0 \in 0..Len(inbox[c])
    BY DEF TypeOK
  <2>4. inbox[Behind(h)] \in Seq(Lines) /\ k \in 0..Len(inbox[Behind(h)])
    BY <2>1, <2>2 DEF TypeOK
  <2> QED BY <2>1, <2>2, <2>3, <2>4 DEF TypeOK
<1>3. ASSUME NEW S, CloseSocks(S)
      PROVE  inbox'[c] \in {inbox[c], <<>>}
  BY <1>3 DEF CloseSocks
<1>4. CASE \/ \E h \in Conns : CloseOwnSocket(h)
           \/ BroadcastToAll \/ DisconnectAllClients \/ StopSessions
  <2>1. \E S : CloseSocks(S)
    BY <1>4 DEF CloseOwnSocket, BroadcastToAll, DisconnectAllClients, StopSessions, Cut
  <2> QED BY <1>3, <2>1
<1>5. CASE \/ \E h \in Conns : Accept(h) \/ PeerCloses(h)
           \/ \E h \in Conns : \/ HandshakeFails(h) \/ InsertSession(h) \/ ReceiveEnd(h)
                               \/ LeaveLoop(h) \/ ProcessCommand(h) \/ SendResponse(h)
                               \/ EraseSession(h)
           \/ Stop \/ Start \/ PollNextCommand \/ ClearQueue
  <2>1. inbox' = inbox
    BY <1>5 DEF Accept, PeerCloses, HandshakeFails, InsertSession, ReceiveEnd, LeaveLoop,
                ProcessCommand, SendResponse, EraseSession, Stop, Start, PollNextCommand,
                ClearQueue
  <2> QED BY <2>1
<1> QED BY <1>1, <1>2, <1>4, <1>5 DEF Next, Handler

\* Only its own lines are in the inbox of a connection.
LEMMA InboxOwnNext == TypeOK /\ InboxOwn /\ [Next]_vars => InboxOwn'
<1> SUFFICES ASSUME TypeOK, InboxOwn, [Next]_vars PROVE InboxOwn'
  OBVIOUS
<1> USE DEF serverVars, threadVars, tableVars, peerVars, queueVars, historyVars
<1>1. ASSUME NEW d \in Conns, PeerSends(d) PROVE InboxOwn'
  <2>1. /\ inbox'[d] = Append(inbox[d], <<d, sent'>>) /\ inbox[d] \in Seq(Lines)
        /\ \A c \in Conns \ {d} : inbox'[c] = inbox[c]
    BY <1>1 DEF PeerSends, TypeOK
  <2>2. \A i \in 1..Len(inbox'[d]) : inbox'[d][i] \in {inbox[d][i], <<d, sent'>>}
                                     /\ (i \in 1..Len(inbox[d]) \/ i = Len(inbox[d]) + 1)
    BY <2>1
  <2> QED BY <2>1, <2>2, Appended DEF InboxOwn
<1>2. ASSUME \A c \in Conns : \/ inbox'[c] \in {inbox[c], <<>>}
                              \/ \E k \in 0..Len(inbox[c]) :
                                    inbox'[c] = SubSeq(inbox[c], k + 1, Len(inbox[c]))
      PROVE  InboxOwn'
  <2> SUFFICES ASSUME NEW c \in Conns, NEW i \in 1..Len(inbox'[c])
               PROVE  inbox'[c][i][1] = c
    BY DEF InboxOwn
  <2>1. inbox[c] \in Seq(Lines)
    BY DEF TypeOK
  <2>2. CASE inbox'[c] \in {inbox[c], <<>>}
    BY <2>2 DEF InboxOwn
  <2>3. ASSUME NEW k \in 0..Len(inbox[c]),
               inbox'[c] = SubSeq(inbox[c], k + 1, Len(inbox[c]))
        PROVE  inbox'[c][i][1] = c
    <3>1. /\ Len(inbox'[c]) = Len(inbox[c]) - k
          /\ \A j \in 1..(Len(inbox[c]) - k) : inbox'[c][j] = inbox[c][j + k]
      BY <2>1, <2>3, LastLines
    <3>2. inbox'[c][i] = inbox[c][i + k] /\ i + k \in 1..Len(inbox[c])
      BY <2>1, <3>1
    <3> QED BY <3>2 DEF InboxOwn
  <2> QED BY <1>2, <2>2, <2>3
<1>3. CASE UNCHANGED vars
  BY <1>2, <1>3 DEF vars
<1>4. CASE Next /\ \A d \in Conns : ~PeerSends(d)
  BY <1>2, <1>4, InboxStep
<1> QED BY <1>1, <1>3, <1>4

\* Every step.
LEMMA KNext == KInv /\ [Next]_vars => KInv'
<1> SUFFICES ASSUME KInv, [Next]_vars PROVE KInv'
  OBVIOUS
<1> USE DEF serverVars, threadVars, tableVars, peerVars, queueVars, historyVars
<1>1. RInv /\ TInv /\ TypeOK /\ HasLine /\ SharedNumbers /\ InboxOwn
  BY DEF KInv, RInv, TInv, RepliesKept, CommandsKept
<1>2. RInv' /\ InboxOwn'
  BY <1>1, RNext, InboxOwnNext
<1>3. shared \subseteq shared'
  BY DEF Next, vars, Handler, Accept, PeerSends, PeerCloses, Handshake, HandshakeFails,
         InsertSession, Receive, ReceiveEnd, LeaveLoop, ProcessCommand, SendResponse,
         EraseSession, CloseOwnSocket, BroadcastToAll, DisconnectAllClients, Stop,
         StopSessions, Start, PollNextCommand, ClearQueue
<1> SUFFICES ASSUME NEW c \in Conns \ shared, Kept(c) PROVE Kept(c)'
  BY <1>2, <1>3 DEF KInv, CommandsKept
<1>4. CASE UNCHANGED vars
  BY <1>1, <1>4, KeptStill DEF vars
<1>5. ASSUME NEW h \in Conns,
             PeerSends(h) \/ Receive(h) \/ ProcessCommand(h) \/ SendResponse(h)
      PROVE  Kept(c)'
  BY <1>1, <1>5, KeptSent, KeptReceived, KeptProcessed, KeptAnswered
<1>6. CASE PollNextCommand \/ ClearQueue
  BY <1>1, <1>6, KeptTaken
<1>7. ASSUME Next, UNCHANGED <<queue, polled, buffer, sent>>, at[c] # "reply" \/ at'[c] = "reply",
             \A d \in Conns : ~PeerSends(d)
      PROVE  Kept(c)'
  BY <1>1, <1>7, InboxStep, KeptStill
<1>8. ASSUME NEW h \in Conns,
             \/ Accept(h) \/ PeerCloses(h) \/ Handshake(h) \/ HandshakeFails(h)
             \/ InsertSession(h) \/ ReceiveEnd(h) \/ LeaveLoop(h) \/ EraseSession(h)
             \/ CloseOwnSocket(h)
      PROVE  Kept(c)'
  <2>1. UNCHANGED <<queue, polled, buffer, sent>>
    BY <1>8 DEF Accept, PeerCloses, Handshake, HandshakeFails, InsertSession, ReceiveEnd,
                LeaveLoop, EraseSession, CloseOwnSocket
  <2>2. \/ at' = at
        \/ \E from \in Places \ {"reply"}, to \in Places : Goto(h, from, to)
    BY <1>8 DEF Accept, PeerCloses, Handshake, HandshakeFails, InsertSession, ReceiveEnd,
                LeaveLoop, EraseSession, CloseOwnSocket, Places
  <2>3. at[c] # "reply" \/ at'[c] = "reply"
    BY <1>1, <2>2, GotoType
  <2>4. \A d \in Conns : ~PeerSends(d)
    <3>1. \A d \in Conns : PeerSends(d) => sent' # sent
      BY <1>1, SessionsAssumption DEF PeerSends, TypeOK
    <3> QED BY <2>1, <3>1
  <2>5. Next
    BY <1>8 DEF Next, Handler
  <2> QED BY <1>7, <2>1, <2>3, <2>4, <2>5
<1>9. CASE BroadcastToAll \/ DisconnectAllClients \/ Stop \/ StopSessions \/ Start
  <2>1. UNCHANGED <<queue, polled, buffer, sent, at>>
    BY <1>9 DEF BroadcastToAll, DisconnectAllClients, Stop, StopSessions, Start
  <2>2. \A d \in Conns : ~PeerSends(d)
    <3>1. \A d \in Conns : PeerSends(d) => sent' # sent
      BY <1>1, SessionsAssumption DEF PeerSends, TypeOK
    <3> QED BY <2>1, <3>1
  <2>3. Next
    BY <1>9 DEF Next
  <2> QED BY <1>7, <2>1, <2>2, <2>3
<1> QED BY <1>4, <1>5, <1>6, <1>8, <1>9 DEF Next, Handler

\* The EA gets the commands of a connection in the order in which the peer sent
\* them and each once, unless an older handler shares its socket number.
THEOREM TcpCommands == Spec => []CommandsInOrder
<1>1. KInv => CommandsInOrder
  BY DEF KInv, CommandsKept, Kept, QueueInOrder, CommandsInOrder
<1> QED BY <1>1, KInit, KNext, PTL DEF Spec
=============================================================================
