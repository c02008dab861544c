---------------------------- MODULE TcpSessions ----------------------------
(***************************************************************************)
(* The sockets and threads of the master's TCP server: TcpServer.cpp and   *)
(* the command queue that the EA polls.                                    *)
(*                                                                         *)
(* Every accepted connection has a handler thread that keeps the number of *)
(* its socket in a local variable.  A broadcast that fails, a change of    *)
(* role and stop() close the sockets of the sessions under that thread;    *)
(* the operating system may give the number to the next connection while   *)
(* the old handler still uses it.  Session keys come from a generator that *)
(* the handlers share without a lock, so two of them may draw the same.    *)
(*                                                                         *)
(* A line from a peer is its number; whether process_command finds a       *)
(* command in it is a choice.  The snapshot replay that a new session      *)
(* triggers is in SnapshotFanout (here it is one of the broadcasts); text  *)
(* and partial lines are not modelled.                                     *)
(***************************************************************************)
EXTENDS Naturals, Sequences

CONSTANTS
    MaxConns,   \* connections accepted (a bound); each has its handler thread
    MaxSocks,   \* socket numbers of the operating system (a bound)
    MaxLines    \* lines all peers send after their account lines (a bound)

ASSUME SessionsAssumption ==
    MaxConns \in Nat /\ MaxSocks \in Nat /\ MaxLines \in Nat

\* Connections, numbered as they are accepted.
Conns == 1..MaxConns

Socks == 1..MaxSocks

\* No connection; INVALID_SOCKET.
Nobody == 0
NoSock == 0

VARIABLES
    running,    \* running_
    listening,  \* the listening socket is open
    at,         \* where the handler of the connection is
    sock,       \* its local client_socket
    key,        \* its session_key
    buffer,     \* complete lines in its message_buffer
    owner,      \* the connection a socket number stands for, or Nobody
    sessions,   \* sessions_: the handler that stored the session, by key
    lost,       \* registered sessions with connected = false
    open,       \* the peer has not closed its end
    sent,       \* lines sent so far; they are numbered throughout
    inbox,      \* lines the server has not received
    answered,   \* the line the last reply to the peer was for, at most one
    queue,      \* CommandQueue of the EA
    polled,     \* history: number of the last line of a peer the EA has polled
    shared,     \* history: connections whose socket number an older handler held
    twins       \* history: handlers that drew the key of another

serverVars == <<running, listening>>
threadVars == <<at, sock, key, buffer>>
tableVars == <<owner, sessions, lost>>
peerVars == <<open, sent, inbox, answered>>
queueVars == <<queue, polled>>
historyVars == <<shared, twins>>
vars == <<serverVars, threadVars, tableVars, peerVars, queueVars, historyVars>>

Places == {"none", "handshake", "insert", "loop", "reply", "erase", "close",
           "done"}
Lines == Conns \X (1..MaxLines)

TypeOK ==
    /\ running \in BOOLEAN
    /\ listening \in BOOLEAN
    /\ at \in [Conns -> Places]
    /\ sock \in [Conns -> Socks \cup {NoSock}]
    /\ key \in [Conns -> Conns]
    /\ buffer \in [Conns -> Seq(Lines)]
    /\ owner \in [Socks -> Conns \cup {Nobody}]
    /\ sessions \in [Conns -> Conns \cup {Nobody}]
    /\ lost \in SUBSET Conns
    /\ open \in [Conns -> BOOLEAN]
    /\ sent \in 0..MaxLines
    /\ inbox \in [Conns -> Seq(Lines)]
    /\ answered \in [Conns -> SUBSET Lines]
    /\ queue \in Seq(Lines)
    /\ polled \in [Conns -> 0..MaxLines]
    /\ shared \in SUBSET Conns
    /\ twins \in SUBSET Conns

Init ==
    /\ running = TRUE
    /\ listening = TRUE
    /\ at = [c \in Conns |-> "none"]
    /\ sock = [c \in Conns |-> NoSock]
    /\ key = [c \in Conns |-> c]
    /\ buffer = [c \in Conns |-> <<>>]
    /\ owner = [s \in Socks |-> Nobody]
    /\ sessions = [k \in Conns |-> Nobody]
    /\ lost = {}
    /\ open = [c \in Conns |-> TRUE]
    /\ sent = 0
    /\ inbox = [c \in Conns |-> <<>>]
    /\ answered = [c \in Conns |-> {}]
    /\ queue = <<>>
    /\ polled = [c \in Conns |-> 0]
    /\ shared = {}
    /\ twins = {}

-----------------------------------------------------------------------------
(* Sockets.                                                                *)

Goto(c, from, to) == at[c] = from /\ at' = [at EXCEPT ![c] = to]

\* The connection that a handler's socket number stands for now.
Behind(c) == IF sock[c] = NoSock THEN Nobody ELSE owner[sock[c]]

\* The server side of the connection exists.
Live(d) == \E s \in Socks : owner[s] = d

Registered == {sessions[k] : k \in Conns} \ {Nobody}

\* Close these numbers, whatever they stand for by now.
CloseSocks(S) ==
    /\ owner' = [s \in Socks |-> IF s \in S THEN Nobody ELSE owner[s]]
    /\ inbox' = [d \in Conns |-> IF \E s \in S \cap Socks : owner[s] = d
                                 THEN <<>> ELSE inbox[d]]

-----------------------------------------------------------------------------
(* The peers.                                                              *)

PeerSends(d) ==
    /\ open[d] /\ Live(d)
    /\ sent < MaxLines
    /\ sent' = sent + 1
    /\ inbox' = [inbox EXCEPT ![d] = Append(@, <<d, sent'>>)]
    /\ UNCHANGED <<serverVars, threadVars, tableVars, open, answered, queueVars,
                   historyVars>>

PeerCloses(d) ==
    /\ open[d] /\ Live(d)
    /\ open' = [open EXCEPT ![d] = FALSE]
    /\ UNCHANGED <<serverVars, threadVars, tableVars, sent, inbox, answered,
                   queueVars, historyVars>>

-----------------------------------------------------------------------------
(* accept_loop and handle_client up to the session.                        *)

\* Any number that is free for the operating system may come back.
Accept(c) ==
    /\ listening
    /\ \A d \in Conns : d < c => at[d] # "none"
    /\ Goto(c, "none", "handshake")
    /\ \E s \in Socks :
          /\ owner[s] = Nobody
          /\ owner' = [owner EXCEPT ![s] = c]
          /\ sock' = [sock EXCEPT ![c] = s]
          /\ shared' = IF \E d \in Conns : sock[d] = s THEN shared \cup {c}
                                                      ELSE shared
    /\ UNCHANGED <<serverVars, key, buffer, sessions, lost, peerVars,
                   queueVars, twins>>

\* Mutant of GenerateSessionId: a generator that fails leaves the key empty.
GenerateSessionIdEmpty(c) ==
    /\ key' = [key EXCEPT ![c] = Nobody]
    /\ UNCHANGED twins

\* generate_session_id: handlers that draw at the same time may draw the same.
GenerateSessionId(c) ==
    \E d \in {c} \cup {e \in Conns : at[e] = "insert"} :
       /\ key' = [key EXCEPT ![c] = key[d]]
       /\ twins' = IF d = c THEN twins ELSE twins \cup {c, d}

\* The account line came; lines received with it are dropped.
Handshake(c) ==
    /\ Goto(c, "handshake", "insert")
    /\ Behind(c) # Nobody
    /\ \E k \in 0..Len(inbox[Behind(c)]) :
          inbox' = [inbox EXCEPT ![Behind(c)] = SubSeq(@, k + 1, Len(@))]
    /\ GenerateSessionId(c)
    /\ UNCHANGED <<serverVars, sock, buffer, tableVars, open, sent, answered,
                   queueVars, shared>>

\* Five seconds without a line, or the peer or the socket is gone.
HandshakeFails(c) ==
    /\ Goto(c, "handshake", "close")
    /\ UNCHANGED <<serverVars, sock, key, buffer, tableVars, peerVars, queueVars,
                   historyVars>>

InsertSession(c) ==
    /\ Goto(c, "insert", "loop")
    /\ sessions' = [sessions EXCEPT ![key[c]] = c]
    /\ lost' = lost \ {c, sessions[key[c]]}
    /\ UNCHANGED <<serverVars, sock, key, buffer, owner, peerVars, queueVars,
                   historyVars>>

-----------------------------------------------------------------------------
(* receive_commands_loop, process_command.                                 *)

\* select fails on a number that stands for nothing, and the loop goes round:
\* that is no step.  Whoever receives first gets the lines.
Receive(c) ==
    /\ running
    /\ at[c] = "loop" /\ buffer[c] = <<>>
    /\ LET d == Behind(c)
       IN  /\ d # Nobody
           /\ \E k \in 1..Len(inbox[d]) :
                 /\ buffer' = [buffer EXCEPT ![c] = SubSeq(inbox[d], 1, k)]
                 /\ inbox' = [inbox EXCEPT ![d] = SubSeq(@, k + 1, Len(@))]
    /\ UNCHANGED <<serverVars, at, sock, key, tableVars, open, sent, answered,
                   queueVars, historyVars>>

\* Mutant of ReceiveEnd: the end of the stream is taken for an empty receive.
ReceiveEndIgnored(c) == FALSE

\* recv tells the end; one session that holds the number is marked.
ReceiveEnd(c) ==
    /\ running
    /\ buffer[c] = <<>>
    /\ Goto(c, "loop", "erase")
    /\ Behind(c) # Nobody /\ ~open[Behind(c)] /\ inbox[Behind(c)] = <<>>
    /\ LET held == {d \in Registered : sock[d] = sock[c]}
       IN  IF held = {} THEN UNCHANGED lost
           ELSE \E d \in held : lost' = lost \cup {d}
    /\ UNCHANGED <<serverVars, sock, key, buffer, owner, sessions, peerVars,
                   queueVars, historyVars>>

\* Mutant of LeaveLoop: the loop does not look at running_.
LeaveLoopNever(c) == FALSE

LeaveLoop(c) ==
    /\ ~running
    /\ buffer[c] = <<>>
    /\ Goto(c, "loop", "erase")
    /\ UNCHANGED <<serverVars, sock, key, buffer, tableVars, peerVars, queueVars,
                   historyVars>>

\* Mutant of Queued: the command is put before those that wait.
QueuedFirst(line) == {queue, <<line>> \o queue}

\* Commands, and events made commands, go to the EA; the rest gets an error.
Queued(line) == {queue, Append(queue, line)}

ProcessCommand(c) ==
    /\ Goto(c, "loop", "reply")
    /\ buffer[c] # <<>>
    /\ queue' \in Queued(Head(buffer[c]))
    /\ UNCHANGED <<serverVars, sock, key, buffer, tableVars, peerVars, polled,
                   historyVars>>

\* Mutant of Recipients: the reply goes to a session of the same account.
RecipientsByAccount(c) == Registered

\* Whoever the number of the handler stands for by now.
Recipients(c) == {Behind(c)} \ {Nobody}

\* send_response outside the lock; whether it failed is not looked at.
SendResponse(c) ==
    /\ Goto(c, "reply", "loop")
    /\ buffer' = [buffer EXCEPT ![c] = Tail(@)]
    /\ \/ \E d \in Recipients(c) :
             answered' = [answered EXCEPT ![d] = {Head(buffer[c])}]
       \/ UNCHANGED answered
    /\ UNCHANGED <<serverVars, sock, key, tableVars, open, sent, inbox, queueVars,
                   historyVars>>

\* Mutant of EraseSession: all sessions of the account, as a prefix would find.
EraseSessionOfAccount(c) ==
    /\ Goto(c, "erase", "close")
    /\ sessions' = [k \in Conns |-> Nobody]
    /\ lost' = {}
    /\ UNCHANGED <<serverVars, sock, key, buffer, owner, peerVars, queueVars,
                   historyVars>>

\* Whatever session the key stands for by now.
EraseSession(c) ==
    /\ Goto(c, "erase", "close")
    /\ sessions' = [sessions EXCEPT ![key[c]] = Nobody]
    /\ lost' = lost \ {sessions[key[c]]}
    /\ UNCHANGED <<serverVars, sock, key, buffer, owner, peerVars, queueVars,
                   historyVars>>

\* The local number is closed, whatever it stands for by now.
CloseOwnSocket(c) ==
    /\ Goto(c, "close", "done")
    /\ CloseSocks({sock[c]})
    /\ sock' = [sock EXCEPT ![c] = NoSock]
    /\ UNCHANGED <<serverVars, key, buffer, sessions, lost, open, sent, answered,
                   queueVars, historyVars>>

-----------------------------------------------------------------------------
(* Other threads: broadcasts, role changes, start and stop.                *)

\* Sessions D lose their place in the map, and the sockets they hold close.
Cut(D) ==
    /\ CloseSocks({sock[d] : d \in D})
    /\ sessions' = [k \in Conns |-> IF sessions[k] \in D THEN Nobody
                                                         ELSE sessions[k]]
    /\ lost' = lost \ D

\* A send fails on a closed socket, and may fail on any other.
BroadcastToAll ==
    /\ \E D \in SUBSET (Registered \ lost) :
          /\ {d \in Registered \ lost : Behind(d) = Nobody} \subseteq D
          /\ D # {}
          /\ Cut(D)
    /\ UNCHANGED <<serverVars, threadVars, open, sent, answered, queueVars,
                   historyVars>>

DisconnectAllClients ==
    /\ Registered # {}
    /\ Cut(Registered)
    /\ UNCHANGED <<serverVars, threadVars, open, sent, answered, queueVars,
                   historyVars>>

\* stop() first tells the threads, which may already act on it.
Stop ==
    /\ running
    /\ running' = FALSE
    /\ UNCHANGED <<listening, threadVars, tableVars, peerVars, queueVars,
                   historyVars>>

StopSessions ==
    /\ ~running /\ listening
    /\ listening' = FALSE
    /\ Cut(Registered)
    /\ UNCHANGED <<running, threadVars, open, sent, answered, queueVars,
                   historyVars>>

\* The EA is loaded again: handlers that have not looked go on.
Start ==
    /\ ~running /\ ~listening
    /\ running' = TRUE
    /\ listening' = TRUE
    /\ UNCHANGED <<threadVars, tableVars, peerVars, queueVars, historyVars>>

\* The EA's timer.
PollNextCommand ==
    /\ queue # <<>>
    /\ queue' = Tail(queue)
    /\ polled' = [polled EXCEPT ![Head(queue)[1]] = Head(queue)[2]]
    /\ UNCHANGED <<serverVars, threadVars, tableVars, peerVars, historyVars>>

\* The end of BridgeServer::stop, or a login, drops what is queued.
ClearQueue ==
    /\ queue # <<>>
    /\ queue' = <<>>
    /\ UNCHANGED <<serverVars, threadVars, tableVars, peerVars, polled, historyVars>>

-----------------------------------------------------------------------------
Handler(c) ==
    \/ Handshake(c) \/ HandshakeFails(c) \/ InsertSession(c)
    \/ Receive(c) \/ ReceiveEnd(c) \/ LeaveLoop(c)
    \/ ProcessCommand(c) \/ SendResponse(c) \/ EraseSession(c)
    \/ CloseOwnSocket(c)

Next ==
    \/ \E c \in Conns : \/ Accept(c) \/ PeerSends(c) \/ PeerCloses(c)
                        \/ Handler(c)
    \/ BroadcastToAll \/ DisconnectAllClients
    \/ Stop \/ StopSessions \/ Start
    \/ PollNextCommand \/ ClearQueue

Spec == Init /\ [][Next]_vars

\* A handler that can go on does; nobody has to connect, send or stop.
FairSpec == Spec /\ \A c \in Conns : WF_vars(Handler(c))

-----------------------------------------------------------------------------
(* Properties.                                                             *)

\* The EA gets the commands of a connection in the order in which the peer sent
\* them and each once, unless an older handler shares its socket number (then
\* two threads receive from it): TcpServer.cpp 417-475, CommandQueue.cpp 5-32.
CommandsInOrder ==
    \A c \in Conns \ shared : \A i, j \in 1..Len(queue) :
        queue[i][1] = c =>
            /\ polled[c] < queue[i][2]
            /\ i < j /\ queue[j][1] = c => queue[i][2] < queue[j][2]

\* What a step may answer: a line of the peer itself, later than the last one.
AnswersOwn ==
    \A c \in Conns \ shared : \A new \in answered'[c] \ answered[c] :
        new[1] = c /\ \A old \in answered[c] : old[2] < new[2]

\* A peer gets replies to its own lines only, in their order, unless an older
\* handler shares its socket number: process_command answers outside the lock
\* on a number that broadcasts, role changes and stop() close (TcpServer.cpp
\* 579-736, 761-785, 817-826).
RepliesAreOwn == [][AnswersOwn]_vars

\* While a handler serves an intact connection its session is registered, and a
\* registered session has a handler that has not ended: a handler that ends takes
\* no session but its own away (TcpServer.cpp 389-411).  Handlers that drew the
\* same key escape.
SessionsMatchHandlers ==
    /\ \A c \in Conns \ twins :
          (at[c] \in {"loop", "reply"} /\ owner[sock[c]] = c) => c \in Registered
    /\ \A c \in Registered : at[c] \in {"loop", "reply", "erase"}

\* When a peer closes an intact connection its handler ends, and after a stop
\* that is not followed by a start all handlers end, also those whose socket
\* another thread has closed and who only go round (TcpServer.cpp 417-475).
\* What has ended stays so: it is enough that the two are true together again
\* and again.
HandlersEnd ==
    []<>(/\ \A c \in Conns : open[c] \/ at[c] = "done" \/ Behind(c) # c
         /\ running \/ \A c \in Conns : at[c] \in {"none", "done"})
=============================================================================
