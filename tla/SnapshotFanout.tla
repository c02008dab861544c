--------------------------- MODULE SnapshotFanout ---------------------------
(***************************************************************************)
(* How the bridge DLL of a master terminal fans events out to its slaves.  *)
(*                                                                         *)
(* The EA thread hands one event after the other to push_local_event,      *)
(* which checks toggle and role, broadcasts, and only then remembers a     *)
(* snapshot.  Handler threads (one per slave session) and HTTP request     *)
(* threads run broadcast_last_snapshot_to_tcp_if_effective next to it.     *)
(* Each action is what one thread does between two points where another    *)
(* may run: a mutex is taken, or a flag is read without one.               *)
(*                                                                         *)
(* What an event says plays no role here (CopyPath models it): a line is   *)
(* the number of its push and whether it is an event, a snapshot, or a     *)
(* replay of the stored snapshot.                                          *)
(***************************************************************************)
EXTENDS Naturals, Sequences, FiniteSets

CONSTANTS
    Slaves,     \* slave terminals; each has at most one session at a time
    Requests,   \* threads of the master's HTTP server
    MaxPush,    \* pushes the EA makes (only the models need a bound)
    MaxWire     \* lines a socket buffers before a send to it fails

ASSUME FanoutAssumption ==
    /\ Slaves \cap Requests = {}
    /\ MaxPush \in Nat
    /\ MaxWire \in Nat

Callers == Slaves \cup Requests    \* threads that replay the last snapshot

Line == [kind : {"event", "snapshot", "replay"}, n : 1..MaxPush]

VARIABLES
    pushed,        \* number of the latest push
    push,          \* the EA thread inside push_local_event
    enabled,       \* tcp_connection_enabled_ of the master DLL
    isMaster,      \* the account's configured role is "master"
    lastSnapshot,  \* last_snapshot_json_: its push, 0 for the empty string
    caller,        \* each replaying thread: where it is, what it has read
    holder,        \* owner of on_new_session_mutex_: a set of at most one
    registered,    \* the slave's session is in TcpServer::sessions_
    wire,          \* lines sent to the slave and not yet read
    due,           \* history: snapshot a new session is owed
    got,           \* history: newest snapshot sent to the session
    seen           \* history: newest first sending the slave has read

dllVars == <<pushed, push, enabled, isMaster, lastSnapshot, caller, holder>>
vars == <<dllVars, registered, wire, due, got, seen>>

TypeOK ==
    /\ pushed \in 0..MaxPush
    /\ push \in [at : {"idle", "check", "recheck", "send", "store"},
                 kind : {"event", "snapshot"}]
    /\ enabled \in BOOLEAN
    /\ isMaster \in BOOLEAN
    /\ lastSnapshot \in 0..MaxPush
    /\ caller \in [Callers -> [at : {"idle", "lock", "disconnect", "check",
                                     "read", "send"}, n : 0..MaxPush]]
    /\ holder \in SUBSET Slaves
    /\ registered \in [Slaves -> BOOLEAN]
    /\ wire \in [Slaves -> Seq(Line)]
    /\ due \in [Slaves -> 0..MaxPush]
    /\ got \in [Slaves -> 0..MaxPush]
    /\ seen \in [Slaves -> 0..MaxPush]

Init ==
    /\ pushed = 0
    /\ push = [at |-> "idle", kind |-> "event"]
    /\ enabled = TRUE
    /\ isMaster \in BOOLEAN
    /\ lastSnapshot = 0
    /\ caller = [c \in Callers |-> [at |-> "idle", n |-> 0]]
    /\ holder = {}
    /\ registered = [s \in Slaves |-> FALSE]
    /\ wire = [s \in Slaves |-> <<>>]
    /\ due = [s \in Slaves |-> 0]
    /\ got = [s \in Slaves |-> 0]
    /\ seen = [s \in Slaves |-> 0]

-----------------------------------------------------------------------------
(* TcpServer::broadcast_to_all, under sessions_mutex_: every registered    *)
(* session gets the line, or is closed and erased when the send fails.  A  *)
(* full socket always fails, another one may (its peer is gone).           *)

Broadcast(l) ==
    \E F \in SUBSET {s \in Slaves : registered[s]} :
        /\ {s \in Slaves : registered[s] /\ Len(wire[s]) >= MaxWire} \subseteq F
        /\ registered' = [s \in Slaves |-> registered[s] /\ s \notin F]
        /\ wire' = [s \in Slaves |-> IF registered[s] /\ s \notin F
                                     THEN Append(wire[s], l) ELSE wire[s]]
        /\ got' = [s \in Slaves |-> IF /\ registered[s] /\ s \notin F
                                       /\ l.kind # "event" /\ l.n > got[s]
                                    THEN l.n ELSE got[s]]

-----------------------------------------------------------------------------
(* BridgeServer::push_local_event.  One thread, the EA's, calls it.        *)

PushLocalEvent(kind) ==
    /\ push.at = "idle" /\ pushed < MaxPush
    /\ pushed' = pushed + 1
    /\ push' = [at |-> "check", kind |-> kind]
    /\ UNCHANGED <<enabled, isMaster, lastSnapshot, caller, holder>>
    /\ UNCHANGED <<registered, wire, due, got, seen>>

\* The EA thread moves on inside push_local_event.
PushGoto(at) ==
    /\ push' = [push EXCEPT !.at = at]
    /\ UNCHANGED <<pushed, enabled, isMaster, caller, holder, due, seen>>

PushCheck ==
    /\ push.at = "check"
    /\ PushGoto(IF enabled /\ isMaster THEN "recheck" ELSE "idle")
    /\ UNCHANGED <<lastSnapshot, registered, wire, got>>

\* Mutant of PushRecheck: the snapshot is remembered before it is broadcast.
PushRecheckStoring ==
    /\ push.at = "recheck"
    /\ PushGoto(IF isMaster THEN "send" ELSE "idle")
    /\ lastSnapshot' = IF isMaster /\ push.kind = "snapshot" THEN pushed ELSE lastSnapshot
    /\ UNCHANGED <<registered, wire, got>>

\* The role is read a second time, the toggle is not.
PushRecheck ==
    /\ push.at = "recheck"
    /\ PushGoto(IF isMaster THEN "send" ELSE "idle")
    /\ UNCHANGED <<lastSnapshot, registered, wire, got>>

PushSend ==
    /\ push.at = "send"
    /\ Broadcast([kind |-> push.kind, n |-> pushed])
    /\ PushGoto(IF push.kind = "snapshot" THEN "store" ELSE "idle")
    /\ UNCHANGED lastSnapshot

\* Only now is the snapshot remembered, under last_snapshot_mutex_.
PushStore ==
    /\ push.at = "store"
    /\ lastSnapshot' = pushed
    /\ PushGoto("idle")
    /\ UNCHANGED <<registered, wire, got>>

\* send_ready_notification, the EA thread too: another account logs in, with a
\* role of its own.  Sessions and stored snapshot stay.
SendReadyNotification ==
    /\ push.at = "idle"
    /\ isMaster' \in BOOLEAN
    /\ due' = [s \in Slaves |-> 0]
    /\ UNCHANGED <<pushed, push, enabled, lastSnapshot, caller, holder>>
    /\ UNCHANGED <<registered, wire, got, seen>>

-----------------------------------------------------------------------------
(* Threads that replay the snapshot.  A handler thread registers its       *)
(* session and calls on_new_tcp_session under on_new_session_mutex_; an    *)
(* HTTP thread does it after turning the toggle on or setting the role.    *)

CallerGoto(c, at) == caller' = [caller EXCEPT ![c].at = at]

\* No action of this group touches the EA thread or the stored snapshot.
ReplayFrame == UNCHANGED <<pushed, push, lastSnapshot, seen>>

Connect(s) ==
    /\ ~registered[s] /\ caller[s].at = "idle" /\ wire[s] = <<>>
    /\ registered' = [registered EXCEPT ![s] = TRUE]
    /\ CallerGoto(s, "lock")
    /\ due' = [due EXCEPT ![s] = IF enabled /\ isMaster THEN lastSnapshot ELSE 0]
    /\ got' = [got EXCEPT ![s] = 0]
    /\ ReplayFrame
    /\ UNCHANGED <<enabled, isMaster, holder, wire>>

\* Mutant of OnNewSession: try_lock, and no callback when the mutex is taken.
OnNewSessionTryLock(s) ==
    /\ caller[s].at = "lock"
    /\ holder' = IF holder = {} THEN {s} ELSE holder
    /\ CallerGoto(s, IF holder = {} THEN "check" ELSE "idle")
    /\ ReplayFrame
    /\ UNCHANGED <<enabled, isMaster, registered, wire, due, got>>

OnNewSession(s) ==
    /\ caller[s].at = "lock" /\ holder = {}
    /\ holder' = {s}
    /\ CallerGoto(s, "check")
    /\ ReplayFrame
    /\ UNCHANGED <<enabled, isMaster, registered, wire, due, got>>

\* Mutant of ToggleTcp: the HTTP thread enters as an owner of the callback mutex.
ToggleTcpLocking(r, on) ==
    /\ caller[r].at = "idle"
    /\ enabled' = on
    /\ due' = IF on THEN due ELSE [s \in Slaves |-> 0]
    /\ CallerGoto(r, IF on THEN "check" ELSE "idle")
    /\ holder' = holder \cup {r}
    /\ ReplayFrame
    /\ UNCHANGED <<isMaster, registered, wire, got>>

\* handle_put_tcp for the terminal's own account, the toggle changed or not.
ToggleTcp(r, on) ==
    /\ caller[r].at = "idle"
    /\ enabled' = on
    /\ due' = IF on THEN due ELSE [s \in Slaves |-> 0]
    /\ CallerGoto(r, IF on THEN "check" ELSE "idle")
    /\ ReplayFrame
    /\ UNCHANGED <<isMaster, holder, registered, wire, got>>

\* handle_put_config for the terminal's own account, the save succeeding.
PutRole(r, master) ==
    /\ caller[r].at = "idle"
    /\ isMaster' = master
    /\ due' = IF master THEN due ELSE [s \in Slaves |-> 0]
    /\ CallerGoto(r, IF master THEN "check"
                     ELSE IF isMaster THEN "disconnect" ELSE "idle")
    /\ ReplayFrame
    /\ UNCHANGED <<enabled, holder, registered, wire, got>>

\* handle_put_config without a body or a role: the sessions stay connected.
DeleteConfig(r) ==
    /\ caller[r].at = "idle"
    /\ isMaster' = FALSE
    /\ due' = [s \in Slaves |-> 0]
    /\ ReplayFrame
    /\ UNCHANGED <<enabled, caller, holder, registered, wire, got>>

\* TcpServer::disconnect_all_clients after the master role was given up.
DisconnectAll(r) ==
    /\ caller[r].at = "disconnect"
    /\ registered' = [s \in Slaves |-> FALSE]
    /\ CallerGoto(r, "idle")
    /\ ReplayFrame
    /\ UNCHANGED <<enabled, isMaster, holder, wire, due, got>>

\* The caller leaves broadcast_last_snapshot_to_tcp_if_effective.
Leave(c) ==
    /\ CallerGoto(c, "idle")
    /\ holder' = holder \ {c}

ReplayCheck(c) ==
    /\ caller[c].at = "check"
    /\ IF enabled /\ isMaster THEN CallerGoto(c, "read") /\ UNCHANGED holder
                              ELSE Leave(c)
    /\ ReplayFrame
    /\ UNCHANGED <<enabled, isMaster, registered, wire, due, got>>

ReplayRead(c) ==
    /\ caller[c].at = "read"
    /\ IF lastSnapshot = 0
       THEN Leave(c)
       ELSE /\ caller' = [caller EXCEPT ![c] = [at |-> "send", n |-> lastSnapshot]]
            /\ UNCHANGED holder
    /\ ReplayFrame
    /\ UNCHANGED <<enabled, isMaster, registered, wire, due, got>>

ReplaySend(c) ==
    /\ caller[c].at = "send"
    /\ Broadcast([kind |-> "replay", n |-> caller[c].n])
    /\ caller' = [caller EXCEPT ![c] = [at |-> "idle", n |-> 0]]
    /\ holder' = holder \ {c}
    /\ ReplayFrame
    /\ UNCHANGED <<enabled, isMaster, due>>

\* The connection breaks: the handler erases the session if it is still there,
\* what was in flight is lost.
LinkLost(s) ==
    /\ registered[s] \/ wire[s] # <<>>
    /\ caller[s].at = "idle"
    /\ registered' = [registered EXCEPT ![s] = FALSE]
    /\ wire' = [wire EXCEPT ![s] = <<>>]
    /\ ReplayFrame
    /\ UNCHANGED <<enabled, isMaster, caller, holder, due, got>>

\* Mutant of Receive: the newest line of the buffer is processed first.
ReceiveNewest(s) ==
    /\ wire[s] # <<>>
    /\ LET l == wire[s][Len(wire[s])]
       IN  seen' = IF l.kind = "replay" THEN seen ELSE [seen EXCEPT ![s] = l.n]
    /\ wire' = [wire EXCEPT ![s] = SubSeq(@, 1, Len(@) - 1)]
    /\ UNCHANGED <<dllVars, registered, due, got>>

\* TcpClient::receive_events_loop of the slave takes the next line.
Receive(s) ==
    /\ wire[s] # <<>>
    /\ wire' = [wire EXCEPT ![s] = Tail(@)]
    /\ seen' = IF Head(wire[s]).kind = "replay" THEN seen
               ELSE [seen EXCEPT ![s] = Head(wire[s]).n]
    /\ UNCHANGED <<dllVars, registered, due, got>>

-----------------------------------------------------------------------------
MasterEA ==
    \/ \E k \in {"event", "snapshot"} : PushLocalEvent(k)
    \/ PushCheck \/ PushRecheck \/ PushSend \/ PushStore
    \/ SendReadyNotification

Replay(c) == ReplayCheck(c) \/ ReplayRead(c) \/ ReplaySend(c)

Session(s) == Connect(s) \/ OnNewSession(s) \/ LinkLost(s) \/ Receive(s)

Request(r) ==
    \/ \E b \in BOOLEAN : ToggleTcp(r, b) \/ PutRole(r, b)
    \/ DeleteConfig(r) \/ DisconnectAll(r)

Next ==
    \/ MasterEA
    \/ \E s \in Slaves : Session(s)
    \/ \E r \in Requests : Request(r)
    \/ \E c \in Callers : Replay(c)

Spec == Init /\ [][Next]_vars

-----------------------------------------------------------------------------
(* Properties.                                                             *)

\* Whatever toggle, role, replays, failed sends and reconnections do meanwhile,
\* a slave never finds the first sending of an event twice, nor behind a later
\* one (one EA thread, broadcast_to_all under sessions_mutex_, one FIFO line).
FreshInOrder ==
    \A s \in Slaves : \A j \in 1..Len(wire[s]) :
        wire[s][j].kind # "replay" =>
            /\ seen[s] < wire[s][j].n
            /\ \A i \in 1..(j - 1) :
                  wire[s][i].kind # "replay" => wire[s][i].n < wire[s][j].n

\* A session whose handler is past the on-connect callback was sent a snapshot
\* at least as new as the one stored when it registered, unless the toggle or
\* the role was withdrawn meanwhile (handle_client, on_new_tcp_session).
NewSessionBaseline ==
    \A s \in Slaves : registered[s] /\ caller[s].at = "idle" => got[s] >= due[s]

\* Sessions, locks, toggles and threads hidden, the slaves see an EventChannel:
\* a push is in the channel's past once push_local_event has sent or skipped it.
Channel == INSTANCE EventChannel WITH
    Readers <- Callers, Lines <- Line,
    last <- IF push.at \in {"check", "recheck", "send"} THEN pushed - 1 ELSE pushed,
    stored <- IF lastSnapshot = 0 THEN {}
              ELSE {[kind |-> "replay", n |-> lastSnapshot]},
    held <- [c \in Callers |-> IF caller[c].n = 0 THEN {}
                               ELSE {[kind |-> "replay", n |-> caller[c].n]}],
    chan <- wire

\* Every behaviour of the fan-out is one of the channel (push_local_event and
\* broadcast_last_snapshot_to_tcp_if_effective implement it).
ImplementsChannel == Channel!ChannelSpec
=============================================================================
