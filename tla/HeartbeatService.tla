-------------------------- MODULE HeartbeatService --------------------------
(***************************************************************************)
(* What a terminal tells the API about itself: HeartbeatService.cpp, with  *)
(* the calls that BridgeServer's logins and requests make into it.         *)
(*                                                                         *)
(* The EA thread logs accounts in, stops the bridge and starts it again; a *)
(* request thread changes the settings of one account (Settings); heartbeat*)
(* loops copy account and port and read the settings later.  stop()        *)
(* gives up a loop that sleeps, and a start within its ten seconds keeps   *)
(* that loop alive next to the new one.                                    *)
(***************************************************************************)
EXTENDS Settings

CONSTANTS
    Account,   \* the account that Settings is about
    Other,     \* another account that the terminal may log in, without settings
    Nobody,    \* no account
    NextKey,   \* "lot_type", the key that config_to_json writes after the address
    Loops      \* heartbeat threads (a bound: a start waits while all of them live)

ASSUME HeartbeatAssumption ==
    Account # Other /\ Account # Nobody /\ Other # Nobody

VARIABLES
    account,   \* account_id_
    port,      \* tcp_port_ is one
    asks,      \* the account that the two callbacks ask for
    running,   \* running_
    connected, \* terminal_connected_
    loop,      \* where each heartbeat thread is, if there is one
    read,      \* what each has copied for the message it is about to send
    ea,        \* where the EA thread is in a login
    request,   \* where the request thread is
    newPort,   \* the port either of them is about to set
    overtaken, \* history: those whose value is older than the settings
    wrongPort  \* history: the port was set by one of those, or a request that was
               \* refused has brought settings back from the file

serviceVars == <<account, port, asks, running, connected>>
loopVars == <<loop, read>>
threadVars == <<ea, request, newPort, overtaken, wrongPort>>
vars == <<settingsVars, serviceVars, loopVars, threadVars>>

Accounts == {Account, Other}
Copy == [account : Accounts, port : BOOLEAN, asks : Accounts]
Nothing == [account |-> Nobody, port |-> FALSE, asks |-> Nobody]

TypeOK ==
    /\ memory = None \/ (memory \in Config /\ validate_config(memory))
    /\ memory.role = "master" => memory.master_tcp_url = ""
    /\ file = NoFile \/ validate_config(parse_config_json(file))
    /\ account \in Accounts \cup {Nobody}
    /\ asks \in Accounts \cup {Nobody}
    /\ port \in BOOLEAN /\ running \in BOOLEAN /\ connected \in BOOLEAN
    /\ loop \in [Loops -> {"none", "first", "sleep", "ask"}]
    /\ read \in [Loops -> Copy \cup {Nothing}]
    /\ ea \in {"idle", "read", "start"}
    /\ request \in {"idle", "check", "port"}
    /\ newPort \in [{"ea", "request"} -> BOOLEAN]
    /\ overtaken \in SUBSET {"ea", "request"}
    /\ wrongPort \in BOOLEAN

Init ==
    /\ SettingsInit
    /\ account = Nobody /\ asks = Nobody
    /\ port = FALSE /\ running = FALSE /\ connected = TRUE
    /\ loop = [l \in Loops |-> "none"]
    /\ read = [l \in Loops |-> Nothing]
    /\ ea = "idle" /\ request = "idle"
    /\ newPort = [t \in {"ea", "request"} |-> FALSE]
    /\ overtaken = {}
    /\ wrongPort = FALSE

-----------------------------------------------------------------------------
(* The EA thread: send_ready_notification, StopRestServer.                 *)

\* Who has found the old account and is about to set the port is late.
Login(a) ==
    /\ ea = "idle"
    /\ account' = a
    /\ ea' = "read"
    /\ overtaken' = overtaken \cup IF request = "port" THEN {"request"} ELSE {}
    /\ UNCHANGED <<settingsVars, port, asks, running, connected, loopVars, request,
                   newPort, wrongPort>>

\* The other account's configuration goes, this one's is loaded and read; who is
\* about to set a port has it from before.
LoginRead ==
    /\ ea = "read"
    /\ IF account = Account
       THEN memory' = Existing /\ UNCHANGED file
       ELSE delete_config
    /\ newPort' = [newPort EXCEPT !.ea = account = Account /\ memory'.role = "master"]
    /\ overtaken' = (overtaken \ {"ea"})
                       \cup (IF memory' # memory /\ request # "idle" THEN {"request"}
                                                                ELSE {})
    /\ ea' = "start"
    /\ UNCHANGED <<serviceVars, loopVars, request, wrongPort>>

\* Mutant of SetCallbacks: a service that runs keeps the callbacks it has.
SetCallbacksOnce == asks' = IF running THEN asks ELSE account

SetCallbacks == asks' = account

\* HeartbeatService::start; without a running loop there is a new thread.
LoginStart ==
    /\ ea = "start"
    /\ SetCallbacks
    /\ port' = newPort.ea
    /\ newPort' = [newPort EXCEPT !.ea = FALSE]
    /\ wrongPort' = ("ea" \in overtaken)
    /\ running' = TRUE
    /\ IF running THEN UNCHANGED loop
       ELSE \E l \in Loops : /\ loop[l] = "none"
                             /\ loop' = [loop EXCEPT ![l] = "first"]
    /\ ea' = "idle"
    /\ overtaken' = overtaken \ {"ea"}
    /\ UNCHANGED <<settingsVars, account, connected, read, request>>

\* BridgeServer::stop: the loop is given up after two seconds, next to those that
\* earlier stops have given up.
Stop ==
    /\ ea = "idle" /\ running
    /\ running' = FALSE
    /\ UNCHANGED <<settingsVars, account, port, asks, connected, loopVars, threadVars>>

\* The terminal process ends and starts again.
Restart ==
    /\ LoadAllConfigs
    /\ account' = Nobody /\ asks' = Nobody
    /\ port' = FALSE /\ running' = FALSE /\ connected' = TRUE
    /\ loop' = [l \in Loops |-> "none"]
    /\ read' = [l \in Loops |-> Nothing]
    /\ ea' = "idle" /\ request' = "idle"
    /\ newPort' = [t \in {"ea", "request"} |-> FALSE]
    /\ overtaken' = {}
    /\ wrongPort' = FALSE

set_terminal_connected ==
    /\ connected' = ~connected
    /\ UNCHANGED <<settingsVars, account, port, asks, running, loopVars, threadVars>>

-----------------------------------------------------------------------------
(* The request thread: handle_put_config, handle_post_config.              *)

\* The settings change.  A request that is refused, or deletes what is not there,
\* leaves the port alone.
Request ==
    /\ request = "idle"
    /\ \/ delete_config /\ request' = IF memory = None THEN "idle" ELSE "check"
       \/ \E body \in Bodies :
            \/ Store(body) /\ request' = "check"
            \/ Refuse(body) /\ request' = "idle"
            \/ DeleteByRole(body) /\ request' = IF Existing = None THEN "idle" ELSE "check"
    /\ newPort' = [newPort EXCEPT !.request = request' = "check" /\ memory'.role = "master"]
    /\ overtaken' = (overtaken \ {"request"})
                       \cup (IF memory' # memory /\ ea = "start" THEN {"ea"} ELSE {})
    /\ wrongPort' = (wrongPort \/ (request' = "idle" /\ memory' # memory))
    /\ UNCHANGED <<serviceVars, loopVars, ea>>

\* get_account_id: the port is of the account that is logged in.
RequestFindsAccount ==
    /\ request = "check"
    /\ IF account = Account
       THEN request' = "port" /\ UNCHANGED <<newPort, overtaken>>
       ELSE /\ request' = "idle"
            /\ newPort' = [newPort EXCEPT !.request = FALSE]
            /\ overtaken' = overtaken \ {"request"}
    /\ UNCHANGED <<settingsVars, serviceVars, loopVars, ea, wrongPort>>

\* Mutant of update_tcp_port: only a new master is told.
update_tcp_port_master ==
    /\ request = "port"
    /\ port' = (port \/ newPort.request)
    /\ wrongPort' = ("request" \in overtaken)
    /\ request' = "idle"
    /\ newPort' = [newPort EXCEPT !.request = FALSE]
    /\ overtaken' = overtaken \ {"request"}
    /\ UNCHANGED <<settingsVars, account, asks, running, connected, loopVars, ea>>

update_tcp_port ==
    /\ request = "port"
    /\ port' = newPort.request
    /\ wrongPort' = ("request" \in overtaken)
    /\ request' = "idle"
    /\ newPort' = [newPort EXCEPT !.request = FALSE]
    /\ overtaken' = overtaken \ {"request"}
    /\ UNCHANGED <<settingsVars, account, asks, running, connected, loopVars, ea>>

-----------------------------------------------------------------------------
(* A heartbeat loop.                                                       *)

Goto(l, place) == loop' = [loop EXCEPT ![l] = place]

\* Mutant of LoopEnds: the loop never looks at running_.
LoopEndsNever(l) == FALSE

LoopEnds(l) ==
    /\ loop[l] = "sleep" /\ ~running
    /\ Goto(l, "none")
    /\ UNCHANGED <<settingsVars, serviceVars, read, threadVars>>

\* should_send_heartbeat, and the copies that build_form_data takes under the
\* lock; the first time running_ is not looked at.
Wake(l) ==
    /\ loop[l] = "first" \/ (loop[l] = "sleep" /\ running)
    /\ IF connected /\ account # Nobody
       THEN /\ Goto(l, "ask")
            /\ read' = [read EXCEPT ![l] = [account |-> account, port |-> port,
                                            asks |-> asks]]
       ELSE Goto(l, "sleep") /\ UNCHANGED read
    /\ UNCHANGED <<settingsVars, serviceVars, threadVars>>

\* Role and address that extract_json_str finds in the account's configuration.
\* An account without one is told to be a master; where the address is null the
\* search goes on to the next quoted text.
Role(a) == IF a = Account /\ memory # None THEN memory.role ELSE "master"
Url(a) == IF a # Account \/ memory = None THEN ""
          ELSE IF memory.master_tcp_url = "" THEN NextKey ELSE memory.master_tcp_url

\* get_connected_master_tcp_url is as good for a slave that has an address.
Message(l) == [account |-> read[l].account, port |-> read[l].port,
               role |-> Role(read[l].asks), url |-> Url(read[l].asks)]

\* The callbacks read the settings, the message goes out, and what becomes of it is
\* not looked at.
Send(l) ==
    /\ loop[l] = "ask"
    /\ read' = [read EXCEPT ![l] = Nothing]
    /\ Goto(l, "sleep")
    /\ UNCHANGED <<settingsVars, serviceVars, threadVars>>

Heartbeat(l) == LoopEnds(l) \/ Wake(l) \/ Send(l)

-----------------------------------------------------------------------------
Next ==
    \/ \E a \in Accounts : Login(a)
    \/ LoginRead \/ LoginStart \/ Stop \/ Restart
    \/ set_terminal_connected
    \/ Request \/ RequestFindsAccount \/ update_tcp_port
    \/ \E l \in Loops : Heartbeat(l)

Spec == Init /\ [][Next]_vars

\* A login and a request that have begun go on, and a loop sleeps ten seconds.
FairSpec ==
    /\ Spec
    /\ WF_vars(LoginRead \/ LoginStart)
    /\ WF_vars(RequestFindsAccount \/ update_tcp_port)
    /\ \A l \in Loops : WF_vars(Heartbeat(l))

-----------------------------------------------------------------------------
(* Properties.                                                             *)

\* unified_events_api.md 24: "TCP URL when account is master; null for slave/pending".
\* Between logins and requests the port says whether the account is a master,
\* unless who set it had read older settings, or a request that was refused has
\* loaded settings from a file that could not be deleted (BridgeServer.cpp 379-387,
\* 1842-1846, 1875-1878).
PortMatchesRole ==
    ea = "idle" /\ request = "idle" /\ running /\ account # Nobody /\ ~wrongPort
        => port = (account = Account /\ memory.role = "master")

\* When nothing changes any more the messages tell the account that is logged in,
\* with its own role and master (BridgeServer.cpp 389-395, HeartbeatService.cpp
\* 34-72, 211-318): no callback for an earlier account stays behind.
IsTrue(message) ==
    /\ message.account = account
    /\ message.port = port
    /\ message.role = Role(account)
    /\ account = Account /\ memory.role = "slave" /\ memory.master_tcp_url # ""
          => message.url = memory.master_tcp_url

Settled == <<memory, account, running, connected, port>>
EventuallyTold ==
    <>[][FALSE]_Settled =>
        \/ <>[](~running \/ ~connected)
        \/ /\ []<>(\E l \in Loops : loop[l] = "ask")
           /\ <>[](\A l \in Loops : loop[l] = "ask" => IsTrue(Message(l)))

\* A service that is stopped for good sends no more, also when a start followed an
\* earlier stop at once and the last stop leaves two loops alive (HeartbeatService.cpp
\* 74-95, 159-186).
LoopsEnd == []<>(running \/ \A l \in Loops : loop[l] = "none")
=============================================================================
