--------------------------- MODULE ConfigClients ---------------------------
(***************************************************************************)
(* The configuration of one account inside the bridge DLL, in memory and   *)
(* on disk (ConfigApi), and the TCP client that should follow it           *)
(* (BridgeServer::update_tcp_client, the maintenance loop).                *)
(*                                                                         *)
(* HTTP request threads, the EA thread that logs accounts in and out, and  *)
(* the maintenance thread share both.  config_mutex_ covers each access to *)
(* the memory, tcp_clients_mutex_ each change of the client, nothing       *)
(* covers a read together with the write that uses it: each action is what *)
(* happens under one lock, or one unlocked file access.  Only the fields   *)
(* role and master_tcp_url are kept.  The EA thread also stops the bridge  *)
(* and starts it again; requests that run by then go on.                   *)
(***************************************************************************)
EXTENDS Naturals, FiniteSets

CONSTANTS
    Requests,     \* threads of the HTTP server
    Terminal,     \* the EA thread
    Maintenance,  \* tcp_clients_maintenance_loop
    Urls          \* TCP addresses of masters

ASSUME ClientsAssumption ==
    /\ Terminal \notin Requests
    /\ Maintenance \notin Requests \cup {Terminal}
    /\ {"", "none", "down", "kept"} \cap Urls = {}

Threads == Requests \cup {Terminal, Maintenance}

Config == [role : {"pending", "slave"}, url : Urls \cup {""}]
            \cup [role : {"master"}, url : {""}]
None == [role |-> "none", url |-> ""]       \* no configuration; no or an empty file

VARIABLES
    memory,   \* configs_[account]
    file,     \* config_<account>.json
    client,   \* tcp_clients_[account]: "none", "down", or where it connected
    network,  \* masters answer and connections hold
    bridge,   \* how far BridgeServer is up or stopped
    at,       \* where each thread is
    cfg,      \* the configuration each thread has read
    raced,    \* history: the last writer overlapped a thread holding a read
    unsaved,  \* history: the file is not what the last write or delete asked for
    late      \* history: a request was at work after stop had dropped the client

bridgeVars == <<bridge, late>>
vars == <<memory, file, client, network, at, cfg, raced, unsaved, bridgeVars>>

TypeOK ==
    /\ memory \in Config \cup {None}
    /\ file \in Config \cup {None}
    /\ client \in Urls \cup {"none", "down"}
    /\ network \in BOOLEAN
    /\ at \in [Threads -> {"idle", "load", "loaded", "reget", "merge", "update",
                           "apply", "remove", "purge"}]
    /\ cfg \in [Threads -> Config \cup {None}]
    /\ bridge \in {"up", "stopping", "cleared", "down"}
    /\ raced \in BOOLEAN
    /\ unsaved \in BOOLEAN
    /\ late \in BOOLEAN

\* load_all_configs has run, no client has been made.
Init ==
    /\ memory \in Config \cup {None}
    /\ file = memory
    /\ client = "none"
    /\ network = TRUE
    /\ bridge = "up"
    /\ at = [c \in Threads |-> "idle"]
    /\ cfg = [c \in Threads |-> None]
    /\ raced = FALSE
    /\ unsaved = FALSE
    /\ late = FALSE

-----------------------------------------------------------------------------
Goto(c, place) == at' = [at EXCEPT ![c] = place]
Hold(c, value) == cfg' = [cfg EXCEPT ![c] = value]
Move(c, place, value) == Goto(c, place) /\ Hold(c, value)

\* A thread other than c is about to act on something it learnt earlier.
Overlaps(c) ==
    \E d \in Threads \ {c} :
        \/ at[d] \in {"load", "loaded", "merge", "apply", "purge"}
        \/ d = Terminal /\ at[d] = "remove"

\* update_tcp_client and the maintenance loop want a client for this.
Wanted(config) == config.role = "slave" /\ config.url # ""

-----------------------------------------------------------------------------
(* ConfigApi.                                                              *)

\* get_config, under config_mutex_.
GetConfig(c, found, missing) ==
    /\ Move(c, IF memory = None THEN missing ELSE found, memory)
    /\ UNCHANGED <<memory, file, client, network, raced, unsaved>>

\* load_config_from_file_impl, under no lock.
LoadFile(c) ==
    /\ at[c] = "load"
    /\ Move(c, IF file = None THEN "reget" ELSE "loaded", file)
    /\ UNCHANGED <<memory, file, client, network, raced, unsaved>>

\* The second half of load_config_from_file, under config_mutex_: a file that a
\* failed delete left behind brings its configuration back.
StoreLoaded(c) ==
    /\ at[c] = "loaded"
    /\ memory' = cfg[c]
    /\ unsaved' = FALSE
    /\ raced' = (raced \/ Overlaps(c))
    /\ Move(c, "reget", None)
    /\ UNCHANGED <<file, client, network>>

\* save_config_to_file: the file may not open, and stays as it is, or be truncated
\* without being written.
SaveFile(config) ==
    \/ file' = config /\ unsaved' = FALSE
    \/ file' \in {file, None} /\ unsaved' = TRUE

\* DeleteFileA, whose failure nobody looks at.
DeleteFile == file' \in {file, None} /\ unsaved' = (file' # None)

\* set_config: a master has no URL; a failed save is not reported.
SetConfig(c, config) ==
    LET saved == IF config.role = "master" THEN [config EXCEPT !.url = ""] ELSE config
    IN  /\ memory' = saved
        /\ SaveFile(saved)
        /\ raced' = Overlaps(c)
        /\ Move(c, "update", None)
        /\ UNCHANGED <<client, network>>

\* Mutant of DeleteConfig: the file stays.
DeleteFromMemory(c, missing) ==
    /\ memory' = None
    /\ unsaved' = FALSE
    /\ raced' = (Overlaps(c) \/ (raced /\ memory = None))
    /\ Move(c, IF memory = None THEN missing ELSE "remove", None)
    /\ UNCHANGED <<file, client, network>>

\* delete_config; without a configuration in memory the handler answers 404.
DeleteConfig(c, missing) ==
    /\ memory' = None
    /\ DeleteFile
    /\ raced' = (Overlaps(c) \/ (raced /\ memory = None))
    /\ Move(c, IF memory = None THEN missing ELSE "remove", None)
    /\ UNCHANGED <<client, network>>

-----------------------------------------------------------------------------
(* HTTP: handle_put_config and handle_post_config.                         *)

\* The HTTP server accepts requests until its own stop.
Accept(r) ==
    /\ at[r] = "idle" /\ bridge # "down"
    /\ late' = (late \/ bridge = "cleared")
    /\ UNCHANGED bridge

StartPut(r) == Accept(r) /\ GetConfig(r, "merge", "load")

\* PUT with an empty body.
PutDelete(r) == Accept(r) /\ DeleteConfig(r, "idle")

\* The configuration is read again after the attempt to load it.
GetAgain(c) ==
    /\ at[c] = "reget"
    /\ IF c = Terminal THEN GetConfig(c, "update", "update")
                       ELSE GetConfig(c, "merge", "merge")

\* Mutant of Merge: the body replaces the role it does not name.
MergeReplacing(base, body) ==
    [role |-> body.role, url |-> IF body.url = "kept" THEN base.url ELSE body.url]

\* parse_config_json_merge: a field the body does not name keeps its value.
Merge(base, body) ==
    [role |-> IF body.role = "kept" THEN base.role ELSE body.role,
     url |-> IF body.url = "kept" THEN base.url ELSE body.url]

Bodies == [role : {"kept", "none", "master", "slave", "pending"},
           url : Urls \cup {"kept", ""}]

\* Merge and set; no role deletes (PUT) or is refused (POST), a body that does
\* not validate is refused.
FinishPut(r) ==
    /\ r \in Requests /\ at[r] = "merge"
    /\ \/ \E body \in Bodies :
             LET config == Merge(cfg[r], body)
             IN  IF config.role = "none" THEN DeleteConfig(r, "idle")
                                         ELSE SetConfig(r, config)
       \/ /\ Move(r, "idle", None)
          /\ UNCHANGED <<memory, file, client, network, raced, unsaved>>

-----------------------------------------------------------------------------
(* The EA thread: send_ready_notification.                                 *)

\* The account logs in.
Login == bridge = "up" /\ at[Terminal] = "idle" /\ GetConfig(Terminal, "update", "load")

\* Another account logs in: this one's configuration, client and file go.
Logout ==
    /\ bridge = "up" /\ at[Terminal] = "idle" /\ memory # None
    /\ DeleteConfig(Terminal, "remove")

\* The scan of the directory for the files of other accounts.
PurgeFile ==
    /\ at[Terminal] = "purge"
    /\ DeleteFile
    /\ raced' = (raced \/ Overlaps(Terminal))
    /\ Move(Terminal, "idle", None)
    /\ UNCHANGED <<memory, client, network>>

-----------------------------------------------------------------------------
(* The client, under tcp_clients_mutex_.                                   *)

\* A connection attempt to url: it succeeds or the client stays down.
Connects(url) == IF network THEN client' = url ELSE client' \in {url, "down"}

\* update_tcp_client reads the configuration before it takes the lock.
UpdateRead(c) == at[c] = "update" /\ GetConfig(c, "apply", "apply")

\* Mutant of UpdateApply: any connected client will do.
UpdateApplyConnected(c) ==
    /\ c # Maintenance /\ at[c] = "apply"
    /\ IF ~Wanted(cfg[c]) THEN client' = "none"
       ELSE IF client \in Urls THEN UNCHANGED client
       ELSE Connects(cfg[c].url)
    /\ Move(c, "idle", None)
    /\ UNCHANGED <<memory, file, network, raced, unsaved>>

UpdateApply(c) ==
    /\ c # Maintenance /\ at[c] = "apply"
    /\ IF ~Wanted(cfg[c]) THEN client' = "none"
       ELSE IF client = cfg[c].url THEN UNCHANGED client
       ELSE Connects(cfg[c].url)
    /\ Move(c, "idle", None)
    /\ UNCHANGED <<memory, file, network, raced, unsaved>>

RemoveClient(c) ==
    /\ at[c] = "remove"
    /\ client' = "none"
    /\ Move(c, IF c = Terminal THEN "purge" ELSE "idle", None)
    /\ UNCHANGED <<memory, file, network, raced, unsaved>>

\* tcp_clients_maintenance_loop, every 5 s.
MaintenanceRead ==
    /\ at[Maintenance] = "idle" /\ bridge = "up" /\ Wanted(memory)
    /\ GetConfig(Maintenance, "apply", "idle")

\* Mutant of MaintenanceApply: a client that is down is left alone.
MaintenanceCreate ==
    /\ at[Maintenance] = "apply"
    /\ IF client = "none" THEN Connects(cfg[Maintenance].url) ELSE UNCHANGED client
    /\ Move(Maintenance, "idle", None)
    /\ UNCHANGED <<memory, file, network, raced, unsaved>>

\* A connected client is left alone, whatever it is connected to.
MaintenanceApply ==
    /\ at[Maintenance] = "apply"
    /\ IF client \in {"none", "down"} THEN Connects(cfg[Maintenance].url)
                                      ELSE UNCHANGED client
    /\ Move(Maintenance, "idle", None)
    /\ UNCHANGED <<memory, file, network, raced, unsaved>>

\* The connection breaks, masters come and go.
LinkDrops ==
    /\ client \in Urls /\ ~network
    /\ client' = "down"
    /\ UNCHANGED <<memory, file, network, at, cfg, raced, unsaved>>

NetworkChanges ==
    /\ network' = ~network
    /\ UNCHANGED <<memory, file, client, at, cfg, raced, unsaved>>

-----------------------------------------------------------------------------
(* The EA thread: BridgeServer::stop and init.                             *)

\* maintenance_running_ is reset: the loop finishes what it has begun.
Stop ==
    /\ bridge = "up" /\ at[Terminal] = "idle"
    /\ bridge' = "stopping"
    /\ late' = FALSE
    /\ UNCHANGED <<memory, file, client, network, at, cfg, raced, unsaved>>

\* Mutant of ClearClients: the loop is not joined.
ClearClientsAtOnce ==
    /\ bridge = "stopping"
    /\ client' = "none"
    /\ late' = (\E r \in Requests : at[r] # "idle")
    /\ bridge' = "cleared"
    /\ UNCHANGED <<memory, file, network, at, cfg, raced, unsaved>>

\* The loop is joined, and the clients are dropped under their lock.
ClearClients ==
    /\ bridge = "stopping" /\ at[Maintenance] = "idle"
    /\ client' = "none"
    /\ late' = (\E r \in Requests : at[r] # "idle")
    /\ bridge' = "cleared"
    /\ UNCHANGED <<memory, file, network, at, cfg, raced, unsaved>>

\* server_.stop(): no new requests.
StopHttp ==
    /\ bridge = "cleared"
    /\ bridge' = "down"
    /\ UNCHANGED <<memory, file, client, network, at, cfg, raced, unsaved, late>>

\* init() in the same process: the memory is as it was, and the account gets its
\* client before the loop starts.
Start ==
    /\ bridge = "down"
    /\ bridge' = "up"
    /\ Move(Terminal, IF memory = None THEN "idle" ELSE "update", None)
    /\ UNCHANGED <<memory, file, client, network, raced, unsaved, late>>

-----------------------------------------------------------------------------
Serve(c) ==
    \/ LoadFile(c) \/ StoreLoaded(c) \/ GetAgain(c)
    \/ UpdateRead(c) \/ UpdateApply(c) \/ RemoveClient(c)

Maintain == MaintenanceRead \/ MaintenanceApply

Configure ==
    \/ \E r \in Requests : FinishPut(r) \/ Serve(r)
    \/ Login \/ Logout \/ PurgeFile \/ Serve(Terminal)
    \/ Maintain
    \/ LinkDrops \/ NetworkChanges

Next ==
    \/ \E r \in Requests : StartPut(r) \/ PutDelete(r)
    \/ Configure /\ UNCHANGED bridgeVars
    \/ Stop \/ ClearClients \/ StopHttp \/ Start

Spec == Init /\ [][Next]_vars

(***************************************************************************)
(* A handler that runs finishes, the maintenance loop wakes up every 5 s   *)
(* (the slave role may come and go meanwhile: strong fairness).            *)
(***************************************************************************)
Fairness ==
    /\ \A c \in Requests \cup {Terminal} : WF_vars(Serve(c) /\ UNCHANGED bridgeVars)
    /\ \A r \in Requests : WF_vars(FinishPut(r) /\ UNCHANGED bridgeVars)
    /\ WF_vars(PurgeFile /\ UNCHANGED bridgeVars)
    /\ SF_vars(MaintenanceRead /\ UNCHANGED bridgeVars)
    /\ WF_vars(MaintenanceApply /\ UNCHANGED bridgeVars)

FairSpec == Spec /\ Fairness

-----------------------------------------------------------------------------
(* Properties.                                                             *)

Quiet == \A c \in Threads : at[c] = "idle"

\* Between requests the client is connected to no master but the configured
\* one, unless some thread acted on a configuration it had read before the last
\* write (update_tcp_client, remove_tcp_client and the maintenance loop).
NoWrongMaster ==
    Quiet /\ ~raced /\ client \in Urls => Wanted(memory) /\ client = memory.url

\* Between requests the file holds what the memory holds, for the next start,
\* unless writers overlapped, or a write or a delete failed and no load has made
\* up for it (set_config, delete_config, load_config_from_file, the purge).
FileMatchesMemory == Quiet /\ ~raced /\ ~unsaved => file = memory

\* A bridge that has stopped has no connection to a master that still feeds the
\* queue, unless a request was at work after the clients had been dropped
\* (BridgeServer.cpp 220-242).
StoppedIsDisconnected == bridge \in {"cleared", "down"} /\ ~late => client = "none"

\* Whatever requests overlap, an account that stays a slave of reachable
\* masters ends up connected and stays so while the bridge is up (maintenance loop).
EventuallyConnected ==
    <>[](Wanted(memory) /\ network /\ bridge = "up") => <>[](client \in Urls)
=============================================================================
