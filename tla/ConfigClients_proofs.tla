----------------------- MODULE ConfigClients_proofs -----------------------
(***************************************************************************)
(* Proofs about ConfigClients, for any number of HTTP threads and masters. *)
(***************************************************************************)
EXTENDS ConfigClients, TLAPS

-----------------------------------------------------------------------------
(* Types.                                                                  *)

\* What a thread may have read, and where it may be.
Configs == Config \cup {None}
Places == {"idle", "load", "loaded", "reget", "merge", "update", "apply", "remove",
           "purge"}

\* Merging a body over a configuration gives a configuration that set_config
\* normalises to one that can be stored.
LEMMA MergeStored ==
    ASSUME NEW base \in Configs, NEW body \in Bodies,
           Merge(base, body).role # "none"
    PROVE  (IF Merge(base, body).role = "master"
            THEN [Merge(base, body) EXCEPT !.url = ""] ELSE Merge(base, body)) \in Config
<1> DEFINE merged == Merge(base, body)
<1>1. /\ base.role \in {"none", "pending", "slave", "master"}
      /\ base.url \in Urls \cup {""}
  <2>1. CASE base \in [role : {"pending", "slave"}, url : Urls \cup {""}]
    BY <2>1
  <2>2. CASE base \in [role : {"master"}, url : {""}]
    BY <2>2
  <2>3. CASE base = [role |-> "none", url |-> ""]
    BY <2>3
  <2> QED BY <2>1, <2>2, <2>3 DEF Configs, Config, None
<1>2. /\ body.role \in {"kept", "none", "master", "slave", "pending"}
      /\ body.url \in Urls \cup {"kept", ""}
  BY DEF Bodies
<1>3. merged.url \in Urls \cup {""}
  BY <1>1, <1>2 DEF Merge
<1>4. merged.role \in {"pending", "slave", "master"}
  BY <1>1, <1>2 DEF Merge
<1>5. merged \in [role : {"pending", "slave", "master"}, url : Urls \cup {""}]
  BY <1>3, <1>4 DEF Merge
<1> HIDE DEF merged
<1>6. CASE merged.role = "master"
  <2>1. [merged EXCEPT !.url = ""] \in [role : {"master"}, url : {""}]
    BY <1>5, <1>6
  <2> QED BY <1>6, <2>1 DEF Config, merged
<1>7. CASE merged.role # "master"
  <2>1. merged \in [role : {"pending", "slave"}, url : Urls \cup {""}]
    BY <1>3, <1>4, <1>5, <1>7
  <2> QED BY <1>7, <2>1 DEF Config, merged
<1> QED BY <1>6, <1>7

\* Whoever moves, moves to a known place with a known configuration.
LEMMA MoveType ==
    ASSUME TypeOK, NEW c \in Threads, NEW place \in Places, NEW value \in Configs,
           Move(c, place, value)
    PROVE  at' \in [Threads -> Places] /\ cfg' \in [Threads -> Configs]
BY DEF Move, Goto, Hold, TypeOK, Configs, Places

\* get_config changes nothing but the thread that calls it.
LEMMA GetConfigType ==
    ASSUME TypeOK, NEW c \in Threads, NEW found \in Places, NEW missing \in Places,
           GetConfig(c, found, missing), bridge' = bridge, late' \in BOOLEAN
    PROVE  TypeOK'
<1>1. memory \in Configs
  BY DEF TypeOK, Configs
<1>2. Move(c, IF memory = None THEN missing ELSE found, memory)
  BY DEF GetConfig
<1>3. at' \in [Threads -> Places] /\ cfg' \in [Threads -> Configs]
  BY <1>1, <1>2, MoveType
<1> QED BY <1>3 DEF GetConfig, TypeOK, Configs, Places

\* set_config stores a configuration and has saved it or not.
LEMMA SetConfigType ==
    ASSUME TypeOK, NEW c \in Threads, NEW config,
           (IF config.role = "master" THEN [config EXCEPT !.url = ""] ELSE config)
               \in Config,
           SetConfig(c, config), UNCHANGED bridgeVars
    PROVE  TypeOK'
<1> DEFINE saved == IF config.role = "master" THEN [config EXCEPT !.url = ""]
                                             ELSE config
<1>1. memory' = saved /\ saved \in Config
  BY DEF SetConfig
<1>2. file' \in {saved, file, None} /\ unsaved' \in BOOLEAN
  BY DEF SetConfig, SaveFile
<1>3. Move(c, "update", None) /\ None \in Configs /\ "update" \in Places
  BY DEF SetConfig, Configs, Places
<1>4. at' \in [Threads -> Places] /\ cfg' \in [Threads -> Configs]
  BY <1>3, MoveType
<1>5. raced' \in BOOLEAN
  BY DEF SetConfig, Overlaps
<1> HIDE DEF saved
<1> QED BY <1>1, <1>2, <1>4, <1>5 DEF SetConfig, TypeOK, Configs, Places, bridgeVars

\* delete_config leaves no configuration in memory.
LEMMA DeleteConfigType ==
    ASSUME TypeOK, NEW c \in Threads, NEW missing \in Places,
           DeleteConfig(c, missing), bridge' = bridge, late' \in BOOLEAN
    PROVE  TypeOK'
<1>1. /\ Move(c, IF memory = None THEN missing ELSE "remove", None)
      /\ None \in Configs /\ "remove" \in Places
  BY DEF DeleteConfig, Configs, Places
<1>2. at' \in [Threads -> Places] /\ cfg' \in [Threads -> Configs]
  BY <1>1, MoveType
<1>3. raced' \in BOOLEAN
  BY DEF DeleteConfig, Overlaps, TypeOK
<1>4. file' \in Configs /\ unsaved' \in BOOLEAN
  BY DEF DeleteConfig, DeleteFile, TypeOK, Configs
<1> QED BY <1>2, <1>3, <1>4 DEF DeleteConfig, TypeOK, Configs, Places

\* A connection attempt leads to the address it was made with, or nowhere.
LEMMA ConnectsType ==
    ASSUME NEW url \in Urls, Connects(url)
    PROVE  client' \in Urls \cup {"none", "down"}
BY DEF Connects

\* What is wanted has an address.
LEMMA WantedUrl ==
    ASSUME NEW config \in Configs, Wanted(config)
    PROVE  config.url \in Urls
<1>1. CASE config \in [role : {"pending", "slave"}, url : Urls \cup {""}]
  BY <1>1 DEF Wanted
<1>2. CASE config \in [role : {"master"}, url : {""}]
  BY <1>2 DEF Wanted
<1>3. CASE config = None
  BY <1>3 DEF Wanted, None
<1> QED BY <1>1, <1>2, <1>3 DEF Configs, Config

\* The maintenance loop only connects for a slave with an address.
LoopWanted == at[Maintenance] = "apply" => Wanted(cfg[Maintenance])

\* While it reads or connects the loop is nowhere else.
LoopPlaces == at[Maintenance] \in {"idle", "apply"}

TInv == TypeOK /\ LoopWanted /\ LoopPlaces

\* A step of another thread leaves the loop where it is.
LEMMA LoopStays ==
    ASSUME TInv, NEW c \in Requests \cup {Terminal}, NEW place, NEW value,
           Move(c, place, value)
    PROVE  LoopWanted' /\ LoopPlaces'
<1>1. c # Maintenance /\ c \in Threads /\ Maintenance \in Threads
  BY ClientsAssumption DEF Threads
<1>2. at'[Maintenance] = at[Maintenance] /\ cfg'[Maintenance] = cfg[Maintenance]
  BY <1>1 DEF Move, Goto, Hold, TInv, TypeOK
<1> QED BY <1>2 DEF TInv, LoopWanted, LoopPlaces, Wanted

\* Every step of a thread outside the loop.
LEMMA ServeType ==
    ASSUME TInv, NEW c \in Requests \cup {Terminal}, Serve(c), UNCHANGED bridgeVars
    PROVE  TInv'
<1>1. c \in Threads /\ late' \in BOOLEAN /\ bridge' = bridge
  BY DEF Threads, TInv, TypeOK, bridgeVars
<1>2. CASE LoadFile(c)
  <2>1. /\ Move(c, IF file = None THEN "reget" ELSE "loaded", file)
        /\ {"reget", "loaded"} \subseteq Places /\ file \in Configs
    BY <1>2 DEF LoadFile, Places, TInv, TypeOK, Configs
  <2>2. at' \in [Threads -> Places] /\ cfg' \in [Threads -> Configs]
    BY <1>1, <2>1, MoveType DEF TInv
  <2>3. TypeOK'
    BY <1>1, <1>2, <2>2 DEF LoadFile, TInv, TypeOK, Configs, Places
  <2> QED BY <2>1, <2>3, LoopStays DEF TInv
<1>3. CASE StoreLoaded(c)
  <2>1. Move(c, "reget", None) /\ "reget" \in Places /\ None \in Configs
    BY <1>3 DEF StoreLoaded, Places, Configs
  <2>2. at' \in [Threads -> Places] /\ cfg' \in [Threads -> Configs]
    BY <1>1, <2>1, MoveType DEF TInv
  <2>3. raced' \in BOOLEAN /\ memory' \in Configs
    BY <1>1, <1>3 DEF StoreLoaded, Overlaps, TInv, TypeOK, Configs
  <2>4. TypeOK'
    BY <1>1, <1>3, <2>2, <2>3 DEF StoreLoaded, TInv, TypeOK, Configs, Places
  <2> QED BY <2>1, <2>4, LoopStays DEF TInv
<1>4. CASE GetAgain(c)
  <2>1. PICK place \in {"merge", "update"} : GetConfig(c, place, place)
    BY <1>4 DEF GetAgain
  <2>2. TypeOK'
    BY <1>1, <2>1, GetConfigType DEF Places, TInv
  <2> QED BY <2>1, <2>2, LoopStays DEF GetConfig, TInv
<1>5. CASE UpdateRead(c)
  <2>1. GetConfig(c, "apply", "apply")
    BY <1>5 DEF UpdateRead
  <2>2. TypeOK'
    BY <1>1, <2>1, GetConfigType DEF Places, TInv
  <2> QED BY <2>1, <2>2, LoopStays DEF GetConfig, TInv
<1>6. CASE UpdateApply(c)
  <2>1. Move(c, "idle", None) /\ "idle" \in Places /\ None \in Configs
    BY <1>6 DEF UpdateApply, Places, Configs
  <2>2. at' \in [Threads -> Places] /\ cfg' \in [Threads -> Configs]
    BY <1>1, <2>1, MoveType DEF TInv
  <2>3. cfg[c] \in Configs
    BY <1>1 DEF TInv, TypeOK, Configs
  <2>4. client' \in Urls \cup {"none", "down"}
    BY <1>6, <2>3, WantedUrl, ConnectsType DEF UpdateApply, TInv, TypeOK
  <2>5. TypeOK'
    BY <1>1, <1>6, <2>2, <2>4 DEF UpdateApply, TInv, TypeOK, Configs, Places
  <2> QED BY <2>1, <2>5, LoopStays DEF TInv
<1>7. CASE RemoveClient(c)
  <2>1. /\ Move(c, IF c = Terminal THEN "purge" ELSE "idle", None)
        /\ {"purge", "idle"} \subseteq Places /\ None \in Configs
    BY <1>7 DEF RemoveClient, Places, Configs
  <2>2. at' \in [Threads -> Places] /\ cfg' \in [Threads -> Configs]
    BY <1>1, <2>1, MoveType DEF TInv
  <2>3. TypeOK'
    BY <1>1, <1>7, <2>2 DEF RemoveClient, TInv, TypeOK, Configs, Places
  <2> QED BY <2>1, <2>3, LoopStays DEF TInv
<1> QED BY <1>2, <1>3, <1>4, <1>5, <1>6, <1>7 DEF Serve

\* Every step of the maintenance loop.
LEMMA MaintainType ==
    ASSUME TInv, Maintain, UNCHANGED bridgeVars
    PROVE  TInv'
<1>1. Maintenance \in Threads /\ late' \in BOOLEAN /\ bridge' = bridge
  BY DEF Threads, TInv, TypeOK, bridgeVars
<1>2. CASE MaintenanceRead
  <2>1. GetConfig(Maintenance, "apply", "idle") /\ Wanted(memory)
    BY <1>2 DEF MaintenanceRead
  <2>2. TypeOK'
    BY <1>1, <2>1, GetConfigType DEF Places, TInv
  <2>3. memory # None
    <3>1. memory.role = "slave"
      BY <2>1 DEF Wanted
    <3>2. None.role = "none"
      BY DEF None
    <3> QED BY <3>1, <3>2
  <2>4. at'[Maintenance] = "apply" /\ cfg'[Maintenance] = memory
    BY <1>1, <2>1, <2>3 DEF GetConfig, Move, Goto, Hold, TInv, TypeOK
  <2> QED BY <2>1, <2>2, <2>4 DEF TInv, LoopWanted, LoopPlaces, Wanted
<1>3. CASE MaintenanceApply
  <2>1. Move(Maintenance, "idle", None) /\ "idle" \in Places /\ None \in Configs
    BY <1>3 DEF MaintenanceApply, Places, Configs
  <2>2. at' \in [Threads -> Places] /\ cfg' \in [Threads -> Configs]
    BY <1>1, <2>1, MoveType DEF TInv
  <2>3. cfg[Maintenance].url \in Urls
    BY <1>1, <1>3, WantedUrl DEF MaintenanceApply, TInv, TypeOK, LoopWanted, Configs
  <2>4. client' \in Urls \cup {"none", "down"}
    BY <1>3, <2>3, ConnectsType DEF MaintenanceApply, TInv, TypeOK
  <2>5. TypeOK'
    BY <1>1, <1>3, <2>2, <2>4 DEF MaintenanceApply, TInv, TypeOK, Configs, Places
  <2>6. at'[Maintenance] = "idle"
    BY <1>1, <2>1 DEF Move, Goto, TInv, TypeOK
  <2> QED BY <2>5, <2>6 DEF TInv, LoopWanted, LoopPlaces
<1> QED BY <1>2, <1>3 DEF Maintain

\* The account is configured in some way, in memory and on disk.
LEMMA TInit == Init => TInv
<1> SUFFICES ASSUME Init PROVE TInv
  OBVIOUS
<1>1. TypeOK
  BY DEF Init, TypeOK, Threads
<1>2. at[Maintenance] = "idle"
  BY DEF Init, Threads
<1> QED BY <1>1, <1>2 DEF TInv, LoopWanted, LoopPlaces

\* Every step of the threads, the network, and stop and init.
LEMMA TNext == TInv /\ [Next]_vars => TInv'
<1> SUFFICES ASSUME TInv, [Next]_vars PROVE TInv'
  OBVIOUS
<1>1. CASE UNCHANGED vars
  BY <1>1 DEF vars, bridgeVars, TInv, TypeOK, LoopWanted, LoopPlaces, Wanted
<1>2. ASSUME NEW r \in Requests, StartPut(r) PROVE TInv'
  <2>1. GetConfig(r, "merge", "load") /\ late' \in BOOLEAN /\ bridge' = bridge
    BY <1>2 DEF StartPut, Accept, TInv, TypeOK
  <2>2. TypeOK'
    BY <2>1, GetConfigType DEF Places, Threads, TInv
  <2> QED BY <2>1, <2>2, LoopStays DEF GetConfig, TInv
<1>3. ASSUME NEW r \in Requests, PutDelete(r) PROVE TInv'
  <2>1. DeleteConfig(r, "idle") /\ late' \in BOOLEAN /\ bridge' = bridge
    BY <1>3 DEF PutDelete, Accept, TInv, TypeOK
  <2>2. TypeOK'
    BY <2>1, DeleteConfigType DEF Places, Threads, TInv
  <2> QED BY <2>1, <2>2, LoopStays DEF DeleteConfig, TInv
<1>4. CASE Configure /\ UNCHANGED bridgeVars
  <2>1. ASSUME NEW r \in Requests, FinishPut(r) PROVE TInv'
    <3>1. r \in Threads /\ cfg[r] \in Configs
      BY DEF Threads, TInv, TypeOK, Configs
    <3>2. ASSUME NEW body \in Bodies, Merge(cfg[r], body).role = "none",
                 DeleteConfig(r, "idle")
          PROVE  TInv'
      <4>1. TypeOK'
        BY <1>4, <3>1, <3>2, DeleteConfigType DEF Places, bridgeVars, TInv, TypeOK
      <4> QED BY <3>2, <4>1, LoopStays DEF DeleteConfig, TInv
    <3>3. ASSUME NEW body \in Bodies, Merge(cfg[r], body).role # "none",
                 SetConfig(r, Merge(cfg[r], body))
          PROVE  TInv'
      <4>1. TypeOK'
        BY <1>4, <3>1, <3>3, MergeStored, SetConfigType DEF TInv
      <4> QED BY <3>3, <4>1, LoopStays DEF SetConfig, TInv
    <3>4. CASE /\ Move(r, "idle", None)
               /\ UNCHANGED <<memory, file, client, network, raced, unsaved>>
      <4>1. at' \in [Threads -> Places] /\ cfg' \in [Threads -> Configs]
        BY <3>1, <3>4, MoveType DEF Places, Configs, TInv
      <4>2. TypeOK'
        BY <1>4, <3>4, <4>1 DEF TInv, TypeOK, Configs, Places, bridgeVars
      <4> QED BY <3>4, <4>2, LoopStays DEF TInv
    <3> QED BY <2>1, <3>2, <3>3, <3>4 DEF FinishPut
  <2>2. ASSUME NEW c \in Requests \cup {Terminal}, Serve(c) PROVE TInv'
    BY <1>4, <2>2, ServeType
  <2>3. CASE Login
    <3>1. GetConfig(Terminal, "update", "load")
      BY <2>3 DEF Login
    <3>2. TypeOK'
      BY <1>4, <3>1, GetConfigType DEF Places, Threads, bridgeVars, TInv, TypeOK
    <3> QED BY <3>1, <3>2, LoopStays DEF GetConfig, TInv
  <2>4. CASE Logout
    <3>1. DeleteConfig(Terminal, "remove")
      BY <2>4 DEF Logout
    <3>2. TypeOK'
      BY <1>4, <3>1, DeleteConfigType DEF Places, Threads, bridgeVars, TInv, TypeOK
    <3> QED BY <3>1, <3>2, LoopStays DEF DeleteConfig, TInv
  <2>5. CASE PurgeFile
    <3>1. Move(Terminal, "idle", None)
      BY <2>5 DEF PurgeFile
    <3>2. at' \in [Threads -> Places] /\ cfg' \in [Threads -> Configs]
      BY <3>1, MoveType DEF Places, Configs, Threads, TInv
    <3>3. file' \in Configs /\ unsaved' \in BOOLEAN /\ raced' \in BOOLEAN
      BY <2>5 DEF PurgeFile, DeleteFile, Overlaps, TInv, TypeOK, Configs
    <3>4. TypeOK'
      BY <1>4, <2>5, <3>2, <3>3 DEF PurgeFile, TInv, TypeOK, Configs, Places, bridgeVars
    <3> QED BY <3>1, <3>4, LoopStays DEF TInv
  <2>6. CASE Maintain
    BY <1>4, <2>6, MaintainType
  <2>7. CASE LinkDrops \/ NetworkChanges
    BY <1>4, <2>7 DEF LinkDrops, NetworkChanges, TInv, TypeOK, LoopWanted, LoopPlaces,
                      Wanted, bridgeVars
  <2> QED BY <1>4, <2>1, <2>2, <2>3, <2>4, <2>5, <2>6, <2>7 DEF Configure
<1>5. CASE Stop \/ StopHttp
  BY <1>5 DEF Stop, StopHttp, TInv, TypeOK, LoopWanted, LoopPlaces, Wanted
<1>6. CASE ClearClients
  BY <1>6 DEF ClearClients, TInv, TypeOK, LoopWanted, LoopPlaces, Wanted
<1>7. CASE Start
  <2>1. /\ Move(Terminal, IF memory = None THEN "idle" ELSE "update", None)
        /\ {"idle", "update"} \subseteq Places /\ None \in Configs
    BY <1>7 DEF Start, Places, Configs
  <2>2. at' \in [Threads -> Places] /\ cfg' \in [Threads -> Configs]
    BY <2>1, MoveType DEF Threads, TInv
  <2>3. TypeOK'
    BY <1>7, <2>2 DEF Start, TInv, TypeOK, Configs, Places
  <2> QED BY <2>1, <2>3, LoopStays DEF TInv
<1> QED BY <1>1, <1>2, <1>3, <1>4, <1>5, <1>6, <1>7 DEF Next

\* Requests, logins, the loop, stop and init keep every variable in its type.
THEOREM ConfigTypes == Spec => []TypeOK
<1>1. TInv => TypeOK
  BY DEF TInv
<1> QED BY <1>1, TInit, TNext, PTL DEF Spec

-----------------------------------------------------------------------------
(* Stop.                                                                   *)

\* The EA thread is in stop or out of the bridge, and nowhere in a login.
TerminalWaits == bridge # "up" => at[Terminal] = "idle"

\* The loop is joined before the clients are dropped.
LoopJoined == bridge \in {"cleared", "down"} => at[Maintenance] = "idle"

\* No handler is left over that nobody has marked as late.
NobodyLate ==
    bridge \in {"cleared", "down"} /\ ~late => \A r \in Requests : at[r] = "idle"

SInv == TInv /\ TerminalWaits /\ LoopJoined /\ NobodyLate /\ StoppedIsDisconnected

\* The bridge starts up.
LEMMA SInit == Init => SInv
BY TInit DEF Init, SInv, TerminalWaits, LoopJoined, NobodyLate, StoppedIsDisconnected

\* Nothing is claimed of a bridge that is up.
LEMMA UpIsFine == TInv' /\ bridge' = "up" => SInv'
BY DEF SInv, TerminalWaits, LoopJoined, NobodyLate, StoppedIsDisconnected

\* A request at work is late once the clients have been dropped.
LEMMA RequestStep ==
    ASSUME SInv, TInv', NEW r \in Requests, NEW place, at[r] # "idle",
           Goto(r, place), UNCHANGED bridgeVars
    PROVE  SInv'
<1>1. r # Terminal /\ r # Maintenance
  BY ClientsAssumption
<1>2. {r, Terminal, Maintenance} \subseteq Threads
  BY DEF Threads
<1>3. /\ at'[Terminal] = at[Terminal]
      /\ at'[Maintenance] = at[Maintenance]
  BY <1>1, <1>2 DEF Goto, SInv, TInv, TypeOK
<1>4. bridge \in {"cleared", "down"} => late
  BY DEF SInv, NobodyLate
<1> QED BY <1>3, <1>4 DEF SInv, TerminalWaits, LoopJoined, NobodyLate,
                          StoppedIsDisconnected, bridgeVars

\* The EA thread waits and the loop is joined, so what is left are requests and
\* the network.
LEMMA StoppedStep ==
    ASSUME SInv, TInv', bridge # "up", Configure, UNCHANGED bridgeVars
    PROVE  SInv'
<1>1. at[Terminal] = "idle"
  BY DEF SInv, TerminalWaits
<1>2. ASSUME NEW r \in Requests, FinishPut(r) PROVE SInv'
  <2>1. /\ at[r] # "idle"
        /\ \E place : Goto(r, place)
    BY <1>2 DEF FinishPut, DeleteConfig, SetConfig, Move
  <2> QED BY <2>1, RequestStep
<1>3. ASSUME NEW r \in Requests, Serve(r) PROVE SInv'
  <2>1. at[r] # "idle"
    BY <1>3 DEF Serve, LoadFile, StoreLoaded, GetAgain, UpdateRead, UpdateApply,
                RemoveClient
  <2>2. \E place : Goto(r, place)
    BY <1>3 DEF Serve, LoadFile, StoreLoaded, GetAgain, UpdateRead, UpdateApply,
                RemoveClient, GetConfig, Move
  <2> QED BY <2>1, <2>2, RequestStep
<1>4. ~(Login \/ Logout \/ PurgeFile \/ Serve(Terminal))
  BY <1>1 DEF Login, Logout, PurgeFile, Serve, LoadFile, StoreLoaded, GetAgain,
              UpdateRead, UpdateApply, RemoveClient
<1>5. CASE Maintain
  <2>1. bridge = "stopping"
    BY <1>5 DEF Maintain, MaintenanceRead, MaintenanceApply, SInv, LoopJoined, TInv,
                TypeOK
  <2>2. \E place : Goto(Maintenance, place)
    BY <1>5 DEF Maintain, MaintenanceRead, MaintenanceApply, GetConfig, Move
  <2>3. Terminal # Maintenance /\ {Terminal, Maintenance} \subseteq Threads
    BY ClientsAssumption DEF Threads
  <2>4. at'[Terminal] = "idle"
    BY <1>1, <2>2, <2>3 DEF Goto, SInv, TInv, TypeOK
  <2> QED BY <2>1, <2>4 DEF SInv, TerminalWaits, LoopJoined, NobodyLate,
                            StoppedIsDisconnected, bridgeVars
<1>6. CASE LinkDrops
  <2>1. client # "none"
    BY <1>6, ClientsAssumption DEF LinkDrops
  <2> QED BY <1>6, <2>1 DEF LinkDrops, SInv, TerminalWaits, LoopJoined, NobodyLate,
                            StoppedIsDisconnected, bridgeVars
<1>7. CASE NetworkChanges
  BY <1>7 DEF NetworkChanges, SInv, TerminalWaits, LoopJoined, NobodyLate,
              StoppedIsDisconnected, bridgeVars
<1> QED BY <1>2, <1>3, <1>4, <1>5, <1>6, <1>7 DEF Configure

\* A request that is accepted after the clients were dropped is marked.
LEMMA AcceptStep ==
    ASSUME SInv, TInv', NEW r \in Requests, NEW place, Accept(r), Goto(r, place)
    PROVE  SInv'
<1>1. r # Terminal /\ r # Maintenance
  BY ClientsAssumption
<1>2. {r, Terminal, Maintenance} \subseteq Threads
  BY DEF Threads
<1>3. /\ at'[Terminal] = at[Terminal]
      /\ at'[Maintenance] = at[Maintenance]
  BY <1>1, <1>2 DEF Goto, SInv, TInv, TypeOK
<1>4. bridge' = bridge /\ (bridge \in {"cleared", "down"} => late')
  BY DEF Accept
<1> QED BY <1>3, <1>4 DEF SInv, TerminalWaits, LoopJoined, NobodyLate,
                          StoppedIsDisconnected

\* Every step keeps what stop relies on.
LEMMA SNext == SInv /\ [Next]_vars => SInv'
<1> SUFFICES ASSUME SInv, [Next]_vars PROVE SInv'
  OBVIOUS
<1>1. TInv'
  BY TNext DEF SInv
<1>2. CASE UNCHANGED vars
  BY <1>1, <1>2 DEF vars, bridgeVars, SInv, TerminalWaits, LoopJoined, NobodyLate,
                    StoppedIsDisconnected
<1>3. ASSUME NEW r \in Requests, StartPut(r) \/ PutDelete(r) PROVE SInv'
  <2>1. Accept(r) /\ \E place : Goto(r, place)
    BY <1>3 DEF StartPut, PutDelete, GetConfig, DeleteConfig, Move
  <2> QED BY <1>1, <2>1, AcceptStep
<1>4. CASE Configure /\ UNCHANGED bridgeVars
  <2>1. CASE bridge = "up"
    BY <1>1, <1>4, <2>1, UpIsFine DEF bridgeVars
  <2>2. CASE bridge # "up"
    BY <1>1, <1>4, <2>2, StoppedStep
  <2> QED BY <2>1, <2>2
<1>5. CASE Stop
  BY <1>1, <1>5 DEF Stop, SInv, TerminalWaits, LoopJoined, NobodyLate,
                    StoppedIsDisconnected
<1>6. CASE ClearClients
  BY <1>1, <1>6 DEF ClearClients, SInv, TerminalWaits, LoopJoined, NobodyLate,
                    StoppedIsDisconnected
<1>7. CASE StopHttp
  BY <1>1, <1>7 DEF StopHttp, SInv, TerminalWaits, LoopJoined, NobodyLate,
                    StoppedIsDisconnected
<1>8. CASE Start
  BY <1>1, <1>8, UpIsFine DEF Start
<1> QED BY <1>2, <1>3, <1>4, <1>5, <1>6, <1>7, <1>8 DEF Next

\* A bridge that has stopped has no connection left, unless a request was at work
\* after the clients had been dropped.
THEOREM ConfigStops == Spec => []StoppedIsDisconnected
<1>1. SInv => StoppedIsDisconnected
  BY DEF SInv
<1> QED BY <1>1, SInit, SNext, PTL DEF Spec

-----------------------------------------------------------------------------
(* Memory, file and client, as long as no write overlaps an earlier read.  *)

\* What is about to be acted on is what the memory holds.
ReadersAgree == \A d \in Threads : at[d] = "apply" => cfg[d] = memory

\* Who reads the file does so because there is nothing in memory.
LoadersFindNothing == \A d \in Threads : at[d] \in {"load", "loaded"} => memory = None

\* The EA thread removes client and file of an account that is gone.
TerminalDeleted == at[Terminal] \in {"remove", "purge"} => memory = None

\* The client is the configured one, or a thread is on its way to change it.
ClientFollows ==
    client \in Urls =>
        \/ Wanted(memory) /\ client = memory.url
        \/ \E d \in Requests \cup {Terminal} : at[d] \in {"update", "remove", "apply"}

\* While the file is right nobody has found a configuration in it that was missing
\* in memory.
FileAgrees == ~unsaved => file = memory /\ \A d \in Threads : at[d] # "loaded"

\* Nobody writes the file between its reading and the store of what was read.
LoadedIsFile == \A d \in Threads : at[d] = "loaded" => cfg[d] = file

Ordered == /\ ReadersAgree /\ LoadersFindNothing /\ TerminalDeleted
           /\ ClientFollows /\ FileAgrees /\ LoadedIsFile

RInv == TInv /\ (~raced => Ordered)

\* A thread moves, the others do not.
LEMMA Moves ==
    ASSUME TInv, NEW c \in Threads, NEW place, NEW value, Move(c, place, value)
    PROVE  /\ at'[c] = place /\ cfg'[c] = value
           /\ \A d \in Threads \ {c} : at'[d] = at[d] /\ cfg'[d] = cfg[d]
BY DEF Move, Goto, Hold, TInv, TypeOK

\* Without a configuration there is nothing to connect to.
LEMMA NoneUnwanted == ~Wanted(None)
<1>1. None.role = "none"
  BY DEF None
<1> QED BY <1>1 DEF Wanted

\* A writer that overlaps nobody is the only one with something to act on.
LEMMA Alone ==
    ASSUME NEW c \in Threads, ~Overlaps(c)
    PROVE  /\ \A d \in Threads \ {c} :
                 at[d] \notin {"load", "loaded", "merge", "apply", "purge"}
           /\ Terminal # c => at[Terminal] # "remove"
BY DEF Overlaps, Threads

\* A thread that reads the configuration finds what is there.
LEMMA ReadStep ==
    ASSUME RInv, TInv', NEW c \in Threads, NEW found \in Places, NEW missing \in Places,
           GetConfig(c, found, missing),
           found \notin {"load", "loaded", "remove", "purge"},
           missing \notin {"loaded", "remove", "purge"},
           \/ at[c] \in {"idle", "reget"}
           \/ at[c] = "update" /\ found = "apply" /\ missing = "apply"
                  /\ c \in Requests \cup {Terminal}
    PROVE  RInv'
<1> SUFFICES ASSUME ~raced' PROVE Ordered'
  BY DEF RInv
<1>1. Ordered /\ UNCHANGED <<memory, file, client, unsaved>>
  BY DEF RInv, GetConfig
<1>2. /\ at'[c] = (IF memory = None THEN missing ELSE found)
      /\ cfg'[c] = memory
      /\ \A d \in Threads \ {c} : at'[d] = at[d] /\ cfg'[d] = cfg[d]
  BY Moves DEF GetConfig, RInv
<1>3. ReadersAgree'
  BY <1>1, <1>2 DEF Ordered, ReadersAgree
<1>4. LoadersFindNothing'
  BY <1>1, <1>2 DEF Ordered, LoadersFindNothing
<1>5. TerminalDeleted'
  BY <1>1, <1>2 DEF Ordered, TerminalDeleted, Threads
<1>6. ClientFollows'
  <2>1. Requests \cup {Terminal} \subseteq Threads
    BY DEF Threads
  <2>2. \A d \in Requests \cup {Terminal} : at[d] \in {"update", "remove", "apply"} =>
          at'[d] \in {"update", "remove", "apply"}
    BY <1>2, <2>1
  <2> QED BY <1>1, <2>2 DEF Ordered, ClientFollows, Wanted
<1>7. FileAgrees' /\ LoadedIsFile'
  BY <1>1, <1>2 DEF Ordered, FileAgrees, LoadedIsFile
<1> QED BY <1>3, <1>4, <1>5, <1>6, <1>7 DEF Ordered

\* A configuration is stored: who wrote it goes on to the client.
LEMMA SetStep ==
    ASSUME RInv, TInv', NEW c \in Requests, NEW config, SetConfig(c, config)
    PROVE  RInv'
<1> SUFFICES ASSUME ~raced' PROVE Ordered'
  BY DEF RInv
<1>1. c \in Threads /\ c # Terminal
  BY ClientsAssumption DEF Threads
<1>2. ~Overlaps(c) /\ Move(c, "update", None)
  BY DEF SetConfig
<1>3. /\ at'[c] = "update"
      /\ \A d \in Threads \ {c} : at'[d] = at[d]
  BY <1>1, <1>2, Moves DEF RInv
<1>4. /\ \A d \in Threads \ {c} :
            at[d] \notin {"load", "loaded", "merge", "apply", "purge"}
      /\ at[Terminal] # "remove"
  BY <1>1, <1>2, Alone
<1>5. \A d \in Threads : at'[d] \notin {"load", "loaded", "apply", "purge"}
  BY <1>3, <1>4
<1>6. at'[Terminal] \notin {"remove", "purge"}
  BY <1>1, <1>3, <1>4, <1>5 DEF Threads
<1>7. ~unsaved' => file' = memory'
  BY DEF SetConfig, SaveFile
<1> QED BY <1>3, <1>5, <1>6, <1>7 DEF Ordered, ReadersAgree, LoadersFindNothing,
        TerminalDeleted, ClientFollows, FileAgrees, LoadedIsFile

\* A configuration is deleted, with the file if that can be deleted; the client is
\* next.
LEMMA DeleteStep ==
    ASSUME RInv, TInv', NEW c \in Requests \cup {Terminal}, NEW missing \in {"idle", "remove"},
           at[c] \in {"idle", "merge"}, DeleteConfig(c, missing)
    PROVE  RInv'
<1> SUFFICES ASSUME ~raced' PROVE Ordered'
  BY DEF RInv
<1>1. c \in Threads
  BY DEF Threads
<1>2. /\ ~Overlaps(c) /\ (raced => memory # None)
      /\ Move(c, IF memory = None THEN missing ELSE "remove", None)
      /\ memory' = None /\ client' = client /\ (~unsaved' => file' = None)
  BY DEF DeleteConfig, DeleteFile
<1>3. /\ at'[c] = (IF memory = None THEN missing ELSE "remove")
      /\ \A d \in Threads \ {c} : at'[d] = at[d]
  BY <1>1, <1>2, Moves DEF RInv
<1>4. \A d \in Threads : at'[d] \notin {"load", "loaded", "apply"}
  BY <1>1, <1>2, <1>3, Alone
<1>5. ClientFollows'
  <2>1. CASE memory # None
    BY <1>3, <2>1 DEF ClientFollows
  <2>2. CASE memory = None
    <3>1. Ordered
      BY <1>2, <2>2 DEF RInv
    <3>2. ~Wanted(memory)
      BY <2>2, NoneUnwanted
    <3>3. client \in Urls =>
            \E d \in Requests \cup {Terminal} : at[d] \in {"update", "remove", "apply"}
      BY <3>1, <3>2 DEF Ordered, ClientFollows
    <3> QED BY <1>2, <1>3, <3>3 DEF ClientFollows, Threads
  <2> QED BY <2>1, <2>2
<1> QED BY <1>2, <1>4, <1>5 DEF Ordered, ReadersAgree, LoadersFindNothing,
                                TerminalDeleted, FileAgrees, LoadedIsFile

\* The handlers between their first read and the client.
LEMMA ServeStep ==
    ASSUME RInv, TInv', NEW c \in Requests \cup {Terminal}, Serve(c)
    PROVE  RInv'
<1>1. c \in Threads /\ Terminal \in Threads
  BY DEF Threads
<1>2. CASE LoadFile(c)
  <2> SUFFICES ASSUME ~raced' PROVE Ordered'
    BY DEF RInv
  <2>1. /\ Ordered /\ at[c] = "load" /\ UNCHANGED <<memory, file, client, unsaved>>
        /\ Move(c, IF file = None THEN "reget" ELSE "loaded", file)
    BY <1>2 DEF LoadFile, RInv
  <2>2. /\ at'[c] = (IF file = None THEN "reget" ELSE "loaded")
        /\ \A d \in Threads \ {c} : at'[d] = at[d] /\ cfg'[d] = cfg[d]
    BY <1>1, <2>1, Moves DEF RInv
  <2>3. memory = None /\ (~unsaved => file = None)
    BY <1>1, <2>1 DEF Ordered, LoadersFindNothing, FileAgrees
  <2>4. ReadersAgree' /\ LoadersFindNothing' /\ TerminalDeleted'
    BY <2>1, <2>2, <2>3 DEF Ordered, ReadersAgree, LoadersFindNothing, TerminalDeleted
  <2>5. ClientFollows'
    BY <2>1, <2>2 DEF Ordered, ClientFollows, Wanted, Threads
  <2>6. FileAgrees'
    BY <2>1, <2>2, <2>3 DEF Ordered, FileAgrees
  <2>7. cfg'[c] = file
    BY <1>1, <2>1, Moves DEF RInv
  <2>8. LoadedIsFile'
    BY <2>1, <2>2, <2>7 DEF Ordered, LoadedIsFile
  <2> QED BY <2>4, <2>5, <2>6, <2>8 DEF Ordered
<1>3. CASE StoreLoaded(c)
  <2> SUFFICES ASSUME ~raced' PROVE Ordered'
    BY DEF RInv
  <2>1. /\ Ordered /\ at[c] = "loaded" /\ ~Overlaps(c) /\ Move(c, "reget", None)
        /\ memory' = cfg[c] /\ UNCHANGED <<file, client>>
    BY <1>3 DEF StoreLoaded, RInv
  <2>2. at'[c] = "reget" /\ \A d \in Threads \ {c} : at'[d] = at[d]
    BY <1>1, <2>1, Moves DEF RInv
  <2>3. /\ \A d \in Threads : at'[d] \notin {"load", "loaded", "apply", "purge"}
        /\ at'[Terminal] # "remove"
    BY <1>1, <2>1, <2>2, Alone DEF Threads
  <2>4. ~Wanted(memory)
    BY <1>1, <2>1, NoneUnwanted DEF Ordered, LoadersFindNothing
  <2>5. ClientFollows'
    BY <2>1, <2>2, <2>4 DEF Ordered, ClientFollows, Threads
  <2>6. memory' = file'
    BY <1>1, <2>1 DEF Ordered, LoadedIsFile
  <2> QED BY <1>1, <2>1, <2>3, <2>5, <2>6
          DEF Ordered, ReadersAgree, LoadersFindNothing, TerminalDeleted, FileAgrees,
              LoadedIsFile
<1>4. CASE GetAgain(c)
  <2>1. PICK place \in {"merge", "update"} : GetConfig(c, place, place)
    BY <1>4 DEF GetAgain
  <2> QED BY <1>1, <1>4, <2>1, ReadStep DEF GetAgain, Places
<1>5. CASE UpdateRead(c)
  BY <1>1, <1>5, ReadStep DEF UpdateRead, Places
<1>6. CASE UpdateApply(c)
  <2> SUFFICES ASSUME ~raced' PROVE Ordered'
    BY DEF RInv
  <2>1. /\ Ordered /\ at[c] = "apply" /\ Move(c, "idle", None)
        /\ UNCHANGED <<memory, file, unsaved>>
    BY <1>6 DEF UpdateApply, RInv
  <2>2. at'[c] = "idle" /\ \A d \in Threads \ {c} : at'[d] = at[d] /\ cfg'[d] = cfg[d]
    BY <1>1, <2>1, Moves DEF RInv
  <2>3. cfg[c] = memory
    BY <1>1, <2>1 DEF Ordered, ReadersAgree
  <2>4. client' \in Urls => Wanted(memory) /\ client' = memory.url
    BY <1>6, <2>3, ClientsAssumption DEF UpdateApply, Connects
  <2>5. ClientFollows'
    BY <2>1, <2>4 DEF ClientFollows, Wanted
  <2>6. /\ ReadersAgree' /\ LoadersFindNothing' /\ TerminalDeleted' /\ FileAgrees'
        /\ LoadedIsFile'
    BY <1>1, <2>1, <2>2 DEF Ordered, ReadersAgree, LoadersFindNothing,
                            TerminalDeleted, FileAgrees, LoadedIsFile
  <2> QED BY <2>5, <2>6 DEF Ordered
<1>7. CASE RemoveClient(c)
  <2> SUFFICES ASSUME ~raced' PROVE Ordered'
    BY DEF RInv
  <2>1. /\ Ordered /\ at[c] = "remove" /\ client' = "none"
        /\ Move(c, IF c = Terminal THEN "purge" ELSE "idle", None)
        /\ UNCHANGED <<memory, file, unsaved>>
    BY <1>7 DEF RemoveClient, RInv
  <2>2. /\ at'[c] = (IF c = Terminal THEN "purge" ELSE "idle")
        /\ \A d \in Threads \ {c} : at'[d] = at[d] /\ cfg'[d] = cfg[d]
    BY <1>1, <2>1, Moves DEF RInv
  <2>3. ClientFollows'
    BY <2>1, ClientsAssumption DEF ClientFollows
  <2>4. /\ ReadersAgree' /\ LoadersFindNothing' /\ TerminalDeleted' /\ FileAgrees'
        /\ LoadedIsFile'
    BY <1>1, <2>1, <2>2 DEF Ordered, ReadersAgree, LoadersFindNothing,
                            TerminalDeleted, FileAgrees, LoadedIsFile
  <2> QED BY <2>3, <2>4 DEF Ordered
<1> QED BY <1>2, <1>3, <1>4, <1>5, <1>6, <1>7 DEF Serve

\* The maintenance loop connects to what the memory holds, and to nothing while a
\* connection stands.
LEMMA MaintainStep ==
    ASSUME RInv, TInv', Maintain
    PROVE  RInv'
<1>1. Maintenance \in Threads /\ Terminal \in Threads
  BY DEF Threads
<1>2. CASE MaintenanceRead
  BY <1>1, <1>2, ReadStep DEF MaintenanceRead, Places
<1>3. CASE MaintenanceApply
  <2> SUFFICES ASSUME ~raced' PROVE Ordered'
    BY DEF RInv
  <2>1. /\ Ordered /\ at[Maintenance] = "apply" /\ Move(Maintenance, "idle", None)
        /\ UNCHANGED <<memory, file, unsaved>>
    BY <1>3 DEF MaintenanceApply, RInv
  <2>2. /\ at'[Maintenance] = "idle"
        /\ \A d \in Threads \ {Maintenance} : at'[d] = at[d] /\ cfg'[d] = cfg[d]
    BY <1>1, <2>1, Moves DEF RInv
  <2>3. cfg[Maintenance] = memory /\ Wanted(memory)
    BY <1>1, <2>1 DEF Ordered, ReadersAgree, RInv, TInv, LoopWanted
  <2>4. ClientFollows'
    <3>1. CASE client \in {"none", "down"}
      <4>1. client' \in Urls => client' = memory.url
        BY <1>3, <2>3, <3>1, ClientsAssumption DEF MaintenanceApply, Connects
      <4> QED BY <2>1, <2>3, <4>1 DEF ClientFollows, Wanted
    <3>2. CASE client \notin {"none", "down"}
      <4>1. client' = client
        BY <1>3, <3>2 DEF MaintenanceApply
      <4>2. \A d \in Requests \cup {Terminal} : at'[d] = at[d]
        BY <2>2, ClientsAssumption DEF Threads
      <4> QED BY <2>1, <4>1, <4>2 DEF Ordered, ClientFollows, Wanted
    <3> QED BY <3>1, <3>2
  <2>5. /\ ReadersAgree' /\ LoadersFindNothing' /\ TerminalDeleted' /\ FileAgrees'
        /\ LoadedIsFile'
    BY <1>1, <2>1, <2>2 DEF Ordered, ReadersAgree, LoadersFindNothing,
                            TerminalDeleted, FileAgrees, LoadedIsFile
  <2> QED BY <2>4, <2>5 DEF Ordered
<1> QED BY <1>2, <1>3 DEF Maintain

\* The memory is what was loaded from the file, and there is no client.
LEMMA RInit == Init => RInv
BY TInit, ClientsAssumption DEF Init, RInv, Ordered, ReadersAgree, LoadersFindNothing,
        TerminalDeleted, ClientFollows, FileAgrees, LoadedIsFile, Threads

\* A step that moves no thread and makes no connection.
LEMMA StillStep ==
    ASSUME RInv, TInv', UNCHANGED <<memory, file, at, cfg, raced, unsaved>>,
           client' = client \/ client' \notin Urls
    PROVE  RInv'
BY DEF RInv, Ordered, ReadersAgree, LoadersFindNothing, TerminalDeleted, ClientFollows,
       FileAgrees, LoadedIsFile, Wanted

\* A thread that was not at work on the client has nothing left to do.
LEMMA RestStep ==
    ASSUME RInv, TInv', NEW c \in Threads, NEW place \in {"idle", "update"},
           at[c] \in {"idle", "merge"}, Move(c, place, None),
           UNCHANGED <<memory, file, client, raced, unsaved>>
    PROVE  RInv'
<1> SUFFICES ASSUME ~raced' PROVE Ordered'
  BY DEF RInv
<1>1. Ordered
  BY DEF RInv
<1>2. at'[c] = place /\ \A d \in Threads \ {c} : at'[d] = at[d] /\ cfg'[d] = cfg[d]
  BY Moves DEF RInv
<1>3. /\ ReadersAgree' /\ LoadersFindNothing' /\ TerminalDeleted' /\ FileAgrees'
      /\ LoadedIsFile'
  BY <1>1, <1>2 DEF Ordered, ReadersAgree, LoadersFindNothing, TerminalDeleted,
                    FileAgrees, LoadedIsFile, Threads
<1>4. ClientFollows'
  BY <1>1, <1>2 DEF Ordered, ClientFollows, Wanted, Threads
<1> QED BY <1>3, <1>4 DEF Ordered

\* Every step keeps memory, file and client in order.
LEMMA RNext == SInv /\ RInv /\ [Next]_vars => RInv'
<1> SUFFICES ASSUME SInv, RInv, [Next]_vars PROVE RInv'
  OBVIOUS
<1>1. TInv' /\ Requests \cup {Terminal} \subseteq Threads
  BY TNext DEF RInv, Threads
<1>2. CASE UNCHANGED vars
  BY <1>1, <1>2, StillStep DEF vars
<1>3. ASSUME NEW r \in Requests, StartPut(r) PROVE RInv'
  BY <1>1, <1>3, ReadStep DEF StartPut, Accept, Places
<1>4. ASSUME NEW r \in Requests, PutDelete(r) PROVE RInv'
  BY <1>1, <1>4, DeleteStep DEF PutDelete, Accept
<1>5. CASE Configure /\ UNCHANGED bridgeVars
  <2>1. ASSUME NEW r \in Requests, FinishPut(r) PROVE RInv'
    <3>1. at[r] = "merge"
      BY <2>1 DEF FinishPut
    <3>2. CASE DeleteConfig(r, "idle")
      BY <1>1, <3>1, <3>2, DeleteStep
    <3>3. CASE \E config : SetConfig(r, config)
      BY <1>1, <3>3, SetStep
    <3>4. CASE /\ Move(r, "idle", None)
               /\ UNCHANGED <<memory, file, client, network, raced, unsaved>>
      BY <1>1, <3>1, <3>4, RestStep
    <3> QED BY <2>1, <3>2, <3>3, <3>4 DEF FinishPut
  <2>2. ASSUME NEW c \in Requests \cup {Terminal}, Serve(c) PROVE RInv'
    BY <1>1, <2>2, ServeStep
  <2>3. CASE Login
    BY <1>1, <2>3, ReadStep DEF Login, Places
  <2>4. CASE Logout
    BY <1>1, <2>4, DeleteStep DEF Logout
  <2>5. CASE PurgeFile
    <3> SUFFICES ASSUME ~raced' PROVE Ordered'
      BY <1>1 DEF RInv
    <3>1. /\ Ordered /\ at[Terminal] = "purge" /\ (~unsaved' => file' = None)
          /\ ~Overlaps(Terminal)
          /\ Move(Terminal, "idle", None) /\ UNCHANGED <<memory, client>>
      BY <2>5 DEF PurgeFile, DeleteFile, RInv
    <3>2. memory = None
      BY <3>1 DEF Ordered, TerminalDeleted
    <3>3. /\ at'[Terminal] = "idle"
          /\ \A d \in Threads \ {Terminal} : at'[d] = at[d] /\ cfg'[d] = cfg[d]
      BY <1>1, <3>1, Moves DEF RInv
    <3>4. \A d \in Threads : at'[d] \notin {"load", "loaded", "apply", "purge"}
      BY <1>1, <3>1, <3>3, Alone
    <3>5. ClientFollows'
      BY <1>1, <3>1, <3>3 DEF Ordered, ClientFollows, Wanted
    <3>6. /\ ReadersAgree' /\ LoadersFindNothing' /\ TerminalDeleted' /\ FileAgrees'
          /\ LoadedIsFile'
      BY <1>1, <3>1, <3>2, <3>3, <3>4 DEF ReadersAgree, LoadersFindNothing,
         TerminalDeleted, FileAgrees, LoadedIsFile
    <3> QED BY <3>5, <3>6 DEF Ordered
  <2>6. CASE Maintain
    BY <1>1, <2>6, MaintainStep
  <2>7. CASE LinkDrops \/ NetworkChanges
    BY <1>1, <2>7, StillStep, ClientsAssumption DEF LinkDrops, NetworkChanges
  <2> QED BY <1>5, <2>1, <2>2, <2>3, <2>4, <2>5, <2>6, <2>7 DEF Configure
<1>6. CASE Stop \/ ClearClients \/ StopHttp
  BY <1>1, <1>6, StillStep, ClientsAssumption DEF Stop, ClearClients, StopHttp
<1>7. CASE Start
  BY <1>1, <1>7, RestStep DEF Start, SInv, TerminalWaits
<1> QED BY <1>2, <1>3, <1>4, <1>5, <1>6, <1>7 DEF Next

\* Between requests the client is connected to no master but the configured one,
\* unless a thread acted on a configuration read before the last write.
THEOREM ConfigFollowed == Spec => []NoWrongMaster
<1>1. RInv => NoWrongMaster
  <2> SUFFICES ASSUME RInv, Quiet, ~raced, client \in Urls
               PROVE  Wanted(memory) /\ client = memory.url
    BY DEF NoWrongMaster
  <2>1. \A d \in Requests \cup {Terminal} : at[d] = "idle"
    BY DEF Quiet, Threads
  <2> QED BY <2>1 DEF RInv, Ordered, ClientFollows
<1> QED BY <1>1, RInit, RNext, SInit, SNext, PTL DEF Spec

\* Between requests the file holds what the memory holds, unless writers
\* overlapped, or a write or a delete failed and no load has made up for it.
THEOREM ConfigSaved == Spec => []FileMatchesMemory
<1>1. RInv => FileMatchesMemory
  BY DEF RInv, Ordered, FileAgrees, FileMatchesMemory
<1> QED BY <1>1, RInit, RNext, SInit, SNext, PTL DEF Spec
=============================================================================
