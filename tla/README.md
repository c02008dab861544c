# IPTRADE bots: models and proofs of the trade copier

IPTRADE copies trades between MetaTrader terminals. In every terminal runs an
Expert Advisor (EA, `src/bots`) and a bridge DLL (`src/bridge-dll`). A master's
EA tells its DLL what happened at its broker, the DLL sends it to the DLLs of
the slaves over TCP, and a slave's EA polls the resulting commands and trades.
This directory holds TLA+ modules of that system, their TLC runs, and proofs
checked by TLAPS. `PROJECT.json` maps each definition to the lines it models.

    tlc -workers 2 -config fanout.cfg MCSnapshotFanout.tla
    tlapm SnapshotFanout_proofs.tla

## 1. Inventory

Paths: `B` = bridge-dll/src/BridgeServer.cpp, `T` = TcpServer.cpp, `C` =
TcpClient.cpp, `A` = ConfigApi.cpp, `S` = SlaveConverter.cpp, `H` =
HeartbeatService.cpp, `M` = bots/mt5/IPTRADE.mq5, `F` = bots/mt4/IPTRADE.mq4.

| component | state | operations | what makes it correct |
|---|---|---|---|
| Event fan-out (B 295-337, 515-534; T) | toggle, role, `last_snapshot_json_`, `sessions_`, three mutexes | push an event, replay the stored snapshot for a new session or after PUT, toggle TCP, change role, drop a session | order and unicity of first sendings, a baseline for each new session, nothing sent that was not pushed |
| TCP server of the master (T), command queue | `sessions_` by key, a socket number in each handler, `running_`, a FIFO of commands | accept, handshake, register, receive, answer, broadcast, disconnect all, start, stop; push, poll | every session has its handler, replies go to who asked, commands in order, handlers end |
| Account settings (A, B 1161-1473, 1745-1908) | `configs_`, one file per account | PUT/POST with merging and validation, delete, load, save | a request changes what it names; memory, file and restarts agree |
| Client lifecycle (B 157-242, 1745-2067) | `tcp_clients_`, the configuration it was read from | login, logout, update, remove, the 5 s maintenance loop, init, stop | a slave is connected to its master and no other; it comes back after a loss; a stopped bridge is not connected |
| TCP client (C) | socket, line buffer | connect, disconnect, receive, convert, queue | lines in order, nothing while the toggle is off |
| Slave converter (S) | none | event or snapshot entry to command: symbol, side, type, stops, volume | a copy that a broker takes; the snapshot confirms the events |
| Heartbeat service (H) | account, port, callbacks, two flags, threads | start, stop, post every 10 s | it tells of the account that is logged in; loops end |
| MT5 EA as master (M 237-413, 1946-2557) | reported positions, orders and deals, order states, last snapshot | scan, report, gate, snapshot, reinitialise | each ticket told once; disappearance always told; snapshots go on |
| MT5 EA as slave (M 415-1741, 2559-2679) | the broker's positions and orders, in-flight list, ticket maps | create, modify, cancel, reconcile_snapshot, reload | one copy per ticket; what the master has is kept, what it lacks goes |
| MT4 EA as master (F 199-381, 1780-2046, 2255-2790) | reported tickets, order states, ticket maps, last snapshot | as MT5's, with a new ticket at every partial close | a chain of tickets is one trade to the slaves |
| MT4 EA as slave (F 428-1778) | as MT5's, with one pool of orders | the same commands | as MT5's |
| Local event poster | queue, count of threads | enqueue (no caller), send | |
| HTTP server, WebSocket metrics, DLL entry points, encryption, JSON helpers, build scripts | I/O, or none | | |

**Interaction.** The EA calls the DLL on its one thread. The DLL adds a thread
per HTTP request, per accepted TCP connection (master), per connected client
(slave), a maintenance thread and a heartbeat thread. Threads meet in the
configuration (`config_mutex_`), the client map (`tcp_clients_mutex_`), the
sessions (`sessions_mutex_`), the stored snapshot (`last_snapshot_mutex_`), the
on-connect callback (`on_new_session_mutex_`), the numbers of sockets, which no
lock protects, and atomic flags. Two terminals meet only in a TCP stream of
lines. Broker and terminal change positions, orders and history at any time,
seen or unseen by the EA.

**What is hard.** Values are read under one lock and used under another (role
and toggle before a send, the stored snapshot before a replay, a configuration
before a connect, a socket number before a reply). Lines get lost with their
connection, and are repaired by a snapshot that may itself be old. The EAs
identify trades by tickets that change hands between orders and positions, are
replaced at partial closes, appear in the terminal late and disappear before
their history shows. `PROJECT.json` lists these hazards at their lines, with the
property that covers each, or why none does.

## 2. Modules

| module | models | composes |
|---|---|---|
| `EventChannel` | abstract: what a master's DLL promises its slaves | |
| `SnapshotFanout`, `MCSnapshotFanout` | threads, mutexes, sessions of the fan-out | implements `EventChannel` |
| `CopyPath` | master EA, channel and slave EA for market positions | built on `EventChannel` |
| `TcpSessions` | sockets, handlers, sessions and command queue of the master's server | |
| `ConfigClients` | configuration, file and client of one account, stop and init | |
| `SlaveConverter` | the conversion of events and snapshot entries, as operators | |
| `SettingsStore` | abstract: what the REST API promises about settings | uses `SlaveConverter`'s record |
| `Settings` | every field of a configuration: parsers, writers, memory, file | uses `SlaveConverter`, implements `SettingsStore` |
| `HeartbeatService`, `MCHeartbeat` | logins, requests and heartbeat loops | extends `Settings` |
| `MasterEvents` | OnTimer of an MT5 master in phases against its broker | |
| `Mt4Events` | OnTimer of an MT4 master, order by order | |
| `SlaveCopier`, `MCSlaveCopier` | the slave EA against its broker | |
| `*_proofs` | theorems about the module of that name | |

**EventChannel** has the number `last` of the newest push, the `stored`
snapshot, what each replaying thread `held`, and a FIFO `chan` per slave. Any
line may miss any slave. A stored snapshot may be replayed by a thread that read
it at any earlier time: that is all the code promises, and `CopyPath` shows what
it costs.

**SnapshotFanout** cuts push_local_event where another thread may intervene:
`PushLocalEvent` (entry), `PushCheck` (toggle, role: B 314-322), `PushRecheck`
(role again: 323), `PushSend` (broadcast under `sessions_mutex_`: 329),
`PushStore` (331). `ReplayCheck`, `ReplayRead`, `ReplaySend` do the same for
broadcast_last_snapshot_to_tcp_if_effective, run by the handler of a new session
(`Connect`, `OnNewSession` takes the callback mutex) and by HTTP threads
(`ToggleTcp`, `PutRole`, `DeleteConfig`, `DisconnectAll`).
`SendReadyNotification` is the EA thread logging in another account. A line
carries only its kind and the number of its push. `holder` is the callback
mutex; the other mutexes are the atomicity of actions. `due`, `got` and `seen`
are history variables: they guard no action.

**CopyPath** replaces the DLL by an instance of the channel. The master reports
placed (`PushPlaced`), and what vanished (`ReportVanished`): once, with a closed
event if the history shows the deal in that very scan, in silence if not. It sends
snapshots when the gate allows (`PushSnapshot`, `StoreSnapshot`, `Collect`); a
position dropped in silence that is in the last snapshot leaves it `Wedged`.
`HandleCommand` takes the tickets for which the broker or the in-flight guard
refuses what is asked as a parameter. `Simplify` is
simplify_event_json for the fields that matter here: it drops session and seq,
so `OrderGate` (M 1454-1468) lets every snapshot pass. `copy` remembers which
push opened a copy. Orders, modifications and what identifies a copy are in
`SlaveCopier`.

**TcpSessions** gives each connection the handler thread that
handle_client_with_session runs, with its local socket number. `owner` says
which connection a number stands for now: broadcast_to_all,
disconnect_all_clients and stop close numbers under a handler that goes on using
them, and `Accept` may get a freed number again. A select on a closed number
fails, which the code takes for a timeout. `GenerateSessionId` may give handlers
that draw at the same time the same key, since they share one generator without
a lock. Lines of peers are numbers; a line may or may not hold a command. The
queue is CommandQueue, `polled` what the EA took last. `shared` (an older
handler has the same number) and `twins` (drew the key of another) mark the two
gaps; properties except those connections.

**ConfigClients** has a program counter and the configuration read (`cfg`) for
each thread; one action per access under a lock or to the file. `bridge` steps
through BridgeServer::stop (loop joined, clients dropped, the rest) and init,
while requests go on. A file may not open or be left empty (`SaveFile`), and may
not go away (`DeleteFile`, in delete_config and in the purge of other accounts'
files); nobody looks at that, and the next load brings back what is still there.
Three history flags mark the code's gaps: `raced` (the last writer overlapped a
thread that still acts on an earlier read), `unsaved` (the last save or deletion
did not succeed) and `late` (a request was at work after stop had dropped the
clients).

**SlaveConverter** is a set of operators on records of the fields a trade has:
`convert_symbol`, `convert_volume`, `convert_command` with the swap of stops,
`simplify_event_json`, `SnapshotEntry`. A symbol is a sequence of parts, a
volume counts hundred-thousandths of a lot, and rounding is modelled by what
std::round does.

**Settings** models the three parsers (`parse_config_json` into a fresh
configuration, `parse_config_json_merge` over an old one, the loader of the
file) and the two writers (memory to JSON, with operator<<'s six digits:
`Printed`), `validate_config`, `set_config` and deletion, each with a file that
may fail. `Config` is the type of AccountConfig, `IsConfigJson` what a JSON object
may hold under the keys of it: a value of the field's type or null. Where a parser
expects one of some words, it takes an empty one for the default (`GetWord`: A
242-244, 301-303; B 1177-1179). **SettingsStore** states the promise without JSON:
a request changes the fields it names, null means the default, and so does an
empty lot type or action, a master has no address, a restart finds what was saved.

**HeartbeatService** adds the EA thread that logs accounts in (read the role,
then start with the port), stops and restarts, a request in three steps (store,
ask which account is logged in, set the port), and heartbeat loops that copy
account and port under the lock and read the settings later. stop gives a
sleeping loop up; a start within ten seconds keeps it alive next to its own, and
a stop may then leave both. The number of `Loops` is a bound on starts: one that
needs a loop waits while all of them live. `overtaken` and `wrongPort` mark the
gaps.

**MasterEvents** has OnTimer as phases: `ScanPositions` and `ScanOrders` (the
two listings and the events placed and modified), `ReportVanished` (tickets not
seen, with or without proof), the gate (`EmitSnapshot`, `SkipSnapshot`), and
`CollectOpenPositionTickets` after the push returns. The broker moves between
phases, so an order that fills between the listings is in neither. A filled
order becomes the position of the same number. The history may show a deal late,
the closing one and the opening one alike (`hidden`, `MayHide`, `HistoryShows`):
without its opening deal the position of a filled order is taken for a new one
(`PendingOpened`), and without its closing deal a position is dropped in silence.

**Mt4Events** visits orders one by one (`ListOrder`, with the cases `ListNew`,
`ListRest`, `ListKnown`), since the broker may act between two visits. A partial
close replaces an order by one with a new ticket (`ClosePart`): `parent` is what
the new comment says ("from #"), and a replaced order's own comment becomes "to
#", so that its parent is forgotten (`CommentParent`).
`GetUltimateMasterTicket` follows first what is registered (`named`), then
comments. `ReportVanished` is the loop over g_orderStates, with the search for a
rest among listed orders and in the history (`PartlyClosed`). `blank` is a
terminal that is connected and does not list its orders yet. `astray` marks
orders with an ancestor that was replaced before the EA listed it, `blind` a
scan that met a blank terminal.

**SlaveCopier** has one broker and one configuration. Operators such as
`HandleCreate` and `HandleCancel` give the set of states a handler may lead to
(the broker may refuse, execute although OrderSend fails, or list later what it
opened); `Command` runs one command; a snapshot is taken as `snapshot` and
executed in the six loops of HandleReconcileSnapshot, one ticket or copy per
`Visit`, with broker and master moving in between; `Reload` loads the EA again.
HandleCreate is cut between its two listings (M 614-620 and 621-629):
`HandleCreate` finds no position and leaves the copy in `creating`,
`FinishCreate` looks for orders and at the in-flight list and sends; meanwhile the
EA does nothing else, but an order may fill. `Faults` switches on timeouts,
reloads, and whatever hides a copy in that gap. `unseen` holds tickets with a copy
that was sent without an in-flight mark, lost it before it was listed, or became
a listed position just in the gap, with no mark left.

## 3. Runs

| run | shows | result |
|---|---|---|
| `fanout` | `FreshInOrder`: a slave reads first sendings once and in order of the pushes; `NewSessionBaseline`: a session past its callback was sent a snapshot as new as the one stored when it registered, unless toggle or role were withdrawn; `ImplementsChannel`: refinement of `EventChannel` | holds |
| `copy_liveness` | `EventuallyNoPhantoms`: once a link stays up, copies of closed positions go, although closed events were lost or never sent and old snapshots replayed, unless the gate is wedged | holds |
| `copy_stale` | `StaleSnapshotNeverCloses` (M 56-58) | violated |
| `master_events` | `OneLifePerTicket`: no ticket closed twice, or placed or modified after its close, and none placed twice but a filled order whose opening deal the history does not show; `GoneIsTold`: slaves learn of each disappearance, unless the gate is wedged | holds |
| `master_wedged` | `SnapshotsGoOn` (M 371-372) | violated |
| `mt4_events` | `ToldAsOne`: a chain of partial closes is told under its first ticket, in events and snapshots; `ClosedIsOver`: a close is told only when nothing of the chain is left; `EndIsSeen`: in the end a snapshot lists nothing of a chain that is over | holds |
| `config_clients` | `NoWrongMaster`; `FileMatchesMemory`: between requests the file holds what memory holds, unless writers overlapped or the file could not be written or deleted; `StoppedIsDisconnected`; `EventuallyConnected` | holds |
| `tcp_sessions` | `CommandsInOrder`: the EA polls a peer's lines once and in order; `RepliesAreOwn`; `SessionsMatchHandlers`; `HandlersEnd`: a handler whose peer is gone or whose server has stopped ends | holds |
| `heartbeat` | `ImplementsStore`: refinement of `SettingsStore`; `EveryCopyIsPlaceable`, `EverySnapshotConfirms`: for all reachable settings, what a broker takes from the master it can take from the slave, and the snapshot converts as the events do; `PortMatchesRole`; `EventuallyTold`: messages come to tell the truth about the account that is logged in; `LoopsEnd`: a final stop ends all loops, also two of them | holds |
| `slave_copier` | `OneCopyUnlessUnseen`: at most one copy of a ticket, unless HandleCreate could not see one; `KeepsWhatMasterHas`: a snapshot closes no copy on the right side of a ticket it contains | holds |
| `slave_gone` | `GoneForGood`: copies of a ticket that is gone disappear and stay away, also those that a timeout or a reload doubled | holds |
| `slave_duplicate` | `NoDuplicateCopy` (M 71-73) | violated |

Each passing run also checks the `TypeOK` of its module (`slave_gone` leaves it
to `slave_copier`). The three violated runs are disagreements between code and
comment:

* **copy_stale.** The slave's order gate compares session and seq, and
  simplify_event_json removes both. A new session makes the DLL replay the
  stored snapshot to *every* slave; a position opened since then is not in it
  and is closed. The next snapshot opens it again only while it is young.
* **master_wedged.** RemoveOrderState runs also for a vanished position whose
  deal was not found. Nobody looks for it again, it never enters
  `g_reportedDeals`, and as long as it is in `g_lastSnapshotOpenTickets` the gate
  sends nothing, until the EA is initialised anew.
* **slave_duplicate.** HandleModify deletes and re-sends a pending order without
  marking it in flight. Before the terminal lists the new one, a snapshot places
  another.

**Bounds, and why they are enough.**
`fanout`: two slaves (interchangeable; no liveness), because the callback mutex
is contended only by two; one HTTP thread; two pushes, so that there is a newer
snapshot to store and a replay read before a push can be sent after it; two
lines under way (`FewLines` on both links together). The proofs cover any
numbers. `copy_liveness`: the numbers of pushes saturate at two, so the run is
finite without stopping the pushes, which liveness needs (what is compared there
is only whether a line has a stamp); a young and an old life of one ticket, two
lines in flight, a stale one and a later one.
`copy_stale` needs three distinct numbers: a snapshot, a placed, and a later
one. `master_events`: two tickets, so that one may be wedged while the other
moves. `mt4_events`: three tickets are a chain of two partial closes, the
shortest in which the middle order's ancestry is overwritten, or a chain and an
order beside it. `slave_copier`: one ticket, and room for two copies, one more
than there should be; two sides and two volumes give each of the fixes something
to do. Tickets share only the room and the snapshot, and no handler compares one
with another. `slave_gone` has one side, because there the numbers of copies
cannot be taken for interchangeable (it checks liveness). `config_clients`: one
HTTP thread next to the EA thread and the maintenance loop, all readers of a
stale configuration there are; two URLs, to tell the wrong master from the right
one. `slave_copier` has all three faults, `slave_duplicate` none, so that its
violation is HandleModify's. `tcp_sessions`: two connections and two numbers, so that the second may
have the first one's number or another; two lines, so that there is an order.
`heartbeat`: the account that the settings are about and another one, two loops
(the old one and the new one), and bodies that name each field in turn and some
together, or leave words empty; a multiplier of zero, and numbers with a digit
more than the file holds; trades of each side and type with none, one or both stops.

`heartbeat` has a CONSTRAINT, `Bound`: rich settings are followed only while
nobody is logged in, since what they do to a copy does not depend on it, and a
bridge whose terminal is disconnected is left while no login or request is under
way, and so is one with two loops where a login and a request overtake each other.
A behaviour that the constraint cuts is not looked at by the temporal
properties: `EventuallyTold` and `LoopsEnd` are shown for behaviours that stay
within it. `FewLines` cuts states with more lines on both links; there are no
liveness properties in that run. Every run is checked for deadlock.

**Fairness.** `CopyPath`, `MasterEvents` and `Mt4Events`: OnTimer is called every
250 ms and always returns, so its phases are weakly fair; the snapshot is due
only every 5 s and is possible only in one phase, so it is strongly fair. A
thread that read the stored snapshot sends it. A slave's timer empties its
queue. The history shows a deal in the end (`HistoryShows`), but nothing says that
the one scan that looks for it finds it: in `CopyPath` strong fairness of
`ReportVanished` is met by dropping the ticket. No ticket is refused for ever by a
slave's broker. Nobody is obliged to trade, connect, toggle, or lose a
line. `SlaveCopier`: a snapshot comes every 5 s and its loops end; what the
broker opened gets listed; a close is not refused for ever. `ConfigClients`: a
handler that has started ends (no lock is held for ever); the loop wakes every
5 s, strongly fair because a request may disable it just when it wakes; nothing
obliges the bridge to stop or start. `TcpSessions`: a handler thread runs on
(each of its waits has a timeout); peers, the EA and stop are not obliged to
anything. `HeartbeatService`: logins and requests that have begun go on and a
loop sleeps at most ten seconds. `SnapshotFanout` assumes none.

## 4. Theorems

Each from the named assumptions about the constants of its module, which TLC
evaluates in the runs.

* `SnapshotFanout_proofs`: `FanoutTypes`, `FanoutOrder` (`FreshInOrder`),
  `FanoutBaseline` (`NewSessionBaseline`), `FanoutIsChannel`
  (`ImplementsChannel`). FreshInOrder alone is not inductive: a push would have
  to be newer than what it queues behind. `NotAhead` adds that neither what a
  slave has read nor a line under way is newer than the last push that is sent
  or abandoned. `BInv` says what is owed on the way: at most what is stored,
  nothing while toggle or role are withdrawn, and a handler about to send holds
  what it owes. For the refinement each step maps to a channel step or a
  stutter: a push becomes the channel's when it is sent or given up.
* `ConfigClients_proofs`: `ConfigTypes`, `ConfigStops`
  (`StoppedIsDisconnected`), `ConfigFollowed` (`NoWrongMaster`), `ConfigSaved`
  (`FileMatchesMemory`). `TInv` adds to the types where the maintenance loop may
  be and that what it holds wants a client; `SInv` that the EA thread waits in
  stop, that the loop is joined when the clients go, and that no request is at
  work that is not marked late. `Ordered` is what holds unless `raced`: readers
  agree with memory, loaders find nothing there and have what is in the file
  (`LoadedIsFile`), the client follows and the file agrees.
* `CopyPath_proofs`: `CopyPathTypes`, and `CopyPathOnChannel`: on the lines
  between the terminals every behaviour is one of `EventChannel`, which by
  `FanoutIsChannel` is what the DLL provides.
* `TcpSessions_proofs`: `SessionTypes`, `SessionsServedByHandlers`
  (`SessionsMatchHandlers`), `TcpReplies` (`RepliesAreOwn`), `TcpCommands`
  (`CommandsInOrder`). `KeysApart`: only
  twins have equal keys; `SessionsServed`: a session is stored under the key of
  its handler, which has not ended; `ServedFound`: a handler that serves an
  intact connection is the one its key finds; `HasSock`. For the replies: who
  answers a connection is its own handler or one that shares the number
  (`SharedNumbers`), and what a handler is about to answer is later than what it
  has answered and earlier than what waits (`NotYet`, `InOrder`). For the
  commands `CommandsKept` orders the whole way of a line: polled, queued, about to
  be queued, in the handler's buffer, in the inbox, not yet sent.
* `MasterEvents_proofs`: `MasterTypes`, `MasterOneLife` (`OneLifePerTicket`).
  What the slaves were told is in the EA's arrays (`ToldIsReported`), what was
  told closed is over at the broker (`ClosedIsOver`).
* `Mt4Events_proofs`: `Mt4Types`, `Mt4ToldAsOne` (`ToldAsOne`),
  `Mt4ClosedIsOver` (`ClosedIsOver`), for chains of any length. Two functions of
  the model are recursive: `Root` (by `parent`) and `GetUltimateMasterTicket` (by
  what is `named`, then by comments). Both lead from a ticket to a smaller one;
  `LeastElement` (every set of tickets that is not empty has a least one) stands
  in for induction: `EndsExist` shows by a least counterexample that such a
  function exists up to every ticket, and `RootEnds`, `UltimateEnds` say that the
  model's functions satisfy their equations. Then `Chains` (a parent is older and over when its
  rest is there), `NamedDownward`, `NamedByRoot` (what is registered leads to the
  first ticket unless it is astray) and `SeenInTime` make `ToldAsOne` inductive;
  `DraftInTime` and `ScanComplete` say what a scan has and has not listed, from
  which a close is told of a chain that is over.
* `SlaveCopier_proofs`: `CopierTypes`, `CopierOneCopy`
  (`OneCopyUnlessUnseen`), `CopierKeeps` (`KeepsWhatMasterHas`). A ticket that
  is not unseen has at most one copy, and one that is not listed is in flight
  (`Fine`). `Clear` is what the first listing leaves for the second: while a copy is
  about to be sent, a copy of the same ticket is unseen, in flight or an order.
  Lemmas say that every handler leads from fine states to fine ones, for any
  outcome of the broker.
* `HeartbeatService_proofs`, the service: `HeartbeatPort` (`PortMatchesRole`),
  `HeartbeatTypes` (`TypeOK`). What a login or a request is about to set fits the
  settings unless it is overtaken (`LoginKnows`, `RequestKnows`), and between them
  the port does (`PortHolds`). The types need that a login under way has an
  account and that callbacks are set where there is a loop (`LoopsKnow`).
* The settings: `HeartbeatSettings` (`ImplementsStore`). `SettingsInv`: what is in
  memory is `Kept` (typed, valid, a master without an address), and the file is
  what `config_to_json` makes of something kept. `ParsedWritten` reads back every
  field but the digits beyond six; `MergedWithNone` shows that the parser for new
  settings is the merging one over the defaults, `ChangedMeans` that the latter
  with `set_config` is the store's `Changed`. Each step then is an `Update`, a
  `Clear`, a `Recall` or a stutter of the store. `ReadBackIsStable`: a second
  saving loses nothing more.
* The converter: `HeartbeatCopies` (`EveryCopyIsPlaceable` and, for every state,
  `CopiesStayPlaceable`), `HeartbeatSnapshots` (`EverySnapshotConfirms`,
  `SnapshotConfirmsEvents`), `VolumeIsRounded`, `ReversedTwice`. `Fate` says what
  becomes of a field; `ConvertedFields` that it does not depend on the message
  that brings it, so that events and snapshot agree. It needs both stops in the
  message (`IsTrade`, as the EAs write them): with one of them the reversal
  inserts the other key with its value.

In these, numbers of threads, slaves, tickets, copies, sockets and masters are
arbitrary, and so are bodies of requests, settings and trades of the types that
the assumptions name (`NullAssumption`, `BodiesAssumption`, `TradesAssumption`).

Stating `Placeable` for all prices showed that a first form of it, which took a
stop at the very price for a legal one, is not kept by a reversal; it asks for
stops strictly beyond the price now, as brokers do.

Every invariant and refinement that a run checks is proved. Only model-checked is
liveness: `EventuallyNoPhantoms`, `GoneIsTold`, `EndIsSeen`,
`EventuallyConnected`, `HandlersEnd`, `EventuallyTold`, `LoopsEnd` and
`GoneForGood`, whose reasoning under fairness is out of the prover's reach.

## 5. What is left out

* A slave has one session at a time in `SnapshotFanout`, and connects again when
  the old line is drained or lost. Partial sends and incomplete lines, port
  numbers and the search for a free port are not modelled.
* Prices and stops in the EA modules, and what identifies a copy: it knows its
  master ticket. Partial closes ("from #" tickets) in MT5, copies of other
  masters, `exact_match`, and the MT4 EA as slave are left out.
* In `Mt4Events`: symbols, comments that are numbers, 200 or more orders closed
  between two scans, and that the search for "from #12" also finds "from #123".
* Commands in `SlaveCopier` are made from the present state of the master; late
  and lost lines are the subject of `CopyPath`.
* Time: the 30 s in-flight grace and the age limit are choices, not clocks. The
  grace is assumed longer than the terminal needs to list an order. The
  age_seconds in a stored snapshot is text that grows old with it.
* Text: characters that JSON escapes, keys with a blank before the colon, the
  flat keys `prefix_enabled` etc. that only one parser knows.
* Local event poster: nothing calls its enqueue in this version, so that its
  worker only waits. Metrics read counters. HTTP parsing, authorisation,
  encryption and the DLL's entry points keep no state of their own.

**Further disagreements and oddities**, seen while modelling, for which there is
no run:

* MT5: the position of a filled order whose opening deal the history shows late is
  told "placed" a second time (M 2122-2123). Of a pending copy that fills between
  HandleCreate's two listings, after its in-flight mark expired, a second one is
  opened (M 614-629). `OneLifePerTicket` and `OneCopyUnlessUnseen` except these.
* A deletion whose DeleteFileA fails (A 93, B 371) is answered as if it had
  succeeded; the next request or start brings the settings back.
* A configuration that is deleted between the maintenance loop's read and its
  lock (B 1968, 2041) leaves a client that nothing removes: later rounds visit
  only configured accounts. `NoWrongMaster` excepts it (`raced`).
* tcp_slave_handshake.md:17-22 describes a JSON handshake with the slave's
  login; C 60-62 and 194 send the master's account id as a plain line.
  reconcile_snapshot_payload.md:32 and 47 let the DLL add lot_multiplier and
  fixed_lot to a snapshot, which S 109-118 does not.
* Heartbeats: where master_tcp_url is null, extract_json_str finds the next
  quoted text, the key lot_type. An account without a configuration is told to
  be a master. unified_events_api.md:24 promises a null URL for slaves; when a
  login and a PUT overtake each other the port of the old role is told
  (`wrongPort`).
* MT4: a vanished order that the history does not know is told "closed" (F
  2602-2610), so that a terminal that lists nothing for a moment closes the
  slaves' copies; the comment at F 334 ("vanished without trace -> not real yet")
  holds for snapshots only. Two partial closes between two scans, or before a
  restart, hide the middle order's ancestry: the rest is told under a ticket the
  slaves do not have (`astray`). The snapshot goes over the orders twice, so an
  order that fills in between is in neither list; MT5 does the same.

## 6. Plan

Done: the fan-out with its channel, the copy path, both masters, the MT5 slave,
clients, TCP sessions with the command queue, settings with their store,
converter and heartbeats; proofs of all their safety properties and refinements.

Left, to model:
1. The MT4 slave: `SlaveCopier` with one pool of orders, tickets that change at
   partial closes, and its own lookups (F 1242-1778, 2048-2253).
2. Partial closes in MT5 (`ExtractParentTicketFromComment` in M), with the chain
   of `Mt4Events` as a pattern.
3. A clock for ages and the in-flight grace in `CopyPath` and `SlaveCopier`.
4. The command queue in `ConfigClients`: what happens to commands queued before
   the toggle or the role changed; two overlapping requests.

Left, to prove: facts that carry the liveness properties without being liveness
(who can block a scan's gate, that a handler whose peer is gone has a step that
ends it); that `GetUltimateMasterTicket` leads every order of a chain to one
ticket even when the chain is astray; a bound on how old a snapshot can be that
`CopyPath` lets a slave act on.
