---------------------------- MODULE SlaveCopier ----------------------------
(***************************************************************************)
(* The EA of a slave terminal (IPTRADE.mq5): the commands create, modify,  *)
(* cancel and reconcile_snapshot against a broker that may refuse them,    *)
(* fill orders at any time, and show what it opened only after a while.    *)
(*                                                                         *)
(* A copy carries its master ticket in magic and comment.  Commands are    *)
(* built from what the master has when they are taken: late, lost and      *)
(* stale lines are CopyPath's subject.  A snapshot is executed in the six  *)
(* loops of HandleReconcileSnapshot, and the broker acts in between.  So   *)
(* it does between the two listings that HandleCreate makes, positions     *)
(* first.                                                                  *)
(* Prices and stops, partial closes, positions that are no copies          *)
(* (exact_match, other EAs) and a slave ticket equal to a master ticket    *)
(* are left out.                                                           *)
(***************************************************************************)
EXTENDS Naturals, FiniteSets

CONSTANTS
    Tickets,     \* tickets of the master
    Ids,         \* the slave's positions and orders have different numbers
    Sides,       \* symbol and side a copy should have under a configuration
    Volumes,     \* normalised volumes
    Faults       \* "timeout": OrderSend fails although the broker executes;
                 \* "reload": the EA is loaded again; "gap": an order fills, or a
                 \* mark expires, between the two listings of HandleCreate

ASSUME CopierAssumption ==
    /\ Volumes \subseteq Nat \ {0} /\ Tickets \cap Ids = {}
    /\ Faults \subseteq {"timeout", "reload", "gap"}

NoCopy == [kind |-> "none"]
Copy == [kind : {"position", "order"}, of : Tickets, side : Sides,
         volume : Volumes, shown : BOOLEAN]

\* "young": a position of at most MARKET_ORDER_MAX_AGE_SEC.
States == {"none", "pending", "young", "old", "gone"}

VARIABLES
    master,    \* what a command says of each ticket: its state, the volume and
               \* the side that the slave's configuration makes of it
    live,      \* what the slave's broker holds
    inflight,  \* g_inflightOpenTickets, entries younger than the grace period
    unseen,    \* history: tickets with a copy that HandleCreate may overlook: it
               \* was sent, or not listed yet, without a mark in
               \* g_inflightOpenTickets, or it moved between the two listings
    creating,  \* the copy HandleCreate is about to send: the positions are
               \* listed, the orders are not
    created,   \* tickets whose create command was taken; it is sent once
    phase,     \* loop of HandleReconcileSnapshot, "idle" outside of it
    snapshot,  \* the snapshot being executed
    todo       \* what the running loop has not visited yet

slaveVars == <<live, inflight, unseen, creating>>
vars == <<master, slaveVars, created, phase, snapshot, todo>>

View == [state : [Tickets -> States], volume : [Tickets -> Volumes], side : Sides]
Loops == {"close", "delete", "open", "place", "fix", "refit"}

TypeOK ==
    /\ master \in View
    /\ live \in [Ids -> Copy \cup {NoCopy}]
    /\ inflight \in SUBSET Tickets
    /\ unseen \in SUBSET Tickets
    /\ creating \in {{}} \cup {{copy} : copy \in Copy}
    /\ created \in SUBSET Tickets
    /\ phase \in {"idle"} \cup Loops
    /\ snapshot \in {{}} \cup {{v} : v \in View}
    /\ todo \in SUBSET (Tickets \cup Ids)

Init ==
    /\ master \in {v \in View : \A t \in Tickets : v.state[t] = "none"}
    /\ live = [id \in Ids |-> NoCopy]
    /\ inflight = {}
    /\ unseen = {}
    /\ creating = {}
    /\ created = {}
    /\ phase = "idle"
    /\ snapshot = {}
    /\ todo = {}

-----------------------------------------------------------------------------
(* The operators below are the sets of states [live, inflight, unseen,     *)
(* creating] that the EA's calls may lead to from a state st.              *)

Slave == [live |-> live, inflight |-> inflight, unseen |-> unseen,
          creating |-> creating]

Becomes(outcomes) ==
    \E st \in outcomes :
        /\ live' = st.live
        /\ inflight' = st.inflight
        /\ unseen' = st.unseen
        /\ creating' = st.creating

\* The copies of t that the terminal lists (PositionsTotal, OrdersTotal).
Shown(st, kind, t) ==
    {id \in Ids : st.live[id].kind = kind /\ st.live[id].of = t /\ st.live[id].shown}

Known(st, t) == Shown(st, "position", t) \cup Shown(st, "order", t) # {}

\* HandleCreate has listed the positions and not yet the orders for a copy of t.
Between(t) == \E copy \in creating : copy.of = t

Without(st, S) ==
    [st EXCEPT !.live = [id \in Ids |-> IF id \in S THEN NoCopy ELSE st.live[id]]]

\* A successful OrderSend: the copy is listed at once or later.
Opened(st, copy) ==
    LET free == {id \in Ids : st.live[id] = NoCopy}
        slot == CHOOSE id \in free : TRUE
    IN  IF free = {} THEN {}
        ELSE {[st EXCEPT !.live[slot] = [copy EXCEPT !.shown = b]] : b \in BOOLEAN}

\* OrderSend times out, but the order is executed: the mark is taken away.
TimedOut(st, copy) ==
    IF "timeout" \in Faults
    THEN Opened([st EXCEPT !.unseen = @ \cup {copy.of}], copy) ELSE {}

\* Mutant of NewCopy: the volume is rounded down below the smallest lot.
NewCopyRoundedDown(kind, t, view) ==
    [kind |-> kind, of |-> t, side |-> view.side, volume |-> view.volume[t] - 1,
     shown |-> FALSE]

NewCopy(kind, t, view) ==
    [kind |-> kind, of |-> t, side |-> view.side, volume |-> view.volume[t],
     shown |-> FALSE]

\* HandleCreate up to the first listing: nothing for a ticket that has a position
\* or is too old.
HandleCreate(st, t, view) ==
    LET kind == IF view.state[t] = "pending" THEN "order" ELSE "position"
    IN  IF Shown(st, "position", t) # {} \/ view.state[t] \notin {"pending", "young"}
        THEN {st}
        ELSE {[st EXCEPT !.creating = {NewCopy(kind, t, view)}]}

\* Mutant of SendCreate: the ticket is not claimed before OrderSend.
SendUnclaimed(st, copy) ==
    IF Shown(st, "order", copy.of) # {} \/ copy.of \in st.inflight THEN {st}
    ELSE {st} \cup Opened(st, copy)

\* The rest of HandleCreate: nothing for a ticket that has an order or is in
\* flight; MarkInflightOpen before OrderSend, UnmarkInflightOpen when it fails.
SendCreate(st, copy) ==
    IF Shown(st, "order", copy.of) # {} \/ copy.of \in st.inflight THEN {st}
    ELSE {st} \cup Opened([st EXCEPT !.inflight = @ \cup {copy.of}], copy)
              \cup TimedOut(st, copy)

\* Mutant of HandleCancel: pending orders are not looked for.
CancelPosition(st, t) ==
    {st} \cup {Without(st, {id}) : id \in Shown(st, "position", t)}

\* What a command with t selects: the copies that are positions, else the orders.
Addressed(st, t) ==
    LET positions == Shown(st, "position", t)
    IN  IF positions # {} THEN positions ELSE Shown(st, "order", t)

\* HandleCancel: one of them is closed or deleted.
HandleCancel(st, t) ==
    {st} \cup {Without(st, {id}) : id \in Addressed(st, t)}

\* A pending order is deleted and sent again with the new volume, else with the
\* old one, else it is lost; none of these sends is marked in flight.  After a
\* timeout the old one is sent although the new one is there.
Recreated(st, id, v) ==
    LET old == st.live[id]
        deleted == [Without(st, {id}) EXCEPT !.unseen = @ \cup {old.of}]
        new == [old EXCEPT !.volume = v]
    IN  {st, deleted} \cup Opened(deleted, new) \cup Opened(deleted, old)
            \cup UNION {Opened(both, old) : both \in TimedOut(deleted, new)}

\* A position can only be closed in part, never be enlarged.
Shrunk(st, id, v) ==
    IF v < st.live[id].volume THEN {[st EXCEPT !.live[id].volume = v]} ELSE {}

HandleModify(st, t, v) ==
    {st} \cup UNION {IF st.live[id].kind = "position" THEN Shrunk(st, id, v)
                     ELSE IF v # st.live[id].volume THEN Recreated(st, id, v) ELSE {}
                     : id \in Addressed(st, t)}

-----------------------------------------------------------------------------
(* The loops of HandleReconcileSnapshot.                                   *)

IsPosition(view, t) == view.state[t] \in {"young", "old"}
IsPending(view, t) == view.state[t] = "pending"

\* Mutant of Absent: each list is compared with its own half of the snapshot.
AbsentFromOwnList(id, kind, view) ==
    IF live[id].kind = kind /\ live[id].shown
    THEN LET t == live[id].of
         IN  IF IF kind = "position" THEN IsPosition(view, t) ELSE IsPending(view, t)
             THEN {Slave} ELSE HandleCancel(Slave, t)
    ELSE {Slave}

\* Loops over what the terminal lists: what the snapshot lacks is cancelled.
Absent(id, kind, view) ==
    IF live[id].kind = kind /\ live[id].shown
    THEN LET t == live[id].of
         IN  IF IsPosition(view, t) \/ IsPending(view, t) THEN {Slave}
             ELSE HandleCancel(Slave, t)
    ELSE {Slave}

\* Loops over what the snapshot lists: what the slave lacks is created.
Missing(t, loop, view) ==
    IF \/ loop = "open" /\ IsPosition(view, t) /\ Shown(Slave, "position", t) = {}
       \/ loop = "place" /\ IsPending(view, t) /\ ~Known(Slave, t)
    THEN HandleCreate(Slave, t, view)
    ELSE {Slave}

\* Another side or symbol: the positions are closed, until one close fails, and
\* one is opened anew.
Fixed(t, view) ==
    LET mine == Shown(Slave, "position", t)
        wrong == {id \in mine : live[id].side # view.side}
    IN  IF ~IsPosition(view, t) THEN {Slave}
        ELSE (IF wrong # {}
              THEN UNION {HandleCreate(Without(Slave, S), t, view) : S \in SUBSET mine}
              ELSE {})
             \cup (IF mine \ wrong # {} THEN HandleModify(Slave, t, view.volume[t]) ELSE {})
             \cup (IF mine = {} THEN {Slave} ELSE {})

\* Another side or type: the order is cancelled and placed anew.
Refitted(t, view) ==
    LET mine == Shown(Slave, "order", t)
        wrong == {id \in mine : live[id].side # view.side}
    IN  IF ~IsPending(view, t) THEN {Slave}
        ELSE (IF wrong # {}
              THEN UNION {HandleCreate(st, t, view) : st \in HandleCancel(Slave, t)}
              ELSE {})
             \cup (IF mine \ wrong # {} THEN HandleModify(Slave, t, view.volume[t]) ELSE {})
             \cup (IF mine = {} THEN {Slave} ELSE {})

\* The running loop visits x.
Outcomes(x, view) ==
    CASE phase = "close" -> Absent(x, "position", view)
      [] phase = "delete" -> Absent(x, "order", view)
      [] phase \in {"open", "place"} -> Missing(x, phase, view)
      [] phase = "fix" -> Fixed(x, view)
      [] phase = "refit" -> Refitted(x, view)

After == [close |-> "delete", delete |-> "open", open |-> "place", place |-> "fix",
          fix |-> "refit", refit |-> "idle"]

-----------------------------------------------------------------------------
(* The master, the configuration and the slave's broker.                   *)

MasterMoves == {<<"none", "pending">>, <<"none", "young">>, <<"pending", "young">>,
                <<"pending", "gone">>, <<"young", "old">>, <<"young", "gone">>,
                <<"old", "gone">>}

MasterTrades(t) ==
    /\ \E move \in MasterMoves : /\ master.state[t] = move[1]
                                 /\ master' = [master EXCEPT !.state[t] = move[2]]
    /\ UNCHANGED <<slaveVars, created, phase, snapshot, todo>>

\* The master changes the volume, or the slave's lot settings change.
VolumeChanges(t) ==
    /\ \E v \in Volumes \ {master.volume[t]} : master' = [master EXCEPT !.volume[t] = v]
    /\ UNCHANGED <<slaveVars, created, phase, snapshot, todo>>

\* reverse_trading or the symbol translation changes.
SideChanges ==
    /\ \E s \in Sides \ {master.side} : master' = [master EXCEPT !.side = s]
    /\ UNCHANGED <<slaveVars, created, phase, snapshot, todo>>

BrokerFrame == UNCHANGED <<master, inflight, creating, created, phase, snapshot, todo>>

\* The terminal lists what the broker opened.
Show(id) ==
    /\ live[id] # NoCopy /\ ~live[id].shown
    /\ live' = [live EXCEPT ![id].shown = TRUE]
    /\ UNCHANGED unseen /\ BrokerFrame

\* A pending order is filled; the position keeps magic and comment.  Between the
\* two listings it is in neither.
Fill(id) ==
    LET t == live[id].of
    IN  /\ live[id].kind = "order"
        /\ Between(t) => "gap" \in Faults
        /\ live' = [live EXCEPT ![id].kind = "position"]
        /\ unseen' = IF Between(t) /\ t \notin inflight THEN unseen \cup {t} ELSE unseen
        /\ BrokerFrame

\* Stop loss, take profit, expiration.
BrokerCloses(id) ==
    /\ live[id] # NoCopy
    /\ live' = [live EXCEPT ![id] = NoCopy]
    /\ UNCHANGED unseen /\ BrokerFrame

\* COPY_INFLIGHT_GRACE_SEC is over; by then the terminal lists what was opened,
\* but HandleCreate may have listed the positions before that.
InflightExpires(t) ==
    LET copies == {id \in Ids : live[id] # NoCopy /\ live[id].of = t}
    IN  /\ t \in inflight
        /\ \A id \in copies : live[id].shown
        /\ Between(t) => "gap" \in Faults
        /\ inflight' = inflight \ {t}
        /\ unseen' = IF Between(t) /\ \E id \in copies : live[id].kind = "position"
                     THEN unseen \cup {t} ELSE unseen
        /\ UNCHANGED <<master, live, creating, created, phase, snapshot, todo>>

\* OnInit, ReinitializeForAccountChange: ReconcileInitialState forgets the marks.
Reload ==
    /\ "reload" \in Faults /\ phase = "idle" /\ creating = {} /\ inflight # {}
    /\ inflight' = {}
    /\ unseen' = unseen \cup {live[id].of : id \in {i \in Ids :
                                     live[i] # NoCopy /\ ~live[i].shown}}
    /\ UNCHANGED <<master, live, creating, created, phase, snapshot, todo>>

-----------------------------------------------------------------------------
(* ProcessIncomingCommands.                                                *)

\* HandleCreate lists the orders and goes on.
FinishCreate ==
    /\ \E copy \in creating : Becomes(SendCreate([Slave EXCEPT !.creating = {}], copy))
    /\ UNCHANGED <<master, created, phase, snapshot, todo>>

Command(t) ==
    /\ phase = "idle" /\ creating = {}
    /\ \/ /\ t \notin created /\ master.state[t] # "none"
          /\ created' = created \cup {t}
          /\ Becomes(HandleCreate(Slave, t, master))
       \/ /\ IsPosition(master, t) \/ IsPending(master, t)
          /\ Becomes(HandleModify(Slave, t, master.volume[t]))
          /\ UNCHANGED created
       \/ /\ master.state[t] = "gone"
          /\ Becomes(HandleCancel(Slave, t))
          /\ UNCHANGED created
    /\ UNCHANGED <<master, phase, snapshot, todo>>

StartSnapshot ==
    /\ phase = "idle" /\ creating = {}
    /\ phase' = "close"
    /\ snapshot' = {master}
    /\ todo' = Ids
    /\ UNCHANGED <<master, slaveVars, created>>

Visit(x) ==
    /\ x \in todo /\ creating = {}
    /\ \E view \in snapshot : Becomes(Outcomes(x, view))
    /\ todo' = todo \ {x}
    /\ UNCHANGED <<master, created, phase, snapshot>>

NextLoop ==
    /\ phase # "idle" /\ todo = {} /\ creating = {}
    /\ phase' = After[phase]
    /\ todo' = IF phase' = "delete" THEN Ids ELSE IF phase' = "idle" THEN {} ELSE Tickets
    /\ snapshot' = IF phase' = "idle" THEN {} ELSE snapshot
    /\ UNCHANGED <<master, slaveVars, created>>

-----------------------------------------------------------------------------
Environment ==
    \/ \E t \in Tickets : MasterTrades(t) \/ VolumeChanges(t) \/ InflightExpires(t)
    \/ SideChanges
    \/ \E id \in Ids : Show(id) \/ Fill(id) \/ BrokerCloses(id)

Next ==
    \/ Environment
    \/ \E t \in Tickets : Command(t)
    \/ StartSnapshot \/ Reload \/ FinishCreate
    \/ \E x \in Tickets \cup Ids : Visit(x)
    \/ NextLoop

Spec == Init /\ [][Next]_vars

\* A cancel of the snapshot that the broker does not refuse.
Closes(id) == Visit(id) /\ live'[id] = NoCopy

(***************************************************************************)
(* A snapshot comes every 5 s and is executed to its end; the terminal     *)
(* lists what was opened; the broker does not refuse a close for ever.     *)
(***************************************************************************)
Fairness ==
    /\ WF_vars(StartSnapshot) /\ WF_vars(NextLoop) /\ WF_vars(FinishCreate)
    /\ \A x \in Tickets \cup Ids : WF_vars(Visit(x))
    /\ \A id \in Ids : WF_vars(Show(id)) /\ SF_vars(Closes(id) /\ live[id] # NoCopy)

FairSpec == Spec /\ Fairness

-----------------------------------------------------------------------------
(* Properties.                                                             *)

CopiesOf(t) == {id \in Ids : live[id] # NoCopy /\ live[id].of = t}

\* However create commands, snapshots, cancels, fills and slow listings mix, a
\* master ticket has at most one copy, unless one was sent without a mark, lost its
\* mark to a timeout or a reload before it was listed, or became a listed position
\* with no mark left just between the two listings of HandleCreate (its checks, its
\* in-flight guard, the six loops).
OneCopyUnlessUnseen ==
    \A t \in Tickets \ unseen : Cardinality(CopiesOf(t)) <= 1

\* What a visit of a loop leaves open: positions on the right side of tickets
\* that the snapshot contains.
VisitKeeps ==
    \A x \in Tickets \cup Ids, view \in snapshot, id \in Ids :
       Visit(x) =>
          \/ live[id].kind # "position" \/ live[id].side # view.side
          \/ live[id].of \in unseen
          \/ ~IsPosition(view, live[id].of) /\ ~IsPending(view, live[id].of)
          \/ live'[id] # NoCopy

\* A snapshot closes no position on the right side of a ticket it contains,
\* whatever was filled or opened while it runs (close on absence, the fixes).
KeepsWhatMasterHas == [][VisitKeeps]_vars

\* Every copy of a ticket the master no longer has goes in the end and does not
\* come back, also one that was listed late or filled between two loops.
GoneForGood ==
    \A t \in Tickets : <>[](master.state[t] = "gone") => <>[](CopiesOf(t) = {})

\* IPTRADE.mq5 71-73: a snapshot arriving right after a create "must NOT open a
\* duplicate while the first open is still settling".
NoDuplicateCopy == \A t \in Tickets : Cardinality(CopiesOf(t)) <= 1
=============================================================================
