------------------------ MODULE SlaveCopier_proofs -------------------------
(***************************************************************************)
(* Proofs about SlaveCopier, for any tickets, slave numbers and volumes,   *)
(* with and without the faults.                                            *)
(***************************************************************************)
EXTENDS SlaveCopier, FiniteSetTheorems, TLAPS

-----------------------------------------------------------------------------
(* What the calls of the EA do to the slave.                               *)

\* The states the operators of SlaveCopier work on.
Slaves == [live : [Ids -> Copy \cup {NoCopy}], inflight : SUBSET Tickets,
           unseen : SUBSET Tickets, creating : {{}} \cup {{copy} : copy \in Copy}]

\* The copies of t in a state.
Held(st, t) == {id \in Ids : st.live[id] # NoCopy /\ st.live[id].of = t}

\* A ticket with no copy out of sight has one copy at most, and who has one
\* that is not listed yet is marked as in flight.
Fine(st) ==
    \A t \in Tickets \ st.unseen :
        \A i, j \in Held(st, t) : i = j /\ (st.live[i].shown \/ t \in st.inflight)

Good(st) == st \in Slaves /\ Fine(st)

\* Where HandleCreate has found no position and the ticket is not marked, there is
\* an order at most, which the second listing finds.
Clear(st) ==
    \A copy \in st.creating :
        \/ copy.of \in st.unseen \cup st.inflight
        \/ \A i \in Held(st, copy.of) : st.live[i].kind = "order"

\* A copy has a kind, no copy has none.
LEMMA Kinds ==
    /\ NoCopy \notin Copy
    /\ \A copy \in Copy : copy.kind \in {"position", "order"}
    /\ NoCopy.kind = "none"
BY DEF NoCopy, Copy

\* Copies may go, be listed or change; marks may only be added.
LEMMA KeepFine ==
    ASSUME NEW st, Good(st), NEW new \in Slaves,
           st.unseen \subseteq new.unseen, st.inflight \subseteq new.inflight,
           \A id \in Ids : \/ new.live[id] = NoCopy
                           \/ /\ st.live[id] # NoCopy
                              /\ new.live[id].of = st.live[id].of
                              /\ st.live[id].shown => new.live[id].shown
    PROVE  Good(new)
<1>1. \A t \in Tickets : Held(new, t) \subseteq Held(st, t)
  BY DEF Held
<1>2. \A t \in Tickets : \A i \in Held(new, t) : st.live[i].shown => new.live[i].shown
  BY DEF Held
<1> QED BY <1>1, <1>2 DEF Good, Fine

\* A copy is added for a ticket that has none and is marked, or whose marks say
\* nothing.
LEMMA AddFine ==
    ASSUME NEW st, Good(st), NEW copy \in Copy, NEW slot \in Ids,
           st.live[slot] = NoCopy, NEW new \in Slaves,
           new.live = [st.live EXCEPT ![slot] = copy],
           new.unseen = st.unseen, new.inflight = st.inflight,
           \/ copy.of \in st.unseen
           \/ copy.of \in st.inflight /\ Held(st, copy.of) = {}
    PROVE  Good(new)
<1>1. st.live \in [Ids -> Copy \cup {NoCopy}]
  BY DEF Good, Slaves
<1>2. new.live[slot] = copy /\ \A id \in Ids \ {slot} : new.live[id] = st.live[id]
  BY <1>1
<1>3. ASSUME NEW t \in Tickets \ new.unseen, NEW i \in Held(new, t), NEW j \in Held(new, t)
      PROVE  i = j /\ (new.live[i].shown \/ t \in new.inflight)
  <2>1. CASE t = copy.of
    <3>1. Held(new, t) = {slot} /\ t \in new.inflight
      BY <1>2, <1>3, <2>1 DEF Held
    <3> QED BY <3>1
  <2>2. CASE t # copy.of
    <3>1. Held(new, t) = Held(st, t) /\ slot \notin Held(new, t)
      BY <1>2, <2>2 DEF Held
    <3>2. i \in Ids \ {slot} /\ i \in Held(st, t) /\ j \in Held(st, t)
      BY <3>1 DEF Held
    <3> QED BY <1>2, <3>2 DEF Good, Fine
  <2> QED BY <2>1, <2>2
<1> QED BY <1>3 DEF Good, Fine

\* A successful OrderSend.
LEMMA OpenedGood ==
    ASSUME NEW st, Good(st), NEW copy \in Copy, NEW new \in Opened(st, copy),
           \/ copy.of \in st.unseen
           \/ copy.of \in st.inflight /\ Held(st, copy.of) = {}
    PROVE  Good(new) /\ new.creating = st.creating
<1> DEFINE free == {id \in Ids : st.live[id] = NoCopy}
           slot == CHOOSE id \in free : TRUE
<1>1. free # {}
  BY DEF Opened
<1>2. slot \in free
  BY <1>1
<1>3. PICK b \in BOOLEAN : new = [st EXCEPT !.live[slot] = [copy EXCEPT !.shown = b]]
  BY <1>1 DEF Opened
<1> HIDE DEF slot
<1> DEFINE sent == [copy EXCEPT !.shown = b]
<1>4. sent \in Copy /\ sent.of = copy.of
  BY DEF Copy
<1> HIDE DEF sent
<1>5. new = [st EXCEPT !.live[slot] = sent]
  BY <1>3 DEF sent
<1>6. /\ new \in Slaves
      /\ new.live = [st.live EXCEPT ![slot] = sent]
      /\ new.unseen = st.unseen /\ new.inflight = st.inflight
      /\ new.creating = st.creating
  BY <1>2, <1>4, <1>5 DEF Good, Slaves
<1> QED BY <1>2, <1>4, <1>6, AddFine

\* Copies are closed.
LEMMA WithoutGood ==
    ASSUME NEW st, Good(st), NEW S
    PROVE  /\ Good(Without(st, S))
           /\ Without(st, S).inflight = st.inflight
           /\ Without(st, S).unseen = st.unseen
           /\ Without(st, S).creating = st.creating
<1>1. /\ Without(st, S) \in Slaves
      /\ Without(st, S).inflight = st.inflight
      /\ Without(st, S).unseen = st.unseen
      /\ Without(st, S).creating = st.creating
      /\ \A id \in Ids : Without(st, S).live[id] \in {NoCopy, st.live[id]}
  BY DEF Good, Slaves, Without
<1> QED BY <1>1, KeepFine

\* An order that is executed although its OrderSend fails.
LEMMA TimedOutGood ==
    ASSUME NEW st, Good(st), NEW copy \in Copy, NEW new \in TimedOut(st, copy)
    PROVE  Good(new) /\ copy.of \in new.unseen /\ new.creating = st.creating
<1> DEFINE bare == [st EXCEPT !.unseen = @ \cup {copy.of}]
<1>1. bare \in Slaves /\ copy.of \in Tickets /\ copy.of \in bare.unseen
      /\ bare.live = st.live /\ bare.inflight = st.inflight
      /\ bare.creating = st.creating /\ st.unseen \subseteq bare.unseen
  BY DEF Good, Slaves, Copy
<1>2. Good(bare)
  BY <1>1, KeepFine
<1>3. new \in Opened(bare, copy)
  BY DEF TimedOut
<1> HIDE DEF bare
<1>4. Good(new) /\ new.creating = st.creating
  BY <1>1, <1>2, <1>3, OpenedGood
<1>5. new.unseen = bare.unseen
  BY <1>1, <1>3 DEF Opened, Slaves
<1> QED BY <1>1, <1>4, <1>5

\* HandleCreate up to the first listing.
LEMMA CreateGood ==
    ASSUME NEW st, Good(st), st.creating = {}, NEW t \in Tickets, NEW view \in View,
           NEW new \in HandleCreate(st, t, view)
    PROVE  Good(new) /\ Clear(new) /\ new.live = st.live
<1> DEFINE kind == IF view.state[t] = "pending" THEN "order" ELSE "position"
           copy == NewCopy(kind, t, view)
<1>1. CASE new = st
  BY <1>1 DEF Clear
<1>2. CASE new # st
  <2>1. /\ Shown(st, "position", t) = {}
        /\ new = [st EXCEPT !.creating = {copy}]
    BY <1>2 DEF HandleCreate
  <2>2. copy \in Copy /\ copy.of = t
    BY DEF NewCopy, Copy, View
  <2> HIDE DEF copy
  <2>3. /\ new \in Slaves /\ new.live = st.live /\ new.creating = {copy}
        /\ new.unseen = st.unseen /\ new.inflight = st.inflight
    BY <2>1, <2>2 DEF Good, Slaves
  <2>4. Good(new)
    BY <2>3, KeepFine
  <2>5. ASSUME t \notin st.unseen \cup st.inflight, NEW i \in Held(st, t)
        PROVE  st.live[i].kind = "order"
    <3>1. i \in Ids /\ st.live[i] \in Copy /\ st.live[i].of = t
      BY DEF Held, Good, Slaves
    <3>2. st.live[i].shown
      BY <2>5 DEF Good, Fine
    <3> QED BY <2>1, <3>1, <3>2, Kinds DEF Shown
  <2>6. Clear(new)
    BY <2>2, <2>3, <2>5 DEF Clear, Held
  <2> QED BY <2>3, <2>4, <2>6
<1> QED BY <1>1, <1>2

\* The rest of it: what the two listings do not find is not there, unless its
\* marks say nothing.
LEMMA SendGood ==
    ASSUME NEW st, Good(st), st.creating = {}, NEW copy \in Copy,
           \/ copy.of \in st.unseen \cup st.inflight
           \/ \A i \in Held(st, copy.of) : st.live[i].kind = "order",
           NEW new \in SendCreate(st, copy)
    PROVE  Good(new) /\ new.creating = {}
<1> DEFINE marked == [st EXCEPT !.inflight = @ \cup {copy.of}]
<1>0. copy.of \in Tickets
  BY DEF Copy
<1>1. CASE new = st
  BY <1>1
<1>2. CASE new # st
  <2>1. /\ Shown(st, "order", copy.of) = {} /\ copy.of \notin st.inflight
        /\ new \in Opened(marked, copy) \cup TimedOut(st, copy)
    BY <1>2 DEF SendCreate
  <2>2. /\ marked \in Slaves /\ copy.of \in marked.inflight
        /\ marked.live = st.live /\ marked.unseen = st.unseen
        /\ marked.creating = {} /\ st.inflight \subseteq marked.inflight
    BY <1>0 DEF Good, Slaves
  <2> HIDE DEF marked
  <2>3. Good(marked)
    BY <2>2, KeepFine
  <2>4. ASSUME copy.of \notin st.unseen, NEW i \in Held(st, copy.of) PROVE FALSE
    <3>1. i \in Ids /\ st.live[i].of = copy.of /\ st.live[i].kind = "order"
      BY <2>1, <2>4 DEF Held
    <3>2. st.live[i].shown
      BY <1>0, <2>1, <2>4 DEF Good, Fine
    <3> QED BY <2>1, <3>1, <3>2 DEF Shown
  <2>5. copy.of \in marked.unseen \/ Held(marked, copy.of) = {}
    BY <2>2, <2>4 DEF Held
  <2>6. CASE new \in Opened(marked, copy)
    BY <2>2, <2>3, <2>5, <2>6, OpenedGood
  <2>7. CASE new \in TimedOut(st, copy)
    BY <2>7, TimedOutGood
  <2> QED BY <2>1, <2>6, <2>7
<1> QED BY <1>1, <1>2

\* A cancel command.
LEMMA CancelGood ==
    ASSUME NEW st, Good(st), NEW t, NEW new \in HandleCancel(st, t)
    PROVE  Good(new) /\ new.creating = st.creating
BY WithoutGood DEF HandleCancel

\* A pending order that is deleted and sent again.
LEMMA RecreatedGood ==
    ASSUME NEW st, Good(st), NEW id \in Ids, st.live[id] \in Copy, NEW v \in Volumes,
           NEW new \in Recreated(st, id, v)
    PROVE  Good(new) /\ new.creating = st.creating
<1> DEFINE old == st.live[id]
           gone == Without(st, {id})
           deleted == [gone EXCEPT !.unseen = @ \cup {old.of}]
           changed == [old EXCEPT !.volume = v]
<1>1. Good(gone) /\ gone.creating = st.creating
  BY WithoutGood
<1>2. old \in Copy /\ changed \in Copy /\ changed.of = old.of /\ old.of \in Tickets
  BY DEF Copy
<1> HIDE DEF gone, changed, old
<1>3. /\ deleted \in Slaves /\ old.of \in deleted.unseen
      /\ deleted.live = gone.live /\ deleted.inflight = gone.inflight
      /\ gone.unseen \subseteq deleted.unseen /\ deleted.creating = st.creating
  BY <1>1, <1>2 DEF Good, Slaves
<1> HIDE DEF deleted
<1>4. Good(deleted)
  BY <1>1, <1>3, KeepFine
<1>5. \/ new \in {st, deleted} \cup Opened(deleted, changed) \cup Opened(deleted, old)
      \/ \E both \in TimedOut(deleted, changed) : new \in Opened(both, old)
  BY DEF Recreated, gone, changed, old, deleted
<1>6. CASE new \in {st, deleted} \cup Opened(deleted, changed) \cup Opened(deleted, old)
  BY <1>2, <1>3, <1>4, <1>6, OpenedGood
<1>7. ASSUME NEW both \in TimedOut(deleted, changed), new \in Opened(both, old)
      PROVE  Good(new) /\ new.creating = st.creating
  BY <1>2, <1>3, <1>4, <1>7, TimedOutGood, OpenedGood
<1> QED BY <1>5, <1>6, <1>7

\* A position that is closed in part.
LEMMA ShrunkGood ==
    ASSUME NEW st, Good(st), NEW id \in Ids, st.live[id] \in Copy, NEW v \in Volumes,
           NEW new \in Shrunk(st, id, v)
    PROVE  Good(new) /\ new.creating = st.creating
<1> DEFINE smaller == [st.live[id] EXCEPT !.volume = v]
<1>1. /\ smaller \in Copy
      /\ smaller.of = st.live[id].of /\ smaller.shown = st.live[id].shown
  BY DEF Copy
<1>2. new = [st EXCEPT !.live[id] = smaller]
  BY DEF Shrunk
<1> HIDE DEF smaller
<1>3. /\ new \in Slaves /\ new.unseen = st.unseen /\ new.inflight = st.inflight
      /\ new.creating = st.creating
      /\ new.live = [st.live EXCEPT ![id] = smaller]
  BY <1>1, <1>2 DEF Good, Slaves
<1>4. st.live \in [Ids -> Copy \cup {NoCopy}]
  BY DEF Good, Slaves
<1>5. new.live[id] = smaller /\ \A i \in Ids \ {id} : new.live[i] = st.live[i]
  BY <1>3, <1>4
<1>6. st.live[id] # NoCopy
  BY Kinds
<1>7. \A i \in Ids : \/ new.live[i] = NoCopy
                     \/ /\ st.live[i] # NoCopy
                        /\ new.live[i].of = st.live[i].of
                        /\ st.live[i].shown => new.live[i].shown
  BY <1>1, <1>5, <1>6
<1> QED BY <1>3, <1>7, KeepFine

\* A modify command.
LEMMA ModifyGood ==
    ASSUME NEW st, Good(st), NEW t, NEW v \in Volumes, NEW new \in HandleModify(st, t, v)
    PROVE  Good(new) /\ new.creating = st.creating
<1>1. CASE new = st
  BY <1>1
<1>2. CASE new # st
  <2>1. PICK id \in Addressed(st, t) :
           new \in Shrunk(st, id, v) \cup Recreated(st, id, v)
    BY <1>2 DEF HandleModify
  <2>2. id \in Ids /\ st.live[id].kind \in {"position", "order"}
    BY DEF Addressed, Shown
  <2>3. st.live[id] \in Copy
    BY <2>2, Kinds DEF Good, Slaves
  <2>4. CASE new \in Shrunk(st, id, v)
    BY <2>2, <2>3, <2>4, ShrunkGood
  <2>5. CASE new \in Recreated(st, id, v)
    BY <2>2, <2>3, <2>5, RecreatedGood
  <2> QED BY <2>1, <2>4, <2>5
<1> QED BY <1>1, <1>2

\* The running loop visits what it lists.
Fits(x) == x \in IF phase \in {"close", "delete"} THEN Ids ELSE Tickets

\* Every visit of a loop.
LEMMA OutcomesGood ==
    ASSUME Good(Slave), creating = {}, phase \in Loops, NEW x, Fits(x),
           NEW view \in View, NEW new \in Outcomes(x, view)
    PROVE  Good(new) /\ Clear(new)
<1>0. Slave.creating = {}
  BY DEF Slave
<1>1. CASE phase \in {"close", "delete"}
  <2>1. \E kind \in {"position", "order"} : new \in Absent(x, kind, view)
    BY <1>1 DEF Outcomes
  <2> QED BY <1>0, <2>1, CancelGood DEF Absent, Clear
<1>2. CASE phase \in {"open", "place"}
  <2>1. x \in Tickets
    BY <1>2 DEF Fits
  <2>2. new \in Missing(x, phase, view)
    BY <1>2 DEF Outcomes
  <2> QED BY <1>0, <2>1, <2>2, CreateGood DEF Missing, Clear
<1>3. CASE phase = "fix"
  <2>1. x \in Tickets /\ view.volume[x] \in Volumes
    BY <1>3 DEF Fits, View
  <2>2. new \in Fixed(x, view)
    BY <1>3 DEF Outcomes
  <2>3. \/ new = Slave
        \/ \E S : new \in HandleCreate(Without(Slave, S), x, view)
        \/ new \in HandleModify(Slave, x, view.volume[x])
    BY <2>2 DEF Fixed
  <2>4. ASSUME NEW S, new \in HandleCreate(Without(Slave, S), x, view)
        PROVE  Good(new) /\ Clear(new)
    BY <1>0, <2>1, <2>4, WithoutGood, CreateGood
  <2>5. CASE new \in HandleModify(Slave, x, view.volume[x])
    BY <1>0, <2>1, <2>5, ModifyGood DEF Clear
  <2> QED BY <1>0, <2>3, <2>4, <2>5 DEF Clear
<1>4. CASE phase = "refit"
  <2>1. x \in Tickets /\ view.volume[x] \in Volumes
    BY <1>4 DEF Fits, View
  <2>2. new \in Refitted(x, view)
    BY <1>4 DEF Outcomes
  <2>3. \/ new = Slave
        \/ \E st \in HandleCancel(Slave, x) : new \in HandleCreate(st, x, view)
        \/ new \in HandleModify(Slave, x, view.volume[x])
    BY <2>2 DEF Refitted
  <2>4. ASSUME NEW st \in HandleCancel(Slave, x), new \in HandleCreate(st, x, view)
        PROVE  Good(new) /\ Clear(new)
    BY <1>0, <2>1, <2>4, CancelGood, CreateGood
  <2>5. CASE new \in HandleModify(Slave, x, view.volume[x])
    BY <1>0, <2>1, <2>5, ModifyGood DEF Clear
  <2> QED BY <1>0, <2>3, <2>4, <2>5 DEF Clear
<1> QED BY <1>1, <1>2, <1>3, <1>4 DEF Loops

-----------------------------------------------------------------------------
(* The EA, its master and its broker.                                      *)

\* What is left to visit fits the loop.
TodoFits == IF phase = "idle" THEN todo = {} ELSE \A x \in todo : Fits(x)

IInv == TypeOK /\ TodoFits /\ Fine(Slave) /\ Clear(Slave)

\* The parts of the slave's state.
LEMMA SlaveParts ==
    /\ Slave.live = live /\ Slave.inflight = inflight /\ Slave.unseen = unseen
    /\ Slave.creating = creating
    /\ Slave' = [live |-> live', inflight |-> inflight', unseen |-> unseen',
                 creating |-> creating']
    /\ TypeOK => Slave \in Slaves
BY DEF Slave, Slaves, TypeOK

\* The slave's variables take over what a call leads to.
LEMMA BecomesGood ==
    ASSUME NEW outcomes, \A st \in outcomes : Good(st) /\ Clear(st), Becomes(outcomes)
    PROVE  /\ Fine(Slave)' /\ Clear(Slave)'
           /\ live' \in [Ids -> Copy \cup {NoCopy}]
           /\ inflight' \in SUBSET Tickets
           /\ unseen' \in SUBSET Tickets
           /\ creating' \in {{}} \cup {{copy} : copy \in Copy}
<1>1. PICK st \in outcomes : /\ live' = st.live /\ inflight' = st.inflight
                             /\ unseen' = st.unseen /\ creating' = st.creating
  BY DEF Becomes
<1>2. Good(st) /\ Clear(st)
  BY <1>1
<1>3. Slave' \in Slaves
  BY <1>1, <1>2 DEF Good, Slaves, Slave
<1>4. Good(Slave')
  <2>1. /\ Slave'.live = st.live /\ Slave'.inflight = st.inflight
        /\ Slave'.unseen = st.unseen
    BY <1>1 DEF Slave
  <2>2. \A id \in Ids : \/ Slave'.live[id] = NoCopy
                        \/ /\ st.live[id] # NoCopy
                           /\ Slave'.live[id].of = st.live[id].of
                           /\ st.live[id].shown => Slave'.live[id].shown
    BY <2>1
  <2> QED BY <1>2, <1>3, <2>1, <2>2, KeepFine
<1>5. Fine(Slave')
  BY <1>4 DEF Good
<1>6. Clear(Slave)'
  BY <1>1, <1>2 DEF Clear, Held, Slave
<1> QED BY <1>1, <1>2, <1>5, <1>6 DEF Good, Slaves, Fine, Held

\* The master has no tickets, the slave no copies.
LEMMA IInit == Init => IInv
<1> SUFFICES ASSUME Init PROVE IInv
  OBVIOUS
<1>1. TypeOK
  BY DEF Init, TypeOK, Loops
<1>2. \A t \in Tickets : Held(Slave, t) = {}
  BY DEF Init, Held, Slave
<1> QED BY <1>1, <1>2 DEF Init, IInv, TodoFits, Fine, Clear, Slave

\* Trades, listings, fills, closes and the end of the grace period.
LEMMA EnvironmentStep ==
    ASSUME IInv, Environment
    PROVE  IInv'
<1>0. TypeOK /\ TodoFits /\ Good(Slave) /\ Clear(Slave)
  BY SlaveParts DEF IInv, Good
<1>1. ASSUME NEW t \in Tickets, MasterTrades(t) PROVE IInv'
  <2>1. master' \in View
    BY <1>0, <1>1 DEF MasterTrades, TypeOK, View, MasterMoves, States
  <2> QED BY <1>0, <1>1, <2>1 DEF MasterTrades, IInv, TypeOK, TodoFits, Fits, Fine,
             Clear, Held, Slave, slaveVars
<1>2. ASSUME NEW t \in Tickets, VolumeChanges(t) PROVE IInv'
  <2>1. master' \in View
    BY <1>0, <1>2 DEF VolumeChanges, TypeOK, View
  <2> QED BY <1>0, <1>2, <2>1 DEF VolumeChanges, IInv, TypeOK, TodoFits, Fits, Fine,
             Clear, Held, Slave, slaveVars
<1>3. CASE SideChanges
  <2>1. master' \in View
    BY <1>0, <1>3 DEF SideChanges, TypeOK, View
  <2> QED BY <1>0, <1>3, <2>1 DEF SideChanges, IInv, TypeOK, TodoFits, Fits, Fine,
             Clear, Held, Slave, slaveVars
<1>4. ASSUME NEW t \in Tickets, InflightExpires(t) PROVE IInv'
  <2>1. TypeOK' /\ TodoFits'
    BY <1>0, <1>4 DEF InflightExpires, TypeOK, TodoFits, Fits
  <2>2. Fine(Slave)'
    BY <1>0, <1>4 DEF InflightExpires, Good, Fine, Held, Slave
  <2>3. ASSUME NEW copy \in creating, copy.of \notin unseen' \cup inflight',
               NEW i \in Held(Slave, copy.of)
        PROVE  live[i].kind = "order"
    <3>1. /\ i \in Ids /\ live[i] # NoCopy /\ live[i].of = copy.of
          /\ live[i].kind \in {"position", "order"}
      BY <1>0, <2>3, Kinds DEF TypeOK, Held, Slave
    <3>2. CASE copy.of \notin inflight
      BY <1>0, <1>4, <2>3, <3>2 DEF InflightExpires, Clear, Slave
    <3>3. CASE copy.of \in inflight
      BY <1>4, <2>3, <3>1, <3>3 DEF InflightExpires, Between
    <3> QED BY <3>2, <3>3
  <2>4. Clear(Slave)'
    BY <1>4, <2>3 DEF InflightExpires, Clear, Held, Slave
  <2> QED BY <2>1, <2>2, <2>4 DEF IInv
<1>5. ASSUME NEW id \in Ids, Show(id) \/ Fill(id) \/ BrokerCloses(id) PROVE IInv'
  <2>1. PICK copy \in Copy \cup {NoCopy} :
           /\ live' = [live EXCEPT ![id] = copy]
           /\ \/ copy = NoCopy
              \/ /\ live[id] # NoCopy /\ copy.of = live[id].of
                 /\ live[id].shown => copy.shown
                 /\ \/ copy.kind = live[id].kind
                    \/ Between(copy.of) => copy.of \in unseen' \cup inflight
    <3>1. live[id] \in Copy \cup {NoCopy}
      BY <1>0 DEF TypeOK
    <3>2. CASE Show(id)
      <4>1. live' = [live EXCEPT ![id] = [live[id] EXCEPT !.shown = TRUE]]
        BY <3>2 DEF Show
      <4>2. live[id] \in Copy
        BY <3>1, <3>2 DEF Show
      <4>3. /\ [live[id] EXCEPT !.shown = TRUE] \in Copy
            /\ [live[id] EXCEPT !.shown = TRUE].of = live[id].of
            /\ [live[id] EXCEPT !.shown = TRUE].shown = TRUE
            /\ [live[id] EXCEPT !.shown = TRUE].kind = live[id].kind
        BY <4>2 DEF Copy
      <4> QED BY <4>1, <4>2, <4>3, Kinds
    <3>3. CASE Fill(id)
      <4>1. live' = [live EXCEPT ![id] = [live[id] EXCEPT !.kind = "position"]]
        BY <3>3 DEF Fill
      <4>2. live[id] \in Copy
        BY <3>1, <3>3, Kinds DEF Fill
      <4>3. /\ [live[id] EXCEPT !.kind = "position"] \in Copy
            /\ [live[id] EXCEPT !.kind = "position"].of = live[id].of
            /\ [live[id] EXCEPT !.kind = "position"].shown = live[id].shown
        BY <4>2 DEF Copy
      <4>4. Between(live[id].of) => live[id].of \in unseen' \cup inflight
        BY <3>3 DEF Fill
      <4> QED BY <4>1, <4>2, <4>3, <4>4, Kinds
    <3>4. CASE BrokerCloses(id)
      BY <3>4 DEF BrokerCloses
    <3> QED BY <1>5, <3>2, <3>3, <3>4
  <2>2. /\ UNCHANGED <<master, inflight, creating, created, phase, snapshot, todo>>
        /\ unseen \subseteq unseen' /\ unseen' \subseteq Tickets
    <3>1. live[id].kind = "order" => live[id].of \in Tickets
      BY <1>0, Kinds DEF TypeOK, Copy
    <3> QED BY <1>0, <1>5, <3>1 DEF Show, Fill, BrokerCloses, BrokerFrame, TypeOK
  <2>3. TypeOK' /\ TodoFits'
    BY <1>0, <2>1, <2>2 DEF TypeOK, TodoFits, Fits
  <2>4. Slave' \in Slaves
    BY <2>3 DEF TypeOK, Slaves, Slave
  <2>5. \A i \in Ids : \/ Slave'.live[i] = NoCopy
                       \/ /\ Slave.live[i] # NoCopy
                          /\ Slave'.live[i].of = Slave.live[i].of
                          /\ Slave.live[i].shown => Slave'.live[i].shown
    BY <1>0, <2>1 DEF Slave, TypeOK
  <2>6. Slave.unseen \subseteq Slave'.unseen /\ Slave'.inflight = Slave.inflight
    BY <2>2 DEF Slave
  <2>7. Good(Slave')
    BY <1>0, <2>4, <2>5, <2>6, KeepFine
  <2>8. ASSUME NEW other \in creating, other.of \notin unseen' \cup inflight,
               NEW i \in Ids, live'[i] # NoCopy, live'[i].of = other.of
        PROVE  live'[i].kind = "order"
    <3>1. \A j \in Ids : live[j] # NoCopy /\ live[j].of = other.of => live[j].kind = "order"
      BY <1>0, <2>2, <2>8 DEF Clear, Held, Slave
    <3>2. CASE i # id
      BY <1>0, <2>1, <2>8, <3>1, <3>2 DEF TypeOK
    <3>3. CASE i = id
      <4>1. live'[id] = copy
        BY <1>0, <2>1 DEF TypeOK
      <4> QED BY <2>1, <2>8, <3>1, <3>3, <4>1 DEF Between
    <3> QED BY <3>2, <3>3
  <2>9. Clear(Slave)'
    BY <2>2, <2>8 DEF Clear, Held, Slave
  <2> QED BY <2>3, <2>7, <2>9 DEF IInv, Good, Fine, Held, Slave
<1> QED BY <1>1, <1>2, <1>3, <1>4, <1>5 DEF Environment

\* Every step keeps the copies and their marks together.
LEMMA INext == IInv /\ [Next]_vars => IInv'
<1> SUFFICES ASSUME IInv, [Next]_vars PROVE IInv'
  OBVIOUS
<1>0. TypeOK /\ TodoFits /\ Good(Slave) /\ Clear(Slave)
  BY SlaveParts DEF IInv, Good
<1>1. CASE UNCHANGED vars
  BY <1>0, <1>1 DEF vars, slaveVars, IInv, TypeOK, TodoFits, Fits, Good, Fine, Clear,
                    Held, Slave
<1>2. CASE Environment
  BY <1>2, EnvironmentStep
<1>3. ASSUME NEW t \in Tickets, Command(t) PROVE IInv'
  <2>1. master \in View /\ master.volume[t] \in Volumes
    BY <1>0 DEF TypeOK, View
  <2>2. PICK outcomes : /\ Becomes(outcomes)
                        /\ outcomes \in {HandleCreate(Slave, t, master),
                                         HandleModify(Slave, t, master.volume[t]),
                                         HandleCancel(Slave, t)}
    BY <1>3 DEF Command
  <2>3. \A st \in outcomes : Good(st) /\ Clear(st)
    <3>1. Slave.creating = {}
      BY <1>3 DEF Command, Slave
    <3> QED BY <1>0, <2>1, <2>2, <3>1, CreateGood, ModifyGood, CancelGood DEF Clear
  <2>4. created' \in SUBSET Tickets /\ UNCHANGED <<master, phase, snapshot, todo>>
    BY <1>0, <1>3 DEF Command, TypeOK
  <2>5. /\ Fine(Slave)' /\ Clear(Slave)' /\ live' \in [Ids -> Copy \cup {NoCopy}]
        /\ inflight' \in SUBSET Tickets /\ unseen' \in SUBSET Tickets
        /\ creating' \in {{}} \cup {{copy} : copy \in Copy}
    BY <2>2, <2>3, BecomesGood
  <2> QED BY <1>0, <2>4, <2>5 DEF IInv, TypeOK, TodoFits, Fits
<1>4. CASE StartSnapshot
  BY <1>0, <1>4 DEF StartSnapshot, IInv, TypeOK, TodoFits, Fits, Good, Fine, Clear,
                    Held, Slave, slaveVars, Loops
<1>5. CASE Reload
  <2>1. TypeOK' /\ TodoFits'
    BY <1>0, <1>5 DEF Reload, TypeOK, TodoFits, Fits, Copy
  <2>2. Fine(Slave)' /\ Clear(Slave)'
    BY <1>0, <1>5 DEF Reload, Good, Fine, Clear, Held, Slave
  <2> QED BY <2>1, <2>2 DEF IInv
<1>6. ASSUME NEW x \in Tickets \cup Ids, Visit(x) PROVE IInv'
  <2>1. PICK view \in snapshot : Becomes(Outcomes(x, view))
    BY <1>6 DEF Visit
  <2>2. view \in View
    BY <1>0, <2>1 DEF TypeOK
  <2>3. /\ UNCHANGED <<master, created, phase, snapshot>>
        /\ todo' = todo \ {x} /\ x \in todo
    BY <1>6 DEF Visit
  <2>4. phase \in Loops /\ Fits(x) /\ creating = {}
    BY <1>0, <1>6, <2>1, <2>3 DEF TypeOK, TodoFits, Visit
  <2>5. \A st \in Outcomes(x, view) : Good(st) /\ Clear(st)
    BY <1>0, <2>2, <2>4, OutcomesGood
  <2>6. /\ Fine(Slave)' /\ Clear(Slave)' /\ live' \in [Ids -> Copy \cup {NoCopy}]
        /\ inflight' \in SUBSET Tickets /\ unseen' \in SUBSET Tickets
        /\ creating' \in {{}} \cup {{copy} : copy \in Copy}
    BY <2>1, <2>5, BecomesGood
  <2> QED BY <1>0, <2>3, <2>6 DEF IInv, TypeOK, TodoFits, Fits
<1>7. CASE NextLoop
  BY <1>0, <1>7 DEF NextLoop, After, IInv, TypeOK, TodoFits, Fits, Good, Fine, Clear,
                    Held, Slave, slaveVars, Loops
<1>8. CASE FinishCreate
  <2> DEFINE ready == [Slave EXCEPT !.creating = {}]
  <2>1. PICK copy \in creating : Becomes(SendCreate(ready, copy))
    BY <1>8 DEF FinishCreate
  <2>2. /\ copy \in Copy /\ ready \in Slaves /\ ready.creating = {}
        /\ ready.live = live /\ ready.unseen = unseen /\ ready.inflight = inflight
    BY <1>0, SlaveParts DEF TypeOK, Good, Slaves
  <2> HIDE DEF ready
  <2>3. Good(ready)
    BY <1>0, <2>2, SlaveParts, KeepFine
  <2>4. \/ copy.of \in ready.unseen \cup ready.inflight
        \/ \A i \in Held(ready, copy.of) : ready.live[i].kind = "order"
    BY <1>0, <2>2, SlaveParts DEF Clear, Held
  <2>5. \A st \in SendCreate(ready, copy) : Good(st) /\ Clear(st)
    BY <2>2, <2>3, <2>4, SendGood DEF Clear
  <2>6. /\ Fine(Slave)' /\ Clear(Slave)' /\ live' \in [Ids -> Copy \cup {NoCopy}]
        /\ inflight' \in SUBSET Tickets /\ unseen' \in SUBSET Tickets
        /\ creating' \in {{}} \cup {{c} : c \in Copy}
    BY <2>1, <2>5, BecomesGood
  <2> QED BY <1>0, <1>8, <2>6 DEF FinishCreate, IInv, TypeOK, TodoFits, Fits
<1> QED BY <1>1, <1>2, <1>3, <1>4, <1>5, <1>6, <1>7, <1>8 DEF Next

\* Commands, snapshots, the broker and the faults keep every variable in its type.
THEOREM CopierTypes == Spec => []TypeOK
<1>1. IInv => TypeOK
  BY DEF IInv
<1> QED BY <1>1, IInit, INext, PTL DEF Spec

\* A master ticket has at most one copy, unless one was out of sight of the marks.
THEOREM CopierOneCopy == Spec => []OneCopyUnlessUnseen
<1>1. IInv => OneCopyUnlessUnseen
  <2> SUFFICES ASSUME IInv, NEW t \in Tickets \ unseen
               PROVE  Cardinality(CopiesOf(t)) <= 1
    BY DEF OneCopyUnlessUnseen
  <2>1. \A i, j \in CopiesOf(t) : i = j
    BY DEF IInv, Fine, Held, Slave, CopiesOf
  <2>2. CASE CopiesOf(t) = {}
    BY <2>2, FS_EmptySet
  <2>3. CASE CopiesOf(t) # {}
    <3>1. PICK i \in CopiesOf(t) : TRUE
      BY <2>3
    <3>2. CopiesOf(t) = {i}
      BY <2>1, <3>1
    <3>3. Cardinality({i}) = 1
      BY FS_Singleton
    <3> QED BY <3>2, <3>3
  <2> QED BY <2>2, <2>3
<1> QED BY <1>1, IInit, INext, PTL DEF Spec

-----------------------------------------------------------------------------
(* What a snapshot leaves alone.                                           *)

\* An OrderSend takes a number that is free.
LEMMA OpenedKeeps ==
    ASSUME NEW st \in Slaves, NEW copy, NEW new \in Opened(st, copy), NEW id \in Ids,
           st.live[id] # NoCopy
    PROVE  new \in Slaves => new.live[id] = st.live[id]
<1> DEFINE free == {i \in Ids : st.live[i] = NoCopy}
           slot == CHOOSE i \in free : TRUE
<1>1. slot \in free
  BY DEF Opened
<1>2. \E b \in BOOLEAN : new = [st EXCEPT !.live[slot] = [copy EXCEPT !.shown = b]]
  BY DEF Opened
<1>3. slot # id
  BY <1>1
<1> HIDE DEF slot
<1> QED BY <1>2, <1>3 DEF Slaves

\* So does one that is taken for failed.
LEMMA TimedOutKeeps ==
    ASSUME NEW st, Good(st), NEW copy \in Copy, NEW new \in TimedOut(st, copy),
           NEW id \in Ids, st.live[id] # NoCopy
    PROVE  new.live[id] = st.live[id]
<1> DEFINE bare == [st EXCEPT !.unseen = @ \cup {copy.of}]
<1>1. bare \in Slaves /\ bare.live = st.live
  BY DEF Good, Slaves, Copy
<1>2. new \in Opened(bare, copy) /\ new \in Slaves
  BY TimedOutGood DEF TimedOut, Good
<1> HIDE DEF bare
<1> QED BY <1>1, <1>2, OpenedKeeps

\* A cancel command closes copies of its ticket only.
LEMMA CancelKeeps ==
    ASSUME NEW st, NEW t, NEW new \in HandleCancel(st, t), NEW id \in Ids,
           st.live[id] # NoCopy, st.live[id].of # t
    PROVE  new.live[id] # NoCopy
<1>1. id \notin Addressed(st, t)
  BY DEF Addressed, Shown
<1>2. \A i \in Addressed(st, t) : Without(st, {i}).live[id] = st.live[id]
  <2> SUFFICES ASSUME NEW i \in Addressed(st, t)
               PROVE  Without(st, {i}).live[id] = st.live[id]
    OBVIOUS
  <2>1. i # id
    BY <1>1
  <2> QED BY <2>1 DEF Without
<1> QED BY <1>2 DEF HandleCancel

\* A modify command makes positions smaller and replaces orders.
LEMMA ModifyKeeps ==
    ASSUME NEW st, Good(st), NEW t, NEW v \in Volumes, NEW new \in HandleModify(st, t, v),
           NEW id \in Ids, st.live[id].kind = "position"
    PROVE  new.live[id] # NoCopy
<1>0. /\ st.live[id] # NoCopy /\ st.live[id] \in Copy
      /\ st.live \in [Ids -> Copy \cup {NoCopy}] /\ new \in Slaves
  BY Kinds, ModifyGood DEF Good, Slaves
<1>1. CASE new = st
  BY <1>0, <1>1
<1>2. ASSUME NEW other \in Addressed(st, t), st.live[other].kind = "position",
             new \in Shrunk(st, other, v)
      PROVE  new.live[id] # NoCopy
  <2>1. other \in Ids /\ new = [st EXCEPT !.live[other].volume = v]
    BY <1>2 DEF Addressed, Shown, Shrunk
  <2>2. [st.live[id] EXCEPT !.volume = v] \in Copy
    BY <1>0 DEF Copy
  <2>3. new.live[id] \in {st.live[id], [st.live[id] EXCEPT !.volume = v]}
    BY <1>0, <2>1 DEF Good, Slaves
  <2> QED BY <1>0, <2>2, <2>3, Kinds
<1>3. ASSUME NEW other \in Addressed(st, t), st.live[other].kind # "position",
             new \in Recreated(st, other, v)
      PROVE  new.live[id] # NoCopy
  <2> DEFINE old == st.live[other]
             gone == Without(st, {other})
             deleted == [gone EXCEPT !.unseen = @ \cup {old.of}]
             changed == [old EXCEPT !.volume = v]
  <2>1. other # id /\ other \in Ids /\ old \in Copy /\ changed \in Copy
    <3>1. other # id /\ other \in Ids /\ old.kind = "order"
      BY <1>0, <1>3, Kinds DEF Addressed, Shown
    <3>2. old \in Copy
      BY <1>0, <3>1, Kinds
    <3>3. changed \in Copy
      BY <3>2 DEF Copy
    <3> QED BY <3>1, <3>2, <3>3
  <2>2. Good(gone) /\ gone.live[id] = st.live[id]
    <3>1. Good(gone)
      BY WithoutGood
    <3>2. id \notin {other}
      BY <2>1
    <3>3. Without(st, {other}).live[id] = st.live[id]
      BY <3>2 DEF Without, Good, Slaves
    <3> QED BY <3>1, <3>3
  <2>3. new \in {st, deleted} \cup Opened(deleted, changed) \cup Opened(deleted, old)
          \cup UNION {Opened(both, old) : both \in TimedOut(deleted, changed)}
    BY <1>3 DEF Recreated
  <2>4. old.of \in Tickets
    BY <2>1 DEF Copy
  <2> HIDE DEF gone, changed, old
  <2>5. /\ deleted \in Slaves /\ deleted.live = gone.live
        /\ deleted.inflight = gone.inflight /\ gone.unseen \subseteq deleted.unseen
    BY <2>2, <2>4 DEF Good, Slaves
  <2> HIDE DEF deleted
  <2>6. Good(deleted) /\ deleted.live[id] = st.live[id]
    BY <2>2, <2>5, KeepFine
  <2>7. CASE new \in Opened(deleted, changed) \cup Opened(deleted, old)
    BY <1>0, <2>5, <2>6, <2>7, OpenedKeeps
  <2>8. ASSUME NEW both \in TimedOut(deleted, changed), new \in Opened(both, old)
        PROVE  new.live[id] # NoCopy
    <3>1. both \in Slaves /\ both.live[id] = st.live[id]
      BY <1>0, <2>1, <2>6, TimedOutGood, TimedOutKeeps DEF Good
    <3> QED BY <1>0, <2>8, <3>1, OpenedKeeps
  <2> QED BY <1>0, <2>3, <2>6, <2>7, <2>8
<1> QED BY <1>1, <1>2, <1>3 DEF HandleModify

\* A loop closes no position on the right side of a ticket in the snapshot: where
\* it closes another copy of that ticket there are two, and the marks say so.
LEMMA OutcomesKeep ==
    ASSUME Good(Slave), creating = {}, phase \in Loops, NEW x, Fits(x),
           NEW view \in View, NEW new \in Outcomes(x, view), NEW id \in Ids,
           live[id].kind = "position", live[id].side = view.side,
           live[id].of \notin unseen,
           IsPosition(view, live[id].of) \/ IsPending(view, live[id].of)
    PROVE  new.live[id] # NoCopy
<1>0. /\ live[id] # NoCopy /\ live[id] \in Copy /\ live[id].of \in Tickets
      /\ Slave.live = live /\ Slave.unseen = unseen /\ Slave.creating = {}
  <2>1. live[id] # NoCopy /\ live[id] \in Copy
    BY Kinds DEF Good, Slaves, Slave
  <2> QED BY <2>1 DEF Slave, Copy
<1>a. \A i \in Ids : live[i] # NoCopy /\ live[i].of = live[id].of => i = id
  BY <1>0 DEF Good, Fine, Held
<1>1. CASE phase \in {"close", "delete"}
  <2>1. PICK kind \in {"position", "order"} : new \in Absent(x, kind, view)
    BY <1>1 DEF Outcomes
  <2>2. \/ new = Slave
        \/ /\ new \in HandleCancel(Slave, live[x].of)
           /\ ~IsPosition(view, live[x].of) /\ ~IsPending(view, live[x].of)
    BY <2>1 DEF Absent
  <2> QED BY <1>0, <2>2, CancelKeeps
<1>2. CASE phase \in {"open", "place"}
  <2>1. x \in Tickets /\ new \in Missing(x, phase, view)
    BY <1>2 DEF Fits, Outcomes
  <2> QED BY <1>0, <2>1, CreateGood DEF Missing
<1>3. CASE phase = "fix"
  <2> DEFINE mine == Shown(Slave, "position", x)
             wrong == {i \in mine : live[i].side # view.side}
  <2>1. x \in Tickets /\ view.volume[x] \in Volumes /\ new \in Fixed(x, view)
    BY <1>3 DEF Fits, Outcomes, View
  <2>2. \/ new = Slave
        \/ new \in HandleModify(Slave, x, view.volume[x])
        \/ /\ wrong # {}
           /\ \E S \in SUBSET mine : new \in HandleCreate(Without(Slave, S), x, view)
    BY <2>1 DEF Fixed
  <2>3. ASSUME wrong # {}, NEW S \in SUBSET mine,
               new \in HandleCreate(Without(Slave, S), x, view)
        PROVE  new.live[id] # NoCopy
    <3>1. id \notin S
      <4>1. PICK i \in wrong : TRUE
        BY <2>3
      <4>2. /\ i \in Ids /\ live[i].of = x /\ live[i].side # view.side
            /\ live[i] # NoCopy
        BY <1>0, <4>1, Kinds DEF Shown
      <4>3. live[id].of # x
        BY <1>a, <4>2
      <4> QED BY <1>0, <4>3 DEF Shown
    <3>2. Without(Slave, S).live[id] # NoCopy
      BY <1>0, <3>1 DEF Without, Slave
    <3>3. Good(Without(Slave, S)) /\ Without(Slave, S).creating = {}
      BY <1>0, WithoutGood
    <3> QED BY <2>1, <2>3, <3>2, <3>3, CreateGood
  <2>4. CASE new \in HandleModify(Slave, x, view.volume[x])
    BY <1>0, <2>1, <2>4, ModifyKeeps
  <2> QED BY <1>0, <2>2, <2>3, <2>4
<1>4. CASE phase = "refit"
  <2> DEFINE mine == Shown(Slave, "order", x)
             wrong == {i \in mine : live[i].side # view.side}
  <2>1. x \in Tickets /\ view.volume[x] \in Volumes /\ new \in Refitted(x, view)
    BY <1>4 DEF Fits, Outcomes, View
  <2>2. \/ new = Slave
        \/ new \in HandleModify(Slave, x, view.volume[x])
        \/ /\ wrong # {}
           /\ \E st \in HandleCancel(Slave, x) : new \in HandleCreate(st, x, view)
    BY <2>1 DEF Refitted
  <2>3. ASSUME wrong # {}, NEW st \in HandleCancel(Slave, x),
               new \in HandleCreate(st, x, view)
        PROVE  new.live[id] # NoCopy
    <3>1. PICK i \in wrong : TRUE
      BY <2>3
    <3>2. i \in Ids /\ live[i].of = x /\ live[i].kind = "order" /\ live[i] # NoCopy
      BY <1>0, <3>1, Kinds DEF Shown
    <3>3. live[id].of # x
      BY <1>a, <3>2
    <3>4. Good(st) /\ st.live[id] # NoCopy /\ st.creating = {}
      BY <1>0, <2>3, <3>3, CancelGood, CancelKeeps
    <3> QED BY <2>1, <2>3, <3>4, CreateGood
  <2>4. CASE new \in HandleModify(Slave, x, view.volume[x])
    BY <1>0, <2>1, <2>4, ModifyKeeps
  <2> QED BY <1>0, <2>2, <2>3, <2>4
<1> QED BY <1>1, <1>2, <1>3, <1>4 DEF Loops

\* A snapshot closes no position on the right side of a ticket it contains.
THEOREM CopierKeeps == Spec => KeepsWhatMasterHas
<1>1. IInv => VisitKeeps
  <2> SUFFICES ASSUME IInv, NEW x \in Tickets \cup Ids, NEW view \in snapshot,
                      NEW id \in Ids, Visit(x), live[id].kind = "position",
                      live[id].side = view.side, live[id].of \notin unseen,
                      IsPosition(view, live[id].of) \/ IsPending(view, live[id].of)
               PROVE  live'[id] # NoCopy
    BY DEF VisitKeeps
  <2>1. TypeOK /\ TodoFits /\ Good(Slave)
    BY SlaveParts DEF IInv, Good
  <2>2. view \in View /\ snapshot = {view}
    BY <2>1 DEF TypeOK
  <2>3. x \in todo /\ Becomes(Outcomes(x, view))
    BY <2>2 DEF Visit
  <2>4. phase \in Loops /\ Fits(x) /\ creating = {}
    BY <2>1, <2>3 DEF TypeOK, TodoFits, Visit
  <2>5. PICK st \in Outcomes(x, view) : live' = st.live
    BY <2>3 DEF Becomes
  <2> QED BY <2>1, <2>2, <2>4, <2>5, OutcomesKeep
<1> QED BY <1>1, IInit, INext, PTL DEF Spec, KeepsWhatMasterHas
=============================================================================
