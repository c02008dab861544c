-------------------------- MODULE Mt4Events_proofs --------------------------
(***************************************************************************)
(* Proofs about Mt4Events, for any number of orders.                       *)
(***************************************************************************)
EXTENDS Mt4Events, FiniteSetTheorems, TLAPS

-----------------------------------------------------------------------------
(* Recursion along a chain that only goes down.                            *)

\* A nonempty set of natural numbers has a least element: else what is above it,
\* up to one of its elements, could be moved down by one, and is finite.
LEMMA LeastElement ==
    ASSUME NEW S \in SUBSET Nat, NEW n \in S
    PROVE  \E x \in S : \A y \in S : x <= y
<1> SUFFICES ASSUME \A x \in S : \E y \in S : y < x
             PROVE  FALSE
  OBVIOUS
<1> DEFINE U == {u \in 0..n : \E x \in S : x <= u}
           f == [u \in U |-> u - 1]
<1>1. n \in Nat /\ n \in U
  OBVIOUS
<1>2. IsFiniteSet(0..n)
  BY <1>1, FS_Interval
<1>3. IsFiniteSet(U) /\ Cardinality(U) \in Nat
  BY <1>2, FS_Subset, FS_CardinalityType
<1>4. IsFiniteSet(U \ {n}) /\ Cardinality(U \ {n}) = Cardinality(U) - 1
  BY <1>1, <1>3, FS_RemoveElement
<1>5. ASSUME NEW u \in U PROVE u - 1 \in U \ {n}
  <2>1. PICK x \in S : x <= u
    OBVIOUS
  <2>2. PICK y \in S : y < x
    OBVIOUS
  <2>3. x \in Nat /\ y \in Nat /\ u \in 0..n
    OBVIOUS
  <2>4. y <= u - 1 /\ u - 1 \in 0..n /\ u - 1 # n
    BY <1>1, <2>1, <2>2, <2>3
  <2> QED BY <2>4
<1>6. f \in [U -> U \ {n}]
  BY <1>5
<1>7. Cardinality(U \ {n}) < Cardinality(U)
  BY <1>3, <1>4
<1> HIDE DEF U
<1>8. \E u, v \in U : u # v /\ f[u] = f[v]
  <2> HIDE DEF f
  <2> QED BY <1>3, <1>4, <1>6, <1>7, FS_PigeonHole
<1>9. \A u \in U : u \in Nat
  BY <1>1 DEF U
<1> QED BY <1>8, <1>9

\* A map on tickets that leads to earlier ones, and where it ends.
Downward(step) ==
    /\ step \in [Tickets -> Tickets \cup {NoTicket}]
    /\ \A t \in Tickets : step[t] < t

Ends(step, end) ==
    end = [t \in Tickets |-> IF step[t] = NoTicket THEN t ELSE end[step[t]]]

\* Following it is well defined.
LEMMA EndsExist ==
    ASSUME NEW step, Downward(step)
    PROVE  \E end : Ends(step, end)
<1> DEFINE Upto(n, f) ==
              f = [t \in 1..n |-> IF step[t] = NoTicket THEN t ELSE f[step[t]]]
           Bad == {n \in 0..MaxTicket : ~\E f : Upto(n, f)}
<1>0. MaxTicket \in Nat
  BY TicketsAssumption
<1>1. Bad = {}
  <2> SUFFICES ASSUME NEW m \in Bad PROVE FALSE
    OBVIOUS
  <2>1. Bad \in SUBSET Nat
    OBVIOUS
  <2>2. PICK n \in Bad : \A k \in Bad : n <= k
    <3> HIDE DEF Bad
    <3> QED BY <2>1, LeastElement
  <2>3. n # 0
    <3>1. Upto(0, [t \in {} |-> 0])
      OBVIOUS
    <3> HIDE DEF Upto
    <3> QED BY <3>1
  <2>4. n - 1 \in 0..MaxTicket /\ n - 1 \notin Bad
    BY <1>0, <2>2, <2>3
  <2>5. PICK f : Upto(n - 1, f)
    BY <2>4
  <2> DEFINE g == [t \in 1..n |-> IF t # n THEN f[t]
                                  ELSE IF step[n] = NoTicket THEN n ELSE f[step[n]]]
  <2>6. Upto(n, g)
    <3>1. \A t \in 1..n : step[t] = NoTicket \/ step[t] \in 1..(n - 1)
      BY <1>0 DEF Downward, Tickets, NoTicket
    <3>2. \A t \in 1..(n - 1) : f[t] = IF step[t] = NoTicket THEN t ELSE f[step[t]]
      BY <2>5
    <3>3. \A t \in 1..(n - 1) : g[t] = f[t]
      BY <2>3
    <3>4. \A t \in 1..n : t = n \/ t \in 1..(n - 1)
      OBVIOUS
    <3>5. \A t \in 1..n : g[t] = IF step[t] = NoTicket THEN t ELSE g[step[t]]
      BY <3>1, <3>2, <3>3, <3>4
    <3> QED BY <3>5
  <2> QED BY <2>2, <2>6
<1>2. \E f : Upto(MaxTicket, f)
  BY <1>0, <1>1
<1> QED BY <1>2 DEF Ends, Tickets

\* It leads to a ticket that is not later, and does not lead on.
LEMMA EndsBelow ==
    ASSUME NEW step, Downward(step), NEW end, Ends(step, end)
    PROVE  /\ end \in [Tickets -> Tickets]
           /\ \A t \in Tickets : end[t] <= t /\ step[end[t]] = NoTicket
           /\ \A t \in Tickets : step[t] = NoTicket => end[t] = t
           /\ \A t \in Tickets : step[t] # NoTicket => end[t] = end[step[t]]
<1> DEFINE Bad == {t \in Tickets : ~(/\ end[t] \in Tickets /\ end[t] <= t
                                    /\ step[end[t]] = NoTicket)}
<1>1. \A t \in Tickets : end[t] = IF step[t] = NoTicket THEN t ELSE end[step[t]]
  BY DEF Ends
<1>2. Bad = {}
  <2> SUFFICES ASSUME NEW u \in Bad PROVE FALSE
    OBVIOUS
  <2>1. Bad \in SUBSET Nat
    BY DEF Tickets
  <2>2. PICK t \in Bad : \A k \in Bad : t <= k
    <3> HIDE DEF Bad
    <3> QED BY <2>1, LeastElement
  <2>3. step[t] \in Tickets /\ step[t] < t /\ end[t] = end[step[t]]
    BY <1>1, <2>2, TicketsAssumption DEF Downward, Tickets
  <2>4. step[t] \notin Bad
    BY <2>2, <2>3, TicketsAssumption DEF Tickets
  <2> QED BY <2>2, <2>3, <2>4, TicketsAssumption DEF Tickets
<1>3. DOMAIN end = Tickets /\ end = [t \in Tickets |-> end[t]]
  BY DEF Ends
<1> QED BY <1>1, <1>2, <1>3

\* The first order of a chain.
LEMMA RootEnds ==
    ASSUME Downward(parent)
    PROVE  Ends(parent, Root)
<1> DEFINE First(f) == f = [t \in Tickets |-> IF parent[t] = NoTicket THEN t ELSE f[parent[t]]]
<1>1. PICK end : First(end)
  BY EndsExist DEF Ends
<1>2. Root = CHOOSE f : First(f)
  BY DEF Root
<1>3. First(Root)
  <2> HIDE DEF First
  <2> QED BY <1>1, <1>2
<1> QED BY <1>3 DEF Ends

LEMMA RootEndsNext ==
    ASSUME Downward(parent')
    PROVE  Ends(parent', Root')
<1> DEFINE First(f) == f = [t \in Tickets |-> IF parent'[t] = NoTicket THEN t ELSE f[parent'[t]]]
<1>1. PICK end : First(end)
  BY EndsExist DEF Ends
<1>2. Root' = CHOOSE f : First(f)
  BY DEF Root
<1>3. First(Root')
  <2> HIDE DEF First
  <2> QED BY <1>1, <1>2
<1> QED BY <1>3 DEF Ends

\* Where GetUltimateMasterTicket goes from a ticket.
Higher ==
    [t \in Tickets |-> IF named[t] \notin {t, NoTicket} THEN named[t]
                                                        ELSE CommentParent(t)]

\* GetUltimateMasterTicket goes on until nothing is registered or written of a parent.
LEMMA UltimateEnds ==
    ASSUME Downward(Higher)
    PROVE  \E end : /\ Ends(Higher, end)
                    /\ \A t \in Tickets : GetUltimateMasterTicket(t) = end[t]
<1> DEFINE Up(f) == f = [t \in Tickets |->
                IF named[t] \notin {t, NoTicket} THEN f[named[t]]
                ELSE IF CommentParent(t) = NoTicket THEN t ELSE f[CommentParent(t)]]
<1>1. \A f : Ends(Higher, f) <=> Up(f)
  <2> TAKE f
  <2>1. \A t \in Tickets :
           (IF Higher[t] = NoTicket THEN t ELSE f[Higher[t]])
           = IF named[t] \notin {t, NoTicket} THEN f[named[t]]
             ELSE IF CommentParent(t) = NoTicket THEN t ELSE f[CommentParent(t)]
    BY DEF Higher
  <2>2. [t \in Tickets |-> IF Higher[t] = NoTicket THEN t ELSE f[Higher[t]]]
        = [t \in Tickets |-> IF named[t] \notin {t, NoTicket} THEN f[named[t]]
             ELSE IF CommentParent(t) = NoTicket THEN t ELSE f[CommentParent(t)]]
    BY <2>1
  <2> QED BY <2>2 DEF Ends
<1>2. PICK end : Up(end)
  BY <1>1, EndsExist
<1>3. \A t \in Tickets : GetUltimateMasterTicket(t) = (CHOOSE f : Up(f))[t]
  BY DEF GetUltimateMasterTicket
<1>4. Up(CHOOSE f : Up(f))
  <2> HIDE DEF Up
  <2> QED BY <1>2
<1> HIDE DEF Up
<1> QED BY <1>1, <1>3, <1>4

-----------------------------------------------------------------------------
(* The inductive invariant.                                                *)

\* The EA knows nothing of tickets that are not used yet, and they are used in order.
UsedInOrder ==
    \A t \in Tickets :
        /\ book[t] = "none" =>
              /\ parent[t] = NoTicket /\ named[t] = NoTicket /\ original[t] = NoTicket
              /\ t \notin astray /\ \A entry \in draft : entry[1] # t
        /\ book[t] # "none" => \A u \in Tickets : u < t => book[u] # "none"

\* The rest of an order is later, and only a parted order has one.
Chains ==
    \A t \in Tickets : parent[t] # NoTicket =>
        parent[t] < t /\ book[parent[t]] = "parted"

\* Tickets are registered for themselves or for an earlier one.
NamedDownward == \A t \in Tickets : named[t] <= t

\* What is registered of an order that did not go astray is the first of its chain.
NamedByRoot ==
    \A t \in Tickets \ astray : /\ named[t] \in {NoTicket, Root[t]}
                                /\ original[t] \in {NoTicket, Root[t]}

\* The EA had seen the order that it is the rest of.
SeenInTime ==
    /\ \A t \in Tickets \ astray : parent[t] # NoTicket =>
          /\ parent[t] \notin astray
          /\ parent[parent[t]] = NoTicket \/ named[parent[t]] # NoTicket
    /\ \A t \in astray : parent[t] # NoTicket

\* A snapshot is a draft only while it is built.
DraftInTime == pc \notin {"orders", "collect"} => draft = {}

\* A scan that met no blank terminal has visited the orders the EA knows, or will.
ScanComplete ==
    ~blind /\ pc \in {"list", "vanished"} =>
        /\ ~blank
        /\ \A t \in Tickets : original[t] # NoTicket /\ book[t] \in {"pending", "open"} =>
              t \in active \/ (pc = "list" /\ t \in todo)

Known == UsedInOrder /\ Chains /\ NamedDownward /\ NamedByRoot /\ SeenInTime

IInv == TypeOK /\ Known /\ DraftInTime /\ ScanComplete /\ ToldAsOne

\* Parents and registered tickets lead down.
LEMMA LeadDown ==
    ASSUME TypeOK, Chains, NamedDownward
    PROVE  Downward(parent) /\ Downward(Higher)
<1>1. Downward(parent)
  BY DEF TypeOK, Chains, Downward, NoTicket, Tickets
<1>2. \A t \in Tickets : CommentParent(t) \in {parent[t], NoTicket}
  BY DEF CommentParent
<1>3. Downward(Higher)
  BY <1>1, <1>2 DEF TypeOK, NamedDownward, Downward, Higher, NoTicket, Tickets
<1> QED BY <1>1, <1>3

\* The first of a chain.
LEMMA RootFacts ==
    ASSUME TypeOK, Chains, NamedDownward
    PROVE  \A t \in Tickets : /\ Root[t] \in Tickets /\ Root[t] <= t
                              /\ parent[Root[t]] = NoTicket
                              /\ parent[t] = NoTicket => Root[t] = t
                              /\ parent[t] # NoTicket => Root[t] = Root[parent[t]]
BY LeadDown, RootEnds, EndsBelow

\* What the EA finds is a ticket that is not later.
LEMMA UltimateTicket ==
    ASSUME TypeOK, Chains, NamedDownward, NEW t \in Tickets
    PROVE  GetUltimateMasterTicket(t) \in Tickets /\ GetUltimateMasterTicket(t) <= t
<1>1. PICK end : /\ Ends(Higher, end)
                 /\ \A u \in Tickets : GetUltimateMasterTicket(u) = end[u]
  BY LeadDown, UltimateEnds
<1> QED BY <1>1, LeadDown, EndsBelow

\* Of an order that did not go astray, it finds the first of the chain.
LEMMA UltimateRoot ==
    ASSUME TypeOK, Known, NEW t \in Tickets \ astray, parent[t] # NoTicket
    PROVE  GetUltimateMasterTicket(parent[t]) = Root[t]
<1>0. Chains /\ NamedDownward /\ NamedByRoot /\ SeenInTime
  BY DEF Known
<1> DEFINE u == parent[t]
           r == Root[u]
<1>1. u \in Tickets \ astray /\ (parent[u] = NoTicket \/ named[u] # NoTicket)
  BY <1>0 DEF SeenInTime, TypeOK
<1>2. /\ r \in Tickets /\ parent[r] = NoTicket /\ Root[r] = r /\ r \notin astray
      /\ Root[t] = r /\ (parent[u] = NoTicket => r = u) /\ (parent[u] # NoTicket => r < u)
  <2>1. r \in Tickets /\ parent[r] = NoTicket /\ Root[r] = r /\ Root[t] = r
    BY <1>0, <1>1, RootFacts
  <2>2. r \notin astray
    BY <1>0, <2>1 DEF SeenInTime
  <2>3. parent[u] = NoTicket => r = u
    BY <1>0, <1>1, RootFacts
  <2>4. parent[u] # NoTicket => r < u
    <3> SUFFICES ASSUME parent[u] # NoTicket PROVE r < u
      OBVIOUS
    <3>1. parent[u] \in Tickets /\ parent[u] < u
      BY <1>0, <1>1 DEF Chains, TypeOK
    <3>2. r = Root[parent[u]] /\ Root[parent[u]] <= parent[u]
      BY <1>0, <1>1, <3>1, RootFacts
    <3> QED BY <1>1, <2>1, <3>1, <3>2, TicketsAssumption DEF Tickets
  <2> QED BY <2>1, <2>2, <2>3, <2>4
<1>3. PICK end : /\ Ends(Higher, end)
                 /\ \A v \in Tickets : GetUltimateMasterTicket(v) = end[v]
  BY <1>0, LeadDown, UltimateEnds
<1>4. /\ \A v \in Tickets : Higher[v] = NoTicket => end[v] = v
      /\ \A v \in Tickets : Higher[v] # NoTicket => end[v] = end[Higher[v]]
  BY <1>0, <1>3, LeadDown, EndsBelow
<1>5. \A v \in Tickets : parent[v] = NoTicket => CommentParent(v) = NoTicket
  BY DEF CommentParent
<1>6. named[r] \in {NoTicket, r} /\ named[u] \in {NoTicket, r}
  BY <1>0, <1>1, <1>2 DEF NamedByRoot
<1>7. end[r] = r
  BY <1>2, <1>4, <1>5, <1>6 DEF Higher
<1>8. end[u] = r
  <2>1. CASE r = u
    BY <1>7, <2>1
  <2>2. CASE r # u
    <3>1. named[u] = r /\ r # NoTicket
      BY <1>1, <1>2, <1>6, <2>2 DEF Tickets, NoTicket
    <3>2. Higher[u] = r
      BY <1>1, <2>2, <3>1 DEF Higher
    <3> QED BY <1>1, <1>4, <1>7, <3>1, <3>2
  <2> QED BY <2>1, <2>2
<1> QED BY <1>1, <1>2, <1>3, <1>8

\* The ticket of an order that is selected.
LEMMA ResolveTicket ==
    ASSUME TypeOK, Known, NEW t \in Tickets
    PROVE  LET ticket == ResolveLifecycleTicketForOrder(t)
           IN  /\ ticket \in Tickets /\ ticket <= t
               /\ t \notin astray => ticket = Root[t]
<1>0. Chains /\ NamedDownward /\ NamedByRoot
  BY DEF Known
<1>1. CASE named[t] # NoTicket
  BY <1>0, <1>1 DEF ResolveLifecycleTicketForOrder, NamedDownward, NamedByRoot, TypeOK
<1>2. CASE named[t] = NoTicket /\ parent[t] # NoTicket
  <2>1. parent[t] \in Tickets /\ parent[t] < t
    BY <1>0, <1>2 DEF Chains, TypeOK
  <2>2. /\ GetUltimateMasterTicket(parent[t]) \in Tickets
        /\ GetUltimateMasterTicket(parent[t]) <= parent[t]
    BY <1>0, <2>1, UltimateTicket
  <2>3. ResolveLifecycleTicketForOrder(t) = GetUltimateMasterTicket(parent[t])
    BY <1>2 DEF ResolveLifecycleTicketForOrder
  <2>4. t \notin astray => GetUltimateMasterTicket(parent[t]) = Root[t]
    BY <1>2, UltimateRoot
  <2>5. GetUltimateMasterTicket(parent[t]) <= t
    BY <2>1, <2>2, TicketsAssumption DEF Tickets
  <2> QED BY <2>2, <2>3, <2>4, <2>5
<1>3. CASE named[t] = NoTicket /\ parent[t] = NoTicket
  <2>1. ResolveLifecycleTicketForOrder(t) = t /\ Root[t] = t
    BY <1>0, <1>3, RootFacts DEF ResolveLifecycleTicketForOrder
  <2> QED BY <2>1, TicketsAssumption DEF Tickets
<1> QED BY <1>1, <1>2, <1>3

-----------------------------------------------------------------------------
(* The invariant holds.                                                    *)

\* Nothing is known of any order.
LEMMA IInit == Init => IInv
<1> SUFFICES ASSUME Init PROVE IInv
  OBVIOUS
<1>1. TypeOK
  BY DEF Init, TypeOK, Phases
<1>2. UsedInOrder /\ Chains /\ NamedByRoot /\ SeenInTime
  BY DEF Init, UsedInOrder, Chains, NamedByRoot, SeenInTime
<1>3. NamedDownward
  BY TicketsAssumption DEF Init, NamedDownward, Tickets, NoTicket
<1>4. DraftInTime /\ ScanComplete /\ ToldAsOne
  BY DEF Init, DraftInTime, ScanComplete, ToldAsOne
<1> QED BY <1>1, <1>2, <1>3, <1>4 DEF IInv, Known

\* Chains stay what they are.
LEMMA RootKept == parent' = parent => Root' = Root
BY DEF Root

\* The broker places, fills and closes orders that have no rest.
LEMMA BrokerStep ==
    ASSUME IInv, NEW t \in Tickets, Place(t) \/ Fill(t) \/ Close(t)
    PROVE  IInv'
<1> USE DEF eaVars
<1>0. TypeOK /\ Known /\ DraftInTime /\ ScanComplete /\ ToldAsOne
  BY DEF IInv
<1>1. PICK state \in {"pending", "open", "closed"} : book' = [book EXCEPT ![t] = state]
  BY DEF Place, Fill, Close
<1>2. /\ UNCHANGED <<parent, blank, eaVars, astray, blind>> /\ said' = {}
      /\ \/ book[t] \in {"pending", "open"}
         \/ Unused(t)
  BY DEF Place, Fill, Close
<1>3. TypeOK'
  BY <1>0, <1>1, <1>2 DEF TypeOK
<1>4. UsedInOrder'
  BY <1>0, <1>1, <1>2, TicketsAssumption DEF Known, UsedInOrder, Unused, TypeOK, Tickets
<1>5. Chains'
  BY <1>0, <1>1, <1>2 DEF Known, Chains, Unused, TypeOK
<1>6. NamedDownward' /\ NamedByRoot' /\ SeenInTime'
  BY <1>0, <1>2, RootKept DEF Known, NamedDownward, NamedByRoot, SeenInTime
<1>7. DraftInTime' /\ ToldAsOne'
  BY <1>0, <1>2, RootKept DEF DraftInTime, ToldAsOne
<1>8. ScanComplete'
  <2>1. book[t] \notin {"pending", "open"} => original[t] = NoTicket
    BY <1>0, <1>2 DEF Known, UsedInOrder, Unused
  <2> QED BY <1>0, <1>1, <1>2, <2>1 DEF ScanComplete, TypeOK
<1> QED BY <1>3, <1>4, <1>5, <1>6, <1>7, <1>8 DEF IInv, Known

\* A rest is a new order, of which nothing is known; it goes astray with its order.
LEMMA ClosePartStep ==
    ASSUME IInv, NEW t \in Tickets, NEW rest \in Tickets, ClosePart(t, rest)
    PROVE  IInv'
<1> USE DEF eaVars
<1>0. TypeOK /\ Known /\ DraftInTime /\ ScanComplete /\ ToldAsOne
  BY DEF IInv
<1>0a. UsedInOrder /\ Chains /\ NamedDownward /\ NamedByRoot /\ SeenInTime
  BY <1>0 DEF Known
<1>1. /\ book[t] = "open" /\ book[rest] = "none" /\ t # rest
      /\ \A u \in Tickets : u < rest => book[u] # "none"
      /\ UNCHANGED <<blank, eaVars, blind>> /\ said' = {}
  BY DEF ClosePart, Unused
<1>2. /\ book'[t] = "parted" /\ book'[rest] = "open"
      /\ \A u \in Tickets \ {t, rest} : book'[u] = book[u]
      /\ parent'[rest] = t
      /\ \A u \in Tickets \ {rest} : parent'[u] = parent[u]
  BY <1>0, <1>1 DEF ClosePart, TypeOK
<1>3. /\ astray \subseteq astray' /\ astray' \subseteq astray \cup {rest}
      /\ rest \notin astray' =>
            t \notin astray /\ (parent[t] = NoTicket \/ named[t] # NoTicket)
  BY DEF ClosePart
<1>4. TypeOK'
  <2>1. book' \in [Tickets -> {"none", "pending", "open", "closed", "parted"}]
    BY <1>0 DEF ClosePart, TypeOK
  <2>2. parent' \in [Tickets -> Tickets \cup {NoTicket}]
    BY <1>0 DEF ClosePart, TypeOK
  <2>3. astray' \in SUBSET Tickets
    BY <1>0, <1>3 DEF TypeOK
  <2> QED BY <1>0, <1>1, <2>1, <2>2, <2>3 DEF TypeOK
<1>5. t < rest
  <2>1. ~(rest < t)
    BY <1>0a, <1>1 DEF UsedInOrder
  <2> QED BY <1>1, <2>1, TicketsAssumption DEF Tickets
<1>6. UsedInOrder'
  <2> SUFFICES ASSUME NEW u \in Tickets
               PROVE  /\ book'[u] = "none" =>
                            /\ parent'[u] = NoTicket /\ named'[u] = NoTicket
                            /\ original'[u] = NoTicket
                            /\ u \notin astray' /\ \A entry \in draft' : entry[1] # u
                      /\ book'[u] # "none" =>
                            \A v \in Tickets : v < u => book'[v] # "none"
    BY DEF UsedInOrder
  <2>1. \A v \in Tickets : book'[v] = "none" => v \notin {t, rest} /\ book[v] = "none"
    BY <1>2
  <2>2. book'[u] = "none" => /\ parent'[u] = NoTicket /\ named'[u] = NoTicket
                             /\ original'[u] = NoTicket
                             /\ u \notin astray' /\ \A entry \in draft' : entry[1] # u
    BY <1>0a, <1>1, <1>2, <1>3, <2>1 DEF UsedInOrder
  <2>3. ASSUME book'[u] # "none", NEW v \in Tickets, v < u, book'[v] = "none"
        PROVE  FALSE
    <3>1. v \notin {t, rest} /\ book[v] = "none"
      BY <2>1, <2>3
    <3>2. CASE u = rest
      BY <1>1, <2>3, <3>1, <3>2
    <3>3. CASE u # rest
      <4>1. book[u] # "none"
        BY <1>1, <1>2, <2>3, <3>3
      <4> QED BY <1>0a, <2>3, <3>1, <4>1 DEF UsedInOrder
    <3> QED BY <3>2, <3>3
  <2> QED BY <2>2, <2>3
<1>7. Chains'
  <2> SUFFICES ASSUME NEW u \in Tickets, parent'[u] # NoTicket
               PROVE  parent'[u] < u /\ book'[parent'[u]] = "parted"
    BY DEF Chains
  <2>1. CASE u = rest
    BY <1>2, <1>5, <2>1
  <2>2. CASE u # rest
    <3>1. parent'[u] = parent[u] /\ parent[u] \in Tickets
      BY <1>0, <1>2, <2>2 DEF TypeOK
    <3>2. parent[u] < u /\ book[parent[u]] = "parted"
      BY <1>0a, <3>1 DEF Chains
    <3> QED BY <1>1, <1>2, <3>1, <3>2
  <2> QED BY <2>1, <2>2
<1>8. NamedDownward'
  BY <1>0a, <1>1 DEF NamedDownward
<1>9. \A u \in Tickets \ {rest} : Root'[u] = Root[u]
  <2> DEFINE Bad == {u \in Tickets \ {rest} : Root'[u] # Root[u]}
  <2> SUFFICES ASSUME NEW v \in Bad PROVE FALSE
    OBVIOUS
  <2>1. Bad \in SUBSET Nat
    BY DEF Tickets
  <2>2. PICK u \in Bad : \A k \in Bad : u <= k
    <3> HIDE DEF Bad
    <3> QED BY <2>1, LeastElement
  <2>3. /\ parent'[u] = parent[u]
        /\ Root[u] = IF parent[u] = NoTicket THEN u ELSE Root[parent[u]]
    BY <1>0, <1>0a, <1>2, RootFacts
  <2>4. Root'[u] = IF parent[u] = NoTicket THEN u ELSE Root'[parent[u]]
    <3>1. Downward(parent')
      BY <1>4, <1>7 DEF TypeOK, Chains, Downward, NoTicket, Tickets
    <3>2. Ends(parent', Root')
      BY <3>1, RootEndsNext
    <3> QED BY <2>3, <3>2 DEF Ends
  <2>5. parent[u] \in Tickets /\ parent[u] < u /\ parent[u] # rest
    <3>1. parent[u] \in Tickets
      BY <1>0, <2>2, <2>3, <2>4 DEF TypeOK
    <3> QED BY <1>0a, <1>1, <3>1, TicketsAssumption DEF Chains, Tickets, NoTicket
  <2>6. parent[u] \in Bad
    BY <2>2, <2>3, <2>4, <2>5, TicketsAssumption DEF Tickets, NoTicket
  <2> QED BY <2>2, <2>5, <2>6, TicketsAssumption DEF Tickets
<1>10. named[rest] = NoTicket /\ original[rest] = NoTicket
       /\ \A entry \in draft : entry[1] # rest
  BY <1>0a, <1>1 DEF UsedInOrder
<1>11. NamedByRoot'
  BY <1>0a, <1>1, <1>3, <1>9, <1>10 DEF NamedByRoot
<1>12. SeenInTime'
  <2>1. \A u \in Tickets : parent'[u] # NoTicket => parent'[u] # rest
    BY <1>0a, <1>1, <1>2 DEF Chains
  <2>2. ASSUME NEW u \in Tickets \ astray', parent'[u] # NoTicket
        PROVE  /\ parent'[u] \notin astray'
               /\ parent'[parent'[u]] = NoTicket \/ named'[parent'[u]] # NoTicket
    <3>1. parent'[u] \in Tickets \ {rest} /\ parent'[parent'[u]] = parent[parent'[u]]
      BY <1>2, <1>4, <2>1, <2>2 DEF TypeOK
    <3>2. CASE u = rest
      BY <1>1, <1>2, <1>3, <2>2, <3>1, <3>2
    <3>3. CASE u # rest
      <4>1. parent'[u] = parent[u] /\ u \notin astray
        BY <1>2, <1>3, <2>2, <3>3
      <4> QED BY <1>0a, <1>1, <1>3, <2>2, <3>1, <4>1 DEF SeenInTime
    <3> QED BY <3>2, <3>3
  <2>3. \A u \in astray' : parent'[u] # NoTicket
    BY <1>0, <1>0a, <1>2, <1>3 DEF SeenInTime, TypeOK, Tickets, NoTicket
  <2> QED BY <2>2, <2>3 DEF SeenInTime
<1>13. DraftInTime'
  BY <1>0, <1>1 DEF DraftInTime
<1>14. ToldAsOne'
  <2>1. \A entry \in draft : entry[1] \in Tickets \ {rest}
    BY <1>0, <1>10 DEF TypeOK
  <2> QED BY <1>0, <1>1, <1>3, <1>9, <2>1 DEF ToldAsOne
<1>15. ScanComplete'
  BY <1>0, <1>1, <1>2, <1>10 DEF ScanComplete
<1> QED BY <1>4, <1>6, <1>7, <1>8, <1>11, <1>12, <1>13, <1>14, <1>15 DEF IInv, Known

\* The terminal's connection.
LEMMA ConnectionStep == IInv /\ Connection => IInv'
<1> SUFFICES ASSUME IInv, Connection PROVE IInv'
  OBVIOUS
<1> USE DEF eaVars
<1>0. TypeOK /\ Known /\ DraftInTime /\ ScanComplete /\ ToldAsOne
  BY DEF IInv
<1>1. /\ UNCHANGED <<book, parent, eaVars, astray>> /\ said' = {}
      /\ blank' \in BOOLEAN
      /\ blind' \in BOOLEAN
      /\ ~blind' => ~blind /\ ~(blank' /\ pc \in {"list", "vanished"})
  BY <1>0 DEF Connection, TypeOK
<1>2. TypeOK'
  BY <1>0, <1>1 DEF TypeOK
<1>3. Known'
  BY <1>0, <1>1, RootKept DEF Known, UsedInOrder, Chains, NamedDownward, NamedByRoot,
                              SeenInTime
<1>4. DraftInTime' /\ ScanComplete' /\ ToldAsOne'
  BY <1>0, <1>1, RootKept DEF DraftInTime, ScanComplete, ToldAsOne
<1> QED BY <1>2, <1>3, <1>4 DEF IInv

\* After a restart nothing is registered, and only orders with two ancestors go astray.
LEMMA ReinitializeStep == IInv /\ Reinitialize => IInv'
<1> SUFFICES ASSUME IInv, Reinitialize PROVE IInv'
  OBVIOUS
<1>0. TypeOK /\ Known /\ DraftInTime /\ ScanComplete /\ ToldAsOne
  BY DEF IInv
<1>1. /\ reportedOpen' = {} /\ reportedClosed' = {} /\ lastSnapshot' = {} /\ said' = {}
      /\ original' = [t \in Tickets |-> NoTicket] /\ named' = [t \in Tickets |-> NoTicket]
      /\ astray' = {t \in Tickets : parent[t] # NoTicket /\ parent[parent[t]] # NoTicket}
      /\ UNCHANGED <<book, parent, blank, active, todo, pc, draft, blind>> /\ pc = "idle"
  BY DEF Reinitialize, ReconcileInitialState, brokerVars
<1>2. TypeOK'
  BY <1>0, <1>1 DEF TypeOK
<1>3. UsedInOrder' /\ Chains'
  BY <1>0, <1>1 DEF Known, UsedInOrder, Chains
<1>4. NamedDownward'
  BY <1>1, TicketsAssumption DEF NamedDownward, Tickets, NoTicket
<1>5. NamedByRoot'
  BY <1>1 DEF NamedByRoot
<1>6. SeenInTime'
  BY <1>0, <1>1 DEF SeenInTime, TypeOK
<1>7. draft = {}
  BY <1>0, <1>1 DEF DraftInTime
<1>8. DraftInTime' /\ ScanComplete' /\ ToldAsOne'
  BY <1>1, <1>7 DEF DraftInTime, ScanComplete, ToldAsOne
<1> QED BY <1>2, <1>3, <1>4, <1>5, <1>6, <1>8 DEF IInv, Known

\* What the visit of an order says and stores: the first order of its chain.
LEMMA SaysRoot ==
    ASSUME TypeOK, Known, NEW t \in Tickets, ListNew(t) \/ ListRest(t) \/ ListKnown(t)
    PROVE  \E stored \in Tickets :
              /\ original' = [original EXCEPT ![t] = stored]
              /\ t \notin astray => stored = Root[t]
              /\ \A event \in said' : \E kind \in {"placed", "modified"} :
                    event = Event(kind, t, stored)
<1>1. /\ ResolveLifecycleTicketForOrder(t) \in Tickets
      /\ t \notin astray => ResolveLifecycleTicketForOrder(t) = Root[t]
  BY ResolveTicket
<1>2. parent[t] # NoTicket =>
         /\ GetUltimateMasterTicket(parent[t]) \in Tickets
         /\ t \notin astray => GetUltimateMasterTicket(parent[t]) = Root[t]
  <2>1. Chains /\ NamedDownward
    BY DEF Known
  <2>2. parent[t] \in Tickets \cup {NoTicket}
    BY DEF TypeOK
  <2> QED BY <2>1, <2>2, UltimateTicket, UltimateRoot
<1>3. original[t] # NoTicket =>
         original[t] \in Tickets /\ (t \notin astray => original[t] = Root[t])
  BY DEF Known, NamedByRoot, TypeOK
<1>4. CASE ListNew(t)
  BY <1>1, <1>4 DEF ListNew, Says
<1>5. CASE ListRest(t)
  <2>1. Says(t, {Event("modified", t, GetUltimateMasterTicket(parent[t]))},
             GetUltimateMasterTicket(parent[t]))
        \/ Says(t, {}, GetUltimateMasterTicket(parent[t]))
    BY <1>5 DEF ListRest
  <2>2. parent[t] # NoTicket
    BY <1>5 DEF ListRest
  <2> QED BY <1>2, <2>1, <2>2 DEF Says
<1>6. CASE ListKnown(t)
  <2>1. CASE Says(t, {}, ResolveLifecycleTicketForOrder(t))
    BY <1>1, <2>1 DEF Says
  <2>2. ASSUME NEW ticket \in Tickets, t \notin astray => ticket = Root[t],
               Says(t, {Event("modified", t, ticket)}, ticket)
        PROVE  \E stored \in Tickets :
                  /\ original' = [original EXCEPT ![t] = stored]
                  /\ t \notin astray => stored = Root[t]
                  /\ \A event \in said' : \E kind \in {"placed", "modified"} :
                        event = Event(kind, t, stored)
    BY <2>2 DEF Says
  <2>3. CASE \/ parent[t] # NoTicket /\ LET ticket == GetUltimateMasterTicket(parent[t])
                                        IN  Says(t, {Event("modified", t, ticket)}, ticket)
             \/ original[t] # NoTicket /\ Says(t, {Event("modified", t, original[t])}, original[t])
    BY <1>2, <1>3, <2>2, <2>3
  <2> QED BY <1>6, <2>1, <2>3 DEF ListKnown
<1> QED BY <1>4, <1>5, <1>6

\* Registering tickets that resolve so changes nothing that was known.
LEMMA RegisterStep ==
    ASSUME IInv, NEW S \in SUBSET Tickets, \A t \in S : book[t] # "none",
           UNCHANGED <<book, parent, astray>>,
           named' = [t \in Tickets |-> IF t \in S THEN ResolveLifecycleTicketForOrder(t)
                                                  ELSE named[t]],
           \A t \in Tickets : \/ original'[t] \in {original[t], NoTicket}
                              \/ t \in S /\ (t \notin astray => original'[t] = Root[t]),
           \A entry \in draft' : book[entry[1]] # "none"
    PROVE  Known' /\ named' \in [Tickets -> Tickets \cup {NoTicket}]
<1>0. TypeOK /\ Known /\ UsedInOrder /\ Chains /\ NamedDownward /\ NamedByRoot /\ SeenInTime
  BY DEF IInv, Known
<1>1. \A t \in S : /\ named'[t] \in Tickets /\ named'[t] <= t
                   /\ t \notin astray => named'[t] = Root[t]
  BY <1>0, ResolveTicket
<1>2. \A t \in Tickets \ S : named'[t] = named[t]
  OBVIOUS
<1>3. \A t \in Tickets : named[t] # NoTicket => named'[t] # NoTicket
  BY <1>1, <1>2 DEF Tickets, NoTicket
<1>4. UsedInOrder'
  BY <1>0, <1>2 DEF UsedInOrder
<1>5. Chains'
  BY <1>0 DEF Chains
<1>6. NamedDownward'
  BY <1>0, <1>1, <1>2 DEF NamedDownward
<1>7. NamedByRoot'
  BY <1>0, <1>1, <1>2, RootKept DEF NamedByRoot
<1>8. SeenInTime'
  BY <1>0, <1>3 DEF SeenInTime, TypeOK
<1>9. named' \in [Tickets -> Tickets \cup {NoTicket}]
  BY <1>0, <1>1, <1>2 DEF TypeOK
<1> QED BY <1>4, <1>5, <1>6, <1>7, <1>8, <1>9 DEF Known

\* The scan visits an order.
LEMMA ListOrderStep ==
    ASSUME IInv, NEW t \in Tickets, ListOrder(t)
    PROVE  IInv'
<1> USE DEF brokerVars
<1>0. TypeOK /\ Known /\ DraftInTime /\ ScanComplete /\ ToldAsOne
  BY DEF IInv
<1>1. /\ pc = "list" /\ t \in Shown
      /\ todo' = todo \ {t} /\ active' = active \cup {t}
      /\ reportedOpen' = reportedOpen \cup {t}
      /\ UNCHANGED <<book, parent, blank, reportedClosed, lastSnapshot, pc, draft, astray,
                     blind>>
      /\ named' = [named EXCEPT ![t] = ResolveLifecycleTicketForOrder(t)]
      /\ ListNew(t) \/ ListRest(t) \/ ListKnown(t)
  BY DEF ListOrder
<1>2. PICK stored \in Tickets :
         /\ original' = [original EXCEPT ![t] = stored]
         /\ t \notin astray => stored = Root[t]
         /\ \A event \in said' : \E kind \in {"placed", "modified"} :
               event = Event(kind, t, stored)
  BY <1>0, <1>1, SaysRoot
<1>3. Known' /\ named' \in [Tickets -> Tickets \cup {NoTicket}]
  <2>1. \A u \in {t} : book[u] # "none"
    BY <1>1 DEF Shown, With
  <2>2. named' = [u \in Tickets |-> IF u \in {t} THEN ResolveLifecycleTicketForOrder(u)
                                                 ELSE named[u]]
    BY <1>0, <1>1 DEF TypeOK
  <2>3. \A u \in Tickets : \/ original'[u] \in {original[u], NoTicket}
                           \/ u \in {t} /\ (u \notin astray => original'[u] = Root[u])
    BY <1>0, <1>2 DEF TypeOK
  <2>4. \A entry \in draft' : book[entry[1]] # "none"
    BY <1>0, <1>1 DEF Known, UsedInOrder, TypeOK
  <2> QED BY <1>1, <2>1, <2>2, <2>3, <2>4, RegisterStep
<1>4. TypeOK'
  <2>1. original' \in [Tickets -> Tickets \cup {NoTicket}]
    BY <1>0, <1>2 DEF TypeOK
  <2>2. said' \in SUBSET [kind : {"placed", "modified", "closed"}, of : Tickets,
                          ticket : Tickets]
    BY <1>2 DEF Event
  <2> QED BY <1>0, <1>1, <1>3, <2>1, <2>2 DEF TypeOK
<1>5. DraftInTime'
  BY <1>0, <1>1 DEF DraftInTime
<1>6. ScanComplete'
  BY <1>0, <1>1, <1>2 DEF ScanComplete, TypeOK
<1>7. ToldAsOne'
  <2>1. \A event \in said' : event.of = t /\ event.ticket = stored
    BY <1>2 DEF Event
  <2> QED BY <1>0, <1>1, <1>2, <2>1, RootKept DEF ToldAsOne
<1> QED BY <1>3, <1>4, <1>5, <1>6, <1>7 DEF IInv

\* A snapshot is built.
LEMMA BuildStep ==
    ASSUME IInv, BuildOpenPositions \/ BuildPendingOrders
    PROVE  IInv'
<1> USE DEF brokerVars
<1>0. TypeOK /\ Known /\ DraftInTime /\ ScanComplete /\ ToldAsOne
  BY DEF IInv
<1>1. PICK states \in {{"open"}, {"pending"}} :
         /\ draft' \in {Entries(states), draft \cup Entries(states)}
         /\ named' = Registered(Entries(states))
  BY DEF BuildOpenPositions, BuildPendingOrders
<1>2. /\ UNCHANGED <<book, parent, blank, reportedOpen, reportedClosed, original,
                     lastSnapshot, active, todo, astray, blind>>
      /\ said' = {} /\ pc' \in {"orders", "collect"}
  BY DEF BuildOpenPositions, BuildPendingOrders
<1> DEFINE S == With(states)
<1>3. S \in SUBSET Tickets /\ \A t \in S : book[t] # "none"
  BY <1>1 DEF With
<1>4. \A entry \in Entries(states) :
         \E t \in S : entry = <<t, ResolveLifecycleTicketForOrder(t)>>
  BY DEF Entries
<1>5. \A t \in S : <<t, ResolveLifecycleTicketForOrder(t)>> \in Entries(states)
  BY DEF Entries
<1> HIDE DEF S
<1>6. named' = [t \in Tickets |-> IF t \in S THEN ResolveLifecycleTicketForOrder(t)
                                             ELSE named[t]]
  <2>1. \A t \in Tickets : (\E entry \in Entries(states) : entry[1] = t) <=> t \in S
    <3>1. \A entry \in Entries(states) : entry[1] \in S
      BY <1>4
    <3>2. \A t \in S : \E entry \in Entries(states) : entry[1] = t
      <4> TAKE t \in S
      <4>1. <<t, ResolveLifecycleTicketForOrder(t)>>[1] = t
        OBVIOUS
      <4> QED BY <1>5, <4>1
    <3> QED BY <3>1, <3>2
  <2> QED BY <1>1, <2>1 DEF Registered
<1>7. \A entry \in Entries(states) :
         /\ entry \in Tickets \X Tickets /\ book[entry[1]] # "none"
         /\ entry[1] \in astray \/ entry[2] = Root[entry[1]]
  <2> SUFFICES ASSUME NEW t \in S
               PROVE  LET entry == <<t, ResolveLifecycleTicketForOrder(t)>>
                      IN  /\ entry \in Tickets \X Tickets /\ book[entry[1]] # "none"
                          /\ entry[1] \in astray \/ entry[2] = Root[entry[1]]
    BY <1>4
  <2>1. /\ ResolveLifecycleTicketForOrder(t) \in Tickets
        /\ t \notin astray => ResolveLifecycleTicketForOrder(t) = Root[t]
    BY <1>0, <1>3, ResolveTicket
  <2> QED BY <1>3, <2>1
<1>8. \A entry \in draft : /\ entry \in Tickets \X Tickets /\ book[entry[1]] # "none"
                           /\ entry[1] \in astray \/ entry[2] = Root[entry[1]]
  BY <1>0 DEF Known, UsedInOrder, TypeOK, ToldAsOne
<1>9. Known' /\ named' \in [Tickets -> Tickets \cup {NoTicket}]
  BY <1>1, <1>2, <1>3, <1>6, <1>7, <1>8, RegisterStep
<1>10. TypeOK'
  <2>1. draft' \in SUBSET (Tickets \X Tickets)
    BY <1>1, <1>7, <1>8
  <2> QED BY <1>0, <1>2, <1>9, <2>1 DEF TypeOK, Phases
<1>11. ToldAsOne'
  BY <1>1, <1>2, <1>7, <1>8, RootKept DEF ToldAsOne
<1>12. DraftInTime' /\ ScanComplete'
  BY <1>2 DEF DraftInTime, ScanComplete
<1> QED BY <1>9, <1>10, <1>11, <1>12 DEF IInv

\* The loop over the orders that vanished.
LEMMA ReportVanishedStep == IInv /\ ReportVanished => IInv'
<1> SUFFICES ASSUME IInv, ReportVanished PROVE IInv'
  OBVIOUS
<1> USE DEF brokerVars
<1>0. TypeOK /\ Known /\ DraftInTime /\ ScanComplete /\ ToldAsOne
  BY DEF IInv
<1>1. /\ pc = "vanished" /\ pc' = "gate" /\ active' = {}
      /\ UNCHANGED <<book, parent, blank, reportedOpen, named, lastSnapshot, todo, draft,
                     astray, blind>>
  BY DEF ReportVanished
<1>2. PICK over \in SUBSET {t \in Tickets : original[t] = t}, more \in SUBSET Tickets :
         /\ said' = {Event("closed", t, t) : t \in over}
         /\ reportedClosed' = reportedClosed \cup more
  BY DEF ReportVanished
<1>3. /\ original' \in [Tickets -> Tickets \cup {NoTicket}]
      /\ \A t \in Tickets : original'[t] \in {original[t], NoTicket}
  BY <1>0 DEF ReportVanished, TypeOK
<1>4. \A event \in said' : \E t \in over : event = Event("closed", t, t)
  BY <1>2
<1>5. TypeOK'
  <2>1. said' \in SUBSET [kind : {"placed", "modified", "closed"}, of : Tickets,
                          ticket : Tickets]
    BY <1>4 DEF Event
  <2> QED BY <1>0, <1>1, <1>2, <1>3, <2>1 DEF TypeOK, Phases
<1>6. Known'
  BY <1>0, <1>1, <1>3, RootKept DEF Known, UsedInOrder, Chains, NamedDownward, NamedByRoot,
                                    SeenInTime
<1>7. ToldAsOne'
  <2>1. \A t \in over : t \in astray \/ t = Root[t]
    BY <1>0 DEF Known, NamedByRoot, Tickets, NoTicket
  <2>2. \A event \in said' : event.of \in over /\ event.ticket = event.of
    BY <1>4 DEF Event
  <2> QED BY <1>0, <1>1, <2>1, <2>2, RootKept DEF ToldAsOne
<1>8. DraftInTime' /\ ScanComplete'
  BY <1>0, <1>1 DEF DraftInTime, ScanComplete
<1> QED BY <1>5, <1>6, <1>7, <1>8 DEF IInv

\* Steps between the loops.
LEMMA PhaseStep ==
    ASSUME IInv, \/ StartScan \/ EndOfList \/ SkipSnapshot \/ CollectOpenPositionTickets
                 \/ UNCHANGED vars
    PROVE  IInv'
<1> USE DEF brokerVars, eaVars
<1>0. TypeOK /\ Known /\ DraftInTime /\ ScanComplete /\ ToldAsOne
  BY DEF IInv
<1>1. /\ UNCHANGED <<book, parent, blank, reportedOpen, reportedClosed, original, named,
                     astray>>
      /\ draft' \in {draft, {}} /\ said' \in {said, {}}
  BY DEF StartScan, EndOfList, SkipSnapshot, CollectOpenPositionTickets, vars
<1>2. Known'
  BY <1>0, <1>1, RootKept DEF Known, UsedInOrder, Chains, NamedDownward, NamedByRoot,
                              SeenInTime
<1>3. ToldAsOne'
  BY <1>0, <1>1, RootKept DEF ToldAsOne
<1>4. CASE StartScan
  <2>1. TypeOK'
    BY <1>0, <1>1, <1>4 DEF StartScan, TypeOK, Phases, Shown, With
  <2>2. DraftInTime'
    BY <1>0, <1>4 DEF StartScan, DraftInTime
  <2>3. ScanComplete'
    BY <1>1, <1>4 DEF StartScan, ScanComplete, Shown, With
  <2> QED BY <1>2, <1>3, <2>1, <2>2, <2>3 DEF IInv
<1>5. CASE EndOfList
  <2>1. TypeOK'
    BY <1>0, <1>1, <1>5 DEF EndOfList, TypeOK, Phases
  <2>2. DraftInTime'
    BY <1>0, <1>5 DEF EndOfList, DraftInTime
  <2>3. ScanComplete'
    BY <1>0, <1>1, <1>5 DEF EndOfList, ScanComplete, Shown, With
  <2> QED BY <1>2, <1>3, <2>1, <2>2, <2>3 DEF IInv
<1>6. CASE SkipSnapshot
  <2>1. TypeOK' /\ DraftInTime' /\ ScanComplete'
    BY <1>0, <1>1, <1>6 DEF SkipSnapshot, TypeOK, Phases, DraftInTime, ScanComplete
  <2> QED BY <1>2, <1>3, <2>1 DEF IInv
<1>7. CASE CollectOpenPositionTickets
  <2>1. TypeOK' /\ DraftInTime' /\ ScanComplete'
    BY <1>0, <1>1, <1>7 DEF CollectOpenPositionTickets, TypeOK, Phases, DraftInTime,
                            ScanComplete, With
  <2> QED BY <1>2, <1>3, <2>1 DEF IInv
<1>8. CASE UNCHANGED vars
  <2>1. TypeOK' /\ DraftInTime' /\ ScanComplete'
    BY <1>0, <1>8 DEF vars, TypeOK, DraftInTime, ScanComplete
  <2> QED BY <1>2, <1>3, <2>1 DEF IInv
<1> QED BY <1>4, <1>5, <1>6, <1>7, <1>8

\* Every step.
LEMMA INext == IInv /\ [Next]_vars => IInv'
BY BrokerStep, ClosePartStep, ConnectionStep, ReinitializeStep, ListOrderStep, BuildStep,
   ReportVanishedStep, PhaseStep DEF Next, Broker, OnTimer

\* Tickets resolve to tickets, whatever is registered and written in comments, and
\* every variable keeps its type.
THEOREM Mt4Types == Spec => []TypeOK
BY IInit, INext, PTL DEF Spec, IInv

\* The slaves hear of a chain by the ticket of its first order.
THEOREM Mt4ToldAsOne == Spec => []ToldAsOne
BY IInit, INext, PTL DEF Spec, IInv

-----------------------------------------------------------------------------
(* Closes.                                                                 *)

\* Nothing follows an order that was closed as a whole.
LEMMA NothingFollows ==
    ASSUME TypeOK, Chains, NamedDownward, NEW t \in Tickets, book[t] = "closed"
    PROVE  Over(t)
<1> DEFINE Bad == {u \in Tickets : Root[u] = t /\ u # t}
<1>1. Bad = {}
  <2> SUFFICES ASSUME NEW v \in Bad PROVE FALSE
    OBVIOUS
  <2>1. Bad \in SUBSET Nat
    BY DEF Tickets
  <2>2. PICK u \in Bad : \A k \in Bad : u <= k
    <3> HIDE DEF Bad
    <3> QED BY <2>1, LeastElement
  <2>3. parent[u] # NoTicket /\ Root[parent[u]] = t
    BY <2>2, RootFacts
  <2>4. parent[u] \in Tickets /\ parent[u] < u /\ book[parent[u]] = "parted"
    BY <2>3 DEF TypeOK, Chains
  <2>5. parent[u] \in Bad
    BY <2>3, <2>4
  <2> QED BY <2>2, <2>4, <2>5, TicketsAssumption DEF Tickets
<1> QED BY <1>1 DEF Over

\* A step says that an order is closed only when nothing is left.
LEMMA ClosedStep == IInv /\ ClosedIsOver /\ [Next]_vars => ClosedIsOver'
<1> SUFFICES ASSUME IInv, ClosedIsOver, [Next]_vars PROVE ClosedIsOver'
  OBVIOUS
<1> USE DEF brokerVars, eaVars
<1>0. TypeOK /\ Known /\ ScanComplete /\ UsedInOrder /\ Chains /\ NamedDownward
  BY DEF IInv, Known
<1>1. CASE ReportVanished
  <2> SUFFICES ASSUME NEW event \in said', ~blind
               PROVE  Over(event.ticket)'
    BY <1>1 DEF ReportVanished, ClosedIsOver
  <2>1. PICK t \in Tickets : /\ event = Event("closed", t, t)
                             /\ t \notin active /\ original[t] = t /\ ~PartlyClosed(t)
    BY <1>1 DEF ReportVanished
  <2>2. pc = "vanished" /\ UNCHANGED <<book, parent>>
    BY <1>1 DEF ReportVanished
  <2>3. ~blank /\ book[t] \notin {"pending", "open"}
    BY <1>0, <2>1, <2>2 DEF ScanComplete, Tickets, NoTicket
  <2>4. book[t] # "none"
    BY <1>0, <2>1 DEF UsedInOrder, Tickets, NoTicket
  <2>5. book[t] # "parted"
    BY <2>1, <2>3 DEF PartlyClosed, History, With
  <2>6. Over(t)
    BY <1>0, <2>3, <2>4, <2>5, NothingFollows DEF TypeOK
  <2>7. Over(t)'
    BY <2>2, <2>6, RootKept DEF Over
  <2> QED BY <2>1, <2>7 DEF Event
<1>2. CASE UNCHANGED vars
  BY <1>2, RootKept DEF vars, ClosedIsOver, Over
<1>3. ASSUME NEW t \in Tickets, ListOrder(t) PROVE ClosedIsOver'
  <2>1. \A event \in said' : event.kind # "closed"
    <3>1. \A event \in said' : \E kind \in {"placed", "modified"}, stored \in Tickets :
              event = Event(kind, t, stored)
      BY <1>0, <1>3, SaysRoot DEF ListOrder
    <3> QED BY <3>1 DEF Event
  <2> QED BY <2>1 DEF ClosedIsOver
<1>4. CASE said' = {}
  BY <1>4 DEF ClosedIsOver
<1>5. Next => \/ said' = {} \/ ReportVanished \/ \E t \in Tickets : ListOrder(t)
  BY DEF Next, Broker, Place, Fill, Close, ClosePart, Connection, OnTimer, StartScan, EndOfList,
         SkipSnapshot, BuildOpenPositions, BuildPendingOrders, CollectOpenPositionTickets,
         Reinitialize
<1> QED BY <1>1, <1>2, <1>3, <1>4, <1>5

\* A close is told of a ticket only when nothing of its chain is left, unless the
\* scan met a blank terminal.
THEOREM Mt4ClosedIsOver == Spec => []ClosedIsOver
<1>1. Init => ClosedIsOver
  BY DEF Init, ClosedIsOver
<1> QED BY <1>1, IInit, INext, ClosedStep, PTL DEF Spec
=============================================================================
