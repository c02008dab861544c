---------------------------- MODULE EventChannel ----------------------------
(***************************************************************************)
(* What the fan-out of a master promises its slaves: every event is pushed *)
(* under a growing number, each slave finds the lines it gets in the order *)
(* in which they were sent, any of them may be missing, and the snapshot   *)
(* that was stored last may be sent again at any time by a thread that     *)
(* read it earlier.  SnapshotFanout implements this with sessions, locks,  *)
(* toggles and threads; CopyPath builds the two terminals on it.           *)
(***************************************************************************)
EXTENDS Naturals, Sequences

CONSTANTS
    Slaves,   \* slave terminals
    Readers,  \* threads that send the stored snapshot again
    Lines,    \* what can be sent: records with a kind and a number n
    MaxPush   \* push numbers saturate here

VARIABLES
    last,     \* number of the newest push
    stored,   \* the stored snapshot: a set of at most one line
    held,     \* what a reader has read and not yet sent, likewise
    chan      \* lines sent to the slave and not yet taken by it

vars == <<last, stored, held, chan>>

ChannelInit ==
    /\ last = 0
    /\ stored = {}
    /\ held = [c \in Readers |-> {}]
    /\ chan = [s \in Slaves |-> <<>>]

\* Line l goes to the slaves in S, the others miss it.
Cast(l, S) == chan' = [s \in Slaves |-> IF s \in S THEN Append(chan[s], l)
                                                   ELSE chan[s]]

\* b was pushed after a (the numbers saturate at MaxPush).
After(b, a) == b > a \/ b = MaxPush

ReplayOf(l) == [l EXCEPT !.kind = "replay"]

Push(l, S) ==
    /\ After(l.n, last)
    /\ last' = l.n
    /\ Cast(l, S)
    /\ UNCHANGED <<stored, held>>

Store(l) ==
    /\ l.n = last
    /\ stored' = {ReplayOf(l)}
    /\ UNCHANGED <<last, held, chan>>

Read(c) ==
    /\ stored # {}
    /\ held' = [held EXCEPT ![c] = stored]
    /\ UNCHANGED <<last, stored, chan>>

Replay(c, S) ==
    /\ \E l \in held[c] : Cast(l, S)
    /\ held' = [held EXCEPT ![c] = {}]
    /\ UNCHANGED <<last, stored>>

\* The connection breaks: only the first k lines still arrive.
Lose(s, k) ==
    /\ chan' = [chan EXCEPT ![s] = SubSeq(@, 1, k)]
    /\ UNCHANGED <<last, stored, held>>

Take(s) ==
    /\ chan[s] # <<>>
    /\ chan' = [chan EXCEPT ![s] = Tail(@)]
    /\ UNCHANGED <<last, stored, held>>

ChannelNext ==
    \/ \E l \in Lines : Store(l) \/ \E S \in SUBSET Slaves : Push(l, S)
    \/ \E c \in Readers : Read(c) \/ \E S \in SUBSET Slaves : Replay(c, S)
    \/ \E s \in Slaves : Take(s) \/ \E k \in 0..Len(chan[s]) : Lose(s, k)

ChannelSpec == ChannelInit /\ [][ChannelNext]_vars
=============================================================================
