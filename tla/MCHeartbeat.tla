---------------------------- MODULE MCHeartbeat ----------------------------
(***************************************************************************)
(* HeartbeatService for TLC.  The service looks at role and address alone, *)
(* so settings with more in them are explored while nobody is logged in;   *)
(* nor does a terminal that is not connected get logins and requests; and  *)
(* that a login and a request overtake each other does not matter to a     *)
(* second loop.                                                            *)
(***************************************************************************)
EXTENDS HeartbeatService

Strings == STRING

Modifier(enabled, text, action) ==
    [enabled |-> enabled, value |-> text, action |-> action]

\* What changes role and address, everything else, a part, with words left empty,
\* and a wrong one.
SmallBodies ==
    {[role |-> "master", master_tcp_url |-> "m1"],
     [role |-> "slave", master_tcp_url |-> "m1"],
     [role |-> Null],
     [lot_multiplier |-> 27, reverse_trading |-> TRUE, exact_match |-> TRUE,
      prefix |-> Modifier(TRUE, <<"x">>, "remove"),
      suffix |-> Modifier(FALSE, <<"y">>, "add")],
     [role |-> "slave", lot_type |-> "fixedlot", fixed_lot |-> 23, prefix |-> Null,
      suffix |-> [enabled |-> TRUE, value |-> <<"y">>, action |-> ""],
      symbol_translations |-> <<[source |-> <<"x", "y">>, target |-> <<"z">>]>>],
     [lot_type |-> "", lot_multiplier |-> 0, prefix |-> [enabled |-> TRUE, value |-> Null]],
     [lot_type |-> "percent"]}

Trade(symbol, type, side, sl, tp) ==
    [ticket |-> 1, symbol |-> symbol, type |-> type, side |-> side,
     volume |-> 2 * Len(symbol) - 1, price |-> 10, sl |-> sl, tp |-> tp,
     age_seconds |-> 0]

\* Bought with the stops 8 and 12, sold with 12 and 8; the smallest volume, and one
\* that can be rounded.
SmallTrades ==
    {Trade(symbol, type, side,
           IF "sl" \in stops THEN IF side = "buy" THEN 8 ELSE 12 ELSE Null,
           IF "tp" \in stops THEN IF side = "buy" THEN 12 ELSE 8 ELSE Null) :
        symbol \in {<<"x">>, <<"x", "y">>}, type \in {"market", "limit", "stop"},
        side \in {"buy", "sell"}, stops \in {{}, {"sl"}, {"tp"}, {"sl", "tp"}}}

NobodyYet == account = Nobody /\ connected

Plain(settings) ==
    settings = [None EXCEPT !.role = settings.role,
                            !.master_tcp_url = settings.master_tcp_url]

Bound ==
    /\ NobodyYet \/ (Plain(memory) /\ Plain(Loaded))
    /\ connected \/ (ea = "idle" /\ request = "idle")
    /\ overtaken = {} \/ \E l \in Loops : loop[l] = "none"

\* Settings do not depend on who is logged in.
EveryCopyIsPlaceable == NobodyYet => CopiesStayPlaceable
EverySnapshotConfirms == NobodyYet => SnapshotConfirmsEvents
=============================================================================
