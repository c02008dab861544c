--------------------------- MODULE SlaveConverter ---------------------------
(***************************************************************************)
(* What a slave's DLL makes of the events of a master: SlaveConverter.cpp, *)
(* after BridgeServer::simplify_event_json has chosen the fields to send.  *)
(* There is no state: the operators are functions of the event and of the  *)
(* slave's configuration.                                                  *)
(*                                                                         *)
(* The JSON object of a trade is a function from the keys it has to their  *)
(* values.  A symbol is the sequence of the parts that brokers make it of. *)
(* Volumes count hundred-thousandths of a lot, multipliers the parts of    *)
(* one that Unit says; a stop is a price or Null.                          *)
(***************************************************************************)
EXTENDS Integers, SequencesExt

CONSTANTS
    Null,     \* null in JSON
    Unit      \* lot_multiplier 1.0

ASSUME ConverterAssumption == Unit \in Nat \ {0}

\* AccountConfig's own values, before anything is read into it.
DefaultModifier == [enabled |-> FALSE, value |-> <<>>, action |-> "add"]
AccountConfig ==
    [role |-> "", master_tcp_url |-> "", lot_type |-> "multiplier",
     lot_multiplier |-> Unit, fixed_lot |-> 0, reverse_trading |-> FALSE,
     exact_match |-> FALSE, prefix |-> DefaultModifier,
     suffix |-> DefaultModifier, symbol_translations |-> <<>>]

-----------------------------------------------------------------------------
(* Symbols.                                                                *)

Prefixed(symbol, prefix) ==
    IF ~prefix.enabled \/ prefix.value = <<>> THEN symbol
    ELSE IF prefix.action = "add" THEN prefix.value \o symbol
    ELSE IF prefix.action = "remove" /\ IsPrefix(prefix.value, symbol)
         THEN SubSeq(symbol, Len(prefix.value) + 1, Len(symbol))
         ELSE symbol

Suffixed(symbol, suffix) ==
    IF ~suffix.enabled \/ suffix.value = <<>> THEN symbol
    ELSE IF suffix.action = "add" THEN symbol \o suffix.value
    ELSE IF suffix.action = "remove" /\ IsSuffix(suffix.value, symbol)
         THEN SubSeq(symbol, 1, Len(symbol) - Len(suffix.value))
         ELSE symbol

\* The first translation of the symbol decides; without one prefix and suffix.
convert_symbol(symbol, c) ==
    LET hits == {i \in DOMAIN c.symbol_translations :
                    c.symbol_translations[i].source = symbol}
    IN  IF hits = {} THEN Suffixed(Prefixed(symbol, c.prefix), c.suffix)
        ELSE LET target == c.symbol_translations[Min(hits)].target
             IN  IF target = <<>> THEN symbol ELSE target

\* Mutant of SlaveSymbol: an empty result is written as it is.
SlaveSymbolEmpty(symbol, c) == convert_symbol(symbol, c)

\* An empty result leaves the master's symbol.
SlaveSymbol(symbol, c) ==
    IF convert_symbol(symbol, c) = <<>> THEN symbol ELSE convert_symbol(symbol, c)

-----------------------------------------------------------------------------
(* Volumes.                                                                *)

\* std::round of a positive quotient.
Rounded(n, d) == (2 * n + d) \div (2 * d)

convert_volume(volume, c) ==
    IF volume <= 0 THEN volume
    ELSE IF c.lot_type = "fixed" THEN IF c.fixed_lot > 0 THEN c.fixed_lot ELSE volume
    ELSE IF c.lot_type = "multiplier"
         THEN LET converted == volume * c.lot_multiplier
              IN  IF converted <= 0 THEN converted \div Unit
                  ELSE IF Rounded(converted, Unit) = 0 THEN 1
                  ELSE Rounded(converted, Unit)
         ELSE volume

Apart(v, w) == v - w > 1 \/ w - v > 1

\* A result that is not positive, or no more than the last digit off, leaves the
\* master's volume.  (In floating point one digit off may count either way.)
SlaveVolume(volume, c) ==
    LET converted == convert_volume(volume, c)
    IN  IF converted > 0 /\ Apart(converted, volume) THEN converted ELSE volume

-----------------------------------------------------------------------------
(* Reversal.                                                               *)

reverse_side(side) ==
    CASE side = "buy" -> "sell" [] side = "sell" -> "buy" [] OTHER -> side

reverse_order_type(type) ==
    CASE type = "limit" -> "stop" [] type = "stop" -> "limit" [] OTHER -> type

Stops == {"sl", "tp"}

\* Each stop gets the value of the other, where the other has one.
SwappedStop(payload, k) ==
    LET other == IF k = "sl" THEN "tp" ELSE "sl"
    IN  IF other \in DOMAIN payload THEN payload[other] ELSE payload[k]

\* Mutant of ReversedValue: the stops stay where they are.
ReversedValueKeepingStops(payload, k) ==
    CASE k = "side" -> reverse_side(payload.side)
      [] k = "type" -> reverse_order_type(payload.type)
      [] OTHER -> payload[k]

ReversedValue(payload, k) ==
    CASE k = "side" -> reverse_side(payload.side)
      [] k = "type" -> reverse_order_type(payload.type)
      [] k \in Stops -> SwappedStop(payload, k)
      [] OTHER -> payload[k]

\* With one stop the other key is inserted.
ReversedKeys(payload) ==
    DOMAIN payload \cup IF Stops \cap DOMAIN payload = {} THEN {} ELSE Stops

-----------------------------------------------------------------------------
(* Commands.                                                               *)

convert_command(payload, c) ==
    LET sized == [k \in DOMAIN payload |->
                    CASE k = "symbol" -> SlaveSymbol(payload.symbol, c)
                      [] k = "volume" -> SlaveVolume(payload.volume, c)
                      [] OTHER -> payload[k]]
    IN  IF c.role # "slave" THEN payload
        ELSE IF ~c.reverse_trading THEN sized
        ELSE [k \in ReversedKeys(sized) |-> ReversedValue(sized, k)]

EventKeys(event) ==
    CASE event = "placed" -> {"ticket", "symbol", "type", "side", "volume",
                              "price", "sl", "tp", "age_seconds"}
      [] event = "modified" -> {"ticket", "sl", "tp", "price", "volume",
                                "age_seconds"}
      [] OTHER -> {"ticket"}

\* The fields of a single trade that go over the line; a snapshot keeps the two
\* lists and loses all else.
simplify_event_json(event, trade) == Restrict(trade, EventKeys(event) \cap DOMAIN trade)

\* Mutant of SnapshotEntry: the lists are converted without the reversal.
SnapshotEntryAsIs(entry, c) ==
    convert_command(entry, [c EXCEPT !.reverse_trading = FALSE])

\* An entry of open_positions or pending_orders of reconcile_snapshot.
SnapshotEntry(entry, c) == convert_command(entry, c)

Action == [placed |-> "create", modified |-> "modify", closed |-> "cancel"]

\* The command that an event about one trade becomes, for a slave.
convert_event_to_command(event, trade, c) ==
    [action |-> Action[event],
     payload |-> convert_command(simplify_event_json(event, trade), c)]
=============================================================================
