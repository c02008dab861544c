------------------------------ MODULE Settings ------------------------------
(***************************************************************************)
(* All settings of one account, from the JSON of a request through the     *)
(* memory and the file of ConfigApi and back (BridgeServer::               *)
(* handle_put_config, handle_post_config, parse_config_json_merge;         *)
(* ConfigApi.cpp).  Three pieces of code read JSON and two write it; they  *)
(* have to agree.                                                          *)
(*                                                                         *)
(* Here requests do not overlap (ConfigClients has that).  A JSON object   *)
(* is a function from the keys it has; snake_case and camelCase are one    *)
(* key.  Left out: strings with characters that JSON escapes, and the flat *)
(* keys prefix_enabled etc. that only the parser for new settings knows.   *)
(***************************************************************************)
EXTENDS SlaveConverter

CONSTANTS
    Text,     \* the strings
    Bodies,   \* JSON objects that clients send
    Exact,    \* from here on a number has a digit more than operator<< writes
    Trades    \* positions and orders of a master

ASSUME SettingsAssumption ==
    /\ Exact \in Nat
    /\ {"", "master", "slave", "pending", "multiplier", "fixed", "fixedlot",
        "add", "remove"} \subseteq Text

VARIABLES
    memory,   \* configs_[account]; without a role there is none
    file      \* config_<account>.json: its JSON object, empty if none

settingsVars == <<memory, file>>

None == AccountConfig
NoFile == <<>>

\* The types of AccountConfig's fields; the parsers fill in a word that is empty.
Word == Text \ {""}
Symbol == Seq(Text)
SymbolModifier == [enabled : BOOLEAN, value : Symbol, action : Word]
SymbolTranslation == [source : Symbol, target : Symbol]
Config ==
    [role : Text, master_tcp_url : Text, lot_type : Word,
     lot_multiplier : Int, fixed_lot : Int, reverse_trading : BOOLEAN,
     exact_match : BOOLEAN, prefix : SymbolModifier, suffix : SymbolModifier,
     symbol_translations : Seq(SymbolTranslation)]

-----------------------------------------------------------------------------
(* Reading and writing JSON.                                               *)

Has(json, key) == key \in DOMAIN json
Get(json, key, default) ==
    IF Has(json, key) /\ json[key] # Null THEN json[key] ELSE default

\* Mutant of GetWord: an empty text is taken as it is.
GetText(json, key, default) == Get(json, key, default)

GetWord(json, key, default) ==
    IF Get(json, key, default) = "" THEN default ELSE Get(json, key, default)

\* null is no other JSON value.
ASSUME NullAssumption ==
    Null \notin Text \cup BOOLEAN \cup Int \cup Symbol \cup Seq(SymbolTranslation)
                 \cup [enabled : BOOLEAN, value : Symbol \cup {Null}, action : Text]

\* A key is there with a value of its type or null, or it is not there.
Optional(json, key, Type) == Has(json, key) => json[key] \in Type \cup {Null}

IsModifierJson(json) ==
    /\ Optional(json, "enabled", BOOLEAN)
    /\ Optional(json, "value", Symbol)
    /\ Optional(json, "action", Text)

IsConfigJson(json) ==
    /\ \A f \in {"role", "master_tcp_url", "lot_type"} : Optional(json, f, Text)
    /\ \A f \in {"lot_multiplier", "fixed_lot"} : Optional(json, f, Int)
    /\ \A f \in {"reverse_trading", "exact_match"} : Optional(json, f, BOOLEAN)
    /\ \A f \in {"prefix", "suffix"} :
          Has(json, f) /\ json[f] # Null => IsModifierJson(json[f])
    /\ Optional(json, "symbol_translations", Seq(SymbolTranslation))

ASSUME BodiesAssumption == \A body \in Bodies : IsConfigJson(body)

\* Text that std::stod refuses, as null, leaves what the catch block sets.
parse_modifier(json) ==
    [enabled |-> Get(json, "enabled", FALSE),
     value |-> Get(json, "value", <<>>),
     action |-> GetWord(json, "action", "add")]

\* Of both ConfigApi and BridgeServer: into a fresh configuration.
parse_config_json(json) ==
    [role |-> Get(json, "role", ""),
     master_tcp_url |-> Get(json, "master_tcp_url", ""),
     lot_type |-> LET type == GetWord(json, "lot_type", "multiplier")
                  IN  IF type = "fixedlot" THEN "fixed" ELSE type,
     lot_multiplier |-> Get(json, "lot_multiplier", Unit),
     fixed_lot |-> Get(json, "fixed_lot", 0),
     reverse_trading |-> Get(json, "reverse_trading", FALSE),
     exact_match |-> Get(json, "exact_match", FALSE),
     prefix |-> parse_modifier(Get(json, "prefix", <<>>)),
     suffix |-> parse_modifier(Get(json, "suffix", <<>>)),
     symbol_translations |-> Get(json, "symbol_translations", <<>>)]

\* Mutant of parse_config_json_merge: what the body does not name is reset.
parse_config_json_replace(json, base) == parse_config_json(json)

\* Over an existing configuration; a modifier that is null stays.
parse_config_json_merge(json, base) ==
    LET parsed == parse_config_json(json)
    IN  [f \in DOMAIN base |->
            IF Has(json, f) /\ (f \in {"prefix", "suffix"} => json[f] # Null)
            THEN parsed[f] ELSE base[f]]

\* operator<< writes six digits.
Printed(n) == IF n < Exact THEN n ELSE ((n + 5) \div 10) * 10

modifier_to_json(m) == [m EXCEPT !.value = IF @ = <<>> THEN Null ELSE @]

\* Mutant of config_to_json: reverse_trading is not written.
config_to_json_without(c) ==
    [f \in DOMAIN c \ {"reverse_trading"} |->
        CASE f = "master_tcp_url" /\ c[f] = "" -> Null
          [] f \in {"prefix", "suffix"} -> modifier_to_json(c[f])
          [] f \in {"lot_multiplier", "fixed_lot"} -> Printed(c[f])
          [] OTHER -> c[f]]

config_to_json(c) ==
    [f \in DOMAIN c |->
        CASE f = "master_tcp_url" /\ c[f] = "" -> Null
          [] f \in {"prefix", "suffix"} -> modifier_to_json(c[f])
          [] f \in {"lot_multiplier", "fixed_lot"} -> Printed(c[f])
          [] OTHER -> c[f]]

-----------------------------------------------------------------------------
(* ConfigApi, and the handlers without the connection they renew.          *)

is_valid(c) == c.role \in {"master", "slave", "pending"}

validate_config(c) ==
    /\ is_valid(c)
    /\ c.lot_type \in {"multiplier", "fixed"}
    /\ c.prefix.action \in {"", "add", "remove"}
    /\ c.suffix.action \in {"", "add", "remove"}

\* load_config_from_file: an empty file or a role that is none is no file.
Loaded ==
    LET parsed == parse_config_json(file)
    IN  IF file # NoFile /\ is_valid(parsed) THEN parsed ELSE None

\* Mutant of set_config: a master keeps the address it was sent.
set_config_as_sent(c) ==
    /\ memory' = c
    /\ file' \in {config_to_json(memory'), file, NoFile}

\* The file may not open, or nothing be written after it was truncated: the
\* request goes on in either case.
set_config(c) ==
    /\ memory' = IF c.role = "master" THEN [c EXCEPT !.master_tcp_url = ""] ELSE c
    /\ file' \in {config_to_json(memory'), file, NoFile}

\* DeleteFileA may fail.
delete_config ==
    /\ memory' = None
    /\ file' \in {NoFile, file}

\* The configuration a request finds, in memory or brought there.
Existing == IF memory # None THEN memory ELSE Loaded

Requested(body) ==
    LET existing == Existing
    IN  IF existing # None THEN parse_config_json_merge(body, existing)
                           ELSE parse_config_json(body)

\* A body that does not validate is refused; what was loaded stays.
Refuse(body) ==
    /\ ~validate_config(Requested(body))
    /\ memory' = Existing
    /\ UNCHANGED file

Store(body) ==
    LET c == Requested(body)
    IN  validate_config(c) /\ set_config(c)

\* handle_put_config takes a body that leaves no role for a deletion;
\* handle_post_config refuses it.
DeleteByRole(body) == Requested(body).role = "" /\ delete_config

\* The terminal starts again: load_all_configs.
LoadAllConfigs ==
    /\ memory' = Loaded
    /\ UNCHANGED file

SettingsInit ==
    /\ memory = None
    /\ file = NoFile

\* PUT without a body deletes.
Change ==
    \/ delete_config
    \/ \E body \in Bodies : Store(body) \/ Refuse(body) \/ DeleteByRole(body)

SettingsNext == Change \/ LoadAllConfigs

SettingsSpec == SettingsInit /\ [][SettingsNext]_settingsVars

-----------------------------------------------------------------------------
Promise == INSTANCE SettingsStore WITH kept <- memory, saved <- Loaded

\* Requests, the file and restarts keep the promises of the REST API: no field
\* changes that no request named, in particular not by a restart, and the three
\* parsers and the two writers agree (BridgeServer.cpp 1161-1473, 1745-1908,
\* ConfigApi.cpp 67-595).
ImplementsStore == Promise!Spec
-----------------------------------------------------------------------------
(* What a slave with these settings makes of a master's trades.            *)

\* A master's EA reports every field of a trade, a stop that is not set as null.
IsTrade(trade) ==
    /\ DOMAIN trade = EventKeys("placed")
    /\ trade.symbol \in Symbol \ {<<>>} /\ trade.volume \in Nat \ {0}
    /\ trade.type \in {"market", "limit", "stop"} /\ trade.side \in {"buy", "sell"}
    /\ trade.price \in Int /\ trade.sl \in Int \cup {Null} /\ trade.tp \in Int \cup {Null}

ASSUME TradesAssumption == \A trade \in Trades : IsTrade(trade)

\* What differs between a trade and what its master makes of it later.
Mutable == {"volume", "price", "sl", "tp"}
Versions(trade) ==
    {u \in Trades : \A k \in DOMAIN trade \ Mutable : u[k] = trade[k]}

\* What the slave knows of a trade from its two events.
Copied(trade, later) ==
    LET told == convert_event_to_command("placed", trade, memory).payload
        retold == convert_event_to_command("modified", later, memory).payload
    IN  [k \in DOMAIN told \cup DOMAIN retold |->
            IF k \in DOMAIN retold THEN retold[k] ELSE told[k]]

\* What the EA writes about it in a snapshot.
Listed(trade) ==
    IF trade.type = "market" THEN Restrict(trade, DOMAIN trade \ {"price"}) ELSE trade

ForEveryCopy(Good(_, _)) ==
    memory.role = "slave" =>
        \A trade \in Trades : \A later \in Versions(trade) :
            Good(later, Copied(trade, later))

Beyond(price, other, up) == IF up THEN price > other ELSE price < other

\* A broker takes it: the stops on their sides, a pending price on its side of the
\* market.
Placeable(trade, market) ==
    LET up == trade.side = "buy"
    IN  /\ trade.sl # Null => Beyond(trade.price, trade.sl, up)
        /\ trade.tp # Null => Beyond(trade.tp, trade.price, up)
        /\ trade.type = "limit" => Beyond(market, trade.price, up)
        /\ trade.type = "stop" => Beyond(trade.price, market, up)

Around(price) == {price - 1, price + 1}

\* Whatever the settings, what a broker takes from the master it can take from the
\* slave, reversed or not, also after only one of the stops was set or moved, and
\* a copy has a symbol and a volume (SlaveConverter.cpp 266-383, 394-464).
CopiesStayPlaceable ==
    ForEveryCopy(LAMBDA trade, copy :
        /\ copy.symbol # <<>> /\ copy.volume > 0
        /\ \A market \in Around(trade.price) :
              Placeable(trade, market) => Placeable(copy, market))

\* The snapshot confirms what the events told of a trade: no field that both have
\* is converted in two ways, or the slave would correct its copies for ever
\* (SlaveConverter.cpp 84-121, 266-383; BridgeServer.cpp 881-1006).
SnapshotConfirmsEvents ==
    ForEveryCopy(LAMBDA trade, copy :
        LET entry == SnapshotEntry(Listed(trade), memory)
        IN  \A k \in DOMAIN copy \cap DOMAIN entry : entry[k] = copy[k])
=============================================================================
