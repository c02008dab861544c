---------------------- MODULE HeartbeatService_proofs ----------------------
(***************************************************************************)
(* Proofs about HeartbeatService and the settings under it: the port it    *)
(* reports; types; that requests, the file and restarts implement          *)
(* SettingsStore; and what slaves with any settings make of any trades.    *)
(* They hold for any number of heartbeat threads, any bodies of requests   *)
(* and any trades of the types that the assumptions name.                  *)
(*                                                                         *)
(* MCHeartbeat is there for the two invariants that it restricts.          *)
(***************************************************************************)
EXTENDS MCHeartbeat, TLAPS

-----------------------------------------------------------------------------
(* The port.                                                               *)

\* The account that is logged in is a master.
Master == account = Account /\ memory.role = "master"

\* The places and values that the port depends on.
PortTypes ==
    /\ port \in BOOLEAN /\ wrongPort \in BOOLEAN
    /\ ea \in {"idle", "read", "start"}
    /\ request \in {"idle", "check", "port"}
    /\ newPort \in [{"ea", "request"} -> BOOLEAN]

\* A login that nobody has overtaken is about to set the right port.
LoginKnows == ea = "start" /\ "ea" \notin overtaken => newPort["ea"] = Master

\* So is a request; before it has looked who is logged in it knows the role.
RequestKnows ==
    "request" \notin overtaken =>
        /\ request = "check" => newPort["request"] = (memory.role = "master")
        /\ request = "port" => newPort["request"] = Master

\* After a login the port is right; a request that is under way for the account
\* will set it, one for another account leaves it alone.
PortHolds ==
    ea = "idle" /\ running /\ ~wrongPort /\ (request = "idle" \/ account # Account)
        => port = Master

PInv == PortTypes /\ LoginKnows /\ RequestKnows /\ PortHolds

\* The service is not running.
LEMMA PInit == Init => PInv
BY DEF Init, PInv, PortTypes, LoginKnows, RequestKnows, PortHolds

\* A step that changes nothing the port depends on.
LEMMA PStutter ==
    ASSUME PInv, UNCHANGED <<memory, account, port, threadVars>>,
           running' => running
    PROVE  PInv'
BY DEF threadVars, PInv, PortTypes, LoginKnows, RequestKnows, PortHolds, Master

\* Every step of logins, requests, heartbeats, stop and restart.
LEMMA PNext == PInv /\ [Next]_vars => PInv'
<1> SUFFICES ASSUME PInv, [Next]_vars PROVE PInv'
  OBVIOUS
<1> USE DEF settingsVars, serviceVars, loopVars, threadVars
<1>0. PortTypes /\ LoginKnows /\ RequestKnows /\ PortHolds
  BY DEF PInv
<1>1. CASE UNCHANGED vars
  BY <1>1, PStutter DEF vars
<1>2. ASSUME NEW a \in Accounts, Login(a) PROVE PInv'
  BY <1>0, <1>2 DEF Login, PInv, PortTypes, LoginKnows, RequestKnows, PortHolds, Master
<1>3. CASE LoginRead
  <2>1. /\ ea = "read" /\ ea' = "start"
        /\ newPort' = [newPort EXCEPT !["ea"] = account = Account /\ memory'.role = "master"]
        /\ overtaken' = (overtaken \ {"ea"})
                           \cup (IF memory' # memory /\ request # "idle" THEN {"request"}
                                                                    ELSE {})
        /\ UNCHANGED <<account, port, running, request, wrongPort>>
    BY <1>3 DEF LoginRead
  <2>2. /\ newPort'["ea"] = (account = Account /\ memory'.role = "master")
        /\ newPort'["request"] = newPort["request"]
        /\ newPort' \in [{"ea", "request"} -> BOOLEAN]
    BY <1>0, <2>1 DEF PortTypes
  <2>3. PortTypes' /\ LoginKnows' /\ PortHolds'
    BY <1>0, <2>1, <2>2 DEF PortTypes, LoginKnows, PortHolds, Master
  <2>4. RequestKnows'
    BY <1>0, <2>1, <2>2 DEF RequestKnows, Master
  <2> QED BY <2>3, <2>4 DEF PInv
<1>4. CASE LoginStart
  <2>1. /\ ea = "start" /\ ea' = "idle" /\ port' = newPort["ea"]
        /\ newPort' = [newPort EXCEPT !["ea"] = FALSE]
        /\ wrongPort' = ("ea" \in overtaken) /\ overtaken' = overtaken \ {"ea"}
        /\ UNCHANGED <<memory, account, request>>
    BY <1>4 DEF LoginStart
  <2>2. /\ newPort'["request"] = newPort["request"]
        /\ newPort' \in [{"ea", "request"} -> BOOLEAN]
    BY <1>0, <2>1 DEF PortTypes
  <2>3. PortTypes' /\ LoginKnows'
    BY <1>0, <2>1, <2>2 DEF PortTypes, LoginKnows
  <2>4. RequestKnows'
    BY <1>0, <2>1, <2>2 DEF RequestKnows, Master
  <2>5. PortHolds'
    BY <1>0, <2>1 DEF LoginKnows, PortHolds, Master
  <2> QED BY <2>3, <2>4, <2>5 DEF PInv
<1>5. CASE Stop
  BY <1>5, PStutter DEF Stop
<1>6. CASE Restart
  BY <1>6 DEF Restart, PInv, PortTypes, LoginKnows, RequestKnows, PortHolds
<1>7. CASE set_terminal_connected
  BY <1>7, PStutter DEF set_terminal_connected
<1>8. CASE Request
  <2>1. /\ request = "idle" /\ request' \in {"idle", "check"}
        /\ newPort' = [newPort EXCEPT !["request"] =
                          request' = "check" /\ memory'.role = "master"]
        /\ overtaken' = (overtaken \ {"request"})
                           \cup (IF memory' # memory /\ ea = "start" THEN {"ea"} ELSE {})
        /\ wrongPort' = (wrongPort \/ (request' = "idle" /\ memory' # memory))
        /\ UNCHANGED <<account, port, running, ea>>
    BY <1>8 DEF Request
  <2>2. /\ newPort'["request"] = (request' = "check" /\ memory'.role = "master")
        /\ newPort'["ea"] = newPort["ea"]
        /\ newPort' \in [{"ea", "request"} -> BOOLEAN]
    BY <1>0, <2>1 DEF PortTypes
  <2>3. PortTypes' /\ RequestKnows'
    BY <1>0, <2>1, <2>2 DEF PortTypes, RequestKnows
  <2>4. LoginKnows'
    BY <1>0, <2>1, <2>2 DEF LoginKnows, Master
  <2>5. PortHolds'
    BY <1>0, <2>1 DEF PortTypes, PortHolds, Master
  <2> QED BY <2>3, <2>4, <2>5 DEF PInv
<1>9. CASE RequestFindsAccount
  <2>1. /\ request = "check" /\ UNCHANGED <<memory, account, port, running, ea, wrongPort>>
        /\ newPort' \in [{"ea", "request"} -> BOOLEAN] /\ newPort'["ea"] = newPort["ea"]
        /\ \/ /\ account = Account /\ request' = "port"
              /\ UNCHANGED <<newPort, overtaken>>
           \/ /\ account # Account /\ request' = "idle"
              /\ overtaken' = overtaken \ {"request"}
    BY <1>0, <1>9 DEF RequestFindsAccount, PortTypes
  <2>2. PortTypes' /\ LoginKnows'
    BY <1>0, <2>1 DEF PortTypes, LoginKnows, Master
  <2>3. RequestKnows'
    BY <1>0, <2>1 DEF RequestKnows, Master
  <2>4. PortHolds'
    BY <1>0, <2>1 DEF PortHolds, Master
  <2> QED BY <2>2, <2>3, <2>4 DEF PInv
<1>10. CASE update_tcp_port
  <2>1. /\ request = "port" /\ request' = "idle" /\ port' = newPort["request"]
        /\ newPort' = [newPort EXCEPT !["request"] = FALSE]
        /\ wrongPort' = ("request" \in overtaken) /\ overtaken' = overtaken \ {"request"}
        /\ UNCHANGED <<memory, account, running, ea>>
    BY <1>10 DEF update_tcp_port
  <2>2. /\ newPort'["ea"] = newPort["ea"]
        /\ newPort' \in [{"ea", "request"} -> BOOLEAN]
    BY <1>0, <2>1 DEF PortTypes
  <2>3. PortTypes' /\ RequestKnows'
    BY <1>0, <2>1, <2>2 DEF PortTypes, RequestKnows
  <2>4. LoginKnows'
    BY <1>0, <2>1, <2>2 DEF LoginKnows, Master
  <2>5. PortHolds'
    BY <1>0, <2>1 DEF RequestKnows, PortHolds, Master
  <2> QED BY <2>3, <2>4, <2>5 DEF PInv
<1>11. ASSUME NEW l \in Loops, Heartbeat(l) PROVE PInv'
  BY <1>11, PStutter DEF Heartbeat, LoopEnds, Wake, Send
<1> QED BY <1>1, <1>2, <1>3, <1>4, <1>5, <1>6, <1>7, <1>8, <1>9, <1>10, <1>11 DEF Next

\* Between logins and requests the port says whether the account is a master,
\* unless who set it had read older settings, or a refused request has loaded some.
THEOREM HeartbeatPort == Spec => []PortMatchesRole
<1>1. PInv => PortMatchesRole
  BY DEF PInv, PortHolds, PortMatchesRole, Master
<1> QED BY <1>1, PInit, PNext, PTL DEF Spec
----------------------------------------------------

-----------------------------------------------------------------------------
(* Reading JSON.                                                           *)

\* The fields of AccountConfig.
Fields == {"role", "master_tcp_url", "lot_type", "lot_multiplier", "fixed_lot",
           "reverse_trading", "exact_match", "prefix", "suffix", "symbol_translations"}

\* A configuration by its fields.
LEMMA ConfigFields ==
    ASSUME NEW c \in Config
    PROVE  /\ DOMAIN c = Fields
           /\ c = [f \in Fields |-> c[f]]
           /\ c.role \in Text /\ c.master_tcp_url \in Text /\ c.lot_type \in Word
           /\ c.lot_multiplier \in Int /\ c.fixed_lot \in Int
           /\ c.reverse_trading \in BOOLEAN /\ c.exact_match \in BOOLEAN
           /\ c.prefix \in SymbolModifier /\ c.suffix \in SymbolModifier
           /\ c.symbol_translations \in Seq(SymbolTranslation)
BY DEF Config, Fields

\* What has the fields with their types is a configuration.
LEMMA ConfigByFields ==
    ASSUME NEW c, DOMAIN c = Fields, c = [f \in Fields |-> c[f]],
           c.role \in Text, c.master_tcp_url \in Text, c.lot_type \in Word,
           c.lot_multiplier \in Int, c.fixed_lot \in Int,
           c.reverse_trading \in BOOLEAN, c.exact_match \in BOOLEAN,
           c.prefix \in SymbolModifier, c.suffix \in SymbolModifier,
           c.symbol_translations \in Seq(SymbolTranslation)
    PROVE  c \in Config
<1> DEFINE d == [role |-> c.role, master_tcp_url |-> c.master_tcp_url,
                 lot_type |-> c.lot_type, lot_multiplier |-> c.lot_multiplier,
                 fixed_lot |-> c.fixed_lot, reverse_trading |-> c.reverse_trading,
                 exact_match |-> c.exact_match, prefix |-> c.prefix,
                 suffix |-> c.suffix, symbol_translations |-> c.symbol_translations]
<1>1. d \in Config
  BY DEF Config
<1>2. c = d
  BY DEF Fields
<1> QED BY <1>1, <1>2

\* No text, no translations.
LEMMA Empty == <<>> \in Symbol /\ <<>> \in Seq(SymbolTranslation)
<1>1. \A S : <<>> \in Seq(S)
  OBVIOUS
<1> QED BY <1>1 DEF Symbol

\* A modifier by its fields.
LEMMA Modified ==
    ASSUME NEW e \in BOOLEAN, NEW v \in Symbol, NEW a \in Word
    PROVE  [enabled |-> e, value |-> v, action |-> a] \in SymbolModifier
BY DEF SymbolModifier

\* The defaults have the types.
LEMMA NoneIsConfig == None \in Config /\ DefaultModifier \in SymbolModifier
<1>1. DefaultModifier \in SymbolModifier
  BY Empty, SettingsAssumption DEF DefaultModifier, SymbolModifier, Word
<1>2. "" \in Text /\ "multiplier" \in Word
  BY SettingsAssumption DEF Word
<1>3. 0 \in Int /\ Unit \in Int
  BY ConverterAssumption
<1> QED BY <1>1, <1>2, <1>3, Empty DEF None, AccountConfig, Config

\* null is no value that is written.
LEMMA NullIsApart ==
    /\ Null \notin Text /\ Null \notin BOOLEAN /\ Null \notin Int
    /\ Null \notin Symbol /\ Null \notin Seq(SymbolTranslation)
    /\ Null \notin [enabled : BOOLEAN, value : Symbol \cup {Null}, action : Text]
BY NullAssumption

\* What is read of one key.
LEMMA Got ==
    ASSUME NEW json, NEW key, NEW Type, NEW default \in Type, Optional(json, key, Type)
    PROVE  Get(json, key, default) \in Type
BY DEF Optional, Get

\* A word is read, or the default stands in for it.
LEMMA GotWord ==
    ASSUME NEW json, NEW key, NEW default \in Word, Optional(json, key, Text)
    PROVE  GetWord(json, key, default) \in Word
<1>1. Get(json, key, default) \in Text
  BY Got DEF Word
<1> QED BY <1>1 DEF GetWord, Word

\* A word that was written is read as it is.
LEMMA GotSame ==
    ASSUME NEW json, NEW key, NEW default, NEW word \in Word,
           Get(json, key, default) = word
    PROVE  GetWord(json, key, default) = word
BY DEF GetWord, Word

\* A modifier comes out of any JSON that has its keys.
LEMMA ParsedModifier ==
    ASSUME NEW json, IsModifierJson(json)
    PROVE  parse_modifier(json) \in SymbolModifier
<1>1. "add" \in Word /\ FALSE \in BOOLEAN
  BY SettingsAssumption DEF Word
<1>2. Get(json, "enabled", FALSE) \in BOOLEAN
  BY Got, <1>1 DEF IsModifierJson
<1>3. Get(json, "value", <<>>) \in Symbol
  BY Got, Empty DEF IsModifierJson
<1>4. GetWord(json, "action", "add") \in Word
  BY GotWord, <1>1 DEF IsModifierJson
<1> QED BY <1>2, <1>3, <1>4, Modified DEF parse_modifier

\* One that is null or not there is the default.
LEMMA ParsedMaybeModifier ==
    ASSUME NEW json, NEW k, Has(json, k) /\ json[k] # Null => IsModifierJson(json[k])
    PROVE  parse_modifier(Get(json, k, <<>>)) \in SymbolModifier
<1>1. IsModifierJson(<<>>)
  BY DEF IsModifierJson, Optional, Has
<1>2. IsModifierJson(Get(json, k, <<>>))
  BY <1>1 DEF Get
<1> QED BY <1>2, ParsedModifier

\* So does a configuration.
LEMMA ParsedConfig ==
    ASSUME NEW json, IsConfigJson(json)
    PROVE  parse_config_json(json) \in Config
<1>0. /\ \A f \in {"role", "master_tcp_url", "lot_type"} : Optional(json, f, Text)
      /\ \A f \in {"lot_multiplier", "fixed_lot"} : Optional(json, f, Int)
      /\ \A f \in {"reverse_trading", "exact_match"} : Optional(json, f, BOOLEAN)
      /\ \A f \in {"prefix", "suffix"} :
            Has(json, f) /\ json[f] # Null => IsModifierJson(json[f])
      /\ Optional(json, "symbol_translations", Seq(SymbolTranslation))
  BY DEF IsConfigJson
<1>1. "" \in Text /\ "multiplier" \in Word /\ "fixed" \in Word
  BY SettingsAssumption DEF Word
<1>2. 0 \in Int /\ Unit \in Int
  BY ConverterAssumption
<1>3. /\ Get(json, "role", "") \in Text
      /\ Get(json, "master_tcp_url", "") \in Text
      /\ GetWord(json, "lot_type", "multiplier") \in Word
  BY <1>0, <1>1, Got, GotWord
<1>4. Get(json, "lot_multiplier", Unit) \in Int /\ Get(json, "fixed_lot", 0) \in Int
  BY <1>0, <1>2, Got
<1>5. /\ Get(json, "reverse_trading", FALSE) \in BOOLEAN
      /\ Get(json, "exact_match", FALSE) \in BOOLEAN
  <2>1. Optional(json, "reverse_trading", BOOLEAN) /\ Optional(json, "exact_match", BOOLEAN)
    BY <1>0
  <2>2. FALSE \in BOOLEAN
    OBVIOUS
  <2> QED BY <2>1, <2>2, Got
<1>6. /\ parse_modifier(Get(json, "prefix", <<>>)) \in SymbolModifier
      /\ parse_modifier(Get(json, "suffix", <<>>)) \in SymbolModifier
  BY <1>0, ParsedMaybeModifier
<1>7. Get(json, "symbol_translations", <<>>) \in Seq(SymbolTranslation)
  BY <1>0, Empty, Got
<1> QED BY <1>1, <1>3, <1>4, <1>5, <1>6, <1>7 DEF parse_config_json, Config

\* A body over a configuration gives a configuration.
LEMMA MergedConfig ==
    ASSUME NEW json, IsConfigJson(json), NEW base \in Config
    PROVE  parse_config_json_merge(json, base) \in Config
<1> DEFINE parsed == parse_config_json(json)
           merged == parse_config_json_merge(json, base)
<1>1. parsed \in Config
  BY ParsedConfig
<1>2. DOMAIN merged = Fields /\ merged = [f \in Fields |-> merged[f]]
  BY ConfigFields DEF parse_config_json_merge
<1>3. \A f \in Fields : merged[f] = parsed[f] \/ merged[f] = base[f]
  BY ConfigFields DEF parse_config_json_merge
<1> HIDE DEF parsed, merged
<1>4. merged \in Config
  BY <1>1, <1>2, <1>3, ConfigFields, ConfigByFields DEF Fields
<1> QED BY <1>4 DEF merged

-----------------------------------------------------------------------------
(* Writing and reading back.                                               *)

\* Six digits of each number.
Shortened(c) ==
    [c EXCEPT !.lot_multiplier = Printed(c.lot_multiplier), !.fixed_lot = Printed(c.fixed_lot)]

\* Six digits of a number are one.
LEMMA PrintedInt == ASSUME NEW n \in Int PROVE Printed(n) \in Int
<1>1. (n + 5) \div 10 \in Int
  OBVIOUS
<1> QED BY <1>1 DEF Printed

\* What is written, field by field.
LEMMA Written ==
    ASSUME NEW c \in Config
    PROVE  LET json == config_to_json(c)
           IN  /\ DOMAIN json = Fields
               /\ \A f \in {"role", "lot_type", "reverse_trading", "exact_match",
                            "symbol_translations"} : json[f] = c[f]
               /\ json["master_tcp_url"] = IF c.master_tcp_url = "" THEN Null
                                                                   ELSE c.master_tcp_url
               /\ json["lot_multiplier"] = Printed(c.lot_multiplier)
               /\ json["fixed_lot"] = Printed(c.fixed_lot)
               /\ json["prefix"] = modifier_to_json(c.prefix)
               /\ json["suffix"] = modifier_to_json(c.suffix)
<1>1. DOMAIN c = Fields
  BY ConfigFields
<1> QED BY <1>1 DEF config_to_json, Fields

\* A modifier is read as it was written.
LEMMA ParsedWrittenModifier ==
    ASSUME NEW m \in SymbolModifier
    PROVE  /\ modifier_to_json(m) # Null
           /\ parse_modifier(modifier_to_json(m)) = m
<1> DEFINE json == modifier_to_json(m)
<1>1. /\ m = [enabled |-> m.enabled, value |-> m.value, action |-> m.action]
      /\ m.enabled \in BOOLEAN /\ m.value \in Symbol /\ m.action \in Word
  BY DEF SymbolModifier
<1>2. json = [enabled |-> m.enabled, value |-> IF m.value = <<>> THEN Null ELSE m.value,
              action |-> m.action]
  BY <1>1 DEF modifier_to_json
<1>3. (IF m.value = <<>> THEN Null ELSE m.value) \in Symbol \cup {Null}
  BY <1>1
<1>4. json \in [enabled : BOOLEAN, value : Symbol \cup {Null}, action : Text]
  <2>1. m.action \in Text
    BY <1>1 DEF Word
  <2> QED BY <1>1, <1>2, <1>3, <2>1
<1>5. json # Null
  BY <1>4, NullIsApart
<1>6. m.enabled # Null /\ m.value # Null /\ m.action # Null
  BY <1>1, NullIsApart DEF Word
<1>7. DOMAIN json = {"enabled", "value", "action"}
  BY <1>2
<1>8. Get(json, "enabled", FALSE) = m.enabled
  BY <1>2, <1>6, <1>7 DEF Get, Has
<1>9. Get(json, "value", <<>>) = m.value
  BY <1>2, <1>6, <1>7 DEF Get, Has
<1>10. GetWord(json, "action", "add") = m.action
  <2>1. Get(json, "action", "add") = m.action
    BY <1>2, <1>6, <1>7 DEF Get, Has
  <2> QED BY <1>1, <2>1, GotSame
<1> QED BY <1>1, <1>5, <1>8, <1>9, <1>10 DEF parse_modifier

\* So is a configuration, but for the digits that are not written.
LEMMA ParsedWritten ==
    ASSUME NEW c \in Config, c.lot_type # "fixedlot"
    PROVE  parse_config_json(config_to_json(c)) = Shortened(c)
<1> DEFINE json == config_to_json(c)
<1>1. /\ DOMAIN json = Fields
      /\ \A f \in {"role", "lot_type", "reverse_trading", "exact_match",
                   "symbol_translations"} : json[f] = c[f]
      /\ json["master_tcp_url"] = IF c.master_tcp_url = "" THEN Null ELSE c.master_tcp_url
      /\ json["lot_multiplier"] = Printed(c.lot_multiplier)
      /\ json["fixed_lot"] = Printed(c.fixed_lot)
      /\ json["prefix"] = modifier_to_json(c.prefix)
      /\ json["suffix"] = modifier_to_json(c.suffix)
  BY Written
<1> HIDE DEF json
<1>2. Printed(c.lot_multiplier) # Null /\ Printed(c.fixed_lot) # Null
  BY ConfigFields, PrintedInt, NullIsApart
<1>3. /\ c.role # Null /\ c.master_tcp_url # Null /\ c.lot_type # Null
      /\ c.symbol_translations # Null
  BY ConfigFields, NullIsApart DEF Word
<1>4. c.reverse_trading # Null /\ c.exact_match # Null
  BY ConfigFields, NullIsApart
<1>5. Get(json, "role", "") = c.role /\ Get(json, "master_tcp_url", "") = c.master_tcp_url
  BY <1>1, <1>3 DEF Get, Has, Fields
<1>6. GetWord(json, "lot_type", "multiplier") = c.lot_type
  <2>1. Get(json, "lot_type", "multiplier") = c.lot_type
    BY <1>1, <1>3 DEF Get, Has, Fields
  <2> QED BY <2>1, ConfigFields, GotSame
<1>7. /\ Get(json, "lot_multiplier", Unit) = Printed(c.lot_multiplier)
      /\ Get(json, "fixed_lot", 0) = Printed(c.fixed_lot)
  BY <1>1, <1>2 DEF Get, Has, Fields
<1>8. Get(json, "reverse_trading", FALSE) = c.reverse_trading
  BY <1>1, <1>4 DEF Get, Has, Fields
<1>9. Get(json, "exact_match", FALSE) = c.exact_match
  BY <1>1, <1>4 DEF Get, Has, Fields
<1>10. c.prefix \in SymbolModifier /\ c.suffix \in SymbolModifier
  BY ConfigFields
<1>11. parse_modifier(Get(json, "prefix", <<>>)) = c.prefix
  BY <1>1, <1>10, ParsedWrittenModifier DEF Get, Has, Fields
<1>12. parse_modifier(Get(json, "suffix", <<>>)) = c.suffix
  BY <1>1, <1>10, ParsedWrittenModifier DEF Get, Has, Fields
<1>13. Get(json, "symbol_translations", <<>>) = c.symbol_translations
  BY <1>1, <1>3 DEF Get, Has, Fields
<1> DEFINE d == parse_config_json(json)
<1>14. d = [role |-> c.role, master_tcp_url |-> c.master_tcp_url, lot_type |-> c.lot_type,
            lot_multiplier |-> Printed(c.lot_multiplier), fixed_lot |-> Printed(c.fixed_lot),
            reverse_trading |-> c.reverse_trading, exact_match |-> c.exact_match,
            prefix |-> c.prefix, suffix |-> c.suffix,
            symbol_translations |-> c.symbol_translations]
  BY <1>5, <1>6, <1>7, <1>8, <1>9, <1>11, <1>12, <1>13 DEF parse_config_json
<1>15. DOMAIN c = Fields /\ c = [f \in Fields |-> c[f]]
  BY ConfigFields
<1> DEFINE e == Shortened(c)
<1>16. /\ DOMAIN e = Fields /\ e = [f \in Fields |-> e[f]]
       /\ e.lot_multiplier = Printed(c.lot_multiplier) /\ e.fixed_lot = Printed(c.fixed_lot)
       /\ \A f \in Fields \ {"lot_multiplier", "fixed_lot"} : e[f] = c[f]
  BY <1>15 DEF Shortened, Fields
<1>17. DOMAIN d = Fields /\ d = [f \in Fields |-> d[f]]
  BY <1>14 DEF Fields
<1>18. \A f \in Fields : d[f] = e[f]
  <2> HIDE DEF e
  <2> SUFFICES ASSUME NEW f \in Fields PROVE d[f] = e[f]
    OBVIOUS
  <2> QED BY <1>14, <1>16 DEF Fields
<1> HIDE DEF d, e
<1>19. d = e
  BY <1>16, <1>17, <1>18
<1> QED BY <1>19 DEF json, d, e

-----------------------------------------------------------------------------
(* Settings in memory and in the file.                                     *)

Kept(c) ==
    /\ c \in Config /\ validate_config(c)
    /\ c.role = "master" => c.master_tcp_url = ""

SettingsInv ==
    /\ memory = None \/ Kept(memory)
    /\ file = NoFile \/ \E c : Kept(c) /\ file = config_to_json(c)

\* Loaded, of any file.
LoadedFrom(json) ==
    IF json # NoFile /\ is_valid(parse_config_json(json)) THEN parse_config_json(json)
                                                          ELSE None

SettingsStep ==
    \/ delete_config
    \/ \E body \in Bodies : Store(body) \/ Refuse(body) \/ DeleteByRole(body)
    \/ memory' \in {Existing, Loaded} /\ UNCHANGED file
    \/ UNCHANGED settingsVars

\* Only the two numbers differ.
LEMMA ShortenedFields ==
    ASSUME NEW c \in Config
    PROVE  /\ Shortened(c) \in Config
           /\ \A f \in Fields \ {"lot_multiplier", "fixed_lot"} : Shortened(c)[f] = c[f]
<1> DEFINE e == Shortened(c)
<1>1. DOMAIN c = Fields
  BY ConfigFields
<1>2. /\ DOMAIN e = Fields /\ e = [f \in Fields |-> e[f]]
      /\ e.lot_multiplier = Printed(c.lot_multiplier) /\ e.fixed_lot = Printed(c.fixed_lot)
      /\ \A f \in Fields \ {"lot_multiplier", "fixed_lot"} : e[f] = c[f]
  BY <1>1 DEF Shortened, Fields
<1>3. e.lot_multiplier \in Int /\ e.fixed_lot \in Int
  BY <1>2, PrintedInt, ConfigFields
<1> HIDE DEF e
<1>4. e \in Config
  <2>1. /\ e.role = c.role /\ e.master_tcp_url = c.master_tcp_url /\ e.lot_type = c.lot_type
        /\ e.prefix = c.prefix /\ e.suffix = c.suffix
        /\ e.symbol_translations = c.symbol_translations
    BY <1>2 DEF Fields
  <2>2. e.reverse_trading = c.reverse_trading /\ e.exact_match = c.exact_match
    BY <1>2 DEF Fields
  <2> QED BY <2>1, <2>2, <1>2, <1>3, ConfigFields, ConfigByFields
<1> QED BY <1>2, <1>4 DEF e

\* What is fit to be kept is so when it comes back.
LEMMA KeptShortened ==
    ASSUME NEW c, Kept(c)
    PROVE  Kept(Shortened(c)) /\ is_valid(Shortened(c))
<1> DEFINE e == Shortened(c)
<1>1. c \in Config /\ validate_config(c) /\ (c.role = "master" => c.master_tcp_url = "")
  BY DEF Kept
<1>2. e \in Config /\ \A f \in Fields \ {"lot_multiplier", "fixed_lot"} : e[f] = c[f]
  BY <1>1, ShortenedFields
<1> HIDE DEF e
<1>3. /\ e.role = c.role /\ e.master_tcp_url = c.master_tcp_url /\ e.lot_type = c.lot_type
      /\ e.prefix = c.prefix /\ e.suffix = c.suffix
  BY <1>2 DEF Fields
<1>4. validate_config(e) /\ is_valid(e)
  BY <1>1, <1>3 DEF validate_config, is_valid
<1>5. Kept(e)
  BY <1>1, <1>2, <1>3, <1>4 DEF Kept
<1> QED BY <1>4, <1>5 DEF e

\* What a restart finds of a file that was written.
LEMMA LoadedWritten ==
    ASSUME NEW c, Kept(c)
    PROVE  LoadedFrom(config_to_json(c)) = Shortened(c)
<1>1. c \in Config /\ c.lot_type # "fixedlot"
  BY DEF Kept, validate_config
<1>2. parse_config_json(config_to_json(c)) = Shortened(c)
  BY <1>1, ParsedWritten
<1>3. "role" \in DOMAIN config_to_json(c)
  BY <1>1, Written DEF Fields
<1>4. DOMAIN NoFile = {}
  BY DEF NoFile
<1> QED BY <1>2, <1>3, <1>4, KeptShortened DEF LoadedFrom

\* Digits that were cut once are not cut again.
LEMMA PrintedOnce == ASSUME NEW n \in Int PROVE Printed(Printed(n)) = Printed(n)
<1>1. \A m \in Int : ((10 * m + 5) \div 10) * 10 = 10 * m
  OBVIOUS
<1> DEFINE m == (n + 5) \div 10
<1>2. m \in Int
  OBVIOUS
<1>3. CASE n < Exact
  BY <1>3 DEF Printed
<1>4. CASE ~(n < Exact)
  <2>1. Printed(n) = 10 * m
    BY <1>4 DEF Printed
  <2> HIDE DEF m
  <2>2. ((10 * m + 5) \div 10) * 10 = 10 * m
    BY <1>1, <1>2
  <2>3. Printed(10 * m) = 10 * m
    BY <2>2 DEF Printed
  <2> QED BY <2>1, <2>3
<1> QED BY <1>3, <1>4

\* Settings that a restart brought back and that are saved again come back as they
\* are: writing and reading loses digits once and nothing else (ConfigApi.cpp
\* 159-187, 228-435).
THEOREM ReadBackIsStable ==
    ASSUME NEW c, Kept(c)
    PROVE  LET back == LoadedFrom(config_to_json(c))
           IN  LoadedFrom(config_to_json(back)) = back
<1> DEFINE e == Shortened(c)
<1>1. LoadedFrom(config_to_json(c)) = e /\ Kept(e)
  BY LoadedWritten, KeptShortened
<1>2. LoadedFrom(config_to_json(e)) = Shortened(e)
  BY <1>1, LoadedWritten
<1>3. c \in Config /\ DOMAIN c = Fields /\ c = [f \in Fields |-> c[f]]
  BY ConfigFields DEF Kept
<1>4. Shortened(e) = e
  <2>1. /\ e.lot_multiplier = Printed(c.lot_multiplier)
        /\ e.fixed_lot = Printed(c.fixed_lot)
        /\ DOMAIN e = Fields /\ e = [f \in Fields |-> e[f]]
    BY <1>3 DEF Shortened, Fields
  <2>2. Printed(e.lot_multiplier) = e.lot_multiplier /\ Printed(e.fixed_lot) = e.fixed_lot
    BY <2>1, <1>3, ConfigFields, PrintedOnce
  <2> HIDE DEF e
  <2> QED BY <2>1, <2>2 DEF Shortened
<1> QED BY <1>1, <1>2, <1>4

\* Loaded, before and after a step.
LEMMA LoadedNow ==
    /\ Loaded = LoadedFrom(file) /\ Loaded' = LoadedFrom(file')
    /\ LoadedFrom(NoFile) = None
BY DEF Loaded, LoadedFrom

\* What the file holds is fit to be kept.
LEMMA LoadedKept ==
    ASSUME SettingsInv
    PROVE  Loaded = None \/ Kept(Loaded)
BY LoadedNow, LoadedWritten, KeptShortened DEF SettingsInv

\* So is what a request finds.
LEMMA ExistingKept ==
    ASSUME SettingsInv
    PROVE  Existing = None \/ Kept(Existing)
BY LoadedKept DEF SettingsInv, Existing

\* What a request stores.
AsStored(c) == IF c.role = "master" THEN [c EXCEPT !.master_tcp_url = ""] ELSE c

\* Bodies leave configurations.
LEMMA RequestedConfig ==
    ASSUME SettingsInv, NEW body \in Bodies
    PROVE  Requested(body) \in Config
BY ExistingKept, BodiesAssumption, ParsedConfig, MergedConfig DEF Kept, Requested

\* Without its address a configuration is one.
LEMMA Addressed ==
    ASSUME NEW c \in Config
    PROVE  /\ [c EXCEPT !.master_tcp_url = ""] \in Config
           /\ [c EXCEPT !.master_tcp_url = ""].master_tcp_url = ""
           /\ \A f \in Fields \ {"master_tcp_url"} : [c EXCEPT !.master_tcp_url = ""][f] = c[f]
<1> DEFINE e == [c EXCEPT !.master_tcp_url = ""]
<1>1. DOMAIN c = Fields
  BY ConfigFields
<1>2. /\ DOMAIN e = Fields /\ e = [f \in Fields |-> e[f]] /\ e.master_tcp_url = ""
      /\ \A f \in Fields \ {"master_tcp_url"} : e[f] = c[f]
  BY <1>1 DEF Fields
<1> HIDE DEF e
<1>3. e \in Config
  <2>1. /\ e.role = c.role /\ e.lot_type = c.lot_type
        /\ e.lot_multiplier = c.lot_multiplier /\ e.fixed_lot = c.fixed_lot
        /\ e.prefix = c.prefix /\ e.suffix = c.suffix
        /\ e.symbol_translations = c.symbol_translations
    BY <1>2 DEF Fields
  <2>2. e.reverse_trading = c.reverse_trading /\ e.exact_match = c.exact_match
    BY <1>2 DEF Fields
  <2>3. e.master_tcp_url \in Text
    BY <1>2, SettingsAssumption
  <2> QED BY <2>1, <2>2, <2>3, <1>2, ConfigFields, ConfigByFields
<1> QED BY <1>2, <1>3 DEF e

\* What validates is fit to be kept as it is stored.
LEMMA StoredKept ==
    ASSUME NEW c \in Config, validate_config(c)
    PROVE  Kept(AsStored(c))
<1>1. CASE c.role # "master"
  BY <1>1 DEF AsStored, Kept
<1>2. CASE c.role = "master"
  <2> DEFINE e == [c EXCEPT !.master_tcp_url = ""]
  <2>1. /\ e \in Config /\ e.master_tcp_url = ""
        /\ \A f \in Fields \ {"master_tcp_url"} : e[f] = c[f]
    BY Addressed
  <2>2. AsStored(c) = e
    BY <1>2 DEF AsStored
  <2> HIDE DEF e
  <2>3. /\ e.role = c.role /\ e.lot_type = c.lot_type
        /\ e.prefix = c.prefix /\ e.suffix = c.suffix
    BY <2>1 DEF Fields
  <2>4. validate_config(e)
    BY <2>3 DEF validate_config, is_valid
  <2> QED BY <2>1, <2>2, <2>4 DEF Kept
<1> QED BY <1>1, <1>2

\* What a request stores, and what becomes of the file.
LEMMA StoreSets ==
    ASSUME NEW body, Store(body)
    PROVE  /\ validate_config(Requested(body))
           /\ memory' = AsStored(Requested(body))
           /\ file' \in {config_to_json(memory'), file, NoFile}
BY DEF Store, set_config, AsStored

\* Settings stay fit, whatever comes.
LEMMA SettingsKeep ==
    ASSUME SettingsInv, SettingsStep
    PROVE  SettingsInv'
<1>0. /\ memory = None \/ Kept(memory)
      /\ file = NoFile \/ \E c : Kept(c) /\ file = config_to_json(c)
  BY DEF SettingsInv
<1>1. CASE delete_config
  BY <1>0, <1>1 DEF SettingsInv, delete_config
<1>2. ASSUME NEW body \in Bodies, Store(body) PROVE SettingsInv'
  <2>1. Kept(memory')
    BY <1>2, StoreSets, StoredKept, RequestedConfig
  <2>2. file' \in {config_to_json(memory'), file, NoFile}
    BY <1>2, StoreSets
  <2> QED BY <1>0, <2>1, <2>2 DEF SettingsInv
<1>3. ASSUME NEW body \in Bodies, Refuse(body) PROVE SettingsInv'
  BY <1>0, <1>3, ExistingKept DEF SettingsInv, Refuse
<1>4. ASSUME NEW body \in Bodies, DeleteByRole(body) PROVE SettingsInv'
  BY <1>0, <1>4 DEF SettingsInv, DeleteByRole, delete_config
<1>5. CASE memory' \in {Existing, Loaded} /\ UNCHANGED file
  BY <1>0, <1>5, ExistingKept, LoadedKept DEF SettingsInv
<1>6. CASE UNCHANGED settingsVars
  BY <1>0, <1>6 DEF SettingsInv, settingsVars
<1> QED BY <1>1, <1>2, <1>3, <1>4, <1>5, <1>6 DEF SettingsStep

-----------------------------------------------------------------------------
(* The promises of the REST API.                                           *)

\* What is read into a fresh configuration, field by field.
LEMMA ParsedFields ==
    ASSUME NEW json
    PROVE  LET parsed == parse_config_json(json)
           IN  /\ DOMAIN parsed = Fields /\ parsed = [f \in Fields |-> parsed[f]]
               /\ parsed.role = Get(json, "role", "")
               /\ parsed.master_tcp_url = Get(json, "master_tcp_url", "")
               /\ parsed.lot_type = LET type == GetWord(json, "lot_type", "multiplier")
                                    IN  IF type = "fixedlot" THEN "fixed" ELSE type
               /\ parsed.lot_multiplier = Get(json, "lot_multiplier", Unit)
               /\ parsed.fixed_lot = Get(json, "fixed_lot", 0)
               /\ parsed.reverse_trading = Get(json, "reverse_trading", FALSE)
               /\ parsed.exact_match = Get(json, "exact_match", FALSE)
               /\ parsed.prefix = parse_modifier(Get(json, "prefix", <<>>))
               /\ parsed.suffix = parse_modifier(Get(json, "suffix", <<>>))
               /\ parsed.symbol_translations = Get(json, "symbol_translations", <<>>)
BY DEF parse_config_json, Fields

\* The defaults, field by field.
LEMMA NoneFields ==
    /\ None.role = "" /\ None.master_tcp_url = "" /\ None.lot_type = "multiplier"
    /\ None.lot_multiplier = Unit /\ None.fixed_lot = 0
    /\ None.reverse_trading = FALSE /\ None.exact_match = FALSE
    /\ None.prefix = DefaultModifier /\ None.suffix = DefaultModifier
    /\ None.symbol_translations = <<>>
BY DEF None, AccountConfig

\* A modifier in a request replaces the old one as a whole.
LEMMA MeantModifier ==
    ASSUME NEW m
    PROVE  parse_modifier(m) =
             [k \in DOMAIN DefaultModifier |->
                IF k \in DOMAIN m /\ ~Promise!MeansDefault(k, m[k])
                THEN m[k] ELSE DefaultModifier[k]]
<1> DEFINE p == parse_modifier(m)
           q == [k \in DOMAIN DefaultModifier |->
                   IF k \in DOMAIN m /\ ~Promise!MeansDefault(k, m[k])
                   THEN m[k] ELSE DefaultModifier[k]]
           Keys == {"enabled", "value", "action"}
<1>1. /\ DOMAIN DefaultModifier = Keys /\ DefaultModifier.enabled = FALSE
      /\ DefaultModifier.value = <<>> /\ DefaultModifier.action = "add"
  BY DEF DefaultModifier
<1>2. /\ DOMAIN p = Keys /\ p = [k \in Keys |-> p[k]]
      /\ p.enabled = Get(m, "enabled", FALSE) /\ p.value = Get(m, "value", <<>>)
      /\ p.action = GetWord(m, "action", "add")
  BY DEF parse_modifier
<1> HIDE DEF p
<1>3. DOMAIN q = Keys /\ q = [k \in Keys |-> q[k]]
  BY <1>1
<1>4. \A k \in Keys : q[k] = IF k \in DOMAIN m /\ ~Promise!MeansDefault(k, m[k])
                            THEN m[k] ELSE DefaultModifier[k]
  BY <1>1
<1> HIDE DEF q
<1>5. p.enabled = q.enabled /\ p.value = q.value
  BY <1>1, <1>2, <1>4 DEF Get, Has, Promise!MeansDefault
<1>6. p.action = q.action
  BY <1>1, <1>2, <1>4 DEF GetWord, Get, Has, Promise!MeansDefault
<1>7. p = q
  BY <1>2, <1>3, <1>5, <1>6
<1> QED BY <1>7 DEF p, q

\* The store and the code have the same defaults.
LEMMA SameDefaults ==
    /\ Promise!AccountConfig = None /\ Promise!NoSettings = None
    /\ Promise!DefaultModifier = DefaultModifier
BY DEF Promise!NoSettings, Promise!AccountConfig, Promise!DefaultModifier, None,
       AccountConfig, DefaultModifier

\* A field that a body names gets what the store means by its value.
LEMMA MeantField ==
    ASSUME NEW json, NEW f \in Fields, Has(json, f),
           f \in {"prefix", "suffix"} => json[f] # Null
    PROVE  parse_config_json(json)[f] = Promise!Meant(f, json[f])
<1> DEFINE parsed == parse_config_json(json)
<1>0. /\ parsed.role = Get(json, "role", None.role)
      /\ parsed.master_tcp_url = Get(json, "master_tcp_url", None.master_tcp_url)
      /\ parsed.lot_type = LET type == GetWord(json, "lot_type", None.lot_type)
                           IN  IF type = "fixedlot" THEN "fixed" ELSE type
      /\ parsed.lot_multiplier = Get(json, "lot_multiplier", None.lot_multiplier)
      /\ parsed.fixed_lot = Get(json, "fixed_lot", None.fixed_lot)
      /\ parsed.reverse_trading = Get(json, "reverse_trading", None.reverse_trading)
      /\ parsed.exact_match = Get(json, "exact_match", None.exact_match)
      /\ parsed.prefix = parse_modifier(Get(json, "prefix", <<>>))
      /\ parsed.suffix = parse_modifier(Get(json, "suffix", <<>>))
      /\ parsed.symbol_translations =
              Get(json, "symbol_translations", None.symbol_translations)
  BY ParsedFields, NoneFields
<1> SUFFICES parsed[f] = Promise!Meant(f, json[f])
  OBVIOUS
<1> HIDE DEF parsed
<1>1. CASE f = "role"
  <2>1. parsed.role = Get(json, "role", None.role)
    BY <1>0
  <2>2. Promise!Meant(f, json[f]) =
          IF json.role = Null THEN None.role ELSE json.role
    BY <1>1, SameDefaults DEF Promise!Meant, Promise!MeansDefault, Promise!Modifiers
  <2> QED BY <1>1, <2>1, <2>2 DEF Get
<1>2. CASE f = "master_tcp_url"
  <2>1. parsed.master_tcp_url = Get(json, "master_tcp_url", None.master_tcp_url)
    BY <1>0
  <2>2. Promise!Meant(f, json[f]) =
          IF json.master_tcp_url = Null THEN None.master_tcp_url ELSE json.master_tcp_url
    BY <1>2, SameDefaults DEF Promise!Meant, Promise!MeansDefault, Promise!Modifiers
  <2> QED BY <1>2, <2>1, <2>2 DEF Get
<1>3. CASE f = "lot_multiplier"
  <2>1. parsed.lot_multiplier = Get(json, "lot_multiplier", None.lot_multiplier)
    BY <1>0
  <2>2. Promise!Meant(f, json[f]) =
          IF json.lot_multiplier = Null THEN None.lot_multiplier ELSE json.lot_multiplier
    BY <1>3, SameDefaults DEF Promise!Meant, Promise!MeansDefault, Promise!Modifiers
  <2> QED BY <1>3, <2>1, <2>2 DEF Get
<1>4. CASE f = "fixed_lot"
  <2>1. parsed.fixed_lot = Get(json, "fixed_lot", None.fixed_lot)
    BY <1>0
  <2>2. Promise!Meant(f, json[f]) =
          IF json.fixed_lot = Null THEN None.fixed_lot ELSE json.fixed_lot
    BY <1>4, SameDefaults DEF Promise!Meant, Promise!MeansDefault, Promise!Modifiers
  <2> QED BY <1>4, <2>1, <2>2 DEF Get
<1>5. CASE f = "reverse_trading"
  <2>1. parsed.reverse_trading = Get(json, "reverse_trading", None.reverse_trading)
    BY <1>0
  <2>2. Promise!Meant(f, json[f]) =
          IF json.reverse_trading = Null THEN None.reverse_trading ELSE json.reverse_trading
    BY <1>5, SameDefaults DEF Promise!Meant, Promise!MeansDefault, Promise!Modifiers
  <2> QED BY <1>5, <2>1, <2>2 DEF Get
<1>6. CASE f = "exact_match"
  <2>1. parsed.exact_match = Get(json, "exact_match", None.exact_match)
    BY <1>0
  <2>2. Promise!Meant(f, json[f]) =
          IF json.exact_match = Null THEN None.exact_match ELSE json.exact_match
    BY <1>6, SameDefaults DEF Promise!Meant, Promise!MeansDefault, Promise!Modifiers
  <2> QED BY <1>6, <2>1, <2>2 DEF Get
<1>7. CASE f = "symbol_translations"
  <2>1. parsed.symbol_translations = Get(json, "symbol_translations", None.symbol_translations)
    BY <1>0
  <2>2. Promise!Meant(f, json[f]) =
          IF json.symbol_translations = Null THEN None.symbol_translations ELSE json.symbol_translations
    BY <1>7, SameDefaults DEF Promise!Meant, Promise!MeansDefault, Promise!Modifiers
  <2> QED BY <1>7, <2>1, <2>2 DEF Get
<1>8. CASE f = "lot_type"
  <2>1. Promise!Meant(f, json[f]) = IF json.lot_type \in {Null, ""} THEN None.lot_type
                                    ELSE IF json.lot_type = "fixedlot" THEN "fixed"
                                    ELSE json.lot_type
    BY <1>8, SameDefaults DEF Promise!Meant, Promise!MeansDefault, Promise!Modifiers
  <2> QED BY <1>0, <1>8, <2>1, NoneFields DEF Get, GetWord
<1>9. CASE f \in {"prefix", "suffix"}
  <2>1. Get(json, f, <<>>) = json[f]
    BY <1>9 DEF Get
  <2>2. parsed[f] = parse_modifier(json[f])
    BY <1>0, <1>9, <2>1
  <2>3. Promise!Meant(f, json[f]) =
          [k \in DOMAIN DefaultModifier |->
             IF k \in DOMAIN json[f] /\ ~Promise!MeansDefault(k, json[f][k])
             THEN json[f][k] ELSE DefaultModifier[k]]
    BY <1>9, SameDefaults DEF Promise!Meant, Promise!MeansDefault, Promise!Modifiers
  <2> QED BY <2>2, <2>3, MeantModifier
<1> QED BY <1>1, <1>2, <1>3, <1>4, <1>5, <1>6, <1>7, <1>8, <1>9 DEF Fields

\* One that it does not name, or a modifier that is null, is the default.
LEMMA OwnValues ==
    ASSUME NEW json, NEW f \in Fields,
           ~Has(json, f) \/ (f \in {"prefix", "suffix"} /\ json[f] = Null)
    PROVE  parse_config_json(json)[f] = None[f]
<1> DEFINE parsed == parse_config_json(json)
<1>0. /\ parsed.role = Get(json, "role", "")
      /\ parsed.master_tcp_url = Get(json, "master_tcp_url", "")
      /\ parsed.lot_type = LET type == GetWord(json, "lot_type", "multiplier")
                           IN  IF type = "fixedlot" THEN "fixed" ELSE type
      /\ parsed.lot_multiplier = Get(json, "lot_multiplier", Unit)
      /\ parsed.fixed_lot = Get(json, "fixed_lot", 0)
      /\ parsed.reverse_trading = Get(json, "reverse_trading", FALSE)
      /\ parsed.exact_match = Get(json, "exact_match", FALSE)
      /\ parsed.prefix = parse_modifier(Get(json, "prefix", <<>>))
      /\ parsed.suffix = parse_modifier(Get(json, "suffix", <<>>))
      /\ parsed.symbol_translations = Get(json, "symbol_translations", <<>>)
  BY ParsedFields
<1>1. \A d : Get(json, f, d) = d
  BY DEF Get
<1> SUFFICES parsed[f] = None[f]
  OBVIOUS
<1> HIDE DEF parsed
<1>2. parse_modifier(<<>>) = DefaultModifier
  <2>1. DOMAIN <<>> = {}
    OBVIOUS
  <2> QED BY <2>1 DEF parse_modifier, DefaultModifier, GetWord, Get, Has
<1>3. CASE f \in {"prefix", "suffix"}
  <2>1. parsed[f] = parse_modifier(Get(json, f, <<>>))
    BY <1>0, <1>3
  <2> QED BY <1>1, <1>2, <1>3, <2>1, NoneFields
<1>4. CASE f = "lot_type"
  BY <1>1, <1>4, <1>0, NoneFields DEF GetWord
<1>5. CASE f \in {"role", "master_tcp_url"}
  BY <1>1, <1>5, <1>0, NoneFields
<1>6. CASE f \in {"lot_multiplier", "fixed_lot", "symbol_translations"}
  BY <1>1, <1>6, <1>0, NoneFields
<1>7. CASE f \in {"reverse_trading", "exact_match"}
  BY <1>1, <1>7, <1>0, NoneFields
<1> QED BY <1>3, <1>4, <1>5, <1>6, <1>7 DEF Fields

\* A body over a configuration, field by field.
LEMMA MergedFields ==
    ASSUME NEW json, NEW base \in Config
    PROVE  LET merged == parse_config_json_merge(json, base)
           IN  /\ DOMAIN merged = Fields /\ merged = [f \in Fields |-> merged[f]]
               /\ \A f \in Fields :
                    merged[f] =
                       IF Has(json, f) /\ (f \in {"prefix", "suffix"} => json[f] # Null)
                       THEN parse_config_json(json)[f] ELSE base[f]
BY ConfigFields DEF parse_config_json_merge

\* The parser for new settings and the one that merges agree.
LEMMA MergedWithNone ==
    ASSUME NEW json
    PROVE  parse_config_json_merge(json, None) = parse_config_json(json)
<1> DEFINE merged == parse_config_json_merge(json, None)
           parsed == parse_config_json(json)
<1>1. /\ DOMAIN merged = Fields /\ merged = [f \in Fields |-> merged[f]]
      /\ \A f \in Fields :
           merged[f] = IF Has(json, f) /\ (f \in {"prefix", "suffix"} => json[f] # Null)
                       THEN parsed[f] ELSE None[f]
  BY MergedFields, NoneIsConfig
<1>2. DOMAIN parsed = Fields /\ parsed = [f \in Fields |-> parsed[f]]
  BY ParsedFields
<1>3. \A f \in Fields : merged[f] = parsed[f]
  BY <1>1, OwnValues
<1> HIDE DEF merged, parsed
<1>4. merged = parsed
  BY <1>1, <1>2, <1>3
<1> QED BY <1>4 DEF merged, parsed

\* The parser that merges, and set_config, do what the store means.
LEMMA ChangedMeans ==
    ASSUME NEW json, IsConfigJson(json), NEW base \in Config
    PROVE  AsStored(parse_config_json_merge(json, base)) = Promise!Changed(base, json)
<1> DEFINE merged == parse_config_json_merge(json, base)
           stored == AsStored(merged)
           changed == Promise!Changed(base, json)
           role == IF "role" \in DOMAIN json THEN json.role ELSE base.role
<1>1. /\ DOMAIN merged = Fields /\ merged = [f \in Fields |-> merged[f]]
      /\ \A f \in Fields :
           merged[f] = IF Has(json, f) /\ (f \in {"prefix", "suffix"} => json[f] # Null)
                       THEN parse_config_json(json)[f] ELSE base[f]
  BY MergedFields
<1>2. DOMAIN changed = Fields /\ changed = [f \in Fields |-> changed[f]]
  BY ConfigFields DEF Promise!Changed
<1>3. \A f \in Fields :
        changed[f] = IF f = "master_tcp_url" /\ role = "master" THEN ""
                     ELSE IF f \in Promise!Names(json) THEN Promise!Meant(f, json[f])
                     ELSE base[f]
  BY ConfigFields DEF Promise!Changed
<1>4. \A f \in Fields :
        f \in Promise!Names(json) <=> /\ Has(json, f)
                                      /\ f \in {"prefix", "suffix"} => json[f] # Null
  BY DEF Promise!Names, Promise!Modifiers, Has
<1>5. \A f \in Fields : merged[f] = IF f \in Promise!Names(json)
                                    THEN Promise!Meant(f, json[f]) ELSE base[f]
  BY <1>1, <1>4, MeantField
<1>6. merged.role = "master" <=> role = "master"
  <2>1. CASE "role" \in DOMAIN json
    <3>1. merged.role = Get(json, "role", "")
      BY <1>1, <2>1, ParsedFields DEF Has, Fields
    <3>2. "master" # Null
      BY NullIsApart, SettingsAssumption
    <3> QED BY <2>1, <3>1, <3>2 DEF Get, Has
  <2>2. CASE "role" \notin DOMAIN json
    BY <1>1, <2>2 DEF Has, Fields
  <2> QED BY <2>1, <2>2
<1>7. /\ DOMAIN stored = Fields /\ stored = [f \in Fields |-> stored[f]]
      /\ \A f \in Fields :
           stored[f] = IF f = "master_tcp_url" /\ merged.role = "master" THEN ""
                       ELSE merged[f]
  <2> HIDE DEF merged
  <2> QED BY <1>1 DEF AsStored
<1> HIDE DEF merged, stored, changed, role
<1>8. \A f \in Fields : stored[f] = changed[f]
  BY <1>3, <1>5, <1>6, <1>7
<1>9. stored = changed
  BY <1>2, <1>7, <1>8
<1> QED BY <1>9 DEF merged, stored, changed

\* Every request merges, with the defaults if there is nothing.
LEMMA RequestedMerges ==
    ASSUME SettingsInv, NEW body \in Bodies
    PROVE  Requested(body) = parse_config_json_merge(body, Existing)
BY MergedWithNone DEF Requested

\* The store cuts the same digits.
LEMMA SavedShortened ==
    ASSUME NEW c
    PROVE  Promise!Saved(c) = Shortened(c)
BY DEF Promise!Saved, Promise!Short, Shortened, Printed

\* A request that is stored is an update of the store.
LEMMA StoreUpdates ==
    ASSUME SettingsInv, NEW body \in Bodies, Store(body)
    PROVE  Promise!Update(body)
<1> DEFINE settings == Promise!Changed(Promise!Base, body)
<1>1. Promise!Base = Existing
  BY SameDefaults DEF Promise!Base, Existing
<1>2. Existing \in Config /\ IsConfigJson(body)
  BY ExistingKept, NoneIsConfig, BodiesAssumption DEF Kept
<1>3. memory' = settings
  BY <1>1, <1>2, RequestedMerges, StoreSets, ChangedMeans
<1>4. Kept(memory')
  BY StoreSets, StoredKept, RequestedConfig
<1>5. settings.role # ""
  BY <1>3, <1>4 DEF Kept, validate_config, is_valid
<1>6. Loaded' \in {Promise!Saved(settings), Loaded, Promise!NoSettings}
  <2>1. CASE file' = config_to_json(memory')
    BY <2>1, <1>3, <1>4, LoadedNow, LoadedWritten, SavedShortened
  <2>2. CASE file' = file
    BY <2>2, LoadedNow
  <2>3. CASE file' = NoFile
    BY <2>3, LoadedNow, SameDefaults
  <2> QED BY <2>1, <2>2, <2>3, StoreSets
<1> QED BY <1>3, <1>5, <1>6 DEF Promise!Update

\* Every step of the settings is one of the store, or changes nothing there.
LEMMA SettingsImplement ==
    ASSUME SettingsInv, SettingsStep
    PROVE  Promise!Next \/ UNCHANGED <<memory, Loaded>>
<1>1. CASE delete_config
  <2>1. memory' = None /\ Loaded' \in {None, Loaded}
    BY <1>1, LoadedNow DEF delete_config
  <2> QED BY <2>1, SameDefaults DEF Promise!Next, Promise!Clear
<1>2. ASSUME NEW body \in Bodies, Store(body) PROVE Promise!Next
  BY <1>2, StoreUpdates DEF Promise!Next
<1>3. ASSUME NEW body \in Bodies, DeleteByRole(body) PROVE Promise!Next
  <2>1. memory' = None /\ Loaded' \in {None, Loaded}
    BY <1>3, LoadedNow DEF DeleteByRole, delete_config
  <2> QED BY <2>1, SameDefaults DEF Promise!Next, Promise!Clear
<1>4. ASSUME memory' \in {Existing, Loaded}, UNCHANGED file
      PROVE  Promise!Next \/ UNCHANGED <<memory, Loaded>>
  <2>1. Loaded' = Loaded
    BY <1>4, LoadedNow
  <2>2. memory' = Loaded \/ memory' = memory
    BY <1>4 DEF Existing
  <2> QED BY <2>1, <2>2 DEF Promise!Next, Promise!Recall
<1>5. ASSUME NEW body \in Bodies, Refuse(body)
      PROVE  Promise!Next \/ UNCHANGED <<memory, Loaded>>
  BY <1>4, <1>5 DEF Refuse
<1>6. CASE UNCHANGED settingsVars
  BY <1>6, LoadedNow DEF settingsVars
<1> QED BY <1>1, <1>2, <1>3, <1>4, <1>5, <1>6 DEF SettingsStep

\* What logins, requests, heartbeats, stop and restart do to the settings.
LEMMA SettingsSteps == [Next]_vars => SettingsStep
<1> USE DEF settingsVars
<1>1. CASE UNCHANGED vars
  BY <1>1 DEF SettingsStep, vars
<1>2. ASSUME NEW a \in Accounts, Login(a) PROVE SettingsStep
  BY <1>2 DEF Login, SettingsStep
<1>3. CASE LoginRead
  BY <1>3 DEF LoginRead, SettingsStep
<1>4. CASE LoginStart
  BY <1>4 DEF LoginStart, SettingsStep
<1>5. CASE Stop \/ set_terminal_connected
  BY <1>5 DEF Stop, set_terminal_connected, SettingsStep
<1>6. CASE Restart
  BY <1>6 DEF Restart, LoadAllConfigs, SettingsStep
<1>7. CASE Request
  BY <1>7 DEF Request, SettingsStep
<1>8. CASE RequestFindsAccount \/ update_tcp_port
  BY <1>8 DEF RequestFindsAccount, update_tcp_port, SettingsStep
<1>9. ASSUME NEW l \in Loops, Heartbeat(l) PROVE SettingsStep
  BY <1>9 DEF Heartbeat, LoopEnds, Wake, Send, SettingsStep
<1> QED BY <1>1, <1>2, <1>3, <1>4, <1>5, <1>6, <1>7, <1>8, <1>9 DEF Next

\* At first there are none.
LEMMA SettingsStart == Init => SettingsInv
BY DEF Init, SettingsInit, SettingsInv

\* Every step keeps them fit.
LEMMA SettingsNextKeep == SettingsInv /\ [Next]_vars => SettingsInv'
BY SettingsSteps, SettingsKeep

\* Requests, the file and restarts keep the promises of the REST API
\* (SettingsStore): no field changes that no request named, and the three parsers and
\* the two writers agree (BridgeServer.cpp 1161-1473, 1745-1908, ConfigApi.cpp 67-595).
THEOREM HeartbeatSettings == Spec => ImplementsStore
<1>1. Init => Promise!Init
  <2>1. SettingsInit => Loaded = None
    BY LoadedNow DEF SettingsInit
  <2> QED BY <2>1, SameDefaults DEF Init, SettingsInit, Promise!Init
<1>2. SettingsInv /\ [Next]_vars => [Promise!Next]_<<memory, Loaded>>
  BY SettingsSteps, SettingsImplement
<1> QED BY <1>1, <1>2, SettingsStart, SettingsNextKeep, PTL
        DEF Spec, ImplementsStore, Promise!Spec

-----------------------------------------------------------------------------
(* Types.                                                                  *)

ServiceTypes ==
    /\ account \in Accounts \cup {Nobody}
    /\ asks \in Accounts \cup {Nobody}
    /\ port \in BOOLEAN /\ running \in BOOLEAN /\ connected \in BOOLEAN
    /\ loop \in [Loops -> {"none", "first", "sleep", "ask"}]
    /\ read \in [Loops -> Copy \cup {Nothing}]
    /\ ea \in {"idle", "read", "start"}
    /\ request \in {"idle", "check", "port"}
    /\ newPort \in [{"ea", "request"} -> BOOLEAN]
    /\ overtaken \in SUBSET {"ea", "request"}
    /\ wrongPort \in BOOLEAN

\* A login has an account, and where there is a loop the callbacks ask for one.
LoopsKnow ==
    /\ ea # "idle" => account \in Accounts
    /\ \A l \in Loops : loop[l] # "none" => asks \in Accounts

TInv == ServiceTypes /\ LoopsKnow

\* Nobody is logged in and there is no loop.
LEMMA TInit == Init => TInv
BY DEF Init, TInv, ServiceTypes, LoopsKnow

\* Every step, one action at a time.
LEMMA TNext == TInv /\ [Next]_vars => TInv'
<1> SUFFICES ASSUME TInv, [Next]_vars PROVE TInv'
  OBVIOUS
<1> USE DEF serviceVars, loopVars, threadVars
<1>0. ServiceTypes /\ LoopsKnow
  BY DEF TInv
<1>1. CASE UNCHANGED vars
  BY <1>0, <1>1 DEF vars, TInv, ServiceTypes, LoopsKnow
<1>2. ASSUME NEW a \in Accounts, Login(a) PROVE TInv'
  BY <1>0, <1>2 DEF Login, TInv, ServiceTypes, LoopsKnow
<1>3. CASE LoginRead
  <2>1. /\ ea = "read" /\ ea' = "start" /\ overtaken' \in SUBSET {"ea", "request"}
        /\ newPort' = [newPort EXCEPT !["ea"] = account = Account /\ memory'.role = "master"]
        /\ UNCHANGED <<serviceVars, loopVars, request, wrongPort>>
    BY <1>0, <1>3 DEF LoginRead, ServiceTypes
  <2>2. newPort' \in [{"ea", "request"} -> BOOLEAN]
    BY <1>0, <2>1 DEF ServiceTypes
  <2> QED BY <1>0, <2>1, <2>2 DEF TInv, ServiceTypes, LoopsKnow
<1>4. CASE LoginStart
  <2>1. /\ ea = "start" /\ ea' = "idle" /\ asks' = account /\ port' = newPort["ea"]
        /\ newPort' = [newPort EXCEPT !["ea"] = FALSE]
        /\ wrongPort' = ("ea" \in overtaken) /\ running' = TRUE
        /\ overtaken' = overtaken \ {"ea"}
        /\ UNCHANGED <<account, connected, read, request>>
    BY <1>4 DEF LoginStart, SetCallbacks
  <2>2. loop' \in [Loops -> {"none", "first", "sleep", "ask"}]
    BY <1>0, <1>4 DEF LoginStart, ServiceTypes
  <2>3. newPort' \in [{"ea", "request"} -> BOOLEAN] /\ port' \in BOOLEAN
    BY <1>0, <2>1 DEF ServiceTypes
  <2>4. ServiceTypes'
    BY <1>0, <2>1, <2>2, <2>3 DEF ServiceTypes
  <2>5. LoopsKnow'
    BY <1>0, <2>1 DEF LoopsKnow
  <2> QED BY <2>4, <2>5 DEF TInv
<1>5. CASE Stop
  BY <1>0, <1>5 DEF Stop, TInv, ServiceTypes, LoopsKnow
<1>6. CASE Restart
  BY <1>0, <1>6 DEF Restart, TInv, ServiceTypes, LoopsKnow
<1>7. CASE set_terminal_connected
  BY <1>0, <1>7 DEF set_terminal_connected, TInv, ServiceTypes, LoopsKnow
<1>8. CASE Request
  <2>1. /\ request' \in {"idle", "check"}
        /\ newPort' = [newPort EXCEPT !["request"] =
                          request' = "check" /\ memory'.role = "master"]
        /\ overtaken' = (overtaken \ {"request"})
                           \cup (IF memory' # memory /\ ea = "start" THEN {"ea"} ELSE {})
        /\ wrongPort' = (wrongPort \/ (request' = "idle" /\ memory' # memory))
        /\ UNCHANGED <<serviceVars, loopVars, ea>>
    BY <1>8 DEF Request
  <2>2. newPort' \in [{"ea", "request"} -> BOOLEAN] /\ wrongPort' \in BOOLEAN
    BY <1>0, <2>1 DEF ServiceTypes
  <2> QED BY <1>0, <2>1, <2>2 DEF TInv, ServiceTypes, LoopsKnow
<1>9. CASE RequestFindsAccount
  <2>1. newPort' \in [{"ea", "request"} -> BOOLEAN]
    BY <1>0, <1>9 DEF RequestFindsAccount, ServiceTypes
  <2> QED BY <1>0, <1>9, <2>1 DEF RequestFindsAccount, TInv, ServiceTypes, LoopsKnow
<1>10. CASE update_tcp_port
  <2>1. newPort' \in [{"ea", "request"} -> BOOLEAN] /\ port' \in BOOLEAN
    BY <1>0, <1>10 DEF update_tcp_port, ServiceTypes
  <2> QED BY <1>0, <1>10, <2>1 DEF update_tcp_port, TInv, ServiceTypes, LoopsKnow
<1>11. ASSUME NEW l \in Loops, LoopEnds(l) \/ Send(l) PROVE TInv'
  <2>1. /\ loop' \in [Loops -> {"none", "first", "sleep", "ask"}]
        /\ read' \in [Loops -> Copy \cup {Nothing}]
        /\ \A k \in Loops : loop'[k] # "none" => loop[k] # "none"
    BY <1>0, <1>11 DEF LoopEnds, Send, Goto, ServiceTypes
  <2>2. UNCHANGED <<serviceVars, threadVars>>
    BY <1>11 DEF LoopEnds, Send
  <2> QED BY <1>0, <2>1, <2>2 DEF TInv, ServiceTypes, LoopsKnow
<1>12. ASSUME NEW l \in Loops, Wake(l) PROVE TInv'
  <2>1. /\ loop' \in [Loops -> {"none", "first", "sleep", "ask"}]
        /\ \A k \in Loops : loop'[k] # "none" => loop[k] # "none"
        /\ UNCHANGED <<serviceVars, threadVars>>
    BY <1>0, <1>12 DEF Wake, Goto, ServiceTypes
  <2>2. read' \in [Loops -> Copy \cup {Nothing}]
    <3>1. CASE connected /\ account # Nobody
      <4>1. account \in Accounts /\ asks \in Accounts /\ port \in BOOLEAN
        BY <1>0, <1>12, <3>1 DEF Wake, ServiceTypes, LoopsKnow
      <4>2. [account |-> account, port |-> port, asks |-> asks] \in Copy
        BY <4>1 DEF Copy
      <4>3. read' = [read EXCEPT ![l] = [account |-> account, port |-> port, asks |-> asks]]
        BY <1>12, <3>1 DEF Wake
      <4> QED BY <1>0, <4>2, <4>3 DEF ServiceTypes
    <3>2. CASE ~(connected /\ account # Nobody)
      BY <1>0, <1>12, <3>2 DEF Wake, ServiceTypes
    <3> QED BY <3>1, <3>2
  <2> QED BY <1>0, <2>1, <2>2 DEF TInv, ServiceTypes, LoopsKnow
<1> QED BY <1>1, <1>2, <1>3, <1>4, <1>5, <1>6, <1>7, <1>8, <1>9, <1>10, <1>11, <1>12
        DEF Next, Heartbeat

\* Every variable keeps its type; settings in memory and in the file validate, and a
\* master has no address of another (ConfigApi.cpp 67-119, 159-187).
THEOREM HeartbeatTypes == Spec => []TypeOK
<1>1. SettingsInv /\ TInv => TypeOK
  <2> SUFFICES ASSUME SettingsInv, TInv PROVE TypeOK
    OBVIOUS
  <2>1. memory = None \/ (memory \in Config /\ validate_config(memory))
    BY DEF SettingsInv, Kept
  <2>2. memory.role = "master" => memory.master_tcp_url = ""
    BY NoneFields DEF SettingsInv, Kept
  <2>3. file = NoFile \/ validate_config(parse_config_json(file))
    <3> SUFFICES ASSUME NEW c, Kept(c), file = config_to_json(c)
                 PROVE  validate_config(parse_config_json(file))
      BY DEF SettingsInv
    <3>1. c \in Config /\ c.lot_type # "fixedlot"
      BY DEF Kept, validate_config
    <3> QED BY <3>1, ParsedWritten, KeptShortened DEF Kept
  <2> QED BY <2>1, <2>2, <2>3 DEF TInv, ServiceTypes, TypeOK
<1> QED BY <1>1, SettingsStart, SettingsNextKeep, TInit, TNext, PTL DEF Spec

-----------------------------------------------------------------------------
(* Conversion for slaves.                                                  *)

\* A volume stays positive, whatever the lot settings.
LEMMA SlaveVolumePositive ==
    ASSUME NEW v \in Nat \ {0}, NEW c
    PROVE  SlaveVolume(v, c) > 0
BY DEF SlaveVolume

\* A symbol stays one, whatever the prefix, suffix and translations.
LEMMA SlaveSymbolThere ==
    ASSUME NEW s, s # <<>>, NEW c
    PROVE  SlaveSymbol(s, c) # <<>>
BY DEF SlaveSymbol

\* What integer division leaves.
LEMMA Divided ==
    ASSUME NEW a \in Nat, NEW b \in Nat \ {0}
    PROVE  a \div b \in Nat /\ b * (a \div b) <= a /\ a < b * (a \div b) + b
OBVIOUS

\* A multiplied volume is off by half a digit at most; what would be nothing becomes
\* the smallest volume (SlaveConverter.cpp 443-464).
THEOREM VolumeIsRounded ==
    ASSUME NEW v \in Nat \ {0}, NEW c, c.lot_type = "multiplier",
           c.lot_multiplier \in Nat \ {0}
    PROVE  LET exact == v * c.lot_multiplier
               w == convert_volume(v, c)
           IN  /\ w \in Nat \ {0}
               /\ 2 * Unit * w <= 2 * exact + Unit \/ w = 1
               /\ 2 * exact < 2 * Unit * w + Unit
<1> DEFINE m == c.lot_multiplier
           exact == v * m
           a == 2 * exact + Unit
           b == 2 * Unit
           q == a \div b
<1>1. m \in Nat \ {0} /\ exact \in Nat \ {0}
  OBVIOUS
<1> HIDE DEF exact
<1>2. a \in Nat /\ b \in Nat \ {0}
  BY <1>1, ConverterAssumption
<1> HIDE DEF a, b
<1>3. q \in Nat /\ b * q <= a /\ a < b * q + b
  BY <1>2, Divided
<1> HIDE DEF q
<1>4. Rounded(exact, Unit) = q
  BY DEF Rounded, q, a, b
<1>5. convert_volume(v, c) = IF q = 0 THEN 1 ELSE q
  BY <1>1, <1>4 DEF convert_volume, exact
<1>6. b * q = 2 * Unit * q /\ 2 * Unit * q \in Nat
  BY <1>3, ConverterAssumption DEF b
<1>7. 2 * Unit * q <= 2 * exact + Unit /\ 2 * exact < 2 * Unit * q + Unit
  BY <1>1, <1>3, <1>6, ConverterAssumption DEF a, b
<1>8. CASE q = 0
  BY <1>1, <1>5, <1>7, <1>8, ConverterAssumption DEF exact
<1>9. CASE q # 0
  BY <1>3, <1>5, <1>7, <1>9 DEF exact
<1> QED BY <1>8, <1>9

\* Sides and types are reversed in pairs.
LEMMA SidesReverse ==
    ASSUME NEW x
    PROVE  reverse_side(reverse_side(x)) = x /\ reverse_order_type(reverse_order_type(x)) = x
<1>1. CASE x = "buy" \/ x = "sell"
  BY <1>1 DEF reverse_side, reverse_order_type
<1>2. CASE x = "limit" \/ x = "stop"
  BY <1>2 DEF reverse_side, reverse_order_type
<1>3. CASE x \notin {"buy", "sell", "limit", "stop"}
  <2>1. reverse_side(x) = x /\ reverse_order_type(x) = x
    BY <1>3 DEF reverse_side, reverse_order_type
  <2> QED BY <2>1
<1> QED BY <1>1, <1>2, <1>3

\* The reversal in convert_command.
Reversed(payload) == [k \in ReversedKeys(payload) |-> ReversedValue(payload, k)]

\* A payload with both stops or none that is reversed twice is what it was: no field
\* is lost in a reversal (SlaveConverter.cpp 266-383).
THEOREM ReversedTwice ==
    ASSUME NEW Keys, NEW payload, payload = [k \in Keys |-> payload[k]],
           Stops \subseteq Keys \/ Stops \cap Keys = {}
    PROVE  Reversed(Reversed(payload)) = payload
<1> DEFINE r == Reversed(payload)
           s == Reversed(r)
<1>1. DOMAIN payload = Keys /\ ReversedKeys(payload) = Keys
  BY DEF ReversedKeys
<1>2. DOMAIN r = Keys /\ \A k \in Keys : r[k] = ReversedValue(payload, k)
  BY <1>1 DEF Reversed
<1> HIDE DEF r
<1>3. ReversedKeys(r) = Keys
  BY <1>2 DEF ReversedKeys
<1>4. DOMAIN s = Keys /\ s = [k \in Keys |-> s[k]] /\ \A k \in Keys : s[k] = ReversedValue(r, k)
  BY <1>3 DEF Reversed
<1> HIDE DEF s
<1>5. ASSUME NEW k \in Keys PROVE s[k] = payload[k]
  <2>1. CASE k = "side"
    <3>1. r.side = reverse_side(payload.side) /\ s.side = reverse_side(r.side)
      BY <1>2, <1>4, <1>5, <2>1 DEF ReversedValue, Stops
    <3> QED BY <2>1, <3>1, SidesReverse
  <2>2. CASE k = "type"
    <3>1. r.type = reverse_order_type(payload.type) /\ s.type = reverse_order_type(r.type)
      BY <1>2, <1>4, <1>5, <2>2 DEF ReversedValue, Stops
    <3> QED BY <2>2, <3>1, SidesReverse
  <2>3. CASE k \in Stops
    <3>1. "sl" \in Keys /\ "tp" \in Keys
      BY <1>5, <2>3 DEF Stops
    <3>2. r["sl"] = payload["tp"] /\ r["tp"] = payload["sl"]
      BY <1>1, <1>2, <3>1 DEF ReversedValue, SwappedStop, Stops
    <3>3. s["sl"] = r["tp"] /\ s["tp"] = r["sl"]
      BY <1>2, <1>4, <3>1 DEF ReversedValue, SwappedStop, Stops
    <3> QED BY <2>3, <3>2, <3>3 DEF Stops
  <2>4. CASE k \notin {"side", "type"} \cup Stops
    BY <1>2, <1>4, <1>5, <2>4 DEF ReversedValue
  <2> QED BY <2>1, <2>2, <2>3, <2>4
<1>6. s = payload
  BY <1>1, <1>4, <1>5
<1> QED BY <1>6 DEF s, r

\* The trade as its slave's settings make it, field by field.
Fate(trade, k, c) ==
    CASE k = "symbol" -> SlaveSymbol(trade.symbol, c)
      [] k = "volume" -> SlaveVolume(trade.volume, c)
      [] k = "side" /\ c.reverse_trading -> reverse_side(trade.side)
      [] k = "type" /\ c.reverse_trading -> reverse_order_type(trade.type)
      [] k = "sl" /\ c.reverse_trading -> trade.tp
      [] k = "tp" /\ c.reverse_trading -> trade.sl
      [] OTHER -> trade[k]

\* A payload with both stops keeps its keys, and each field meets its fate.
LEMMA ConvertedFields ==
    ASSUME NEW payload, NEW c, c.role = "slave", Stops \subseteq DOMAIN payload
    PROVE  /\ DOMAIN convert_command(payload, c) = DOMAIN payload
           /\ \A k \in DOMAIN payload :
                 convert_command(payload, c)[k] = Fate(payload, k, c)
<1> DEFINE sized == [k \in DOMAIN payload |->
                      CASE k = "symbol" -> SlaveSymbol(payload.symbol, c)
                        [] k = "volume" -> SlaveVolume(payload.volume, c)
                        [] OTHER -> payload[k]]
           reversed == [k \in ReversedKeys(sized) |-> ReversedValue(sized, k)]
<1>1. convert_command(payload, c) = IF c.reverse_trading THEN reversed ELSE sized
  BY DEF convert_command
<1>2. DOMAIN sized = DOMAIN payload
  OBVIOUS
<1>3. \A k \in DOMAIN payload :
        sized[k] = IF k = "symbol" THEN SlaveSymbol(payload.symbol, c)
                   ELSE IF k = "volume" THEN SlaveVolume(payload.volume, c)
                   ELSE payload[k]
  OBVIOUS
<1>4. ReversedKeys(sized) = DOMAIN payload
  <2> HIDE DEF sized
  <2> QED BY <1>2 DEF ReversedKeys, Stops
<1>5. DOMAIN reversed = DOMAIN payload
  <2> HIDE DEF sized
  <2> QED BY <1>4
<1>6. ASSUME NEW k \in DOMAIN payload PROVE reversed[k] = ReversedValue(sized, k)
  <2> HIDE DEF sized
  <2> QED BY <1>4, <1>6
<1> HIDE DEF sized, reversed
<1>7. CASE ~c.reverse_trading
  BY <1>1, <1>2, <1>3, <1>7 DEF Fate
<1>8. CASE c.reverse_trading
  <2> SUFFICES ASSUME NEW k \in DOMAIN payload PROVE reversed[k] = Fate(payload, k, c)
    BY <1>1, <1>5, <1>8
  <2>1. "sl" \in DOMAIN payload /\ "tp" \in DOMAIN payload
    BY DEF Stops
  <2>2. sized["sl"] = payload["sl"] /\ sized["tp"] = payload["tp"]
    BY <1>3, <2>1
  <2>3. CASE k \in Stops
    BY <1>2, <1>6, <1>8, <2>1, <2>2, <2>3 DEF ReversedValue, SwappedStop, Stops, Fate
  <2>4. CASE k \notin Stops
    BY <1>3, <1>6, <1>8, <2>4 DEF ReversedValue, Stops, Fate
  <2> QED BY <2>3, <2>4
<1> QED BY <1>7, <1>8

\* The fate of a field does not depend on the fields sent with it.
LEMMA FateOfPart ==
    ASSUME NEW trade, NEW S, NEW k \in S, NEW c,
           c.reverse_trading /\ k \in Stops => Stops \subseteq S
    PROVE  Fate(Restrict(trade, S), k, c) = Fate(trade, k, c)
<1> DEFINE part == Restrict(trade, S)
<1>1. \A f \in S : part[f] = trade[f]
  BY DEF Restrict
<1> HIDE DEF part
<1>2. Fate(part, k, c) = Fate(trade, k, c)
  BY <1>1 DEF Fate, Stops
<1> QED BY <1>2 DEF part

\* A command about a trade, field by field.
LEMMA SentFields ==
    ASSUME NEW trade, IsTrade(trade), NEW event \in {"placed", "modified"}, NEW c,
           c.role = "slave"
    PROVE  LET payload == convert_event_to_command(event, trade, c).payload
           IN  /\ DOMAIN payload = EventKeys(event)
               /\ \A k \in EventKeys(event) : payload[k] = Fate(trade, k, c)
<1> DEFINE sent == Restrict(trade, EventKeys(event))
<1>1. EventKeys(event) \cap DOMAIN trade = EventKeys(event) /\ Stops \subseteq EventKeys(event)
  BY DEF IsTrade, EventKeys, Stops
<1>2. convert_event_to_command(event, trade, c).payload = convert_command(sent, c)
  BY <1>1 DEF convert_event_to_command, simplify_event_json
<1>3. DOMAIN sent = EventKeys(event)
  BY DEF Restrict
<1>4. \A k \in EventKeys(event) : Fate(sent, k, c) = Fate(trade, k, c)
  BY <1>1, FateOfPart
<1> HIDE DEF sent
<1> QED BY <1>1, <1>2, <1>3, <1>4, ConvertedFields

\* What a slave knows of a trade, told when it was new and later.
LEMMA CopiedFields ==
    ASSUME memory.role = "slave", NEW trade \in Trades, NEW later \in Versions(trade)
    PROVE  /\ DOMAIN Copied(trade, later) = EventKeys("placed")
           /\ \A k \in EventKeys("placed") :
                 Copied(trade, later)[k] = Fate(later, k, memory)
<1> DEFINE told == convert_event_to_command("placed", trade, memory).payload
           retold == convert_event_to_command("modified", later, memory).payload
<1>1. IsTrade(trade) /\ IsTrade(later) /\ \A k \in DOMAIN trade \ Mutable : later[k] = trade[k]
  BY TradesAssumption DEF Versions
<1>2. /\ DOMAIN told = EventKeys("placed")
      /\ \A k \in EventKeys("placed") : told[k] = Fate(trade, k, memory)
  BY <1>1, SentFields
<1>3. /\ DOMAIN retold = EventKeys("modified")
      /\ \A k \in EventKeys("modified") : retold[k] = Fate(later, k, memory)
  BY <1>1, SentFields
<1> HIDE DEF told, retold
<1>4. EventKeys("modified") \subseteq EventKeys("placed")
  BY DEF EventKeys
<1> DEFINE copy == [k \in DOMAIN told \cup DOMAIN retold |->
                      IF k \in DOMAIN retold THEN retold[k] ELSE told[k]]
<1>5. /\ DOMAIN copy = EventKeys("placed")
      /\ \A k \in EventKeys("placed") :
           copy[k] = IF k \in EventKeys("modified") THEN retold[k] ELSE told[k]
  BY <1>2, <1>3, <1>4
<1>6. ASSUME NEW k \in EventKeys("placed"), k \notin EventKeys("modified")
      PROVE  Fate(trade, k, memory) = Fate(later, k, memory)
  <2>1. k \in {"symbol", "type", "side"}
    BY <1>6 DEF EventKeys
  <2>2. later.symbol = trade.symbol /\ later.type = trade.type /\ later.side = trade.side
    BY <1>1 DEF IsTrade, EventKeys, Mutable
  <2> QED BY <2>1, <2>2 DEF Fate
<1>7. Copied(trade, later) = copy
  BY DEF Copied, told, retold
<1> QED BY <1>2, <1>3, <1>5, <1>6, <1>7

\* The reversal keeps stops and prices on their sides.
LEMMA CopyIsPlaceable ==
    ASSUME NEW trade, IsTrade(trade), NEW c, NEW market \in Int, Placeable(trade, market),
           NEW copy, \A k \in EventKeys("placed") : copy[k] = Fate(trade, k, c)
    PROVE  Placeable(copy, market)
<1>1. /\ copy.side = IF c.reverse_trading THEN reverse_side(trade.side) ELSE trade.side
      /\ copy.type = IF c.reverse_trading THEN reverse_order_type(trade.type) ELSE trade.type
      /\ copy.price = trade.price
      /\ copy.sl = IF c.reverse_trading THEN trade.tp ELSE trade.sl
      /\ copy.tp = IF c.reverse_trading THEN trade.sl ELSE trade.tp
  BY DEF Fate, EventKeys
<1>2. trade.type \in {"market", "limit", "stop"} /\ trade.side \in {"buy", "sell"}
  BY DEF IsTrade
<1>3. CASE ~c.reverse_trading
  BY <1>1, <1>3 DEF Placeable
<1>4. CASE c.reverse_trading
  <2>1. /\ copy.side = IF trade.side = "buy" THEN "sell" ELSE "buy"
        /\ copy.type = IF trade.type = "limit" THEN "stop"
                       ELSE IF trade.type = "stop" THEN "limit" ELSE "market"
    BY <1>1, <1>2, <1>4 DEF reverse_side, reverse_order_type
  <2> QED BY <1>1, <1>2, <1>4, <2>1 DEF Placeable, Beyond
<1> QED BY <1>3, <1>4

\* Every copy can be placed where its trade can.
LEMMA EveryCopyPlaceable == CopiesStayPlaceable
<1> SUFFICES ASSUME memory.role = "slave", NEW trade \in Trades, NEW later \in Versions(trade)
             PROVE  LET copy == Copied(trade, later)
                    IN  /\ copy.symbol # <<>> /\ copy.volume > 0
                        /\ \A market \in Around(later.price) :
                              Placeable(later, market) => Placeable(copy, market)
  BY DEF CopiesStayPlaceable, ForEveryCopy
<1> DEFINE copy == Copied(trade, later)
<1>1. IsTrade(later)
  BY TradesAssumption DEF Versions
<1>2. \A k \in EventKeys("placed") : copy[k] = Fate(later, k, memory)
  BY CopiedFields
<1> HIDE DEF copy
<1>3. copy.symbol # <<>>
  BY <1>1, <1>2, SlaveSymbolThere DEF EventKeys, Fate, IsTrade
<1>4. copy.volume > 0
  BY <1>1, <1>2, SlaveVolumePositive DEF EventKeys, Fate, IsTrade
<1>5. \A market \in Around(later.price) : market \in Int
  BY <1>1 DEF Around, IsTrade
<1>6. \A market \in Around(later.price) : Placeable(later, market) => Placeable(copy, market)
  BY <1>1, <1>2, <1>5, CopyIsPlaceable
<1> QED BY <1>3, <1>4, <1>6 DEF copy

\* A snapshot and the events agree on every field that both have.
LEMMA EverySnapshotAgrees == SnapshotConfirmsEvents
<1> SUFFICES ASSUME memory.role = "slave", NEW trade \in Trades, NEW later \in Versions(trade),
                    NEW k \in DOMAIN Copied(trade, later)
                                \cap DOMAIN SnapshotEntry(Listed(later), memory)
             PROVE  SnapshotEntry(Listed(later), memory)[k] = Copied(trade, later)[k]
  BY DEF SnapshotConfirmsEvents, ForEveryCopy
<1>1. IsTrade(later)
  BY TradesAssumption DEF Versions
<1> DEFINE S == DOMAIN Listed(later)
<1>2. /\ Listed(later) = Restrict(later, S) \/ Listed(later) = later
      /\ Stops \subseteq S
  <2>1. CASE later.type = "market"
    <3>1. Listed(later) = Restrict(later, DOMAIN later \ {"price"})
      BY <2>1 DEF Listed
    <3> QED BY <1>1, <3>1 DEF Restrict, IsTrade, EventKeys, Stops
  <2>2. CASE later.type # "market"
    BY <1>1, <2>2 DEF Listed, IsTrade, EventKeys, Stops
  <2> QED BY <2>1, <2>2
<1>4. \A f \in S : Fate(Listed(later), f, memory) = Fate(later, f, memory)
  BY <1>2, FateOfPart
<1>5. /\ DOMAIN SnapshotEntry(Listed(later), memory) = S
      /\ \A f \in S : SnapshotEntry(Listed(later), memory)[f] = Fate(Listed(later), f, memory)
  BY <1>2, ConvertedFields DEF SnapshotEntry
<1>6. k \in EventKeys("placed") /\ Copied(trade, later)[k] = Fate(later, k, memory)
  BY CopiedFields
<1> QED BY <1>4, <1>5, <1>6

\* The snapshot confirms what the events told of a trade: the slave never corrects
\* its own copies (SlaveConverter.cpp 84-121, 266-383; BridgeServer.cpp 881-1006).
THEOREM HeartbeatSnapshots == Spec => [](SnapshotConfirmsEvents /\ EverySnapshotConfirms)
<1>1. SnapshotConfirmsEvents /\ EverySnapshotConfirms
  BY EverySnapshotAgrees DEF EverySnapshotConfirms
<1> QED BY <1>1, PTL

\* Whatever the settings, what a broker takes from the master it can take from the
\* slave, and a copy has a symbol and a volume (SlaveConverter.cpp 266-464).
THEOREM HeartbeatCopies == Spec => [](CopiesStayPlaceable /\ EveryCopyIsPlaceable)
<1>1. CopiesStayPlaceable /\ EveryCopyIsPlaceable
  BY EveryCopyPlaceable DEF EveryCopyIsPlaceable
<1> QED BY <1>1, PTL
=============================================================================
