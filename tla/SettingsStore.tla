--------------------------- MODULE SettingsStore ---------------------------
(***************************************************************************)
(* What the REST API promises about the settings of an account: a request  *)
(* changes the fields it names and no other, null means the default, and   *)
(* so does no text for a lot type or an action; the address of a master is *)
(* ignored for masters, no role means no settings, and a restart finds     *)
(* what was saved last.                                                    *)
(*                                                                         *)
(* It does not promise that a change is saved: the file may stay as it     *)
(* was, or be lost when the disk is full or the terminal dies.             *)
(***************************************************************************)
EXTENDS SlaveConverter

CONSTANTS
    Bodies,   \* JSON objects in requests: functions on some of the fields
    Exact     \* from here on a number has a digit more than are saved

VARIABLES
    kept,     \* the settings in force
    saved     \* what a restart will find

\* Without a role there are no settings.
NoSettings == AccountConfig

Modifiers == {"prefix", "suffix"}

\* A modifier that is null changes nothing; otherwise it is replaced as a whole.
Names(body) == {f \in DOMAIN body : f \in Modifiers => body[f] # Null}

\* Where one of some words is expected, an empty one is none.
MeansDefault(f, value) == value = Null \/ (f \in {"lot_type", "action"} /\ value = "")

Meant(f, value) ==
    IF MeansDefault(f, value) THEN AccountConfig[f]
    ELSE IF f = "lot_type" /\ value = "fixedlot" THEN "fixed"
    ELSE IF f \in Modifiers
         THEN [k \in DOMAIN DefaultModifier |->
                IF k \in DOMAIN value /\ ~MeansDefault(k, value[k])
                THEN value[k] ELSE DefaultModifier[k]]
    ELSE value

Changed(settings, body) ==
    [f \in DOMAIN settings |->
        IF f = "master_tcp_url" /\ (IF "role" \in DOMAIN body THEN body.role
                                    ELSE settings.role) = "master" THEN ""
        ELSE IF f \in Names(body) THEN Meant(f, body[f])
        ELSE settings[f]]

\* Six digits of a number are saved.
Short(n) == IF n < Exact THEN n ELSE ((n + 5) \div 10) * 10

Saved(settings) == [settings EXCEPT !.lot_multiplier = Short(@),
                                    !.fixed_lot = Short(@)]

\* The settings a request starts from: a deletion may leave the file.
Base == IF kept = NoSettings THEN saved ELSE kept

Update(body) ==
    LET settings == Changed(Base, body)
    IN  /\ kept' = settings
        /\ settings.role # ""
        /\ saved' \in {Saved(settings), saved, NoSettings}

Clear ==
    /\ kept' = NoSettings
    /\ saved' \in {NoSettings, saved}

\* A restart, or a request that finds nothing in force.
Recall ==
    /\ kept' = saved
    /\ UNCHANGED saved

Init ==
    /\ kept = NoSettings
    /\ saved = NoSettings

Next == Recall \/ Clear \/ \E body \in Bodies : Update(body)

Spec == Init /\ [][Next]_<<kept, saved>>
=============================================================================
