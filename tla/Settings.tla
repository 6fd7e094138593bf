------------------------------ MODULE Settings ------------------------------
(***************************************************************************)
(* The settings table (db/settings_repo.py): rows of text read with the     *)
(* type stored beside them.  The start of the process seeds missing rows;   *)
(* the HTTP route stores any JSON value of an admin, and the in-game        *)
(* !settings command one it has coerced to the row's type.                  *)
(***************************************************************************)
EXTENDS Integers, FiniteSets

CONSTANTS
    BoolKeys, IntKeys,   \* the rows, by value_type
    Numbers,             \* the integers that are set
    Default,             \* the value each row is seeded with
    True, False,         \* the JSON values and the texts "true" and "false"
    Word,                \* any other string: as a text, one int() refuses
    NoRow

Keys == BoolKeys \cup IntKeys
Texts == Numbers \cup {True, False, Word}
Typed(k) == IF k \in BoolKeys THEN {True, False} ELSE Numbers

ASSUME SettingsAssumption ==
    /\ BoolKeys \cap IntKeys = {}
    /\ Numbers \subseteq Nat
    /\ \A v \in {True, False, Word} : v \notin Nat
    /\ True # False /\ Word \notin {True, False}
    /\ NoRow \notin Texts
    /\ Default \in [Keys -> Texts] /\ \A k \in Keys : Default[k] \in Typed(k)

VARIABLES
    settings,  \* the text of each row
    asked      \* what !settings has coerced and is about to store

svars == <<settings, asked>>

SettingsTypeOK ==
    /\ settings \in [Keys -> Texts \cup {NoRow}]
    /\ asked \subseteq {a \in Keys \X Texts : a[2] \in Typed(a[1])}
    /\ Cardinality(asked) <= 1

\* An empty table, or one migrated from a version with fewer settings.
SettingsInit ==
    /\ settings \in {s \in [Keys -> Texts \cup {NoRow}] :
                        \A k \in Keys : s[k] \in {Default[k], NoRow}}
    /\ asked = {}

-----------------------------------------------------------------------------
Truthy(v) == v \notin {False, 0}

\* Mutant: str(value) whatever the type.
SerializeStr(k, v) == IF v \in {True, False} THEN Word ELSE v

\* By truth for a bool row, else by str(): "True" is no integer.
Serialize(k, v) ==
    IF k \in BoolKeys THEN (IF Truthy(v) THEN True ELSE False)
    ELSE IF v \in {True, False} THEN Word ELSE v

\* int() of the text raises; a bool row reads as false whatever it holds.
Readable(k) == k \in BoolKeys \/ settings[k] \in Numbers
On(k) == settings[k] = True

\* Rows that are there keep their value.
Seed == settings' = [k \in Keys |-> IF settings[k] = NoRow THEN Default[k] ELSE settings[k]]

\* The value is committed before it is read back for the reply.
Put(k, v) ==
    /\ settings[k] # NoRow
    /\ settings' = [settings EXCEPT ![k] = Serialize(k, v)]
    /\ UNCHANGED asked

\* Mutant: the raw text is stored.
AskSetRaw(k, v) ==
    /\ asked = {} /\ settings[k] # NoRow
    /\ asked' = {<<k, IF k \in IntKeys THEN Word ELSE v>>}
    /\ UNCHANGED settings

\* The current value is read to learn the type: a value that cannot be read, or
\* a text that is not of its type, ends the command with a reply.
AskSet(k, v) ==
    /\ asked = {} /\ settings[k] # NoRow
    /\ Readable(k) /\ v \in Typed(k)
    /\ asked' = {<<k, v>>}
    /\ UNCHANGED settings

WriteSet ==
    \E a \in asked :
        /\ settings' = [settings EXCEPT ![a[1]] = Serialize(a[1], a[2])]
        /\ asked' = {}

SettingsNext ==
    \E k \in Keys, v \in Texts : Put(k, v) \/ AskSet(k, v) \/ (WriteSet /\ asked = {<<k, v>>})

-----------------------------------------------------------------------------
(* Properties                                                               *)

\* What the admin asks for in the game is what is read afterwards, whatever was
\* put over HTTP meanwhile; a bool put over HTTP reads back by its truth.
SettingTakesEffect ==
    [][/\ \A k \in Keys, v \in Texts :
             (asked = {<<k, v>>} /\ asked' = {} /\ settings' # settings) =>
                 settings'[k] = v
       /\ \A k \in BoolKeys : settings'[k] # settings[k] => settings'[k] \in {True, False}]_svars

\* A setting stops being readable only by a value put over HTTP: neither the
\* in-game command nor a restart does that, so that a loop that has read a value
\* reads one again until an admin puts a wrong one.
UnreadableByPutOnly ==
    [][\A k \in Keys :
          settings[k] \in Typed(k) /\ settings'[k] \notin Typed(k) =>
              \E v \in Texts : Put(k, v)]_svars
=============================================================================
