---------------------------- MODULE RegistryWatcher ----------------------------
(***************************************************************************)
(* How a detect engine follows a key of the Windows Registry               *)
(* (packages/appcd-detect/src/registry-watcher.js): a RegistryWatcher owns *)
(* a KeyWatcher for its key, and a KeyWatcher owns one for each subkey     *)
(* down to a depth.  Every KeyWatcher keeps what it last listed, reads its *)
(* key again when winreglib reports a change, and says so when it differs; *)
(* the RegistryWatcher gathers the values some time after the last of such *)
(* words (debounce).                                                       *)
(*                                                                         *)
(* winreglib is external: it reports the changes of a key in order, and    *)
(* later than they happen; a watched key need not exist.                   *)
(***************************************************************************)
EXTENDS Naturals, Sequences, FiniteSets

CONSTANTS
    None,
    Keys, Top,     \* the registry keys, and the one that is watched
    Up,            \* key -> the key it is a subkey of (Top is its own)
    KeyDepth,      \* params.depth
    Shown,         \* the subkeys of Top that params.filter lets through
    Folders        \* what the value of Top may hold

\* The keys form a tree: each is so many steps beneath Top.
ASSUME RWAssumption ==
    /\ Top \in Keys /\ Up \in [Keys -> Keys] /\ IsFiniteSet(Keys) /\ KeyDepth \in Nat
    /\ \E level \in [Keys -> 0..Cardinality(Keys)] :
          level[Top] = 0 /\ \A k \in Keys \ {Top} : level[k] = 1 + level[Up[k]]

VARIABLES
    hive,       \* the keys that exist
    entry,      \* the value of Top, None when it has none
    kept,       \* key -> the subkeys and the value in its KeyWatcher's state
    followed,   \* the keys with a KeyWatcher
    news,       \* key -> the changes winreglib has yet to report
    notifying,  \* the timer of the debounced notify() is armed
    values      \* RegistryWatcher.values (None: empty)

keyVars == <<hive, entry, kept, followed, news, notifying, values>>

Level[k \in Keys] == IF k = Top THEN 0 ELSE 1 + Level[Up[k]]

\* A key and the keys it is in.
Above[k \in Keys] == {k} \cup (IF k = Top THEN {} ELSE Above[Up[k]])
Within(a) == {k \in Keys : a \in Above[k]}       \* a and everything beneath it
Subkeys(k) == {c \in Keys \ {Top} : Up[c] = k}

\* winreglib.list() and get(), through the filter (nested KeyWatchers have none).
ListKey(k) ==
    [subkeys |-> {c \in Subkeys(k) \cap hive : k = Top => c \in Shown},
     value   |-> IF k = Top /\ Top \in hive THEN entry ELSE None]

KeyState == [subkeys : SUBSET Keys, value : Folders \cup {None}]
Blank == [subkeys |-> {}, value |-> None]

RegistryTypeOK ==
    /\ hive \subseteq Keys /\ followed \subseteq Keys
    /\ entry \in Folders \cup {None} /\ values \in Folders \cup {None}
    /\ kept \in [Keys -> KeyState]
    /\ news \in [Keys -> Seq({"add", "change", "delete"})]
    /\ notifying \in BOOLEAN

\* The registry before start().
RegistryInit ==
    /\ hive \in {{}, Keys} /\ entry = None
    /\ kept = [k \in Keys |-> Blank] /\ followed = {}
    /\ news = [k \in Keys |-> <<>>]
    /\ notifying = FALSE /\ values = None

-------------------------------------------------------------------------------
\* The keys that get a KeyWatcher when new KeyWatcher(k) runs: its constructor
\* lists the key and makes one for each subkey within the depth.
Reached(k) ==
    {c \in Within(k) : c # k =>
        /\ c \in hive /\ Level[c] <= KeyDepth
        /\ k = Top => \E a \in Shown \cap Subkeys(Top) : a \in Above[c]}

\* new KeyWatcher() for each key of ks and what lies beneath them.
Follow(ks) ==
    LET new == (UNION {Reached(k) : k \in ks}) \ followed
    IN  /\ followed' = followed \cup new
        /\ kept' = [k \in Keys |-> IF k \in new THEN ListKey(k) ELSE kept[k]]

\* start(): the KeyWatcher of the key, and its value.
StartKeys ==
    /\ Follow({Top})
    /\ values' = ListKey(Top).value
    /\ UNCHANGED <<hive, entry, news, notifying>>

\* stop(): every KeyWatcher is destroyed; a notify() that is due is not called off.
StopKeys ==
    /\ followed' = {} /\ kept' = [k \in Keys |-> Blank]
    /\ news' = [k \in Keys |-> <<>>]
    /\ UNCHANGED <<hive, entry, notifying, values>>

-------------------------------------------------------------------------------
\* Somebody edits the registry; the keys of `told` are reported.
Report(told) ==
    news' = [k \in Keys |-> IF k \in followed /\ k \in DOMAIN told
                            THEN Append(news[k], told[k]) ELSE news[k]]

EditValue(v) ==
    /\ Top \in hive /\ entry' = v /\ v # entry
    /\ Report([k \in {Top} |-> "change"])
    /\ UNCHANGED <<hive, kept, followed, notifying, values>>

AddKey(k) ==
    /\ k \notin hive /\ (k # Top => Up[k] \in hive)
    /\ hive' = hive \cup {k}
    /\ entry' = IF k = Top THEN None ELSE entry
    /\ Report([c \in {k, Up[k]} |-> IF c = k THEN "add" ELSE "change"])
    /\ UNCHANGED <<kept, followed, notifying, values>>

DeleteKey(k) ==
    /\ k \in hive
    /\ hive' = hive \ Within(k)
    /\ entry' = IF k = Top THEN None ELSE entry
    /\ Report([c \in (Within(k) \cap hive) \cup {Up[k]} |->
                  IF c \in Within(k) THEN "delete" ELSE "change"])
    /\ UNCHANGED <<kept, followed, notifying, values>>

\* The 'change' listener of a KeyWatcher: update() lists the key again and the
\* change bubbles up when anything differs; a deleted key drops its subkeys,
\* any other change makes KeyWatchers for the new ones.
HearKey(k) ==
    LET type == Head(news[k])
        now == ListKey(k)
        gone == IF type = "delete" THEN (Within(k) \ {k}) \cap followed ELSE {}
        new == IF type # "delete" /\ Level[k] < KeyDepth
               THEN (UNION {Reached(c) : c \in now.subkeys \ followed}) \ followed ELSE {}
    IN  /\ news[k] # <<>> /\ k \in followed
        /\ followed' = (followed \ gone) \cup new
        /\ kept' = [c \in Keys |-> IF c = k THEN now
                                   ELSE IF c \in gone THEN Blank
                                   ELSE IF c \in new THEN ListKey(c) ELSE kept[c]]
        /\ news' = [c \in Keys |-> IF c = k THEN Tail(news[k])
                                   ELSE IF c \in gone THEN <<>> ELSE news[c]]
        /\ notifying' = (notifying \/ now # kept[k])
        /\ UNCHANGED <<hive, entry, values>>

\* The debounced notify(): refreshValues(), then 'change' (the engine rescans).
\* After stop() there is no watcher left to ask.
NotifyKeys ==
    /\ notifying /\ notifying' = FALSE
    /\ values' = IF Top \in followed THEN kept[Top].value ELSE None
    /\ UNCHANGED <<hive, entry, kept, followed, news>>

-------------------------------------------------------------------------------
KeysAtRest == \A k \in followed : news[k] = <<>>

(* While the key is followed and nothing is left to report, every KeyWatcher  *)
(* holds what its key holds, and every key within the depth that the filter   *)
(* lets through has one, whatever was deleted and made again before its       *)
(* reports came in; and unless a notify() is due, the value that was gathered *)
(* is the registry's (registry-watcher.js:84, :136, :301).                    *)
KeysAreMirrored ==
    Top \in followed /\ KeysAtRest =>
        /\ \A k \in followed : kept[k] = ListKey(k)
        /\ Reached(Top) \subseteq followed
        /\ notifying \/ values = ListKey(Top).value
================================================================================
