------------------------------ MODULE ConfigService ------------------------------
(***************************************************************************)
(* The configuration of the daemon as a service: ConfigService             *)
(* (packages/appcd-config-service/src/config-service.js).  A layer is the  *)
(* config file of a plugin, which the plugin manager loads and unloads; a  *)
(* write changes a value and saves the user's config.  Its subscriptions   *)
(* are those of ServiceDispatcher.                                         *)
(***************************************************************************)
EXTENDS Integers, Sequences

CONSTANTS
    Layers,      \* the ids that configs are loaded under, one file each
    MaxWatchers, \* bound: file watchers ever opened
    MaxEdits     \* bound: changes of files and of the value

CSAssumption == MaxWatchers \in Nat /\ MaxEdits \in Nat

VARIABLES
    file,     \* layer -> the version of its file, 0 if there is none
    valid,    \* the layers whose file can be parsed
    layer,    \* layer -> the version that is loaded, 0 if none
    watchers, \* this.watchers: layer -> its watcher, or 0
    open,     \* the watchers that are open, with the layer of each
    events,   \* watcher -> its file system events on their way
    replaced, \* the watchers that a second load took out of this.watchers
    value,    \* the value in memory and the one on disk
    edits

csVars == <<file, valid, layer, watchers, open, events, replaced, value, edits>>

Watchers == 1..MaxWatchers
Actions == {"change", "delete"}

CSTypeOK ==
    /\ file \in [Layers -> 0..MaxEdits+1] /\ valid \subseteq Layers
    /\ layer \in [Layers -> 0..MaxEdits+1]
    /\ watchers \in [Layers -> Watchers \cup {0}]
    /\ open \subseteq Watchers \X Layers
    /\ events \in [Watchers -> Seq(Actions)]
    /\ replaced \subseteq Watchers
    /\ value \in [memory : 0..MaxEdits, disk : 0..MaxEdits]
    /\ edits \in 0..MaxEdits

Init ==
    /\ file \in [Layers -> {0, 1}] /\ valid = Layers
    /\ layer = [l \in Layers |-> 0] /\ watchers = [l \in Layers |-> 0]
    /\ open = {} /\ events = [w \in Watchers |-> <<>>] /\ replaced = {}
    /\ value = [memory |-> 0, disk |-> 0] /\ edits = 0
-------------------------------------------------------------------------------
\* config.load(): fails, and leaves what was loaded, if the file cannot be read.
Loads(l) == layer' = [layer EXCEPT ![l] = file[l]]
Readable(l) == file[l] # 0 /\ l \in valid

\* action 'load'
Load(l) ==
    /\ Readable(l) /\ \E w \in Watchers : \A m \in Layers : <<w, m>> \notin open
    /\ Loads(l)
    /\ LET w == CHOOSE w \in Watchers : \A m \in Layers : <<w, m>> \notin open
       IN /\ watchers' = [watchers EXCEPT ![l] = w]
          /\ open' = open \cup {<<w, l>>}
          /\ events' = [events EXCEPT ![w] = <<>>]
          /\ replaced' = (replaced \cup {watchers[l]}) \ {0, w}
    /\ UNCHANGED <<file, valid, value, edits>>

\* Mutant of CloseWatcher: the watcher stays open.
CloseWatcherForgets(l) ==
    /\ watchers' = [watchers EXCEPT ![l] = 0]
    /\ UNCHANGED open

CloseWatcher(l) ==
    /\ watchers' = [watchers EXCEPT ![l] = 0]
    /\ open' = {o \in open : o[1] # watchers[l]}

\* unload(id)
UnloadLayer(l) == layer' = [layer EXCEPT ![l] = 0] /\ CloseWatcher(l)

\* action 'unload'
Unload(l) ==
    /\ UnloadLayer(l)
    /\ UNCHANGED <<file, valid, events, replaced, value, edits>>

\* The actions that change the value.  The request is answered before it is saved.
Write ==
    /\ edits < MaxEdits /\ edits' = edits + 1
    /\ value' = [value EXCEPT !.memory = edits + 1]
    /\ UNCHANGED <<file, valid, layer, watchers, open, events, replaced>>

Save ==
    /\ value.disk # value.memory
    /\ value' = [value EXCEPT !.disk = value.memory]
    /\ UNCHANGED <<file, valid, layer, watchers, open, events, replaced, edits>>

\* Somebody edits a file, breaks it or deletes it.
Edit(l, to, sound) ==
    /\ edits < MaxEdits /\ edits' = edits + 1
    /\ to = 0 => file[l] # 0
    /\ file' = [file EXCEPT ![l] = to]
    /\ valid' = IF sound THEN valid \cup {l} ELSE valid \ {l}
    /\ events' = [w \in Watchers |->
         IF <<w, l>> \in open THEN Append(events[w], IF to = 0 THEN "delete" ELSE "change") ELSE events[w]]
    /\ UNCHANGED <<layer, watchers, open, replaced, value>>

\* Mutant of Notified: the layer of a file that was deleted stays.
NotifiedReloadsOnly(w) ==
    /\ events[w] # <<>> /\ events' = [events EXCEPT ![w] = Tail(@)]
    /\ IF \E l \in Layers : <<w, l>> \in open /\ Readable(l)
         THEN \E l \in Layers : <<w, l>> \in open /\ Loads(l)
         ELSE UNCHANGED layer
    /\ UNCHANGED <<file, valid, watchers, open, replaced, value, edits>>

\* The listener of a watcher: unload(id), or load(true).
Notified(w) ==
    /\ events[w] # <<>> /\ events' = [events EXCEPT ![w] = Tail(@)]
    /\ IF \E l \in Layers : <<w, l>> \in open
         THEN LET l == CHOOSE l \in Layers : <<w, l>> \in open
              IN IF Head(events[w]) = "delete"
                   THEN UnloadLayer(l)
                   ELSE /\ IF Readable(l) THEN Loads(l) ELSE UNCHANGED layer
                        /\ UNCHANGED <<watchers, open>>
         ELSE UNCHANGED <<layer, watchers, open>>
    /\ UNCHANGED <<file, valid, replaced, value, edits>>

\* shutdown(): the watchers it knows are closed.
Shutdown ==
    /\ open' = {o \in open : watchers[o[2]] # o[1]}
    /\ watchers' = [l \in Layers |-> 0]
    /\ UNCHANGED <<file, valid, layer, events, replaced, value, edits>>

Calls == (\E l \in Layers : Load(l) \/ Unload(l)) \/ Write
Edits == \E l \in Layers, to \in {0, edits + 2}, sound \in BOOLEAN : Edit(l, to, sound)
Work ==
    \/ Save
    \/ \E w \in Watchers : Notified(w)
Next == Calls \/ Edits \/ Work \/ Shutdown

Spec == Init /\ [][Next]_csVars
-------------------------------------------------------------------------------
\* A watcher is open for every layer that was loaded and not unloaded, and no other
\* watcher is, but those that a second load of a layer has replaced: these are
\* closed by nobody.
WatchersOwned ==
    /\ \A l \in Layers : watchers[l] # 0 => <<watchers[l], l>> \in open
    /\ \A o \in open : watchers[o[2]] = o[1] \/ o[1] \in replaced

\* Once the events have come in, a layer is as its file was when that could last be
\* parsed; a layer whose file is gone is gone.
LayersFollowFiles ==
    (\A w \in Watchers : events[w] = <<>>) =>
      \A l \in Layers :
        watchers[l] # 0 => /\ file[l] # 0
                           /\ Readable(l) => layer[l] = file[l]
=============================================================================
