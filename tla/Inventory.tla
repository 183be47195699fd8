------------------------------- MODULE Inventory -------------------------------
(***************************************************************************)
(* What is installed on the machine, and how appcd comes to know of it:    *)
(* the plugins that `appcd pm` puts in the daemon's home (PluginInstall),  *)
(* and the things a plugin has detected for it, such as SDKs, with a       *)
(* DetectEngine that watches directories and the registry.                 *)
(*                                                                         *)
(* A behaviour has one focus, so that each cause of change is explored by  *)
(* itself: "disk", directories and items come and go; "stop", the engine   *)
(* is stopped and started again and a scan may fail; "paths", the caller   *)
(* sets other paths; "poll", the registry callback is polled; "keys",      *)
(* registry keys and their value change; "pm", commands are run.           *)
(***************************************************************************)
EXTENDS DetectEngine, PluginInstall

CONSTANTS
    Configured,   \* focus -> the options, the disk and the registry that there may be at first
    MovingNodes   \* the directories that change

ASSUME InventoryAssumption == MovingNodes \subseteq Nodes

VARIABLE focus
allVars == <<focus, vars, pmVars>>

TypeOK == RegistryTypeOK /\ DetectTypeOK /\ PMTypeOK

Init ==
    /\ focus \in DOMAIN Configured
    /\ DetectInit /\ PMInit
    /\ options \in Configured[focus].options /\ hive \in Configured[focus].hives
    /\ [dirs |-> disk, items |-> items] \in Configured[focus].disks
    /\ focus \notin {"paths", "poll"} => paths = CHOOSE l \in PathLists : Len(l) = 1

Engine(A) == focus # "pm" /\ A /\ UNCHANGED <<focus, pmVars>>
About(f, A) == focus = f /\ A /\ UNCHANGED <<focus, pmVars>>

Next ==
    \/ Engine(Start) \/ Engine(Works)
    \/ \E n \in MovingNodes :
          \/ About("disk", MakeDir(n) \/ RemoveDir(n) \/ ToggleItem(n))
          \/ n \in Roots /\ About("stop", ToggleItem(n))
    \/ About("stop", Stop \/ FailScan)
    \/ \E list \in PathLists : focus \in {"paths", "poll"} /\ Engine(SetPaths(list))
    \/ \E p \in Roots : About("poll", MoveAnswer(p))
    \/ About("keys", EditKeys(\/ \E p \in Folders \cup {None} : EditValue(p)
                              \/ \E k \in Keys : AddKey(k) \/ DeleteKey(k)))
    \/ focus = "pm" /\ PMNext /\ UNCHANGED <<focus, vars>>

Spec == Init /\ [][Next]_allVars

-------------------------------------------------------------------------------
\* When everything a change has set off is done, an engine that runs shows what is in the
\* directories it looks at, and what it knows of the registry is what the keys hold,
\* whatever changed meanwhile and in whatever order its scans and watches met it: the
\* exceptions are those its ghosts name.  (And every variable has its type.)
DetectionIsTrue == TypeOK /\ ResultsAreTrue /\ KeysAreMirrored
================================================================================
