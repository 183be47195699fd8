----------------------------- MODULE InventoryProofs -----------------------------
(***************************************************************************)
(* Theorems about Inventory.  What `appcd pm` leaves on the disk, for any  *)
(* plugins and any number of commands, each of which may fail or die       *)
(* anywhere (PluginsKept); and the detection engine, for any disk,         *)
(* registry and settings, and any number of detectors and watches: its     *)
(* watches (NoneIsLeaked), its registry keys (KeysFollowed) and its        *)
(* results (DetectionCorrect).                                             *)
(*                                                                         *)
(* The watches rest on where a watch is: as long as it is open, or has     *)
(* something to say yet, its id is in the place that it was opened for, or *)
(* on its way there (PlacedInv).  That survives because the answers come   *)
(* in the order of the requests: an id that is on its way to a place       *)
(* arrives after the old one was taken from there (ComingInv, DropsInv),   *)
(* and what a stop() has passed over is closed and silent (StopsInv).      *)
(*                                                                         *)
(* The keys rest on what is still to be reported: a key whose reports have *)
(* all come in is held as it is (KeptInv), a subkey that is missing has a  *)
(* parent with a report to come (FollowedInv), and a key that exists was   *)
(* not last reported as deleted (LastInv).                                 *)
(*                                                                         *)
(* The results rest on what is under way: as long as no event, timer, stop *)
(* or rescan is left that a scan will follow (Fresh), the scan has found   *)
(* what is, as of now, in the paths that it is done with, and in the part  *)
(* of its path that it has looked at (TruthInv).  A change of the disk     *)
(* makes that false of the past, but an event is then on its way, or the   *)
(* ghost `unseen` says that no watch acts on it.                           *)
(***************************************************************************)
EXTENDS Inventory, FiniteSetTheorems, WellFoundedInduction, TLAPS

\* The fields of a command.
CommandType ==
    [kind : Kinds \cup {"none"}, at : Places \cup {"idle"}, want : SUBSET Plugins,
     todo : SUBSET Plugins, installed : SUBSET Plugins, chosen : SUBSET Plugins,
     spaces : SUBSET Plugins, work : SUBSET Plugins, revert : SUBSET Plugins,
     due : SUBSET Plugins, error : BOOLEAN]

DiskInv ==
    /\ json \in [Plugins -> {"none", "own", "renamed", "bad"}]
    /\ links \subseteq entries /\ entries \subseteq Plugins /\ workspaces \subseteq Plugins
    /\ \A p \in Plugins \ entries : json[p] = "none"
    /\ command \in CommandType /\ clean \in BOOLEAN

Own == {p \in Plugins : json[p] = "own"}
Plain(ps) == \A p \in ps : json[p] \in {"none", "own"}

\* The packages that have their other name.
Away == IF command.at = "restore" THEN command.due ELSE command.revert \ command.work

\* Nothing is moved to `invalid` while nothing went wrong.
CleanInv == clean => invalid = {} /\ (command.at \in {"idle", "detect"} => Plain(Plugins))

\* Between two commands.
IdleInv ==
    command.at = "idle" /\ last \in {"install", "default", "uninstall"} =>
      workspaces \ links = {p \in entries : json[p] = "own"} \ links

\* What has been looked at is plain, and known when it has a package.
DetectInv ==
    command.at = "detect" =>
      /\ command.todo \subseteq entries /\ Plain(Plugins \ command.todo)
      /\ command.installed = Own \ command.todo
      /\ command.work = {} /\ command.revert = {} /\ command.due = {} /\ ~command.error

\* The workspaces-to-be are the plugins that are installed, those that are yet to be
\* fetched added and those that are yet to be removed left out.
WorkInv ==
    /\ command.at \in {"fetch", "extract", "remove", "symlink"} =>
         /\ Plain(Plugins) /\ command.revert = {} /\ command.due = {} /\ ~command.error
    /\ command.at \in {"fetch", "remove", "symlink"} => command.work = {}
    /\ command.at \in {"fetch", "extract"} =>
         /\ command.kind \in {"install", "default"}
         /\ Own = command.spaces \ command.todo
         /\ command.work \subseteq command.todo /\ command.todo \subseteq command.spaces
    /\ command.at = "extract" => command.work \subseteq entries
    /\ command.at = "remove" =>
         /\ command.kind = "uninstall"
         /\ Own = command.spaces \cup command.todo
         /\ command.spaces \cap command.todo = {}
    /\ command.at = "symlink" => command.kind = "link"

\* While names are changed, each package is either plain or has its other name and
\* will be restored, unless one of them failed to be changed or restored.
RenameInv ==
    command.at \in {"rename", "yarn", "restore"} =>
      /\ command.todo \cup command.work \cup command.revert \cup command.due \subseteq entries
      /\ command.error => ~clean
      /\ ~command.error =>
           /\ command.work \subseteq command.revert /\ command.work \cap command.todo = {}
           /\ command.at \in {"yarn", "restore"} => command.todo = {} /\ command.work = {}
           /\ command.at \in {"rename", "yarn"} => command.due = {}
           /\ command.work \subseteq Own
           /\ Plain(Plugins \ Away)
           /\ command.kind # "link" =>
                /\ workspaces = (Own \cup Away) \cap (entries \ links)
                /\ command.todo \cup command.work \cup Away \subseteq workspaces
                /\ command.todo \subseteq Own

PMInv == DiskInv /\ CleanInv /\ IdleInv /\ DetectInv /\ WorkInv /\ RenameInv

\* A command starts with looking at every version directory.
LEMMA RunKeeps ==
    ASSUME PMInv, NEW kind \in Kinds, NEW want \in SUBSET Plugins, Run(kind, want)
    PROVE  PMInv'
<1> USE DEF PMInv, DiskInv, CommandType, Own, Plain, Away, Kinds, Places, Idle, Step, End, Disk, Run
<1>1. DiskInv'
  <2>1. command' \in CommandType
    OBVIOUS
  <2>2. QED
    BY <2>1 DEF DetectInv, WorkInv, RenameInv
<1>2. CleanInv'
  BY DEF CleanInv, IdleInv, DetectInv, WorkInv, RenameInv
<1>3. IdleInv'
  BY DEF CleanInv, IdleInv, DetectInv, WorkInv, RenameInv
<1>4. DetectInv'
  BY DEF CleanInv, IdleInv, DetectInv, WorkInv, RenameInv
<1>5. WorkInv'
  BY DEF CleanInv, IdleInv, DetectInv, WorkInv, RenameInv
<1>6. RenameInv'
  BY DEF CleanInv, IdleInv, DetectInv, WorkInv, RenameInv
<1>7. QED
  BY <1>1, <1>2, <1>3, <1>4, <1>5, <1>6

\* A directory is looked at.
LEMMA DetectKeeps ==
    ASSUME PMInv, NEW p \in Plugins, Detect(p)
    PROVE  PMInv'
<1> USE DEF PMInv, DiskInv, CommandType, Own, Plain, Away, Kinds, Places, Idle, Step, End, Disk, Detect
<1>1. DiskInv'
  <2>1. command' \in CommandType
    OBVIOUS
  <2>2. QED
    BY <2>1 DEF DetectInv, WorkInv, RenameInv
<1>2. CleanInv'
  BY DEF CleanInv, IdleInv, DetectInv, WorkInv, RenameInv
<1>3. IdleInv'
  BY DEF CleanInv, IdleInv, DetectInv, WorkInv, RenameInv
<1>4. DetectInv'
  BY DEF CleanInv, IdleInv, DetectInv, WorkInv, RenameInv
<1>5. WorkInv'
  BY DEF CleanInv, IdleInv, DetectInv, WorkInv, RenameInv
<1>6. RenameInv'
  BY DEF CleanInv, IdleInv, DetectInv, WorkInv, RenameInv
<1>7. QED
  BY <1>1, <1>2, <1>3, <1>4, <1>5, <1>6

\* What has been looked at decides what the command is about.
LEMMA ChooseKeeps ==
    ASSUME PMInv, PMAssumption, Choose
    PROVE  PMInv'
<1> USE DEF PMInv, DiskInv, CommandType, Own, Plain, Away, Kinds, Places, Idle, Step, End, Disk, Choose
<1>1. /\ command.at = "detect" /\ command.todo = {}
      /\ UNCHANGED <<json, entries, links, workspaces, invalid, clean>>
      /\ command.installed = Own /\ Plain(Plugins) /\ command.work = {}
      /\ command.revert = {} /\ command.due = {} /\ ~command.error
  BY DEF DetectInv
<1>2. CASE command' = Idle /\ last' \notin {"install", "default", "uninstall"}
  <2> HIDE DEF Choose
  <2>1. command' \in CommandType
    BY <1>2
  <2>2. QED
    BY <1>1, <1>2, <2>1 DEF CleanInv, IdleInv, DetectInv, WorkInv, RenameInv
<1>3. ASSUME NEW at \in {"fetch", "remove", "symlink"}, NEW chosen \in SUBSET Plugins,
             NEW spaces \in SUBSET Plugins,
             command' = [command EXCEPT !.at = at, !.todo = chosen, !.chosen = chosen, !.spaces = spaces],
             at = "fetch" => /\ command.kind \in {"install", "default"}
                             /\ spaces = command.installed \cup chosen
                             /\ chosen \cap command.installed = {},
             at = "remove" => /\ command.kind = "uninstall" /\ chosen \subseteq command.installed
                              /\ spaces = command.installed \ chosen,
             at = "symlink" => command.kind = "link"
      PROVE  PMInv'
  <2> HIDE DEF Choose
  <2>1. command' \in CommandType
    BY <1>3
  <2>2. /\ command'.at = at /\ command'.todo = chosen /\ command'.spaces = spaces
        /\ command'.kind = command.kind /\ command'.work = {} /\ command'.revert = {}
        /\ command'.due = {} /\ ~command'.error
    BY <1>1, <1>3
  <2>3. DiskInv' /\ CleanInv'
    BY <1>1, <2>1, <2>2 DEF CleanInv
  <2>4. IdleInv' /\ DetectInv' /\ RenameInv'
    BY <1>3, <2>2 DEF IdleInv, DetectInv, RenameInv
  <2>5. WorkInv'
    BY <1>1, <1>3, <2>2 DEF WorkInv
  <2>6. QED
    BY <2>3, <2>4, <2>5
<1>4. CASE command.kind \in {"install", "default"}
  <2> DEFINE new == command.want \ command.installed
             spaces == command.installed \cup new
  <2>1. \/ command' = Idle /\ last' = "failed"
        \/ command' = [command EXCEPT !.at = "fetch", !.todo = new, !.chosen = new, !.spaces = spaces]
    BY <1>4
  <2>2. new \in SUBSET Plugins /\ spaces \in SUBSET Plugins /\ new \cap command.installed = {}
    OBVIOUS
  <2>3. spaces = command.installed \cup new
    OBVIOUS
  <2> HIDE DEF new, spaces, PMInv, Choose
  <2>4. QED
    BY <1>2, <1>3, <1>4, <2>1, <2>2, <2>3
<1>5. CASE command.kind = "uninstall"
  <2> DEFINE olds == command.want \cap command.installed
             spaces == command.installed \ olds
  <2>1. \/ command' = Idle /\ last' = "failed"
        \/ command' = [command EXCEPT !.at = "remove", !.todo = olds, !.chosen = olds, !.spaces = spaces]
    BY <1>5
  <2>2. olds \in SUBSET Plugins /\ spaces \in SUBSET Plugins /\ olds \subseteq command.installed
    OBVIOUS
  <2>3. spaces = command.installed \ olds
    OBVIOUS
  <2> HIDE DEF olds, spaces, PMInv, Choose
  <2>4. QED
    BY <1>2, <1>3, <1>5, <2>1, <2>2, <2>3
<1>6. CASE command.kind = "link"
  <2>1. command' = [command EXCEPT !.at = "symlink", !.todo = Linkable, !.chosen = Linkable,
                                   !.spaces = workspaces]
    BY <1>6
  <2>2. Linkable \in SUBSET Plugins /\ workspaces \in SUBSET Plugins
    BY PMAssumption DEF PMAssumption
  <2> HIDE DEF PMInv, Choose
  <2>3. QED
    BY <1>3, <1>6, <2>1, <2>2
<1>7. CASE command' = Idle /\ last' = "check"
  BY <1>2, <1>7
<1>8. QED
  BY <1>4, <1>5, <1>6, <1>7

\* The registry refuses.
LEMMA RefuseKeeps ==
    ASSUME PMInv, Refuse
    PROVE  PMInv'
<1> USE DEF PMInv, DiskInv, CommandType, Own, Plain, Away, Kinds, Places, Idle, Step, End, Disk, Refuse
<1>1. DiskInv'
  BY DEF DetectInv, WorkInv, RenameInv
<1>2. CleanInv'
  BY DEF CleanInv, IdleInv, DetectInv, WorkInv, RenameInv
<1>3. IdleInv'
  BY DEF CleanInv, IdleInv, DetectInv, WorkInv, RenameInv
<1>4. DetectInv'
  BY DEF CleanInv, IdleInv, DetectInv, WorkInv, RenameInv
<1>5. WorkInv'
  BY DEF CleanInv, IdleInv, DetectInv, WorkInv, RenameInv
<1>6. RenameInv'
  BY DEF CleanInv, IdleInv, DetectInv, WorkInv, RenameInv
<1>7. QED
  BY <1>1, <1>2, <1>3, <1>4, <1>5, <1>6

\* A directory is emptied for the package to come.
LEMMA FetchKeeps ==
    ASSUME PMInv, NEW p \in Plugins, Fetch(p)
    PROVE  PMInv'
<1> USE DEF PMInv, DiskInv, CommandType, Own, Plain, Away, Kinds, Places, Idle, Step, End, Disk, Fetch
<1>1. DiskInv'
  <2>1. command' \in CommandType
    OBVIOUS
  <2>2. QED
    BY <2>1 DEF DetectInv, WorkInv, RenameInv
<1>2. CleanInv'
  BY DEF CleanInv, IdleInv, DetectInv, WorkInv, RenameInv
<1>3. IdleInv'
  BY DEF CleanInv, IdleInv, DetectInv, WorkInv, RenameInv
<1>4. DetectInv'
  BY DEF CleanInv, IdleInv, DetectInv, WorkInv, RenameInv
<1>5. WorkInv'
  BY DEF CleanInv, IdleInv, DetectInv, WorkInv, RenameInv
<1>6. RenameInv'
  BY DEF CleanInv, IdleInv, DetectInv, WorkInv, RenameInv
<1>7. QED
  BY <1>1, <1>2, <1>3, <1>4, <1>5, <1>6

\* The package is extracted, or only some of it.
LEMMA ExtractKeeps ==
    ASSUME PMInv, NEW p \in Plugins, Extract(p)
    PROVE  PMInv'
<1> USE DEF PMInv, DiskInv, CommandType, Own, Plain, Away, Kinds, Places, Idle, Step, End, Disk, Extract
<1>1. /\ command.at = "extract" /\ p \in command.work /\ p \in entries
      /\ p \in command.todo /\ p \in command.spaces
      /\ UNCHANGED <<entries, links, workspaces, invalid, clean>>
      /\ Own = command.spaces \ command.todo /\ Plain(Plugins)
      /\ command.revert = {} /\ command.due = {} /\ ~command.error
      /\ command.kind \in {"install", "default"} /\ command.todo \subseteq command.spaces
  BY DEF WorkInv
<1>2. PICK left \in {"none", "own"} : json' = [json EXCEPT ![p] = left]
  OBVIOUS
<1>3. /\ Plain(Plugins)' /\ json' \in [Plugins -> {"none", "own", "renamed", "bad"}]
      /\ \A q \in Plugins \ entries : json'[q] = "none"
  BY <1>1, <1>2
<1>4. CASE command' = Idle /\ last' = "failed"
  <2> HIDE DEF Extract
  <2>1. command' \in CommandType
    BY <1>4
  <2>2. QED
    BY <1>1, <1>3, <1>4, <2>1 DEF CleanInv, IdleInv, DetectInv, WorkInv, RenameInv
<1>5. CASE /\ json' = [json EXCEPT ![p] = "own"]
           /\ command' = [command EXCEPT !.at = "fetch", !.work = {}, !.todo = @ \ {p}]
  <2> HIDE DEF Extract
  <2>1. /\ command' \in CommandType
        /\ command'.at = "fetch" /\ command'.work = {} /\ command'.todo = command.todo \ {p}
        /\ command'.spaces = command.spaces /\ command'.kind = command.kind
        /\ command'.revert = {} /\ command'.due = {} /\ ~command'.error
    BY <1>1, <1>5
  <2>2. Own' = Own \cup {p}
    BY <1>5
  <2>3. DiskInv' /\ CleanInv'
    BY <1>1, <1>3, <2>1 DEF CleanInv
  <2>4. IdleInv' /\ DetectInv' /\ RenameInv'
    BY <2>1 DEF IdleInv, DetectInv, RenameInv
  <2>5. WorkInv'
    <3> HIDE DEF Own, Plain
    <3>1. QED
      BY <1>1, <1>3, <2>1, <2>2 DEF WorkInv
  <2>6. QED
    BY <2>3, <2>4, <2>5
<1>6. QED
  BY <1>4, <1>5

\* A plugin is removed, or some of it is left.
LEMMA RemovePluginKeeps ==
    ASSUME PMInv, NEW p \in Plugins, RemovePlugin(p)
    PROVE  PMInv'
<1> USE DEF PMInv, DiskInv, CommandType, Own, Plain, Away, Kinds, Places, Idle, Step, End, Disk, RemovePlugin
<1>1. DiskInv'
  <2>1. command' = Idle \/ command' = [command EXCEPT !.todo = @ \ {p}]
    OBVIOUS
  <2>2. ASSUME command' = Idle PROVE command' \in CommandType
    BY <2>2
  <2>3. ASSUME command' = [command EXCEPT !.todo = @ \ {p}] PROVE command' \in CommandType
    <3>1. command \in CommandType
      OBVIOUS
    <3> HIDE DEF PMInv, DiskInv, RemovePlugin, Own, Plain, Away
    <3>2. QED
      BY <2>3, <3>1
  <2>4. QED
    BY <2>1, <2>2, <2>3 DEF WorkInv
<1>2. CleanInv'
  <2>1. Plain(Plugins)' /\ UNCHANGED <<invalid, clean>>
    BY DEF WorkInv
  <2>2. QED
    BY <2>1 DEF CleanInv
<1>3. IdleInv'
  BY DEF CleanInv, IdleInv, DetectInv, WorkInv, RenameInv
<1>4. DetectInv'
  BY DEF CleanInv, IdleInv, DetectInv, WorkInv, RenameInv
<1>5. WorkInv'
  BY DEF CleanInv, IdleInv, DetectInv, WorkInv, RenameInv
<1>6. RenameInv'
  BY DEF CleanInv, IdleInv, DetectInv, WorkInv, RenameInv
<1>7. QED
  BY <1>1, <1>2, <1>3, <1>4, <1>5, <1>6

\* A directory makes way for a link.
LEMMA SymlinkKeeps ==
    ASSUME PMInv, NEW p \in Plugins, Symlink(p)
    PROVE  PMInv'
<1> USE DEF PMInv, DiskInv, CommandType, Own, Plain, Away, Kinds, Places, Idle, Step, End, Disk, Symlink
<1>1. DiskInv'
  BY DEF DetectInv, WorkInv, RenameInv
<1>2. CleanInv'
  BY DEF CleanInv, IdleInv, DetectInv, WorkInv, RenameInv
<1>3. IdleInv'
  BY DEF CleanInv, IdleInv, DetectInv, WorkInv, RenameInv
<1>4. DetectInv'
  BY DEF CleanInv, IdleInv, DetectInv, WorkInv, RenameInv
<1>5. WorkInv'
  BY DEF CleanInv, IdleInv, DetectInv, WorkInv, RenameInv
<1>6. RenameInv'
  BY DEF CleanInv, IdleInv, DetectInv, WorkInv, RenameInv
<1>7. QED
  BY <1>1, <1>2, <1>3, <1>4, <1>5, <1>6

\* The workspaces are what is installed; or they were before.
LEMMA UpdateKeeps ==
    ASSUME PMInv, Update
    PROVE  PMInv'
<1> USE DEF PMInv, DiskInv, CommandType, Own, Plain, Away, Kinds, Places, Idle, Step, End, Disk, Update
<1> DEFINE valid == {p \in command.spaces : p \in entries \ links}
<1>1. /\ command.at \in {"fetch", "remove", "symlink"} /\ command.todo = {}
      /\ UNCHANGED <<json, entries, links, invalid, clean>>
      /\ Plain(Plugins) /\ command.work = {}
      /\ command.revert = {} /\ command.due = {} /\ ~command.error
      /\ command.at = "symlink" => command.kind = "link"
      /\ command.kind \in {"install", "default"} => command.at = "fetch"
      /\ command.at \in {"fetch", "remove"} => Own = command.spaces
  BY DEF WorkInv
<1>2. CASE /\ command.kind \in {"install", "default"} /\ command.spaces = workspaces
           /\ command' = Idle /\ last' = command.kind /\ workspaces' = workspaces
  <2> HIDE DEF Update
  <2>1. command' \in CommandType
    BY <1>2
  <2>2. workspaces = Own /\ Own \subseteq entries
    BY <1>1, <1>2
  <2>3. IdleInv'
    BY <1>1, <1>2, <2>2 DEF IdleInv
  <2>4. QED
    BY <1>1, <1>2, <2>1, <2>3 DEF CleanInv, DetectInv, WorkInv, RenameInv
<1>3. CASE workspaces' = valid /\ command' = [command EXCEPT !.at = "rename", !.todo = valid]
  <2> HIDE DEF Update
  <2>1. /\ command' \in CommandType /\ command'.at = "rename" /\ command'.todo = valid
        /\ command'.kind = command.kind /\ command'.work = {} /\ command'.revert = {}
        /\ command'.due = {} /\ ~command'.error
    BY <1>1, <1>3
  <2>2. valid \subseteq entries \ links /\ valid \subseteq Plugins
    OBVIOUS
  <2>3. DiskInv' /\ CleanInv'
    BY <1>1, <1>3, <2>1, <2>2 DEF CleanInv
  <2>4. IdleInv' /\ DetectInv' /\ WorkInv'
    BY <2>1 DEF IdleInv, DetectInv, WorkInv
  <2>5. Away' = {}
    BY <2>1
  <2>6. command.kind # "link" => valid = Own \cap (entries \ links)
    BY <1>1
  <2>7. RenameInv'
    <3> HIDE DEF Away, valid
    <3>1. QED
      BY <1>1, <1>3, <2>1, <2>2, <2>5, <2>6 DEF RenameInv
  <2>8. QED
    BY <2>3, <2>4, <2>7
<1>4. CASE command' = Idle /\ last' = "failed" /\ workspaces' \in {workspaces, {}}
  <2> HIDE DEF Update
  <2>1. command' \in CommandType
    BY <1>4
  <2>2. QED
    BY <1>1, <1>4, <2>1 DEF CleanInv, IdleInv, DetectInv, WorkInv, RenameInv
<1>5. QED
  BY <1>1, <1>2, <1>3, <1>4

\* A package.json could not be read, or its name not be written, there or back: it stays
\* as it is or is cut short, and the command knows that it failed.
LEMMA FailureKeeps ==
    ASSUME PMInv, NEW p \in Plugins, command.at \in {"rename", "restore"}, p \in entries,
           json' = json \/ json' = [json EXCEPT ![p] = "bad"],
           UNCHANGED <<entries, links, workspaces, invalid>>,
           command' \in CommandType, command'.at = "restore", command'.error, clean' = FALSE,
           command'.todo \subseteq command.todo, command'.work \subseteq command.work,
           command'.revert = command.revert,
           command'.due \subseteq command.due \cup command.revert
    PROVE  PMInv'
<1>1. DiskInv'
  BY DEF PMInv, DiskInv
<1>2. CleanInv'
  BY DEF PMInv, CleanInv
<1>3. IdleInv' /\ DetectInv' /\ WorkInv'
  BY DEF IdleInv, DetectInv, WorkInv
<1>4. RenameInv'
  BY DEF PMInv, RenameInv
<1>5. QED
  BY <1>1, <1>2, <1>3, <1>4 DEF PMInv

\* A package.json is read, or fails to be.
LEMMA ReadNameKeeps ==
    ASSUME PMInv, NEW p \in Plugins, ReadName(p)
    PROVE  PMInv'
<1> USE DEF PMInv, DiskInv, CommandType, Own, Plain, Away, Kinds, Places, Idle, Step, End, Disk, ReadName
<1>1. /\ command.at \in {"rename", "restore"} /\ p \in command.todo /\ p \in entries
      /\ UNCHANGED <<json, entries, links, workspaces, invalid>>
  BY DEF RenameInv
<1>2. CASE /\ json[p] = "own" /\ clean' = clean
           /\ command' = [command EXCEPT !.todo = @ \ {p}, !.work = @ \cup {p}, !.revert = @ \cup {p}]
  <2> HIDE DEF ReadName
  <2>1. /\ command' \in CommandType
        /\ command'.at = command.at /\ command'.kind = command.kind
        /\ command'.todo = command.todo \ {p} /\ command'.work = command.work \cup {p}
        /\ command'.revert = command.revert \cup {p} /\ command'.due = command.due
        /\ command'.error = command.error
    BY <1>2
  <2>2. DiskInv' /\ CleanInv' /\ IdleInv' /\ DetectInv' /\ WorkInv'
    BY <1>1, <1>2, <2>1 DEF CleanInv, IdleInv, DetectInv, WorkInv
  <2>3. Own' = Own /\ p \in Own
    BY <1>1, <1>2
  <2>4. RenameInv'
    <3>1. ~command.error => command.at = "rename"
      BY <1>1 DEF RenameInv
    <3>2. command.at = "rename" => Away' = Away \ {p} /\ p \notin Away'
      BY <2>1
    <3>3. \A q \in Plugins : json'[q] = json[q]
      BY <1>1
    <3> HIDE DEF Away, Own
    <3>4. QED
      BY <1>1, <1>2, <2>1, <2>3, <3>1, <3>2, <3>3 DEF RenameInv
  <2>5. QED
    BY <2>2, <2>4
<1>3. CASE Fails([command EXCEPT !.todo = @ \ {p}])
  <2> HIDE DEF ReadName
  <2>1. /\ command' \in CommandType
        /\ command'.at = "restore"
        /\ command'.todo = command.todo \ {p} /\ command'.work = command.work
        /\ command'.revert = command.revert
        /\ command'.due \in {command.due, command.revert} /\ command'.error /\ clean' = FALSE
    BY <1>3 DEF Fails
  <2> HIDE DEF PMInv, CommandType
  <2>2. QED
    BY <1>1, <2>1, FailureKeeps
<1>4. \/ json[p] = "own" /\ Step([[command EXCEPT !.todo = @ \ {p}] EXCEPT !.work = @ \cup {p}, !.revert = @ \cup {p}])
      \/ Fails([command EXCEPT !.todo = @ \ {p}])
  <2> HIDE DEF PMInv, DiskInv, CommandType, Own, Plain, Away, Kinds, Places, Idle, Step, End, Disk
  <2>1. QED
    OBVIOUS
<1>5. CASE json[p] = "own" /\ Step([[command EXCEPT !.todo = @ \ {p}] EXCEPT !.work = @ \cup {p}, !.revert = @ \cup {p}])
  <2> HIDE DEF ReadName
  <2>1. command' = [command EXCEPT !.todo = @ \ {p}, !.work = @ \cup {p}, !.revert = @ \cup {p}]
    BY <1>5
  <2>2. clean' = clean
    BY <1>5
  <2> HIDE DEF PMInv, DiskInv, CommandType, Own, Plain, Away, Kinds, Places, Idle, Step, End, Disk
  <2>3. QED
    BY <1>2, <1>5, <2>1, <2>2
<1>6. QED
  <2> HIDE DEF PMInv, DiskInv, CommandType, Own, Plain, Away, Kinds, Places, Idle, Step, End, Disk, ReadName
  <2>1. QED
    BY <1>3, <1>4, <1>5

\* A package gets its other name.
LEMMA WriteNameKeeps ==
    ASSUME PMInv, NEW p \in Plugins, WriteName(p)
    PROVE  PMInv'
<1> USE DEF PMInv, DiskInv, CommandType, Own, Plain, Away, Kinds, Places, Idle, Step, End, Disk
<1>1. /\ command.at \in {"rename", "restore"} /\ p \in command.work /\ p \in entries
      /\ UNCHANGED <<entries, links, workspaces, invalid>>
  BY DEF WriteName, RenameInv
<1>2. CASE json' = [json EXCEPT ![p] = "renamed"] /\ Step([command EXCEPT !.work = @ \ {p}])
  <2>1. /\ command' \in CommandType /\ clean' = clean
        /\ command'.at = command.at /\ command'.kind = command.kind
        /\ command'.todo = command.todo /\ command'.work = command.work \ {p}
        /\ command'.revert = command.revert /\ command'.due = command.due
        /\ command'.error = command.error
    BY <1>2
  <2>2. Own' = Own \ {p} /\ \A q \in Plugins \ {p} : json'[q] = json[q]
    BY <1>2
  <2>3. ~command.error => command.at = "rename" /\ p \in command.revert
    BY <1>1 DEF RenameInv
  <2>4. ~command.error => Away' = Away \cup {p}
    BY <2>1, <2>3
  <2>5. DiskInv'
    BY <1>1, <1>2, <2>1
  <2>6. CleanInv' /\ IdleInv' /\ DetectInv' /\ WorkInv'
    BY <1>1, <2>1 DEF CleanInv, IdleInv, DetectInv, WorkInv
  <2>7. RenameInv'
    <3> HIDE DEF Away, Own
    <3>1. QED
      BY <1>1, <1>2, <2>1, <2>2, <2>3, <2>4 DEF RenameInv
  <2>8. QED
    BY <2>5, <2>6, <2>7
<1>3. CASE (\E left \in {json[p], "bad"} : json' = [json EXCEPT ![p] = left]) /\ Fails([command EXCEPT !.work = @ \ {p}])
  <2>1. json' = json \/ json' = [json EXCEPT ![p] = "bad"]
    <3>1. json \in [Plugins -> {"none", "own", "renamed", "bad"}]
      OBVIOUS
    <3> HIDE DEF PMInv
    <3>2. [json EXCEPT ![p] = json[p]] = json
      BY <3>1
    <3>3. PICK left \in {json[p], "bad"} : json' = [json EXCEPT ![p] = left]
      BY <1>3
    <3>4. QED
      BY <3>2, <3>3
  <2>2. /\ command' \in CommandType /\ command'.at = "restore" /\ command'.error /\ clean' = FALSE
        /\ command'.todo = command.todo /\ command'.work = command.work \ {p}
        /\ command'.revert = command.revert
        /\ command'.due \in {command.due, command.revert}
    BY <1>1, <1>3 DEF Fails
  <2> HIDE DEF PMInv, CommandType
  <2>3. QED
    BY <1>1, <2>1, <2>2, FailureKeeps
<1>4. QED
  <2> HIDE DEF PMInv, DiskInv, CommandType, Own, Plain, Away, Kinds, Places, Idle, Step, End, Disk
  <2>1. QED
    BY <1>2, <1>3 DEF WriteName

\* All have their other name.
LEMMA YarnKeeps ==
    ASSUME PMInv, Yarn
    PROVE  PMInv'
<1> USE DEF PMInv, DiskInv, CommandType, Own, Plain, Away, Kinds, Places, Idle, Step, End, Disk, Yarn
<1>1. DiskInv'
  BY DEF DetectInv, WorkInv, RenameInv
<1>2. CleanInv'
  BY DEF CleanInv, IdleInv, DetectInv, WorkInv, RenameInv
<1>3. IdleInv'
  BY DEF CleanInv, IdleInv, DetectInv, WorkInv, RenameInv
<1>4. DetectInv'
  BY DEF CleanInv, IdleInv, DetectInv, WorkInv, RenameInv
<1>5. WorkInv'
  BY DEF CleanInv, IdleInv, DetectInv, WorkInv, RenameInv
<1>6. RenameInv'
  BY DEF CleanInv, IdleInv, DetectInv, WorkInv, RenameInv
<1>7. QED
  BY <1>1, <1>2, <1>3, <1>4, <1>5, <1>6

\* What was read will be restored.
LEMMA YarnExitsKeeps ==
    ASSUME PMInv, YarnExits
    PROVE  PMInv'
<1> USE DEF PMInv, DiskInv, CommandType, Own, Plain, Away, Kinds, Places, Idle, Step, End, Disk, YarnExits
<1>1. DiskInv'
  BY DEF DetectInv, WorkInv, RenameInv
<1>2. CleanInv'
  BY DEF CleanInv, IdleInv, DetectInv, WorkInv, RenameInv
<1>3. IdleInv'
  BY DEF CleanInv, IdleInv, DetectInv, WorkInv, RenameInv
<1>4. DetectInv'
  BY DEF CleanInv, IdleInv, DetectInv, WorkInv, RenameInv
<1>5. WorkInv'
  BY DEF CleanInv, IdleInv, DetectInv, WorkInv, RenameInv
<1>6. RenameInv'
  BY DEF CleanInv, IdleInv, DetectInv, WorkInv, RenameInv
<1>7. QED
  BY <1>1, <1>2, <1>3, <1>4, <1>5, <1>6

\* A package has its name again.
LEMMA RestoreNameKeeps ==
    ASSUME PMInv, NEW p \in Plugins, RestoreName(p)
    PROVE  PMInv'
<1> USE DEF PMInv, DiskInv, CommandType, Own, Plain, Away, Kinds, Places, Idle, Step, End, Disk
<1>1. /\ command.at = "restore" /\ p \in command.due /\ p \in entries
      /\ UNCHANGED <<entries, links, workspaces, invalid>>
  BY DEF RestoreName, RenameInv
<1>2. CASE json' = [json EXCEPT ![p] = "own"] /\ Step([command EXCEPT !.due = @ \ {p}])
  <2>1. DiskInv'
    BY <1>1, <1>2
  <2>2. CleanInv' /\ IdleInv' /\ DetectInv' /\ WorkInv'
    BY <1>1, <1>2 DEF CleanInv, IdleInv, DetectInv, WorkInv
  <2>3. RenameInv'
    BY <1>1, <1>2 DEF RenameInv
  <2>4. QED
    BY <2>1, <2>2, <2>3
<1>3. CASE (\E left \in {json[p], "bad"} : json' = [json EXCEPT ![p] = left]) /\ Fails([command EXCEPT !.due = @ \ {p}])
  <2>1. json' = json \/ json' = [json EXCEPT ![p] = "bad"]
    <3>1. json \in [Plugins -> {"none", "own", "renamed", "bad"}]
      OBVIOUS
    <3> HIDE DEF PMInv
    <3>2. [json EXCEPT ![p] = json[p]] = json
      BY <3>1
    <3>3. PICK left \in {json[p], "bad"} : json' = [json EXCEPT ![p] = left]
      BY <1>3
    <3>4. QED
      BY <3>2, <3>3
  <2>2. /\ command' \in CommandType /\ command'.at = "restore" /\ command'.error /\ clean' = FALSE
        /\ command'.todo = command.todo /\ command'.work = command.work
        /\ command'.revert = command.revert
        /\ command'.due \subseteq command.due \cup command.revert
    BY <1>1, <1>3 DEF Fails
  <2> HIDE DEF PMInv, CommandType
  <2>3. QED
    BY <1>1, <2>1, <2>2, FailureKeeps
<1>4. QED
  <2> HIDE DEF PMInv, DiskInv, CommandType, Own, Plain, Away, Kinds, Places, Idle, Step, End, Disk
  <2>1. QED
    BY <1>2, <1>3 DEF RestoreName

\* All have their name again, and are the workspaces.
LEMMA FinishKeeps ==
    ASSUME PMInv, Finish
    PROVE  PMInv'
<1> USE DEF PMInv, DiskInv, CommandType, Own, Plain, Away, Kinds, Places, Idle, Step, End, Disk, Finish
<1>1. DiskInv'
  BY DEF DetectInv, WorkInv, RenameInv
<1>2. CleanInv'
  BY DEF CleanInv, IdleInv, DetectInv, WorkInv, RenameInv
<1>3. IdleInv'
  BY DEF CleanInv, IdleInv, DetectInv, WorkInv, RenameInv
<1>4. DetectInv'
  BY DEF CleanInv, IdleInv, DetectInv, WorkInv, RenameInv
<1>5. WorkInv'
  BY DEF CleanInv, IdleInv, DetectInv, WorkInv, RenameInv
<1>6. RenameInv'
  BY DEF CleanInv, IdleInv, DetectInv, WorkInv, RenameInv
<1>7. QED
  BY <1>1, <1>2, <1>3, <1>4, <1>5, <1>6

\* The process dies: nothing is promised but what the disk always is.
LEMMA DieKeeps ==
    ASSUME PMInv, Die
    PROVE  PMInv'
<1> USE DEF PMInv, DiskInv, CommandType, Own, Plain, Away, Kinds, Places, Idle, Step, End, Disk, Die
<1>1. DiskInv'
  <2>1. command' \in CommandType /\ clean' \in BOOLEAN
    OBVIOUS
  <2>2. PICK torn \in SUBSET (command.work \cup command.due) :
          /\ torn # {} => command.at \in {"rename", "restore"}
          /\ json' = [p \in Plugins |-> IF p \in torn THEN "bad" ELSE json[p]]
    OBVIOUS
  <2>3. torn \subseteq entries
    BY <2>2 DEF RenameInv
  <2>4. UNCHANGED <<entries, links, workspaces>>
    OBVIOUS
  <2> HIDE DEF Die
  <2>5. QED
    BY <2>1, <2>2, <2>3, <2>4
<1>2. CleanInv'
  BY DEF CleanInv, IdleInv, DetectInv, WorkInv, RenameInv
<1>3. IdleInv'
  BY DEF CleanInv, IdleInv, DetectInv, WorkInv, RenameInv
<1>4. DetectInv'
  BY DEF CleanInv, IdleInv, DetectInv, WorkInv, RenameInv
<1>5. WorkInv'
  BY DEF CleanInv, IdleInv, DetectInv, WorkInv, RenameInv
<1>6. RenameInv'
  BY DEF CleanInv, IdleInv, DetectInv, WorkInv, RenameInv
<1>7. QED
  BY <1>1, <1>2, <1>3, <1>4, <1>5, <1>6

LEMMA NextKeeps == PMAssumption /\ PMInv /\ [PMNext]_pmVars => PMInv'
<1> SUFFICES ASSUME PMAssumption, PMInv, [PMNext]_pmVars PROVE PMInv'
  OBVIOUS
<1>1. CASE PMNext
  <2>1. CASE \E kind \in Kinds, want \in SUBSET Plugins : Run(kind, want)
    BY <2>1, RunKeeps
  <2>2. CASE \E p \in Plugins : Detect(p) \/ Fetch(p) \/ Extract(p) \/ RemovePlugin(p)
    BY <2>2, DetectKeeps, FetchKeeps, ExtractKeeps, RemovePluginKeeps
  <2>3. CASE \E p \in Plugins : Symlink(p) \/ ReadName(p) \/ WriteName(p) \/ RestoreName(p)
    BY <2>3, SymlinkKeeps, ReadNameKeeps, WriteNameKeeps, RestoreNameKeeps
  <2>4. CASE Choose \/ Refuse \/ Update \/ Yarn \/ YarnExits \/ Finish \/ Die
    BY <2>4, ChooseKeeps, RefuseKeeps, UpdateKeeps, YarnKeeps, YarnExitsKeeps, FinishKeeps, DieKeeps
  <2>5. QED
    BY <1>1, <2>1, <2>2, <2>3, <2>4 DEF PMNext
<1>2. CASE UNCHANGED pmVars
  BY <1>2 DEF pmVars, PMInv, DiskInv, CleanInv, IdleInv, DetectInv, WorkInv, RenameInv, Own, Plain, Away
<1>3. QED
  BY <1>1, <1>2

LEMMA InitKeeps == PMInit => PMInv
BY DEF PMInit, PMInv, DiskInv, CleanInv, IdleInv, DetectInv, WorkInv, RenameInv, Own, Plain, Away,
       CommandType, Kinds, Places, Idle

\* Between two commands every package has its own name and no plugin was moved away, as
\* long as nothing went wrong with a renaming; and a command that finished leaves as
\* workspaces what is installed, whatever the commands before it left behind: for any
\* plugins and commands (plugins.js:216, :554, :803, :851).
THEOREM PluginsKept ==
    ASSUME PMAssumption
    PROVE  Spec => []PluginsAreKept
<1>1. Init => PMInv
  BY InitKeeps DEF Init
<1>2. PMInv => PluginsAreKept
  BY DEF PMInv, DiskInv, CleanInv, IdleInv, Plain, PluginsAreKept, Listed, Idle
<1>3. [Next]_allVars => [PMNext]_pmVars
  BY DEF Next, Engine, About, allVars, pmVars
<1>4. PMAssumption /\ PMInv /\ [PMNext]_pmVars => PMInv'
  BY NextKeeps
<1>5. QED
  BY PMAssumption, <1>1, <1>2, <1>3, <1>4, PTL DEF Spec

-------------------------------------------------------------------------------
Stops == {s.det : s \in stops}
Live == ToSet(detectors) \cup Scanned \cup Stops
Busy(w) == w \in open \/ events[w] # <<>>
Closed(d) == \A w \in open : watchOf[w].det # d

Drop == [det : Detectors, sub : Nodes, sid : Watches]

\* What the paths are made of, and where items are.
PathsInv ==
    /\ disk \subseteq Nodes /\ items \subseteq Nodes
    /\ paths \in PathLists /\ \A a \in asks : a.paths \in PathLists
    /\ answer \in Roots \cup {None} /\ values \in Folders \cup {None}
    /\ entry \in Folders \cup {None}
    /\ \A k \in Keys : kept[k].value \in Folders \cup {None}

\* What the variables hold, as far as the watches need it.
KindsInv ==
    /\ open \subseteq Watches
    /\ sid \in [Detectors -> Watches \cup {None}]
    /\ sids \in [Detectors -> [Nodes -> Watches \cup {None, Pending}]]
    /\ DOMAIN watchOf = Watches /\ DOMAIN events = Watches
    /\ \A w \in Watches : Busy(w) =>
         watchOf[w].det \in Detectors /\ watchOf[w].sub \in Nodes \cup {None}
    /\ stops \subseteq [det : Detectors, by : {"scan", "engine", "event"}, at : {"subs", "primary"},
                        seen : SUBSET Nodes]
    /\ drops \subseteq Drop
    /\ detectors \in Seq(Detectors) /\ halting \subseteq Detectors

\* The scan: what its fields hold at each of its places.
ScanInv ==
    /\ DOMAIN scan = DOMAIN NoScan
    /\ scan.at \in {"idle", "stale", "next", "check", "primary", "subs"}
    /\ scan.stale \subseteq Detectors /\ scan.todo \in Seq(Detectors)
    /\ scan.here \subseteq Nodes
    /\ scan.coming \subseteq [sub : Nodes \cup {None}, sid : Watches, after : SUBSET Drop]
    /\ scan.at # "stale" => scan.stale = {}
    /\ scan.at = "idle" => scan.todo = <<>>
    /\ scan.at \in {"check", "primary", "subs"} => scan.todo # <<>>
    /\ scan.at \notin {"primary", "subs"} => scan.coming = {}
    /\ scan.at = "primary" => \A c \in scan.coming : c.sub = None
    /\ scan.at = "subs" => \A c \in scan.coming : c.sub \in Nodes \ scan.here
    /\ \A b, c \in scan.coming : b.sub = c.sub => b = c
    /\ ToSet(scan.todo) \ cut \subseteq ToSet(detectors)

\* The watch that a detector waits for is its own, and it holds none in that place;
\* whatever it gave up there was given up before it asked.
ComingInv ==
    LET d == Head(scan.todo)
    IN  /\ \A c \in scan.coming :
             /\ watchOf[c.sid].det = d /\ watchOf[c.sid].sub = c.sub
             /\ d \notin cut => {x \in drops : x.det = d /\ x.sub = c.sub} \subseteq c.after
        /\ scan.at = "primary" /\ d \notin cut => sid[d] = None
        /\ scan.at = "subs" /\ d \notin cut =>
             \A n \in scan.here \cup {c.sub : c \in scan.coming} : sids[d][n] \notin Watches

\* A watch that is open, or has something to say yet, is where its detector put it.
Placed(w) ==
    LET t == watchOf[w]
    IN  \/ t.sub = None /\ sid[t.det] = w
        \/ t.sub \in Nodes /\ sids[t.det][t.sub] = w
        \/ \E c \in scan.coming : c.sid = w
PlacedInv ==
    \A w \in Watches : Busy(w) /\ watchOf[w].det \notin cut =>
        Placed(w) /\ (w \in open => watchOf[w].det \in Live)

\* A detector is not scanned while it is stopped, and what it has given up is closed.
StopsInv ==
    \A s \in stops : s.det \notin cut =>
        /\ s.det \notin ToSet(scan.todo)
        /\ \A n \in s.seen : sids[s.det][n] \notin open
        /\ s.at = "primary" => sid[s.det] \notin open /\ \A n \in Nodes : sids[s.det][n] = None

DropsInv ==
    \A x \in drops : x.det \notin cut =>
        x.sid \notin open /\ sids[x.det][x.sub] \in {x.sid, None, Pending}

\* The detectors that the engine has stopped have no watch, and are not scanned.
HaltInv ==
    phase = "stopping" =>
        \A d \in ToSet(detectors) \ (cut \cup halting) : d \notin ToSet(scan.todo) /\ Closed(d)

\* No two detectors are of the same directory.
DirsInv == \A d, e \in ToSet(detectors) : dirOf[d] = dirOf[e] => d = e

ShapeInv == KindsInv /\ ScanInv
WatchesInv ==
    PathsInv /\ ShapeInv /\ ComingInv /\ PlacedInv /\ StopsInv /\ DropsInv /\ HaltInv /\ DirsInv

-------------------------------------------------------------------------------
LEMMA SeqSets ==
    ASSUME NEW S, NEW s \in Seq(S)
    PROVE  /\ ToSet(s) \subseteq S
           /\ ToSet(<<>>) = {}
           /\ s # <<>> => /\ Head(s) \in ToSet(s) /\ Head(s) \in S /\ Tail(s) \in Seq(S)
                          /\ ToSet(Tail(s)) \subseteq ToSet(s)
                          /\ ToSet(s) \subseteq {Head(s)} \cup ToSet(Tail(s))
                          /\ ToSet(<<Head(s)>>) = {Head(s)}
                          /\ <<Head(s)>> \in Seq(S) /\ <<Head(s)>> # <<>>
                          /\ Head(<<Head(s)>>) = Head(s)
<1>1. ToSet(s) \subseteq S /\ ToSet(<<>>) = {}
  BY DEF ToSet
<1>2. ASSUME s # <<>>
      PROVE  /\ Head(s) \in ToSet(s) /\ Head(s) \in S /\ Tail(s) \in Seq(S)
             /\ ToSet(<<Head(s)>>) = {Head(s)}
             /\ <<Head(s)>> \in Seq(S) /\ <<Head(s)>> # <<>>
             /\ Head(<<Head(s)>>) = Head(s)
  BY <1>2 DEF ToSet
<1>3. ASSUME s # <<>> PROVE ToSet(Tail(s)) \subseteq ToSet(s)
  BY <1>3 DEF ToSet
<1>4. ASSUME s # <<>> PROVE ToSet(s) \subseteq {Head(s)} \cup ToSet(Tail(s))
  <2> SUFFICES ASSUME NEW i \in DOMAIN s, i # 1 PROVE s[i] \in ToSet(Tail(s))
    BY <1>4 DEF ToSet
  <2>1. i - 1 \in DOMAIN Tail(s) /\ Tail(s)[i - 1] = s[i]
    BY <1>4
  <2>2. QED
    BY <2>1 DEF ToSet
<1>5. QED
  BY <1>1, <1>2, <1>3, <1>4

\* The variables that the watches depend on.
linkVars == <<open, sid, sids, watchOf, events, dirOf, stops, drops, detectors, halting, scan,
              phase, cut>>

LEMMA NothingMoves ==
    ASSUME WatchesInv, PathsInv', UNCHANGED linkVars
    PROVE  WatchesInv'
BY DEF WatchesInv, ShapeInv, KindsInv, ScanInv, ComingInv, PlacedInv, StopsInv, DropsInv, HaltInv,
       DirsInv, linkVars, Busy, Closed, Placed, Live, Stops, Scanned

\* The directories and items change: only open watches are told.
LEMMA DiskKeeps ==
    ASSUME WatchesInv, NEW n \in Nodes, MakeDir(n) \/ RemoveDir(n) \/ ToggleItem(n)
    PROVE  WatchesInv'
<1>1. PathsInv'
  BY DEF WatchesInv, PathsInv, MakeDir, RemoveDir, ToggleItem, Changed, keyVars, engineVars
<1>2. /\ UNCHANGED <<open, sid, sids, watchOf, dirOf, stops, drops, detectors, halting, scan,
                     phase, cut>>
      /\ DOMAIN events' = Watches
      /\ \A w \in Watches : w \notin open => events'[w] = events[w]
  BY DEF MakeDir, RemoveDir, ToggleItem, Changed, Tell, engineVars, detectorVars
<1>3. \A w \in Watches : Busy(w)' => Busy(w)
  BY <1>2 DEF Busy
<1>4. QED
  BY <1>1, <1>2, <1>3 DEF WatchesInv, ShapeInv, KindsInv, ScanInv, ComingInv, PlacedInv, StopsInv,
       DropsInv, HaltInv, DirsInv, Closed, Placed, Live, Stops, Scanned

LEMMA PathKeeps ==
    ASSUME DEAssumption, WatchesInv,
           \/ \E list \in PathLists : SetPaths(list)
           \/ \E p \in Roots : MoveAnswer(p)
           \/ \E d \in Detectors : Fire(d)
           \/ RefreshPaths
    PROVE  WatchesInv'
<1>1. PathsInv'
  <2>1. CASE \E list \in PathLists : SetPaths(list)
    BY <2>1 DEF WatchesInv, PathsInv, SetPaths, keyVars
  <2>2. CASE \E p \in Roots : MoveAnswer(p)
    BY <2>2 DEF WatchesInv, PathsInv, MoveAnswer, keyVars, engineVars
  <2>3. CASE \E d \in Detectors : Fire(d)
    BY <2>3 DEF WatchesInv, PathsInv, Fire, keyVars, diskVars
  <2>4. CASE RefreshPaths
    BY <2>4 DEF WatchesInv, PathsInv, RefreshPaths, keyVars, diskVars
  <2>5. QED
    BY <2>1, <2>2, <2>3, <2>4
<1>2. UNCHANGED linkVars
  BY DEF SetPaths, MoveAnswer, Fire, RefreshPaths, detectorVars, watchVars, engineVars, ghosts, linkVars
<1>3. QED
  BY <1>1, <1>2, NothingMoves

LEMMA KeyKeeps ==
    ASSUME DEAssumption, WatchesInv,
           \/ \E k \in Keys : HearKey(k) /\ Rest
           \/ EditKeys(\/ \E p \in Folders \cup {None} : EditValue(p)
                       \/ \E k \in Keys : AddKey(k) \/ DeleteKey(k))
           \/ RegistryChanged
    PROVE  WatchesInv'
<1>1. \A k \in Keys : ListKey(k).value \in Folders \cup {None}
  BY DEF WatchesInv, PathsInv, ListKey
<1>2. CASE \E k \in Keys : HearKey(k) /\ Rest
  <2>1. PathsInv'
    BY <1>1, <1>2 DEF WatchesInv, PathsInv, HearKey, Rest, Blank, diskVars, engineVars
  <2>2. UNCHANGED linkVars
    BY <1>2 DEF Rest, detectorVars, watchVars, engineVars, ghosts, linkVars
  <2>3. QED
    BY <2>1, <2>2, NothingMoves
<1>3. CASE EditKeys(\/ \E p \in Folders \cup {None} : EditValue(p)
                    \/ \E k \in Keys : AddKey(k) \/ DeleteKey(k))
  <2>1. PathsInv'
    BY <1>3 DEF WatchesInv, PathsInv, EditKeys, EditValue, AddKey, DeleteKey, engineVars
  <2>2. UNCHANGED linkVars
    BY <1>3 DEF EditKeys, detectorVars, watchVars, engineVars, ghosts, linkVars
  <2>3. QED
    BY <2>1, <2>2, NothingMoves
<1>4. CASE RegistryChanged
  <2>1. PathsInv'
    BY <1>4, RWAssumption DEF WatchesInv, PathsInv, RegistryChanged, NotifyKeys, diskVars
  <2>2. UNCHANGED linkVars
    BY <1>4 DEF RegistryChanged, detectorVars, watchVars, ghosts, linkVars
  <2>3. QED
    BY <2>1, <2>2, NothingMoves
<1>5. QED
  BY <1>2, <1>3, <1>4

\* The engine is started.
LEMMA StartKeeps ==
    ASSUME DEAssumption, WatchesInv, Start
    PROVE  WatchesInv'
<1>1. \A k \in Keys : ListKey(k).value \in Folders \cup {None}
  BY DEF WatchesInv, PathsInv, ListKey
<1>2. PathsInv'
  BY <1>1 DEF WatchesInv, PathsInv, Start, StartKeys, Follow, ListKey
<1>3. UNCHANGED <<open, sid, sids, watchOf, events, dirOf, stops, drops, detectors, halting, scan,
                  cut>> /\ phase' = "running"
  BY DEF Start, detectorVars, watchVars, ghosts
<1>4. QED
  BY <1>2, <1>3 DEF WatchesInv, ShapeInv, KindsInv, ScanInv, ComingInv, PlacedInv, StopsInv,
       DropsInv, HaltInv, DirsInv, Busy, Closed, Placed, Live, Stops, Scanned

\* The engine is stopped.
LEMMA StopKeeps ==
    ASSUME WatchesInv, Stop
    PROVE  WatchesInv'
<1>1. PathsInv'
  BY DEF WatchesInv, PathsInv, Stop, StopKeys, diskVars, Blank
<1>2. UNCHANGED <<open, sid, sids, watchOf, events, dirOf, stops, drops, detectors, scan,
                  cut>> /\ halting' = ToSet(detectors)
  BY DEF Stop, detectorVars, watchVars, ghosts
<1>3. ToSet(detectors) \subseteq Detectors
  BY SeqSets DEF WatchesInv, ShapeInv, KindsInv
<1>4. QED
  BY <1>1, <1>2, <1>3 DEF WatchesInv, ShapeInv, KindsInv, ScanInv, ComingInv, PlacedInv, StopsInv,
       DropsInv, HaltInv, DirsInv, Busy, Closed, Placed, Live, Stops, Scanned

\* stop() of a detector begins: a scan that is about it leaks what it opens from now on.
LEMMA StopBegins ==
    ASSUME WatchesInv, NEW d \in Detectors, NEW by \in {"scan", "engine", "event"},
           StopDetector(d, by), PathsInv', KindsInv',
           UNCHANGED <<sid, sids, watchOf, dirOf, open, drops, detectors, halting, scan, phase>>,
           \A w \in Watches : Busy(w)' => Busy(w)
    PROVE  WatchesInv'
<1>1. cut \subseteq cut' /\ \A s \in stops' : s \in stops \/ s = Stopping(d, by)
  BY DEF StopDetector
<1>2. Stops \subseteq Stops' /\ Live \subseteq Live'
  BY DEF StopDetector, Stops, Live, Scanned
<1>3. ScanInv'
  BY <1>1 DEF WatchesInv, ShapeInv, ScanInv
<1>4. ComingInv'
  BY <1>1 DEF WatchesInv, ShapeInv, ScanInv, ComingInv
<1>5. PlacedInv'
  BY <1>1, <1>2 DEF WatchesInv, PlacedInv, Placed
<1>6. StopsInv'
  <2>1. d \notin cut' => d \notin ToSet(scan.todo)
    BY DEF StopDetector
  <2>2. QED
    BY <1>1, <2>1 DEF WatchesInv, StopsInv, Stopping
<1>7. DropsInv' /\ HaltInv' /\ DirsInv'
  BY <1>1 DEF WatchesInv, DropsInv, HaltInv, DirsInv, Closed
<1>8. QED
  BY <1>3, <1>4, <1>5, <1>6, <1>7 DEF WatchesInv, ShapeInv

\* The engine stops the next of its detectors, or has stopped all.
LEMMA StopNextKeeps ==
    ASSUME WatchesInv, StopNext
    PROVE  WatchesInv'
<1>1. PathsInv'
  BY DEF WatchesInv, PathsInv, StopNext, diskVars, keyVars
<1>2. UNCHANGED <<sid, sids, watchOf, dirOf, open, events, drops, halting>> /\ phase = "stopping"
  BY DEF StopNext, watchVars
<1>3. \A w \in Watches : Busy(w)' = Busy(w)
  BY <1>2 DEF Busy
<1>4. CASE \E d \in halting : StopDetector(d, "engine") /\ UNCHANGED <<phase, detectors, scan>>
  <2>1. PICK d \in halting : StopDetector(d, "engine") /\ UNCHANGED <<phase, detectors, scan>>
    BY <1>4
  <2>2. d \in Detectors
    BY DEF WatchesInv, ShapeInv, KindsInv
  <2>3. KindsInv'
    BY <1>2, <1>3, <2>1, <2>2 DEF WatchesInv, ShapeInv, KindsInv, StopDetector, Stopping
  <2>4. QED
    BY <1>1, <1>2, <1>3, <2>1, <2>2, <2>3, StopBegins
<1>5. CASE /\ halting = {} /\ phase' = "stopped" /\ detectors' = <<>>
           /\ scan' = (IF scan.at \in {"idle", "stale", "next"} THEN [scan EXCEPT !.todo = <<>>]
                       ELSE [scan EXCEPT !.todo = <<Head(@)>>])
           /\ UNCHANGED <<stops, cut>>
  <2>1. DOMAIN scan = DOMAIN NoScan /\ scan.todo \in Seq(Detectors)
    BY DEF WatchesInv, ShapeInv, ScanInv
  <2>2. /\ DOMAIN scan' = DOMAIN NoScan
        /\ scan'.at = scan.at /\ scan'.stale = scan.stale /\ scan'.here = scan.here
        /\ scan'.coming = scan.coming
        /\ scan'.todo = IF scan.at \in {"idle", "stale", "next"} THEN <<>> ELSE <<Head(scan.todo)>>
    BY <1>5, <2>1 DEF NoScan
  <2>3. ToSet(scan.todo) \subseteq cut
    <3>1. \A d \in ToSet(detectors) \ cut : d \notin ToSet(scan.todo)
      BY <1>2, <1>5 DEF WatchesInv, HaltInv
    <3>2. QED
      BY <3>1 DEF WatchesInv, ShapeInv, ScanInv
  <2>4. /\ scan'.todo \in Seq(Detectors) /\ ToSet(scan'.todo) \subseteq ToSet(scan.todo)
        /\ scan.at \notin {"idle", "stale", "next"} =>
             scan'.todo # <<>> /\ Head(scan'.todo) = Head(scan.todo)
    BY <2>1, <2>2, SeqSets DEF WatchesInv, ShapeInv, ScanInv
  <2>5. KindsInv'
    BY <1>2, <1>3, <1>5 DEF WatchesInv, ShapeInv, KindsInv
  <2>6. ScanInv'
    BY <1>5, <2>2, <2>3, <2>4 DEF WatchesInv, ShapeInv, ScanInv
  <2>7. ComingInv'
    BY <1>2, <1>5, <2>2, <2>4 DEF WatchesInv, ShapeInv, ScanInv, ComingInv
  <2>8. PlacedInv'
    <3>1. \A d \in ToSet(detectors) \ cut : Closed(d)
      BY <1>2, <1>5 DEF WatchesInv, HaltInv
    <3>2. \A d \in Live \ cut : Closed(d) \/ d \in Live'
      BY <1>5, <2>2, <2>3, <3>1 DEF Live, Scanned, Stops
    <3>3. \A w \in Watches : Placed(w) => Placed(w)'
      BY <1>2, <2>2 DEF Placed
    <3>4. QED
      BY <1>2, <1>3, <1>5, <3>2, <3>3 DEF WatchesInv, PlacedInv, Closed
  <2>9. StopsInv' /\ DropsInv'
    BY <1>2, <1>5, <2>4 DEF WatchesInv, StopsInv, DropsInv
  <2>10. HaltInv' /\ DirsInv'
    <3>1. ToSet(<<>>) = {}
      BY DEF ToSet
    <3>2. QED
      BY <1>5, <3>1 DEF HaltInv, DirsInv
  <2>11. QED
    BY <1>1, <2>5, <2>6, <2>7, <2>8, <2>9, <2>10 DEF WatchesInv, ShapeInv
<1>6. QED
  BY <1>4, <1>5 DEF StopNext

\* A step of a detector's stop(): in the end it has no watch.
LEMMA StopStepKeeps ==
    ASSUME DEAssumption, WatchesInv, NEW s \in stops, StopStep(s)
    PROVE  WatchesInv'
<1> DEFINE d == s.det
           rest == {n \in Nodes : sids[d][n] # None /\ n \notin s.seen}
           still == UNCHANGED <<scan, halting, timer>>
<1>1. PathsInv'
  BY DEF WatchesInv, PathsInv, StopStep, diskVars, keyVars
<1>2. /\ UNCHANGED <<phase, detectors, dirOf, drops, watchOf, events, cut>>
      /\ \A n \in s.seen : Silent(sids[d][n])
      /\ d \in Detectors /\ s.by \in {"scan", "engine", "event"} /\ s.seen \subseteq Nodes
      /\ None \notin Watches /\ None \notin Nodes
      /\ DOMAIN scan = DOMAIN NoScan
      /\ s \in [det : Detectors, by : {"scan", "engine", "event"}, at : {"subs", "primary"},
                 seen : SUBSET Nodes]
  BY DEF WatchesInv, ShapeInv, KindsInv, ScanInv, StopStep, ghosts, DEAssumption
<1>3. ASSUME NEW n \in rest, open' = open \ {sids[d][n]}, s.at = "subs",
             stops' = (stops \ {s}) \cup {[s EXCEPT !.seen = @ \cup {n}]},
             still, UNCHANGED <<sid, sids>>
      PROVE  WatchesInv'
  <2>1. PICK r : r = [s EXCEPT !.seen = @ \cup {n}]
    OBVIOUS
  <2>2. /\ r.det = d /\ r.at = "subs" /\ r.seen = s.seen \cup {n}
        /\ r \in [det : Detectors, by : {"scan", "engine", "event"}, at : {"subs", "primary"},
                   seen : SUBSET Nodes]
        /\ stops' = (stops \ {s}) \cup {r}
    BY <1>2, <1>3, <2>1
  <2>3. open' \subseteq open /\ sids[d][n] \notin open' /\ UNCHANGED <<scan, halting, sid, sids>>
    BY <1>3
  <2>4. Stops' = Stops
    BY <2>2 DEF Stops
  <2>5. ShapeInv'
    BY <1>2, <2>2, <2>3 DEF WatchesInv, ShapeInv, KindsInv, ScanInv, Busy
  <2>6. ComingInv'
    BY <1>2, <2>3 DEF WatchesInv, ComingInv
  <2>7. PlacedInv'
    BY <1>2, <2>3, <2>4 DEF WatchesInv, PlacedInv, Placed, Busy, Live, Scanned
  <2>8. StopsInv'
    BY <1>2, <2>2, <2>3 DEF WatchesInv, StopsInv
  <2>9. DropsInv' /\ HaltInv' /\ DirsInv'
    BY <1>2, <2>3 DEF WatchesInv, DropsInv, HaltInv, DirsInv, Closed
  <2>10. QED
    BY <1>1, <2>5, <2>6, <2>7, <2>8, <2>9 DEF WatchesInv
<1>4. d \notin cut => /\ \A c \in scan.coming : watchOf[c.sid].det # d
                      /\ d \notin ToSet(scan.todo)
  <2>1. d \notin cut => d \notin ToSet(scan.todo)
    BY DEF WatchesInv, StopsInv
  <2>2. scan.coming # {} => Head(scan.todo) \in ToSet(scan.todo)
    BY SeqSets DEF WatchesInv, ShapeInv, ScanInv
  <2>3. QED
    BY <2>1, <2>2 DEF WatchesInv, ComingInv
<1>5. ASSUME s.at = "subs", rest = {}, open' = open \ {sid[d]},
             sids' = [sids EXCEPT ![d] = [n \in Nodes |-> None]], sid' = sid,
             \/ sid[d] = None /\ stops' = stops \ {s} /\ Stopped(s)
             \/ stops' = (stops \ {s}) \cup {[s EXCEPT !.at = "primary"]} /\ still
      PROVE  WatchesInv'
  <2>1. PICK r : r = [s EXCEPT !.at = "primary"]
    OBVIOUS
  <2>2. /\ r.det = d /\ r.at = "primary" /\ r.seen = s.seen
        /\ r \in [det : Detectors, by : {"scan", "engine", "event"}, at : {"subs", "primary"},
                   seen : SUBSET Nodes]
        /\ stops' \in {stops \ {s}, (stops \ {s}) \cup {r}}
    BY <1>2, <1>5, <2>1
  <2>3. /\ open' \subseteq open /\ sid[d] \notin open'
        /\ sids' \in [Detectors -> [Nodes -> Watches \cup {None, Pending}]]
        /\ \A n \in Nodes : sids'[d][n] = None
        /\ \A e \in Detectors \ {d} : sids'[e] = sids[e]
    BY <1>2, <1>5 DEF WatchesInv, ShapeInv, KindsInv
  <2>4. /\ DOMAIN scan' = DOMAIN NoScan /\ scan'.at = scan.at /\ scan'.todo = scan.todo
        /\ scan'.here = scan.here /\ scan'.coming = scan.coming
        /\ scan'.stale \in {scan.stale, scan.stale \ {d}}
        /\ halting' \in {halting, halting \ {d}}
    BY <1>2, <1>5 DEF Stopped, NoScan
  <2>5. \A w \in Watches : Busy(w)' => Busy(w)
    BY <1>2, <2>3 DEF Busy
  <2>6. d \notin cut => \A w \in Watches : Busy(w)' /\ watchOf[w].det = d =>
                            watchOf[w].sub = None /\ sid[d] = w
    <3> SUFFICES ASSUME d \notin cut, NEW w \in Watches, Busy(w)', watchOf[w].det = d
                 PROVE  watchOf[w].sub = None /\ sid[d] = w
      OBVIOUS
    <3>1. Placed(w)
      BY <2>5 DEF WatchesInv, PlacedInv
    <3>2. ASSUME watchOf[w].sub \in Nodes, sids[d][watchOf[w].sub] = w PROVE FALSE
      <4>1. watchOf[w].sub \in s.seen
        BY <1>2, <1>5, <3>2
      <4>2. w \notin open /\ events[w] = <<>>
        BY <1>2, <3>2, <4>1 DEF WatchesInv, StopsInv, Silent
      <4>3. QED
        BY <2>5, <4>2 DEF Busy
    <3>3. \A c \in scan.coming : c.sid # w
      BY <1>4
    <3>4. QED
      BY <3>1, <3>2, <3>3 DEF Placed
  <2>7. d \notin cut => Closed(d)'
    BY <1>2, <2>3, <2>6 DEF Closed, Busy, WatchesInv, ShapeInv, KindsInv
  <2>8. KindsInv'
    BY <1>2, <1>5, <2>2, <2>3, <2>4, <2>5 DEF WatchesInv, ShapeInv, KindsInv
  <2>9. ScanInv'
    BY <1>2, <2>4 DEF WatchesInv, ShapeInv, ScanInv
  <2>10. ComingInv'
    <3>1. \A e \in Detectors, n \in Nodes : sids'[e][n] \in Watches => sids'[e][n] = sids[e][n]
      BY <1>2, <2>3
    <3>2. scan.coming # {} \/ scan.at = "subs" => Head(scan.todo) \in Detectors
      BY SeqSets DEF WatchesInv, ShapeInv, ScanInv
    <3>3. scan.at = "subs" => scan.here \cup {c.sub : c \in scan.coming} \subseteq Nodes
      BY DEF WatchesInv, ShapeInv, ScanInv
    <3>4. QED
      BY <1>2, <1>5, <2>4, <3>1, <3>2, <3>3 DEF WatchesInv, ComingInv
  <2>11. PlacedInv'
    <3>1. \A e \in Live \ {d} : e \in Live'
      BY <1>2, <2>2, <2>4 DEF Live, Scanned, Stops
    <3>2. \A w \in Watches : Busy(w) => watchOf[w].det \in Detectors
      BY DEF WatchesInv, ShapeInv, KindsInv
    <3>3. \A w \in Watches : Placed(w) /\ watchOf[w].det \in Detectors \ {d} => Placed(w)'
      BY <1>2, <1>5, <2>3, <2>4 DEF Placed
    <3>4. d \notin cut => \A w \in Watches : Busy(w)' /\ watchOf[w].det = d =>
              Placed(w)' /\ w \notin open'
      BY <1>2, <1>5, <2>3, <2>6 DEF Placed
    <3>5. QED
      BY <1>2, <2>3, <2>5, <3>1, <3>2, <3>3, <3>4 DEF WatchesInv, PlacedInv
  <2>12. StopsInv'
    <3>1. stops \subseteq [det : Detectors, by : {"scan", "engine", "event"},
                           at : {"subs", "primary"}, seen : SUBSET Nodes]
      BY DEF WatchesInv, ShapeInv, KindsInv
    <3>2. None \notin open
      BY <1>2 DEF WatchesInv, ShapeInv, KindsInv
    <3>3. ASSUME NEW t \in stops, t.det \notin cut
          PROVE  /\ t.det \notin ToSet(scan'.todo)
                 /\ \A n \in t.seen : sids'[t.det][n] \notin open'
                 /\ t.at = "primary" => sid[t.det] \notin open' /\ \A n \in Nodes : sids'[t.det][n] = None
      <4>1. t.det \in Detectors /\ t.seen \subseteq Nodes
        BY <3>1
      <4>2. CASE t.det = d
        BY <1>4, <2>3, <2>4, <3>2, <3>3, <4>1, <4>2
      <4>3. CASE t.det # d
        BY <2>3, <2>4, <3>3, <4>1, <4>3 DEF WatchesInv, StopsInv
      <4>4. QED
        BY <4>2, <4>3
    <3>4. d \notin cut => /\ d \notin ToSet(scan'.todo)
                          /\ \A n \in r.seen : sids'[d][n] \notin open'
                          /\ sid[d] \notin open' /\ \A n \in Nodes : sids'[d][n] = None
      BY <1>2, <1>4, <2>2, <2>3, <2>4, <3>2
    <3>5. QED
      BY <1>2, <1>5, <2>2, <3>3, <3>4 DEF StopsInv
  <2>13. DropsInv'
    BY <1>2, <2>3 DEF WatchesInv, ShapeInv, KindsInv, DropsInv, Drop
  <2>14. HaltInv'
    <3>1. \A e : Closed(e) => Closed(e)'
      BY <1>2, <2>3 DEF Closed
    <3>2. QED
      BY <1>2, <1>4, <2>4, <2>7, <3>1 DEF WatchesInv, HaltInv
  <2>15. DirsInv'
    BY <1>2 DEF WatchesInv, DirsInv
  <2>16. QED
    BY <1>1, <2>8, <2>9, <2>10, <2>11, <2>12, <2>13, <2>14, <2>15 DEF WatchesInv, ShapeInv
<1>6. ASSUME s.at = "primary", Silent(sid[d]), sid' = [sid EXCEPT ![d] = None],
             stops' = stops \ {s}, Stopped(s), UNCHANGED <<sids, open>>
      PROVE  WatchesInv'
  <2>1. /\ sid' \in [Detectors -> Watches \cup {None}] /\ sid'[d] = None
        /\ \A e \in Detectors \ {d} : sid'[e] = sid[e]
        /\ UNCHANGED <<sids, open>>
    BY <1>2, <1>6 DEF WatchesInv, ShapeInv, KindsInv
  <2>2. /\ DOMAIN scan' = DOMAIN NoScan /\ scan'.at = scan.at /\ scan'.todo = scan.todo
        /\ scan'.here = scan.here /\ scan'.coming = scan.coming
        /\ scan'.stale \in {scan.stale, scan.stale \ {d}}
        /\ halting' \in {halting, halting \ {d}}
    BY <1>2, <1>6 DEF Stopped, NoScan
  <2>3. \A w \in Watches : Busy(w)' = Busy(w)
    BY <1>2, <2>1 DEF Busy
  <2>4. d \notin cut => \A w \in Watches : Busy(w) => watchOf[w].det # d
    <3> SUFFICES ASSUME d \notin cut, NEW w \in Watches, Busy(w), watchOf[w].det = d
                 PROVE  FALSE
      OBVIOUS
    <3>1. Placed(w)
      BY DEF WatchesInv, PlacedInv
    <3>2. \A c \in scan.coming : c.sid # w
      BY <1>4
    <3>3. sid[d] = w => w \notin open /\ events[w] = <<>>
      BY <1>6 DEF WatchesInv, StopsInv, Silent
    <3>4. \A n \in Nodes : sids[d][n] # w
      BY <1>2, <1>6 DEF WatchesInv, StopsInv
    <3>5. QED
      BY <3>1, <3>2, <3>3, <3>4 DEF Placed, Busy
  <2>5. KindsInv'
    BY <1>2, <1>6, <2>1, <2>2, <2>3 DEF WatchesInv, ShapeInv, KindsInv
  <2>6. ScanInv'
    BY <1>2, <2>2 DEF WatchesInv, ShapeInv, ScanInv
  <2>7. ComingInv'
    <3>1. scan.at = "primary" => Head(scan.todo) \in Detectors
      BY SeqSets DEF WatchesInv, ShapeInv, ScanInv
    <3>2. QED
      BY <1>2, <2>1, <2>2, <3>1 DEF WatchesInv, ComingInv
  <2>8. PlacedInv'
    <3>1. \A e \in Live \ {d} : e \in Live'
      BY <1>2, <1>6, <2>2 DEF Live, Scanned, Stops
    <3>2. \A w \in Watches : Busy(w) => watchOf[w].det \in Detectors
      BY DEF WatchesInv, ShapeInv, KindsInv
    <3>3. \A w \in Watches : Placed(w) /\ watchOf[w].det \in Detectors \ {d} => Placed(w)'
      BY <1>2, <2>1, <2>2 DEF Placed
    <3>4. QED
      BY <1>2, <2>1, <2>3, <2>4, <3>1, <3>2, <3>3 DEF WatchesInv, PlacedInv
  <2>9. StopsInv'
    <3>1. None \notin open
      BY <1>2 DEF WatchesInv, ShapeInv, KindsInv
    <3>2. \A t \in stops : t.det \in Detectors
      BY DEF WatchesInv, ShapeInv, KindsInv
    <3>3. QED
      BY <1>2, <1>6, <2>1, <2>2, <3>1, <3>2 DEF WatchesInv, StopsInv
  <2>10. DropsInv'
    BY <1>2, <2>1 DEF WatchesInv, DropsInv
  <2>11. HaltInv'
    <3>1. d \notin cut => Closed(d)
      BY <2>4 DEF Closed, Busy, WatchesInv, ShapeInv, KindsInv
    <3>2. QED
      BY <1>2, <1>4, <2>1, <2>2, <3>1 DEF WatchesInv, HaltInv, Closed
  <2>12. DirsInv'
    BY <1>2 DEF WatchesInv, DirsInv
  <2>13. QED
    BY <1>1, <2>5, <2>6, <2>7, <2>8, <2>9, <2>10, <2>11, <2>12 DEF WatchesInv, ShapeInv
<1>7. QED
  BY <1>3, <1>5, <1>6 DEF StopStep

\* The scan stops the detectors that lost their path.
LEMMA ScanStaleKeeps ==
    ASSUME WatchesInv, ScanStale
    PROVE  WatchesInv'
<1>1. PathsInv'
  BY DEF WatchesInv, PathsInv, ScanStale, ScanVars, diskVars, keyVars
<1>2. UNCHANGED <<sid, sids, watchOf, dirOf, open, drops, detectors, halting, phase, events>>
  BY DEF ScanStale, ScanVars, Still
<1>3. \A w \in Watches : Busy(w)' = Busy(w)
  BY <1>2 DEF Busy
<1>4. CASE scan.stale = {} /\ scan' = [scan EXCEPT !.at = "next"] /\ UNCHANGED <<stops, cut>>
  <2>1. /\ DOMAIN scan' = DOMAIN NoScan /\ scan'.at = "next" /\ scan.at = "stale"
        /\ scan'.todo = scan.todo /\ scan'.stale = scan.stale
        /\ scan'.here = scan.here /\ scan'.coming = scan.coming
    BY <1>4 DEF WatchesInv, ShapeInv, ScanInv, NoScan, ScanStale
  <2>2. ShapeInv'
    BY <1>2, <1>3, <1>4, <2>1 DEF WatchesInv, ShapeInv, KindsInv, ScanInv
  <2>3. ComingInv'
    BY <1>2, <1>4, <2>1 DEF WatchesInv, ComingInv
  <2>4. PlacedInv' /\ StopsInv' /\ DropsInv' /\ HaltInv' /\ DirsInv'
    BY <1>2, <1>3, <1>4, <2>1 DEF WatchesInv, PlacedInv, StopsInv, DropsInv, HaltInv, DirsInv, Closed,
       Placed, Live, Stops, Scanned
  <2>5. QED
    BY <1>1, <2>2, <2>3, <2>4 DEF WatchesInv
<1>5. CASE (\E d \in scan.stale : StopDetector(d, "scan")) /\ scan' = scan
  <2>1. PICK d \in scan.stale : StopDetector(d, "scan")
    BY <1>5
  <2>2. d \in Detectors
    BY DEF WatchesInv, ShapeInv, ScanInv
  <2>3. KindsInv'
    BY <1>2, <1>3, <2>1, <2>2 DEF WatchesInv, ShapeInv, KindsInv, StopDetector, Stopping
  <2>4. QED
    BY <1>1, <1>2, <1>3, <1>5, <2>1, <2>2, <2>3, StopBegins
<1>6. QED
  BY <1>4, <1>5 DEF ScanStale, ScanVars, Still

\* Steps of a scan that only look: no watch is asked for, and no detector is left behind
\* that has one.
LEMMA LookKeeps ==
    ASSUME WatchesInv, PathsInv', ScanInv', scan.at \in {"next", "check"},
           UNCHANGED <<open, sid, sids, watchOf, events, dirOf, stops, drops, detectors, halting,
                       phase, cut>>,
           scan'.stale = scan.stale, ToSet(scan'.todo) \subseteq ToSet(scan.todo),
           scan'.at \in {"idle", "next", "check"}
    PROVE  WatchesInv'
<1>1. scan.coming = {} /\ scan'.coming = {}
  BY DEF WatchesInv, ShapeInv, ScanInv
<1>2. \A w \in Watches : Busy(w)' = Busy(w)
  BY DEF Busy
<1>3. ShapeInv'
  BY <1>2 DEF WatchesInv, ShapeInv, KindsInv
<1>4. ComingInv'
  BY <1>1 DEF ComingInv
<1>5. PlacedInv'
  <2>1. Live \ cut \subseteq Live'
    BY DEF WatchesInv, ShapeInv, ScanInv, Live, Scanned, Stops
  <2>2. QED
    BY <1>1, <1>2, <2>1 DEF WatchesInv, PlacedInv, Placed
<1>6. StopsInv' /\ DropsInv' /\ HaltInv' /\ DirsInv'
  BY DEF WatchesInv, StopsInv, DropsInv, HaltInv, DirsInv, Closed
<1>7. QED
  BY <1>3, <1>4, <1>5, <1>6 DEF WatchesInv

\* The scan looks at a path and the directories in it; it ends, or fails.
LEMMA ScanRootKeeps ==
    ASSUME WatchesInv, ScanRoot \/ ScanSub \/ EndScan \/ FailScan
    PROVE  WatchesInv'
<1>1. PathsInv'
  BY DEF WatchesInv, PathsInv, ScanRoot, ScanSub, EndScan, FailScan, ScanVars, diskVars, keyVars
<1>2. UNCHANGED <<open, sid, sids, watchOf, events, dirOf, stops, drops, detectors, halting,
                  phase, cut>>
  BY DEF ScanRoot, ScanSub, EndScan, FailScan, ScanVars, Still, detectorVars, watchVars, ghosts
<1>3. items \subseteq Nodes /\ DOMAIN scan = DOMAIN NoScan
  BY DEF WatchesInv, PathsInv, ShapeInv, ScanInv
<1>4. CASE ScanRoot
  <2>1. /\ DOMAIN scan' = DOMAIN NoScan /\ scan.at = "next" /\ scan'.at = "check"
        /\ scan'.todo = scan.todo /\ scan'.stale = scan.stale /\ scan'.coming = scan.coming
        /\ scan'.here \subseteq items /\ scan.todo # <<>>
    BY <1>3, <1>4 DEF ScanRoot, ScanVars, NoScan
  <2>2. ScanInv'
    BY <1>2, <1>3, <2>1 DEF WatchesInv, ShapeInv, ScanInv
  <2>3. QED
    BY <1>1, <1>2, <2>1, <2>2, LookKeeps
<1>5. CASE ScanSub
  <2>1. /\ DOMAIN scan' = DOMAIN NoScan /\ scan.at = "check" /\ scan'.at = "check"
        /\ scan'.todo = scan.todo /\ scan'.stale = scan.stale /\ scan'.coming = scan.coming
        /\ scan'.here \subseteq scan.here \cup items
    BY <1>3, <1>5 DEF ScanSub, ScanVars, NoScan
  <2>2. ScanInv'
    BY <1>2, <1>3, <2>1 DEF WatchesInv, ShapeInv, ScanInv
  <2>3. QED
    BY <1>1, <1>2, <2>1, <2>2, LookKeeps
<1>6. CASE EndScan \/ FailScan
  <2>1. scan' = NoScan /\ scan.at \in {"next", "check"}
    BY <1>6 DEF EndScan, FailScan
  <2>2. /\ scan'.at = "idle" /\ scan'.stale = {} /\ scan'.todo = <<>> /\ scan'.here = {}
        /\ scan'.coming = {} /\ DOMAIN scan' = DOMAIN NoScan
    BY <2>1 DEF NoScan
  <2>3. ToSet(scan'.todo) = {} /\ scan.stale = {}
    BY <2>1, <2>2 DEF ToSet, WatchesInv, ShapeInv, ScanInv
  <2>4. ScanInv'
    BY <2>2, <2>3 DEF ScanInv
  <2>5. QED
    BY <1>1, <1>2, <2>1, <2>2, <2>3, <2>4, LookKeeps
<1>7. QED
  BY <1>4, <1>5, <1>6

\* What a new watch is not.
LEMMA NewWatchIsNew ==
    ASSUME FreeWatches # {}
    PROVE  /\ NewWatch \in Watches /\ ~Busy(NewWatch)
           /\ \A d \in Referred : NewWatch \notin Held(d)
           /\ \A x \in drops : x.sid # NewWatch
           /\ \A c \in scan.coming : c.sid # NewWatch
<1>1. NewWatch \in FreeWatches
  BY DEF NewWatch
<1>2. QED
  BY <1>1 DEF FreeWatches, Busy

\* A watch is opened for a detector that is scanned, and its id is on its way.
LEMMA OpensKeeps ==
    ASSUME DEAssumption, WatchesInv, PathsInv', FreeWatches # {}, scan.todo # <<>>,
           NEW d, d = Head(scan.todo),
           NEW dir, NEW recursive, NEW sub \in Nodes \cup {None},
           Opens(NewWatch, dir, recursive, d, sub),
           scan'.todo = scan.todo, scan'.stale = scan.stale, ScanInv',
           scan'.coming = scan.coming \cup {Asked(sub)},
           scan'.at = "primary" => sub = None /\ (d \notin cut => sid[d] = None),
           scan'.at = "subs" => sub \in Nodes /\ sub \in scan.here /\ scan'.here \subseteq scan.here
                                /\ scan.at = "subs",
           UNCHANGED <<events, sid, sids, dirOf, stops, drops, detectors, halting, phase, cut>>
    PROVE  WatchesInv'
<1>0. PICK w : w = NewWatch
  OBVIOUS
<1>1. /\ w \in Watches /\ ~Busy(w) /\ \A e \in Referred : w \notin Held(e)
      /\ \A x \in drops : x.sid # w
      /\ \A c \in scan.coming : c.sid # w
  BY <1>0, NewWatchIsNew
<1>2. d \in ToSet(scan.todo) /\ d \in Detectors
  BY SeqSets DEF WatchesInv, ShapeInv, ScanInv
<1>3. /\ open' = open \cup {w} /\ watchOf'[w].det = d /\ watchOf'[w].sub = sub
      /\ DOMAIN watchOf' = Watches
      /\ \A v \in Watches \ {w} : watchOf'[v] = watchOf[v]
  BY <1>0, <1>1 DEF Opens, WatchesInv, ShapeInv, KindsInv
<1>4. /\ Asked(sub).sub = sub /\ Asked(sub).sid = w /\ Asked(sub).after = drops
  BY <1>0 DEF Asked
<1>5. \A v \in Watches \ {w} : Busy(v)' = Busy(v)
  BY <1>3 DEF Busy
<1>6. KindsInv'
  BY <1>1, <1>2, <1>3, <1>5 DEF WatchesInv, ShapeInv, KindsInv
<1>7. ComingInv'
  <2>1. ASSUME NEW c \in scan'.coming
        PROVE  /\ watchOf'[c.sid].det = d /\ watchOf'[c.sid].sub = c.sub
               /\ d \notin cut => {x \in drops : x.det = d /\ x.sub = c.sub} \subseteq c.after
    <3>1. CASE c \in scan.coming
      <4>1. c.sid \in Watches \ {w}
        BY <1>1, <3>1 DEF WatchesInv, ShapeInv, ScanInv
      <4>2. QED
        BY <1>3, <3>1, <4>1 DEF WatchesInv, ComingInv
    <3>2. CASE c = Asked(sub)
      BY <1>3, <1>4, <3>2
    <3>3. QED
      BY <3>1, <3>2
  <2>2. ASSUME scan'.at = "subs", d \notin cut,
               NEW n \in scan'.here \cup {c.sub : c \in scan'.coming}
        PROVE  sids[d][n] \notin Watches
    <3>1. n \in scan.here \cup {c.sub : c \in scan.coming}
      BY <1>4, <2>2
    <3>2. QED
      BY <2>2, <3>1 DEF WatchesInv, ComingInv
  <2>3. QED
    BY <2>1, <2>2 DEF ComingInv
<1>8. PlacedInv'
  <2>1. Live' = Live /\ d \in Live
    BY <1>2 DEF Live, Scanned, Stops
  <2>2. ASSUME NEW v \in Watches \ {w}, Placed(v) PROVE Placed(v)'
    BY <1>3, <2>2 DEF Placed
  <2>3. Placed(w)'
    BY <1>4 DEF Placed
  <2>4. QED
    BY <1>3, <1>5, <2>1, <2>2, <2>3 DEF WatchesInv, PlacedInv
<1>9. StopsInv'
  <2>1. \A s \in stops : s.det \in Referred /\ s.det \in Detectors /\ s.seen \subseteq Nodes
    BY DEF Referred, WatchesInv, ShapeInv, KindsInv
  <2>2. \A s \in stops : sid[s.det] # w /\ \A n \in Nodes : sids[s.det][n] # w
    BY <1>1, <2>1 DEF Held
  <2>3. QED
    BY <1>3, <2>1, <2>2 DEF WatchesInv, StopsInv
<1>10. DropsInv'
  BY <1>1, <1>3 DEF WatchesInv, DropsInv
<1>11. HaltInv'
  <2>1. \A e : Closed(e) /\ e # d => Closed(e)'
    BY <1>3 DEF Closed, WatchesInv, ShapeInv, KindsInv
  <2>2. QED
    BY <1>2, <2>1 DEF WatchesInv, HaltInv
<1>12. DirsInv'
  BY DEF WatchesInv, DirsInv
<1>13. QED
  BY <1>6, <1>7, <1>8, <1>9, <1>10, <1>11, <1>12 DEF WatchesInv, ShapeInv

\* The watches of subdirectories are about to be asked for: their places are marked.
LEMMA BeneathKeeps ==
    ASSUME DEAssumption, WatchesInv, PathsInv', scan.todo # <<>>,
           NEW d, d = Head(scan.todo), WatchBeneath(d), scan.at \in {"check", "primary"},
           sid' \in [Detectors -> Watches \cup {None}],
           \A e \in Detectors \ {d} : sid'[e] = sid[e],
           d \notin cut => \/ sid' = sid
                           \/ sid[d] = None,
           d \notin cut => \A c \in scan.coming : sid'[d] = c.sid,
           UNCHANGED <<stops, open, watchOf, cut>>
    PROVE  WatchesInv'
<1>1. /\ UNCHANGED <<open, watchOf, events, dirOf, stops, drops, detectors, halting, phase, cut>>
      /\ scan' = [scan EXCEPT !.at = "subs", !.here = Beneath(d), !.coming = {}]
      /\ sids' = [sids EXCEPT ![d] = [n \in Nodes |-> IF n \in Beneath(d) THEN Pending ELSE @[n]]]
  BY DEF WatchBeneath, ScanVars
<1>2. d \in ToSet(scan.todo) /\ d \in Detectors
  BY SeqSets DEF WatchesInv, ShapeInv, ScanInv
<1>3. /\ DOMAIN scan' = DOMAIN NoScan /\ scan'.at = "subs" /\ scan'.coming = {}
      /\ scan'.here = Beneath(d) /\ scan'.todo = scan.todo /\ scan'.stale = scan.stale
  BY <1>1 DEF WatchesInv, ShapeInv, ScanInv, NoScan
<1>4. /\ Beneath(d) \subseteq Nodes
      /\ \A n \in Beneath(d) : sids[d][n] = None
  BY DEF Beneath, WatchesInv, ShapeInv, ScanInv
<1>5. /\ sids' \in [Detectors -> [Nodes -> Watches \cup {None, Pending}]]
      /\ \A e \in Detectors \ {d} : sids'[e] = sids[e]
      /\ \A n \in Nodes : sids'[d][n] = IF n \in Beneath(d) THEN Pending ELSE sids[d][n]
  BY <1>1, <1>2 DEF WatchesInv, ShapeInv, KindsInv
<1>6. \A w \in Watches : Busy(w)' = Busy(w)
  BY <1>1 DEF Busy
<1>7. KindsInv'
  BY <1>1, <1>5, <1>6 DEF WatchesInv, ShapeInv, KindsInv
<1>8. ScanInv'
  BY <1>1, <1>3, <1>4 DEF WatchesInv, ShapeInv, ScanInv
<1>9. ComingInv'
  BY <1>1, <1>3, <1>4, <1>5, DEAssumption DEF ComingInv
<1>10. PlacedInv'
  <2>1. Live' = Live
    BY <1>1, <1>3 DEF Live, Scanned, Stops
  <2>2. ASSUME NEW w \in Watches, Busy(w), watchOf[w].det \notin cut PROVE Placed(w)'
    <3>1. Placed(w) /\ watchOf[w].det \in Detectors /\ None \notin Watches
      BY <2>2, DEAssumption DEF WatchesInv, PlacedInv, ShapeInv, KindsInv
    <3>2. CASE watchOf[w].sub = None /\ sid[watchOf[w].det] = w
      BY <1>1, <1>2, <2>2, <3>1, <3>2 DEF Placed
    <3>3. CASE watchOf[w].sub \in Nodes /\ sids[watchOf[w].det][watchOf[w].sub] = w
      BY <1>1, <1>4, <1>5, <3>1, <3>3 DEF Placed
    <3>4. CASE \E c \in scan.coming : c.sid = w
      <4>1. PICK c \in scan.coming : c.sid = w
        BY <3>4
      <4>2. scan.at = "primary" /\ c.sub = None
        BY <4>1 DEF WatchesInv, ShapeInv, ScanInv
      <4>3. watchOf[w].det = d /\ watchOf[w].sub = None
        BY <4>1, <4>2 DEF WatchesInv, ComingInv
      <4>4. QED
        BY <1>1, <2>2, <4>1, <4>3 DEF Placed
    <3>5. QED
      BY <3>1, <3>2, <3>3, <3>4 DEF Placed
  <2>3. QED
    BY <1>1, <1>6, <2>1, <2>2 DEF WatchesInv, PlacedInv
<1>11. StopsInv'
  <2>1. \A s \in stops : s.det \in Detectors /\ (s.det \notin cut => s.det # d)
    BY <1>2 DEF WatchesInv, StopsInv, ShapeInv, KindsInv
  <2>2. QED
    BY <1>1, <1>3, <1>5, <2>1 DEF WatchesInv, StopsInv
<1>12. DropsInv'
  BY <1>1, <1>4, <1>5 DEF WatchesInv, DropsInv, ShapeInv, KindsInv, Drop
<1>13. HaltInv' /\ DirsInv'
  BY <1>1, <1>3 DEF WatchesInv, HaltInv, DirsInv, Closed
<1>14. QED
  BY <1>7, <1>8, <1>9, <1>10, <1>11, <1>12, <1>13 DEF WatchesInv, ShapeInv

\* A path is watched, unless it is already.
LEMMA WatchRootKeeps ==
    ASSUME DEAssumption, WatchesInv, WatchRoot
    PROVE  WatchesInv'
<1>1. PathsInv'
  BY DEF WatchesInv, PathsInv, WatchRoot, WatchBeneath, ScanVars, diskVars, keyVars
<1>2. PICK d : d = Head(scan.todo)
  OBVIOUS
<1>3. /\ scan.at = "check" /\ scan.todo # <<>> /\ scan.coming = {} /\ d \in Detectors
      /\ DOMAIN scan = DOMAIN NoScan /\ scan.stale = {}
  BY <1>2, SeqSets DEF WatchRoot, WatchesInv, ShapeInv, ScanInv
<1>4. CASE WatchBeneath(d) /\ UNCHANGED <<sid, stops, open, watchOf, cut>>
  BY <1>1, <1>2, <1>3, <1>4, BeneathKeeps DEF WatchesInv, ShapeInv, KindsInv
<1>5. CASE /\ sid[d] = None /\ FreeWatches # {}
           /\ Opens(NewWatch, dirOf[d], options.recursive /\ options.redetect, d, None)
           /\ ScanVars([scan EXCEPT !.at = "primary", !.coming = {Asked(None)}])
           /\ UNCHANGED <<sid, sids, stops, cut>>
  <2>1. /\ DOMAIN scan' = DOMAIN NoScan /\ scan'.at = "primary" /\ scan'.todo = scan.todo
        /\ scan'.stale = scan.stale /\ scan'.here = scan.here
        /\ scan'.coming = {Asked(None)}
    BY <1>3, <1>5 DEF ScanVars, NoScan
  <2>2. /\ Asked(None).sub = None
        /\ Asked(None) \in [sub : Nodes \cup {None}, sid : Watches, after : SUBSET Drop]
    BY <1>5, NewWatchIsNew DEF Asked, WatchesInv, ShapeInv, KindsInv
  <2>3. UNCHANGED <<events, sid, sids, dirOf, stops, drops, detectors, halting, phase, cut>>
    BY <1>5 DEF ScanVars
  <2>4. ScanInv'
    BY <1>3, <2>1, <2>2, <2>3 DEF WatchesInv, ShapeInv, ScanInv
  <2>5. PICK dir, recursive : Opens(NewWatch, dir, recursive, d, None)
    BY <1>5
  <2>6. scan'.coming = scan.coming \cup {Asked(None)}
    BY <1>3, <2>1
  <2>7. QED
    BY <1>1, <1>2, <1>3, <1>5, <2>1, <2>3, <2>4, <2>5, <2>6, OpensKeeps
<1>6. QED
  BY <1>2, <1>4, <1>5 DEF WatchRoot

\* The path is watched.
LEMMA RootWatchedKeeps ==
    ASSUME DEAssumption, WatchesInv, RootWatched
    PROVE  WatchesInv'
<1>1. PathsInv'
  BY DEF WatchesInv, PathsInv, RootWatched, WatchBeneath, ScanVars, diskVars, keyVars
<1>2. PICK d : d = Head(scan.todo)
  OBVIOUS
<1>3. scan.at = "primary" /\ scan.todo # <<>> /\ d \in Detectors
  BY <1>2, SeqSets DEF RootWatched, WatchesInv, ShapeInv, ScanInv
<1>4. PICK c \in scan.coming : sid' = [sid EXCEPT ![d] = c.sid]
  BY <1>2 DEF RootWatched
<1>5. \A b \in scan.coming : b = c
  BY <1>3 DEF WatchesInv, ShapeInv, ScanInv
<1>6. d \notin cut => sid[d] = None
  BY <1>2, <1>3 DEF WatchesInv, ComingInv
<1>7. c.sid \in Watches
  BY DEF WatchesInv, ShapeInv, ScanInv
<1>8. /\ sid' \in [Detectors -> Watches \cup {None}] /\ sid'[d] = c.sid
      /\ \A e \in Detectors \ {d} : sid'[e] = sid[e]
  BY <1>3, <1>4, <1>7 DEF WatchesInv, ShapeInv, KindsInv
<1>9. WatchBeneath(d) /\ UNCHANGED <<stops, open, watchOf, cut>>
  BY <1>2 DEF RootWatched
<1>10. QED
  BY <1>1, <1>2, <1>3, <1>5, <1>6, <1>8, <1>9, BeneathKeeps

\* A subdirectory is watched.
LEMMA WatchSubKeeps ==
    ASSUME DEAssumption, WatchesInv, NEW n \in scan.here, WatchSub(n)
    PROVE  WatchesInv'
<1>1. PathsInv'
  BY DEF WatchesInv, PathsInv, WatchSub, ScanVars, diskVars, keyVars
<1>2. PICK d : d = Head(scan.todo)
  OBVIOUS
<1>3. /\ scan.at = "subs" /\ scan.todo # <<>> /\ FreeWatches # {} /\ n \in Nodes
      /\ DOMAIN scan = DOMAIN NoScan
  BY DEF WatchSub, WatchesInv, ShapeInv, ScanInv
<1>4. /\ DOMAIN scan' = DOMAIN NoScan /\ scan'.at = "subs" /\ scan'.todo = scan.todo
      /\ scan'.stale = scan.stale /\ scan'.here = scan.here \ {n}
      /\ scan'.coming = scan.coming \cup {Asked(n)}
  BY <1>3 DEF WatchSub, ScanVars, NoScan
<1>5. /\ Asked(n).sub = n
      /\ Asked(n) \in [sub : Nodes \cup {None}, sid : Watches, after : SUBSET Drop]
  BY <1>3, NewWatchIsNew DEF Asked, WatchesInv, ShapeInv, KindsInv
<1>6. UNCHANGED <<events, sid, sids, dirOf, stops, drops, detectors, halting, phase, cut>>
  BY DEF WatchSub, ScanVars
<1>7. ScanInv'
  <2>1. \A c \in scan.coming : c.sub \in Nodes \ scan.here
    BY <1>3 DEF WatchesInv, ShapeInv, ScanInv
  <2>2. \A b, c \in scan'.coming : b.sub = c.sub => b = c
    BY <1>4, <1>5, <2>1 DEF WatchesInv, ShapeInv, ScanInv
  <2>3. \A c \in scan'.coming : c.sub \in Nodes \ scan'.here
    BY <1>3, <1>4, <1>5, <2>1
  <2>4. QED
    BY <1>3, <1>4, <1>5, <1>6, <2>2, <2>3 DEF WatchesInv, ShapeInv, ScanInv
<1>8. PICK dir, recursive : Opens(NewWatch, dir, recursive, d, n)
  BY <1>2 DEF WatchSub
<1>9. QED
  BY <1>1, <1>2, <1>3, <1>4, <1>6, <1>7, <1>8, OpensKeeps

LEMMA SubWatchedKeeps ==
    ASSUME DEAssumption, WatchesInv, NEW c \in scan.coming, SubWatched(c)
    PROVE  WatchesInv'
<1>1. PathsInv'
  BY DEF WatchesInv, PathsInv, SubWatched, ScanVars, diskVars, keyVars
<1>2. PICK d : d = Head(scan.todo)
  OBVIOUS
<1>3. /\ scan.at = "subs" /\ scan.todo # <<>> /\ DOMAIN scan = DOMAIN NoScan
      /\ d \in Detectors /\ d \in ToSet(scan.todo)
      /\ c.sub \in Nodes \ scan.here /\ c.sid \in Watches
      /\ \A b \in scan.coming \ {c} : b.sub # c.sub
      /\ Pending \notin Watches /\ None \notin Watches /\ None \notin Nodes
  BY <1>2, SeqSets, DEAssumption DEF SubWatched, WatchesInv, ShapeInv, ScanInv
<1>4. /\ DOMAIN scan' = DOMAIN NoScan /\ scan'.at = "subs" /\ scan'.todo = scan.todo
      /\ scan'.stale = scan.stale /\ scan'.here = scan.here
      /\ scan'.coming = scan.coming \ {c}
  BY <1>3 DEF SubWatched, ScanVars, NoScan
<1>5. /\ UNCHANGED <<open, watchOf, events, sid, dirOf, stops, drops, detectors, halting, phase, cut>>
      /\ sids' = [sids EXCEPT ![d][c.sub] = c.sid] /\ c.after \cap drops = {}
  BY <1>2 DEF SubWatched, ScanVars
<1>6. /\ sids' \in [Detectors -> [Nodes -> Watches \cup {None, Pending}]]
      /\ \A e \in Detectors \ {d} : sids'[e] = sids[e]
      /\ \A n \in Nodes : sids'[d][n] = IF n = c.sub THEN c.sid ELSE sids[d][n]
  BY <1>3, <1>5 DEF WatchesInv, ShapeInv, KindsInv
<1>7. d \notin cut => sids[d][c.sub] \notin Watches
  BY <1>2, <1>3 DEF WatchesInv, ComingInv
<1>8. \A w \in Watches : Busy(w)' = Busy(w)
  BY <1>5 DEF Busy
<1>9. KindsInv'
  BY <1>5, <1>6, <1>8 DEF WatchesInv, ShapeInv, KindsInv
<1>10. ScanInv'
  BY <1>4, <1>5 DEF WatchesInv, ShapeInv, ScanInv
<1>11. ComingInv'
  <2>1. \A n \in scan'.here \cup {b.sub : b \in scan'.coming} :
          /\ n # c.sub /\ n \in Nodes
          /\ n \in scan.here \cup {b.sub : b \in scan.coming}
    BY <1>3, <1>4 DEF WatchesInv, ShapeInv, ScanInv
  <2>2. d \notin cut => \A n \in scan'.here \cup {b.sub : b \in scan'.coming} : sids'[d][n] \notin Watches
    <3> SUFFICES ASSUME d \notin cut, NEW n \in scan'.here \cup {b.sub : b \in scan'.coming}
                 PROVE  sids'[d][n] \notin Watches
      OBVIOUS
    <3>1. sids[d][n] \notin Watches
      BY <1>2, <1>3, <2>1 DEF WatchesInv, ComingInv
    <3>2. QED
      BY <1>6, <2>1, <3>1
  <2>3. \A b \in scan'.coming :
          /\ watchOf[b.sid].det = d /\ watchOf[b.sid].sub = b.sub
          /\ d \notin cut => {x \in drops : x.det = d /\ x.sub = b.sub} \subseteq b.after
    BY <1>2, <1>4 DEF WatchesInv, ComingInv
  <2>4. QED
    BY <1>2, <1>4, <1>5, <2>2, <2>3 DEF ComingInv
<1>12. PlacedInv'
  <2>1. Live' = Live
    BY <1>4, <1>5 DEF Live, Scanned, Stops
  <2>2. ASSUME NEW w \in Watches, Busy(w), watchOf[w].det \notin cut PROVE Placed(w)'
    <3>1. Placed(w) /\ watchOf[w].det \in Detectors
      BY <2>2 DEF WatchesInv, PlacedInv, ShapeInv, KindsInv
    <3>2. CASE watchOf[w].sub = None /\ sid[watchOf[w].det] = w
      BY <1>5, <3>2 DEF Placed
    <3>3. CASE watchOf[w].sub \in Nodes /\ sids[watchOf[w].det][watchOf[w].sub] = w
      <4>1. watchOf[w].det # d \/ watchOf[w].sub # c.sub
        BY <1>7, <2>2, <3>3
      <4>2. sids'[watchOf[w].det][watchOf[w].sub] = w
        BY <1>6, <3>1, <3>3, <4>1
      <4>3. QED
        BY <1>5, <3>3, <4>2 DEF Placed
    <3>4. CASE \E b \in scan.coming : b.sid = w
      <4>1. PICK b \in scan.coming : b.sid = w
        BY <3>4
      <4>2. b = c => watchOf[w].det = d /\ watchOf[w].sub = c.sub
        BY <1>2, <4>1 DEF WatchesInv, ComingInv
      <4>3. QED
        BY <1>3, <1>4, <1>5, <1>6, <4>1, <4>2 DEF Placed
    <3>5. QED
      BY <3>1, <3>2, <3>3, <3>4 DEF Placed
  <2>3. QED
    BY <1>5, <1>8, <2>1, <2>2 DEF WatchesInv, PlacedInv
<1>13. StopsInv'
  <2>1. \A s \in stops : s.det \in Detectors /\ (s.det \notin cut => s.det # d)
    BY <1>3 DEF WatchesInv, StopsInv, ShapeInv, KindsInv
  <2>2. QED
    BY <1>4, <1>5, <1>6, <2>1 DEF WatchesInv, StopsInv
<1>14. DropsInv'
  <2>1. d \notin cut => \A x \in drops : x.det # d \/ x.sub # c.sub
    BY <1>2, <1>5 DEF WatchesInv, ComingInv
  <2>2. \A x \in drops : x.det \in Detectors /\ x.sub \in Nodes
    BY DEF WatchesInv, ShapeInv, KindsInv, Drop
  <2>3. \A x \in drops : x.det \notin cut => sids'[x.det][x.sub] = sids[x.det][x.sub]
    BY <1>6, <2>1, <2>2
  <2>4. QED
    BY <1>5, <2>3 DEF WatchesInv, DropsInv
<1>15. HaltInv' /\ DirsInv'
  BY <1>4, <1>5 DEF WatchesInv, HaltInv, DirsInv, Closed
<1>16. QED
  BY <1>1, <1>9, <1>10, <1>11, <1>12, <1>13, <1>14, <1>15 DEF WatchesInv, ShapeInv

\* The scan goes on with the next detector: the one it is done with is the engine's.
LEMMA ScanNextKeeps ==
    ASSUME WatchesInv, ScanNext
    PROVE  WatchesInv'
<1>1. PathsInv'
  BY DEF WatchesInv, PathsInv, ScanNext, ScanVars, diskVars, keyVars
<1>2. UNCHANGED <<open, sid, sids, watchOf, events, dirOf, stops, drops, detectors, halting,
                  phase, cut>>
  BY DEF ScanNext, ScanVars, Still
<1>3. /\ scan.at = "subs" /\ scan.todo # <<>> /\ scan.coming = {} /\ scan.stale = {}
      /\ DOMAIN scan' = DOMAIN NoScan /\ scan'.at = "next" /\ scan'.todo = Tail(scan.todo)
      /\ scan'.stale = {} /\ scan'.here = scan.here /\ scan'.coming = {}
  BY DEF WatchesInv, ShapeInv, ScanInv, NoScan, ScanNext, ScanVars
<1>4. Tail(scan.todo) \in Seq(Detectors) /\ ToSet(Tail(scan.todo)) \subseteq ToSet(scan.todo)
  BY <1>3, SeqSets DEF WatchesInv, ShapeInv, ScanInv
<1>5. \A w \in Watches : Busy(w)' = Busy(w)
  BY <1>2 DEF Busy
<1>6. ShapeInv'
  BY <1>2, <1>3, <1>4, <1>5 DEF WatchesInv, ShapeInv, KindsInv, ScanInv
<1>7. ComingInv'
  BY <1>3 DEF ComingInv
<1>8. PlacedInv'
  <2>1. Live \ cut \subseteq Live'
    BY <1>2, <1>3, <1>4 DEF WatchesInv, ShapeInv, ScanInv, Live, Scanned, Stops
  <2>2. QED
    BY <1>2, <1>3, <1>5, <2>1 DEF WatchesInv, PlacedInv, Placed
<1>9. StopsInv' /\ DropsInv' /\ HaltInv' /\ DirsInv'
  BY <1>2, <1>3, <1>4 DEF WatchesInv, StopsInv, DropsInv, HaltInv, DirsInv, Closed
<1>10. QED
  BY <1>1, <1>6, <1>7, <1>8, <1>9 DEF WatchesInv

\* An event is heard: of a change, or of the end of what its watch is for.
LEMMA DeliverKeeps ==
    ASSUME DEAssumption, WatchesInv, NEW w \in Watches, Deliver(w)
    PROVE  WatchesInv'
<1>1. PathsInv'
  BY DEF WatchesInv, PathsInv, Deliver, diskVars, keyVars, engineVars
<1>2. PICK t : t = watchOf[w]
  OBVIOUS
<1>3. /\ events[w] # <<>> /\ events' = [events EXCEPT ![w] = Tail(@)]
      /\ \A c \in scan.coming : c.sid # w
      /\ UNCHANGED <<phase, detectors, scan, halting, dirOf, sid, sids, watchOf>>
  BY DEF Deliver, engineVars
<1>4. t.det \in Detectors /\ t.sub \in Nodes \cup {None} /\ None \notin Nodes /\ Busy(w)
  BY <1>2, <1>3, DEAssumption DEF WatchesInv, ShapeInv, KindsInv, Busy
<1>5. \/ UNCHANGED <<stops, drops, open, cut>>
      \/ StopDetector(t.det, "event") /\ UNCHANGED <<drops, open>>
      \/ /\ t.sub # None /\ open' = open \ {w} /\ UNCHANGED <<stops, cut>>
         /\ drops' = drops \cup {[det |-> t.det, sub |-> t.sub, sid |-> w]}
  BY <1>2 DEF Deliver
<1>6. open' \subseteq open /\ \A v \in Watches : Busy(v)' => Busy(v)
  BY <1>3, <1>4, <1>5 DEF Busy, WatchesInv, ShapeInv, KindsInv
<1>7. DOMAIN events' = Watches
  BY <1>3 DEF WatchesInv, ShapeInv, KindsInv
<1>8. CASE UNCHANGED <<stops, drops, open, cut>>
  BY <1>1, <1>3, <1>6, <1>7, <1>8 DEF WatchesInv, ShapeInv, KindsInv, ScanInv, ComingInv,
     PlacedInv, StopsInv, DropsInv, HaltInv, DirsInv, Closed, Placed, Live, Stops, Scanned
<1>9. CASE StopDetector(t.det, "event") /\ UNCHANGED <<drops, open>>
  <2>1. KindsInv'
    BY <1>3, <1>4, <1>6, <1>7, <1>9 DEF WatchesInv, ShapeInv, KindsInv, StopDetector, Stopping
  <2>2. QED
    BY <1>1, <1>3, <1>4, <1>6, <1>9, <2>1, StopBegins
<1>10. CASE /\ t.sub # None /\ open' = open \ {w} /\ UNCHANGED <<stops, cut>>
            /\ drops' = drops \cup {[det |-> t.det, sub |-> t.sub, sid |-> w]}
  <2>1. PICK x : x = [det |-> t.det, sub |-> t.sub, sid |-> w]
    OBVIOUS
  <2>2. /\ x \in Drop /\ x.det = t.det /\ x.sub = t.sub /\ x.sid = w
        /\ drops' = drops \cup {x} /\ t.sub \in Nodes /\ w \notin open'
    BY <1>4, <1>10, <2>1 DEF Drop
  <2>3. t.det \notin cut => sids[t.det][t.sub] = w
    BY <1>2, <1>3, <1>4, <1>10 DEF WatchesInv, PlacedInv, Placed
  <2>4. KindsInv'
    BY <1>3, <1>6, <1>7, <1>10, <2>2 DEF WatchesInv, ShapeInv, KindsInv
  <2>5. ScanInv'
    BY <1>3, <1>10 DEF WatchesInv, ShapeInv, ScanInv
  <2>6. ComingInv'
    <3>1. ASSUME NEW c \in scan.coming, Head(scan.todo) \notin cut,
                 x.det = Head(scan.todo), x.sub = c.sub
          PROVE  FALSE
      <4>1. scan.at = "subs"
        BY <1>4, <2>2, <3>1 DEF WatchesInv, ShapeInv, ScanInv
      <4>2. sids[t.det][t.sub] \notin Watches
        BY <2>2, <3>1, <4>1 DEF WatchesInv, ComingInv
      <4>3. QED
        BY <2>2, <2>3, <3>1, <4>2
    <3>2. QED
      BY <1>3, <1>10, <2>2, <3>1 DEF WatchesInv, ComingInv
  <2>7. PlacedInv'
    <3>1. \A v \in Watches : Placed(v)' = Placed(v)
      BY <1>3 DEF Placed
    <3>2. Live' = Live
      BY <1>3, <1>10 DEF Live, Scanned, Stops
    <3>3. QED
      BY <1>3, <1>6, <1>10, <3>1, <3>2 DEF WatchesInv, PlacedInv
  <2>8. StopsInv' /\ HaltInv' /\ DirsInv'
    BY <1>3, <1>6, <1>10 DEF WatchesInv, StopsInv, HaltInv, DirsInv, Closed
  <2>9. DropsInv'
    BY <1>3, <1>6, <1>10, <2>2, <2>3 DEF WatchesInv, DropsInv
  <2>10. QED
    BY <1>1, <2>4, <2>5, <2>6, <2>7, <2>8, <2>9 DEF WatchesInv, ShapeInv
<1>11. QED
  BY <1>5, <1>8, <1>9, <1>10

\* A subdirectory's watch was given up.
LEMMA DroppedKeeps ==
    ASSUME DEAssumption, WatchesInv, NEW x \in drops, Dropped(x)
    PROVE  WatchesInv'
<1>1. PathsInv'
  BY DEF WatchesInv, PathsInv, Dropped, diskVars, keyVars, engineVars
<1>2. /\ x.det \in Detectors /\ x.sub \in Nodes /\ x.sid \in Watches
      /\ None \notin Watches /\ Pending \notin Watches
  BY DEAssumption DEF WatchesInv, ShapeInv, KindsInv, Drop
<1>3. /\ UNCHANGED <<open, watchOf, events, sid, dirOf, stops, detectors, halting, scan, phase, cut>>
      /\ drops' = drops \ {x} /\ Silent(x.sid)
      /\ sids' = [sids EXCEPT ![x.det][x.sub] = None]
  BY DEF Dropped, engineVars, watchVars, ghosts
<1>4. /\ sids' \in [Detectors -> [Nodes -> Watches \cup {None, Pending}]]
      /\ \A e \in Detectors, n \in Nodes :
           sids'[e][n] = IF e = x.det /\ n = x.sub THEN None ELSE sids[e][n]
  BY <1>2, <1>3 DEF WatchesInv, ShapeInv, KindsInv
<1>5. \A w \in Watches : Busy(w)' = Busy(w)
  BY <1>3 DEF Busy
<1>6. ShapeInv'
  BY <1>3, <1>4, <1>5 DEF WatchesInv, ShapeInv, KindsInv, ScanInv
<1>7. ComingInv'
  <2>1. scan.at = "subs" => Head(scan.todo) \in Detectors
    BY SeqSets DEF WatchesInv, ShapeInv, ScanInv
  <2>2. scan.at = "subs" => scan.here \cup {c.sub : c \in scan.coming} \subseteq Nodes
    BY DEF WatchesInv, ShapeInv, ScanInv
  <2>3. ASSUME scan.at = "subs", Head(scan.todo) \notin cut,
               NEW n \in scan.here \cup {c.sub : c \in scan.coming}
        PROVE  sids'[Head(scan.todo)][n] \notin Watches
    BY <1>2, <1>4, <2>1, <2>2, <2>3 DEF WatchesInv, ComingInv
  <2>4. QED
    BY <1>3, <2>3 DEF WatchesInv, ComingInv
<1>8. PlacedInv'
  <2>1. Live' = Live
    BY <1>3 DEF Live, Scanned, Stops
  <2>2. ASSUME NEW w \in Watches, Busy(w), watchOf[w].det \notin cut PROVE Placed(w)'
    <3>1. Placed(w) /\ watchOf[w].det \in Detectors
      BY <2>2 DEF WatchesInv, PlacedInv, ShapeInv, KindsInv
    <3>2. ASSUME watchOf[w].det = x.det, watchOf[w].sub = x.sub PROVE sids[x.det][x.sub] # w
      <4>1. x.sid \notin open /\ sids[x.det][x.sub] \in {x.sid, None, Pending}
        BY <2>2, <3>2 DEF WatchesInv, DropsInv
      <4>2. events[x.sid] = <<>>
        BY <1>2, <1>3 DEF Silent
      <4>3. w # x.sid
        BY <2>2, <4>1, <4>2 DEF Busy
      <4>4. QED
        BY <1>2, <4>1, <4>3
    <3>3. QED
      BY <1>3, <1>4, <3>1, <3>2 DEF Placed
  <2>3. QED
    BY <1>3, <1>5, <2>1, <2>2 DEF WatchesInv, PlacedInv
<1>9. StopsInv'
  <2>1. \A s \in stops : s.det \in Detectors /\ s.seen \subseteq Nodes
    BY DEF WatchesInv, ShapeInv, KindsInv
  <2>2. None \notin open
    BY <1>2 DEF WatchesInv, ShapeInv, KindsInv
  <2>3. QED
    BY <1>3, <1>4, <2>1, <2>2 DEF WatchesInv, StopsInv
<1>10. DropsInv'
  <2>1. \A y \in drops : y.det \in Detectors /\ y.sub \in Nodes
    BY DEF WatchesInv, ShapeInv, KindsInv, Drop
  <2>2. QED
    BY <1>3, <1>4, <2>1 DEF WatchesInv, DropsInv
<1>11. HaltInv' /\ DirsInv'
  BY <1>3 DEF WatchesInv, HaltInv, DirsInv, Closed
<1>12. QED
  BY <1>1, <1>6, <1>7, <1>8, <1>9, <1>10, <1>11 DEF WatchesInv

-------------------------------------------------------------------------------
\* A path is added at the end, once.
LEMMA WithIsInjective ==
    ASSUME NEW list \in Seq(Roots), IsInjective(list), NEW p \in Roots \cup {None}
    PROVE  With(list, p) \in Seq(Roots) /\ IsInjective(With(list, p))
<1>1. CASE p = None \/ p \in ToSet(list)
  BY <1>1 DEF With
<1>2. CASE p # None /\ p \notin ToSet(list)
  <2>1. With(list, p) = Append(list, p) /\ p \in Roots
    BY <1>2 DEF With
  <2>2. \A i \in DOMAIN list : list[i] # p
    BY <1>2 DEF ToSet
  <2>3. Append(list, p) \in Seq(Roots) /\ DOMAIN Append(list, p) = 1..(Len(list) + 1)
    BY <2>1
  <2>4. \A i \in DOMAIN Append(list, p) :
          Append(list, p)[i] = IF i = Len(list) + 1 THEN p ELSE list[i]
    BY <2>1
  <2>5. DOMAIN list = 1..Len(list) /\ Len(list) \in Nat
    OBVIOUS
  <2>6. ASSUME NEW i \in DOMAIN Append(list, p), NEW j \in DOMAIN Append(list, p),
               Append(list, p)[i] = Append(list, p)[j]
        PROVE  i = j
    <3>1. i \in 1..(Len(list) + 1) /\ j \in 1..(Len(list) + 1)
      BY <2>3
    <3>2. CASE i = Len(list) + 1 \/ j = Len(list) + 1
      BY <2>2, <2>4, <2>5, <2>6, <3>1, <3>2
    <3>3. CASE i # Len(list) + 1 /\ j # Len(list) + 1
      <4>1. i \in DOMAIN list /\ j \in DOMAIN list
        BY <2>5, <3>1, <3>3
      <4>2. list[i] = list[j]
        BY <2>4, <2>6, <3>3
      <4>3. QED
        BY <4>1, <4>2 DEF IsInjective
    <3>4. QED
      BY <3>2, <3>3
  <2>7. IsInjective(Append(list, p))
    BY <2>6 DEF IsInjective
  <2>8. QED
    BY <2>1, <2>3, <2>7
<1>3. QED
  BY <1>1, <1>2

LEMMA PathsAreInjective ==
    ASSUME DEAssumption, PathsInv, NEW list \in PathLists
    PROVE  GetPaths(list) \in Seq(Roots) /\ IsInjective(GetPaths(list))
<1>1. list \in Seq(Roots) /\ IsInjective(list)
  BY DEF DEAssumption
<1>2. values \in Roots \cup {None} /\ (IF options.polled THEN answer ELSE None) \in Roots \cup {None}
  BY DEF DEAssumption, PathsInv
<1>3. PICK first : first = With(list, IF options.polled THEN answer ELSE None)
  OBVIOUS
<1>4. first \in Seq(Roots) /\ IsInjective(first)
  BY <1>1, <1>2, <1>3, WithIsInjective
<1>5. GetPaths(list) = With(first, values)
  BY <1>3 DEF GetPaths
<1>6. QED
  BY <1>2, <1>4, <1>5, WithIsInjective

\* What the detectors of a new scan are: those that keep their path, in its place, and
\* new ones that nothing refers to.
Kept(list) == {d \in ToSet(detectors) : dirOf[d] \in ToSet(list)}
Begun(keeps, new) ==
    /\ detectors' \in Seq(Detectors) /\ ToSet(detectors') = keeps \cup new
    /\ DOMAIN scan' = DOMAIN NoScan /\ scan'.at = "stale" /\ scan'.todo = detectors'
    /\ scan'.stale = ToSet(detectors) \ keeps /\ scan'.here = {} /\ scan'.coming = {}
    /\ \A d \in Detectors \ new : dirOf'[d] = dirOf[d] /\ sid'[d] = sid[d] /\ sids'[d] = sids[d]
    /\ sid' \in [Detectors -> Watches \cup {None}]
    /\ sids' \in [Detectors -> [Nodes -> Watches \cup {None, Pending}]]
    /\ halting' = halting \ keeps
    /\ cut' = (cut \ new) \cup (IF phase = "stopping" THEN ToSet(detectors')
                                ELSE Stops \cap ToSet(detectors'))
    /\ DirsInv'

\* Each of them is for the path in its place.
Lists(list) ==
    /\ DOMAIN detectors' = DOMAIN list /\ dirOf' = [d \in Detectors |-> dirOf'[d]]
    /\ \A i \in DOMAIN list : dirOf'[detectors'[i]] = list[i]

LEMMA BeginNames ==
    ASSUME WatchesInv, NEW list \in Seq(Roots), IsInjective(list), NEW arms, NEW stale,
           Begin(list, arms, stale)
    PROVE  (\E new \in SUBSET FreeDetectors : Begun(Kept(list), new)) /\ Lists(list)
<1>k. PICK keeps : keeps = Kept(list)
  OBVIOUS
<1>a. PICK added : added = {i \in DOMAIN list : \A d \in keeps : dirOf[d] # list[i]}
  OBVIOUS
<1>b. PICK naming \in Injection(added, FreeDetectors) :
        naming = CHOOSE f \in Injection(added, FreeDetectors) : TRUE
  BY <1>a, <1>k DEF Begin, ExistsInjection, Kept
<1>c. PICK now : now = [i \in DOMAIN list |->
                   IF i \in added THEN naming[i] ELSE CHOOSE d \in keeps : dirOf[d] = list[i]]
  OBVIOUS
<1>d. PICK new : new = {now[i] : i \in added}
  OBVIOUS
<1>1. /\ detectors' = now
      /\ scan' = [NoScan EXCEPT !.at = "stale", !.arms = arms, !.todo = now,
                     !.stale = ToSet(detectors) \ keeps]
      /\ dirOf' = [d \in Detectors |-> IF d \in new THEN list[CHOOSE i \in added : now[i] = d]
                                       ELSE dirOf[d]]
      /\ sid' = [d \in Detectors |-> IF d \in new THEN None ELSE sid[d]]
      /\ sids' = [d \in Detectors |-> IF d \in new THEN [n \in Nodes |-> None] ELSE sids[d]]
      /\ halting' = halting \ keeps
      /\ cut' = (cut \ new) \cup (IF phase = "stopping" THEN ToSet(now)
                                  ELSE Stops \cap ToSet(now))
  BY <1>a, <1>b, <1>c, <1>d, <1>k DEF Begin, Stops, Kept
<1>2. ToSet(detectors) \subseteq Detectors /\ keeps \subseteq ToSet(detectors)
  BY <1>k, SeqSets DEF WatchesInv, ShapeInv, KindsInv, Kept
<1>3. added \subseteq DOMAIN list
  BY <1>a
<1>4. /\ \A i \in added : naming[i] \in FreeDetectors
      /\ \A i, j \in added : naming[i] = naming[j] => i = j
  BY DEF Injection, IsInjective
<1>5. FreeDetectors \subseteq Detectors /\ FreeDetectors \cap ToSet(detectors) = {}
  BY DEF FreeDetectors, Referred
<1>6. ASSUME NEW i \in DOMAIN list \ added
      PROVE  now[i] \in keeps /\ dirOf[now[i]] = list[i]
  <2>1. \E d \in keeps : dirOf[d] = list[i]
    BY <1>a
  <2>2. now[i] = CHOOSE d \in keeps : dirOf[d] = list[i]
    BY <1>c
  <2>3. QED
    BY <2>1, <2>2
<1>7. \A i \in added : now[i] = naming[i] /\ now[i] \in new /\ now[i] \in FreeDetectors
  BY <1>3, <1>4, <1>c, <1>d
<1>8. new \subseteq FreeDetectors
  BY <1>7, <1>d
<1>9. now \in Seq(Detectors)
  <2>1. \A i \in DOMAIN list : now[i] \in Detectors
    BY <1>2, <1>5, <1>6, <1>7
  <2>2. now \in [1..Len(list) -> Detectors] /\ Len(list) \in Nat
    BY <1>c, <2>1
  <2>3. QED
    BY <2>2
<1>10. DOMAIN now = DOMAIN list
  BY <1>c
<1>11. ToSet(now) = keeps \cup new
  <2>1. ToSet(now) \subseteq keeps \cup new
    BY <1>6, <1>7, <1>10 DEF ToSet
  <2>2. new \subseteq ToSet(now)
    BY <1>3, <1>10, <1>d DEF ToSet
  <2>3. ASSUME NEW d \in keeps PROVE d \in ToSet(now)
    <3>1. PICK i \in DOMAIN list : list[i] = dirOf[d]
      BY <1>k DEF ToSet, Kept
    <3>2. i \notin added
      BY <1>a, <3>1
    <3>3. now[i] \in keeps /\ dirOf[now[i]] = dirOf[d]
      BY <1>6, <3>1, <3>2
    <3>4. now[i] = d
      BY <1>2, <3>3 DEF WatchesInv, DirsInv
    <3>5. QED
      BY <1>10, <3>4 DEF ToSet
  <2>4. QED
    BY <2>1, <2>2, <2>3
<1>12. DirsInv' /\ Lists(list)
  <2>1. ASSUME NEW i \in DOMAIN list PROVE dirOf'[now[i]] = list[i]
    <3>1. CASE i \in added
      <4>1. \A j \in added : now[j] = now[i] => j = i
        BY <1>4, <1>7, <3>1
      <4>2. (CHOOSE j \in added : now[j] = now[i]) = i
        BY <3>1, <4>1
      <4>3. now[i] \in Detectors /\ now[i] \in new
        BY <1>5, <1>7, <3>1
      <4>4. QED
        BY <1>1, <4>2, <4>3
    <3>2. CASE i \notin added
      <4>1. now[i] \in keeps /\ dirOf[now[i]] = list[i]
        BY <1>6, <3>2
      <4>2. now[i] \in Detectors \ new
        BY <1>2, <1>5, <1>8, <4>1
      <4>3. QED
        BY <1>1, <4>1, <4>2
    <3>3. QED
      BY <3>1, <3>2
  <2>2. ASSUME NEW d \in ToSet(now), NEW e \in ToSet(now), dirOf'[d] = dirOf'[e] PROVE d = e
    <3>1. PICK i \in DOMAIN list, j \in DOMAIN list : d = now[i] /\ e = now[j]
      BY <1>10 DEF ToSet
    <3>2. list[i] = list[j]
      BY <2>1, <2>2, <3>1
    <3>3. QED
      BY <3>1, <3>2 DEF IsInjective
  <2>3. dirOf' = [d \in Detectors |-> dirOf'[d]]
    BY <1>1
  <2>4. QED
    BY <1>1, <1>10, <2>1, <2>2, <2>3 DEF DirsInv, Lists
<1>13. /\ sid' \in [Detectors -> Watches \cup {None}]
       /\ sids' \in [Detectors -> [Nodes -> Watches \cup {None, Pending}]]
  BY <1>1 DEF WatchesInv, ShapeInv, KindsInv
<1>14. \A d \in Detectors \ new : dirOf'[d] = dirOf[d] /\ sid'[d] = sid[d] /\ sids'[d] = sids[d]
  BY <1>1
<1>15. /\ DOMAIN scan' = DOMAIN NoScan /\ scan'.at = "stale" /\ scan'.todo = detectors'
       /\ scan'.stale = ToSet(detectors) \ keeps /\ scan'.here = {} /\ scan'.coming = {}
  BY <1>1 DEF NoScan
<1>16. QED
  BY <1>k, <1>1, <1>8, <1>9, <1>11, <1>12, <1>13, <1>14, <1>15 DEF Begun

\* A scan begins.
LEMMA BeginKeeps ==
    ASSUME DEAssumption, WatchesInv, PathsInv', scan.at = "idle",
           NEW list \in Seq(Roots), IsInjective(list), NEW arms, NEW stale,
           Begin(list, arms, stale),
           UNCHANGED <<open, watchOf, events, stops, drops, phase>>
    PROVE  WatchesInv'
<1>1. PICK keeps : keeps = Kept(list)
  OBVIOUS
<1>2. PICK new \in SUBSET FreeDetectors : Begun(keeps, new)
  BY <1>1, BeginNames
<1>3. keeps \subseteq ToSet(detectors)
  BY <1>1 DEF Kept
<1>4. ToSet(detectors) \subseteq Detectors
  BY SeqSets DEF WatchesInv, ShapeInv, KindsInv
<1>5. scan.todo = <<>> /\ scan.stale = {} /\ scan.coming = {} /\ Scanned = {}
  BY SeqSets DEF WatchesInv, ShapeInv, ScanInv, Scanned, ToSet
<1>6. \A w \in Watches : Busy(w)' = Busy(w)
  BY DEF Busy
<1>7. \A d \in Referred : d \notin new
  BY DEF FreeDetectors
<1>8. /\ \A w \in Watches : Busy(w) => watchOf[w].det \in Detectors \ new
      /\ \A s \in stops : s.det \in Detectors \ new
      /\ \A x \in drops : x.det \in Detectors \ new
  <2>1. \A w \in Watches : Busy(w) => watchOf[w].det \in Referred
    BY DEF Referred, Busy, WatchesInv, ShapeInv, KindsInv
  <2>2. \A s \in stops : s.det \in Referred
    BY DEF Referred
  <2>3. \A x \in drops : x.det \in Referred
    BY DEF Referred
  <2>4. QED
    BY <1>7, <2>1, <2>2, <2>3 DEF WatchesInv, ShapeInv, KindsInv, Drop
<1>9. \A d \in Detectors \ new : d \notin cut' => d \notin cut
  BY <1>2 DEF Begun
<1>10. KindsInv'
  BY <1>2, <1>6 DEF WatchesInv, ShapeInv, KindsInv, Begun
<1>11. ScanInv'
  BY <1>2, <1>3, <1>4 DEF ScanInv, Begun
<1>12. ComingInv'
  BY <1>2 DEF ComingInv, Begun
<1>13. PlacedInv'
  <2>1. Live \subseteq Live'
    BY <1>2, <1>5 DEF Live, Scanned, Stops, Begun
  <2>2. ASSUME NEW w \in Watches, Busy(w), Placed(w) PROVE Placed(w)'
    BY <1>2, <1>5, <1>8, <2>2 DEF Placed, Begun
  <2>3. QED
    BY <1>6, <1>8, <1>9, <2>1, <2>2 DEF WatchesInv, PlacedInv
<1>14. StopsInv'
  <2>1. \A s \in stops : s.det \notin cut' => s.det \notin ToSet(detectors')
    BY <1>2 DEF Stops, Begun
  <2>2. \A s \in stops : s.det \notin cut' =>
          s.det \notin cut /\ sid'[s.det] = sid[s.det] /\ sids'[s.det] = sids[s.det]
    BY <1>2, <1>8, <1>9 DEF Begun
  <2>3. scan'.todo = detectors'
    BY <1>2 DEF Begun
  <2>4. QED
    BY <2>1, <2>2, <2>3 DEF WatchesInv, StopsInv
<1>15. DropsInv'
  BY <1>2, <1>8, <1>9 DEF WatchesInv, DropsInv, Begun
<1>16. HaltInv'
  BY <1>2 DEF HaltInv, Begun
<1>17. QED
  BY <1>2, <1>10, <1>11, <1>12, <1>13, <1>14, <1>15, <1>16 DEF WatchesInv, ShapeInv, Begun

\* A rescan is asked of scan().
LEMMA RescanKeeps ==
    ASSUME DEAssumption, WatchesInv, NEW a \in asks, Rescan(a)
    PROVE  WatchesInv'
<1>1. PathsInv'
  BY DEF WatchesInv, PathsInv, Rescan, diskVars, keyVars
<1>2. UNCHANGED <<open, watchOf, events, stops, drops, phase>>
  BY DEF Rescan, watchVars
<1>3. CASE UNCHANGED <<scan, detectors, dirOf, sid, sids, halting, cut>>
  BY <1>1, <1>2, <1>3, NothingMoves DEF linkVars
<1>4. CASE \E arms : scan.at = "idle" /\ Begin(GetPaths(a.paths), arms, a.paths # paths)
  <2>1. PICK list \in Seq(Roots) : list = GetPaths(a.paths) /\ IsInjective(list)
    BY PathsAreInjective DEF WatchesInv, PathsInv
  <2>2. QED
    BY <1>1, <1>2, <1>4, <2>1, BeginKeeps
<1>5. CASE \E arms : scan.at # "idle" /\ Join(arms)
  <2>1. PICK arms : scan' = [scan EXCEPT !.arms = @ \cup arms]
    BY <1>5 DEF Join
  <2>2. /\ DOMAIN scan' = DOMAIN NoScan /\ scan'.at = scan.at /\ scan'.todo = scan.todo
        /\ scan'.stale = scan.stale /\ scan'.here = scan.here /\ scan'.coming = scan.coming
    BY <2>1 DEF WatchesInv, ShapeInv, ScanInv, NoScan
  <2>3. UNCHANGED <<detectors, dirOf, sid, sids, halting, cut>>
    BY <1>5 DEF Join
  <2>4. ShapeInv' /\ ComingInv'
    BY <1>2, <2>2, <2>3 DEF WatchesInv, ShapeInv, KindsInv, ScanInv, ComingInv, Busy
  <2>5. PlacedInv' /\ StopsInv' /\ DropsInv' /\ HaltInv' /\ DirsInv'
    BY <1>2, <2>2, <2>3 DEF WatchesInv, PlacedInv, StopsInv, DropsInv, HaltInv, DirsInv, Closed,
       Placed, Live, Stops, Scanned, Busy
  <2>6. QED
    BY <1>1, <2>4, <2>5 DEF WatchesInv
<1>6. QED
  BY <1>3, <1>4, <1>5 DEF Rescan

-------------------------------------------------------------------------------
LEMMA WatchesBegin == DEAssumption /\ DetectInit => WatchesInv
<1> SUFFICES ASSUME DEAssumption, DetectInit PROVE WatchesInv
  OBVIOUS
<1>1. /\ open = {} /\ stops = {} /\ drops = {} /\ halting = {} /\ asks = {} /\ detectors = <<>>
      /\ phase = "new" /\ scan = NoScan /\ answer = None /\ values = None /\ entry = None
      /\ events = [w \in Watches |-> <<>>] /\ watchOf = [w \in Watches |-> NoTerm]
      /\ paths \in PathLists
  BY DEF DetectInit, RegistryInit
<1>2. PathsInv
  BY <1>1 DEF DetectInit, RegistryInit, PathsInv, DEAssumption, Blank
<1>3. ToSet(<<>>) = {}
  BY DEF ToSet
<1>4. \A w \in Watches : ~Busy(w)
  BY <1>1 DEF Busy
<1>5. KindsInv
  BY <1>1, <1>4 DEF DetectInit, KindsInv
<1>6. /\ DOMAIN scan = DOMAIN NoScan /\ scan.at = "idle" /\ scan.stale = {} /\ scan.todo = <<>>
      /\ scan.here = {} /\ scan.coming = {}
  BY <1>1 DEF NoScan
<1>7. ScanInv /\ ComingInv
  BY <1>3, <1>6 DEF ScanInv, ComingInv
<1>8. PlacedInv /\ StopsInv /\ DropsInv /\ HaltInv /\ DirsInv
  BY <1>1, <1>3, <1>4 DEF PlacedInv, StopsInv, DropsInv, HaltInv, DirsInv
<1>9. QED
  BY <1>2, <1>5, <1>7, <1>8 DEF WatchesInv, ShapeInv

LEMMA WorksKeep ==
    ASSUME RWAssumption, DEAssumption, WatchesInv, Works
    PROVE  WatchesInv'
<1>1. CASE (\E d \in Detectors : Fire(d)) \/ RefreshPaths
  BY <1>1, PathKeeps
<1>2. CASE RegistryChanged \/ \E k \in Keys : HearKey(k) /\ Rest
  BY <1>2, KeyKeeps
<1>3. CASE (\E a \in asks : Rescan(a)) \/ (\E s \in stops : StopStep(s)) \/ StopNext \/ ScanStale
  BY <1>3, RescanKeeps, StopStepKeeps, StopNextKeeps, ScanStaleKeeps
<1>4. CASE ScanRoot \/ ScanSub \/ WatchRoot \/ RootWatched \/ ScanNext \/ EndScan
  BY <1>4, ScanRootKeeps, WatchRootKeeps, RootWatchedKeeps, ScanNextKeeps
<1>5. CASE (\E n \in scan.here : WatchSub(n)) \/ (\E c \in scan.coming : SubWatched(c))
  BY <1>5, WatchSubKeeps, SubWatchedKeeps
<1>6. CASE (\E w \in Watches : Deliver(w)) \/ (\E x \in drops : Dropped(x))
  BY <1>6, DeliverKeeps, DroppedKeeps
<1>7. QED
  BY <1>1, <1>2, <1>3, <1>4, <1>5, <1>6 DEF Works

LEMMA NextKeepsWatches ==
    ASSUME RWAssumption, DEAssumption, InventoryAssumption, WatchesInv, [Next]_allVars
    PROVE  WatchesInv'
<1>1. CASE UNCHANGED vars
  <2>1. PathsInv' /\ UNCHANGED linkVars
    BY <1>1 DEF WatchesInv, PathsInv, linkVars, vars, keyVars, diskVars, engineVars, detectorVars,
       watchVars, ghosts
  <2>2. QED
    BY <2>1, NothingMoves
<1>2. CASE Start \/ Works \/ Stop \/ FailScan
  BY <1>2, StartKeeps, WorksKeep, StopKeeps, ScanRootKeeps
<1>3. CASE \E n \in MovingNodes : MakeDir(n) \/ RemoveDir(n) \/ ToggleItem(n)
  BY <1>3, DiskKeeps, InventoryAssumption DEF InventoryAssumption
<1>4. CASE (\E list \in PathLists : SetPaths(list)) \/ (\E p \in Roots : MoveAnswer(p))
  BY <1>4, PathKeeps
<1>5. CASE EditKeys(\/ \E p \in Folders \cup {None} : EditValue(p)
                    \/ \E k \in Keys : AddKey(k) \/ DeleteKey(k))
  BY <1>5, KeyKeeps
<1>6. QED
  BY <1>1, <1>2, <1>3, <1>4, <1>5 DEF Next, Engine, About, allVars

\* A watch is open because a detector of the engine, or one that is being stopped, holds its
\* id or waits for it: for any disk, registry and settings, any number of detectors and of
\* changes, and any order of the scans, the stops and the events of the watches
\* (detector.js:95, :136, :198, detect-engine.js:354, :462).
THEOREM NoneIsLeaked ==
    ASSUME RWAssumption, DEAssumption, InventoryAssumption
    PROVE  Spec => []NoLeakedWatch
<1>1. DEAssumption /\ Init => WatchesInv
  BY WatchesBegin DEF Init
<1>2. RWAssumption /\ DEAssumption /\ InventoryAssumption /\ WatchesInv /\ [Next]_allVars
        => WatchesInv'
  BY NextKeepsWatches
<1>3. DEAssumption /\ WatchesInv => NoLeakedWatch
  <2> SUFFICES ASSUME DEAssumption, WatchesInv, NEW w \in open, watchOf[w].det \notin cut
               PROVE  /\ w \in Held(watchOf[w].det) \/ \E c \in scan.coming : c.sid = w
                      /\ watchOf[w].det \in Live
    BY DEF NoLeakedWatch, Live, Stops
  <2>1. w \in Watches /\ Busy(w)
    BY DEF WatchesInv, ShapeInv, KindsInv, Busy
  <2>2. Placed(w) /\ watchOf[w].det \in Live
    BY <2>1 DEF WatchesInv, PlacedInv
  <2>3. QED
    BY <2>1, <2>2 DEF Placed, Held
<1>4. QED
  BY RWAssumption, DEAssumption, InventoryAssumption, <1>1, <1>2, <1>3, PTL DEF Spec

-------------------------------------------------------------------------------
(* The registry. *)

\* The least of a set of natural numbers.
LEMMA LeastNumber ==
    ASSUME NEW S \in SUBSET Nat, S # {}
    PROVE  \E x \in S : \A y \in S : x <= y
<1> DEFINE R == {ss \in Nat \X Nat : ss[1] < ss[2]}
<1>1. IsWellFoundedOn(R, Nat)
  BY NatLessThanWellFounded DEF OpToRel
<1> HIDE DEF R
<1>2. PICK x \in S : \A y \in S : <<y, x>> \notin R
  BY <1>1, WFMin
<1>3. ASSUME NEW y \in S PROVE x <= y
  <2>1. y \in Nat /\ x \in Nat /\ <<y, x>> \notin R
    BY <1>2
  <2>2. ~(y < x)
    BY <2>1 DEF R
  <2>3. QED
    BY <2>1, <2>2
<1>4. QED
  BY <1>2, <1>3

\* The tree of the keys: Level and Above are the functions their equations describe.
LEMMA LevelIsDefined ==
    ASSUME RWAssumption
    PROVE  /\ Level \in [Keys -> Nat]
           /\ \A k \in Keys : Level[k] = IF k = Top THEN 0 ELSE 1 + Level[Up[k]]
<1> DEFINE Eq(f) == f = [k \in Keys |-> IF k = Top THEN 0 ELSE 1 + f[Up[k]]]
<1>1. Cardinality(Keys) \in Nat
  BY FS_CardinalityType DEF RWAssumption
<1>2. PICK level \in [Keys -> 0..Cardinality(Keys)] :
         level[Top] = 0 /\ \A k \in Keys \ {Top} : level[k] = 1 + level[Up[k]]
  BY DEF RWAssumption
<1>3. Eq(level)
  BY <1>2
<1>4. Eq(Level)
  <2>1. Level = CHOOSE f : Eq(f)
    BY DEF Level
  <2> HIDE DEF Eq
  <2>2. QED
    BY <1>3, <2>1
<1>5. /\ DOMAIN Level = Keys /\ Level = [k \in Keys |-> Level[k]]
      /\ \A k \in Keys : Level[k] = IF k = Top THEN 0 ELSE 1 + Level[Up[k]]
  BY <1>4
<1>6. \A k \in Keys : Level[k] \in Nat
  <2> SUFFICES ASSUME NEW k \in Keys, Level[k] \notin Nat PROVE FALSE
    OBVIOUS
  <2> DEFINE Off == {level[c] : c \in {c \in Keys : Level[c] \notin Nat}}
  <2>1. Off \subseteq Nat /\ level[k] \in Off
    BY <1>1, <1>2
  <2>2. PICK x \in Off : \A y \in Off : x <= y
    BY <2>1, LeastNumber
  <2>3. PICK c \in Keys : Level[c] \notin Nat /\ x = level[c]
    BY <2>2
  <2>4. c # Top /\ Up[c] \in Keys
    BY <1>5, <2>3 DEF RWAssumption
  <2>5. level[Up[c]] \notin Off
    <3>1. level[c] = 1 + level[Up[c]] /\ level[Up[c]] \in Nat
      BY <1>1, <1>2, <2>4
    <3>2. ~(level[c] <= level[Up[c]])
      BY <3>1
    <3>3. \A y \in Off : level[c] <= y
      BY <2>2, <2>3
    <3> HIDE DEF Off
    <3>4. QED
      BY <3>2, <3>3
  <2>6. Level[Up[c]] \in Nat
    BY <2>4, <2>5
  <2>7. Level[c] = 1 + Level[Up[c]]
    BY <1>5, <2>4
  <2>8. QED
    BY <2>3, <2>6, <2>7
<1>7. QED
  BY <1>5, <1>6

LEMMA AboveIsDefined ==
    ASSUME RWAssumption, NEW k \in Keys
    PROVE  Above[k] = {k} \cup (IF k = Top THEN {} ELSE Above[Up[k]])
<1> DEFINE Eq(f) == f = [c \in Keys |-> {c} \cup (IF c = Top THEN {} ELSE f[Up[c]])]
           \* the sets of keys that have the key above each of theirs
           Up1(S) == \A c \in S \ {Top} : Up[c] \in S
           least == [c \in Keys |->
                       {a \in Keys : \A S \in SUBSET Keys : c \in S /\ Up1(S) => a \in S}]
<1>1. \A c \in Keys : Up[c] \in Keys
  BY DEF RWAssumption
<1>2. \A c \in Keys : /\ c \in least[c] /\ least[c] \subseteq Keys
                      /\ \A S \in SUBSET Keys : c \in S /\ Up1(S) => least[c] \subseteq S
  OBVIOUS
<1>3. \A c \in Keys : Up1(least[c])
  BY <1>1
<1> HIDE DEF least
<1>4. ASSUME NEW c \in Keys
      PROVE  least[c] = {c} \cup (IF c = Top THEN {} ELSE least[Up[c]])
  <2> DEFINE rest == IF c = Top THEN {} ELSE least[Up[c]]
  <2>1. rest \subseteq Keys /\ Up1(rest) /\ (c # Top => Up[c] \in rest)
    BY <1>1, <1>2, <1>3
  <2>2. Up1({c} \cup rest) /\ {c} \cup rest \in SUBSET Keys
    BY <2>1
  <2>3. least[c] \subseteq {c} \cup rest
    <3> HIDE DEF Up1, rest
    <3>1. PICK S \in SUBSET Keys : S = {c} \cup rest /\ Up1(S)
      BY <2>2
    <3>2. QED
      BY <1>2, <3>1
  <2>4. c # Top => least[Up[c]] \subseteq least[c]
    <3>1. c # Top => Up[c] \in least[c]
      BY <1>2, <1>3
    <3>2. QED
      BY <1>1, <1>2, <1>3, <3>1
  <2>5. QED
    BY <1>2, <2>3, <2>4
<1>5. Eq(least)
  <2>1. DOMAIN least = Keys /\ least = [c \in Keys |-> least[c]]
    BY DEF least
  <2>2. QED
    BY <1>4, <2>1
<1>6. Above = CHOOSE f : Eq(f)
  BY DEF Above
<1> HIDE DEF Eq
<1>7. Eq(Above)
  BY <1>5, <1>6
<1> USE DEF Eq
<1>8. QED
  BY <1>7

\* What lies beneath a key, one step at a time.
LEMMA Tree ==
    ASSUME RWAssumption, NEW c \in Keys, NEW k \in Keys
    PROVE  /\ k \in Within(k)
           /\ c # Top => /\ Up[c] \in Keys /\ Up[c] # c
                         /\ Level[c] = Level[Up[c]] + 1
                         /\ Up[c] \in Within(k) => c \in Within(k)
           /\ c \in Within(k) /\ c # k => c # Top /\ Up[c] \in Within(k)
           /\ Level[c] \in Nat
<1>1. \A x \in Keys : Up[x] \in Keys
  BY DEF RWAssumption
<1>2. QED
  BY <1>1, LevelIsDefined, AboveIsDefined DEF Within

\* Whatever has a KeyWatcher has one for each of its subkeys within the depth.
LEMMA ReachedCloses ==
    ASSUME RWAssumption, NEW k \in Keys, NEW e \in hive \ {Top}, e \in Keys, Up[e] \in Reached(k),
           Level[e] <= KeyDepth, Up[e] = Top => e \in Shown
    PROVE  e \in Reached(k)
<1>1. Up[e] \in Keys /\ e \in Within(k) /\ Above[e] = {e} \cup Above[Up[e]]
  BY Tree, AboveIsDefined DEF Reached
<1>2. k = Top => \E a \in Shown \cap Subkeys(Top) : a \in Above[e]
  <2> SUFFICES ASSUME k = Top PROVE \E a \in Shown \cap Subkeys(Top) : a \in Above[e]
    OBVIOUS
  <2>1. CASE Up[e] = Top
    BY <1>1, <2>1 DEF Subkeys
  <2>2. CASE Up[e] # Top
    BY <1>1, <2>2 DEF Reached
  <2>3. QED
    BY <2>1, <2>2
<1>3. QED
  BY <1>1, <1>2 DEF Reached

\* A KeyWatcher whose key has nothing left to report is as its key is.
KeptInv == \A k \in followed : news[k] = <<>> => kept[k] = ListKey(k)
\* A key within the depth has a KeyWatcher, or the key it is in has something to report.
FollowedInv ==
    \A c \in hive \ {Top} :
       Up[c] \in followed /\ Level[c] <= KeyDepth /\ (Up[c] = Top => c \in Shown)
         => c \in followed \/ news[Up[c]] # <<>>
\* The last report of a key that exists is not of its deletion.
LastInv == \A k \in hive : news[k] # <<>> => Last(news[k]) # "delete"
\* A key is in one that exists, and what has no KeyWatcher has nothing to report.
HiveInv == \A k \in hive \ {Top} : Up[k] \in hive
SilentInv == \A k \in Keys \ followed : news[k] = <<>>
\* The value that was gathered is the one that the KeyWatcher has, or will be.
ValueInv == Top \in followed => notifying \/ values = kept[Top].value
\* An engine that does not run follows no key.
PhaseInv == phase # "running" => followed = {}

KeysInv ==
    /\ RegistryTypeOK /\ KeptInv /\ FollowedInv /\ LastInv /\ HiveInv /\ SilentInv
    /\ ValueInv /\ PhaseInv

LEMMA ListsAreStates == RegistryTypeOK => \A k \in Keys : ListKey(k) \in KeyState
BY DEF RegistryTypeOK, KeyState, ListKey, Subkeys

LEMMA AppendIsLast ==
    ASSUME NEW S, NEW s \in Seq(S), NEW x \in S
    PROVE  /\ Append(s, x) \in Seq(S) /\ Append(s, x) # <<>>
           /\ Last(Append(s, x)) = x
<1>1. Append(s, x) \in Seq(S) /\ Len(Append(s, x)) = Len(s) + 1 /\ Len(s) \in Nat
  OBVIOUS
<1>2. Append(s, x)[Len(s) + 1] = x
  OBVIOUS
<1>3. QED
  BY <1>1, <1>2 DEF Last

LEMMA ReportsAppend ==
    ASSUME RegistryTypeOK, NEW told, Report(told), DOMAIN told \subseteq Keys,
           \A k \in DOMAIN told : told[k] \in {"add", "change", "delete"}
    PROVE  /\ news' \in [Keys -> Seq({"add", "change", "delete"})]
           /\ \A k \in Keys : k \notin followed \cap DOMAIN told => news'[k] = news[k]
           /\ \A k \in followed \cap DOMAIN told :
                /\ news'[k] # <<>> /\ Last(news'[k]) = told[k]
           /\ \A k \in Keys : news[k] # <<>> => news'[k] # <<>>
<1>1. news \in [Keys -> Seq({"add", "change", "delete"})] /\ followed \subseteq Keys
  BY DEF RegistryTypeOK
<1>2. ASSUME NEW k \in followed \cap DOMAIN told
      PROVE  /\ news'[k] = Append(news[k], told[k])
             /\ news'[k] \in Seq({"add", "change", "delete"})
             /\ news'[k] # <<>> /\ Last(news'[k]) = told[k]
  <2>1. news'[k] = Append(news[k], told[k])
    BY <1>1 DEF Report
  <2>2. news[k] \in Seq({"add", "change", "delete"}) /\ told[k] \in {"add", "change", "delete"}
    BY <1>1
  <2>3. QED
    BY <2>1, <2>2, AppendIsLast
<1>3. QED
  BY <1>1, <1>2 DEF Report

LEMMA EditValueKeeps ==
    ASSUME RWAssumption, KeysInv, NEW v \in Folders \cup {None}, EditValue(v), phase' = phase
    PROVE  KeysInv'
<1> DEFINE told == [k \in {Top} |-> "change"]
<1>1. Report(told) /\ Top \in Keys /\ RegistryTypeOK
  BY DEF EditValue, KeysInv, RWAssumption
<1>2. /\ news' \in [Keys -> Seq({"add", "change", "delete"})]
      /\ \A k \in Keys : k \notin followed \cap {Top} => news'[k] = news[k]
      /\ \A k \in followed \cap {Top} : news'[k] # <<>> /\ Last(news'[k]) = "change"
      /\ \A k \in Keys : news[k] # <<>> => news'[k] # <<>>
  <2>1. DOMAIN told = {Top} /\ told[Top] = "change"
    OBVIOUS
  <2> HIDE DEF told
  <2>2. QED
    BY <1>1, <2>1, ReportsAppend
<1>3. UNCHANGED <<hive, kept, followed, notifying, values>>
  BY DEF EditValue
<1>4. RegistryTypeOK' /\ HiveInv' /\ SilentInv' /\ ValueInv' /\ PhaseInv'
  BY <1>2, <1>3 DEF EditValue, KeysInv, RegistryTypeOK, HiveInv, SilentInv, ValueInv, PhaseInv
<1>5. LastInv'
  BY <1>2, <1>3 DEF KeysInv, RegistryTypeOK, LastInv
<1>6. FollowedInv'
  BY <1>2, <1>3, Tree DEF KeysInv, RegistryTypeOK, FollowedInv
<1>7. KeptInv'
  BY <1>2, <1>3 DEF KeysInv, RegistryTypeOK, KeptInv, ListKey
<1>8. QED
  BY <1>4, <1>5, <1>6, <1>7 DEF KeysInv

LEMMA AddKeyKeeps ==
    ASSUME RWAssumption, KeysInv, NEW k \in Keys, AddKey(k), phase' = phase
    PROVE  KeysInv'
<1> DEFINE told == [c \in {k, Up[k]} |-> IF c = k THEN "add" ELSE "change"]
<1>1. Report(told) /\ Top \in Keys /\ RegistryTypeOK /\ Up[k] \in Keys
  BY DEF AddKey, KeysInv, RWAssumption
<1>2. /\ news' \in [Keys -> Seq({"add", "change", "delete"})]
      /\ \A c \in Keys : c \notin followed \cap {k, Up[k]} => news'[c] = news[c]
      /\ \A c \in followed \cap {k, Up[k]} : news'[c] # <<>> /\ Last(news'[c]) # "delete"
      /\ \A c \in Keys : news[c] # <<>> => news'[c] # <<>>
  <2>1. DOMAIN told = {k, Up[k]} /\ \A c \in {k, Up[k]} : told[c] \in {"add", "change"}
    OBVIOUS
  <2> HIDE DEF told
  <2>2. QED
    BY <1>1, <2>1, ReportsAppend
<1>3. /\ UNCHANGED <<kept, followed, notifying, values>>
      /\ hive' = hive \cup {k} /\ k \notin hive /\ (k # Top => Up[k] \in hive)
      /\ entry' = IF k = Top THEN None ELSE entry
  BY DEF AddKey
<1>4. RegistryTypeOK' /\ SilentInv' /\ ValueInv' /\ PhaseInv'
  BY <1>2, <1>3 DEF KeysInv, RegistryTypeOK, SilentInv, ValueInv, PhaseInv
<1>5. HiveInv' /\ FollowedInv'
  BY <1>2, <1>3 DEF KeysInv, RegistryTypeOK, HiveInv, FollowedInv
<1>6. LastInv'
  BY <1>2, <1>3 DEF KeysInv, RegistryTypeOK, LastInv, SilentInv
<1>7. KeptInv'
  <2> SUFFICES ASSUME NEW c \in followed, news'[c] = <<>> PROVE kept[c] = ListKey(c)'
    BY <1>3 DEF KeptInv
  <2>1. c \in Keys /\ c \notin {k, Up[k]} /\ news[c] = <<>>
    BY <1>2 DEF KeysInv, RegistryTypeOK
  <2>2. kept[c] = ListKey(c)
    BY <2>1 DEF KeysInv, KeptInv
  <2>3. k \notin Subkeys(c)
    BY <2>1 DEF Subkeys
  <2>4. c = Top => k # Top
    BY <2>1
  <2>5. QED
    BY <1>3, <2>2, <2>3, <2>4 DEF ListKey
<1>8. QED
  BY <1>4, <1>5, <1>6, <1>7 DEF KeysInv

LEMMA DeleteKeyKeeps ==
    ASSUME RWAssumption, KeysInv, NEW k \in Keys, DeleteKey(k), phase' = phase
    PROVE  KeysInv'
<1> DEFINE told == [c \in (Within(k) \cap hive) \cup {Up[k]} |->
                      IF c \in Within(k) THEN "delete" ELSE "change"]
<1>1. Report(told) /\ Top \in Keys /\ RegistryTypeOK /\ Up[k] \in Keys /\ Within(k) \subseteq Keys
  BY DEF DeleteKey, KeysInv, RWAssumption, Within
<1>2. /\ news' \in [Keys -> Seq({"add", "change", "delete"})]
      /\ \A c \in Keys : c \notin followed \cap ((Within(k) \cap hive) \cup {Up[k]})
                           => news'[c] = news[c]
      /\ \A c \in followed \cap ((Within(k) \cap hive) \cup {Up[k]}) :
           news'[c] # <<>> /\ (c \notin Within(k) => Last(news'[c]) = "change")
      /\ \A c \in Keys : news[c] # <<>> => news'[c] # <<>>
  <2>1. /\ DOMAIN told = (Within(k) \cap hive) \cup {Up[k]}
        /\ \A c \in DOMAIN told : told[c] = IF c \in Within(k) THEN "delete" ELSE "change"
    OBVIOUS
  <2> HIDE DEF told
  <2>2. QED
    BY <1>1, <2>1, ReportsAppend
<1>3. /\ UNCHANGED <<kept, followed, notifying, values>>
      /\ hive' = hive \ Within(k) /\ k \in hive
      /\ entry' = IF k = Top THEN None ELSE entry
  BY DEF DeleteKey
<1>4. RegistryTypeOK' /\ SilentInv' /\ ValueInv' /\ PhaseInv'
  BY <1>2, <1>3 DEF KeysInv, RegistryTypeOK, SilentInv, ValueInv, PhaseInv
<1>5. HiveInv' /\ FollowedInv'
  BY <1>2, <1>3, Tree DEF KeysInv, RegistryTypeOK, HiveInv, FollowedInv
<1>6. LastInv'
  BY <1>2, <1>3 DEF KeysInv, RegistryTypeOK, LastInv
<1>7. KeptInv'
  <2> SUFFICES ASSUME NEW c \in followed, news'[c] = <<>> PROVE kept[c] = ListKey(c)'
    BY <1>3 DEF KeptInv
  <2>1. c \in Keys /\ c \notin (Within(k) \cap hive) \cup {Up[k]} /\ news[c] = <<>>
    BY <1>2 DEF KeysInv, RegistryTypeOK
  <2>2. kept[c] = ListKey(c)
    BY <2>1 DEF KeysInv, KeptInv
  <2>3. Subkeys(c) \cap hive \cap Within(k) = {}
    <3> SUFFICES ASSUME NEW e \in Subkeys(c), e \in hive, e \in Within(k) PROVE FALSE
      OBVIOUS
    <3>1. e \in Keys /\ e # Top /\ Up[e] = c
      BY DEF Subkeys
    <3>2. e # k
      BY <2>1, <3>1
    <3>3. c \in Within(k)
      BY <3>1, <3>2, Tree
    <3>4. c \in hive
      BY <3>1 DEF KeysInv, HiveInv
    <3>5. QED
      BY <2>1, <3>3, <3>4
  <2>4. c = Top => (Top \in hive' <=> Top \in hive) /\ k # Top
    BY <1>3, <2>1, Tree
  <2>5. QED
    BY <1>3, <2>2, <2>3, <2>4 DEF ListKey
<1>8. QED
  BY <1>4, <1>5, <1>6, <1>7 DEF KeysInv

LEMMA StartKeysKeeps ==
    ASSUME RWAssumption, KeysInv, StartKeys, followed = {}, phase' = "running"
    PROVE  KeysInv'
<1>1. Reached(Top) \subseteq Keys /\ Top \in Reached(Top) /\ Top \in Keys
  BY Tree DEF Reached, Within, RWAssumption
<1>2. /\ followed' = Reached(Top)
      /\ kept' = [k \in Keys |-> IF k \in Reached(Top) THEN ListKey(k) ELSE kept[k]]
      /\ values' = ListKey(Top).value /\ UNCHANGED <<hive, entry, news, notifying>>
  <2>1. (UNION {Reached(k) : k \in {Top}}) \ followed = Reached(Top)
    OBVIOUS
  <2>2. QED
    BY <2>1 DEF StartKeys, Follow
<1>3. \A k \in Keys : ListKey(k) \in KeyState /\ ListKey(k)' = ListKey(k)
  BY <1>2, ListsAreStates DEF KeysInv, ListKey
<1>4. RegistryTypeOK' /\ LastInv' /\ HiveInv' /\ SilentInv' /\ PhaseInv'
  <2>1. values' \in Folders \cup {None}
    BY <1>1, <1>2, <1>3 DEF KeyState
  <2>2. QED
    BY <1>1, <1>2, <1>3, <2>1 DEF KeysInv, RegistryTypeOK, LastInv, HiveInv, SilentInv, PhaseInv
<1>5. KeptInv' /\ ValueInv'
  BY <1>1, <1>2, <1>3 DEF KeptInv, ValueInv
<1>6. FollowedInv'
  BY <1>1, <1>2, ReachedCloses DEF KeysInv, RegistryTypeOK, FollowedInv
<1>7. QED
  BY <1>4, <1>5, <1>6 DEF KeysInv

LEMMA StopKeysKeeps ==
    ASSUME RWAssumption, KeysInv, StopKeys
    PROVE  KeysInv'
<1>1. Top \in Keys /\ Blank \in KeyState
  BY DEF RWAssumption, Blank, KeyState
<1>2. QED
  BY <1>1 DEF StopKeys, KeysInv, RegistryTypeOK, KeptInv, FollowedInv, LastInv, HiveInv, SilentInv,
     ValueInv, PhaseInv

LEMMA NotifyKeysKeeps ==
    ASSUME RWAssumption, KeysInv, NotifyKeys, phase' = phase
    PROVE  KeysInv'
<1>1. Top \in Keys /\ (Top \in followed => kept[Top].value \in Folders \cup {None})
  BY DEF RWAssumption, KeysInv, RegistryTypeOK, KeyState
<1>2. UNCHANGED <<hive, entry, kept, followed, news>>
  BY DEF NotifyKeys
<1>3. RegistryTypeOK' /\ FollowedInv' /\ LastInv' /\ HiveInv' /\ SilentInv' /\ ValueInv' /\ PhaseInv'
  BY <1>1 DEF NotifyKeys, KeysInv, RegistryTypeOK, FollowedInv, LastInv, HiveInv, SilentInv,
     ValueInv, PhaseInv
<1>4. KeptInv'
  BY <1>2 DEF KeysInv, KeptInv, ListKey
<1>5. QED
  BY <1>3, <1>4 DEF KeysInv

LEMMA TailKeepsLast ==
    ASSUME NEW S, NEW s \in Seq(S), s # <<>>
    PROVE  /\ Tail(s) \in Seq(S)
           /\ Tail(s) # <<>> => Last(Tail(s)) = Last(s)
           /\ Tail(s) = <<>> => Head(s) = Last(s)
<1>1. Len(s) \in Nat \ {0} /\ Tail(s) \in Seq(S) /\ Len(Tail(s)) = Len(s) - 1 /\ Head(s) = s[1]
  OBVIOUS
<1>2. Tail(s) # <<>> => Len(s) - 1 \in 1..Len(Tail(s)) /\ Tail(s)[Len(s) - 1] = s[Len(s)]
  BY <1>1
<1>3. Tail(s) = <<>> => Len(s) = 1
  <2> SUFFICES ASSUME Tail(s) = <<>> PROVE Len(s) = 1
    OBVIOUS
  <2>1. PICK t : t = Tail(s)
    OBVIOUS
  <2>2. t = <<>> => Len(t) = 0
    OBVIOUS
  <2>3. QED
    BY <1>1, <2>1, <2>2
<1>4. QED
  BY <1>1, <1>2, <1>3 DEF Last

\* A KeyWatcher reads its key again: what it drops lies beneath a key that is gone, or
\* that will be heard of again; what it adds comes with all that lies beneath it.
LEMMA HearKeyKeeps ==
    ASSUME RWAssumption, KeysInv, NEW k \in Keys, HearKey(k), phase' = phase
    PROVE  KeysInv'
<1> DEFINE now == ListKey(k)
           type == Head(news[k])
           gone == IF type = "delete" THEN (Within(k) \ {k}) \cap followed ELSE {}
           fresh == IF type # "delete" /\ Level[k] < KeyDepth
                    THEN (UNION {Reached(c) : c \in now.subkeys \ followed}) \ followed ELSE {}
<1>1. /\ news[k] # <<>> /\ k \in followed
      /\ followed' = (followed \ gone) \cup fresh
      /\ kept' = [c \in Keys |-> IF c = k THEN now
                                 ELSE IF c \in gone THEN Blank
                                 ELSE IF c \in fresh THEN ListKey(c) ELSE kept[c]]
      /\ news' = [c \in Keys |-> IF c = k THEN Tail(news[k])
                                 ELSE IF c \in gone THEN <<>> ELSE news[c]]
      /\ notifying' = (notifying \/ now # kept[k])
      /\ UNCHANGED <<hive, entry, values>>
  BY DEF HearKey
<1>2. /\ Tail(news[k]) \in Seq({"add", "change", "delete"})
      /\ Tail(news[k]) # <<>> => Last(Tail(news[k])) = Last(news[k])
      /\ Tail(news[k]) = <<>> => type = Last(news[k])
  BY <1>1, TailKeepsLast DEF KeysInv, RegistryTypeOK
<1>3. /\ gone \subseteq followed \ {k} /\ gone \subseteq Within(k)
      /\ gone # {} => gone = (Within(k) \ {k}) \cap followed /\ fresh = {} /\ type = "delete"
  OBVIOUS
<1>4. /\ now.subkeys \subseteq Keys \ {Top}
      /\ \A c \in Keys : c \in now.subkeys <=>
           c \in hive /\ c # Top /\ Up[c] = k /\ (k = Top => c \in Shown)
  BY DEF ListKey, Subkeys
<1>5. \A x : x \in fresh <=> /\ type # "delete" /\ Level[k] < KeyDepth /\ x \notin followed
                             /\ \E c \in now.subkeys \ followed : x \in Reached(c)
  <2> HIDE DEF now, type
  <2>1. QED
    BY DEF fresh
<1> HIDE DEF fresh
<1>6. fresh \subseteq Keys \ followed /\ Top \notin fresh /\ k \notin fresh
  <2>1. \A c \in now.subkeys : Reached(c) \subseteq Keys /\ Top \notin Reached(c)
    BY <1>4, Tree DEF Reached, Within, RWAssumption
  <2>2. QED
    BY <1>1, <1>5, <2>1
<1>7. /\ followed \subseteq Keys /\ kept \in [Keys -> KeyState] /\ Blank \in KeyState
      /\ \A c \in Keys : ListKey(c) \in KeyState /\ ListKey(c)' = ListKey(c)
      /\ news \in [Keys -> Seq({"add", "change", "delete"})]
  BY <1>1, ListsAreStates DEF KeysInv, RegistryTypeOK, ListKey, Blank, KeyState
<1>8. Top \notin gone /\ Top \in Keys
  <2>1. Top \in Keys
    BY DEF RWAssumption
  <2>2. Top \in Within(k) => k = Top
    BY <2>1, Tree
  <2>3. QED
    BY <1>3, <2>1, <2>2
<1>9. ASSUME NEW c \in now.subkeys \ followed, type # "delete", Level[k] < KeyDepth
      PROVE  c \in fresh
  BY <1>4, <1>9, <1>5, Tree DEF Reached
<1>10. ASSUME NEW c \in fresh, NEW e \in hive \ {Top}, e \in Keys, Up[e] = c, Level[e] <= KeyDepth,
             e \notin followed
      PROVE  e \in fresh
  <2>1. PICK b \in now.subkeys \ followed : c \in Reached(b)
    BY <1>5
  <2>2. c # Top /\ b \in Keys
    BY <1>4, <1>6
  <2>3. e \in Reached(b)
    BY <1>10, <2>1, <2>2, ReachedCloses
  <2>4. QED
    BY <1>10, <1>5, <2>1, <2>3
<1> HIDE DEF now, type, gone
<1>11. RegistryTypeOK'
  <2>1. kept' \in [Keys -> KeyState] /\ notifying' \in BOOLEAN
    BY <1>1, <1>7 DEF now, KeysInv, RegistryTypeOK
  <2>2. news' \in [Keys -> Seq({"add", "change", "delete"})]
    <3>1. \A c \in Keys : news'[c] \in Seq({"add", "change", "delete"})
      BY <1>1, <1>2, <1>7
    <3>2. QED
      BY <1>1, <3>1
  <2>3. QED
    BY <1>1, <1>6, <1>7, <2>1, <2>2 DEF KeysInv, RegistryTypeOK
<1>12. KeptInv'
  <2> SUFFICES ASSUME NEW c \in followed', news'[c] = <<>> PROVE kept'[c] = ListKey(c)
    BY <1>7, <1>11 DEF KeptInv, RegistryTypeOK
  <2>1. c \in Keys
    BY <1>11 DEF RegistryTypeOK
  <2>2. CASE c = k
    BY <1>1, <2>2 DEF now
  <2>3. CASE c # k /\ c \in fresh
    BY <1>1, <1>3, <1>6, <2>1, <2>3
  <2>4. CASE c # k /\ c \notin fresh
    BY <1>1, <2>1, <2>4 DEF KeysInv, KeptInv
  <2>5. QED
    BY <2>2, <2>3, <2>4
<1>13. FollowedInv'
  <2> SUFFICES ASSUME NEW c \in hive \ {Top}, Up[c] \in followed', Level[c] <= KeyDepth,
                      Up[c] = Top => c \in Shown, c \notin followed', news'[Up[c]] = <<>>
               PROVE  FALSE
    BY <1>1 DEF FollowedInv
  <2>1. c \in Keys /\ Up[c] \in Keys /\ Level[c] = Level[Up[c]] + 1 /\ Level[Up[c]] \in Nat
    BY Tree, LevelIsDefined DEF KeysInv, RegistryTypeOK
  <2>2. CASE Up[c] \in fresh
    BY <1>1, <1>3, <1>10, <2>1, <2>2
  <2>3. CASE Up[c] = k
    <3>1. Tail(news[k]) = <<>> /\ type = Last(news[k])
      BY <1>1, <1>2, <2>3
    <3>2. type # "delete"
      <4>1. k \in hive
        BY <2>3 DEF KeysInv, HiveInv
      <4>2. QED
        BY <1>1, <3>1, <4>1 DEF KeysInv, LastInv
    <3>3. c \in now.subkeys /\ c \notin followed
      BY <1>1, <1>3, <1>4, <2>1, <2>3, <3>2
    <3>4. Level[k] + 1 <= KeyDepth /\ Level[k] < KeyDepth
      BY <2>1, <2>3, RWAssumption DEF RWAssumption
    <3>5. QED
      BY <1>1, <1>9, <3>2, <3>3, <3>4
  <2>4. CASE Up[c] # k /\ Up[c] \notin fresh
    <3>1. Up[c] \in followed /\ Up[c] \notin gone /\ news[Up[c]] = <<>>
      BY <1>1, <2>1, <2>4
    <3>2. c \in followed /\ c \in gone
      BY <1>1, <3>1 DEF KeysInv, FollowedInv
    <3>3. c \in Within(k) /\ c # k
      BY <1>3, <3>2
    <3>4. Up[c] \in Within(k)
      BY <2>1, <3>3, Tree
    <3>5. QED
      BY <1>3, <2>4, <3>1, <3>2, <3>4
  <2>5. QED
    BY <2>2, <2>3, <2>4
<1>14. LastInv' /\ HiveInv'
  BY <1>1, <1>2, <1>3 DEF KeysInv, RegistryTypeOK, LastInv, HiveInv
<1>15. SilentInv'
  BY <1>1, <1>3, <1>6, <1>7 DEF KeysInv, SilentInv
<1>16. ValueInv'
  BY <1>1, <1>6, <1>7, <1>8 DEF KeysInv, ValueInv
<1>17. PhaseInv'
  BY <1>1 DEF KeysInv, PhaseInv
<1>18. QED
  BY <1>11, <1>12, <1>13, <1>14, <1>15, <1>16, <1>17 DEF KeysInv

-------------------------------------------------------------------------------
LEMMA KeysStay ==
    ASSUME KeysInv, UNCHANGED keyVars, phase' # "running" => phase # "running"
    PROVE  KeysInv'
<1>1. \A k : ListKey(k)' = ListKey(k)
  BY DEF keyVars, ListKey
<1>2. RegistryTypeOK' /\ FollowedInv' /\ LastInv'
  BY DEF keyVars, KeysInv, RegistryTypeOK, FollowedInv, LastInv
<1>3. KeptInv'
  BY <1>1 DEF keyVars, KeysInv, KeptInv
<1>4. HiveInv' /\ SilentInv' /\ ValueInv'
  BY DEF keyVars, KeysInv, RegistryTypeOK, HiveInv, SilentInv, ValueInv
<1>5. PhaseInv'
  BY DEF keyVars, KeysInv, PhaseInv
<1>6. QED
  BY <1>2, <1>4, <1>3, <1>5 DEF KeysInv

LEMMA NextKeepsKeys ==
    ASSUME RWAssumption, KeysInv, [Next]_allVars
    PROVE  KeysInv'
<1>1. CASE UNCHANGED vars
  BY <1>1, KeysStay DEF vars, engineVars
<1>2. CASE Start
  <2>1. phase # "running" /\ phase' = "running" /\ StartKeys
    BY <1>2 DEF Start
  <2>2. followed = {}
    BY <2>1 DEF KeysInv, PhaseInv
  <2>3. QED
    BY <2>1, <2>2, StartKeysKeeps
<1>3. CASE Stop
  BY <1>3, StopKeysKeeps DEF Stop
<1>4. CASE FailScan
  BY <1>4, KeysStay DEF FailScan
<1>5. CASE \E k \in Keys : HearKey(k) /\ Rest
  BY <1>5, HearKeyKeeps DEF Rest, engineVars
<1>6. CASE RegistryChanged
  BY <1>6, NotifyKeysKeeps DEF RegistryChanged
<1>7. CASE (\E d \in Detectors : Fire(d)) \/ RefreshPaths \/ (\E a \in asks : Rescan(a))
  BY <1>7, KeysStay DEF Fire, RefreshPaths, Rescan
<1>8. CASE (\E s \in stops : StopStep(s)) \/ StopNext
  BY <1>8, KeysStay DEF StopStep, StopNext
<1>9. CASE ScanStale \/ ScanRoot \/ ScanSub \/ ScanNext \/ EndScan
  BY <1>9, KeysStay DEF ScanStale, ScanRoot, ScanSub, ScanNext, EndScan, ScanVars
<1>10. CASE WatchRoot \/ RootWatched \/ (\E n \in scan.here : WatchSub(n))
              \/ (\E c \in scan.coming : SubWatched(c))
  BY <1>10, KeysStay DEF WatchRoot, RootWatched, WatchBeneath, WatchSub, SubWatched, ScanVars
<1>11. CASE (\E w \in Watches : Deliver(w)) \/ (\E x \in drops : Dropped(x))
  BY <1>11, KeysStay DEF Deliver, Dropped, engineVars
<1>12. CASE \E n \in Nodes \cup MovingNodes : MakeDir(n) \/ RemoveDir(n) \/ ToggleItem(n)
  BY <1>12, KeysStay DEF MakeDir, RemoveDir, ToggleItem, Changed, engineVars
<1>13. CASE (\E list \in PathLists : SetPaths(list)) \/ (\E p \in Roots : MoveAnswer(p))
  BY <1>13, KeysStay DEF SetPaths, MoveAnswer, engineVars
<1>14. CASE EditKeys(\/ \E p \in Folders \cup {None} : EditValue(p)
                     \/ \E k \in Keys : AddKey(k) \/ DeleteKey(k))
  BY <1>14, EditValueKeeps, AddKeyKeeps, DeleteKeyKeeps DEF EditKeys, engineVars
<1>15. CASE Works
  BY <1>5, <1>6, <1>7, <1>8, <1>9, <1>10, <1>11, <1>15 DEF Works
<1>16. QED
  BY <1>1, <1>2, <1>3, <1>4, <1>12, <1>13, <1>14, <1>15 DEF Next, Engine, About, allVars

LEMMA KeysBegin ==
    ASSUME RWAssumption, Init
    PROVE  KeysInv
<1>1. RegistryInit /\ phase = "new"
  BY DEF Init, DetectInit
<1>2. RegistryTypeOK
  <2>1. Blank \in KeyState /\ <<>> \in Seq({"add", "change", "delete"})
    BY DEF Blank, KeyState
  <2>2. QED
    BY <1>1, <2>1 DEF RegistryInit, RegistryTypeOK
<1>3. HiveInv
  BY <1>1 DEF RegistryInit, HiveInv, RWAssumption
<1>4. QED
  BY <1>1, <1>2, <1>3, RWAssumption DEF RegistryInit, KeysInv, KeptInv, FollowedInv, LastInv,
     SilentInv, ValueInv, PhaseInv, RWAssumption

\* At rest, from the top of the tree downwards, each key within the depth is followed.
LEMMA KeysMirror ==
    ASSUME RWAssumption, KeysInv
    PROVE  KeysAreMirrored
<1> SUFFICES ASSUME Top \in followed, KeysAtRest
             PROVE  /\ \A k \in followed : kept[k] = ListKey(k)
                    /\ Reached(Top) \subseteq followed
                    /\ notifying \/ values = ListKey(Top).value
  BY DEF KeysAreMirrored
<1>1. \A k \in followed : kept[k] = ListKey(k)
  BY DEF KeysInv, KeptInv, KeysAtRest
<1>2. notifying \/ values = ListKey(Top).value
  BY <1>1 DEF KeysInv, ValueInv
<1>3. Reached(Top) \subseteq followed
  <2> SUFFICES ASSUME NEW k \in Reached(Top), k \notin followed PROVE FALSE
    OBVIOUS
  <2> DEFINE left == {Level[c] : c \in Reached(Top) \ followed}
  <2>1. Reached(Top) \subseteq Keys /\ Top \in Keys
    BY DEF Reached, Within, RWAssumption
  <2>2. left \subseteq Nat /\ left # {}
    BY <2>1, LevelIsDefined
  <2>3. PICK x \in left : \A y \in left : x <= y
    BY <2>2, LeastNumber
  <2>4. PICK c \in Reached(Top) \ followed : x = Level[c]
    BY <2>3
  <2>5. /\ c # Top /\ c \in hive /\ Level[c] <= KeyDepth /\ c \in Within(Top)
        /\ \E a \in Shown \cap Subkeys(Top) : a \in Above[c]
    BY <2>4 DEF Reached
  <2>6. /\ Up[c] \in Keys /\ Up[c] \in Within(Top) /\ Level[c] = Level[Up[c]] + 1
        /\ Level[Up[c]] \in Nat /\ Above[c] = {c} \cup Above[Up[c]]
    BY <2>1, <2>4, <2>5, Tree, AboveIsDefined, LevelIsDefined
  <2>7. PICK a \in Shown \cap Subkeys(Top) : a \in Above[c]
    BY <2>5
  <2>8. Up[c] = Top => a = c
    BY <2>1, <2>6, <2>7, AboveIsDefined DEF Subkeys
  <2>9. Up[c] # Top => a \in Above[Up[c]]
    BY <2>6, <2>7 DEF Subkeys
  <2>10. Up[c] \in hive
    BY <2>5 DEF KeysInv, HiveInv
  <2>11. Up[c] \in Reached(Top)
    <3>1. Level[Up[c]] <= KeyDepth
      BY <2>5, <2>6 DEF RWAssumption
    <3>2. QED
      BY <2>6, <2>7, <2>9, <2>10, <3>1 DEF Reached
  <2>12. Up[c] \in followed
    <3>1. ~(Level[c] <= Level[Up[c]])
      BY <2>6
    <3>2. Level[Up[c]] \notin left
      BY <2>3, <2>4, <3>1
    <3>3. QED
      BY <2>11, <3>2
  <2>13. Up[c] = Top => c \in Shown
    BY <2>7, <2>8
  <2>14. QED
    BY <2>4, <2>5, <2>12, <2>13 DEF KeysInv, FollowedInv, KeysAtRest
<1>4. QED
  BY <1>1, <1>2, <1>3

\* While the key is followed and nothing is left to report, every KeyWatcher holds what its key
\* holds, every key within the depth that the filter lets through has one, and unless a notify()
\* is due the value that was gathered is the registry's: for any tree of keys, any depth and
\* filter, any number of changes, and however late they are reported
\* (registry-watcher.js:84, :136, :301).
THEOREM KeysFollowed ==
    ASSUME RWAssumption
    PROVE  Spec => []KeysAreMirrored
<1>1. RWAssumption /\ Init => KeysInv
  BY KeysBegin
<1>2. RWAssumption /\ KeysInv /\ [Next]_allVars => KeysInv'
  BY NextKeepsKeys
<1>3. RWAssumption /\ KeysInv => KeysAreMirrored
  BY KeysMirror
<1>4. QED
  BY RWAssumption, <1>1, <1>2, <1>3, PTL DEF Spec

-------------------------------------------------------------------------------
(* The results. *)

\* Induction: what holds of 0, and of the successor of what it holds of, holds.
LEMMA Induction ==
    ASSUME NEW P, 0 \in P, \A n \in Nat : n \in P => n + 1 \in P
    PROVE  \A n \in Nat : n \in P
<1> SUFFICES ASSUME Nat \ P # {} PROVE FALSE
  OBVIOUS
<1>1. PICK x \in Nat \ P : \A y \in Nat \ P : x <= y
  BY LeastNumber
<1>2. x # 0 /\ x - 1 \in Nat
  BY <1>1
<1>3. x - 1 \in P
  BY <1>1, <1>2
<1>4. QED
  BY <1>1, <1>2, <1>3

\* What happens to a file.
Occurrence == [file : Nodes, action : {"add", "change", "delete"}]

\* h[i] is what watch w hears of the first i of what is told.
IsHeard(h, w, told) ==
    h = [i \in 0..Len(told) |->
           IF i = 0 THEN <<>>
           ELSE IF Sees(w, told[i].file, told[i].action) THEN Append(h[i - 1], told[i])
           ELSE h[i - 1]]

LEMMA HeardExists ==
    ASSUME NEW w, NEW told, Len(told) \in Nat
    PROVE  \E h : IsHeard(h, w, told)
<1> DEFINE To(f, i) == IF i = 0 THEN <<>>
                       ELSE IF Sees(w, told[i].file, told[i].action) THEN Append(f[i - 1], told[i])
                       ELSE f[i - 1]
           P == {n \in Nat : \E f : f = [i \in 0..n |-> To(f, i)]}
<1>1. 0 \in P
  <2> DEFINE f == [i \in 0..0 |-> <<>>]
  <2>1. f = [i \in 0..0 |-> To(f, i)]
    OBVIOUS
  <2>2. QED
    BY <2>1
<1>2. ASSUME NEW n \in Nat, n \in P PROVE n + 1 \in P
  <2>1. PICK f : f = [i \in 0..n |-> To(f, i)]
    BY <1>2
  <2> DEFINE g == [i \in 0..n+1 |-> IF i = n + 1 THEN To(f, i) ELSE f[i]]
             k == [i \in 0..n+1 |-> To(g, i)]
  <2>2. ASSUME NEW i \in 0..n+1 PROVE g[i] = To(g, i)
    <3>1. CASE i = 0
      BY <2>1, <3>1
    <3>2. CASE i # 0
      <4>1. i - 1 \in 0..n+1 /\ i - 1 # n + 1
        BY <3>2
      <4>2. g[i-1] = f[i-1]
        BY <4>1
      <4>3. g[i] = To(f, i)
        <5>1. CASE i = n + 1
          BY <5>1
        <5>2. CASE i # n + 1
          <6>1. i \in 0..n /\ g[i] = f[i]
            BY <5>2
          <6> HIDE DEF To
          <6>2. QED
            BY <2>1, <6>1
        <5>3. QED
          BY <5>1, <5>2
      <4>4. QED
        BY <3>2, <4>2, <4>3
    <3>3. QED
      BY <3>1, <3>2
  <2>3. g = k
    <3> HIDE DEF To
    <3>1. g = [i \in 0..n+1 |-> g[i]]
      OBVIOUS
    <3> HIDE DEF g
    <3>2. QED
      BY <2>2, <3>1
  <2> HIDE DEF To, g
  <2>4. QED
    BY <2>3
<1>3. Len(told) \in P
  BY <1>1, <1>2, Induction
<1>4. QED
  BY <1>3 DEF IsHeard

\* A watch is told all that it sees, and nothing else.
LEMMA HeardIs ==
    ASSUME NEW S, NEW told \in Seq(S), NEW w
    PROVE  /\ Heard(w, told) \in Seq(S)
           /\ \A i \in DOMAIN told : Sees(w, told[i].file, told[i].action) =>
                \E j \in DOMAIN Heard(w, told) : Heard(w, told)[j] = told[i]
<1> DEFINE h == CHOOSE g : IsHeard(g, w, told)
           m == Len(told)
           sees(i) == Sees(w, told[i].file, told[i].action)
<1>1. m \in Nat /\ DOMAIN told = 1..m /\ \A i \in 1..m : told[i] \in S
  OBVIOUS
<1>2. Heard(w, told) = h[m]
  BY DEF Heard, IsHeard
<1>3. \E g : IsHeard(g, w, told)
  BY <1>1, HeardExists
<1>4. IsHeard(h, w, told)
  BY <1>3
<1> HIDE DEF h
<1>5. h[0] = <<>> /\ \A i \in 1..m : h[i] = IF sees(i) THEN Append(h[i-1], told[i]) ELSE h[i-1]
  <2>1. h = [i \in 0..m |-> IF i = 0 THEN <<>>
                            ELSE IF sees(i) THEN Append(h[i-1], told[i]) ELSE h[i-1]]
    BY <1>4 DEF IsHeard
  <2>2. m \in Nat
    BY <1>1
  <2> HIDE DEF sees, m
  <2>3. 0 \in 0..m /\ h[0] = <<>>
    BY <2>1, <2>2
  <2>4. ASSUME NEW i \in 1..m
        PROVE  h[i] = IF sees(i) THEN Append(h[i-1], told[i]) ELSE h[i-1]
    <3>1. i \in 0..m /\ i # 0
      BY <2>2
    <3>2. QED
      BY <2>1, <3>1
  <2>5. QED
    BY <2>3, <2>4
<1> HIDE DEF sees, m
<1> DEFINE Good(i) == /\ h[i] \in Seq(S)
                      /\ \A l \in 1..i : sees(l) => \E j \in DOMAIN h[i] : h[i][j] = told[l]
           P == {i \in Nat : i <= m => Good(i)}
<1>6. 0 \in P
  <2>1. <<>> \in Seq(S) /\ \A l \in 1..0 : FALSE
    OBVIOUS
  <2>2. h[0] = <<>>
    BY <1>5
  <2>3. h[0] \in Seq(S)
    BY <2>1, <2>2
  <2>4. Good(0)
    BY <2>1, <2>3
  <2> HIDE DEF Good
  <2>5. QED
    BY <2>4
<1>7. ASSUME NEW i \in Nat, i \in P PROVE i + 1 \in P
  <2> SUFFICES ASSUME i + 1 <= m PROVE Good(i + 1)
    OBVIOUS
  <2>1. Good(i) /\ i + 1 \in 1..m
    BY <1>1, <1>7
  <2>2. h[i+1] = IF sees(i+1) THEN Append(h[i], told[i+1]) ELSE h[i]
    BY <1>5, <2>1
  <2>3. CASE ~sees(i+1)
    BY <2>1, <2>2, <2>3
  <2>4. CASE sees(i+1)
    <3>1. PICK s \in Seq(S) : s = h[i]
      BY <2>1
    <3>2. PICK e \in S : e = told[i+1]
      BY <1>1, <2>1
    <3>3. h[i+1] = Append(s, e)
      BY <2>2, <2>4, <3>1, <3>2
    <3>4. /\ Append(s, e) \in Seq(S) /\ Len(s) + 1 \in DOMAIN Append(s, e)
          /\ Append(s, e)[Len(s) + 1] = e
          /\ \A j \in DOMAIN s : j \in DOMAIN Append(s, e) /\ Append(s, e)[j] = s[j]
      OBVIOUS
    <3>5. ASSUME NEW l \in 1..i+1, sees(l) PROVE \E j \in DOMAIN h[i+1] : h[i+1][j] = told[l]
      <4>1. CASE l = i + 1
        BY <3>2, <3>3, <3>4, <4>1
      <4>2. CASE l # i + 1
        BY <2>1, <3>1, <3>3, <3>4, <3>5, <4>2
      <4>3. QED
        BY <4>1, <4>2
    <3>6. QED
      BY <3>3, <3>4, <3>5
  <2>5. QED
    BY <2>3, <2>4
<1> HIDE DEF Good
<1>8. m \in P
  BY <1>1, <1>6, <1>7, Induction
<1>9. Good(m)
  BY <1>1, <1>8
<1>10. QED
  BY <1>1, <1>2, <1>9 DEF Good, sees

\* A finite set in some order.
LEMMA SetToSeqIs ==
    ASSUME NEW S, IsFiniteSet(S)
    PROVE  SetToSeq(S) \in Seq(S) /\ ToSet(SetToSeq(S)) = S
<1> DEFINE c == Cardinality(S)
<1>1. PICK n \in Nat : ExistsBijection(1..n, S)
  BY FS_NatBijection
<1>2. c = n
  BY <1>1, FS_CountingElements
<1>3. PICK b \in [1..c -> S] : IsInjective(b)
  BY <1>1, <1>2 DEF ExistsBijection, Bijection, Injection
<1>4. SetToSeq(S) \in [1..c -> S] /\ IsInjective(SetToSeq(S))
  <2>1. SetToSeq(S) = CHOOSE f \in [1..c -> S] : IsInjective(f)
    BY DEF SetToSeq
  <2> HIDE DEF c
  <2>2. QED
    BY <1>3, <2>1
<1>5. SetToSeq(S) \in Injection(1..c, S)
  BY <1>4 DEF Injection
<1>6. IsFiniteSet(1..c) /\ Cardinality(1..c) = c
  BY <1>2, FS_Interval
<1>7. SetToSeq(S) \in Surjection(1..c, S)
  BY <1>5, <1>6, FS_Injection
<1>8. c \in Nat
  BY <1>2
<1> HIDE DEF c
<1>9. SetToSeq(S) \in Seq(S) /\ DOMAIN SetToSeq(S) = 1..c
  BY <1>4, <1>8
<1>10. \A x \in S : \E i \in 1..c : SetToSeq(S)[i] = x
  BY <1>7 DEF Surjection
<1>11. QED
  BY <1>4, <1>9, <1>10 DEF ToSet

\* A directory is in one that exists, and an item in a directory.
HomesInv == items \subseteq disk /\ disk \subseteq Nodes /\ \A n \in disk : Parent[n] \in disk

\* What the watches have to say.
EventsInv == \A w \in Watches : events[w] \in Seq(Occurrence)

\* Something is under way that a scan will follow.
Alarming(w) == \E i \in DOMAIN events[w] : ~Leaves(w, events[w][i])
Alarmed ==
    \/ phase # "running"
    \/ \E a \in asks : a.by # "refresh"
    \/ timer # {} \/ drops # {} \/ \E s \in stops : s.by = "event"
    \/ \E w \in Watches : Alarming(w)

\* The last scan, or the one that is under way, knows of the paths, and of all that has
\* changed on the disk.
Quiet == ~Alarmed /\ ~missed
Fresh == Quiet /\ ~unseen

-------------------------------------------------------------------------------
LEMMA ToldIsSeq ==
    ASSUME DEAssumption, HomesInv, NEW n \in Nodes, NEW action \in {"add", "change", "delete"}
    PROVE  Event(n, action) \in Seq(Occurrence) /\ Gone(n) \in Seq(Occurrence)
<1>1. Event(n, action) \in Seq(Occurrence) /\ Event(n, "delete") \in Seq(Occurrence)
  BY DEF Event, Occurrence
<1> DEFINE S == Subdirs(n) \cap disk
           q == SetToSeq(S)
           dels == [i \in DOMAIN q |-> [file |-> q[i], action |-> "delete"]]
<1>2. S \subseteq Nodes /\ IsFiniteSet(S)
  <2>1. S \subseteq Nodes
    BY DEF Subdirs
  <2>2. IsFiniteSet(Nodes)
    BY DEF DEAssumption
  <2>3. QED
    BY <2>1, <2>2, FS_Subset
<1> HIDE DEF S
<1>3. q \in Seq(S)
  BY <1>2, SetToSeqIs
<1> HIDE DEF q
<1>4. dels \in Seq(Occurrence)
  <2>1. DOMAIN q = 1..Len(q) /\ Len(q) \in Nat /\ \A i \in DOMAIN q : q[i] \in Nodes
    BY <1>2, <1>3
  <2>2. dels \in [1..Len(q) -> Occurrence]
    BY <2>1 DEF Occurrence
  <2>3. QED
    BY <2>1, <2>2
<1>5. Gone(n) = dels \o Event(n, "delete")
  BY DEF Gone, S, q
<1>6. QED
  BY <1>1, <1>4, <1>5

\* What is told of a change reaches the watches that see it.
LEMMA TellKeeps ==
    ASSUME EventsInv, DOMAIN events = Watches, NEW told \in Seq(Occurrence), Tell(told),
           UNCHANGED <<watchOf, dirOf>>
    PROVE  /\ EventsInv'
           /\ \A w \in Watches : Alarming(w) \/ (w \in open /\ ActsOn(w, told)) => Alarming(w)'
<1> SUFFICES ASSUME NEW w \in Watches
             PROVE  /\ events'[w] \in Seq(Occurrence)
                    /\ Alarming(w) \/ (w \in open /\ ActsOn(w, told)) => Alarming(w)'
  BY DEF EventsInv
<1>1. events[w] \in Seq(Occurrence)
  BY DEF EventsInv
<1>2. CASE w \notin open
  BY <1>1, <1>2 DEF Tell, Alarming, Leaves
<1>3. CASE w \in open
  <2>1. PICK s \in Seq(Occurrence), h \in Seq(Occurrence) : s = events[w] /\ h = Heard(w, told)
    BY <1>1, HeardIs
  <2>2. events'[w] = s \o h
    BY <1>3, <2>1 DEF Tell
  <2>3. s \o h \in Seq(Occurrence)
    OBVIOUS
  <2>4. ASSUME ActsOn(w, told) PROVE Alarming(w)'
    <3>1. PICK i \in DOMAIN told : Sees(w, told[i].file, told[i].action) /\ ~Leaves(w, told[i])
      BY <2>4 DEF ActsOn
    <3>2. PICK j \in DOMAIN h : h[j] = told[i]
      BY <2>1, <3>1, HeardIs
    <3>3. Len(s) + j \in DOMAIN (s \o h) /\ (s \o h)[Len(s) + j] = told[i]
      BY <3>2
    <3>4. ~Leaves(w, told[i])'
      BY <3>1 DEF Leaves
    <3>5. QED
      BY <2>2, <3>3, <3>4 DEF Alarming
  <2>5. ASSUME Alarming(w) PROVE Alarming(w)'
    <3>1. PICK i \in DOMAIN s : ~Leaves(w, s[i])
      BY <2>1, <2>5 DEF Alarming
    <3>2. i \in DOMAIN (s \o h) /\ (s \o h)[i] = s[i]
      OBVIOUS
    <3>3. ~Leaves(w, s[i])'
      BY <3>1 DEF Leaves
    <3>4. QED
      BY <2>2, <3>2, <3>3 DEF Alarming
  <2>6. QED
    BY <2>2, <2>3, <2>4, <2>5
<1>4. QED
  BY <1>2, <1>3

\* A change of the disk: somebody hears of it, or nobody does.
LEMMA ChangedAlarms ==
    ASSUME WatchesInv, EventsInv, NEW told \in Seq(Occurrence), Changed(told)
    PROVE  EventsInv' /\ (Quiet' => Quiet) /\ ~Fresh'
<1>1. /\ Tell(told) /\ UNCHANGED <<watchOf, dirOf, open>>
      /\ UNCHANGED <<phase, asks, timer, drops, stops, missed>>
      /\ unseen' = (unseen \/ ~\E w \in open : ActsOn(w, told))
  BY DEF Changed, detectorVars, engineVars
<1>2. DOMAIN events = Watches /\ open \subseteq Watches
  BY DEF WatchesInv, ShapeInv, KindsInv
<1>3. /\ EventsInv'
      /\ \A w \in Watches : Alarming(w) \/ (w \in open /\ ActsOn(w, told)) => Alarming(w)'
  BY <1>1, <1>2, TellKeeps
<1>4. Alarmed => Alarmed'
  BY <1>1, <1>3 DEF Alarmed
<1>5. (\E w \in open : ActsOn(w, told)) => Alarmed'
  BY <1>2, <1>3 DEF Alarmed
<1>6. QED
  BY <1>1, <1>3, <1>4, <1>5 DEF Fresh, Quiet

LEMMA DiskAlarms ==
    ASSUME DEAssumption, WatchesInv, EventsInv, HomesInv,
           NEW n \in Nodes, MakeDir(n) \/ RemoveDir(n) \/ ToggleItem(n)
    PROVE  EventsInv' /\ HomesInv' /\ (Quiet' => Quiet) /\ ~Fresh'
<1>1. PICK told \in Seq(Occurrence) : Changed(told)
  BY ToldIsSeq DEF MakeDir, RemoveDir, ToggleItem
<1>2. EventsInv' /\ (Quiet' => Quiet) /\ ~Fresh'
  BY <1>1, ChangedAlarms
<1>3. CASE MakeDir(n)
  BY <1>2, <1>3 DEF MakeDir, HomesInv
<1>4. CASE ToggleItem(n)
  BY <1>2, <1>4 DEF ToggleItem, HomesInv
<1>5. CASE RemoveDir(n)
  <2> DEFINE gone == {n} \cup IF n \in Roots THEN Subdirs(n) ELSE {}
  <2>1. disk' = disk \ gone /\ items' = items \ gone
    BY <1>5 DEF RemoveDir
  <2>2. ASSUME NEW m \in disk \ gone PROVE Parent[m] \in disk \ gone
    <3>1. m \in Nodes /\ Parent[m] \in disk /\ Parent[m] \in Roots /\ m \notin gone
      BY DEF HomesInv, DEAssumption
    <3>2. Parent[m] # n
      BY <3>1 DEF Roots, Subdirs
    <3>3. QED
      BY <3>1, <3>2 DEF Subdirs
  <2>3. QED
    BY <1>2, <2>1, <2>2 DEF HomesInv
<1>6. QED
  BY <1>3, <1>4, <1>5

\* What is under way stays so.
LEMMA AlarmsLast ==
    ASSUME WatchesInv, phase' = phase, \A a \in asks : a.by # "refresh" => a \in asks',
           timer \subseteq timer', drops \subseteq drops',
           \A s \in stops : s.by = "event" => \E r \in stops' : r.by = "event",
           dirOf' = dirOf,
           \A w \in Watches : /\ events'[w] = events[w]
                              /\ events[w] # <<>> => watchOf'[w] = watchOf[w],
           missed' = missed, unseen' = unseen
    PROVE  (Quiet' => Quiet) /\ (Fresh' => Fresh)
<1>1. \A w \in Watches : Alarming(w) => Alarming(w)'
  <2> SUFFICES ASSUME NEW w \in Watches, Alarming(w) PROVE Alarming(w)'
    OBVIOUS
  <2>1. PICK i \in DOMAIN events[w] : ~Leaves(w, events[w][i])
    BY DEF Alarming
  <2>2. events[w] # <<>>
    BY <2>1
  <2>3. events'[w] = events[w] /\ watchOf'[w] = watchOf[w]
    BY <2>2
  <2>4. QED
    BY <2>1, <2>3 DEF Alarming, Leaves
<1>2. Alarmed => Alarmed'
  BY <1>1 DEF Alarmed
<1>3. QED
  BY <1>2 DEF Fresh, Quiet

\* Steps that scan() will hear of, or that make the results unreliable.
LEMMA Alarms ==
    ASSUME WatchesInv, EventsInv, HomesInv,
           \/ RegistryChanged \/ Start \/ Stop \/ StopNext \/ FailScan
           \/ \E d \in Detectors : Fire(d)
           \/ \E x \in drops : Dropped(x)
           \/ \E list \in PathLists : SetPaths(list)
    PROVE  EventsInv' /\ HomesInv' /\ ~Quiet'
<1>1. /\ UNCHANGED <<events, disk, items>>
  BY DEF RegistryChanged, Start, Stop, StopNext, FailScan, Fire, Dropped, SetPaths, watchVars, diskVars
<1>2. EventsInv' /\ HomesInv'
  BY <1>1 DEF EventsInv, HomesInv
<1>3. CASE RegistryChanged
  <2> DEFINE a == [by |-> "registry", paths |-> paths]
  <2>1. a \in asks' /\ a.by # "refresh"
    BY <1>3 DEF RegistryChanged
  <2>2. QED
    BY <1>2, <2>1 DEF Quiet, Alarmed
<1>4. CASE Start
  <2> DEFINE a == [by |-> "start", paths |-> paths]
  <2>1. a \in asks' /\ a.by # "refresh"
    BY <1>4 DEF Start
  <2>2. QED
    BY <1>2, <2>1 DEF Quiet, Alarmed
<1>5. CASE Stop \/ StopNext
  <2>1. phase' # "running"
    BY <1>5 DEF Stop, StopNext
  <2>2. QED
    BY <1>2, <2>1 DEF Quiet, Alarmed
<1>6. CASE FailScan
  BY <1>2, <1>6 DEF FailScan, Quiet
<1>7. CASE \E d \in Detectors : Fire(d)
  <2> DEFINE a == [by |-> "detector", paths |-> paths]
  <2>1. a \in asks' /\ a.by # "refresh"
    BY <1>7 DEF Fire
  <2>2. QED
    BY <1>2, <2>1 DEF Quiet, Alarmed
<1>8. CASE \E x \in drops : Dropped(x)
  <2>1. timer' # {}
    BY <1>8 DEF Dropped
  <2>2. QED
    BY <1>2, <2>1 DEF Quiet, Alarmed
<1>9. CASE \E list \in PathLists : SetPaths(list)
  <2>1. PICK list : SetPaths(list)
    BY <1>9
  <2> DEFINE a == [by |-> "paths", paths |-> list]
  <2>2. a \in asks' /\ a.by # "refresh"
    BY <2>1 DEF SetPaths
  <2>3. QED
    BY <1>2, <2>2 DEF Quiet, Alarmed
<1>10. QED
  BY <1>3, <1>4, <1>5, <1>6, <1>7, <1>8, <1>9

\* Steps that the scan has nothing to do with.
LEMMA StillTrue ==
    ASSUME WatchesInv, EventsInv, HomesInv,
           \/ \E k \in Keys : HearKey(k) /\ Rest
           \/ EditKeys(\/ \E p \in Folders \cup {None} : EditValue(p)
                       \/ \E k \in Keys : AddKey(k) \/ DeleteKey(k))
           \/ \E p \in Roots : MoveAnswer(p)
           \/ RefreshPaths
           \/ UNCHANGED vars
    PROVE  /\ EventsInv' /\ HomesInv' /\ (Quiet' => Quiet) /\ (Fresh' => Fresh)
           /\ UNCHANGED <<disk, items, options, dirOf, detectors, results, scan>>
<1>1. /\ UNCHANGED <<disk, items, options, dirOf, detectors, results, scan, events, watchOf>>
      /\ UNCHANGED <<phase, timer, drops, stops, missed, unseen>> /\ asks \subseteq asks'
  <2>1. CASE \E k \in Keys : HearKey(k) /\ Rest
    BY <2>1 DEF Rest, diskVars, engineVars, detectorVars, watchVars, ghosts
  <2>2. CASE EditKeys(\/ \E p \in Folders \cup {None} : EditValue(p)
                      \/ \E k \in Keys : AddKey(k) \/ DeleteKey(k))
    BY <2>2 DEF EditKeys, engineVars, detectorVars, watchVars, ghosts
  <2>3. CASE \E p \in Roots : MoveAnswer(p)
    BY <2>3 DEF MoveAnswer, engineVars, detectorVars, watchVars, ghosts
  <2>4. CASE RefreshPaths
    BY <2>4 DEF RefreshPaths, diskVars, detectorVars, watchVars, ghosts
  <2>5. CASE UNCHANGED vars
    BY <2>5 DEF vars, diskVars, engineVars, detectorVars, watchVars, ghosts
  <2>6. QED
    BY <2>1, <2>2, <2>3, <2>4, <2>5
<1>2. EventsInv' /\ HomesInv'
  BY <1>1 DEF EventsInv, HomesInv
<1>3. (Quiet' => Quiet) /\ (Fresh' => Fresh)
  BY <1>1, AlarmsLast
<1>4. QED
  BY <1>1, <1>2, <1>3

\* A watch reports, and its listener asks for a scan unless it leaves that to another.
LEMMA DeliverTells ==
    ASSUME WatchesInv, EventsInv, HomesInv, NEW w \in Watches, Deliver(w)
    PROVE  /\ EventsInv' /\ HomesInv' /\ (Quiet' => Quiet) /\ (Fresh' => Fresh)
           /\ UNCHANGED <<disk, items, options, dirOf, detectors, results, scan>>
<1>1. /\ UNCHANGED <<disk, items, options, dirOf, detectors, results, scan, watchOf>>
      /\ UNCHANGED <<phase, asks, missed, unseen>>
      /\ events[w] # <<>> /\ events' = [events EXCEPT ![w] = Tail(@)]
  BY DEF Deliver, diskVars, engineVars
<1>2. DOMAIN events = Watches /\ events[w] \in Seq(Occurrence)
  BY DEF WatchesInv, ShapeInv, KindsInv, EventsInv
<1>3. EventsInv' /\ HomesInv'
  BY <1>1, <1>2 DEF EventsInv, HomesInv
<1>4. CASE Leaves(w, Head(events[w]))
  <2>1. UNCHANGED <<stops, drops, timer>>
    BY <1>4 DEF Deliver
  <2>2. ASSUME NEW v \in Watches, Alarming(v) PROVE Alarming(v)'
    <3>1. PICK i \in DOMAIN events[v] : ~Leaves(v, events[v][i])
      BY <2>2 DEF Alarming
    <3>2. CASE v # w
      BY <1>1, <1>2, <3>1, <3>2 DEF Alarming, Leaves
    <3>3. CASE v = w
      <4>1. PICK s \in Seq(Occurrence) : s = events[w]
        BY <1>2
      <4>2. i # 1 /\ i \in DOMAIN s /\ s # <<>>
        BY <1>1, <1>4, <3>1, <3>3, <4>1
      <4>3. i - 1 \in DOMAIN Tail(s) /\ Tail(s)[i-1] = s[i]
        BY <4>2
      <4>4. events'[w] = Tail(s)
        BY <1>1, <1>2, <4>1
      <4>5. ~Leaves(w, s[i])'
        BY <1>1, <3>1, <3>3, <4>1 DEF Leaves
      <4>6. QED
        BY <3>3, <4>3, <4>4, <4>5 DEF Alarming
    <3>4. QED
      BY <3>2, <3>3
  <2>3. Alarmed => Alarmed'
    BY <1>1, <2>1, <2>2 DEF Alarmed
  <2>4. (Quiet' => Quiet) /\ (Fresh' => Fresh)
    BY <1>1, <2>3 DEF Fresh, Quiet
  <2>5. QED
    BY <1>1, <1>3, <2>4
<1>5. CASE ~Leaves(w, Head(events[w]))
  <2>1. timer' # {} \/ drops' # {} \/ \E s \in stops' : s.by = "event"
    <3>1. \/ timer' = timer \cup {watchOf[w].det}
          \/ StopDetector(watchOf[w].det, "event")
          \/ drops' = drops \cup {[det |-> watchOf[w].det, sub |-> watchOf[w].sub, sid |-> w]}
      BY <1>5 DEF Deliver
    <3> DEFINE s == Stopping(watchOf[w].det, "event")
    <3>2. StopDetector(watchOf[w].det, "event") => s \in stops' /\ s.by = "event"
      BY DEF StopDetector, Stopping
    <3>3. QED
      BY <3>1, <3>2
  <2>2. ~Quiet' /\ ~Fresh'
    BY <2>1 DEF Fresh, Quiet, Alarmed
  <2>3. QED
    BY <1>1, <1>3, <2>2
<1>6. QED
  BY <1>4, <1>5

\* A detector is being stopped: what follows depends on who asked for that.
LEMMA StopStepTells ==
    ASSUME WatchesInv, EventsInv, HomesInv, NEW s \in stops, StopStep(s)
    PROVE  /\ EventsInv' /\ HomesInv' /\ (Quiet' => Quiet) /\ (Fresh' => Fresh)
           /\ UNCHANGED <<disk, items, options, dirOf, detectors, results>>
           /\ scan' = scan \/ scan' = [scan EXCEPT !.stale = @ \ {s.det}]
<1>1. /\ UNCHANGED <<disk, items, options, dirOf, detectors, results, watchOf, events>>
      /\ UNCHANGED <<phase, asks, drops, missed, unseen>>
  BY DEF StopStep, diskVars, ghosts
<1>2. EventsInv' /\ HomesInv'
  BY <1>1 DEF EventsInv, HomesInv
<1>3. \/ stops' = stops \ {s} /\ Stopped(s)
      \/ /\ \E r : r.by = s.by /\ stops' = (stops \ {s}) \cup {r}
         /\ UNCHANGED <<scan, timer>>
  <2>1. s = [det |-> s.det, by |-> s.by, at |-> s.at, seen |-> s.seen]
    BY DEF WatchesInv, ShapeInv, KindsInv
  <2>2. \A n : [s EXCEPT !.seen = @ \cup {n}].by = s.by
    BY <2>1
  <2>3. [s EXCEPT !.at = "primary"].by = s.by
    BY <2>1
  <2>4. QED
    BY <2>2, <2>3 DEF StopStep
<1>4. scan' = scan \/ scan' = [scan EXCEPT !.stale = @ \ {s.det}]
  BY <1>3 DEF Stopped
<1>5. CASE stops' = stops \ {s} /\ Stopped(s)
  <2>1. CASE s.by = "event"
    <3>1. timer' # {}
      BY <1>5, <2>1 DEF Stopped
    <3>2. QED
      BY <1>1, <1>2, <1>4, <3>1 DEF Fresh, Quiet, Alarmed
  <2>2. CASE s.by # "event"
    <3>1. timer' = timer /\ \A r \in stops : r.by = "event" => r \in stops'
      BY <1>5, <2>2 DEF Stopped
    <3>2. (Quiet' => Quiet) /\ (Fresh' => Fresh)
      BY <1>1, <3>1, AlarmsLast
    <3>3. QED
      BY <1>1, <1>2, <1>4, <3>2
  <2>3. QED
    BY <2>1, <2>2
<1>6. CASE \E r : r.by = s.by /\ stops' = (stops \ {s}) \cup {r} /\ UNCHANGED <<scan, timer>>
  <2>1. \A x \in stops : x.by = "event" => \E y \in stops' : y.by = "event"
    BY <1>6
  <2>2. (Quiet' => Quiet) /\ (Fresh' => Fresh)
    BY <1>1, <1>6, <2>1, AlarmsLast
  <2>3. QED
    BY <1>1, <1>2, <1>4, <2>2
<1>7. QED
  BY <1>3, <1>5, <1>6

\* The steps of the scan lose nothing of what is under way.
LEMMA ScanTells ==
    ASSUME WatchesInv, EventsInv, HomesInv,
           \/ ScanStale \/ ScanRoot \/ ScanSub \/ WatchRoot \/ RootWatched \/ ScanNext \/ EndScan
           \/ \E n \in scan.here : WatchSub(n)
           \/ \E c \in scan.coming : SubWatched(c)
    PROVE  /\ EventsInv' /\ HomesInv' /\ (Quiet' => Quiet) /\ (Fresh' => Fresh)
           /\ UNCHANGED <<disk, items, options, dirOf, detectors>>
<1>1. /\ UNCHANGED <<disk, items, options, dirOf, detectors, events>>
      /\ UNCHANGED <<phase, asks, timer, drops, missed, unseen>>
  BY DEF ScanStale, ScanRoot, ScanSub, WatchRoot, RootWatched, ScanNext, EndScan, WatchSub,
     SubWatched, WatchBeneath, ScanVars, Still, diskVars, detectorVars, watchVars, ghosts
<1>2. EventsInv' /\ HomesInv'
  BY <1>1 DEF EventsInv, HomesInv
<1>3. stops \subseteq stops'
  BY DEF ScanStale, ScanRoot, ScanSub, WatchRoot, RootWatched, ScanNext, EndScan, WatchSub,
     SubWatched, WatchBeneath, ScanVars, Still, StopDetector, detectorVars
<1>4. \A w \in Watches : events[w] # <<>> => watchOf'[w] = watchOf[w]
  <2>1. \/ watchOf' = watchOf
        \/ FreeWatches # {} /\ \E x : watchOf' = [watchOf EXCEPT ![NewWatch] = x]
    BY DEF ScanStale, ScanRoot, ScanSub, WatchRoot, RootWatched, ScanNext, EndScan, WatchSub,
       SubWatched, WatchBeneath, ScanVars, Still, Opens, watchVars
  <2>2. FreeWatches # {} => events[NewWatch] = <<>>
    BY DEF NewWatch, FreeWatches
  <2>3. DOMAIN watchOf = Watches
    BY DEF WatchesInv, ShapeInv, KindsInv
  <2>4. QED
    BY <2>1, <2>2, <2>3
<1>5. (Quiet' => Quiet) /\ (Fresh' => Fresh)
  BY <1>1, <1>3, <1>4, AlarmsLast
<1>6. QED
  BY <1>1, <1>2, <1>5

\* The detectors that the scan is done with, and where they look.
Done == Len(detectors) - Len(scan.todo)
PlaceOf(i) == dirOf[detectors[i]]

\* What is found in the first k paths: everything, or what one of the first that holds
\* something does.
FoundTo(found, k) ==
    IF options.multiple THEN found = {n \in Nodes : \E i \in 1..k : n \in FoundIn(PlaceOf(i))}
    ELSE \/ found = {} /\ \A i \in 1..k : FoundIn(PlaceOf(i)) = {}
         \/ \E i \in 1..k : /\ \E n \in FoundIn(PlaceOf(i)) : found = {n}
                            /\ \A j \in 1..i-1 : FoundIn(PlaceOf(j)) = {}

\* What is found in path p, of which the directories `left` are still to be looked at.
LookedAt(p, here, left) ==
    IF options.multiple THEN FoundIn(p) = here \cup (ToSet(left) \cap items)
    ELSE \/ here = {} /\ FoundIn(p) = ToSet(left) \cap items
         \/ left = <<>> /\ \E n \in FoundIn(p) : here = {n}
Looking ==
    \E before \in SUBSET Nodes :
      /\ FoundTo(before, Done) /\ scan.found = before \cup scan.here
      /\ before = {} \/ options.multiple
      /\ LookedAt(PlaceOf(Done + 1), scan.here, scan.left)

TodoInv ==
    /\ Len(scan.todo) <= Len(detectors)
    /\ \A i \in 1..Len(scan.todo) : scan.todo[i] = detectors[Done + i]
FoundInv ==
    /\ scan.at \in {"stale", "next"} => FoundTo(scan.found, Done)
    /\ scan.at = "check" => Looking /\ scan.left \in Seq(Nodes)
    /\ scan.at \in {"primary", "subs"} => FoundTo(scan.found, Done + 1)
ScanTrue == TodoInv /\ FoundInv

\* What the engine knows, or is about to know, is what is on the disk.
TruthInv == Fresh => IF scan.at = "idle" THEN Agrees(results, Scanning) ELSE ScanTrue

-------------------------------------------------------------------------------
LEMMA SameFound ==
    ASSUME UNCHANGED <<disk, items, options, dirOf, detectors>>
    PROVE  /\ \A p : FoundIn(p)' = FoundIn(p)
           /\ \A i : PlaceOf(i)' = PlaceOf(i)
           /\ \A found, k : FoundTo(found, k)' = FoundTo(found, k)
           /\ \A p, here, left : LookedAt(p, here, left)' = LookedAt(p, here, left)
<1>1. \A p : FoundIn(p)' = FoundIn(p)
  BY DEF FoundIn
<1>2. \A i : PlaceOf(i)' = PlaceOf(i)
  BY DEF PlaceOf
<1>3. \A found, k : FoundTo(found, k)' = FoundTo(found, k)
  <2> SUFFICES ASSUME NEW found, NEW k PROVE FoundTo(found, k)' = FoundTo(found, k)
    OBVIOUS
  <2>1. \A i : FoundIn(PlaceOf(i))' = FoundIn(PlaceOf(i))
    BY <1>1, <1>2 DEF FoundIn, PlaceOf
  <2>2. QED
    BY <2>1 DEF FoundTo
<1>4. \A p, here, left : LookedAt(p, here, left)' = LookedAt(p, here, left)
  <2> SUFFICES ASSUME NEW p, NEW here, NEW left
               PROVE  LookedAt(p, here, left)' = LookedAt(p, here, left)
    OBVIOUS
  <2>1. FoundIn(p)' = FoundIn(p)
    BY <1>1
  <2>2. QED
    BY <2>1 DEF LookedAt
<1>5. QED
  BY <1>1, <1>2, <1>3, <1>4

\* A scan that is about its paths is as far as it was.
LEMMA SameDone ==
    ASSUME TodoInv, UNCHANGED <<detectors, dirOf>>, scan'.todo = scan.todo
    PROVE  Done' = Done /\ TodoInv' /\ PlaceOf(Done + 1)' = PlaceOf(Done + 1)
<1>1. Done' = Done
  BY DEF Done
<1>2. QED
  BY <1>1 DEF TodoInv, PlaceOf

\* The path that the scan is about, and how far it is when it is done with it.
LEMMA HeadOfTodo ==
    ASSUME ShapeInv, TodoInv, scan.todo # <<>>
    PROVE  /\ Done \in Nat /\ Done < Len(detectors)
           /\ dirOf[Head(scan.todo)] = PlaceOf(Done + 1)
<1>1. PICK s \in Seq(Detectors), q \in Seq(Detectors) : s = scan.todo /\ q = detectors
  BY DEF ShapeInv, ScanInv, KindsInv
<1>2. Len(s) \in Nat /\ Len(s) > 0 /\ 1 \in 1..Len(s) /\ Head(s) = s[1] /\ Len(q) \in Nat
  BY <1>1
<1>3. s[1] = detectors[Done + 1] /\ Len(s) <= Len(q)
  BY <1>1, <1>2 DEF TodoInv
<1>4. Done = Len(q) - Len(s)
  BY <1>1 DEF Done
<1>5. Done \in Nat /\ Done < Len(detectors)
  BY <1>1, <1>2, <1>3, <1>4
<1>6. Head(scan.todo) = detectors[Done + 1]
  BY <1>1, <1>2, <1>3
<1>7. QED
  BY <1>5, <1>6 DEF PlaceOf

LEMMA DoneIsNat ==
    ASSUME ShapeInv, TodoInv
    PROVE  Done \in Nat /\ Done <= Len(detectors) /\ Len(detectors) \in Nat
<1>1. PICK s \in Seq(Detectors), q \in Seq(Detectors) : s = scan.todo /\ q = detectors
  BY DEF ShapeInv, ScanInv, KindsInv
<1>2. Len(s) \in Nat /\ Len(q) \in Nat
  OBVIOUS
<1>3. QED
  BY <1>1, <1>2 DEF TodoInv, Done

\* One more path.
LEMMA FoundMore ==
    ASSUME NEW k \in Nat, NEW before, NEW here, FoundTo(before, k),
           before = {} \/ options.multiple,
           LookedAt(PlaceOf(k + 1), here, <<>>), items \subseteq Nodes
    PROVE  FoundTo(before \cup here, k + 1)
<1> DEFINE p == PlaceOf(k + 1)
<1>1. FoundIn(p) \subseteq Nodes /\ ToSet(<<>>) = {}
  BY DEF FoundIn, ToSet
<1>2. CASE options.multiple
  <2>1. FoundIn(p) = here
    BY <1>1, <1>2 DEF LookedAt
  <2>2. before = {n \in Nodes : \E i \in 1..k : n \in FoundIn(PlaceOf(i))}
    BY <1>2 DEF FoundTo
  <2>3. 1..(k + 1) = 1..k \cup {k + 1}
    OBVIOUS
  <2>4. before \cup here = {n \in Nodes : \E i \in 1..(k + 1) : n \in FoundIn(PlaceOf(i))}
    BY <1>1, <2>1, <2>2, <2>3
  <2>5. QED
    BY <1>2, <2>4 DEF FoundTo
<1>3. CASE ~options.multiple
  <2>1. before = {} /\ \A i \in 1..k : FoundIn(PlaceOf(i)) = {}
    BY <1>3 DEF FoundTo
  <2>2. 1..(k + 1) = 1..k \cup {k + 1} /\ (k + 1) - 1 = k
    OBVIOUS
  <2>3. CASE here = {} /\ FoundIn(p) = {}
    <3>1. before \cup here = {} /\ \A i \in 1..(k + 1) : FoundIn(PlaceOf(i)) = {}
      BY <2>1, <2>2, <2>3
    <3>2. QED
      BY <1>3, <3>1 DEF FoundTo
  <2>4. CASE \E n \in FoundIn(p) : here = {n}
    <3>1. /\ \E n \in FoundIn(PlaceOf(k + 1)) : before \cup here = {n}
          /\ \A j \in 1..((k + 1) - 1) : FoundIn(PlaceOf(j)) = {}
      BY <2>1, <2>2, <2>4
    <3>2. k + 1 \in 1..(k + 1)
      OBVIOUS
    <3>3. QED
      BY <1>3, <3>1, <3>2 DEF FoundTo
  <2>5. QED
    BY <1>1, <1>3, <2>3, <2>4 DEF LookedAt
<1>4. QED
  BY <1>2, <1>3

\* checkDir() of a path.
LEMMA ScanRootTrue ==
    ASSUME DEAssumption, HomesInv, ShapeInv, ScanTrue, ScanRoot
    PROVE  ScanTrue' /\ scan'.at = "check"
<1>1. PICK p : p = dirOf[Head(scan.todo)]
  OBVIOUS
<1>2. PICK here : here = {p} \cap items
  OBVIOUS
<1>3. PICK left : left = IF p \notin disk \/ here # {} THEN <<>> ELSE SetToSeq(Subdirs(p) \cap disk)
  OBVIOUS
<1>4. /\ scan' = [scan EXCEPT !.at = "check", !.found = @ \cup here, !.here = here, !.left = left]
      /\ UNCHANGED <<disk, items, options, dirOf, detectors>>
      /\ scan.todo # <<>> /\ (scan.found = {} \/ options.multiple) /\ scan.at = "next"
  BY <1>1, <1>2, <1>3 DEF ScanRoot, ScanVars, diskVars, Enough
<1>5. /\ scan'.at = "check" /\ scan'.found = scan.found \cup here /\ scan'.here = here
      /\ scan'.left = left /\ scan'.todo = scan.todo
  BY <1>4 DEF ShapeInv, ScanInv, NoScan
<1>6. TodoInv' /\ Done' = Done /\ PlaceOf(Done + 1)' = PlaceOf(Done + 1)
  BY <1>4, <1>5, SameDone DEF ScanTrue
<1>7. p = PlaceOf(Done + 1)
  BY <1>1, <1>4, HeadOfTodo DEF ScanTrue
<1>8. left \in Seq(Nodes) /\ (p \in disk /\ here = {} => ToSet(left) = Subdirs(p) \cap disk)
                          /\ (p \notin disk \/ here # {} => left = <<>>)
  <2>1. Subdirs(p) \cap disk \subseteq Nodes
    BY DEF HomesInv
  <2>2. IsFiniteSet(Subdirs(p) \cap disk)
    BY <2>1, FS_Subset DEF DEAssumption
  <2>3. /\ SetToSeq(Subdirs(p) \cap disk) \in Seq(Nodes)
        /\ ToSet(SetToSeq(Subdirs(p) \cap disk)) = Subdirs(p) \cap disk
    <3>1. PICK S : S = Subdirs(p) \cap disk
      OBVIOUS
    <3>2. SetToSeq(S) \in Seq(S) /\ ToSet(SetToSeq(S)) = S /\ S \subseteq Nodes
      BY <2>1, <2>2, <3>1, SetToSeqIs
    <3>3. PICK q \in Seq(S) : q = SetToSeq(S)
      BY <3>2
    <3>4. q \in Seq(Nodes)
      BY <3>2
    <3>5. QED
      BY <3>1, <3>2, <3>3, <3>4
  <2>4. <<>> \in Seq(Nodes)
    OBVIOUS
  <2>5. QED
    BY <1>3, <2>3, <2>4
<1>9. LookedAt(p, here, left)
  <2>1. CASE p \in items
    <3>1. FoundIn(p) = {p} /\ here = {p} /\ left = <<>> /\ ToSet(<<>>) = {}
      BY <1>2, <1>8, <2>1 DEF FoundIn, ToSet
    <3>2. QED
      BY <3>1 DEF LookedAt
  <2>2. CASE p \notin items
    <3>1. here = {} /\ FoundIn(p) = items \cap Subdirs(p)
      BY <1>2, <2>2 DEF FoundIn
    <3>2. items \cap Subdirs(p) = ToSet(left) \cap items
      <4>1. CASE p \in disk
        BY <1>8, <3>1, <4>1 DEF HomesInv
      <4>2. CASE p \notin disk
        <5>1. items \cap Subdirs(p) = {}
          BY <4>2 DEF HomesInv, Subdirs
        <5>2. left = <<>> /\ ToSet(<<>>) = {}
          BY <1>8, <4>2 DEF ToSet
        <5>3. QED
          BY <5>1, <5>2
      <4>3. QED
        BY <4>1, <4>2
    <3>3. QED
      BY <3>1, <3>2 DEF LookedAt
  <2>3. QED
    BY <2>1, <2>2
<1>10. FoundTo(scan.found, Done)
  BY <1>4 DEF ScanTrue, FoundInv
<1>11. scan.found \in SUBSET Nodes
  <2>1. \A i : FoundIn(PlaceOf(i)) \subseteq Nodes
    BY DEF FoundIn, HomesInv
  <2>2. QED
    BY <1>10, <2>1 DEF FoundTo
<1>12. Looking'
  <2>1. PICK before \in SUBSET Nodes : before = scan.found
    BY <1>11
  <2>2. FoundTo(before, Done)'
    BY <1>4, <1>6, <1>10, <2>1, SameFound DEF FoundTo
  <2>3. LookedAt(PlaceOf(Done + 1), scan.here, scan.left)'
    BY <1>4, <1>5, <1>6, <1>7, <1>9, SameFound DEF LookedAt, FoundIn
  <2>4. QED
    BY <1>4, <1>5, <2>1, <2>2, <2>3 DEF Looking
<1>13. QED
  BY <1>5, <1>6, <1>8, <1>12 DEF ScanTrue, FoundInv

\* A subdirectory is looked at.
LEMMA ScanSubTrue ==
    ASSUME HomesInv, ShapeInv, ScanTrue, ScanSub
    PROVE  ScanTrue' /\ scan'.at = "check"
<1>1. PICK left \in Seq(Nodes) : left = scan.left /\ left # <<>>
  BY DEF ScanSub, ScanTrue, FoundInv
<1>2. PICK x : x = Head(left)
  OBVIOUS
<1>3. PICK here : here = {x} \cap items
  OBVIOUS
<1>4. PICK rest : rest = IF here # {} /\ ~options.multiple THEN <<>> ELSE Tail(left)
  OBVIOUS
<1>5. /\ scan' = [scan EXCEPT !.found = @ \cup here, !.here = @ \cup here, !.left = rest]
      /\ UNCHANGED <<disk, items, options, dirOf, detectors>> /\ scan.at = "check"
  BY <1>1, <1>2, <1>3, <1>4 DEF ScanSub, ScanVars, diskVars
<1>6. /\ scan'.at = "check" /\ scan'.found = scan.found \cup here
      /\ scan'.here = scan.here \cup here /\ scan'.left = rest /\ scan'.todo = scan.todo
  BY <1>5 DEF ShapeInv, ScanInv, NoScan
<1>7. TodoInv' /\ Done' = Done /\ PlaceOf(Done + 1)' = PlaceOf(Done + 1)
  BY <1>5, <1>6, SameDone DEF ScanTrue
<1>8. PICK before \in SUBSET Nodes :
        /\ FoundTo(before, Done) /\ scan.found = before \cup scan.here
        /\ before = {} \/ options.multiple
        /\ LookedAt(PlaceOf(Done + 1), scan.here, left)
  BY <1>1, <1>5 DEF ScanTrue, FoundInv, Looking
<1>9. rest \in Seq(Nodes) /\ ToSet(left) = {x} \cup ToSet(Tail(left)) /\ ToSet(<<>>) = {}
  <2>1. /\ Head(left) \in ToSet(left) /\ Tail(left) \in Seq(Nodes) /\ ToSet(<<>>) = {}
        /\ ToSet(Tail(left)) \subseteq ToSet(left)
        /\ ToSet(left) \subseteq {Head(left)} \cup ToSet(Tail(left))
    BY <1>1, SeqSets
  <2>2. <<>> \in Seq(Nodes)
    OBVIOUS
  <2>3. QED
    BY <1>2, <1>4, <2>1, <2>2
<1>10. LookedAt(PlaceOf(Done + 1), scan.here \cup here, rest)
  <2>1. PICK p : p = PlaceOf(Done + 1)
    OBVIOUS
  <2>2. LookedAt(p, scan.here, left)
    BY <1>8, <2>1
  <2>3. LookedAt(p, scan.here \cup here, rest)
    <3>1. CASE options.multiple
      <4>1. rest = Tail(left) /\ FoundIn(p) = scan.here \cup (ToSet(left) \cap items)
        BY <1>4, <2>2, <3>1 DEF LookedAt
      <4>2. FoundIn(p) = (scan.here \cup here) \cup (ToSet(rest) \cap items)
        BY <1>3, <1>9, <4>1
      <4>3. QED
        BY <3>1, <4>2 DEF LookedAt
    <3>2. CASE ~options.multiple
      <4>1. scan.here = {} /\ FoundIn(p) = ToSet(left) \cap items
        BY <1>1, <2>2, <3>2 DEF LookedAt
      <4>2. CASE here # {}
        <5>1. rest = <<>> /\ here = {x} /\ x \in FoundIn(p)
          BY <1>3, <1>4, <1>9, <3>2, <4>1, <4>2
        <5>2. QED
          BY <3>2, <4>1, <5>1 DEF LookedAt
      <4>3. CASE here = {}
        <5>1. rest = Tail(left) /\ FoundIn(p) = ToSet(rest) \cap items
          BY <1>3, <1>4, <1>9, <4>1, <4>3
        <5>2. QED
          BY <3>2, <4>1, <4>3, <5>1 DEF LookedAt
      <4>4. QED
        BY <4>2, <4>3
    <3>3. QED
      BY <3>1, <3>2
  <2>4. QED
    BY <2>1, <2>3
<1>11. Looking'
  <2>1. FoundTo(before, Done)'
    BY <1>5, <1>7, <1>8, SameFound DEF FoundTo
  <2>2. LookedAt(PlaceOf(Done + 1), scan.here, scan.left)'
    BY <1>5, <1>6, <1>7, <1>10, SameFound DEF LookedAt, FoundIn
  <2>3. scan'.found = before \cup scan'.here
    BY <1>6, <1>8
  <2>4. QED
    BY <1>5, <1>8, <2>1, <2>2, <2>3 DEF Looking
<1>12. QED
  BY <1>6, <1>7, <1>9, <1>11 DEF ScanTrue, FoundInv

\* The path has been looked at; what it holds is watched.
LEMMA WatchTrue ==
    ASSUME HomesInv, ShapeInv, ScanTrue,
           \/ WatchRoot \/ RootWatched
           \/ \E n \in scan.here : WatchSub(n)
           \/ \E c \in scan.coming : SubWatched(c)
    PROVE  ScanTrue' /\ scan'.at \in {"primary", "subs"}
<1>1. /\ scan'.todo = scan.todo /\ scan'.found = scan.found /\ scan'.at \in {"primary", "subs"}
      /\ UNCHANGED <<disk, items, options, dirOf, detectors>>
      /\ scan.at \in {"primary", "subs"} \/ (scan.at = "check" /\ scan.left = <<>>)
  BY DEF WatchRoot, RootWatched, WatchSub, SubWatched, WatchBeneath, ScanVars, diskVars, ShapeInv,
     ScanInv, NoScan
<1>2. TodoInv' /\ Done' = Done
  BY <1>1, SameDone DEF ScanTrue
<1>3. FoundTo(scan.found, Done + 1)
  <2>1. CASE scan.at \in {"primary", "subs"}
    BY <2>1 DEF ScanTrue, FoundInv
  <2>2. CASE scan.at = "check" /\ scan.left = <<>>
    <3>1. PICK before \in SUBSET Nodes :
            /\ FoundTo(before, Done) /\ scan.found = before \cup scan.here
            /\ before = {} \/ options.multiple
            /\ LookedAt(PlaceOf(Done + 1), scan.here, <<>>)
      BY <2>2 DEF ScanTrue, FoundInv, Looking
    <3>2. Done \in Nat /\ items \subseteq Nodes
      BY DoneIsNat DEF ScanTrue, HomesInv
    <3>3. PICK k, here : k \in Nat /\ k = Done /\ here = scan.here
      BY <3>2
    <3>4. FoundTo(before \cup here, k + 1)
      BY <3>1, <3>2, <3>3, FoundMore
    <3>5. QED
      BY <3>1, <3>3, <3>4
  <2>3. QED
    BY <1>1, <2>1, <2>2
<1>4. FoundTo(scan.found, Done + 1)'
  BY <1>1, <1>2, <1>3, SameFound DEF FoundTo
<1>5. QED
  BY <1>1, <1>2, <1>4 DEF ScanTrue, FoundInv

\* The scan goes on with the next detector.
LEMMA ScanNextTrue ==
    ASSUME ShapeInv, ScanTrue, ScanNext
    PROVE  ScanTrue' /\ scan'.at = "next"
<1>1. /\ scan'.todo = Tail(scan.todo) /\ scan'.found = scan.found /\ scan'.at = "next"
      /\ UNCHANGED <<disk, items, options, dirOf, detectors>>
      /\ scan.at = "subs" /\ scan.todo # <<>>
  BY DEF ScanNext, ScanVars, diskVars, ShapeInv, ScanInv, NoScan
<1>2. PICK s \in Seq(Detectors), q \in Seq(Detectors) : s = scan.todo /\ q = detectors
  BY DEF ShapeInv, ScanInv, KindsInv
<1>3. /\ s # <<>> /\ Len(s) <= Len(q) /\ \A i \in 1..Len(s) : s[i] = q[(Len(q) - Len(s)) + i]
      /\ Done = Len(q) - Len(s)
  BY <1>1, <1>2 DEF ScanTrue, TodoInv, Done
<1>4. scan'.todo = Tail(s) /\ Len(Tail(s)) = Len(s) - 1 /\ \A i \in 1..Len(Tail(s)) : Tail(s)[i] = s[i+1]
  BY <1>1, <1>2, <1>3
<1>5. Done' = Len(q) - Len(Tail(s)) /\ Done' = Done + 1
  <2>1. Done' = Len(q) - Len(Tail(s))
    BY <1>1, <1>2, <1>4 DEF Done
  <2>2. QED
    BY <1>3, <1>4, <2>1
<1>6. TodoInv'
  <2>1. ASSUME NEW i \in 1..Len(Tail(s)) PROVE Tail(s)[i] = q[(Len(q) - Len(Tail(s))) + i]
    BY <1>3, <1>4
  <2>2. Len(Tail(s)) <= Len(q)
    BY <1>3, <1>4
  <2>3. QED
    BY <1>1, <1>2, <1>4, <1>5, <2>1, <2>2 DEF TodoInv
<1>7. FoundTo(scan.found, Done)'
  <2>1. PICK k, found : k = Done + 1 /\ found = scan.found
    OBVIOUS
  <2>2. FoundTo(found, k)'
    BY <1>1, <2>1, SameFound DEF ScanTrue, FoundInv
  <2>3. Done' = k /\ scan'.found = found
    BY <1>1, <1>5, <2>1
  <2>4. QED
    BY <2>2, <2>3 DEF FoundTo
<1>8. QED
  BY <1>1, <1>6, <1>7 DEF ScanTrue, FoundInv

\* The results of the scan are what its paths hold.
LEMMA EndScanTrue ==
    ASSUME HomesInv, ShapeInv, ScanTrue, EndScan
    PROVE  Agrees(results, Scanning)' /\ scan'.at = "idle"
<1>1. /\ results' = scan.found /\ scan'.at = "idle"
      /\ UNCHANGED <<disk, items, options, dirOf, detectors>>
      /\ scan.at = "next" /\ (scan.todo = <<>> \/ Enough)
  BY DEF EndScan, diskVars, detectorVars, NoScan
<1>2. PICK found : found = scan.found
  OBVIOUS
<1>3. FoundTo(found, Done)
  BY <1>1, <1>2 DEF ScanTrue, FoundInv
<1>4. Done \in Nat /\ Done <= Len(detectors) /\ Len(detectors) \in Nat
  BY DoneIsNat DEF ScanTrue
<1>5. PICK k \in Nat : k = Done
  BY <1>4
<1>6. scan.todo = <<>> => k = Len(detectors)
  BY <1>4, <1>5 DEF Done
<1>7. PICK list : list = Scanning
  OBVIOUS
<1>8. DOMAIN list = 1..Len(detectors) /\ \A i \in 1..Len(detectors) : list[i] = PlaceOf(i)
  BY <1>7 DEF Scanning, PlaceOf, ShapeInv, KindsInv
<1>9. \A i : FoundIn(list[i]) \subseteq Nodes
  BY DEF FoundIn, HomesInv
<1>10. \A n : n \in Reference(list) <=>
         \E i \in DOMAIN list : /\ options.multiple \/ \A j \in 1..(i - 1) : FoundIn(list[j]) = {}
                                /\ n \in FoundIn(list[i])
  BY DEF Reference
<1>11. Agrees(found, list)
  <2>1. CASE options.multiple
    <3>1. k = Len(detectors)
      BY <1>1, <1>6, <2>1 DEF Enough
    <3>2. found = {n \in Nodes : \E i \in 1..k : n \in FoundIn(PlaceOf(i))}
      BY <1>3, <1>5, <2>1 DEF FoundTo
    <3>3. \A n : n \in found <=> n \in Reference(list)
      BY <1>8, <1>9, <1>10, <2>1, <3>1, <3>2
    <3>4. found = Reference(list)
      BY <3>3
    <3>5. QED
      BY <2>1, <3>4 DEF Agrees
  <2>2. CASE ~options.multiple /\ found = {}
    <3>1. k = Len(detectors)
      BY <1>1, <1>2, <1>6, <2>2 DEF Enough
    <3>2. \A i \in 1..k : FoundIn(PlaceOf(i)) = {}
      BY <1>3, <1>5, <2>2 DEF FoundTo
    <3>3. Reference(list) = {}
      BY <1>8, <1>10, <3>1, <3>2
    <3>4. QED
      BY <2>2, <3>3 DEF Agrees
  <2>3. CASE ~options.multiple /\ found # {}
    <3>1. PICK i \in 1..k : /\ \E n \in FoundIn(PlaceOf(i)) : found = {n}
                            /\ \A j \in 1..i-1 : FoundIn(PlaceOf(j)) = {}
      BY <1>3, <1>5, <2>3 DEF FoundTo
    <3>2. PICK n \in FoundIn(PlaceOf(i)) : found = {n}
      BY <3>1
    <3>3. i \in DOMAIN list /\ list[i] = PlaceOf(i) /\ \A j \in 1..i-1 : FoundIn(list[j]) = {}
      BY <1>4, <1>5, <1>8, <3>1
    <3>4. n \in Reference(list)
      BY <1>10, <3>2, <3>3
    <3>5. Cardinality(found) = 1
      BY <3>2, FS_Singleton
    <3>6. QED
      BY <2>3, <3>2, <3>4, <3>5 DEF Agrees
  <2>4. QED
    BY <2>1, <2>2, <2>3
<1>12. Agrees(results, Scanning)'
  <2>1. Scanning' = list /\ results' = found
    BY <1>1, <1>2, <1>7 DEF Scanning
  <2>2. \A p : FoundIn(p)' = FoundIn(p)
    BY <1>1, SameFound
  <2>3. Reference(list)' = Reference(list)
    BY <1>1, <2>2 DEF Reference, FoundIn
  <2>4. QED
    BY <1>1, <1>11, <2>1, <2>3 DEF Agrees, Reference, FoundIn
<1>13. QED
  BY <1>1, <1>12

\* The rest of the types.
EngineTypes ==
    /\ options \in Options /\ changes \in 0..MaxChanges /\ refresh \in BOOLEAN
    /\ phase \in {"new", "running", "stopping", "stopped"}
    /\ results \subseteq Nodes /\ scan.found \subseteq Nodes
    /\ dirOf \in [Detectors -> Roots] /\ IsInjective(detectors)
    /\ timer \subseteq Detectors /\ cut \subseteq Detectors
    /\ watchOf \in [Watches -> Term]

LEMMA Counted ==
    ASSUME DEAssumption, changes \in 0..MaxChanges,
           changes' = changes \/ changes' = 0 \/ (changes' = changes + 1 /\ changes' <= MaxChanges)
    PROVE  changes' \in 0..MaxChanges
BY DEF DEAssumption

LEMMA TypesStay ==
    ASSUME DEAssumption, WatchesInv, HomesInv, EngineTypes,
           \/ UNCHANGED vars
           \/ Start \/ Stop \/ StopNext \/ FailScan \/ RegistryChanged \/ RefreshPaths
           \/ \E n \in Nodes : MakeDir(n) \/ RemoveDir(n) \/ ToggleItem(n)
           \/ \E list \in PathLists : SetPaths(list)
           \/ \E p \in Roots : MoveAnswer(p)
           \/ \E k \in Keys : HearKey(k) /\ Rest
           \/ EditKeys(\/ \E p \in Folders \cup {None} : EditValue(p)
                       \/ \E k \in Keys : AddKey(k) \/ DeleteKey(k))
           \/ \E d \in Detectors : Fire(d)
           \/ \E s \in stops : StopStep(s)
           \/ \E w \in Watches : Deliver(w)
           \/ \E x \in drops : Dropped(x)
    PROVE  EngineTypes'
<1> USE DEF EngineTypes
<1>1. CASE UNCHANGED vars
  BY <1>1 DEF vars, diskVars, engineVars, detectorVars, watchVars, ghosts
<1>2. CASE Start
  <2>1. changes' \in 0..MaxChanges
    <3>1. changes' = 0 \/ (changes' = changes + 1 /\ changes' <= MaxChanges)
      BY <1>2 DEF Start
    <3>2. QED
      BY <3>1, Counted
  <2>2. QED
    BY <1>2, <2>1 DEF Start, detectorVars, watchVars, ghosts
<1>3. CASE Stop
  BY <1>3 DEF Stop, diskVars, detectorVars, watchVars, ghosts
<1>4. CASE StopNext
  <2>1. IsInjective(<<>>)
    BY DEF IsInjective
  <2>2. scan'.found = scan.found
    BY <1>4 DEF StopNext, WatchesInv, ShapeInv, ScanInv, NoScan
  <2>3. cut' \subseteq Detectors
    BY <1>4 DEF StopNext, StopDetector, WatchesInv, ShapeInv, KindsInv
  <2>4. IsInjective(detectors')
    BY <1>4, <2>1 DEF StopNext
  <2>5. phase' \in {"new", "running", "stopping", "stopped"}
    BY <1>4 DEF StopNext
  <2>6. UNCHANGED <<options, changes, refresh, results, dirOf, timer, watchOf>>
    BY <1>4 DEF StopNext, diskVars, watchVars
  <2>7. QED
    BY <2>2, <2>3, <2>4, <2>5, <2>6
<1>5. CASE FailScan
  <2>1. changes' \in 0..MaxChanges
    <3>1. changes' = changes + 1 /\ changes < MaxChanges
      BY <1>5 DEF FailScan
    <3>2. QED
      BY <3>1 DEF DEAssumption
  <2>2. scan'.found = {} /\ refresh' \in BOOLEAN
    BY <1>5 DEF FailScan, NoScan
  <2>3. QED
    BY <1>5, <2>1, <2>2 DEF FailScan, detectorVars, watchVars
<1>6. CASE RegistryChanged \/ RefreshPaths \/ \E d \in Detectors : Fire(d)
  BY <1>6 DEF RegistryChanged, RefreshPaths, Fire, diskVars, detectorVars, watchVars, ghosts
<1>7. CASE \E n \in Nodes : MakeDir(n) \/ RemoveDir(n) \/ ToggleItem(n)
  <2>1. PICK told : Changed(told)
    BY <1>7 DEF MakeDir, RemoveDir, ToggleItem
  <2>2. changes' \in 0..MaxChanges
    <3>1. changes' = changes + 1 /\ changes < MaxChanges
      BY <2>1 DEF Changed
    <3>2. QED
      BY <3>1 DEF DEAssumption
  <2>3. QED
    BY <2>1, <2>2 DEF Changed, engineVars, detectorVars
<1>8. CASE (\E list \in PathLists : SetPaths(list)) \/ (\E p \in Roots : MoveAnswer(p))
  <2>1. changes' \in 0..MaxChanges
    <3>1. changes' = changes + 1 /\ changes < MaxChanges
      BY <1>8 DEF SetPaths, MoveAnswer
    <3>2. QED
      BY <3>1 DEF DEAssumption
  <2>2. QED
    BY <1>8, <2>1 DEF SetPaths, MoveAnswer, engineVars, detectorVars, watchVars, ghosts
<1>9. CASE \E k \in Keys : HearKey(k) /\ Rest
  BY <1>9 DEF Rest, diskVars, engineVars, detectorVars, watchVars, ghosts
<1>10. CASE EditKeys(\/ \E p \in Folders \cup {None} : EditValue(p)
                     \/ \E k \in Keys : AddKey(k) \/ DeleteKey(k))
  <2>1. changes' \in 0..MaxChanges
    <3>1. changes' = changes + 1 /\ changes < MaxChanges
      BY <1>10 DEF EditKeys
    <3>2. QED
      BY <3>1 DEF DEAssumption
  <2>2. QED
    BY <1>10, <2>1 DEF EditKeys, engineVars, detectorVars, watchVars, ghosts
<1>11. CASE \E s \in stops : StopStep(s)
  <2>1. PICK s \in stops : StopStep(s)
    BY <1>11
  <2>2. s.det \in Detectors
    BY <2>1 DEF WatchesInv, ShapeInv, KindsInv
  <2>3. UNCHANGED <<options, changes, refresh, phase, results, dirOf, detectors, cut, watchOf>>
    BY <2>1 DEF StopStep, diskVars, ghosts
  <2>4. timer' = timer \/ timer' = timer \cup {s.det}
    BY <2>1 DEF StopStep, Stopped
  <2>5. scan'.found = scan.found
    BY <2>1 DEF StopStep, Stopped, WatchesInv, ShapeInv, ScanInv, NoScan
  <2>6. QED
    BY <2>2, <2>3, <2>4, <2>5
<1>12. CASE \E w \in Watches : Deliver(w)
  <2>1. PICK w \in Watches : Deliver(w)
    BY <1>12
  <2>2. watchOf[w].det \in Detectors
    BY <2>1 DEF Term
  <2>3. UNCHANGED <<options, changes, refresh, phase, results, scan, dirOf, detectors, watchOf>>
    BY <2>1 DEF Deliver, diskVars, engineVars
  <2>4. timer' \subseteq Detectors /\ cut' \subseteq Detectors
    BY <2>1, <2>2 DEF Deliver, StopDetector
  <2>5. QED
    BY <2>3, <2>4
<1>13. CASE \E x \in drops : Dropped(x)
  <2>1. PICK x \in drops : Dropped(x)
    BY <1>13
  <2>2. x.det \in Detectors
    BY <2>1 DEF WatchesInv, ShapeInv, KindsInv, Drop
  <2>3. QED
    BY <2>1, <2>2 DEF Dropped, diskVars, engineVars, watchVars, ghosts
<1>14. QED
  BY <1>1, <1>2, <1>3, <1>4, <1>5, <1>6, <1>7, <1>8, <1>9, <1>10, <1>11, <1>12, <1>13

LEMMA ScanTypes ==
    ASSUME DEAssumption, WatchesInv, HomesInv, EngineTypes,
           \/ ScanStale \/ ScanRoot \/ ScanSub \/ WatchRoot \/ RootWatched \/ ScanNext \/ EndScan
           \/ \E n \in scan.here : WatchSub(n)
           \/ \E c \in scan.coming : SubWatched(c)
    PROVE  EngineTypes'
<1>1. UNCHANGED <<options, changes, phase, dirOf, detectors, timer>>
  BY DEF ScanStale, ScanRoot, ScanSub, WatchRoot, RootWatched, ScanNext, EndScan, WatchSub,
     SubWatched, WatchBeneath, ScanVars, Still, diskVars, detectorVars, watchVars, ghosts
<1>2. refresh' \in BOOLEAN
  BY DEF ScanStale, ScanRoot, ScanSub, WatchRoot, RootWatched, ScanNext, EndScan, WatchSub,
     SubWatched, WatchBeneath, ScanVars, EngineTypes
<1>3. scan'.found \subseteq Nodes
  <2>1. CASE ScanRoot
    <3>1. scan'.found = scan.found \cup ({dirOf[Head(scan.todo)]} \cap items)
      BY <2>1 DEF ScanRoot, ScanVars, WatchesInv, ShapeInv, ScanInv, NoScan
    <3>2. QED
      BY <3>1 DEF EngineTypes, HomesInv
  <2>2. CASE ScanSub
    <3>1. scan'.found = scan.found \cup ({Head(scan.left)} \cap items)
      BY <2>2 DEF ScanSub, ScanVars, WatchesInv, ShapeInv, ScanInv, NoScan
    <3>2. QED
      BY <3>1 DEF EngineTypes, HomesInv
  <2>3. CASE ScanStale \/ ScanNext \/ EndScan
    <3>1. scan'.found = scan.found \/ scan'.found = {}
      <4>1. ScanStale => scan'.found = scan.found
        BY DEF ScanStale, ScanVars, WatchesInv, ShapeInv, ScanInv, NoScan
      <4>2. ScanNext => scan'.found = scan.found
        BY DEF ScanNext, ScanVars, WatchesInv, ShapeInv, ScanInv, NoScan
      <4>3. EndScan => scan'.found = {}
        BY DEF EndScan, NoScan
      <4>4. QED
        BY <2>3, <4>1, <4>2, <4>3
    <3>2. QED
      BY <3>1 DEF EngineTypes
  <2>4. CASE \/ WatchRoot \/ RootWatched
             \/ \E n \in scan.here : WatchSub(n)
             \/ \E c \in scan.coming : SubWatched(c)
    <3>1. scan'.found = scan.found
      BY <2>4 DEF WatchRoot, RootWatched, WatchSub, SubWatched, WatchBeneath, ScanVars, WatchesInv,
         ShapeInv, ScanInv, NoScan
    <3>2. QED
      BY <3>1 DEF EngineTypes
  <2>5. QED
    BY <2>1, <2>2, <2>3, <2>4
<1>4. results' \subseteq Nodes
  BY DEF ScanStale, ScanRoot, ScanSub, WatchRoot, RootWatched, ScanNext, EndScan, WatchSub,
     SubWatched, WatchBeneath, ScanVars, EngineTypes
<1>5. cut' \subseteq Detectors
  <2>1. cut' = cut \/ \E d \in scan.stale : cut' = cut \cup ({d} \cap ToSet(scan.todo))
    BY DEF ScanStale, ScanRoot, ScanSub, WatchRoot, RootWatched, ScanNext, EndScan, WatchSub,
       SubWatched, WatchBeneath, ScanVars, Still, StopDetector, ghosts
  <2>2. scan.stale \subseteq Detectors
    BY DEF WatchesInv, ShapeInv, ScanInv
  <2>3. QED
    BY <2>1, <2>2 DEF EngineTypes
<1>6. watchOf' \in [Watches -> Term]
  <2>1. CASE scan.todo # <<>> /\ (WatchRoot \/ \E n \in scan.here : WatchSub(n))
    <3>1. Head(scan.todo) \in Detectors
      BY <2>1, SeqSets DEF WatchesInv, ShapeInv, ScanInv
    <3>2. PICK d \in Detectors : d = Head(scan.todo)
      BY <3>1
    <3>3. options.recursive \in BOOLEAN /\ dirOf[d] \in Nodes /\ scan.here \subseteq Nodes
      BY DEF EngineTypes, DEAssumption, Roots, WatchesInv, ShapeInv, ScanInv
    <3>4. PICK root : root = dirOf[d]
      OBVIOUS
    <3>5. \/ watchOf' = watchOf
          \/ /\ FreeWatches # {}
             /\ \E r \in BOOLEAN : Opens(NewWatch, root, r, d, None)
          \/ /\ FreeWatches # {}
             /\ \E n \in scan.here, r \in BOOLEAN : Opens(NewWatch, n, r, d, n)
      BY <2>1, <3>2, <3>3, <3>4 DEF WatchRoot, WatchSub
    <3>6. FreeWatches # {} => NewWatch \in Watches
      BY DEF NewWatch, FreeWatches
    <3>7. \/ watchOf' = watchOf
          \/ \E t \in Term : watchOf' = [watchOf EXCEPT ![NewWatch] = t]
      BY <3>3, <3>4, <3>5 DEF Opens, Term
    <3>8. QED
      BY <3>5, <3>6, <3>7 DEF EngineTypes
  <2>2. CASE ~(WatchRoot \/ \E n \in scan.here : WatchSub(n))
    BY <2>2 DEF ScanStale, ScanRoot, ScanSub, RootWatched, ScanNext, EndScan, SubWatched,
       WatchBeneath, ScanVars, Still, watchVars, EngineTypes
  <2>3. (WatchRoot \/ \E n \in scan.here : WatchSub(n)) => scan.todo # <<>>
    BY DEF WatchRoot, WatchSub, WatchesInv, ShapeInv, ScanInv
  <2>4. QED
    BY <2>1, <2>2, <2>3
<1>7. QED
  BY <1>1, <1>2, <1>3, <1>4, <1>5, <1>6 DEF EngineTypes

LEMMA RescanTypes ==
    ASSUME DEAssumption, WatchesInv, EngineTypes, NEW a \in asks, Rescan(a)
    PROVE  EngineTypes'
<1>1. UNCHANGED <<options, changes, phase, results, timer, watchOf>>
  BY DEF Rescan, diskVars, watchVars
<1>2. CASE \E arms : scan.at # "idle" /\ Join(arms)
  <2>1. scan'.found = scan.found /\ UNCHANGED <<refresh, dirOf, detectors, cut>>
    BY <1>2 DEF Join, WatchesInv, ShapeInv, ScanInv, NoScan
  <2>2. QED
    BY <1>1, <2>1 DEF EngineTypes
<1>3. CASE \E arms : scan.at = "idle" /\ Begin(GetPaths(a.paths), arms, a.paths # paths)
  <2>1. PICK list \in Seq(Roots) : list = GetPaths(a.paths) /\ IsInjective(list)
    BY PathsAreInjective DEF WatchesInv, PathsInv
  <2>2. PICK arms, stale : Begin(list, arms, stale)
    BY <1>3, <2>1
  <2>3. PICK new \in SUBSET FreeDetectors : Begun(Kept(list), new)
    BY <2>1, <2>2, BeginNames
  <2>4. Lists(list)
    BY <2>1, <2>2, BeginNames
  <2>5. scan'.found = {} /\ refresh' = refresh
    BY <2>2 DEF Begin, NoScan
  <2>6. ToSet(detectors') = Kept(list) \cup new /\ detectors' \in Seq(Detectors)
    BY <2>3 DEF Begun
  <2>7. dirOf' \in [Detectors -> Roots]
    <3>1. ASSUME NEW d \in Detectors PROVE dirOf'[d] \in Roots
      <4>1. CASE d \in new
        <5>1. PICK i \in DOMAIN list : detectors'[i] = d
          BY <2>4, <2>6, <4>1 DEF ToSet, Lists
        <5>2. QED
          BY <2>4, <5>1 DEF Lists
      <4>2. CASE d \notin new
        BY <2>3, <4>2 DEF Begun, EngineTypes
      <4>3. QED
        BY <4>1, <4>2
    <3>2. QED
      BY <2>4, <3>1 DEF Lists
  <2>8. IsInjective(detectors')
    <3>1. ASSUME NEW i \in DOMAIN list, NEW j \in DOMAIN list, detectors'[i] = detectors'[j]
          PROVE  i = j
      <4>1. list[i] = list[j]
        BY <2>4, <3>1 DEF Lists
      <4>2. QED
        BY <2>1, <4>1 DEF IsInjective
    <3>2. QED
      BY <2>4, <3>1 DEF Lists, IsInjective
  <2>9. cut' \subseteq Detectors
    <3>1. ToSet(detectors') \subseteq Detectors
      BY <2>6, SeqSets
    <3>2. QED
      BY <2>3, <3>1 DEF Begun, EngineTypes
  <2>10. QED
    BY <1>1, <2>5, <2>7, <2>8, <2>9 DEF EngineTypes
<1>4. CASE UNCHANGED <<scan, detectors, dirOf, cut>> /\ refresh' = TRUE
  BY <1>1, <1>4 DEF EngineTypes
<1>5. QED
  BY <1>2, <1>3, <1>4 DEF Rescan

\* The paths are polled, or will be.
Armed == refresh \/ (\E a \in asks : a.by \in {"start", "refresh"}) \/ scan.arms # {}
PollInv ==
    /\ focus # "poll" => answer = None
    /\ scan.at = "idle" => scan.arms = {}
    /\ focus = "poll" /\ options.polled /\ phase = "running" => Armed
    /\ (focus # "poll" \/ ~options.polled) /\ Quiet => ToSet(Scanning) = ToSet(GetPaths(paths))

LEMMA SameTruth ==
    ASSUME ShapeInv, TruthInv, Fresh' => Fresh,
           UNCHANGED <<disk, items, options, dirOf, detectors, results>>,
           \/ scan' = scan
           \/ \E stale : scan' = [scan EXCEPT !.stale = stale]
           \/ \E arms : scan' = [scan EXCEPT !.arms = arms]
    PROVE  TruthInv'
<1> SUFFICES ASSUME Fresh' PROVE (IF scan.at = "idle" THEN Agrees(results, Scanning) ELSE ScanTrue)'
  BY DEF TruthInv
<1>1. /\ scan'.at = scan.at /\ scan'.todo = scan.todo /\ scan'.found = scan.found
      /\ scan'.here = scan.here /\ scan'.left = scan.left
  BY DEF ShapeInv, ScanInv, NoScan
<1>2. CASE scan.at = "idle"
  <2>1. Agrees(results, Scanning)
    BY <1>2 DEF TruthInv
  <2>2. Agrees(results, Scanning)'
    BY <2>1 DEF Agrees, Reference, FoundIn, Scanning, Subdirs
  <2>3. QED
    BY <1>1, <1>2, <2>2
<1>3. CASE scan.at # "idle"
  <2>1. ScanTrue
    BY <1>3 DEF TruthInv
  <2>2. TodoInv' /\ Done' = Done /\ PlaceOf(Done + 1)' = PlaceOf(Done + 1)
    BY <1>1, <2>1, SameDone DEF ScanTrue
  <2>3. \A found, k : FoundTo(found, k)' = FoundTo(found, k)
    BY SameFound
  <2>4. scan.at = "check" => Looking'
    <3> SUFFICES ASSUME scan.at = "check" PROVE Looking'
      OBVIOUS
    <3>1. PICK before \in SUBSET Nodes :
            /\ FoundTo(before, Done) /\ scan.found = before \cup scan.here
            /\ before = {} \/ options.multiple
            /\ LookedAt(PlaceOf(Done + 1), scan.here, scan.left)
      BY <2>1 DEF ScanTrue, FoundInv, Looking
    <3>2. FoundTo(before, Done)'
      <4>1. PICK k : k = Done
        OBVIOUS
      <4>2. FoundTo(before, k)'
        BY <2>3, <3>1, <4>1
      <4>3. QED
        BY <2>2, <4>1, <4>2 DEF FoundTo
    <3>3. LookedAt(PlaceOf(Done + 1), scan.here, scan.left)'
      BY <1>1, <2>2, <3>1, SameFound DEF LookedAt, FoundIn
    <3>4. QED
      BY <1>1, <3>1, <3>2, <3>3 DEF Looking
  <2>5. ASSUME NEW k, FoundTo(scan.found, k) PROVE FoundTo(scan.found, k)'
    <3>1. PICK found : found = scan.found
      OBVIOUS
    <3>2. FoundTo(found, k)'
      BY <2>3, <2>5, <3>1
    <3>3. QED
      BY <1>1, <3>1, <3>2 DEF FoundTo
  <2>6. FoundInv'
    <3>1. PICK k : k = Done
      OBVIOUS
    <3>2. /\ scan.at \in {"stale", "next"} => FoundTo(scan.found, k)
          /\ scan.at \in {"primary", "subs"} => FoundTo(scan.found, k + 1)
      BY <2>1, <3>1 DEF ScanTrue, FoundInv
    <3>3. /\ scan.at \in {"stale", "next"} => FoundTo(scan.found, k)'
          /\ scan.at \in {"primary", "subs"} => FoundTo(scan.found, k + 1)'
      BY <2>5, <3>2, <1>1
    <3>4. Done' = k
      BY <2>2, <3>1
    <3>5. QED
      BY <1>1, <2>1, <2>4, <3>3, <3>4 DEF ScanTrue, FoundInv
  <2>7. QED
    BY <1>1, <1>3, <2>2, <2>6 DEF ScanTrue
<1>4. QED
  BY <1>2, <1>3

LEMMA PollKept ==
    ASSUME PollInv, focus' = focus, options' = options,
           answer' = answer \/ (focus = "poll" /\ options.polled),
           scan'.at = "idle" => scan'.arms = {},
           focus = "poll" /\ options.polled /\ phase' = "running" =>
             Armed' \/ (phase = "running" /\ (Armed => Armed')),
           Quiet' => Quiet /\ UNCHANGED <<paths, dirOf, detectors, values>>
    PROVE  PollInv'
<1>1. (focus # "poll" => answer = None)'
  BY DEF PollInv
<1>2. (focus = "poll" /\ options.polled /\ phase = "running" => Armed)'
  BY DEF PollInv
<1>3. ASSUME focus # "poll" \/ ~options.polled, Quiet'
      PROVE  (ToSet(Scanning) = ToSet(GetPaths(paths)))'
  <2>1. Quiet /\ UNCHANGED <<paths, dirOf, detectors, values, options, answer>>
    BY <1>3
  <2>2. Scanning' = Scanning /\ GetPaths(paths)' = GetPaths(paths)
    BY <2>1 DEF Scanning, GetPaths, With
  <2>3. ToSet(Scanning) = ToSet(GetPaths(paths))
    BY <1>3, <2>1 DEF PollInv
  <2>4. QED
    BY <2>2, <2>3 DEF ToSet
<1>4. QED
  BY <1>1, <1>2, <1>3 DEF PollInv

LEMMA RescanTrue ==
    ASSUME DEAssumption, WatchesInv, EventsInv, HomesInv, TruthInv, PollInv, focus' = focus,
           NEW a \in asks, Rescan(a)
    PROVE  EventsInv' /\ HomesInv' /\ TruthInv' /\ PollInv'
<1>1. /\ UNCHANGED <<disk, items, options, paths, answer, values, phase, results, timer, stops, drops>>
      /\ UNCHANGED <<watchOf, events>> /\ asks' = asks \ {a}
  BY DEF Rescan, keyVars, diskVars, watchVars
<1>2. EventsInv' /\ HomesInv'
  BY <1>1 DEF EventsInv, HomesInv
<1> DEFINE arms == {a.by} \cap {"start", "refresh"}
<1>3. CASE Trips(a) /\ refresh' = TRUE /\ UNCHANGED <<scan, detectors, dirOf, missed, unseen>>
  <2>1. (Quiet' => Quiet) /\ (Fresh' => Fresh)
    <3>1. \A b \in asks : b.by # "refresh" => b \in asks'
      BY <1>1, <1>3 DEF Trips
    <3>2. QED
      BY <1>1, <1>3, <3>1, AlarmsLast
  <2>2. TruthInv'
    BY <1>1, <1>3, <2>1, SameTruth DEF WatchesInv
  <2>3. Armed' /\ (scan'.at = "idle" => scan'.arms = {})
    BY <1>3 DEF Armed, PollInv
  <2>4. PollInv'
    BY <1>1, <1>3, <2>1, <2>3, PollKept
  <2>5. QED
    BY <1>2, <2>2, <2>4
<1>4. CASE scan.at # "idle" /\ Join(arms)
  <2>1. missed' = TRUE /\ UNCHANGED refresh /\ scan' = [scan EXCEPT !.arms = @ \cup arms]
    BY <1>4 DEF Join
  <2>2. scan'.at = scan.at /\ scan'.arms = scan.arms \cup arms
    BY <2>1 DEF WatchesInv, ShapeInv, ScanInv, NoScan
  <2>3. Armed => Armed'
    BY <1>1, <2>1, <2>2 DEF Armed
  <2>4. ~Quiet' /\ ~Fresh'
    BY <2>1 DEF Quiet, Fresh
  <2>5. PollInv'
    BY <1>1, <1>4, <2>2, <2>3, <2>4, PollKept DEF PollInv
  <2>6. QED
    BY <1>2, <2>4, <2>5 DEF TruthInv
<1>5. CASE scan.at = "idle" /\ Begin(GetPaths(a.paths), arms, a.paths # paths)
  <2>1. PICK list \in Seq(Roots) : list = GetPaths(a.paths) /\ IsInjective(list)
    BY PathsAreInjective DEF WatchesInv, PathsInv
  <2>2. PICK stale : stale = (a.paths # paths) /\ Begin(list, arms, stale)
    BY <1>5, <2>1
  <2>3. (\E new \in SUBSET FreeDetectors : Begun(Kept(list), new)) /\ Lists(list)
    BY <2>1, <2>2, BeginNames DEF WatchesInv
  <2>4. detectors' \in Seq(Detectors) /\ scan'.at = "stale" /\ scan'.todo = detectors'
    BY <2>3 DEF Begun
  <2>5. scan'.found = {} /\ scan'.arms = arms /\ refresh' = refresh /\ missed' = stale
    BY <2>2 DEF Begin, NoScan
  <2>6. Done' = 0
    BY <2>4 DEF Done
  <2>7. FoundTo({}, 0)'
    <3>1. 1..0 = {}
      OBVIOUS
    <3>2. QED
      BY <3>1 DEF FoundTo
  <2>8. ScanTrue'
    <3>1. TodoInv'
      <4>1. PICK q \in Seq(Detectors) : q = detectors'
        BY <2>4
      <4>2. Len(q) <= Len(q) /\ \A i \in 1..Len(q) : 0 + i = i
        OBVIOUS
      <4>3. QED
        BY <2>4, <2>6, <4>1, <4>2 DEF TodoInv
    <3>2. FoundInv'
      BY <2>4, <2>5, <2>6, <2>7 DEF FoundInv, FoundTo
    <3>3. QED
      BY <3>1, <3>2 DEF ScanTrue
  <2>9. TruthInv'
    BY <2>4, <2>8 DEF TruthInv
  <2>10. Armed => Armed'
    <3>1. scan.arms = {}
      BY <1>5 DEF PollInv
    <3>2. a.by \in {"start", "refresh"} => scan'.arms # {}
      BY <2>5
    <3>3. QED
      BY <1>1, <2>5, <3>1, <3>2 DEF Armed
  <2>11. Quiet' => (ToSet(Scanning) = ToSet(GetPaths(paths)))'
    <3> SUFFICES ASSUME Quiet' PROVE (ToSet(Scanning) = ToSet(GetPaths(paths)))'
      OBVIOUS
    <3>1. a.paths = paths
      BY <2>2, <2>5 DEF Quiet
    <3>2. GetPaths(paths)' = list
      BY <1>1, <2>1, <3>1 DEF GetPaths, With
    <3>3. Scanning' = [i \in DOMAIN list |-> list[i]]
      BY <2>3 DEF Lists, Scanning
    <3>4. Scanning' = list
      BY <3>3
    <3>5. QED
      BY <3>2, <3>4
  <2>12. PollInv'
    BY <1>1, <2>4, <2>10, <2>11 DEF PollInv
  <2>13. QED
    BY <1>2, <2>9, <2>12
<1>6. QED
  BY <1>3, <1>4, <1>5 DEF Rescan

\* What is under way is known to the scan that is, or that follows.
TruthsInv == EventsInv /\ HomesInv /\ TruthInv /\ PollInv

\* The steps of the scan.
LEMMA ScansTrue ==
    ASSUME DEAssumption, WatchesInv, TruthsInv, focus' = focus,
           \/ ScanStale \/ ScanRoot \/ ScanSub \/ WatchRoot \/ RootWatched \/ ScanNext \/ EndScan
           \/ \E n \in scan.here : WatchSub(n)
           \/ \E c \in scan.coming : SubWatched(c)
    PROVE  TruthsInv'
<1> DEFINE Steps == \/ ScanRoot \/ ScanSub \/ WatchRoot \/ RootWatched \/ ScanNext
                    \/ \E n \in scan.here : WatchSub(n)
                    \/ \E c \in scan.coming : SubWatched(c)
<1>1. /\ EventsInv' /\ HomesInv' /\ (Quiet' => Quiet) /\ (Fresh' => Fresh)
      /\ UNCHANGED <<disk, items, options, dirOf, detectors>>
  BY ScanTells DEF TruthsInv
<1>2. UNCHANGED <<paths, answer, values, phase, asks>>
  BY DEF ScanStale, ScanRoot, ScanSub, WatchRoot, RootWatched, ScanNext, EndScan, WatchSub,
     SubWatched, WatchBeneath, ScanVars, diskVars, keyVars
<1>3. TruthInv'
  <2>1. CASE ScanStale
    <3>1. /\ scan.at = "stale" /\ results' = results
          /\ scan' = scan \/ (scan'.at = "next" /\ scan' = [scan EXCEPT !.at = "next"])
      BY <2>1 DEF ScanStale, ScanVars, WatchesInv, ShapeInv, ScanInv, NoScan
    <3>2. CASE scan' = scan
      BY <1>1, <3>1, <3>2, SameTruth DEF WatchesInv, TruthsInv
    <3>3. CASE scan' = [scan EXCEPT !.at = "next"]
      <4> SUFFICES ASSUME Fresh' PROVE scan'.at = "next" /\ ScanTrue'
        BY DEF TruthInv
      <4>1. scan'.at = "next" /\ scan'.todo = scan.todo /\ scan'.found = scan.found
        BY <3>3 DEF WatchesInv, ShapeInv, ScanInv, NoScan
      <4>2. ScanTrue
        BY <1>1, <3>1 DEF TruthsInv, TruthInv
      <4>3. TodoInv' /\ Done' = Done
        BY <1>1, <4>1, <4>2, SameDone DEF ScanTrue
      <4>4. FoundTo(scan.found, Done)'
        <5>1. PICK k, found : k = Done /\ found = scan.found
          OBVIOUS
        <5>2. FoundTo(found, k)'
          BY <1>1, <3>1, <4>2, <5>1, SameFound DEF ScanTrue, FoundInv
        <5>3. QED
          BY <4>1, <4>3, <5>1, <5>2 DEF FoundTo
      <4>5. QED
        BY <4>1, <4>3, <4>4 DEF ScanTrue, FoundInv
    <3>4. QED
      BY <3>1, <3>2, <3>3
  <2>2. CASE Steps
    <3> SUFFICES ASSUME Fresh' PROVE scan'.at # "idle" /\ ScanTrue'
      BY DEF TruthInv
    <3>1. scan.at # "idle"
      BY <2>2 DEF ScanRoot, ScanSub, WatchRoot, RootWatched, ScanNext, WatchSub, SubWatched
    <3>2. ScanTrue
      BY <1>1, <3>1 DEF TruthsInv, TruthInv
    <3>3. ShapeInv /\ HomesInv
      BY DEF WatchesInv, TruthsInv
    <3>4. CASE ScanRoot
      BY <3>2, <3>3, <3>4, ScanRootTrue
    <3>5. CASE ScanSub
      BY <3>2, <3>3, <3>5, ScanSubTrue
    <3>6. CASE ScanNext
      BY <3>2, <3>3, <3>6, ScanNextTrue
    <3>7. CASE \/ WatchRoot \/ RootWatched
               \/ \E n \in scan.here : WatchSub(n)
               \/ \E c \in scan.coming : SubWatched(c)
      BY <3>2, <3>3, <3>7, WatchTrue
    <3>8. QED
      BY <2>2, <3>4, <3>5, <3>6, <3>7
  <2>3. CASE EndScan
    <3> SUFFICES ASSUME Fresh' PROVE scan'.at = "idle" /\ Agrees(results, Scanning)'
      BY DEF TruthInv
    <3>1. scan.at # "idle"
      BY <2>3 DEF EndScan
    <3>2. ScanTrue
      BY <1>1, <3>1 DEF TruthsInv, TruthInv
    <3>3. QED
      BY <2>3, <3>2, EndScanTrue DEF WatchesInv, TruthsInv
  <2>4. QED
    BY <2>1, <2>2, <2>3
<1>4. PollInv'
  <2>1. CASE Steps \/ ScanStale
    <3>1. refresh' = refresh /\ scan'.arms = scan.arms /\ scan'.at # "idle"
      <4>1. CASE ScanStale
        BY <4>1 DEF ScanStale, ScanVars, WatchesInv, ShapeInv, ScanInv, NoScan
      <4>2. CASE ScanRoot
        BY <4>2 DEF ScanRoot, ScanVars, WatchesInv, ShapeInv, ScanInv, NoScan
      <4>3. CASE ScanSub \/ ScanNext
        BY <4>3 DEF ScanSub, ScanNext, ScanVars, WatchesInv, ShapeInv, ScanInv, NoScan
      <4>4. CASE WatchRoot \/ RootWatched
        BY <4>4 DEF WatchRoot, RootWatched, WatchBeneath, ScanVars, WatchesInv, ShapeInv, ScanInv,
           NoScan
      <4>5. CASE (\E n \in scan.here : WatchSub(n)) \/ (\E c \in scan.coming : SubWatched(c))
        BY <4>5 DEF WatchSub, SubWatched, ScanVars, WatchesInv, ShapeInv, ScanInv, NoScan
      <4>6. QED
        BY <2>1, <4>1, <4>2, <4>3, <4>4, <4>5
    <3>2. Armed => Armed'
      BY <1>2, <3>1 DEF Armed
    <3>3. QED
      BY <1>1, <1>2, <3>1, <3>2, PollKept DEF TruthsInv
  <2>2. CASE EndScan
    <3>1. scan'.arms = {} /\ refresh' = (refresh \/ (options.polled /\ scan.arms # {}))
      BY <2>2 DEF EndScan, NoScan
    <3>2. options.polled /\ Armed => Armed'
      BY <1>2, <3>1 DEF Armed
    <3>3. QED
      BY <1>1, <1>2, <3>1, <3>2, PollKept DEF TruthsInv
  <2>3. QED
    BY <2>1, <2>2
<1>5. QED
  BY <1>1, <1>3, <1>4 DEF TruthsInv

\* The other steps.
LEMMA OthersTrue ==
    ASSUME DEAssumption, WatchesInv, TruthsInv, focus' = focus,
           \/ UNCHANGED vars
           \/ RefreshPaths
           \/ focus = "poll" /\ \E p \in Roots : MoveAnswer(p)
           \/ \E k \in Keys : HearKey(k) /\ Rest
           \/ EditKeys(\/ \E p \in Folders \cup {None} : EditValue(p)
                       \/ \E k \in Keys : AddKey(k) \/ DeleteKey(k))
           \/ \E s \in stops : StopStep(s)
           \/ \E w \in Watches : Deliver(w)
    PROVE  TruthsInv'
<1>1. /\ EventsInv' /\ HomesInv' /\ (Quiet' => Quiet) /\ (Fresh' => Fresh)
      /\ UNCHANGED <<disk, items, options, dirOf, detectors, results>>
      /\ scan' = scan \/ \E stale : scan' = [scan EXCEPT !.stale = stale]
  <2>1. CASE \E s \in stops : StopStep(s)
    BY <2>1, StopStepTells DEF TruthsInv
  <2>2. CASE \E w \in Watches : Deliver(w)
    BY <2>2, DeliverTells DEF TruthsInv
  <2>3. CASE ~(\E s \in stops : StopStep(s)) /\ ~(\E w \in Watches : Deliver(w))
    BY <2>3, StillTrue DEF TruthsInv
  <2>4. QED
    BY <2>1, <2>2, <2>3
<1>2. TruthInv'
  BY <1>1, SameTruth DEF TruthsInv, WatchesInv
<1>3. scan'.at = scan.at /\ scan'.arms = scan.arms
  BY <1>1 DEF WatchesInv, ShapeInv, ScanInv, NoScan
<1>4. /\ UNCHANGED <<phase, paths, values>>
      /\ answer' = answer \/ (focus = "poll" /\ options.polled)
  <2>1. CASE UNCHANGED vars
    BY <2>1 DEF vars, diskVars, keyVars, engineVars
  <2>2. CASE RefreshPaths
    BY <2>2 DEF RefreshPaths, diskVars, keyVars
  <2>3. CASE focus = "poll" /\ \E p \in Roots : MoveAnswer(p)
    BY <2>3 DEF MoveAnswer, keyVars, engineVars
  <2>4. CASE \E k \in Keys : HearKey(k) /\ Rest
    BY <2>4 DEF HearKey, Rest, diskVars, engineVars
  <2>5. CASE EditKeys(\/ \E p \in Folders \cup {None} : EditValue(p)
                      \/ \E k \in Keys : AddKey(k) \/ DeleteKey(k))
    BY <2>5 DEF EditKeys, EditValue, AddKey, DeleteKey, engineVars
  <2>6. CASE \E s \in stops : StopStep(s)
    BY <2>6 DEF StopStep, diskVars, keyVars
  <2>7. CASE \E w \in Watches : Deliver(w)
    BY <2>7 DEF Deliver, diskVars, keyVars, engineVars
  <2>8. QED
    BY <2>1, <2>2, <2>3, <2>4, <2>5, <2>6, <2>7
<1>5. Armed => Armed'
  <2>1. CASE RefreshPaths
    <3> DEFINE a == [by |-> "refresh", paths |-> paths]
    <3>1. a \in asks' /\ a.by \in {"start", "refresh"}
      BY <2>1 DEF RefreshPaths
    <3>2. QED
      BY <3>1 DEF Armed
  <2>2. CASE UNCHANGED <<asks, refresh>>
    BY <1>3, <2>2 DEF Armed
  <2>3. RefreshPaths \/ UNCHANGED <<asks, refresh>>
    BY DEF vars, MoveAnswer, Rest, EditKeys, StopStep, Deliver, engineVars
  <2>4. QED
    BY <2>1, <2>2, <2>3
<1>6. scan'.at = "idle" => scan'.arms = {}
  BY <1>3 DEF TruthsInv, PollInv
<1>7. PollInv'
  BY <1>1, <1>4, <1>5, <1>6, PollKept DEF TruthsInv
<1>8. QED
  BY <1>1, <1>2, <1>7 DEF TruthsInv

\* The changes, and what makes the engine scan again.
LEMMA ChangesTrue ==
    ASSUME DEAssumption, WatchesInv, TruthsInv, focus' = focus,
           \/ RegistryChanged \/ Start \/ StopNext
           \/ focus = "stop" /\ (Stop \/ FailScan)
           \/ \E d \in Detectors : Fire(d)
           \/ \E x \in drops : Dropped(x)
           \/ \E list \in PathLists : SetPaths(list)
           \/ \E n \in Nodes : MakeDir(n) \/ RemoveDir(n) \/ ToggleItem(n)
    PROVE  TruthsInv'
<1>1. CASE \E n \in Nodes : MakeDir(n) \/ RemoveDir(n) \/ ToggleItem(n)
  <2>1. EventsInv' /\ HomesInv' /\ (Quiet' => Quiet) /\ ~Fresh'
    BY <1>1, DiskAlarms DEF TruthsInv
  <2>2. PICK told : Changed(told)
    BY <1>1 DEF MakeDir, RemoveDir, ToggleItem
  <2>3. UNCHANGED <<options, paths, answer, values, phase, asks, refresh, scan, dirOf, detectors>>
    BY <2>2 DEF Changed, keyVars, engineVars, detectorVars
  <2>4. Armed' = Armed
    BY <2>3 DEF Armed
  <2>5. PollInv'
    BY <2>1, <2>3, <2>4, PollKept DEF TruthsInv, PollInv
  <2>6. QED
    BY <2>1, <2>5 DEF TruthsInv, TruthInv
<1>2. CASE \/ RegistryChanged \/ Start \/ StopNext
           \/ focus = "stop" /\ (Stop \/ FailScan)
           \/ \E d \in Detectors : Fire(d)
           \/ \E x \in drops : Dropped(x)
           \/ \E list \in PathLists : SetPaths(list)
  <2>1. EventsInv' /\ HomesInv' /\ ~Quiet'
    BY <1>2, Alarms DEF TruthsInv
  <2>2. options' = options /\ answer' = answer
    BY <1>2 DEF RegistryChanged, Start, Stop, StopNext, FailScan, Fire, Dropped, SetPaths, diskVars
  <2>3. scan'.at = "idle" => scan'.arms = {}
    <3>1. CASE StopNext
      <4>1. scan'.at = scan.at /\ scan'.arms = scan.arms
        BY <3>1 DEF StopNext, WatchesInv, ShapeInv, ScanInv, NoScan
      <4>2. QED
        BY <4>1 DEF TruthsInv, PollInv
    <3>2. CASE FailScan
      BY <3>2 DEF FailScan, NoScan
    <3>3. CASE ~StopNext /\ ~FailScan
      <4>1. scan' = scan
        BY <1>2, <3>3 DEF RegistryChanged, Start, Stop, Fire, Dropped, SetPaths, engineVars
      <4>2. QED
        BY <4>1 DEF TruthsInv, PollInv
    <3>4. QED
      BY <3>1, <3>2, <3>3
  <2>4. focus = "poll" /\ options.polled /\ phase' = "running" =>
          Armed' \/ (phase = "running" /\ (Armed => Armed'))
    <3>1. CASE Start
      <4> DEFINE a == [by |-> "start", paths |-> paths]
      <4>1. a \in asks' /\ a.by \in {"start", "refresh"}
        BY <3>1 DEF Start
      <4>2. QED
        BY <4>1 DEF Armed
    <3>2. CASE StopNext
      BY <3>2 DEF StopNext
    <3>3. CASE focus = "stop"
      BY <3>3
    <3>4. CASE \/ RegistryChanged
               \/ \E d \in Detectors : Fire(d)
               \/ \E x \in drops : Dropped(x)
               \/ \E list \in PathLists : SetPaths(list)
      <4>1. UNCHANGED <<phase, refresh, scan>> /\ asks \subseteq asks'
        BY <3>4 DEF RegistryChanged, Fire, Dropped, SetPaths, engineVars
      <4>2. QED
        BY <4>1 DEF Armed
    <3>5. QED
      BY <1>2, <3>1, <3>2, <3>3, <3>4
  <2>5. PollInv'
    BY <2>1, <2>2, <2>3, <2>4, PollKept DEF TruthsInv
  <2>6. QED
    BY <2>1, <2>5 DEF TruthsInv, TruthInv, Fresh
<1>3. QED
  BY <1>1, <1>2

LEMMA NextKeepsTruth ==
    ASSUME DEAssumption, InventoryAssumption, WatchesInv, TruthsInv, EngineTypes, [Next]_allVars
    PROVE  TruthsInv' /\ EngineTypes'
<1>1. focus' = focus
  BY DEF Next, Engine, About, allVars
<1>2. HomesInv
  BY DEF TruthsInv
<1>3. CASE \/ ScanStale \/ ScanRoot \/ ScanSub \/ WatchRoot \/ RootWatched \/ ScanNext \/ EndScan
           \/ \E n \in scan.here : WatchSub(n)
           \/ \E c \in scan.coming : SubWatched(c)
  BY <1>1, <1>2, <1>3, ScansTrue, ScanTypes
<1>4. CASE \/ UNCHANGED vars
           \/ RefreshPaths
           \/ focus = "poll" /\ \E p \in Roots : MoveAnswer(p)
           \/ \E k \in Keys : HearKey(k) /\ Rest
           \/ EditKeys(\/ \E p \in Folders \cup {None} : EditValue(p)
                       \/ \E k \in Keys : AddKey(k) \/ DeleteKey(k))
           \/ \E s \in stops : StopStep(s)
           \/ \E w \in Watches : Deliver(w)
  <2>1. TruthsInv'
    BY <1>1, <1>4, OthersTrue
  <2>2. EngineTypes'
    BY <1>2, <1>4, TypesStay
  <2>3. QED
    BY <2>1, <2>2
<1>5. CASE \/ RegistryChanged \/ Start \/ StopNext
           \/ focus = "stop" /\ (Stop \/ FailScan)
           \/ \E d \in Detectors : Fire(d)
           \/ \E x \in drops : Dropped(x)
           \/ \E list \in PathLists : SetPaths(list)
           \/ \E n \in Nodes : MakeDir(n) \/ RemoveDir(n) \/ ToggleItem(n)
  <2>1. TruthsInv'
    BY <1>1, <1>5, ChangesTrue
  <2>2. EngineTypes'
    BY <1>2, <1>5, TypesStay
  <2>3. QED
    BY <2>1, <2>2
<1>6. CASE \E a \in asks : Rescan(a)
  <2>1. TruthsInv'
    BY <1>1, <1>6, RescanTrue DEF TruthsInv
  <2>2. EngineTypes'
    BY <1>6, RescanTypes
  <2>3. QED
    BY <2>1, <2>2
<1>7. CASE Works
  BY <1>3, <1>4, <1>5, <1>6, <1>7 DEF Works
<1>8. CASE Start \/ About("stop", Stop \/ FailScan)
  BY <1>5, <1>8 DEF About
<1>9. CASE \E n \in MovingNodes : MakeDir(n) \/ RemoveDir(n) \/ ToggleItem(n)
  BY <1>5, <1>9 DEF InventoryAssumption
<1>10. CASE (\E list \in PathLists : SetPaths(list)) \/ (\E p \in Roots : About("poll", MoveAnswer(p)))
  BY <1>4, <1>5, <1>10 DEF About
<1>11. CASE EditKeys(\/ \E p \in Folders \cup {None} : EditValue(p)
                     \/ \E k \in Keys : AddKey(k) \/ DeleteKey(k))
  BY <1>4, <1>11
<1>12. CASE UNCHANGED vars
  BY <1>4, <1>12
<1>13. QED
  BY <1>7, <1>8, <1>9, <1>10, <1>11, <1>12 DEF Next, Engine, About, allVars

LEMMA TruthBegins ==
    ASSUME DEAssumption, Init
    PROVE  TruthsInv /\ EngineTypes
<1>1. /\ phase = "new" /\ scan = NoScan /\ answer = None /\ detectors = <<>> /\ results = {}
      /\ events = [w \in Watches |-> <<>>] /\ watchOf = [w \in Watches |-> NoTerm]
      /\ dirOf = [d \in Detectors |-> CHOOSE n \in Roots : TRUE]
      /\ options \in Options /\ changes = 0 /\ refresh = FALSE /\ timer = {} /\ cut = {}
  BY DEF Init, DetectInit
<1>2. ~Quiet
  BY <1>1 DEF Quiet, Alarmed
<1>3. EventsInv
  <2>1. <<>> \in Seq(Occurrence)
    OBVIOUS
  <2>2. QED
    BY <1>1, <2>1 DEF EventsInv
<1>4. HomesInv
  BY DEF Init, DetectInit, HomesInv, DEAssumption
<1>5. PollInv
  <2>1. NoScan.arms = {}
    BY DEF NoScan
  <2>2. QED
    BY <1>1, <1>2, <2>1 DEF PollInv
<1>6. EngineTypes
  <2>1. IsInjective(<<>>) /\ NoScan.found = {}
    BY DEF IsInjective, NoScan
  <2>2. (CHOOSE n \in Roots : TRUE) \in Roots /\ NoTerm \in Term
    BY DEF DEAssumption, Roots, NoTerm, Term
  <2>3. changes \in 0..MaxChanges
    BY <1>1 DEF DEAssumption
  <2>4. QED
    BY <1>1, <2>1, <2>2, <2>3 DEF EngineTypes
<1>7. QED
  BY <1>2, <1>3, <1>4, <1>5, <1>6 DEF TruthsInv, TruthInv, Fresh

\* Once nothing is under way the last scan was about what is there now.
LEMMA TruthsShow ==
    ASSUME WatchesInv, TruthsInv
    PROVE  ResultsAreTrue
<1> SUFFICES ASSUME AtRest, ~missed, ~unseen
             PROVE  /\ Agrees(results, Scanning)
                    /\ \/ ToSet(Scanning) = ToSet(GetPaths(paths))
                       \/ options.polled /\ refresh
  BY DEF ResultsAreTrue
<1>1. Quiet /\ Fresh
  BY DEF AtRest, Fresh, Quiet, Alarmed, Alarming
<1>2. Agrees(results, Scanning)
  BY <1>1 DEF AtRest, TruthsInv, TruthInv
<1>3. Armed => refresh
  BY DEF AtRest, Armed, TruthsInv, PollInv
<1>4. QED
  BY <1>1, <1>2, <1>3 DEF AtRest, TruthsInv, PollInv

\* The rest of the types of the commands.
LEMMA CommandsTyped ==
    ASSUME PMAssumption, PMInv, PMTypeOK, [PMNext]_pmVars
    PROVE  PMTypeOK'
<1>1. DiskInv' /\ clean' \in BOOLEAN
  BY NextKeeps DEF PMInv, DiskInv
<1>2. invalid' \subseteq Plugins
  <2>1. ASSUME NEW p \in Plugins, Symlink(p) \/ ReadName(p) \/ WriteName(p) \/ RestoreName(p)
        PROVE  invalid' = invalid
    BY <2>1 DEF Symlink, ReadName, WriteName, RestoreName, Disk
  <2>2. ASSUME NEW p \in Plugins, Detect(p) \/ Fetch(p) \/ Extract(p) \/ RemovePlugin(p)
        PROVE  invalid' \subseteq invalid \cup {p}
    BY <2>2 DEF Detect, Fetch, Extract, RemovePlugin
  <2>3. CASE Choose \/ Refuse \/ Update \/ Yarn \/ YarnExits \/ Finish \/ Die
    BY <2>3 DEF Choose, Refuse, Update, Yarn, YarnExits, Finish, Die, Disk, PMTypeOK
  <2>4. ASSUME NEW kind \in Kinds, NEW want \in SUBSET Plugins, Run(kind, want)
        PROVE  invalid' = invalid
    BY <2>4 DEF Run, Disk
  <2>5. QED
    BY <2>1, <2>2, <2>3, <2>4 DEF PMNext, pmVars, PMTypeOK
<1>3. runs' \in 0..MaxCommands
  <2>1. ASSUME NEW p \in Plugins, ReadName(p) \/ WriteName(p) \/ RestoreName(p)
        PROVE  runs' = runs
    BY <2>1 DEF ReadName, WriteName, RestoreName, Fails, Step
  <2>2. ASSUME NEW p \in Plugins, Detect(p) \/ Fetch(p) \/ Extract(p) \/ RemovePlugin(p) \/ Symlink(p)
        PROVE  runs' = runs
    BY <2>2 DEF Detect, Fetch, Extract, RemovePlugin, Symlink, Step, End
  <2>3. ASSUME Choose \/ Refuse \/ Update \/ Yarn \/ YarnExits \/ Finish \/ Die
        PROVE  runs' = runs
    BY <2>3 DEF Step, End, Choose, Refuse, Update, Yarn, YarnExits, Finish, Die, PMTypeOK
  <2>4. ASSUME NEW kind \in Kinds, NEW want \in SUBSET Plugins, Run(kind, want)
        PROVE  runs' = runs + 1 /\ runs < MaxCommands
    BY <2>4 DEF Run
  <2>5. runs' = runs \/ (runs' = runs + 1 /\ runs < MaxCommands)
    BY <2>1, <2>2, <2>3, <2>4 DEF PMNext, pmVars
  <2>6. QED
    BY <2>5 DEF PMTypeOK, PMAssumption
<1>4. command \in CommandType /\ (command.at # "idle" => command.kind \in Kinds)
  BY DEF PMInv, DiskInv, PMTypeOK, Idle
<1>5. ASSUME NEW p \in Plugins,
             \/ Detect(p) \/ Fetch(p) \/ Extract(p) \/ RemovePlugin(p) \/ Symlink(p)
             \/ ReadName(p) \/ WriteName(p) \/ RestoreName(p)
      PROVE  /\ last' = last \/ last' = "failed"
             /\ command' = Idle \/ (command'.kind \in Kinds /\ command'.at \in Places)
  <2>1. command.at \in Places /\ command.kind \in Kinds
    BY <1>4, <1>5 DEF Detect, Fetch, Extract, RemovePlugin, Symlink, ReadName, WriteName,
       RestoreName, Places
  <2>2. last' = last \/ last' = "failed"
    <3>1. CASE Detect(p) \/ Fetch(p) \/ Extract(p) \/ RemovePlugin(p) \/ Symlink(p)
      BY <3>1 DEF Detect, Fetch, Extract, RemovePlugin, Symlink, Step, End
    <3>2. CASE ReadName(p) \/ WriteName(p) \/ RestoreName(p)
      BY <3>2 DEF ReadName, WriteName, RestoreName, Step, Fails
    <3>3. QED
      BY <1>5, <3>1, <3>2
  <2>3. CASE Detect(p) \/ RemovePlugin(p) \/ Symlink(p)
    BY <1>4, <2>1, <2>3 DEF Detect, RemovePlugin, Symlink, Step, End, CommandType
  <2>4. CASE Fetch(p) \/ Extract(p)
    BY <1>4, <2>1, <2>4 DEF Fetch, Extract, Step, End, CommandType, Places
  <2>5. CASE ReadName(p)
    <3>1. command'.kind = command.kind /\ command'.at \in {command.at, "restore"}
      BY <1>4, <2>5 DEF ReadName, Step, Fails, CommandType
    <3>2. QED
      BY <2>1, <2>2, <3>1 DEF Places
  <2>6. CASE WriteName(p) \/ RestoreName(p)
    <3>1. command'.kind = command.kind /\ command'.at \in {command.at, "restore"}
      BY <1>4, <2>6 DEF WriteName, RestoreName, Step, Fails, CommandType
    <3>2. QED
      BY <2>1, <2>2, <3>1 DEF Places
  <2>7. QED
    BY <1>5, <2>2, <2>3, <2>4, <2>5, <2>6
<1>6. ASSUME Choose \/ Refuse \/ Update \/ Yarn \/ YarnExits \/ Finish \/ Die
      PROVE  /\ last' = last \/ last' \in {"failed", "died"} \/ last' \in Kinds
             /\ command' = Idle \/ (command'.kind \in Kinds /\ command'.at \in Places)
  <2>1. CASE Choose
    <3>1. command.kind \in Kinds
      BY <1>4, <2>1 DEF Choose
    <3>2. \/ command' = Idle /\ last' \in {"failed", command.kind}
          \/ /\ last' = last /\ command'.kind = command.kind
             /\ command'.at \in {"fetch", "remove", "symlink"}
      BY <1>4, <2>1 DEF Choose, Step, End, CommandType
    <3>3. QED
      BY <1>4, <3>1, <3>2 DEF CommandType, Places
  <2>2. CASE Update
    <3>1. command.kind \in Kinds
      BY <1>4, <2>2 DEF Update
    <3>2. \/ command' = Idle /\ last' \in {"failed", command.kind}
          \/ /\ last' = last
             /\ \E todo : command' = [command EXCEPT !.at = "rename", !.todo = todo]
      BY <2>2 DEF Update, Step, End
    <3>3. QED
      BY <1>4, <3>1, <3>2 DEF CommandType, Places
  <2>3. CASE Yarn \/ YarnExits
    BY <1>4, <2>3 DEF Yarn, YarnExits, Step, CommandType, Places
  <2>4. CASE Refuse \/ Finish \/ Die
    BY <1>4, <2>4 DEF Refuse, Finish, Die, End
  <2>5. QED
    BY <1>6, <2>1, <2>2, <2>3, <2>4
<1>7. last' \in Kinds \cup {"none", "failed", "died"}
  <2>1. CASE \E kind \in Kinds, want \in SUBSET Plugins : Run(kind, want)
    BY <2>1 DEF Run, PMTypeOK
  <2>2. CASE UNCHANGED pmVars
    BY <2>2 DEF pmVars, PMTypeOK
  <2>3. QED
    BY <1>5, <1>6, <2>1, <2>2 DEF PMNext, PMTypeOK
<1>8. command' = Idle \/ (command'.kind \in Kinds /\ command'.at \in Places)
  <2>1. CASE \E kind \in Kinds, want \in SUBSET Plugins : Run(kind, want)
    BY <2>1 DEF Run, Idle, Places
  <2>2. CASE UNCHANGED pmVars
    BY <2>2 DEF pmVars, PMTypeOK
  <2>3. QED
    BY <1>5, <1>6, <2>1, <2>2 DEF PMNext
<1>9. QED
  BY <1>1, <1>2, <1>3, <1>7, <1>8 DEF DiskInv, PMTypeOK

\* Every variable of the engine has its type.
LEMMA EngineTyped ==
    ASSUME DEAssumption, WatchesInv, HomesInv, EngineTypes
    PROVE  DetectTypeOK
<1>1. ToSet(detectors) \subseteq Detectors /\ ToSet(scan.todo) \subseteq Detectors
  <2>1. detectors \in Seq(Detectors) /\ scan.todo \in Seq(Detectors)
    BY DEF WatchesInv, ShapeInv, KindsInv, ScanInv
  <2>2. \A s \in Seq(Detectors) : ToSet(s) \subseteq Detectors
    BY SeqSets
  <2>3. QED
    BY <2>1, <2>2
<1>2. QED
  BY <1>1 DEF DetectTypeOK, EngineTypes, HomesInv, WatchesInv, PathsInv, ShapeInv, KindsInv, ScanInv

\* When everything a change has set off is done, an engine that runs shows what is in the
\* directories it looks at, and what it knows of the registry is what the keys hold: for any
\* directories, items, search paths, settings and keys, any number of detectors and watches,
\* any number of changes, and whatever order the scans, the watches, the timers and the stops
\* come in (detect-engine.js:317, :354, detector.js:147, :198, registry-watcher.js:84).
THEOREM DetectionCorrect ==
    ASSUME RWAssumption, DEAssumption, PMAssumption, InventoryAssumption
    PROVE  Spec => []DetectionIsTrue
<1> DEFINE Inv == WatchesInv /\ TruthsInv /\ EngineTypes /\ KeysInv /\ PMInv /\ PMTypeOK
<1>1. Init => Inv
  <2> SUFFICES ASSUME Init PROVE Inv
    OBVIOUS
  <2>1. WatchesInv
    BY WatchesBegin DEF Init
  <2>2. TruthsInv /\ EngineTypes
    BY TruthBegins
  <2>3. KeysInv
    BY KeysBegin
  <2>4. PMInv
    BY InitKeeps DEF Init
  <2>5. PMTypeOK
    BY DEF Init, PMInit, PMTypeOK, PMAssumption
  <2>6. QED
    BY <2>1, <2>2, <2>3, <2>4, <2>5
<1>2. Inv /\ [Next]_allVars => Inv'
  <2> SUFFICES ASSUME Inv, [Next]_allVars PROVE Inv'
    OBVIOUS
  <2>1. WatchesInv'
    BY NextKeepsWatches
  <2>2. TruthsInv' /\ EngineTypes'
    BY NextKeepsTruth
  <2>3. KeysInv'
    BY NextKeepsKeys
  <2>4. [PMNext]_pmVars
    BY DEF Next, Engine, About, allVars, pmVars
  <2>5. PMInv' /\ PMTypeOK'
    BY <2>4, NextKeeps, CommandsTyped
  <2>6. QED
    BY <2>1, <2>2, <2>3, <2>5
<1>3. Inv => DetectionIsTrue
  <2> SUFFICES ASSUME Inv PROVE DetectionIsTrue
    OBVIOUS
  <2>1. RegistryTypeOK /\ DetectTypeOK /\ PMTypeOK
    BY EngineTyped DEF KeysInv, TruthsInv
  <2>2. ResultsAreTrue
    BY TruthsShow
  <2>3. KeysAreMirrored
    BY KeysMirror
  <2>4. QED
    BY <2>1, <2>2, <2>3 DEF DetectionIsTrue, TypeOK
<1>4. QED
  <2> HIDE DEF Inv
  <2>1. QED
    BY <1>1, <1>2, <1>3, PTL DEF Spec
================================================================================
