----------------------------- MODULE PluginInstall -----------------------------
(***************************************************************************)
(* `appcd pm` (packages/appcd-core/src/plugins.js): commands that install, *)
(* uninstall and link plugins in the directory `plugins` of the daemon's   *)
(* home.  Each version of a plugin is a package in a directory of its own, *)
(* and a workspace of the package.json of `plugins`, in which yarn is run. *)
(* Since two workspaces may not share a name, every package is given       *)
(* another name while yarn runs.                                           *)
(*                                                                         *)
(* A command is a process: it may die between any two steps, or in the     *)
(* middle of writing a file, and all that is left is what is on the disk.  *)
(* The registry (npm), yarn and the other files of a package are external. *)
(* Commands run one at a time; nothing in the code makes them.             *)
(***************************************************************************)
EXTENDS FiniteSets, Naturals

CONSTANTS
    Plugins,       \* the versions of plugins, as name@version
    Defaults,      \* those that `default` stands for
    Linkable,      \* the plugins in yarn's directory of links
    MaxCommands    \* bound: commands that are run

ASSUME PMAssumption ==
    Defaults \subseteq Plugins /\ Linkable \subseteq Plugins /\ MaxCommands \in Nat

VARIABLES
    json,      \* plugin -> its package.json: "none", "own" (its own name), "renamed" or "bad"
    entries,   \* the version directories that exist
    links,     \* those that are symbolic links, to a package of the user's
    workspaces, \* the workspaces in the package.json of `plugins`
    invalid,   \* the plugins that were moved to `invalid`
    command,   \* the command that runs
    runs,      \* how many commands were run
    clean,     \* ghost: no command died, and no name failed to be changed or restored
    last       \* ghost: the last command when it finished, else how it ended

pmVars == <<json, entries, links, workspaces, invalid, command, runs, clean, last>>

Idle == [kind |-> "none", at |-> "idle", want |-> {}, todo |-> {}, installed |-> {}, chosen |-> {},
         spaces |-> {}, work |-> {}, revert |-> {}, due |-> {}, error |-> FALSE]

Kinds == {"install", "default", "uninstall", "link", "check"}
Places == {"detect", "choose", "fetch", "extract", "remove", "symlink", "update", "rename", "yarn",
           "restore"}

PMTypeOK ==
    /\ json \in [Plugins -> {"none", "own", "renamed", "bad"}]
    /\ links \subseteq entries /\ entries \subseteq Plugins
    /\ workspaces \subseteq Plugins /\ invalid \subseteq Plugins
    /\ command = Idle \/ (command.kind \in Kinds /\ command.at \in Places)
    /\ \A p \in Plugins : p \notin entries => json[p] = "none"
    /\ runs \in 0..MaxCommands /\ clean \in BOOLEAN
    /\ last \in Kinds \cup {"none", "failed", "died"}

PMInit ==
    /\ json = [p \in Plugins |-> "none"] /\ entries = {} /\ links = {}
    /\ workspaces = {} /\ invalid = {} /\ command = Idle /\ runs = 0
    /\ clean = TRUE /\ last = "none"

-------------------------------------------------------------------------------
Step(c) == command' = c /\ UNCHANGED <<runs, clean, last>>
End(how) == command' = Idle /\ last' = how /\ UNCHANGED <<runs, clean>>
Disk == <<json, entries, links, workspaces, invalid>>

Run(kind, want) ==
    /\ command = Idle /\ runs < MaxCommands /\ runs' = runs + 1
    /\ command' = [Idle EXCEPT !.kind = kind, !.at = "detect", !.want = want, !.todo = entries]
    /\ UNCHANGED <<Disk, clean, last>>

\* detectInstalled(): reads each package.json in turn.  A directory that has
\* none is passed over; one whose name is another's, or that cannot be read, is
\* unlinked or moved to `invalid`, over what is there.
Detect(p) ==
    LET odd == json[p] \in {"renamed", "bad"}
    IN  /\ command.at = "detect" /\ p \in command.todo
        /\ entries' = IF odd THEN entries \ {p} ELSE entries
        /\ links' = IF odd THEN links \ {p} ELSE links
        /\ json' = IF odd THEN [json EXCEPT ![p] = "none"] ELSE json
        /\ invalid' = IF odd /\ p \notin links THEN invalid \cup {p} ELSE invalid
        /\ Step([command EXCEPT !.todo = @ \ {p},
                  !.installed = IF json[p] = "own" THEN @ \cup {p} ELSE @])
        /\ UNCHANGED workspaces

\* What the command is about.  A plugin that is installed cannot be again,
\* and one that is not cannot be removed; `default` leaves out those it cannot
\* install; link() takes the links, and the workspaces there are.
Choose ==
    LET c == command
        new == c.want \ c.installed
        olds == c.want \cap c.installed
        go(at, chosen, spaces) ==
            Step([c EXCEPT !.at = at, !.todo = chosen, !.chosen = chosen, !.spaces = spaces])
    IN  /\ c.at = "detect" /\ c.todo = {}
        /\ \/ c.kind = "install" /\ (IF olds # {} THEN End("failed")
                                     ELSE go("fetch", new, c.installed \cup new))
           \/ c.kind = "default" /\ go("fetch", new, c.installed \cup new)
           \/ c.kind = "uninstall" /\ (IF olds = {} THEN End("failed")
                                       ELSE go("remove", olds, c.installed \ olds))
           \/ c.kind = "link" /\ go("symlink", Linkable, workspaces)
           \/ c.kind = "check" /\ End(c.kind)
        /\ UNCHANGED Disk

\* The registry refuses, or the network does: before or while a plugin is fetched.
Refuse ==
    /\ command.at = "fetch" /\ command.todo # {}
    /\ End("failed") /\ UNCHANGED Disk

\* install(): the directory is emptied, then the package is extracted into it;
\* its package.json may be there before the rest, or not, when that fails.
Fetch(p) ==
    /\ command.at = "fetch" /\ p \in command.todo
    /\ entries' = entries \cup {p} /\ links' = links \ {p} /\ json' = [json EXCEPT ![p] = "none"]
    /\ Step([command EXCEPT !.at = "extract", !.work = {p}])
    /\ UNCHANGED <<workspaces, invalid>>
Extract(p) ==
    /\ command.at = "extract" /\ p \in command.work
    /\ \/ /\ json' = [json EXCEPT ![p] = "own"]
          /\ Step([command EXCEPT !.at = "fetch", !.work = {}, !.todo = @ \ {p}])
       \/ /\ \E left \in {"none", "own"} : json' = [json EXCEPT ![p] = left]
          /\ End("failed")
    /\ UNCHANGED <<entries, links, workspaces, invalid>>

\* uninstall(): the directory is removed; when that fails some of it is left.
RemovePlugin(p) ==
    /\ command.at = "remove" /\ p \in command.todo
    /\ json' = [json EXCEPT ![p] = "none"] /\ links' = links \ {p}
    /\ \/ entries' = entries \ {p} /\ Step([command EXCEPT !.todo = @ \ {p}])
       \/ p \notin links /\ entries' = entries /\ End("failed")
    /\ UNCHANGED <<workspaces, invalid>>

\* link(): what is there makes way for a symbolic link.  When it cannot be removed, or
\* not wholly, or the link cannot be made, that is logged and the other links are not
\* made: link() goes on with updateMonorepo().
Symlink(p) ==
    LET linked == entries' = entries \cup {p} /\ links' = links \cup {p} /\ json' = [json EXCEPT ![p] = "own"]
        gone   == entries' = entries \ {p} /\ links' = links \ {p} /\ json' = [json EXCEPT ![p] = "none"]
        stays  == /\ UNCHANGED <<entries, links>>
                  /\ json' = json \/ (p \notin links /\ json' = [json EXCEPT ![p] = "none"])
    IN  /\ command.at = "symlink" /\ p \in command.todo
        /\ \/ linked /\ Step([command EXCEPT !.todo = @ \ {p}])
           \/ (gone \/ stays) /\ Step([command EXCEPT !.todo = {}])
        /\ UNCHANGED <<workspaces, invalid>>

\* updateMonorepo(): the workspaces that are directories are written down, which may
\* fail and leave a file that no command can read; an installation of nothing that
\* changes nothing leaves them as they are.
Update ==
    LET c == command
        valid == {p \in c.spaces : p \in entries \ links}
        same == c.kind \in {"install", "default"} /\ c.chosen = {} /\ c.spaces = workspaces
    IN  /\ c.at \in {"fetch", "remove", "symlink"} /\ c.todo = {}
        /\ \/ same /\ End(c.kind) /\ UNCHANGED workspaces
           \/ ~same /\ workspaces' = valid /\ Step([c EXCEPT !.at = "rename", !.todo = valid])
           \/ ~same /\ workspaces' \in {workspaces, {}} /\ End("failed")
        /\ UNCHANGED <<json, entries, links, invalid>>

\* One of the promises is rejected: the command fails, and the `finally` clause begins
\* with what has been read by then, if it has not begun yet.
Fails(c) ==
    /\ command' = [c EXCEPT !.error = TRUE, !.at = "restore",
                      !.due = IF c.at = "rename" THEN c.revert ELSE c.due]
    /\ clean' = FALSE /\ UNCHANGED <<runs, last>>

\* Every package gets its other name, all of them at once: its package.json is
\* read, and then written; either may fail.
ReadName(p) ==
    /\ command.at \in {"rename", "restore"} /\ p \in command.todo
    /\ LET read == [command EXCEPT !.todo = @ \ {p}]
       IN \/ json[p] = "own" /\ Step([read EXCEPT !.work = @ \cup {p}, !.revert = @ \cup {p}])
          \/ Fails(read)
    /\ UNCHANGED Disk
WriteName(p) ==
    /\ command.at \in {"rename", "restore"} /\ p \in command.work
    /\ LET written == [command EXCEPT !.work = @ \ {p}]
       IN \/ json' = [json EXCEPT ![p] = "renamed"] /\ Step(written)
          \/ (\E left \in {json[p], "bad"} : json' = [json EXCEPT ![p] = left]) /\ Fails(written)
    /\ UNCHANGED <<entries, links, workspaces, invalid>>

\* The names are changed; yarn runs.  How it exits is logged.
Yarn ==
    /\ command.at = "rename" /\ command.todo = {} /\ command.work = {}
    /\ Step([command EXCEPT !.at = "yarn"]) /\ UNCHANGED Disk
\* mutant: the names are not restored.
YarnExitsAtOnce ==
    /\ command.at = "yarn" /\ Step([command EXCEPT !.at = "restore"]) /\ UNCHANGED Disk
YarnExits ==
    /\ command.at = "yarn" /\ Step([command EXCEPT !.at = "restore", !.due = command.revert]) /\ UNCHANGED Disk

\* The `finally` clause: the packages whose package.json was read get their name
\* back, all at once.  When one could not be read the others may still be on
\* their way to their other name.  Any of them may fail: its package.json cannot be
\* read, its directory in node_modules not be pruned (two of them remove the same
\* parent, under tailgate names that differ), or the name not be written.
RestoreName(p) ==
    /\ command.at = "restore" /\ p \in command.due
    /\ LET restored == [command EXCEPT !.due = @ \ {p}]
       IN \/ /\ json[p] # "bad" /\ json' = [json EXCEPT ![p] = "own"]
             /\ Step(restored)
          \/ (\E left \in {json[p], "bad"} : json' = [json EXCEPT ![p] = left]) /\ Fails(restored)
    /\ UNCHANGED <<entries, links, workspaces, invalid>>
Finish ==
    /\ command.at = "restore" /\ command.due = {}
    /\ command.todo = {} /\ command.work = {}
    /\ End(IF command.error THEN "failed" ELSE command.kind) /\ UNCHANGED Disk

\* The process dies; a package.json that was being written may be cut short.
Die ==
    /\ command # Idle
    /\ \E torn \in SUBSET (command.work \cup command.due) :
          /\ torn # {} => Cardinality(torn) = 1 /\ command.at \in {"rename", "restore"}
          /\ json' = [p \in Plugins |-> IF p \in torn THEN "bad" ELSE json[p]]
    /\ command' = Idle /\ last' = "died" /\ clean' = FALSE
    /\ UNCHANGED <<entries, links, workspaces, invalid, runs>>

PMNext ==
    \/ \E kind \in Kinds, want \in SUBSET Plugins :
          /\ want # {} <=> kind \in {"install", "uninstall", "default"}
          /\ kind = "default" => want = Defaults
          /\ Run(kind, want)
    \/ Choose \/ Refuse \/ Update \/ Yarn \/ YarnExits \/ Finish \/ Die
    \/ \E p \in Plugins : \/ Detect(p) \/ Fetch(p) \/ Extract(p) \/ RemovePlugin(p) \/ Symlink(p)
                          \/ ReadName(p) \/ WriteName(p) \/ RestoreName(p)

-------------------------------------------------------------------------------
\* The plugins that the next command will find: packages with their own name.
Listed == {p \in entries : json[p] = "own"}

(* Between two commands, as long as none of them died and no package.json      *)
(* failed to be renamed or restored, every package has its own name again and   *)
(* no plugin was moved to `invalid`; and an installation or a removal that says *)
(* it is finished leaves as workspaces exactly the plugins that are installed,  *)
(* links aside, whatever the commands before it left behind (plugins.js:216,    *)
(* :554, :803, :851).                                                           *)
PluginsAreKept ==
    command = Idle =>
        /\ clean => invalid = {} /\ \A p \in Plugins : json[p] \in {"none", "own"}
        /\ last \in {"install", "default", "uninstall"} => workspaces \ links = Listed \ links
================================================================================
