-------------------------------- MODULE Telemetry --------------------------------
(***************************************************************************)
(* Telemetry events on disk and the loop that sends them: Telemetry        *)
(* (packages/appcd-telemetry/src/telemetry.js).  An event is a file, that  *)
(* is read or not; what is in it, the crash reports' name and the options  *)
(* of the request are left out.                                            *)
(***************************************************************************)
EXTENDS Integers, FiniteSets

CONSTANTS
    Events,        \* the events that may be added
    Faulty,        \* bound: those whose file may fail to be read or removed
    SendBatchSize  \* config.sendBatchSize

TMAssumption == Faulty \subseteq Events /\ SendBatchSize \in Nat \ {0}

VARIABLES
    files,     \* eventsDir: the events on disk
    posted,    \* the events that the server has taken
    enabled,   \* config.enabled with a url
    running,
    sendTimer,
    waited,    \* sendInterval has passed since lastSend
    loop,      \* the sendEvents() under way
    pending,   \* the promise of the last sendEvents()
    flushing,  \* shutdown()
    owed       \* what was on disk when shutdown() flushed, and was not to be sent in vain

tmVars == <<files, posted, enabled, running, sendTimer, waited, loop, pending, flushing, owed>>

Idle == [at |-> "none", flush |-> FALSE, left |-> {}, batch |-> {}]

TMTypeOK ==
    /\ files \subseteq Events
    /\ posted \subseteq Events
    /\ enabled \in BOOLEAN /\ running \in BOOLEAN /\ sendTimer \in BOOLEAN /\ waited \in BOOLEAN
    /\ loop \in [at : {"none", "begin", "read", "post", "remove"}, flush : BOOLEAN,
                 left : SUBSET Events, batch : SUBSET Events]
    /\ pending \in {"resolved", "pending", "rejected"}
    /\ flushing \in {"none", "waiting", "sending", "done"}
    /\ owed \subseteq Events

Init ==
    /\ files \in SUBSET Events
    /\ posted = {} /\ enabled \in BOOLEAN
    /\ running = FALSE /\ sendTimer = FALSE /\ waited = TRUE
    /\ loop = Idle /\ pending = "resolved" /\ flushing = "none" /\ owed = {}
-------------------------------------------------------------------------------
\* addEvent(), and addCrash() for a crash with a message
AddEvent(e) ==
    /\ enabled /\ e \notin files /\ e \notin posted
    /\ files' = files \cup {e}
    /\ UNCHANGED <<posted, enabled, running, sendTimer, waited, loop, pending, flushing, owed>>

\* The loop begins in a microtask of its own.
SendEvents(flush) == loop' = [Idle EXCEPT !.at = "begin", !.flush = flush] /\ pending' = "pending"

\* init(): the loop is started.
Start ==
    /\ ~running /\ flushing = "none"
    /\ running' = TRUE /\ SendEvents(FALSE)
    /\ UNCHANGED <<files, posted, enabled, sendTimer, waited, flushing, owed>>

\* updateConfig(), when the 'telemetry' section changes: shutdown() does not end that.
UpdateConfig ==
    /\ running \/ flushing # "none"
    /\ enabled' = ~enabled
    /\ UNCHANGED <<files, posted, running, sendTimer, waited, loop, pending, flushing, owed>>

\* Mutant of ScheduleSendEvents: no timer after a failure.
ScheduleSendEventsUnlessFailed(how) == sendTimer' = (running /\ ~loop.flush /\ how = "resolved")

\* scheduleSendEvents(), and the end of the loop
ScheduleSendEvents(how) == sendTimer' = (running /\ ~loop.flush)

\* Mutant of Ends: the promise of a flush is not settled.
EndsFlushUnsettled(how) ==
    /\ loop' = Idle /\ pending' = how
    /\ ScheduleSendEvents(how)
    /\ UNCHANGED <<flushing, running, enabled>>

\* The promise of the loop settles; shutdown() goes on when its flush is over.
Ends(how) ==
    /\ loop' = Idle /\ pending' = how
    /\ ScheduleSendEvents(how)
    /\ flushing' = IF loop.flush THEN "done" ELSE flushing
    /\ UNCHANGED <<running, enabled>>

Begin ==
    /\ loop.at = "begin"
    /\ IF ~enabled \/ (~loop.flush /\ ~waited)
         THEN Ends("resolved")
         ELSE /\ loop' = [loop EXCEPT !.at = "read", !.left = files]
              /\ UNCHANGED <<enabled, running, sendTimer, pending, flushing>>
    /\ owed' = IF enabled THEN owed ELSE {}
    /\ UNCHANGED <<files, posted, waited>>

\* await fs.readJson(file) ...
Listed(e) == loop.at = "read" /\ e \in loop.left

ReadFile(e) ==
    /\ Listed(e)
    /\ LET batch == loop.batch \cup {e}
       IN loop' = [loop EXCEPT !.left = @ \ {e}, !.batch = batch,
                     !.at = IF Cardinality(batch) >= SendBatchSize THEN "post" ELSE @]
    /\ UNCHANGED <<files, posted, enabled, running, sendTimer, waited, pending, flushing, owed>>

\* ... may fail: the file is no JSON, or is not to be read just now, when there are too
\* many open files.  The file is removed, whatever the error.
ReadFails(e) ==
    /\ Listed(e) /\ e \in Faulty
    /\ files' = files \ {e}
    /\ loop' = [loop EXCEPT !.left = @ \ {e}] /\ owed' = owed \ {e}
    /\ UNCHANGED <<posted, enabled, running, sendTimer, waited, pending, flushing>>

\* The list is at its end: what is left over is a batch too.
ReadAll ==
    /\ loop.at = "read" /\ loop.left = {}
    /\ IF loop.batch # {}
         THEN /\ loop' = [loop EXCEPT !.at = "post"]
              /\ UNCHANGED <<enabled, running, sendTimer, waited, pending, flushing>>
         ELSE Ends("resolved") /\ waited' = FALSE
    /\ UNCHANGED <<files, posted, owed>>

\* Mutant of Accepted: the files are removed although the server has not answered.
AcceptedUnseen ==
    /\ loop.at = "post"
    /\ loop' = [loop EXCEPT !.at = "remove"]
    /\ UNCHANGED <<files, posted, enabled, running, sendTimer, waited, pending, flushing, owed>>

\* sendBatch(): the server takes the batch ...
Accepted ==
    /\ loop.at = "post"
    /\ posted' = posted \cup loop.batch
    /\ loop' = [loop EXCEPT !.at = "remove"]
    /\ UNCHANGED <<files, enabled, running, sendTimer, waited, pending, flushing, owed>>

\* ... or does not: the loop ends, and waits for an interval.
Refused ==
    /\ loop.at = "post"
    /\ Ends("rejected") /\ waited' = FALSE
    /\ owed' = {}
    /\ UNCHANGED <<files, posted>>

\* The files of the batch are removed, and the directory is listed again; the batch
\* of what was left over is the last one.
RemoveBatch ==
    /\ loop.at = "remove"
    /\ files' = files \ loop.batch
    /\ IF Cardinality(loop.batch) >= SendBatchSize
         THEN /\ loop' = [loop EXCEPT !.at = "read", !.batch = {}, !.left = files \ loop.batch]
              /\ UNCHANGED <<enabled, running, sendTimer, waited, pending, flushing>>
         ELSE Ends("resolved") /\ waited' = FALSE
    /\ UNCHANGED <<posted, owed>>

\* The files of the batch are removed at once; one that cannot be stays, as one does that
\* could not be read, and the loop ends as after a refusal: the event will be sent again.
RemoveFails ==
    /\ \/ /\ loop.at = "remove" /\ loop.batch \cap Faulty # {}
          /\ files' = files \ (loop.batch \ Faulty)
       \/ /\ loop.at = "read" /\ loop.left \cap Faulty # {}
          /\ UNCHANGED files
    /\ Ends("rejected") /\ waited' = FALSE
    /\ owed' = {}
    /\ UNCHANGED posted

Timer ==
    /\ sendTimer /\ sendTimer' = FALSE
    /\ SendEvents(FALSE)
    /\ UNCHANGED <<files, posted, enabled, running, waited, flushing, owed>>

Tick ==
    /\ running /\ ~waited /\ waited' = TRUE
    /\ UNCHANGED <<files, posted, enabled, running, sendTimer, loop, pending, flushing, owed>>

\* Mutant of Shutdown: the timer is left running.
ShutdownKeepsTimer ==
    /\ flushing = "none" /\ running
    /\ flushing' = "waiting" /\ running' = FALSE
    /\ UNCHANGED <<files, posted, enabled, waited, sendTimer, loop, pending, owed>>

\* shutdown(): the loop under way is waited for ...
Shutdown ==
    /\ flushing = "none" /\ running
    /\ flushing' = "waiting" /\ running' = FALSE /\ sendTimer' = FALSE
    /\ UNCHANGED <<files, posted, enabled, waited, loop, pending, owed>>

\* Mutant of Flush: shutdown() is over without a flush.
FlushNever ==
    /\ flushing = "waiting" /\ pending # "pending"
    /\ flushing' = "done"
    /\ owed' = IF enabled /\ pending = "resolved" THEN files ELSE {}
    /\ UNCHANGED <<files, posted, enabled, running, sendTimer, waited, loop, pending>>

\* ... and what is on disk is sent; not so when the last loop has failed, whose
\* promise rejects shutdown's wait for it.
Flush ==
    /\ flushing = "waiting" /\ pending # "pending"
    /\ IF pending = "rejected"
         THEN flushing' = "done" /\ UNCHANGED <<loop, pending, owed>>
         ELSE /\ SendEvents(TRUE) /\ flushing' = "sending"
              /\ owed' = IF enabled THEN files ELSE {}
    /\ UNCHANGED <<files, posted, enabled, running, sendTimer, waited>>

\* The process ends, at any point: the files stay.
Killed ==
    /\ running' = FALSE /\ sendTimer' = FALSE /\ waited' = TRUE
    /\ loop' = Idle /\ pending' = "resolved" /\ flushing' = "none" /\ owed' = {}
    /\ UNCHANGED <<files, posted, enabled>>

Calls == UpdateConfig \/ \E e \in Events : AddEvent(e)
Work ==
    \/ Begin \/ ReadAll \/ Accepted \/ Refused \/ RemoveBatch \/ RemoveFails \/ Timer \/ Tick \/ Flush
    \/ \E e \in Events : ReadFile(e) \/ ReadFails(e)
Next == Calls \/ Work \/ Start \/ Shutdown \/ Killed

Spec == Init /\ [][Next]_tmVars
-------------------------------------------------------------------------------
\* No event is lost: its file is removed only when the server has taken the event, or
\* when the loop could not read the file.
NothingLost ==
    [][\A e \in files \ files' : e \in posted \/ (Listed(e) /\ e \notin loop'.batch)]_tmVars

\* As long as the service runs, the loop is under way or its timer is set.
LoopGoesOn == running => sendTimer \/ loop.at # "none"

\* One loop at a time, and none once shutdown() is over.
OneLoop ==
    /\ sendTimer => loop.at = "none" /\ running
    /\ loop.at # "none" <=> pending = "pending"
    /\ flushing = "done" => loop.at = "none" /\ ~sendTimer

\* What was on disk when shutdown() began to flush has been sent when it is over,
\* unless telemetry is disabled, the server refuses it or its file could not be read.
FlushDelivers == flushing = "done" => owed \subseteq posted

\* As long as telemetry runs its events are on their way to the server, by one loop,
\* and its shutdown() sends what is left.
EventsAreSent == LoopGoesOn /\ OneLoop /\ FlushDelivers
=============================================================================
