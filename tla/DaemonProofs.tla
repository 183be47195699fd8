------------------------------- MODULE DaemonProofs -------------------------------
(***************************************************************************)
(* Theorems of the daemon.  Telemetry, the config service and the          *)
(* subprocess manager are proved about as they stand in Daemon, by their   *)
(* own inductive invariants; the composition then shows that the daemon    *)
(* uses them as they specify, so that their theorems hold in it; and the   *)
(* pid file has an invariant of all the processes that start.              *)
(***************************************************************************)
EXTENDS Daemon, FiniteSetTheorems, SequenceTheorems, WellFoundedInduction, TLAPS

-------------------------------------------------------------------------------
(* Telemetry *)

\* Who runs a loop: nobody before init() and after shutdown(), which stops the
\* service before it flushes.
TelemetryLoopInv ==
    /\ flushing # "none" => ~running
    /\ ~running /\ flushing = "none" => loop.at = "none" /\ ~sendTimer
    /\ loop.flush <=> flushing = "sending"
    /\ flushing = "sending" => loop.at # "none"

\* A batch that is removed was taken by the server; one that is not full is the last.
\* What is in the batch is no longer in the list.
TelemetryBatchInv ==
    /\ loop.left \cap loop.batch = {} /\ (loop.at = "begin" => loop.batch = {})
    /\ loop.at = "remove" => loop.batch \subseteq posted
    /\ loop.at \in {"post", "remove"} =>
         TM!Cardinality(loop.batch) >= SendBatchSize \/ loop.left = {}

\* What the flush owes has been sent, or is on disk and in its list or its batch.
TelemetryOwedInv ==
    /\ flushing \in {"none", "waiting"} => owed = {}
    /\ flushing = "sending" =>
         \A e \in owed :
           \/ e \in posted
           \/ e \in files /\ (loop.at = "begin" \/ e \in loop.left \cup loop.batch)

TelemetryInv == TM!TMTypeOK /\ TM!LoopGoesOn /\ TM!OneLoop /\ TelemetryLoopInv /\ TelemetryBatchInv /\ TelemetryOwedInv /\ TM!FlushDelivers

LoopType == [at : {"none", "begin", "read", "post", "remove"}, flush : BOOLEAN,
             left : SUBSET Events, batch : SUBSET Events]

\* How a loop begins, and how it ends.
LEMMA LoopBegins ==
    ASSUME NEW flush \in BOOLEAN, TM!SendEvents(flush)
    PROVE  /\ loop' \in LoopType /\ pending' = "pending"
           /\ loop'.at = "begin" /\ loop'.flush = flush /\ loop'.left = {} /\ loop'.batch = {}
  BY DEF TM!SendEvents, TM!Idle, LoopType

LEMMA LoopEnds ==
    ASSUME TM!TMTypeOK, NEW how \in {"resolved", "rejected"}, TM!Ends(how)
    PROVE  /\ loop' \in LoopType /\ pending' = how
           /\ loop'.at = "none" /\ loop'.flush = FALSE /\ loop'.left = {} /\ loop'.batch = {}
           /\ sendTimer' = (running /\ ~loop.flush)
           /\ flushing' = IF loop.flush THEN "done" ELSE flushing
           /\ UNCHANGED <<running, enabled>>
  BY DEF TM!Ends, TM!ScheduleSendEvents, TM!Idle, LoopType

LEMMA IdleLoop ==
    /\ TM!Idle \in LoopType
    /\ TM!Idle.at = "none" /\ TM!Idle.flush = FALSE /\ TM!Idle.left = {} /\ TM!Idle.batch = {}
  BY DEF TM!Idle, LoopType

\* Every variable keeps its type.
LEMMA TelemetryTypeStep ==
    ASSUME TM!TMAssumption, TM!TMTypeOK, [TM!Next]_tmVars
    PROVE  TM!TMTypeOK'
<1> USE DEF TM!TMTypeOK, LoopType
<1>1. ASSUME NEW e \in Events, TM!AddEvent(e) PROVE TM!TMTypeOK'
  BY <1>1 DEF TM!AddEvent
<1>2. CASE TM!UpdateConfig
  BY <1>2 DEF TM!UpdateConfig
<1>12. CASE TM!Start
  BY <1>12, LoopBegins DEF TM!Start
<1>3. CASE TM!Begin
  <2>1. CASE ~enabled \/ (~loop.flush /\ ~waited)
    <3>1. TM!Ends("resolved") /\ owed' = (IF enabled THEN owed ELSE {})
          /\ UNCHANGED <<files, posted, waited>>
      BY <1>3, <2>1 DEF TM!Begin
    <3>2. QED
      BY <2>1, <3>1, LoopEnds
  <2>2. CASE ~(~enabled \/ (~loop.flush /\ ~waited))
    <3>1. /\ loop.at = "begin" /\ loop' = [loop EXCEPT !.at = "read", !.left = files]
          /\ UNCHANGED <<enabled, running, sendTimer, pending, flushing, owed, files, posted,
            waited>>
      BY <1>3, <2>2 DEF TM!Begin
    <3>2. QED
      BY <3>1
  <2>3. QED
    BY <2>1, <2>2
<1>4. ASSUME NEW e \in Events, TM!ReadFile(e) PROVE TM!TMTypeOK'
  <2>1. loop' \in [at : {"none", "begin", "read", "post", "remove"}, flush : BOOLEAN,
                   left : SUBSET Events, batch : SUBSET Events]
    BY <1>4 DEF TM!ReadFile
  <2>2. QED
    BY <1>4, <2>1 DEF TM!ReadFile
<1>16. ASSUME NEW e \in Events, TM!ReadFails(e) PROVE TM!TMTypeOK'
  BY <1>16 DEF TM!ReadFails
<1>5. CASE TM!ReadAll
  <2>1. CASE loop.batch # {}
    BY <1>5, <2>1 DEF TM!ReadAll
  <2>2. CASE loop.batch = {}
    <3>1. /\ loop.at = "read" /\ loop.left = {} /\ TM!Ends("resolved") /\ waited' = FALSE
          /\ UNCHANGED <<files, posted, owed>>
      BY <1>5, <2>2 DEF TM!ReadAll
    <3>2. QED
      BY <2>2, <3>1, LoopEnds
  <2>3. QED
    BY <2>1, <2>2
<1>13. CASE TM!Refused
  BY <1>13, LoopEnds DEF TM!Refused
<1>6. CASE TM!Accepted
  BY <1>6 DEF TM!Accepted
<1>17. CASE TM!RemoveFails
  <2>1. /\ TM!Ends("rejected") /\ waited' = FALSE /\ owed' = {} /\ posted' = posted
        /\ files' \subseteq files
    BY <1>17 DEF TM!RemoveFails
  <2>2. QED
    BY <2>1, LoopEnds
<1>7. CASE TM!RemoveBatch
  <2>1. files' \subseteq Events
    BY <1>7 DEF TM!RemoveBatch
  <2>2. CASE TM!Cardinality(loop.batch) >= SendBatchSize
    <3>1. files \ loop.batch \in SUBSET Events
      OBVIOUS
    <3>2. loop' = [loop EXCEPT !.at = "read", !.batch = {}, !.left = files \ loop.batch]
      BY <1>7, <2>2 DEF TM!RemoveBatch
    <3>3. loop' \in LoopType
      BY <3>1, <3>2
    <3>4. QED
      BY <1>7, <2>1, <2>2, <3>3 DEF TM!RemoveBatch
  <2>3. CASE ~(TM!Cardinality(loop.batch) >= SendBatchSize)
    <3>1. TM!Ends("resolved") /\ waited' = FALSE /\ UNCHANGED <<posted, owed>>
      BY <1>7, <2>3 DEF TM!RemoveBatch
    <3>2. QED
      BY <2>1, <3>1, LoopEnds
  <2>4. QED
    BY <2>2, <2>3
<1>8. CASE TM!Timer
  BY <1>8, LoopBegins DEF TM!Timer
<1>14. CASE TM!Tick \/ TM!Shutdown
  BY <1>14 DEF TM!Tick, TM!Shutdown
<1>15. CASE TM!Killed
  BY <1>15, IdleLoop DEF TM!Killed
<1>9. CASE TM!Flush
  BY <1>9, LoopBegins DEF TM!Flush
<1>10. CASE UNCHANGED tmVars
  BY <1>10 DEF tmVars
<1>11. QED
  BY <1>1, <1>2, <1>3, <1>4, <1>5, <1>6, <1>7, <1>8, <1>9, <1>10, <1>12, <1>13,
     <1>14, <1>15, <1>16, <1>17 DEF TM!Next, TM!Calls, TM!Work

\* The loop and its promise, the timer, and shutdown() keep step.
LEMMA TelemetryLoopStep ==
    ASSUME TM!TMTypeOK, TM!LoopGoesOn, TM!OneLoop, TelemetryLoopInv, [TM!Next]_tmVars
    PROVE  TM!LoopGoesOn' /\ TM!OneLoop' /\ TelemetryLoopInv'
<1> USE DEF TM!TMTypeOK, TM!LoopGoesOn, TM!OneLoop, TelemetryLoopInv
<1>1. ASSUME NEW e \in Events, TM!AddEvent(e) PROVE TM!LoopGoesOn' /\ TM!OneLoop' /\ TelemetryLoopInv'
  BY <1>1 DEF TM!AddEvent
<1>2. CASE TM!UpdateConfig
  BY <1>2 DEF TM!UpdateConfig
<1>12. CASE TM!Start
  BY <1>12, LoopBegins DEF TM!Start
<1>3. CASE TM!Begin
  BY <1>3, LoopEnds DEF TM!Begin
<1>4. ASSUME NEW e \in Events, TM!ReadFile(e) PROVE TM!LoopGoesOn' /\ TM!OneLoop' /\ TelemetryLoopInv'
  <2>1. loop.at = "read" /\ loop'.at \in {"read", "post"} /\ loop'.flush = loop.flush
    BY <1>4 DEF TM!ReadFile, TM!Listed
  <2>2. QED
    BY <1>4, <2>1 DEF TM!ReadFile
<1>16. ASSUME NEW e \in Events, TM!ReadFails(e) PROVE TM!LoopGoesOn' /\ TM!OneLoop' /\ TelemetryLoopInv'
  <2>1. loop.at = "read" /\ loop'.at = "read" /\ loop'.flush = loop.flush
    BY <1>16 DEF TM!ReadFails, TM!Listed
  <2>2. QED
    BY <1>16, <2>1 DEF TM!ReadFails
<1>5. CASE TM!ReadAll
  BY <1>5, LoopEnds DEF TM!ReadAll
<1>13. CASE TM!Refused
  BY <1>13, LoopEnds DEF TM!Refused
<1>17. CASE TM!RemoveFails
  BY <1>17, LoopEnds DEF TM!RemoveFails
<1>6. CASE TM!Accepted
  BY <1>6 DEF TM!Accepted
<1>7. CASE TM!RemoveBatch
  BY <1>7, LoopEnds DEF TM!RemoveBatch
<1>8. CASE TM!Timer
  BY <1>8, LoopBegins DEF TM!Timer
<1>14. CASE TM!Tick \/ TM!Shutdown
  BY <1>14 DEF TM!Tick, TM!Shutdown
<1>15. CASE TM!Killed
  BY <1>15, IdleLoop DEF TM!Killed
<1>9. CASE TM!Flush
  BY <1>9, LoopBegins DEF TM!Flush
<1>10. CASE UNCHANGED tmVars
  BY <1>10 DEF tmVars
<1>11. QED
  BY <1>1, <1>2, <1>3, <1>4, <1>5, <1>6, <1>7, <1>8, <1>9, <1>10, <1>12, <1>13,
     <1>14, <1>15, <1>16, <1>17 DEF TM!Next, TM!Calls, TM!Work

\* A batch goes on to be removed when it was accepted.
LEMMA TelemetryBatchStep ==
    ASSUME TM!TMTypeOK, TelemetryBatchInv, [TM!Next]_tmVars
    PROVE  TelemetryBatchInv'
<1> USE DEF TM!TMTypeOK, TelemetryBatchInv
<1>1. ASSUME NEW e \in Events, TM!AddEvent(e) PROVE TelemetryBatchInv'
  BY <1>1 DEF TM!AddEvent
<1>2. CASE TM!UpdateConfig
  BY <1>2 DEF TM!UpdateConfig
<1>12. CASE TM!Start
  BY <1>12, LoopBegins DEF TM!Start
<1>3. CASE TM!Begin
  BY <1>3, LoopEnds DEF TM!Begin
<1>4. ASSUME NEW e \in Events, TM!ReadFile(e) PROVE TelemetryBatchInv'
  <2>1. /\ loop.at = "read" /\ loop'.at \in {"read", "post"}
        /\ loop'.at = "post" => TM!Cardinality(loop'.batch) >= SendBatchSize
        /\ loop'.left = loop.left \ {e} /\ loop'.batch = loop.batch \cup {e}
    BY <1>4 DEF TM!ReadFile, TM!Listed
  <2>2. QED
    BY <2>1
<1>16. ASSUME NEW e \in Events, TM!ReadFails(e) PROVE TelemetryBatchInv'
  <2>1. /\ loop.at = "read" /\ loop'.at = "read"
        /\ loop'.left = loop.left \ {e} /\ loop'.batch = loop.batch
    BY <1>16 DEF TM!ReadFails, TM!Listed
  <2>2. QED
    BY <2>1
<1>5. CASE TM!ReadAll
  BY <1>5, LoopEnds DEF TM!ReadAll
<1>13. CASE TM!Refused
  BY <1>13, LoopEnds DEF TM!Refused
<1>17. CASE TM!RemoveFails
  BY <1>17, LoopEnds DEF TM!RemoveFails
<1>6. CASE TM!Accepted
  BY <1>6 DEF TM!Accepted
<1>7. CASE TM!RemoveBatch
  BY <1>7, LoopEnds DEF TM!RemoveBatch
<1>8. CASE TM!Timer
  BY <1>8, LoopBegins DEF TM!Timer
<1>14. CASE TM!Tick \/ TM!Shutdown
  BY <1>14 DEF TM!Tick, TM!Shutdown
<1>15. CASE TM!Killed
  BY <1>15, IdleLoop DEF TM!Killed
<1>9. CASE TM!Flush
  BY <1>9, LoopBegins DEF TM!Flush
<1>10. CASE UNCHANGED tmVars
  BY <1>10 DEF tmVars
<1>11. QED
  BY <1>1, <1>2, <1>3, <1>4, <1>5, <1>6, <1>7, <1>8, <1>9, <1>10, <1>12, <1>13,
     <1>14, <1>15, <1>16, <1>17 DEF TM!Next, TM!Calls, TM!Work

\* Nothing that the flush owes drops out of its list before it is sent.
LEMMA TelemetryOwedStep ==
    ASSUME TelemetryInv, [TM!Next]_tmVars
    PROVE  TelemetryOwedInv' /\ TM!FlushDelivers'
<1> USE DEF TelemetryInv, TM!TMTypeOK, TM!OneLoop, TelemetryLoopInv, TelemetryOwedInv,
            TM!FlushDelivers
<1>1. ASSUME NEW e \in Events, TM!AddEvent(e) PROVE TelemetryOwedInv' /\ TM!FlushDelivers'
  BY <1>1 DEF TM!AddEvent
<1>2. CASE TM!UpdateConfig
  BY <1>2 DEF TM!UpdateConfig
<1>12. CASE TM!Start
  BY <1>12, LoopBegins DEF TM!Start
<1>3. CASE TM!Begin
  <2>1. CASE ~enabled \/ (~loop.flush /\ ~waited)
    <3>1. TM!Ends("resolved") /\ owed' = (IF enabled THEN owed ELSE {})
          /\ UNCHANGED <<files, posted, waited>>
      BY <1>3, <2>1 DEF TM!Begin
    <3>2. QED
      BY <2>1, <3>1, LoopEnds
  <2>2. CASE ~(~enabled \/ (~loop.flush /\ ~waited))
    <3>1. /\ loop.at = "begin" /\ loop' = [loop EXCEPT !.at = "read", !.left = files]
          /\ UNCHANGED <<enabled, running, sendTimer, pending, flushing, owed, files, posted,
            waited>>
      BY <1>3, <2>2 DEF TM!Begin
    <3>2. QED
      BY <3>1
  <2>3. QED
    BY <2>1, <2>2
<1>4. ASSUME NEW e \in Events, TM!ReadFile(e) PROVE TelemetryOwedInv' /\ TM!FlushDelivers'
  <2>1. /\ loop.at = "read" /\ loop'.left = loop.left \ {e}
        /\ loop'.batch = loop.batch \cup {e}
        /\ UNCHANGED <<files, posted, flushing, owed>>
    BY <1>4 DEF TM!ReadFile, TM!Listed
  <2>2. QED
    BY <2>1
<1>16. ASSUME NEW e \in Events, TM!ReadFails(e) PROVE TelemetryOwedInv' /\ TM!FlushDelivers'
  <2>1. /\ loop.at = "read" /\ loop'.at = "read" /\ loop'.left = loop.left \ {e}
        /\ loop'.batch = loop.batch
        /\ files' = files \ {e} /\ owed' = owed \ {e}
        /\ UNCHANGED <<posted, flushing>>
    BY <1>16 DEF TM!ReadFails, TM!Listed
  <2>2. QED
    BY <2>1
<1>5. CASE TM!ReadAll
  <2>1. CASE loop.batch # {}
    BY <1>5, <2>1 DEF TM!ReadAll
  <2>2. CASE loop.batch = {}
    <3>1. /\ loop.at = "read" /\ loop.left = {} /\ TM!Ends("resolved") /\ waited' = FALSE
          /\ UNCHANGED <<files, posted, owed>>
      BY <1>5, <2>2 DEF TM!ReadAll
    <3>2. QED
      BY <2>2, <3>1, LoopEnds
  <2>3. QED
    BY <2>1, <2>2
<1>13. CASE TM!Refused
  BY <1>13, LoopEnds DEF TM!Refused
<1>6. CASE TM!Accepted
  <2>1. posted \subseteq posted'
    BY <1>6 DEF TM!Accepted
  <2>2. /\ loop.at # "begin" /\ loop' = [loop EXCEPT !.at = "remove"]
        /\ UNCHANGED <<files, flushing, owed>>
    BY <1>6 DEF TM!Accepted
  <2>3. QED
    BY <2>1, <2>2
<1>7. CASE TM!RemoveBatch
  <2>1. /\ loop.at = "remove" /\ UNCHANGED <<posted, owed>>
        /\ files' = files \ loop.batch /\ loop.batch \subseteq posted
    BY <1>7 DEF TM!RemoveBatch, TelemetryBatchInv
  <2>2. CASE TM!Cardinality(loop.batch) >= SendBatchSize
    <3>1. loop'.left = files \ loop.batch /\ flushing' = flushing
      BY <1>7, <2>2 DEF TM!RemoveBatch
    <3>2. QED
      BY <2>1, <3>1
  <2>3. CASE ~(TM!Cardinality(loop.batch) >= SendBatchSize)
    <3>1. /\ loop.left = {}
          /\ flushing' = IF loop.flush THEN "done" ELSE flushing
      BY <1>7, <2>1, <2>3, LoopEnds DEF TM!RemoveBatch, TelemetryBatchInv
    <3>2. QED
      BY <2>1, <3>1
  <2>4. QED
    BY <2>2, <2>3
<1>17. CASE TM!RemoveFails
  <2>1. TM!Ends("rejected") /\ owed' = {} /\ loop.at \in {"read", "remove"}
    BY <1>17 DEF TM!RemoveFails
  <2>2. QED
    BY <2>1, LoopEnds
<1>8. CASE TM!Timer
  BY <1>8, LoopBegins DEF TM!Timer
<1>14. CASE TM!Tick \/ TM!Shutdown
  BY <1>14 DEF TM!Tick, TM!Shutdown
<1>15. CASE TM!Killed
  BY <1>15, IdleLoop DEF TM!Killed
<1>9. CASE TM!Flush
  <2>1. CASE pending = "rejected"
    <3>1. flushing = "waiting" /\ flushing' = "done" /\ UNCHANGED <<loop, owed, files, posted>>
      BY <1>9, <2>1 DEF TM!Flush
    <3>2. QED
      BY <3>1
  <2>2. CASE pending # "rejected"
    <3>1. /\ TM!SendEvents(TRUE) /\ flushing' = "sending" /\ UNCHANGED <<files, posted>>
          /\ owed' = IF enabled THEN files ELSE {}
      BY <1>9, <2>2 DEF TM!Flush
    <3>2. QED
      BY <3>1, LoopBegins
  <2>3. QED
    BY <2>1, <2>2
<1>10. CASE UNCHANGED tmVars
  BY <1>10 DEF tmVars
<1>11. QED
  BY <1>1, <1>2, <1>3, <1>4, <1>5, <1>6, <1>7, <1>8, <1>9, <1>10, <1>12, <1>13,
     <1>14, <1>15, <1>16, <1>17 DEF TM!Next, TM!Calls, TM!Work

LEMMA TelemetryInvariant ==
    ASSUME TM!TMAssumption
    PROVE  TM!Spec => []TelemetryInv
<1>1. TM!Init => TelemetryInv
  <2> SUFFICES ASSUME TM!Init PROVE TelemetryInv
    OBVIOUS
  <2>1. TM!TMTypeOK
    <3>1. posted \subseteq Events
      BY DEF TM!Init
    <3>2. running \in BOOLEAN /\ sendTimer \in BOOLEAN /\ waited \in BOOLEAN
      BY DEF TM!Init
    <3>3. QED
      BY <3>1, <3>2, IdleLoop DEF TM!Init, TM!TMTypeOK, LoopType
  <2>2. TM!LoopGoesOn /\ TM!OneLoop /\ TelemetryLoopInv /\ TelemetryBatchInv /\ TelemetryOwedInv /\ TM!FlushDelivers
    BY IdleLoop DEF TM!Init, TM!LoopGoesOn, TM!OneLoop, TelemetryLoopInv, TelemetryBatchInv,
                    TelemetryOwedInv, TM!FlushDelivers
  <2>3. QED
    BY <2>1, <2>2 DEF TelemetryInv
<1>2. TelemetryInv /\ [TM!Next]_tmVars => TelemetryInv'
  BY TM!TMAssumption, TelemetryTypeStep, TelemetryLoopStep, TelemetryBatchStep,
     TelemetryOwedStep DEF TelemetryInv
<1>3. QED
  BY <1>1, <1>2, PTL DEF TM!Spec, TM!tmVars, tmVars

\* While telemetry runs one loop sends its events or waits for its timer, none is left
\* over when shutdown() is done, and by then everything that it owed was sent.
THEOREM TelemetrySends ==
    ASSUME TM!TMAssumption
    PROVE  TM!Spec => []TM!EventsAreSent
<1>1. TelemetryInv => TM!EventsAreSent
  BY DEF TelemetryInv, TM!EventsAreSent
<1>2. QED
  BY <1>1, TelemetryInvariant, PTL

\* The file of an event that can be read is deleted only after the server has taken
\* the event, wherever posts fail and the process is killed: the one other way to lose a
\* file is that the loop fails to read it, for whatever reason.
THEOREM NoEventIsLost ==
    ASSUME TM!TMAssumption
    PROVE  TM!Spec => TM!NothingLost
<1>1. ASSUME TelemetryInv, [TM!Next]_tmVars, NEW e \in files \ files'
      PROVE  e \in posted \/ (TM!Listed(e) /\ e \notin loop'.batch)
  <2> USE DEF TelemetryInv, TM!TMTypeOK
  <2>1. ASSUME NEW f \in Events, TM!AddEvent(f) \/ TM!ReadFile(f) PROVE FALSE
    BY <1>1, <2>1 DEF TM!AddEvent, TM!ReadFile
  <2>2. ASSUME NEW f \in Events, TM!ReadFails(f)
        PROVE  TM!Listed(e) /\ e \notin loop'.batch
    <3>1. f = e /\ TM!Listed(f) /\ loop'.batch = loop.batch
      BY <1>1, <2>2 DEF TM!ReadFails
    <3>2. e \notin loop.batch
      BY <1>1, <3>1 DEF TM!Listed, TelemetryBatchInv
    <3>3. QED
      BY <3>1, <3>2
  <2>3. CASE TM!RemoveBatch \/ TM!RemoveFails
    BY <1>1, <2>3 DEF TM!RemoveBatch, TM!RemoveFails, TelemetryBatchInv
  <2>4. CASE \/ TM!UpdateConfig \/ TM!Start \/ TM!Begin \/ TM!ReadAll \/ TM!Accepted \/ TM!Refused \/ TM!Timer \/ TM!Tick
             \/ TM!Shutdown \/ TM!Flush \/ TM!Killed \/ UNCHANGED tmVars
    BY <1>1, <2>4 DEF TM!UpdateConfig, TM!Start, TM!Begin, TM!ReadAll, TM!Accepted,
                      TM!Refused, TM!Timer, TM!Tick,
                      TM!Shutdown, TM!Flush, TM!Killed, tmVars
  <2>5. QED
    BY <1>1, <2>1, <2>2, <2>3, <2>4 DEF TM!Next, TM!Calls, TM!Work
<1>2. TelemetryInv /\ [TM!Next]_tmVars =>
        [\A e \in files \ files' : e \in posted \/ (TM!Listed(e) /\ e \notin loop'.batch)]_tmVars
  BY <1>1
<1>3. QED
  BY <1>2, TelemetryInvariant, PTL DEF TM!Spec, TM!NothingLost, TM!tmVars, tmVars

-------------------------------------------------------------------------------
(* The subprocess manager *)

\* How far a request is: it has a child when it is over only, and it is known with its
\* child when the first attempt was the one that spawned it.
SpawnInv ==
    /\ \A r \in Spawns :
         /\ spawn[r] = "none" => tries[r] = MaxTries
         /\ spawn[r] \in {"trying", "sleeping"} => tries[r] > 0
         /\ child[r] # "none" => spawn[r] \in {"resolved", "rejected"}
         /\ child[r] # "none" /\ r \notin known => tries[r] < MaxTries - 1
    /\ \A r \in known : child[r] # "none" /\ spawn[r] = "resolved"

\* What is known and has not been closed is listed, until shutdown() clears the list.
ListInv ==
    /\ \A r \in listed : r \in known /\ child[r] \in {"running", "exited"}
    /\ \A r \in known : child[r] # "closed" => r \in listed \/ shutdown = "done"

\* A proc.kill() that is resolved has ended its child, or sent SIGKILL to it.
KillInv ==
    \A r \in Spawns :
      /\ kills[r] # "none" => r \in known
      /\ kills[r] = "resolved" => ~SM!Running(r) \/ "SIGKILL" \in sent[r]
      /\ shutdown = "done" => kills[r] \in {"none", "resolved"}

SpawnsInv == SM!SMTypeOK /\ SpawnInv /\ ListInv /\ KillInv

\* What an attempt does to its request, and what it leaves alone.
LEMMA AttemptEffect ==
    ASSUME SM!SMAssumption, SpawnsInv, NEW r \in Spawns, NEW o \in SM!Outcomes,
      SM!TrySpawn(r, o)
    PROVE  /\ spawn[r] = "trying" /\ child[r] = "none" /\ r \notin known
           /\ tries'[r] \in 0..MaxTries /\ tries'[r] = tries[r] - 1
           /\ spawn'[r] \in {"sleeping", "resolved", "no pid", "unheard", "rejected"}
           /\ spawn'[r] = "sleeping" => tries'[r] > 0 /\ child'[r] = "none"
           /\ child'[r] \in {"none", "running"}
           /\ child'[r] # "none" => spawn'[r] \in {"resolved", "rejected"}
           /\ \/ spawn'[r] = "resolved" /\ child'[r] = "running"
                 /\ known' = known \cup {r} /\ listed' = listed \cup {r}
              \/ UNCHANGED <<known, listed>> /\ (child'[r] # "none" => tries'[r] < MaxTries - 1)
           /\ \A q \in Spawns \ {r} : /\ spawn'[q] = spawn[q] /\ tries'[q] = tries[q]
                                      /\ child'[q] = child[q]
           /\ spawn' \in [Spawns -> {"none", "trying", "sleeping", "no pid", "unheard", "resolved",
             "rejected"}]
           /\ tries' \in [Spawns -> 0..MaxTries]
           /\ child' \in [Spawns -> {"none", "running", "exited", "closed"}]
           /\ UNCHANGED <<sent, response, trees, kills, timers, shutdown>>
<1>0. /\ spawn \in [Spawns -> {"none", "trying", "sleeping", "no pid", "unheard", "resolved", "rejected"}]
      /\ tries \in [Spawns -> 0..MaxTries]
      /\ child \in [Spawns -> {"none", "running", "exited", "closed"}]
  BY DEF SpawnsInv, SM!SMTypeOK
<1>1. spawn[r] = "trying" /\ child[r] = "none" /\ r \notin known /\ tries[r] > 0
  BY <1>0 DEF SM!TrySpawn, SpawnsInv, SpawnInv
<1>2. /\ tries' = [tries EXCEPT ![r] = @ - 1]
      /\ child' = [child EXCEPT ![r] = IF o = "spawned" THEN "running" ELSE @]
      /\ UNCHANGED <<sent, response, trees, kills, timers, shutdown>>
  BY DEF SM!TrySpawn
<1>3. MaxTries \in Nat /\ tries[r] \in 0..MaxTries
  BY <1>0, SM!SMAssumption DEF SM!SMAssumption
<1>4. /\ tries'[r] = tries[r] - 1 /\ tries'[r] \in 0..MaxTries
      /\ \A q \in Spawns \ {r} : tries'[q] = tries[q]
      /\ tries' \in [Spawns -> 0..MaxTries]
  <2>1. tries[r] - 1 \in 0..MaxTries
    BY <1>1, <1>3
  <2>2. QED
    BY <1>0, <1>2, <2>1
<1>5. /\ child'[r] = (IF o = "spawned" THEN "running" ELSE "none")
      /\ \A q \in Spawns \ {r} : child'[q] = child[q]
      /\ child' \in [Spawns -> {"none", "running", "exited", "closed"}]
  BY <1>0, <1>1, <1>2
<1>6. PICK new : /\ spawn' = [spawn EXCEPT ![r] = new]
                 /\ new \in {"sleeping", "resolved", "no pid", "unheard", "rejected"}
                 /\ new = "sleeping" => o = "ETXTBSY" /\ tries[r] > 1
                 /\ o = "spawned" /\ tries[r] = MaxTries => new = "resolved"
                 /\ new = "resolved" => o = "spawned" /\ tries[r] = MaxTries
                 /\ new = "no pid" => o = "no pid"
                 /\ o = "spawned" /\ tries[r] # MaxTries => new = "rejected"
  <2> DEFINE pick == CASE o = "ETXTBSY" /\ SM!MayRetry(r) -> "sleeping"
                       [] o = "spawned" /\ tries[r] = MaxTries -> "resolved"
                       [] o = "no pid" -> IF tries[r] = MaxTries THEN "no pid" ELSE "unheard"
                       [] OTHER -> "rejected"
  <2>1. spawn' = [spawn EXCEPT ![r] = pick]
    BY DEF SM!TrySpawn
  <2>2. /\ pick \in {"sleeping", "resolved", "no pid", "unheard", "rejected"}
        /\ pick = "sleeping" => o = "ETXTBSY" /\ tries[r] > 1
        /\ o = "spawned" /\ tries[r] = MaxTries => pick = "resolved"
        /\ pick = "resolved" => o = "spawned" /\ tries[r] = MaxTries
        /\ pick = "no pid" => o = "no pid"
        /\ o = "spawned" /\ tries[r] # MaxTries => pick = "rejected"
    BY DEF SM!MayRetry
  <2> HIDE DEF pick
  <2>3. QED
    BY <2>1, <2>2
<1>7. /\ spawn'[r] = new /\ \A q \in Spawns \ {r} : spawn'[q] = spawn[q]
      /\ spawn' \in [Spawns -> {"none", "trying", "sleeping", "no pid", "unheard", "resolved", "rejected"}]
  BY <1>0, <1>6
<1>8. CASE o = "spawned" /\ tries[r] = MaxTries
  <2>1. known' = known \cup {r} /\ listed' = listed \cup {r}
    BY <1>8 DEF SM!TrySpawn, SM!Track
  <2>2. QED
    BY <1>1, <1>2, <1>4, <1>5, <1>6, <1>7, <1>8, <2>1
<1>9. CASE ~(o = "spawned" /\ tries[r] = MaxTries)
  <2>1. UNCHANGED <<known, listed>>
    BY <1>9 DEF SM!TrySpawn
  <2>2. child'[r] # "none" => o = "spawned" /\ tries'[r] < MaxTries - 1 /\ new = "rejected"
    <3> SUFFICES ASSUME child'[r] # "none"
                 PROVE  o = "spawned" /\ tries'[r] < MaxTries - 1 /\ new = "rejected"
      OBVIOUS
    <3>1. o = "spawned" /\ tries[r] # MaxTries
      BY <1>5, <1>9
    <3>2. tries'[r] < MaxTries - 1
      BY <1>3, <1>4, <3>1
    <3>3. QED
      BY <1>6, <3>1, <3>2
  <2>3. new = "sleeping" => tries'[r] > 0 /\ child'[r] = "none"
    BY <1>3, <1>4, <1>5, <1>6
  <2>4. QED
    BY <1>1, <1>2, <1>4, <1>5, <1>6, <1>7, <2>1, <2>2, <2>3
<1>10. QED
  BY <1>8, <1>9

LEMMA AttemptInv ==
    ASSUME SM!SMAssumption, SpawnsInv, NEW r \in Spawns, NEW o \in SM!Outcomes,
      SM!TrySpawn(r, o)
    PROVE  SpawnsInv'
<1>1. /\ spawn[r] = "trying" /\ child[r] = "none" /\ r \notin known
      /\ tries'[r] \in 0..MaxTries
      /\ spawn'[r] \in {"sleeping", "resolved", "no pid", "unheard", "rejected"}
      /\ spawn'[r] = "sleeping" => tries'[r] > 0 /\ child'[r] = "none"
      /\ child'[r] \in {"none", "running"}
      /\ child'[r] # "none" => spawn'[r] \in {"resolved", "rejected"}
  BY AttemptEffect
<1>2. \/ spawn'[r] = "resolved" /\ child'[r] = "running"
         /\ known' = known \cup {r} /\ listed' = listed \cup {r}
      \/ UNCHANGED <<known, listed>> /\ (child'[r] # "none" => tries'[r] < MaxTries - 1)
  BY AttemptEffect
<1>3. \A q \in Spawns \ {r} : spawn'[q] = spawn[q] /\ tries'[q] = tries[q] /\ child'[q] = child[q]
  BY AttemptEffect
<1>4. /\ spawn' \in [Spawns -> {"none", "trying", "sleeping", "no pid", "unheard", "resolved", "rejected"}]
      /\ tries' \in [Spawns -> 0..MaxTries]
      /\ child' \in [Spawns -> {"none", "running", "exited", "closed"}]
      /\ UNCHANGED <<sent, response, trees, kills, timers, shutdown>>
  BY AttemptEffect
<1>5. SM!SMTypeOK'
  BY <1>2, <1>4 DEF SpawnsInv, SM!SMTypeOK
<1>6. known \subseteq Spawns
  BY DEF SpawnsInv, SM!SMTypeOK
<1>7. SpawnInv'
  <2>1. ASSUME NEW q \in Spawns
        PROVE  /\ spawn'[q] = "none" => tries'[q] = MaxTries
               /\ spawn'[q] \in {"trying", "sleeping"} => tries'[q] > 0
               /\ child'[q] # "none" => spawn'[q] \in {"resolved", "rejected"}
               /\ child'[q] # "none" /\ q \notin known' => tries'[q] < MaxTries - 1
    <3>1. CASE q = r
      BY <1>1, <1>2, <3>1
    <3>2. CASE q # r
      BY <1>2, <1>3, <3>2 DEF SpawnsInv, SpawnInv
    <3>3. QED
      BY <3>1, <3>2
  <2>2. ASSUME NEW q \in known' PROVE child'[q] # "none" /\ spawn'[q] = "resolved"
    <3>1. CASE q = r
      BY <1>1, <1>2, <3>1
    <3>2. CASE q # r
      BY <1>2, <1>3, <1>6, <3>2 DEF SpawnsInv, SpawnInv
    <3>3. QED
      BY <3>1, <3>2
  <2>3. QED
    BY <2>1, <2>2 DEF SpawnInv
<1>8. ListInv' /\ KillInv'
  BY <1>1, <1>2, <1>3, <1>4, <1>6 DEF SpawnsInv, ListInv, KillInv, SM!Running
<1>9. QED
  BY <1>5, <1>7, <1>8 DEF SpawnsInv

\* Signals add to what a child was sent.
LEMMA SignalledType ==
    ASSUME SM!SMTypeOK, NEW r \in Spawns, NEW signal \in SM!Signals, SM!Signalled(r, signal)
    PROVE  /\ sent' \in [Spawns -> SUBSET SM!Signals]
           /\ \A q \in Spawns : sent[q] \subseteq sent'[q]
           /\ SM!Running(r) /\ r \notin Untouchable => signal \in sent'[r]
  BY DEF SM!Signalled, SM!SMTypeOK

\* Settling leaves a proc.kill() alone that nobody waits for.
LEMMA SettleType ==
    ASSUME SM!SMTypeOK, NEW r \in Spawns, NEW how \in {"resolved", "rejected"}, SM!Settle(r,
      how)
    PROVE  /\ kills' \in [Spawns -> {"none", "pending", "resolved", "rejected"}]
           /\ \A q \in Spawns : kills'[q] = kills[q] \/ (q = r /\ kills[q] = "pending" /\ kills'[q] = how)
  BY DEF SM!Settle, SM!SMTypeOK

\* A child that exits, and the 'close' that follows.
LEMMA EndInv ==
    ASSUME SpawnsInv, NEW r \in Spawns, SM!Exit(r) \/ SM!Close(r)
    PROVE  SpawnsInv'
<1> USE DEF SpawnsInv, SM!SMTypeOK
<1>1. CASE SM!Exit(r)
  <2>1. /\ SM!Running(r) /\ child' = [child EXCEPT ![r] = "exited"]
        /\ UNCHANGED <<spawn, tries, sent, listed, known, response, trees, kills, timers,
          shutdown>>
    BY <1>1 DEF SM!Exit
  <2>2. child[r] = "running" /\ child' \in [Spawns -> {"none", "running", "exited", "closed"}]
    BY <2>1 DEF SM!Running
  <2>3. child'[r] = "exited" /\ \A q \in Spawns \ {r} : child'[q] = child[q]
    BY <2>1, <2>2
  <2>4. SpawnInv'
    BY <2>1, <2>2, <2>3 DEF SpawnInv
  <2>5. ListInv'
    BY <2>1, <2>2, <2>3 DEF ListInv
  <2>6. KillInv'
    BY <2>1, <2>2, <2>3 DEF KillInv, SM!Running
  <2>7. QED
    BY <2>1, <2>2, <2>4, <2>5, <2>6
<1>2. CASE SM!Close(r)
  <2>1. /\ child[r] = "exited" /\ r \in known /\ child' = [child EXCEPT ![r] = "closed"]
        /\ listed' = listed \ {r} /\ SM!Settle(r, "resolved") /\ timers' = timers \ {r}
        /\ response' = [response EXCEPT ![r] = IF @ = "open" THEN "ended" ELSE @]
        /\ UNCHANGED <<spawn, tries, sent, known, trees, shutdown>>
    BY <1>2 DEF SM!Close
  <2>2. /\ kills' \in [Spawns -> {"none", "pending", "resolved", "rejected"}]
        /\ \A q \in Spawns : kills'[q] = kills[q] \/ (q = r /\ kills[q] = "pending" /\ kills'[q] = "resolved")
    BY <2>1, SettleType
  <2>3. SM!SMTypeOK'
    BY <2>1, <2>2
  <2>4. SpawnInv' /\ ListInv'
    BY <2>1 DEF SpawnInv, ListInv
  <2>5. KillInv'
    BY <2>1, <2>2 DEF KillInv, SM!Running
  <2>6. QED
    BY <2>3, <2>4, <2>5
<1>3. QED
  BY <1>1, <1>2

\* kill() of one process, for a caller or for shutdown().
LEMMA KillTreeInv ==
    ASSUME SpawnsInv, NEW t \in trees, SM!KillTree(t)
    PROVE  SpawnsInv'
<1> DEFINE r == t.of
           denied == SM!Running(r) /\ r \in Untouchable
           how == IF denied THEN "rejected" ELSE "resolved"
<1>1. r \in Spawns /\ t.signal \in SM!Signals
  BY DEF SpawnsInv, SM!SMTypeOK
<1>2. /\ trees' = trees \ {t} /\ SM!Signalled(r, t.signal)
      /\ UNCHANGED <<spawn, tries, child, listed, known, response, shutdown>>
  BY DEF SM!KillTree
<1>3. /\ sent' \in [Spawns -> SUBSET SM!Signals] /\ \A q \in Spawns : sent[q] \subseteq sent'[q]
      /\ SM!Running(r) /\ r \notin Untouchable => t.signal \in sent'[r]
  BY <1>1, <1>2, SignalledType DEF SpawnsInv
<1>4. SpawnInv' /\ ListInv'
  BY <1>2 DEF SpawnsInv, SpawnInv, ListInv
<1>5. CASE t.by = "shutdown" /\ (denied \/ ~SM!Running(r) \/ t.signal = "SIGKILL")
  <2>1. SM!Settle(r, how) /\ timers' = timers \ {r}
    BY <1>5 DEF SM!KillTree
  <2>2. /\ kills' \in [Spawns -> {"none", "pending", "resolved", "rejected"}]
        /\ \A q \in Spawns : kills'[q] = kills[q] \/ (q = r /\ kills[q] = "pending" /\ kills'[q] = how)
    BY <1>1, <2>1, SettleType DEF SpawnsInv
  <2>3. how = "resolved" => ~SM!Running(r) \/ "SIGKILL" \in sent'[r]
    BY <1>3, <1>5
  <2>4. SM!SMTypeOK'
    BY <1>2, <1>3, <2>1, <2>2 DEF SpawnsInv, SM!SMTypeOK
  <2>5. KillInv'
    BY <1>1, <1>2, <1>3, <2>2, <2>3 DEF SpawnsInv, KillInv, SM!Running
  <2>6. QED
    BY <1>4, <2>4, <2>5 DEF SpawnsInv
<1>6. CASE ~(t.by = "shutdown" /\ (denied \/ ~SM!Running(r) \/ t.signal = "SIGKILL"))
  <2>1. UNCHANGED <<kills, timers>>
    BY <1>6 DEF SM!KillTree
  <2>2. SM!SMTypeOK' /\ KillInv'
    BY <1>2, <1>3, <2>1 DEF SpawnsInv, SM!SMTypeOK, KillInv, SM!Running
  <2>3. QED
    BY <1>4, <2>2 DEF SpawnsInv
<1>7. QED
  BY <1>5, <1>6

LEMMA NextInv ==
    ASSUME SM!SMAssumption, SpawnsInv, [SM!Next]_smVars
    PROVE  SpawnsInv'
<1> USE DEF SpawnsInv
<1>1. ASSUME NEW r \in Spawns, SM!Spawn(r) \/ SM!Retry(r) PROVE SpawnsInv'
  <2>1. CASE SM!Spawn(r)
    <3>1. SM!SMTypeOK' /\ ListInv' /\ KillInv'
      BY <2>1 DEF SM!Spawn, SM!SMTypeOK, ListInv, KillInv, SM!Running
    <3>2. /\ spawn[r] = "none" /\ spawn' = [spawn EXCEPT ![r] = "trying"]
          /\ spawn'[r] = "trying" /\ \A q \in Spawns \ {r} : spawn'[q] = spawn[q]
          /\ UNCHANGED <<tries, child, known>>
      BY <2>1 DEF SM!Spawn, SM!SMTypeOK
    <3>3. tries[r] > 0 /\ child[r] = "none" /\ r \notin known
      BY <3>2, SM!SMAssumption DEF SpawnInv, SM!SMAssumption
    <3>4. known \subseteq Spawns
      BY DEF SM!SMTypeOK
    <3>5. SpawnInv'
      BY <3>2, <3>3, <3>4 DEF SpawnInv
    <3>6. QED
      BY <3>1, <3>5
  <2>2. CASE SM!Retry(r)
    BY <2>2 DEF SM!Retry, SM!SMTypeOK, SpawnInv, ListInv, KillInv, SM!Running
  <2>3. QED
    BY <1>1, <2>1, <2>2
<1>2. ASSUME NEW r \in Spawns, SM!SpawnError(r) PROVE SpawnsInv'
  BY <1>2 DEF SM!SpawnError, SM!SMTypeOK, SpawnInv, ListInv, KillInv, SM!Running
<1>3. ASSUME NEW r \in Spawns, SM!ResponseEnd(r) PROVE SpawnsInv'
  <2>1. /\ SM!Signalled(r, "SIGTERM") /\ response' = [response EXCEPT ![r] = "left"]
        /\ UNCHANGED <<spawn, tries, child, listed, known, trees, kills, timers, shutdown>>
    BY <1>3 DEF SM!ResponseEnd
  <2>2. sent' \in [Spawns -> SUBSET SM!Signals] /\ \A q \in Spawns : sent[q] \subseteq sent'[q]
    BY <2>1, SignalledType DEF SM!Signals
  <2>3. QED
    BY <2>1, <2>2 DEF SM!SMTypeOK, SpawnInv, ListInv, KillInv, SM!Running
<1>4. ASSUME NEW r \in Spawns, SM!KillCall(r) \/ SM!ForceKill(r) PROVE SpawnsInv'
  <2>1. /\ trees' \subseteq [of : Spawns, signal : SM!Signals, by : {"call", "shutdown"}]
        /\ timers' \subseteq timers
        /\ UNCHANGED <<spawn, tries, child, sent, listed, known, response, kills, shutdown>>
    <3>1. \A x \in SM!Signals, y \in {"call", "shutdown"} :
            [of |-> r, signal |-> x, by |-> y] \in
              [of : Spawns, signal : SM!Signals, by : {"call", "shutdown"}]
      OBVIOUS
    <3>2. "SIGTERM" \in SM!Signals /\ "SIGKILL" \in SM!Signals
      BY DEF SM!Signals
    <3>3. CASE SM!KillCall(r)
      BY <3>1, <3>2, <3>3 DEF SM!KillCall, SM!SMTypeOK
    <3>4. CASE SM!ForceKill(r)
      BY <3>1, <3>2, <3>4 DEF SM!ForceKill, SM!SMTypeOK
    <3>5. QED
      BY <1>4, <3>3, <3>4
  <2>2. QED
    BY <2>1 DEF SM!SMTypeOK, SpawnInv, ListInv, KillInv, SM!Running
<1>5. CASE SM!Shutdown
  <2>1. /\ shutdown = "none" /\ shutdown' = "waiting"
        /\ kills' = [r \in Spawns |-> IF r \in listed THEN "pending" ELSE kills[r]]
        /\ timers' = listed
        /\ trees' = trees \cup {[of |-> r, signal |-> "SIGTERM",
          by |-> "shutdown"] : r \in listed}
        /\ UNCHANGED <<spawn, tries, child, sent, listed, known, response>>
    BY <1>5 DEF SM!Shutdown
  <2>2. trees' \subseteq [of : Spawns, signal : SM!Signals, by : {"call", "shutdown"}]
    <3>1. \A r \in listed : [of |-> r, signal |-> "SIGTERM", by |-> "shutdown"] \in
                               [of : Spawns, signal : SM!Signals, by : {"call", "shutdown"}]
      BY DEF SM!SMTypeOK, SM!Signals
    <3> HIDE DEF SpawnsInv
    <3>2. trees \subseteq [of : Spawns, signal : SM!Signals, by : {"call", "shutdown"}]
      BY DEF SpawnsInv, SM!SMTypeOK
    <3>3. QED
      BY <2>1, <3>1, <3>2
  <2>3. QED
    BY <2>1, <2>2 DEF SM!SMTypeOK, SpawnInv, ListInv, KillInv, SM!Running
<1>6. CASE SM!ShutdownSettles
  <2>1. /\ shutdown = "waiting"
        /\ UNCHANGED <<spawn, tries, child, sent, known, response, trees, kills, timers>>
    BY <1>6 DEF SM!ShutdownSettles
  <2>2. CASE shutdown' = "failed" /\ listed' = listed
    BY <2>1, <2>2 DEF SM!SMTypeOK, SpawnInv, ListInv, KillInv, SM!Running
  <2>3. CASE /\ shutdown' = "done" /\ listed' = {}
             /\ \A r \in Spawns : kills[r] \in {"none", "resolved"}
    BY <2>1, <2>3 DEF SM!SMTypeOK, SpawnInv, ListInv, KillInv, SM!Running
  <2>4. QED
    BY <1>6, <2>2, <2>3 DEF SM!ShutdownSettles
<1>7. CASE UNCHANGED smVars
  BY <1>7 DEF smVars, SM!SMTypeOK, SpawnInv, ListInv, KillInv, SM!Running
<1> HIDE DEF SpawnsInv
<1>8. QED
  BY SM!SMAssumption, <1>1, <1>2, <1>3, <1>4, <1>5, <1>6, <1>7, AttemptInv, EndInv, KillTreeInv
     DEF SM!Next, SM!Requests, SM!Work, SM!Exits

LEMMA SpawnsBegin ==
    ASSUME SM!SMAssumption, SM!Init
    PROVE  SpawnsInv
  BY DEF SM!Init, SpawnsInv, SM!SMTypeOK, SpawnInv, ListInv, KillInv, SM!Running,
         SM!SMAssumption

\* What runs is listed, but for the children of retried attempts and those spawned
\* while shutdown() waited; and whom shutdown() waited for has exited or was sent
\* SIGKILL when it is done.
THEOREM ListIsTrue ==
    ASSUME SM!SMAssumption
    PROVE  SM!Spec => []SM!SpawnsAreListed
<1>1. SM!Init => SpawnsInv
  BY SpawnsBegin
<1>2. SpawnsInv /\ [SM!Next]_smVars => SpawnsInv'
  BY SM!SMAssumption, NextInv
<1>3. SpawnsInv => SM!SpawnsAreListed
  BY DEF SpawnsInv, SM!SMTypeOK, SpawnInv, ListInv, KillInv, SM!SpawnsAreListed, SM!ListIsExact,
         SM!ShutdownReachesAll, SM!Running
<1>4. QED
  BY <1>1, <1>2, <1>3, PTL DEF SM!Spec, SM!smVars, smVars

-------------------------------------------------------------------------------
(* The config service *)

\* A watcher is open for one layer.
WatcherInv == CS!WatchersOwned /\ \A o, p \in open : o[1] = p[1] => o = p

\* The last event on its way to the watcher of a layer says whether the file is there;
\* with none, what can be read of the file has been.
LayerInv ==
    \A l \in Layers : watchers[l] # 0 =>
      LET es == events[watchers[l]]
      IN  IF es = <<>> THEN file[l] # 0 /\ (CS!Readable(l) => layer[l] = file[l])
                       ELSE es[Len(es)] = "delete" <=> file[l] = 0

ConfigInv == CS!CSTypeOK /\ WatcherInv /\ LayerInv

\* The types that the steps need.
LEMMA ConfigTypes ==
    ASSUME CS!CSAssumption, CS!CSTypeOK
    PROVE  /\ \A l \in Layers : watchers[l] \in CS!Watchers \cup {0}
           /\ \A w \in CS!Watchers : events[w] \in Seq(CS!Actions)
           /\ \A o \in open : o = <<o[1], o[2]>> /\ o[1] \in CS!Watchers /\ o[2] \in Layers
           /\ 0 \notin CS!Watchers
           /\ DOMAIN watchers = Layers /\ DOMAIN layer = Layers /\ DOMAIN file = Layers
           /\ DOMAIN events = CS!Watchers
  BY DEF CS!CSAssumption, CS!CSTypeOK, CS!Watchers

\* What closing the watcher of a layer does.
LEMMA CloseEffect ==
    ASSUME CS!CSAssumption, CS!CSTypeOK, WatcherInv, NEW l \in Layers, CS!CloseWatcher(l)
    PROVE  /\ watchers' \in [Layers -> CS!Watchers \cup {0}] /\ open' \subseteq open
           /\ watchers'[l] = 0 /\ \A m \in Layers \ {l} : watchers'[m] = watchers[m]
           /\ replaced' = replaced => CS!WatchersOwned'
           /\ \A o, p \in open' : o[1] = p[1] => o = p
<1>1. /\ watchers' = [watchers EXCEPT ![l] = 0] /\ open' = {o \in open : o[1] # watchers[l]}
      /\ watchers \in [Layers -> CS!Watchers \cup {0}]
  BY DEF CS!CloseWatcher, CS!CSTypeOK
<1>2. /\ watchers' \in [Layers -> CS!Watchers \cup {0}] /\ open' \subseteq open
      /\ watchers'[l] = 0 /\ \A m \in Layers \ {l} : watchers'[m] = watchers[m]
  BY <1>1
<1>3. ASSUME replaced' = replaced PROVE CS!WatchersOwned'
  <2>1. ASSUME NEW m \in Layers, watchers'[m] # 0 PROVE <<watchers'[m], m>> \in open'
    <3>1. m # l /\ watchers'[m] = watchers[m] /\ <<watchers[m], m>> \in open
      BY <1>2, <2>1 DEF WatcherInv, CS!WatchersOwned
    <3>2. watchers[m] # watchers[l]
      <4> SUFFICES ASSUME watchers[m] = watchers[l] PROVE FALSE
        OBVIOUS
      <4>1. <<watchers[l], l>> \in open
        BY <2>1, <3>1 DEF WatcherInv, CS!WatchersOwned
      <4>2. <<watchers[l], l>> = <<watchers[m], m>>
        BY <3>1, <4>1 DEF WatcherInv
      <4>3. QED
        BY <3>1, <4>2
    <3>3. QED
      BY <1>1, <3>1, <3>2
  <2>2. ASSUME NEW o \in open' PROVE watchers'[o[2]] = o[1] \/ o[1] \in replaced'
    <3>1. o \in open /\ o[1] # watchers[l] /\ o[2] \in Layers
      BY <1>1, <2>2, ConfigTypes
    <3>2. watchers[o[2]] = o[1] \/ o[1] \in replaced
      BY <3>1 DEF WatcherInv, CS!WatchersOwned
    <3>3. QED
      BY <1>2, <1>3, <3>1, <3>2
  <2>3. QED
    BY <2>1, <2>2 DEF CS!WatchersOwned
<1>4. \A o, p \in open' : o[1] = p[1] => o = p
  BY <1>2 DEF WatcherInv
<1>5. QED
  BY <1>2, <1>3, <1>4

\* Load opens a watcher that nobody has.
LEMMA LoadStep ==
    ASSUME CS!CSAssumption, ConfigInv, NEW l \in Layers, CS!Load(l)
    PROVE  ConfigInv'
<1> DEFINE w == CHOOSE w \in CS!Watchers : \A m \in Layers : <<w, m>> \notin open
<1>1. /\ CS!Readable(l) /\ layer' = [layer EXCEPT ![l] = file[l]]
      /\ watchers' = [watchers EXCEPT ![l] = w] /\ open' = open \cup {<<w, l>>}
      /\ events' = [events EXCEPT ![w] = <<>>]
      /\ replaced' = (replaced \cup {watchers[l]}) \ {0, w}
      /\ UNCHANGED <<file, valid, value, edits>>
  BY DEF CS!Load, CS!Loads
<1>2. w \in CS!Watchers /\ \A m \in Layers : <<w, m>> \notin open
  BY DEF CS!Load
<1> HIDE DEF w
<1> USE ConfigTypes DEF ConfigInv
<1>3. CS!CSTypeOK'
  <2>1. w \in CS!Watchers \cup {0} /\ file[l] \in 0..MaxEdits+1 /\ <<w,
    l>> \in CS!Watchers \X Layers
    BY <1>2 DEF CS!CSTypeOK
  <2>2. layer' \in [Layers -> 0..MaxEdits+1] /\ watchers' \in [Layers -> CS!Watchers \cup {0}]
    BY <1>1, <2>1 DEF CS!CSTypeOK
  <2>3. events' \in [CS!Watchers -> Seq(CS!Actions)]
    <3>1. <<>> \in Seq(CS!Actions)
      OBVIOUS
    <3>2. QED
      BY <1>1, <3>1 DEF CS!CSTypeOK
  <2>4. open' \subseteq CS!Watchers \X Layers /\ replaced' \subseteq CS!Watchers
    BY <1>1, <2>1 DEF CS!CSTypeOK
  <2>5. QED
    BY <1>1, <2>2, <2>3, <2>4 DEF CS!CSTypeOK
<1>4. /\ watchers'[l] = w /\ \A m \in Layers \ {l} : watchers'[m] = watchers[m] /\ watchers[m] # w
      /\ \A o \in open : o[1] # w
  <2>1. \A o \in open : o[1] # w
    BY <1>2
  <2>2. \A m \in Layers : watchers[m] # w
    BY <1>2 DEF WatcherInv, CS!WatchersOwned
  <2>3. QED
    BY <1>1, <2>1, <2>2
<1>5. WatcherInv'
  <2>1. ASSUME NEW m \in Layers, watchers'[m] # 0 PROVE <<watchers'[m], m>> \in open'
    BY <1>1, <1>4, <2>1 DEF WatcherInv, CS!WatchersOwned
  <2>2. ASSUME NEW o \in open' PROVE watchers'[o[2]] = o[1] \/ o[1] \in replaced'
    <3>1. CASE o = <<w, l>>
      BY <1>4, <3>1
    <3>2. CASE o # <<w, l>>
      <4>1. o \in open /\ o[1] # w /\ o[1] # 0 /\ o[2] \in Layers
        BY <1>1, <1>4, <2>2, <3>2
      <4>2. watchers[o[2]] = o[1] \/ o[1] \in replaced
        BY <4>1 DEF WatcherInv, CS!WatchersOwned
      <4>3. QED
        BY <1>1, <1>4, <4>1, <4>2
    <3>3. QED
      BY <3>1, <3>2
  <2>3. \A o, p \in open' : o[1] = p[1] => o = p
    BY <1>1, <1>4 DEF WatcherInv
  <2>4. QED
    BY <2>1, <2>2, <2>3 DEF WatcherInv, CS!WatchersOwned
<1>6. LayerInv'
  <2> SUFFICES ASSUME NEW m \in Layers, watchers'[m] # 0
               PROVE  LET es == events'[watchers'[m]]
                      IN  IF es = <<>> THEN file'[m] # 0 /\ (CS!Readable(m)' => layer'[m] = file'[m])
                                       ELSE es[Len(es)] = "delete" <=> file'[m] = 0
    BY DEF LayerInv
  <2>1. CASE m = l
    <3>1. events'[watchers'[m]] = <<>> /\ file'[m] # 0 /\ layer'[m] = file'[m]
      BY <1>1, <1>2, <1>4, <2>1 DEF CS!Readable
    <3>2. QED
      BY <3>1
  <2>2. CASE m # l
    <3>1. /\ watchers'[m] = watchers[m] /\ watchers[m] # w /\ watchers[m] \in CS!Watchers
          /\ events'[watchers[m]] = events[watchers[m]]
          /\ layer'[m] = layer[m] /\ file'[m] = file[m] /\ CS!Readable(m)' = CS!Readable(m)
      BY <1>1, <1>4, <2>2 DEF CS!Readable
    <3>2. QED
      BY <3>1 DEF LayerInv
  <2>3. QED
    BY <2>1, <2>2
<1>7. QED
  BY <1>3, <1>5, <1>6

\* What is left of a queue ends as the queue did.
LEMMA LastOfTail ==
    ASSUME NEW S, NEW q \in Seq(S), q # <<>>
    PROVE  /\ Tail(q) # <<>> => Tail(q)[Len(Tail(q))] = q[Len(q)]
           /\ Tail(q) = <<>> => q[Len(q)] = Head(q)
<1> DEFINE t == Tail(q)
<1>1. Len(t) = Len(q) - 1 /\ \A i \in 1..Len(t) : t[i] = q[i + 1]
  BY HeadTailProperties
<1>2. t \in Seq(S) /\ Len(q) \in Nat /\ Len(t) \in Nat /\ Head(q) = q[1]
  BY HeadTailProperties, EmptySeq
<1> HIDE DEF t
<1>3. ASSUME t # <<>> PROVE t[Len(t)] = q[Len(q)]
  <2>1. Len(t) \in 1..Len(t)
    BY <1>2, <1>3, EmptySeq
  <2>2. QED
    BY <1>1, <1>2, <2>1
<1>4. ASSUME t = <<>> PROVE q[Len(q)] = Head(q)
  <2>1. Len(q) = 1
    BY <1>1, <1>2, <1>4
  <2>2. QED
    BY <1>2, <2>1
<1>5. QED
  BY <1>3, <1>4 DEF t

\* A layer that is unloaded loses its watcher; the others keep theirs.
LEMMA UnloadEffect ==
    ASSUME CS!CSAssumption, ConfigInv, NEW l \in Layers, CS!UnloadLayer(l),
           UNCHANGED <<file, valid, replaced, value, edits>>,
           events' \in [CS!Watchers -> Seq(CS!Actions)],
           \A m \in Layers \ {l} : watchers[m] # 0 => events'[watchers[m]] = events[watchers[m]]
    PROVE  ConfigInv'
<1> USE ConfigTypes DEF ConfigInv
<1>1. CS!CloseWatcher(l) /\ layer' = [layer EXCEPT ![l] = 0]
  BY DEF CS!UnloadLayer
<1>2. /\ watchers' \in [Layers -> CS!Watchers \cup {0}] /\ open' \subseteq open
      /\ watchers'[l] = 0 /\ \A m \in Layers \ {l} : watchers'[m] = watchers[m]
      /\ WatcherInv'
  BY <1>1, CloseEffect DEF WatcherInv
<1>3. CS!CSTypeOK'
  <2>1. 0 \in 0..MaxEdits+1
    BY DEF CS!CSAssumption
  <2>2. layer' \in [Layers -> 0..MaxEdits+1]
    BY <1>1, <2>1 DEF CS!CSTypeOK
  <2>3. QED
    BY <1>2, <2>2 DEF CS!CSTypeOK
<1>4. LayerInv'
  <2> SUFFICES ASSUME NEW m \in Layers, watchers'[m] # 0
               PROVE  LET es == events'[watchers'[m]]
                      IN  IF es = <<>> THEN file'[m] # 0 /\ (CS!Readable(m)' => layer'[m] = file'[m])
                                       ELSE es[Len(es)] = "delete" <=> file'[m] = 0
    BY DEF LayerInv
  <2>1. /\ m # l /\ watchers'[m] = watchers[m] /\ events'[watchers[m]] = events[watchers[m]]
        /\ layer'[m] = layer[m] /\ file'[m] = file[m] /\ CS!Readable(m)' = CS!Readable(m)
    BY <1>1, <1>2 DEF CS!Readable
  <2>2. QED
    BY <2>1 DEF LayerInv
<1>5. QED
  BY <1>2, <1>3, <1>4

\* Where neither watchers nor events change, a layer may only become what its file is.
LEMMA ReloadStep ==
    ASSUME CS!CSAssumption, ConfigInv, NEW l \in Layers,
           CS!Loads(l) \/ UNCHANGED layer,
           UNCHANGED <<file, valid, watchers, open, replaced, value, edits>>,
           events' \in [CS!Watchers -> Seq(CS!Actions)],
           \A m \in Layers : watchers[m] # 0 /\ events'[watchers[m]] # events[watchers[m]] =>
              \/ /\ events'[watchers[m]] = <<>> /\ file[m] # 0
                 /\ CS!Readable(m) => layer'[m] = file[m]
              \/ events'[watchers[m]] # <<>> /\
                   (events'[watchers[m]][Len(events'[watchers[m]])] = "delete" <=> file[m] = 0)
    PROVE  ConfigInv'
<1> USE ConfigTypes DEF ConfigInv
<1>1. layer' \in [Layers -> 0..MaxEdits+1] /\ \A m \in Layers : layer'[m] \in {layer[m],
  file[m]}
  <2>1. file[l] \in 0..MaxEdits+1 /\ layer \in [Layers -> 0..MaxEdits+1]
    BY DEF CS!CSTypeOK
  <2>2. CASE UNCHANGED layer
    BY <2>1, <2>2
  <2>3. CASE layer' = [layer EXCEPT ![l] = file[l]]
    BY <2>1, <2>3
  <2>4. QED
    BY <2>2, <2>3 DEF CS!Loads
<1>2. CS!CSTypeOK'
  BY <1>1 DEF CS!CSTypeOK
<1>3. WatcherInv'
  BY DEF WatcherInv, CS!WatchersOwned
<1>4. LayerInv'
  <2> SUFFICES ASSUME NEW m \in Layers, watchers'[m] # 0
               PROVE  LET es == events'[watchers'[m]]
                      IN  IF es = <<>> THEN file'[m] # 0 /\ (CS!Readable(m)' => layer'[m] = file'[m])
                                       ELSE es[Len(es)] = "delete" <=> file'[m] = 0
    BY DEF LayerInv
  <2>1. watchers'[m] = watchers[m] /\ file'[m] = file[m] /\ CS!Readable(m)' = CS!Readable(m)
    BY DEF CS!Readable
  <2>2. CASE events'[watchers[m]] = events[watchers[m]]
    BY <1>1, <2>1, <2>2 DEF LayerInv
  <2>3. CASE events'[watchers[m]] # events[watchers[m]]
    BY <2>1, <2>3
  <2>4. QED
    BY <2>2, <2>3
<1>5. QED
  BY <1>2, <1>3, <1>4

\* A listener unloads its layer after the last event of a file that is gone, or loads
\* what is there.
LEMMA NotifiedStep ==
    ASSUME CS!CSAssumption, ConfigInv, NEW w \in CS!Watchers, CS!Notified(w)
    PROVE  ConfigInv'
<1> USE ConfigTypes DEF ConfigInv
<1>1. /\ events[w] # <<>> /\ events' = [events EXCEPT ![w] = Tail(events[w])]
      /\ UNCHANGED <<file, valid, replaced, value, edits>>
  BY DEF CS!Notified
<1>2. /\ events' \in [CS!Watchers -> Seq(CS!Actions)] /\ events'[w] = Tail(events[w])
      /\ \A v \in CS!Watchers \ {w} : events'[v] = events[v]
  <2>1. events[w] \in Seq(CS!Actions) /\ events \in [CS!Watchers -> Seq(CS!Actions)]
    BY DEF CS!CSTypeOK
  <2>2. Tail(events[w]) \in Seq(CS!Actions)
    BY <1>1, <2>1, HeadTailProperties
  <2>3. QED
    BY <1>1, <2>1, <2>2
<1>3. events'[w] # <<>> => events'[w][Len(events'[w])] = events[w][Len(events[w])]
  BY <1>1, <1>2, LastOfTail
<1>4. events'[w] = <<>> => events[w][Len(events[w])] = Head(events[w])
  BY <1>1, <1>2, LastOfTail
<1>5. CASE \A l \in Layers : <<w, l>> \notin open
  <2>1. UNCHANGED <<layer, watchers, open>>
    BY <1>5 DEF CS!Notified
  <2>2. \A m \in Layers : watchers[m] # w
    BY <1>5 DEF WatcherInv, CS!WatchersOwned
  <2>3. CS!CSTypeOK' /\ WatcherInv'
    BY <1>1, <1>2, <2>1 DEF CS!CSTypeOK, WatcherInv, CS!WatchersOwned
  <2>4. LayerInv'
    BY <1>1, <1>2, <2>1, <2>2 DEF LayerInv, CS!Readable
  <2>5. QED
    BY <2>3, <2>4
<1>6. CASE \E l \in Layers : <<w, l>> \in open
  <2> DEFINE l == CHOOSE l \in Layers : <<w, l>> \in open
  <2>1. /\ l \in Layers /\ <<w, l>> \in open
        /\ IF Head(events[w]) = "delete" THEN CS!UnloadLayer(l)
           ELSE (IF CS!Readable(l) THEN CS!Loads(l) ELSE UNCHANGED layer) /\ UNCHANGED <<watchers, open>>
    BY <1>6 DEF CS!Notified
  <2> HIDE DEF l
  <2>2. \A m \in Layers \ {l} : watchers[m] # w
    BY <2>1 DEF WatcherInv, CS!WatchersOwned
  <2>3. CASE Head(events[w]) = "delete"
    <3>1. \A m \in Layers \ {l} : watchers[m] # 0 => events'[watchers[m]] = events[watchers[m]]
      BY <1>2, <2>2
    <3>2. QED
      BY <1>1, <1>2, <2>1, <2>3, <3>1, UnloadEffect
  <2>4. CASE Head(events[w]) # "delete"
    <3>1. /\ IF CS!Readable(l) THEN CS!Loads(l) ELSE UNCHANGED layer
          /\ UNCHANGED <<watchers, open>>
      BY <2>1, <2>4
    <3>2. ASSUME NEW m \in Layers, watchers[m] # 0, events'[watchers[m]] # events[watchers[m]]
          PROVE  \/ /\ events'[watchers[m]] = <<>> /\ file[m] # 0
                    /\ CS!Readable(m) => layer'[m] = file[m]
                 \/ events'[watchers[m]] # <<>> /\
                     (events'[watchers[m]][Len(events'[watchers[m]])] = "delete" <=> file[m] = 0)
      <4>1. m = l /\ watchers[m] = w
        BY <1>2, <2>2, <3>2
      <4>2. events[w][Len(events[w])] = "delete" <=> file[m] = 0
        BY <1>1, <4>1, <3>2 DEF LayerInv
      <4>3. CS!Readable(m) => layer'[m] = file[m]
        BY <3>1, <4>1 DEF CS!Loads
      <4>4. CASE events'[w] = <<>>
        BY <1>4, <2>4, <4>1, <4>2, <4>3, <4>4
      <4>5. CASE events'[w] # <<>>
        BY <1>3, <4>1, <4>2, <4>5
      <4>6. QED
        BY <4>4, <4>5
    <3>3. /\ CS!Loads(l) \/ UNCHANGED layer
          /\ layer' # layer => CS!Readable(l)
      BY <3>1
    <3>4. QED
      BY <1>1, <1>2, <2>1, <3>1, <3>2, <3>3, ReloadStep
  <2>5. QED
    BY <2>3, <2>4
<1>7. QED
  BY <1>5, <1>6

\* An edit is the last thing that the watchers of the file are told.
LEMMA EditStep ==
    ASSUME CS!CSAssumption, ConfigInv, NEW l \in Layers, NEW to \in {0, edits + 2},
           NEW sound \in BOOLEAN, CS!Edit(l, to, sound)
    PROVE  ConfigInv'
<1> DEFINE e == IF to = 0 THEN "delete" ELSE "change"
<1> USE ConfigTypes DEF ConfigInv
<1>1. /\ edits < MaxEdits /\ edits' = edits + 1
      /\ file' = [file EXCEPT ![l] = to]
      /\ valid' = IF sound THEN valid \cup {l} ELSE valid \ {l}
      /\ events' = [w \in CS!Watchers |-> IF <<w, l>> \in open THEN Append(events[w],
        e) ELSE events[w]]
      /\ UNCHANGED <<layer, watchers, open, replaced, value>>
  BY DEF CS!Edit
<1>2. e \in CS!Actions /\ (e = "delete" <=> to = 0)
  BY DEF CS!Actions
<1> HIDE DEF e
<1>3. CS!CSTypeOK'
  <2>1. edits \in 0..MaxEdits /\ MaxEdits \in Nat
    BY DEF CS!CSTypeOK, CS!CSAssumption
  <2>2. to \in 0..MaxEdits+1 /\ edits' \in 0..MaxEdits
    BY <1>1, <2>1
  <2>3. file' \in [Layers -> 0..MaxEdits+1]
    BY <1>1, <2>2 DEF CS!CSTypeOK
  <2>4. \A w \in CS!Watchers : Append(events[w], e) \in Seq(CS!Actions)
    BY <1>2
  <2>5. events' \in [CS!Watchers -> Seq(CS!Actions)]
    BY <1>1, <2>4
  <2>6. valid' \subseteq Layers
    BY <1>1 DEF CS!CSTypeOK
  <2>7. QED
    BY <1>1, <2>2, <2>3, <2>5, <2>6 DEF CS!CSTypeOK
<1>4. WatcherInv'
  BY <1>1 DEF WatcherInv, CS!WatchersOwned
<1>5. LayerInv'
  <2> SUFFICES ASSUME NEW m \in Layers, watchers'[m] # 0
               PROVE  LET es == events'[watchers'[m]]
                      IN  IF es = <<>> THEN file'[m] # 0 /\ (CS!Readable(m)' => layer'[m] = file'[m])
                                       ELSE es[Len(es)] = "delete" <=> file'[m] = 0
    BY DEF LayerInv
  <2>1. watchers'[m] = watchers[m] /\ watchers[m] \in CS!Watchers /\ <<watchers[m], m>> \in open
    BY <1>1 DEF WatcherInv, CS!WatchersOwned
  <2>2. CASE m = l
    <3>1. events'[watchers[m]] = Append(events[watchers[m]], e) /\ file'[m] = to
      BY <1>1, <2>1, <2>2
    <3>2. events'[watchers[m]] # <<>> /\ events'[watchers[m]][Len(events'[watchers[m]])] = e
      BY <2>1, <3>1
    <3>3. QED
      BY <1>2, <2>1, <3>1, <3>2
  <2>3. CASE m # l
    <3>1. <<watchers[m], l>> \notin open
      BY <2>1, <2>3 DEF WatcherInv
    <3>2. /\ events'[watchers[m]] = events[watchers[m]] /\ file'[m] = file[m]
          /\ CS!Readable(m)' = CS!Readable(m) /\ layer'[m] = layer[m]
      BY <1>1, <2>1, <2>3, <3>1 DEF CS!Readable
    <3>3. QED
      BY <2>1, <3>2 DEF LayerInv
  <2>4. QED
    BY <2>2, <2>3
<1>6. QED
  BY <1>3, <1>4, <1>5

\* shutdown() closes what it knows.
LEMMA ConfigShutdownStep ==
    ASSUME CS!CSAssumption, ConfigInv, CS!Shutdown
    PROVE  ConfigInv'
<1> USE ConfigTypes DEF ConfigInv
<1>1. /\ open' = {o \in open : watchers[o[2]] # o[1]} /\ watchers' = [l \in Layers |-> 0]
      /\ UNCHANGED <<file, valid, layer, events, replaced, value, edits>>
  BY DEF CS!Shutdown
<1>2. open' \subseteq open /\ watchers' \in [Layers -> CS!Watchers \cup {0}]
      /\ \A l \in Layers : watchers'[l] = 0
  BY <1>1
<1>3. CS!CSTypeOK'
  BY <1>1, <1>2 DEF CS!CSTypeOK
<1>4. WatcherInv'
  BY <1>1, <1>2 DEF WatcherInv, CS!WatchersOwned
<1>5. LayerInv'
  BY <1>2 DEF LayerInv
<1>6. QED
  BY <1>3, <1>4, <1>5

\* What the config service watches and what it has loaded keep in agreement.
LEMMA ConfigStepInv ==
    ASSUME CS!CSAssumption, ConfigInv, [CS!Next]_csVars
    PROVE  ConfigInv'
<1>1. ASSUME NEW l \in Layers, CS!Unload(l) PROVE ConfigInv'
  <2>1. /\ CS!UnloadLayer(l) /\ events' = events
        /\ UNCHANGED <<file, valid, replaced, value, edits>>
    BY <1>1 DEF CS!Unload
  <2>2. events' \in [CS!Watchers -> Seq(CS!Actions)]
    BY <2>1 DEF ConfigInv, CS!CSTypeOK
  <2>3. QED
    BY <2>1, <2>2, UnloadEffect
<1>2. CASE CS!Write \/ CS!Save
  <2>1. UNCHANGED <<file, valid, layer, watchers, open, events, replaced>>
    BY <1>2 DEF CS!Write, CS!Save
  <2>2. value' \in [memory : 0..MaxEdits, disk : 0..MaxEdits] /\ edits' \in 0..MaxEdits
    <3>1. CASE CS!Write
      <4>1. edits \in 0..MaxEdits /\ edits < MaxEdits /\ edits' = edits + 1 /\ MaxEdits \in Nat
        BY <3>1 DEF CS!Write, ConfigInv, CS!CSTypeOK, CS!CSAssumption
      <4>2. edits + 1 \in 0..MaxEdits
        BY <4>1
      <4>3. value' = [value EXCEPT !.memory = edits + 1]
        BY <3>1 DEF CS!Write
      <4>4. QED
        BY <4>1, <4>2, <4>3 DEF ConfigInv, CS!CSTypeOK
    <3>2. CASE CS!Save
      BY <3>2 DEF CS!Save, ConfigInv, CS!CSTypeOK
    <3>3. QED
      BY <1>2, <3>1, <3>2
  <2>3. QED
    BY <2>1, <2>2 DEF ConfigInv, CS!CSTypeOK, WatcherInv, CS!WatchersOwned, LayerInv,
                      CS!Readable
<1>3. CASE UNCHANGED csVars
  BY <1>3 DEF csVars, ConfigInv, CS!CSTypeOK, WatcherInv, CS!WatchersOwned, LayerInv,
              CS!Readable
<1>4. CASE CS!Calls
  BY <1>1, <1>2, <1>4, LoadStep DEF CS!Calls
<1>5. CASE CS!Edits
  BY <1>5, EditStep DEF CS!Edits
<1>6. CASE CS!Work
  BY <1>2, <1>6, NotifiedStep DEF CS!Work
<1>7. QED
  BY <1>3, <1>4, <1>5, <1>6, ConfigShutdownStep DEF CS!Next

LEMMA ConfigBegins ==
    ASSUME CS!CSAssumption, CS!Init
    PROVE  ConfigInv
<1>1. /\ file \in [Layers -> 0..MaxEdits+1] /\ layer \in [Layers -> 0..MaxEdits+1]
      /\ value \in [memory : 0..MaxEdits, disk : 0..MaxEdits] /\ edits \in 0..MaxEdits
  BY DEF CS!Init, CS!CSAssumption
<1>2. /\ watchers \in [Layers -> CS!Watchers \cup {0}] /\ open \subseteq CS!Watchers \X Layers
      /\ events \in [CS!Watchers -> Seq(CS!Actions)] /\ replaced \subseteq CS!Watchers
      /\ valid \subseteq Layers
  BY DEF CS!Init
<1>3. CS!CSTypeOK
  BY <1>1, <1>2 DEF CS!CSTypeOK
<1>4. WatcherInv /\ LayerInv
  BY DEF CS!Init, WatcherInv, CS!WatchersOwned, LayerInv
<1>5. QED
  BY <1>3, <1>4 DEF ConfigInv

\* Every layer that is loaded is watched, by watchers with an owner or a successor, and
\* is as its file was when that could last be parsed, once the events have come in.
THEOREM LayersFollow ==
    ASSUME CS!CSAssumption
    PROVE  CS!Spec => [](CS!WatchersOwned /\ CS!LayersFollowFiles)
<1>1. CS!Init => ConfigInv
  BY ConfigBegins
<1>2. ConfigInv /\ [CS!Next]_csVars => ConfigInv'
  BY ConfigStepInv
<1>3. ConfigInv => CS!WatchersOwned /\ CS!LayersFollowFiles
  <2> SUFFICES ASSUME ConfigInv PROVE CS!WatchersOwned /\ CS!LayersFollowFiles
    OBVIOUS
  <2>1. \A l \in Layers : watchers[l] # 0 => watchers[l] \in CS!Watchers
    BY ConfigTypes DEF ConfigInv
  <2>2. QED
    BY <2>1 DEF ConfigInv, WatcherInv, LayerInv, CS!LayersFollowFiles
<1>4. QED
  BY <1>1, <1>2, <1>3, PTL DEF CS!Spec, CS!csVars, csVars

-------------------------------------------------------------------------------
(* The pid file *)

\* A process is past the check of the pid file.
Past(p) == Alive(p) /\ ~At(p, "check")

\* Where start() and shutdown() begin and end, and when the pid file is watched.
WatchInv ==
    \A p \in Procs :
      /\ state[p] \in {"none", "started"} => step[p] = 1
      /\ state[p] = "stopping" => step[p] <= Len(StopSteps)
      /\ pidWatch[p] # "none" <=> Alive(p) /\ (state[p] = "starting" => step[p] > 3)

\* Without a race one process is past the check at most, and the pid file names it once
\* it has written it, unless it has been told that the file is deleted.
PidInv ==
    ~raced => \A p \in Procs : Past(p) =>
       /\ \A q \in Procs : Past(q) => q = p
       /\ pidFile = IF At(p, "pid") \/ pidWatch[p] = "told" THEN 0 ELSE p

ServerInv == DMTypeOK /\ WatchInv /\ PidInv

\* The places of start() and shutdown() by their number.
LEMMA Places ==
    /\ Len(StartSteps) = 8 /\ Len(StopSteps) = 8
    /\ \A i \in 1..8 : /\ StartSteps[i] = "check" <=> i = 1
                       /\ StartSteps[i] = "pid" <=> i = 2
                       /\ StartSteps[i] = "watch" <=> i = 3
                       /\ StartSteps[i] = "telemetry" <=> i = 4
                       /\ StartSteps[i] = "managers" <=> i = 5
                       /\ StartSteps[i] = "monitor" <=> i = 6
                       /\ StartSteps[i] = "listen" <=> i = 7
                       /\ StartSteps[i] = "announce" <=> i = 8
    /\ \A i \in 1..8 : /\ StopSteps[i] = "telemetry" <=> i = 1
                       /\ StopSteps[i] = "config" <=> i = 2
                       /\ StopSteps[i] = "monitor" <=> i = 3
                       /\ StopSteps[i] = "fswatch" <=> i = 4
                       /\ StopSteps[i] = "subprocesses" <=> i = 5
                       /\ StopSteps[i] = "plugins" <=> i = 6
                       /\ StopSteps[i] = "listen" <=> i = 7
                       /\ StopSteps[i] = "pid" <=> i = 8
  BY DEF StartSteps, StopSteps

\* The places again, of a process.
LEMMA AtPlace ==
    ASSUME DMTypeOK, NEW p \in Procs
    PROVE  /\ step[p] \in 1..8
           /\ At(p, "check") <=> state[p] = "starting" /\ step[p] = 1
           /\ At(p, "pid") <=> state[p] = "starting" /\ step[p] = 2
           /\ At(p, "watch") <=> state[p] = "starting" /\ step[p] = 3
           /\ At(p, "telemetry") <=> state[p] = "starting" /\ step[p] = 4
           /\ At(p, "managers") <=> state[p] = "starting" /\ step[p] = 5
           /\ At(p, "monitor") <=> state[p] = "starting" /\ step[p] = 6
           /\ At(p, "listen") <=> state[p] = "starting" /\ step[p] = 7
           /\ At(p, "announce") <=> state[p] = "starting" /\ step[p] = 8
  BY Places DEF DMTypeOK, At

\* A process that goes on from a place where its pid is written and watched.
LEMMA MovesOn ==
    ASSUME ServerInv, NEW p \in Procs, Past(p), ~At(p, "pid"), ~At(p, "watch"),
           DMTypeOK', \A q \in Procs \ {p} : state'[q] = state[q] /\ step'[q] = step[q],
           \/ state'[p] = state[p] /\ step'[p] = step[p]
           \/ state'[p] = "starting" /\ step'[p] > 3
           \/ state'[p] = "started" /\ step'[p] = 1
           \/ state'[p] = "stopping" /\ step'[p] <= 8,
           UNCHANGED <<pidFile, pidWatch, raced>>
    PROVE  ServerInv'
<1> USE AtPlace, Places DEF ServerInv, Past, Alive
<1>1. pidWatch[p] # "none"
  BY DEF WatchInv, DMTypeOK
<1>2. WatchInv'
  BY <1>1 DEF WatchInv, DMTypeOK
<1>3. \A q \in Procs : Past(q)' => Past(q)
  <2> SUFFICES ASSUME NEW q \in Procs, Past(q)' PROVE Past(q)
    OBVIOUS
  <2>1. CASE q = p
    BY <2>1
  <2>2. CASE q # p
    BY <2>2 DEF At
  <2>3. QED
    BY <2>1, <2>2
<1>4. PidInv'
  <2> SUFFICES ASSUME ~raced, NEW q \in Procs, Past(q)'
               PROVE  /\ \A r \in Procs : Past(r)' => r = q
                      /\ pidFile = IF At(q, "pid")' \/ pidWatch[q] = "told" THEN 0 ELSE q
    BY DEF PidInv
  <2>1. q = p /\ \A r \in Procs : Past(r)' => r = p
    BY <1>3 DEF PidInv
  <2>2. pidFile = IF pidWatch[p] = "told" THEN 0 ELSE p
    BY DEF PidInv
  <2>3. ~At(p, "pid")'
    <3>1. At(p, "pid")' <=> state'[p] = "starting" /\ step'[p] = 2
      BY DEF At, DMTypeOK
    <3>2. QED
      BY <3>1
  <2>4. QED
    BY <2>1, <2>2, <2>3
<1>5. QED
  BY <1>2, <1>4

\* A process that ends was the only one past the check, or never got there and leaves the
\* pid file alone.
LEMMA ProcessEnds ==
    ASSUME ServerInv, NEW p \in Procs, DMTypeOK',
           \A q \in Procs \ {p} : state'[q] = state[q] /\ step'[q] = step[q],
           state'[p] \in {"none", "gone"}, state'[p] = "none" => step'[p] = 1,
           pidWatch'[p] = "none",
           \A q \in Procs \ {p} : (pidWatch'[q] = "none" <=> pidWatch[q] = "none"),
           \/ Past(p)
           \/ UNCHANGED <<pidFile, raced>> /\ \A q \in Procs \ {p} : pidWatch'[q] = pidWatch[q],
           ~raced' => ~raced
    PROVE  ServerInv'
<1> USE AtPlace, Places DEF ServerInv
<1>1. WatchInv'
  <2> SUFFICES ASSUME NEW q \in Procs
               PROVE  /\ state'[q] \in {"none", "started"} => step'[q] = 1
                      /\ state'[q] = "stopping" => step'[q] <= Len(StopSteps)
                      /\ pidWatch'[q] # "none" <=> Alive(q)' /\ (state'[q] = "starting" => step'[q] > 3)
    BY DEF WatchInv
  <2>1. CASE q = p
    BY <2>1 DEF Alive
  <2>2. CASE q # p
    BY <2>2 DEF WatchInv, Alive
  <2>3. QED
    BY <2>1, <2>2
<1>2. ~Past(p)' /\ \A q \in Procs \ {p} : /\ Past(q)' <=> Past(q)
                                          /\ At(q, "pid")' <=> At(q, "pid")
  BY DEF Past, Alive, At
<1>3. CASE Past(p)
  <2>1. ~raced' => \A q \in Procs : ~Past(q)'
    BY <1>2, <1>3 DEF PidInv
  <2>2. QED
    BY <1>1, <2>1 DEF PidInv
<1>4. CASE ~Past(p)
  <2>1. PidInv'
    BY <1>2, <1>4 DEF PidInv
  <2>2. QED
    BY <1>1, <2>1
<1>5. QED
  BY <1>3, <1>4

\* isRunning(): whoever is past the check is who the pid file names, or a race.
LEMMA IsRunningStep ==
    ASSUME DMAssumption, ServerInv, NEW p \in Procs, IsRunning(p)
    PROVE  ServerInv'
<1> USE AtPlace, Places DEF ServerInv
<1>1. /\ state[p] = "starting" /\ step[p] = 1 /\ ~Past(p) /\ pidWatch[p] = "none"
      /\ raced' = (raced \/ (pidFile = 0 /\ \E q \in Procs \ {p} : Alive(q) /\ ~At(q, "check")))
      /\ UNCHANGED <<focus, held, troubles>>
  BY DEF IsRunning, Past, WatchInv, DMTypeOK
<1>2. CASE pidFile \notin {0, p} /\ Alive(pidFile)
  <2>1. /\ state' = [state EXCEPT ![p] = "gone"] /\ port' = (IF port = p THEN 0 ELSE port)
        /\ client' = (client /\ p # Main) /\ UNCHANGED <<step, pidFile, pidWatch>>
    BY <1>2 DEF IsRunning, Gone
  <2>2. raced' = raced
    BY <1>1, <1>2 DEF DMTypeOK
  <2>3. DMTypeOK'
    BY <1>1, <2>1, <2>2 DEF DMTypeOK
  <2>4. state'[p] = "gone" /\ \A q \in Procs \ {p} : state'[q] = state[q] /\ step'[q] = step[q]
    BY <2>1 DEF DMTypeOK
  <2>5. QED
    BY <1>1, <2>1, <2>2, <2>3, <2>4, ProcessEnds
<1>3. CASE ~(pidFile \notin {0, p} /\ Alive(pidFile))
  <2>1. /\ pidFile' = 0 /\ step' = [step EXCEPT ![p] = @ + 1]
        /\ IF pidFile = 0 THEN UNCHANGED pidWatch ELSE Unlinked
        /\ UNCHANGED <<state, port, client>>
    BY <1>3 DEF IsRunning, Advance
  <2>2. /\ pidWatch' \in [Procs -> {"none", "open", "told"}]
        /\ \A q \in Procs : pidWatch'[q] = "none" <=> pidWatch[q] = "none"
    BY <2>1 DEF Unlinked, DMTypeOK
  <2>3. step'[p] = 2 /\ step' \in [Procs -> 1..Len(StartSteps)] /\ \A q \in Procs \ {p} : step'[q] = step[q]
    BY <1>1, <2>1 DEF DMTypeOK
  <2>4. DMTypeOK'
    BY <1>1, <2>1, <2>2, <2>3 DEF DMTypeOK
  <2>5. WatchInv'
    BY <1>1, <2>1, <2>2, <2>3 DEF WatchInv, Alive
  <2>6. PidInv'
    <3> SUFFICES ASSUME ~raced' PROVE \A q \in Procs : Past(q)' => q = p /\ pidFile' = 0 /\ At(p, "pid")'
      BY DEF PidInv
    <3>1. ~raced /\ (pidFile = 0 => \A q \in Procs \ {p} : ~Past(q))
      BY <1>1 DEF Past
    <3>2. \A q \in Procs \ {p} : ~Past(q)
      <4> SUFFICES ASSUME NEW q \in Procs \ {p}, Past(q) PROVE FALSE
        OBVIOUS
      <4>1. pidFile = q /\ Alive(q)
        BY <3>1 DEF PidInv, Past
      <4>2. QED
        BY <1>3, <4>1, DMAssumption DEF DMAssumption
    <3>3. \A q \in Procs \ {p} : ~Past(q)'
      BY <2>1, <2>3, <3>2 DEF Past, Alive, At
    <3>4. At(p, "pid")'
      BY <1>1, <2>1, <2>3 DEF At
    <3>5. QED
      BY <2>1, <3>3, <3>4
  <2>7. QED
    BY <2>4, <2>5, <2>6
<1>4. QED
  BY <1>2, <1>3

\* The pid is written, and then watched.
LEMMA WritePidStep ==
    ASSUME ServerInv, NEW p \in Procs, WritePid(p) \/ WatchPid(p)
    PROVE  ServerInv'
<1> USE AtPlace, Places DEF ServerInv
<1>1. /\ Past(p) /\ state[p] = "starting" /\ step[p] \in {2, 3} /\ pidWatch[p] = "none"
      /\ step' = [step EXCEPT ![p] = @ + 1]
      /\ UNCHANGED <<focus, held, state, port, client, raced, troubles>>
  BY DEF WritePid, WatchPid, Advance, Past, Alive, WatchInv, DMTypeOK
<1>2. /\ step'[p] = step[p] + 1 /\ step' \in [Procs -> 1..Len(StartSteps)]
      /\ \A q \in Procs \ {p} : step'[q] = step[q]
  BY <1>1 DEF DMTypeOK
<1>3. \/ step[p] = 2 /\ pidFile' = p /\ pidWatch' = pidWatch
      \/ step[p] = 3 /\ pidFile' = pidFile /\ pidWatch' = [pidWatch EXCEPT ![p] = "open"]
  BY DEF WritePid, WatchPid
<1>4. /\ pidWatch' \in [Procs -> {"none", "open", "told"}]
      /\ \A q \in Procs \ {p} : pidWatch'[q] = pidWatch[q]
      /\ pidWatch'[p] = IF step[p] = 2 THEN "none" ELSE "open"
  BY <1>1, <1>3 DEF DMTypeOK
<1>5. DMTypeOK'
  BY <1>1, <1>2, <1>3, <1>4 DEF DMTypeOK
<1>6. WatchInv'
  <2> SUFFICES ASSUME NEW q \in Procs
               PROVE  /\ state'[q] \in {"none", "started"} => step'[q] = 1
                      /\ state'[q] = "stopping" => step'[q] <= Len(StopSteps)
                      /\ pidWatch'[q] # "none" <=> Alive(q)' /\ (state'[q] = "starting" => step'[q] > 3)
    BY DEF WatchInv
  <2>1. CASE q = p
    BY <1>1, <1>2, <1>4, <2>1 DEF Alive
  <2>2. CASE q # p
    BY <1>1, <1>2, <1>4, <2>2 DEF WatchInv, Alive
  <2>3. QED
    BY <2>1, <2>2
<1>7. PidInv'
  <2> SUFFICES ASSUME ~raced
               PROVE  /\ \A q \in Procs \ {p} : ~Past(q)'
                      /\ pidFile' = p /\ ~At(p, "pid")' /\ pidWatch'[p] # "told"
    BY <1>1 DEF PidInv
  <2>1. \A q \in Procs \ {p} : ~Past(q)'
    BY <1>1, <1>2 DEF PidInv, Past, Alive, At
  <2>2. ~At(p, "pid")'
    <3>1. step'[p] # 2 /\ step'[p] \in 1..8
      BY <1>1, <1>2
    <3>2. QED
      BY <3>1 DEF At
  <2>3. pidFile' = p
    BY <1>1, <1>3 DEF PidInv
  <2>4. QED
    BY <1>4, <2>1, <2>2, <2>3
<1>8. QED
  BY <1>5, <1>6, <1>7

\* The other places of start(): the systems, the port, and the end.
LEMMA StartStepInv ==
    ASSUME ServerInv, NEW p \in Procs,
           InitTelemetry(p) \/ InitManagers(p) \/ StartMonitor(p) \/ Listen(p) \/ Started(p)
    PROVE  ServerInv'
<1> USE AtPlace, Places DEF ServerInv
<1>1. /\ state[p] = "starting" /\ step[p] \in 4..8
      /\ Past(p) /\ ~At(p, "pid") /\ ~At(p, "watch")
  BY DEF InitTelemetry, InitManagers, StartMonitor, Listen, Started, Past, Alive
<1>2. CASE InitTelemetry(p) \/ InitManagers(p) \/ StartMonitor(p) \/ (Listen(p) /\ port = 0)
  <2>1. /\ step[p] # 8 /\ step' = [step EXCEPT ![p] = @ + 1] /\ port' \in {port, p}
        /\ UNCHANGED <<focus, held, state, pidFile, pidWatch, client, raced, troubles>>
    BY <1>1, <1>2 DEF InitTelemetry, InitManagers, StartMonitor, Listen, Advance, pidVars
  <2>2. /\ step'[p] = step[p] + 1 /\ step' \in [Procs -> 1..Len(StartSteps)]
        /\ \A q \in Procs \ {p} : step'[q] = step[q]
    BY <1>1, <2>1 DEF DMTypeOK
  <2>3. DMTypeOK'
    BY <2>1, <2>2 DEF DMTypeOK
  <2>4. state'[p] = "starting" /\ step'[p] > 3
    BY <1>1, <2>1, <2>2
  <2>5. QED
    BY <1>1, <2>1, <2>2, <2>3, <2>4, MovesOn
<1>3. CASE Listen(p) /\ port # 0
  <2>1. /\ state' = [state EXCEPT ![p] = "gone"] /\ port' = (IF port = p THEN 0 ELSE port)
        /\ client' = (client /\ p # Main) /\ pidWatch' = [pidWatch EXCEPT ![p] = "none"]
        /\ UNCHANGED <<step, focus, held, pidFile, raced, troubles>>
    BY <1>3 DEF Listen, Gone
  <2>2. /\ state' \in [Procs -> {"none", "starting", "started", "stopping", "gone"}]
        /\ pidWatch' \in [Procs -> {"none", "open", "told"}]
        /\ state'[p] = "gone" /\ pidWatch'[p] = "none"
        /\ \A q \in Procs \ {p} : state'[q] = state[q] /\ pidWatch'[q] = pidWatch[q]
    BY <2>1 DEF DMTypeOK
  <2>3. DMTypeOK'
    BY <2>1, <2>2 DEF DMTypeOK
  <2>4. QED
    BY <1>1, <2>1, <2>2, <2>3, ProcessEnds
<1>4. CASE Started(p)
  <2>1. /\ state' = [state EXCEPT ![p] = "started"] /\ step' = [step EXCEPT ![p] = 1]
        /\ UNCHANGED <<focus, held, pidFile, pidWatch, port, client, raced, troubles>>
    BY <1>4 DEF Started, pidVars
  <2>2. DMTypeOK'
    BY <2>1 DEF DMTypeOK
  <2>3. /\ state'[p] = "started" /\ step'[p] = 1
        /\ \A q \in Procs \ {p} : state'[q] = state[q] /\ step'[q] = step[q]
    BY <2>1 DEF DMTypeOK
  <2>4. QED
    BY <1>1, <2>1, <2>2, <2>3, MovesOn
<1>5. QED
  BY <1>2, <1>3, <1>4

\* The places of shutdown(), the last one apart.
LEMMA StopStepInv ==
    ASSUME DMAssumption, ServerInv, NEW p \in Procs,
           \/ Shutdown(p) \/ StopOthers(p) \/ StopListening(p)
           \/ p = Main /\ (StopTelemetry \/ StopConfig \/ StopMonitor \/ StopWatchManager
                          \/ StopSubprocesses \/ StopPlugins)
    PROVE  ServerInv'
<1> USE AtPlace, Places DEF ServerInv
<1>1. /\ state[p] \in {"started", "stopping"} /\ held' \in BOOLEAN
      /\ UNCHANGED <<focus, pidFile, pidWatch, client, raced, troubles>>
  BY DEF Shutdown, StopOthers, StopListening, StopTelemetry, StopConfig, StopMonitor,
         StopWatchManager, StopSubprocesses, StopPlugins, Stopping, pidVars, DMTypeOK
<1>2. Past(p) /\ ~At(p, "pid") /\ ~At(p, "watch")
  BY <1>1 DEF Past, Alive
<1>3. CASE Shutdown(p)
  <2>1. /\ state' = [state EXCEPT ![p] = "stopping"] /\ state[p] = "started"
        /\ UNCHANGED <<step, port>>
    BY <1>3 DEF Shutdown, pidVars
  <2>2. /\ state'[p] = "stopping" /\ step'[p] = 1 /\ DMTypeOK'
        /\ \A q \in Procs \ {p} : state'[q] = state[q] /\ step'[q] = step[q]
    BY <1>1, <2>1 DEF DMTypeOK, WatchInv
  <2>3. QED
    BY <1>1, <1>2, <2>2, MovesOn
<1>4. CASE ~Shutdown(p)
  <2>1. state[p] = "stopping" /\ step[p] \in 1..8
    BY <1>4 DEF StopOthers, StopListening, StopTelemetry, StopConfig, StopMonitor,
                StopWatchManager, StopSubprocesses, StopPlugins, Stopping, WatchInv
  <2>2. /\ UNCHANGED state /\ port' \in {port, 0}
        /\ \/ UNCHANGED step
           \/ step[p] < 8 /\ step' = [step EXCEPT ![p] = @ + 1]
    BY <1>4, <2>1 DEF StopOthers, StopListening, StopTelemetry, StopConfig, StopMonitor,
                StopWatchManager, StopSubprocesses, StopPlugins, Stopping, Advance, pidVars
  <2>3. /\ step' \in [Procs -> 1..Len(StartSteps)] /\ \A q \in Procs \ {p} : step'[q] = step[q]
        /\ step'[p] <= 8
    <3>1. CASE UNCHANGED step
      BY <2>1, <3>1 DEF DMTypeOK
    <3>2. CASE step[p] < 8 /\ step' = [step EXCEPT ![p] = @ + 1]
      BY <2>1, <3>2 DEF DMTypeOK
    <3>3. QED
      BY <2>2, <3>1, <3>2
  <2>4. DMTypeOK'
    BY <1>1, <2>2, <2>3 DEF DMTypeOK
  <2>5. QED
    BY <1>1, <1>2, <2>1, <2>2, <2>3, <2>4, MovesOn
<1>5. QED
  BY <1>3, <1>4

\* The ways to end: shutdown(), or a signal.
LEMMA GoneInv ==
    ASSUME ServerInv, NEW p \in Procs, RemovePid(p) \/ Crash(p)
    PROVE  ServerInv'
<1> USE AtPlace, Places DEF ServerInv
<1>1. /\ state' = [state EXCEPT ![p] = "gone"] /\ port' = (IF port = p THEN 0 ELSE port)
      /\ client' = (client /\ p # Main) /\ Alive(p)
      /\ UNCHANGED <<step, focus, held, raced, troubles>>
  BY DEF RemovePid, Crash, Gone, Stopping, Alive
<1>2. /\ pidWatch' \in [Procs -> {"none", "open", "told"}] /\ pidWatch'[p] = "none"
      /\ \A q \in Procs \ {p} : (pidWatch'[q] = "none" <=> pidWatch[q] = "none")
      /\ pidFile' \in {0, pidFile}
      /\ Crash(p) => UNCHANGED pidFile /\ \A q \in Procs \ {p} : pidWatch'[q] = pidWatch[q]
  <2>1. CASE Crash(p)
    BY <2>1 DEF Crash, DMTypeOK
  <2>2. CASE RemovePid(p)
    <3>1. /\ pidFile' = 0 /\ Stopping(p, "pid")
          /\ pidWatch' = [q \in Procs |-> CASE q = p -> "none"
                                            [] q # p /\ pidWatch[q] = "open" /\ pidFile # 0 -> "told"
                                            [] OTHER -> pidWatch[q]]
      BY <2>2 DEF RemovePid
    <3>2. QED
      BY <2>1, <3>1 DEF DMTypeOK
  <2>3. QED
    BY <2>1, <2>2
<1>3. /\ state'[p] = "gone" /\ DMTypeOK'
      /\ \A q \in Procs \ {p} : state'[q] = state[q] /\ step'[q] = step[q]
  <2>1. state' \in [Procs -> {"none", "starting", "started", "stopping", "gone"}]
    BY <1>1 DEF DMTypeOK
  <2>2. client' \in BOOLEAN
    BY <1>1 DEF DMTypeOK
  <2>3. pidFile' \in Procs \cup {0} /\ port' \in Procs \cup {0}
    BY <1>1, <1>2 DEF DMTypeOK
  <2>4. state'[p] = "gone" /\ \A q \in Procs \ {p} : state'[q] = state[q] /\ step'[q] = step[q]
    BY <1>1 DEF DMTypeOK
  <2>5. QED
    BY <1>1, <1>2, <2>1, <2>2, <2>3, <2>4 DEF DMTypeOK
<1>4. RemovePid(p) => Past(p)
  BY DEF RemovePid, Stopping, Past, Alive
<1>5. QED
  BY <1>1, <1>2, <1>3, <1>4, ProcessEnds

\* What else happens to the server.
LEMMA TroubleInv ==
    ASSUME DMAssumption, ServerInv, DeletePidFile \/ \E p \in Procs : PidDeleted(p)
    PROVE  ServerInv'
<1> USE AtPlace, Places DEF ServerInv
<1>1. UNCHANGED <<focus, held, state, step, port, client>>
  BY DEF DeletePidFile, PidDeleted
<1>2. \A q \in Procs : /\ Past(q)' <=> Past(q)
                       /\ At(q, "pid")' <=> At(q, "pid")
                       /\ Alive(q)' <=> Alive(q)
  BY <1>1 DEF Past, Alive, At
<1>3. CASE DeletePidFile
  <2>1. /\ pidFile # 0 /\ pidFile' = 0 /\ Unlinked
        /\ raced' = (raced \/ pidWatch[pidFile] = "none")
        /\ troubles < MaxTroubles /\ troubles' = troubles + 1
    BY <1>3 DEF DeletePidFile
  <2>2. /\ pidWatch' \in [Procs -> {"none", "open", "told"}]
        /\ \A q \in Procs : pidWatch'[q] = IF pidWatch[q] = "open" THEN "told" ELSE pidWatch[q]
    BY <2>1 DEF Unlinked, DMTypeOK
  <2>3. troubles' \in 0..MaxTroubles
    BY <2>1, DMAssumption DEF DMTypeOK, DMAssumption
  <2>4. DMTypeOK'
    BY <1>1, <2>1, <2>2, <2>3 DEF DMTypeOK
  <2>5. WatchInv'
    BY <1>1, <1>2, <2>2 DEF WatchInv
  <2>6. PidInv'
    <3> SUFFICES ASSUME ~raced', NEW p \in Procs, Past(p)
                 PROVE  /\ \A q \in Procs : Past(q) => q = p
                        /\ At(p, "pid") \/ pidWatch'[p] = "told"
      BY <1>2, <2>1 DEF PidInv
    <3>1. ~raced /\ pidFile = p /\ pidWatch[p] # "none"
      BY <2>1 DEF PidInv
    <3>2. pidWatch'[p] = "told"
      BY <2>2, <3>1 DEF DMTypeOK
    <3>3. QED
      BY <3>1, <3>2 DEF PidInv
  <2>7. QED
    BY <2>4, <2>5, <2>6
<1>4. ASSUME NEW p \in Procs, PidDeleted(p) PROVE ServerInv'
  <2>1. /\ Alive(p) /\ pidWatch[p] = "told" /\ pidWatch' = [pidWatch EXCEPT ![p] = "open"]
        /\ pidFile' = p /\ UNCHANGED <<raced, troubles>>
    BY <1>4 DEF PidDeleted
  <2>2. /\ pidWatch' \in [Procs -> {"none", "open", "told"}] /\ pidWatch'[p] = "open"
        /\ \A q \in Procs \ {p} : pidWatch'[q] = pidWatch[q]
    BY <2>1 DEF DMTypeOK
  <2>3. DMTypeOK'
    BY <1>1, <2>1, <2>2 DEF DMTypeOK
  <2>4. WatchInv'
    BY <1>1, <1>2, <2>1, <2>2 DEF WatchInv
  <2>5. Past(p) /\ ~At(p, "pid")
    BY <2>1 DEF WatchInv, Past
  <2>6. PidInv'
    BY <1>2, <2>1, <2>2, <2>5 DEF PidInv
  <2>7. QED
    BY <2>3, <2>4, <2>6
<1>5. QED
  BY <1>3, <1>4

\* The server's steps keep the pid file true; those of the systems do not touch it.
LEMMA ServerStepInv ==
    ASSUME DMAssumption, ServerInv, [Next]_vars
    PROVE  ServerInv'
<1> USE AtPlace, Places DEF ServerInv
<1>1. ASSUME NEW p \in Procs, Start(p) PROVE ServerInv'
  <2>1. /\ state[p] = "none" /\ state' = [state EXCEPT ![p] = "starting"]
        /\ UNCHANGED <<focus, held, step, pidFile, pidWatch, port, client, raced, troubles>>
    BY <1>1 DEF Start, pidVars
  <2>2. state'[p] = "starting" /\ \A q \in Procs \ {p} : state'[q] = state[q]
    BY <2>1 DEF DMTypeOK
  <2>3. DMTypeOK'
    BY <2>1 DEF DMTypeOK
  <2>4. step[p] = 1 /\ ~Alive(p) /\ ~Past(p) /\ ~Past(p)' /\ pidWatch[p] = "none"
    BY <2>1, <2>2 DEF WatchInv, Alive, Past, At, DMTypeOK
  <2>5. WatchInv'
    BY <2>1, <2>2, <2>4 DEF WatchInv, Alive
  <2>6. \A q \in Procs \ {p} : (Past(q)' <=> Past(q)) /\ (At(q, "pid")' <=> At(q, "pid"))
    BY <2>1, <2>2 DEF Past, Alive, At
  <2>7. PidInv'
    BY <2>1, <2>4, <2>6 DEF PidInv
  <2>8. QED
    BY <2>3, <2>5, <2>7
<1>2. CASE Restart
  <2>1. /\ state[Main] = "gone" /\ state' = [state EXCEPT ![Main] = "none"]
        /\ step' = [step EXCEPT ![Main] = 1] /\ troubles < MaxTroubles /\ troubles' = troubles + 1
        /\ held' = FALSE /\ UNCHANGED <<focus, pidFile, pidWatch, port, client, raced>>
    BY <1>2 DEF Restart
  <2>2. Main \in Procs /\ troubles' \in 0..MaxTroubles
    BY <2>1, DMAssumption DEF DMAssumption, DMTypeOK
  <2>3. /\ state'[Main] = "none" /\ step'[Main] = 1 /\ pidWatch[Main] = "none"
        /\ \A q \in Procs \ {Main} : state'[q] = state[q] /\ step'[q] = step[q]
    BY <2>1, <2>2 DEF DMTypeOK, WatchInv, Alive
  <2>4. DMTypeOK'
    <3>1. held' \in BOOLEAN
      BY <2>1
    <3>2. QED
      BY <2>1, <2>2, <3>1 DEF DMTypeOK
  <2>5. QED
    BY <2>1, <2>2, <2>3, <2>4, ProcessEnds
<1>3. CASE \/ Connect \/ HangUp \/ TelemetryStep \/ ConfigStep \/ AgentStep \/ SpawnStep
           \/ UNCHANGED vars
  <2>1. UNCHANGED <<focus, held, state, step, pidFile, pidWatch, port, raced, troubles>>
    BY <1>3 DEF Connect, HangUp, TelemetryStep, ConfigStep, AgentStep, SpawnStep, ServerOnly,
                vars, pidVars
  <2>2. client' \in BOOLEAN
    BY <1>3 DEF Connect, HangUp, TelemetryStep, ConfigStep, AgentStep, SpawnStep, ServerOnly,
                vars, pidVars, DMTypeOK
  <2>3. QED
    BY <2>1, <2>2 DEF DMTypeOK, WatchInv, PidInv, Past, Alive, At
<1>4. ASSUME NEW p \in Procs, StartStep(p) PROVE ServerInv'
  BY <1>4, IsRunningStep, WritePidStep, StartStepInv DEF StartStep
<1>5. ASSUME NEW p \in Procs, StopStep(p) \/ Shutdown(p) PROVE ServerInv'
  BY <1>5, StopStepInv, GoneInv DEF StopStep
<1>6. QED
  BY <1>1, <1>2, <1>3, <1>4, <1>5, GoneInv, TroubleInv DEF Next

-------------------------------------------------------------------------------
(* The agent *)

\* A poll is under way or planned, never both, and neither before start().
PollInv ==
    /\ AG!AGTypeOK /\ AG!PollsUntilStopped
    /\ calls = "none" => polls = 0 /\ timer = 0
    /\ timer # 0 => polls = 0

\* The next poll lies ahead.
LEMMA NextPollAhead ==
    ASSUME AG!AGAssumption, NEW delta \in Int
    PROVE  AG!NextPoll(delta) \in 1..PollInterval
  BY DEF AG!AGAssumption, AG!NextPoll

LEMMA PollStepInv ==
    ASSUME AG!AGAssumption, PollInv, [AG!Next \/ AG!Reset]_agVars
    PROVE  PollInv'
<1> USE DEF PollInv, AG!AGTypeOK, AG!PollsUntilStopped
<1>1. CASE AG!Poll
  <2> DEFINE delta == IF stamp = 0 THEN 0 ELSE now - stamp
  <2>1. /\ polls > 0 /\ polls' = polls - 1 /\ stamp' = now /\ timer' = now + AG!NextPoll(delta)
        /\ asked' = {} /\ UNCHANGED <<now, collectors, calls>>
    BY <1>1 DEF AG!Poll
  <2>2. now \in 1..MaxTime /\ stamp \in 0..MaxTime /\ MaxTime \in Nat
    BY DEF AG!AGAssumption
  <2>3. delta \in Int
    BY <2>2
  <2> HIDE DEF delta
  <2>4. timer' \in Nat /\ timer' # 0
    <3> DEFINE next == AG!NextPoll(delta)
    <3>1. next \in 1..PollInterval /\ PollInterval \in Nat
      BY <2>3, NextPollAhead DEF AG!AGAssumption
    <3>2. timer' = now + next
      BY <2>1
    <3> HIDE DEF next
    <3>3. QED
      BY <2>2, <3>1, <3>2
  <2>5. Own \in DOMAIN buckets'
    BY <1>1 DEF AG!Poll
  <2>6. polls' = 0 /\ calls # "none"
    BY <2>1
  <2>7. stamp' \in 0..MaxTime
    BY <2>1, <2>2
  <2>8. QED
    BY <2>1, <2>4, <2>5, <2>6, <2>7
<1>2. CASE AG!Start \/ AG!Stop \/ AG!Fire \/ AG!PollFails
  BY <1>2 DEF AG!Start, AG!Stop, AG!Fire, AG!PollFails, AG!Begin
<1>3. CASE AG!Tick \/ AG!Reset \/ (\E c \in Collectors : AG!SetCollectors(c)) \/ UNCHANGED agVars
  BY <1>3 DEF AG!Tick, AG!Reset, AG!SetCollectors, agVars, AG!AGAssumption
<1>4. QED
  BY <1>1, <1>2, <1>3 DEF AG!Next

\* A set of numbers has a least one.
LEMMA LeastNumber ==
    ASSUME NEW S \in SUBSET Nat, S # {}
    PROVE  \E x \in S : \A y \in S : x <= y
<1> DEFINE R == {ss \in Nat \X Nat : ss[1] < ss[2]}
<1>1. IsWellFoundedOn(R, Nat)
  BY NatLessThanWellFounded DEF OpToRel
<1> HIDE DEF R
<1>2. PICK x \in S : \A y \in S : <<y, x>> \notin R
  BY <1>1, WFMin
<1>3. ASSUME NEW y \in S PROVE x <= y
  <2>1. y \in Nat /\ x \in Nat /\ <<y, x>> \notin R
    BY <1>2
  <2>2. ~(y < x)
    BY <2>1 DEF R
  <2>3. QED
    BY <2>1, <2>2
<1>4. QED
  BY <1>2, <1>3

\* Induction: what holds of 0, and of the successor of what it holds of, holds.
LEMMA Induction ==
    ASSUME NEW P, 0 \in P, \A n \in Nat : n \in P => n + 1 \in P
    PROVE  \A n \in Nat : n \in P
<1> SUFFICES ASSUME Nat \ P # {} PROVE FALSE
  OBVIOUS
<1>1. PICK x \in Nat \ P : \A y \in Nat \ P : x <= y
  BY LeastNumber
<1>2. x # 0 /\ x - 1 \in Nat
  BY <1>1
<1>3. x - 1 \in P
  BY <1>1, <1>2
<1>4. QED
  BY <1>1, <1>2, <1>3

\* g[i] is the collection b after the first i values that a poll adds to it.
IsFill(g, b, v, last, delta, m) ==
    g = [i \in 0..m |-> IF i = 0 THEN b
          ELSE AG!Add(g[i-1], ((v - last) * i) \div m + last,
                              now - delta + (delta * i) \div m)]

\* These collections exist: the recursion is well-founded.
LEMMA FillExists ==
    ASSUME NEW b, NEW v, NEW last, NEW delta, NEW m \in Nat
    PROVE  \E g : IsFill(g, b, v, last, delta, m)
<1> DEFINE Added(c, i) == AG!Add(c, ((v - last) * i) \div m + last, now - delta + (delta * i) \div m)
<1>5. SUFFICES \E g : g = [i \in 0..m |-> IF i = 0 THEN b ELSE Added(g[i-1], i)]
  BY DEF IsFill
<1> HIDE DEF Added
<1> DEFINE P == {n \in Nat : \E g : g = [i \in 0..n |->
                   IF i = 0 THEN b ELSE Added(g[i-1], i)]}
<1>1. 0 \in P
  <2>1. [i \in 0..0 |-> b] = [i \in 0..0 |-> IF i = 0 THEN b
                              ELSE Added([j \in 0..0 |-> b][i-1], i)]
    OBVIOUS
  <2>2. QED
    BY <2>1
<1>2. ASSUME NEW n \in Nat, n \in P PROVE n + 1 \in P
  <2>1. PICK g : g = [i \in 0..n |-> IF i = 0 THEN b ELSE Added(g[i-1], i)]
    BY <1>2
  <2> DEFINE h == [i \in 0..n+1 |-> IF i = n + 1 THEN Added(g[n], n + 1) ELSE g[i]]
  <2>2. ASSUME NEW i \in 0..n+1
        PROVE  h[i] = IF i = 0 THEN b ELSE Added(h[i-1], i)
    <3>1. CASE i = n + 1
      <4>1. i - 1 = n /\ n \in 0..n+1 /\ n # n + 1 /\ i # 0
        BY <3>1
      <4>2. QED
        BY <3>1, <4>1
    <3>2. CASE i # n + 1 /\ i # 0
      <4>1. i \in 0..n /\ i - 1 \in 0..n+1 /\ i - 1 # n + 1
        BY <3>2
      <4>2. h[i] = g[i] /\ h[i-1] = g[i-1]
        BY <3>2, <4>1
      <4>3. g[i] = Added(g[i-1], i)
        BY <2>1, <3>2, <4>1
      <4>4. QED
        BY <3>2, <4>2, <4>3
    <3>3. CASE i = 0
      BY <2>1, <3>3
    <3>4. QED
      BY <3>1, <3>2, <3>3
  <2>3. h = [i \in 0..n+1 |-> IF i = 0 THEN b ELSE Added(h[i-1], i)]
    <3> DEFINE k == [i \in 0..n+1 |-> IF i = 0 THEN b ELSE Added(h[i-1], i)]
    <3>1. \A i \in 0..n+1 : h[i] = k[i]
      BY <2>2
    <3>2. DOMAIN h = 0..n+1 /\ DOMAIN k = 0..n+1 /\ h = [i \in 0..n+1 |-> h[i]] /\ k = [i \in 0..n+1 |-> k[i]]
      OBVIOUS
    <3> HIDE DEF h, k
    <3>3. h = k
      BY <3>1, <3>2
    <3>4. QED
      BY <3>3 DEF k
  <2> HIDE DEF h
  <2>4. QED
    BY <2>3
<1> HIDE DEF P
<1>3. m \in P
  BY <1>1, <1>2, Induction
<1>4. QED
  BY <1>3 DEF P

LEMMA Division ==
    ASSUME NEW a \in Int, NEW n \in Nat \ {0}
    PROVE  a \div n \in Int /\ n * (a \div n) <= a /\ a < n * (a \div n) + n
  OBVIOUS

LEMMA Products ==
    ASSUME NEW a \in Int, NEW b \in Int, NEW n \in Nat, a <= b
    PROVE  n * a \in Int /\ n * b \in Int /\ n * a <= n * b
  OBVIOUS

LEMMA DivisionIs ==
    ASSUME NEW n \in Nat \ {0}, NEW c \in Int, NEW a \in Int,
           n * c <= n * a, n * a < n * c + n
    PROVE  c = a
<1>1. n * (a - c) = n * a - n * c /\ n * a \in Int /\ n * c \in Int
  OBVIOUS
<1>2. a - c < 1
  <2> SUFFICES ASSUME a - c >= 1 PROVE FALSE
    OBVIOUS
  <2>1. n * 1 <= n * (a - c)
    BY Products
  <2>2. QED
    BY <1>1, <2>1
<1>3. a - c > -1
  <2> SUFFICES ASSUME a - c <= -1 PROVE FALSE
    OBVIOUS
  <2>1. n * (a - c) <= n * (-1)
    BY Products
  <2>2. QED
    BY <1>1, <2>1
<1>4. QED
  BY <1>2, <1>3

\* However late a poll is, the values that it adds are less than two intervals apart.
LEMMA GapsOfPoll ==
    ASSUME AG!AGAssumption, NEW delta \in Nat, NEW m \in Nat \ {0},
           m = AG!Greatest(1, AG!Missed(delta)), NEW i \in 1..m
    PROVE  /\ (delta * i) \div m \in Int /\ (delta * (i - 1)) \div m \in Int
           /\ (delta * (i - 1)) \div m <= (delta * i) \div m
           /\ (delta * i) \div m - (delta * (i - 1)) \div m < 2 * PollInterval
<1> DEFINE q == (delta - PollInterval) \div PollInterval
           c == (delta * i) \div m
           a == (delta * (i - 1)) \div m
<1>1. PollInterval \in Nat \ {0} /\ delta - PollInterval \in Int
  BY DEF AG!AGAssumption
<1>2. q \in Int /\ delta - PollInterval < PollInterval * q + PollInterval
  BY <1>1, Division
<1>3. delta * i \in Int /\ delta * (i - 1) \in Int /\ delta * i = delta * (i - 1) + delta
  OBVIOUS
<1>4. c \in Int /\ m * c <= delta * i /\ delta * i < m * c + m
  BY <1>3, Division
<1>5. a \in Int /\ m * a <= delta * (i - 1) /\ delta * (i - 1) < m * a + m
  BY <1>3, Division
<1>6. q + 1 <= m
  BY <1>2 DEF AG!Greatest, AG!Missed
<1> HIDE DEF q, c, a
<1>7. delta <= PollInterval * m + PollInterval - 1
  <2>1. PollInterval * (q + 1) <= PollInterval * m
    BY <1>1, <1>2, <1>6, Products
  <2>2. PollInterval * (q + 1) = PollInterval * q + PollInterval
    BY <1>1, <1>2
  <2>3. PollInterval * q \in Int /\ PollInterval * m \in Int
    BY <1>1, <1>2
  <2>4. QED
    BY <1>1, <1>2, <2>1, <2>2, <2>3
<1>8. a <= c
  <2> SUFFICES ASSUME c + 1 <= a PROVE FALSE
    BY <1>4, <1>5
  <2>1. m * (c + 1) <= m * a
    BY <1>4, <1>5, Products
  <2>2. m * (c + 1) = m * c + m /\ m * c \in Int /\ m * a \in Int
    BY <1>4, <1>5
  <2>3. QED
    BY <1>3, <1>4, <1>5, <2>1, <2>2
<1>9. c - a < 2 * PollInterval
  <2> SUFFICES ASSUME a + 2 * PollInterval <= c PROVE FALSE
    BY <1>1, <1>4, <1>5
  <2>1. m * (a + 2 * PollInterval) <= m * c
    BY <1>1, <1>4, <1>5, Products
  <2>2. m * (a + 2 * PollInterval) = m * a + 2 * (PollInterval * m)
        /\ m * a \in Int /\ m * c \in Int /\ PollInterval * m \in Int
    BY <1>1, <1>5, <1>4
  <2>4. m * a + 2 * (PollInterval * m) <= delta * (i - 1) + delta
    BY <1>3, <1>4, <2>1, <2>2
  <2>5. m * a >= delta * (i - 1) - m + 1
    BY <1>3, <1>5, <2>2
  <2>6. 2 * (PollInterval * m) <= PollInterval * m + PollInterval - 1 + m - 1
    BY <1>1, <1>3, <1>7, <2>2, <2>4, <2>5
  <2>7. m + PollInterval <= PollInterval * m + 1
    <3>1. (m - 1) * (PollInterval - 1) \in Nat
      BY <1>1
    <3>2. (m - 1) * (PollInterval - 1) = PollInterval * m - m - PollInterval + 1
      BY <1>1
    <3>3. QED
      BY <1>1, <2>2, <3>1, <3>2
  <2>8. QED
    BY <1>1, <2>2, <2>6, <2>7
<1>10. QED
  BY <1>4, <1>5, <1>8, <1>9 DEF c, a

\* A collection as long as its ring allows: min and max bound what it holds, and its
\* values are less than two intervals apart.
Ring(c) ==
    /\ c.values \in Seq(Int) /\ c.at \in Seq(Int) /\ c.min \in Int /\ c.max \in Int
    /\ Len(c.values) = Len(c.at) /\ Len(c.values) <= Size
    /\ \A i \in 1..Len(c.values) : c.min <= c.values[i] /\ c.values[i] <= c.max
    /\ \A i \in 1..Len(c.at)-1 :
         c.at[i] <= c.at[i+1] /\ c.at[i+1] - c.at[i] < 2 * PollInterval

\* r is s without its first k values, and with x behind.
Shifted(r, s, x, k) ==
    /\ r \in Seq(Int) /\ Len(r) = Len(s) + 1 - k /\ r[Len(s) + 1 - k] = x
    /\ \A i \in 1..Len(s)-k : r[i] = s[i + k]

\* The ring drops its oldest value for a new one, when it is full.
LEMMA LastOfAppend ==
    ASSUME AG!AGAssumption, NEW s \in Seq(Int), NEW x \in Int, Len(s) <= Size
    PROVE  Shifted(AG!LastOf(Append(s, x), Size), s, x, IF Len(s) < Size THEN 0 ELSE 1)
<1> DEFINE n == Len(s)
           k == IF n < Size THEN 0 ELSE 1
           r == AG!LastOf(Append(s, x), Size)
<1>12. n = Len(s) /\ k = (IF n < Size THEN 0 ELSE 1) /\ n \in 0..Size
  BY DEF AG!AGAssumption
<1>13. SUFFICES Shifted(r, s, x, k)
  OBVIOUS
<1> HIDE DEF n, k
<1> DEFINE w == Append(s, x)
<1>1. w \in Seq(Int) /\ Len(w) = n + 1 /\ w[n + 1] = x /\ \A i \in 1..n : w[i] = s[i]
  BY <1>12
<1>2. Size \in Nat \ {0} /\ n \in Nat /\ k \in {0, 1} /\ k <= n
  BY <1>12 DEF AG!AGAssumption
<1>9. r = AG!LastOf(w, Size)
  OBVIOUS
<1> HIDE DEF w, r
<1> DEFINE lo == k + 1
           hi == n + 1
<1>10. lo \in Int /\ hi \in Int /\ lo <= hi /\ hi - lo + 1 = n + 1 - k
       /\ (\A i \in Int : lo + i - 1 = k + i) /\ \A i \in lo..hi : w[i] \in Int
  BY <1>1, <1>2
<1>14. n < Size \/ n = Size
  BY <1>12, <1>2
<1>3. AG!Greatest(1, Len(w) - Size + 1) = lo
  <2>1. Len(w) - Size + 1 = n + 1 - Size + 1
    BY <1>1, <1>2
  <2>2. CASE n < Size
    <3>1. n + 1 - Size + 1 <= 1 /\ n + 1 - Size + 1 \in Int /\ lo = 1
      BY <1>2, <1>12, <2>2
    <3>2. QED
      BY <2>1, <3>1 DEF AG!Greatest
  <2>3. CASE n = Size
    <3>1. n + 1 - Size + 1 = 2 /\ lo = 2
      BY <1>2, <1>12, <2>3
    <3>2. QED
      BY <2>1, <3>1 DEF AG!Greatest
  <2>4. QED
    BY <1>14, <2>2, <2>3
<1>4. r = SubSeq(w, lo, hi)
  <2>1. r = SubSeq(w, AG!Greatest(1, Len(w) - Size + 1), Len(w))
    BY <1>9 DEF AG!LastOf
  <2>2. Len(w) = hi
    BY <1>1
  <2> HIDE DEF lo, hi
  <2>3. QED
    BY <1>3, <2>1, <2>2, Zenon
<1> HIDE DEF lo, hi
<1>5. /\ r \in Seq(Int) /\ Len(r) = n + 1 - k
      /\ \A i \in 1..(n + 1 - k) : r[i] = w[k + i]
  <2> DEFINE q == SubSeq(w, lo, hi)
  <2>1. /\ q \in Seq(Int) /\ Len(q) = (IF lo <= hi THEN hi - lo + 1 ELSE 0)
        /\ \A i \in 1..hi - lo + 1 : q[i] = w[lo + i - 1]
    <3>1. \A i \in lo..hi : w[i] \in Int
      BY <1>10
    <3>2. lo \in Int /\ hi \in Int
      BY <1>10
    <3>3. QED
      BY <3>1, <3>2, SubSeqProperties, SMTT(30)
  <2>2. r = q
    BY <1>4
  <2> HIDE DEF q
  <2>3. r \in Seq(Int) /\ Len(r) = n + 1 - k
    BY <1>10, <2>1, <2>2
  <2>4. ASSUME NEW i \in 1..(n + 1 - k) PROVE r[i] = w[k + i]
    <3>1. i \in 1..hi - lo + 1 /\ lo + i - 1 = k + i
      BY <1>2, <1>10
    <3>2. QED
      BY <2>1, <2>2, <3>1
  <2>5. QED
    BY <2>3, <2>4
<1>6. r[n + 1 - k] = x
  <2>1. n + 1 - k \in 1..(n + 1 - k) /\ k + (n + 1 - k) = n + 1
    BY <1>2
  <2>2. QED
    BY <1>1, <1>5, <2>1
<1>7. ASSUME NEW i \in 1..n-k PROVE r[i] = s[i + k]
  <2>1. i \in 1..(n + 1 - k) /\ k + i \in 1..n /\ k + i = i + k
    BY <1>2
  <2>2. QED
    BY <1>1, <1>5, <2>1
<1>8. QED
  BY <1>5, <1>6, <1>7, <1>12 DEF Shifted

\* A value that comes less than two intervals after the last leaves a true collection.
LEMMA AddKeepsRing ==
    ASSUME AG!AGAssumption, NEW c, Ring(c), NEW v \in Int, NEW t \in Int,
           Len(c.at) > 0 => c.at[Len(c.at)] <= t /\ t - c.at[Len(c.at)] < 2 * PollInterval,
           NEW d, d = AG!Add(c, v, t)
    PROVE  Ring(d) /\ d.sum = AG!SumOf(d.values) /\ Len(d.at) > 0 /\ d.at[Len(d.at)] = t
<1> DEFINE n == Len(c.at)
           k == IF n < Size THEN 0 ELSE 1
           m == n + 1 - k
<1>1. /\ d.values = AG!LastOf(Append(c.values, v), Size) /\ d.at = AG!LastOf(Append(c.at, t), Size)
      /\ d.sum = AG!SumOf(d.values)
      /\ d.min = IF Len(d.values) = 1 THEN v ELSE AG!Least(c.min, v)
      /\ d.max = IF Len(d.values) = 1 THEN v ELSE AG!Greatest(c.max, v)
  BY DEF AG!Add
<1>2. /\ c.values \in Seq(Int) /\ c.at \in Seq(Int) /\ c.min \in Int /\ c.max \in Int
      /\ n = Len(c.values) /\ n \in 0..Size /\ Size \in Nat \ {0}
      /\ \A i \in 1..n : c.min <= c.values[i] /\ c.values[i] <= c.max
      /\ \A i \in 1..n-1 : c.at[i] <= c.at[i+1] /\ c.at[i+1] - c.at[i] < 2 * PollInterval
  BY DEF AG!AGAssumption, Ring
<1>3. n > 0 => c.at[n] <= t /\ t - c.at[n] < 2 * PollInterval
  OBVIOUS
<1> HIDE DEF n
<1>4. k \in {0, 1} /\ k <= n /\ m \in 1..Size /\ m - 1 = n - k
  BY <1>2
<1>11. k = (IF n < Size THEN 0 ELSE 1) /\ m = n + 1 - k
  OBVIOUS
<1> HIDE DEF k, m
<1>12. n = Len(c.at) /\ n = Len(c.values) /\ n \in 0..Size /\ c.values \in Seq(Int) /\ c.at \in Seq(Int)
  BY <1>2 DEF n
<1>5. /\ d.values \in Seq(Int) /\ Len(d.values) = m /\ d.values[m] = v
      /\ \A i \in 1..n-k : d.values[i] = c.values[i + k]
  <2>3. c.values \in Seq(Int) /\ Len(c.values) <= Size /\ k = (IF Len(c.values) < Size THEN 0 ELSE 1)
    BY <1>2, <1>11, <1>12
  <2>4. Shifted(AG!LastOf(Append(c.values, v), Size), c.values, v, k)
    BY <2>3, LastOfAppend
  <2>1. Shifted(d.values, c.values, v, k)
    BY <1>1, <2>4, Zenon
  <2>2. QED
    BY <1>11, <1>12, <2>1 DEF Shifted
<1>6. /\ d.at \in Seq(Int) /\ Len(d.at) = m /\ d.at[m] = t
      /\ \A i \in 1..n-k : d.at[i] = c.at[i + k]
  <2>3. c.at \in Seq(Int) /\ Len(c.at) <= Size /\ k = (IF Len(c.at) < Size THEN 0 ELSE 1)
    BY <1>2, <1>11, <1>12
  <2>4. Shifted(AG!LastOf(Append(c.at, t), Size), c.at, t, k)
    BY <2>3, LastOfAppend
  <2>1. Shifted(d.at, c.at, t, k)
    BY <1>1, <2>4, Zenon
  <2>2. QED
    BY <1>11, <1>12, <2>1 DEF Shifted
<1>7. d.min \in Int /\ d.max \in Int
  BY <1>1, <1>2 DEF AG!Least, AG!Greatest
<1>8. ASSUME NEW i \in 1..m PROVE d.min <= d.values[i] /\ d.values[i] <= d.max
  <2>1. CASE i = m
    BY <1>1, <1>2, <1>5, <2>1 DEF AG!Least, AG!Greatest
  <2>2. CASE i # m
    <3>1. i \in 1..n-k /\ i + k \in 1..n /\ m # 1
      <4>1. i <= m - 1 /\ i >= 1 /\ i \in Int /\ n \in Int
        BY <1>2, <1>4, <2>2
      <4>2. QED
        BY <1>4, <4>1
    <3>2. d.values[i] = c.values[i+k]
      BY <1>5, <3>1
    <3>8. c.values[i+k] \in Int
      BY <1>12, <3>1, ElementOfSeq
    <3>3. c.min <= c.values[i+k] /\ c.values[i+k] <= c.max
      BY <1>2, <3>1
    <3> DEFINE x == c.values[i+k]
    <3> HIDE DEF x
    <3>4. x \in Int /\ c.min <= x /\ x <= c.max /\ d.values[i] = x
      BY <3>2, <3>3, <3>8 DEF x
    <3>5. d.min = AG!Least(c.min, v) /\ d.max = AG!Greatest(c.max, v)
      BY <1>1, <1>5, <3>1
    <3>6. d.min <= x /\ x <= d.max
      BY <1>2, <3>4, <3>5 DEF AG!Least, AG!Greatest
    <3>7. QED
      BY <3>4, <3>6
  <2>3. QED
    BY <2>1, <2>2
<1>9. ASSUME NEW i \in 1..m-1
      PROVE  d.at[i] <= d.at[i+1] /\ d.at[i+1] - d.at[i] < 2 * PollInterval
  <2>1. i \in 1..n-k /\ d.at[i] = c.at[i+k]
    BY <1>4, <1>6
  <2>2. CASE i + 1 = m
    <3>1. i + k = n /\ n > 0
      BY <1>2, <1>4, <2>2
    <3>3. d.at[i+1] = t
      BY <1>6, <2>2
    <3>2. QED
      BY <1>3, <2>1, <3>1, <3>3
  <2>3. CASE i + 1 # m
    <3>1. i + 1 \in 1..n-k /\ i + k \in 1..n-1 /\ (i + 1) + k = (i + k) + 1
      BY <1>2, <1>4, <2>3
    <3>2. d.at[i+1] = c.at[(i+k)+1]
      BY <1>6, <3>1
    <3>3. QED
      BY <1>2, <2>1, <3>1, <3>2
  <2>4. QED
    BY <2>2, <2>3
<1>10. QED
  <2>1. Len(d.values) = m /\ Len(d.at) = m /\ m \in 1..Size /\ m > 0
    BY <1>2, <1>4, <1>5, <1>6
  <2>2. Ring(d)
    BY <1>5, <1>6, <1>7, <1>8, <1>9, <2>1, <1>2 DEF Ring
  <2>3. QED
    BY <1>1, <1>6, <2>1, <2>2

\* What a poll adds to a true collection, whose last value is of the last poll, leaves
\* one whose last value is of this poll.
LEMMA FilledIsRing ==
    ASSUME AG!AGAssumption, NEW b, Ring(b), NEW v \in Int, NEW delta \in Nat, now \in Int,
           Len(b.at) > 0 => b.at[Len(b.at)] = now - delta,
           NEW d, d = AG!Filled(b, v, delta)
    PROVE  Ring(d) /\ d.sum = AG!SumOf(d.values) /\ Len(d.at) > 0 /\ d.at[Len(d.at)] = now
<1> DEFINE last == IF b.values = <<>> THEN 0 ELSE AG!Last(b.values)
           m == AG!Greatest(1, AG!Missed(delta))
           Added(c, i) == AG!Add(c, ((v - last) * i) \div m + last, now - delta + (delta * i) \div m)
           Fills(g) == IsFill(g, b, v, last, delta, m)
           fill == CHOOSE g : Fills(g)
           when(i) == now - delta + (delta * i) \div m
           what(i) == ((v - last) * i) \div m + last
<1>1. m \in Nat \ {0}
  <2>1. PollInterval \in Nat \ {0}
    BY DEF AG!AGAssumption
  <2>2. AG!Missed(delta) \in Int
    BY <2>1 DEF AG!Missed
  <2>3. QED
    BY <2>2 DEF AG!Greatest
<1>2. last \in Int
  <2>1. b.values \in Seq(Int)
    BY DEF Ring
  <2>2. QED
    BY <2>1, EmptySeq, ElementOfSeq DEF AG!Last
<1>3. d = fill[m]
  BY DEF AG!Filled, IsFill
<1> HIDE DEF m, last
<1>4. \E g : Fills(g)
  BY <1>1, FillExists
<1> HIDE DEF Fills
<1>5. Fills(fill)
  BY <1>4
<1> HIDE DEF fill
<1>6. fill = [i \in 0..m |-> IF i = 0 THEN b ELSE Added(fill[i-1], i)]
  BY <1>5 DEF Fills, IsFill
<1>7. fill[0] = b /\ \A i \in 1..m : fill[i] = Added(fill[i-1], i)
  BY <1>1, <1>6
<1> HIDE DEF Added
<1>8. ASSUME NEW i \in 0..m
      PROVE  when(i) \in Int /\ what(i) \in Int
  <2>1. delta * i \in Int /\ (v - last) * i \in Int
    BY <1>1, <1>2
  <2>2. (delta * i) \div m \in Int /\ ((v - last) * i) \div m \in Int
    BY <1>1, <2>1, Division
  <2>3. QED
    BY <1>2, <2>2
<1>9. ASSUME NEW i \in 1..m
      PROVE  when(i-1) <= when(i) /\ when(i) - when(i-1) < 2 * PollInterval
  <2>1. m = AG!Greatest(1, AG!Missed(delta))
    BY DEF m
  <2>2. /\ (delta * i) \div m \in Int /\ (delta * (i - 1)) \div m \in Int
        /\ (delta * (i - 1)) \div m <= (delta * i) \div m
        /\ (delta * i) \div m - (delta * (i - 1)) \div m < 2 * PollInterval
    BY <1>1, <2>1, GapsOfPoll
  <2>3. QED
    BY <2>2
<1>10. when(0) = now - delta /\ when(m) = now
  <2>1. delta * 0 = 0 /\ 0 \div m = 0 /\ (delta * m) \div m = delta
    <3>1. delta * m \in Int /\ delta * 0 = 0
      BY <1>1
    <3>2. /\ (delta * m) \div m \in Int /\ m * ((delta * m) \div m) <= delta * m
          /\ delta * m < m * ((delta * m) \div m) + m
      BY <1>1, <3>1, Division
    <3>3. /\ 0 \div m \in Int /\ m * (0 \div m) <= 0 /\ 0 < m * (0 \div m) + m
      BY <1>1, Division
    <3>4. 0 \div m = 0
      BY <1>1, <3>3, DivisionIs
    <3>5. (delta * m) \div m = delta
      <4>1. m * delta = delta * m
        BY <1>1
      <4>2. QED
        BY <1>1, <3>1, <3>2, <4>1, DivisionIs
    <3>6. QED
      BY <3>1, <3>4, <3>5
  <2>2. QED
    BY <1>1, <2>1
<1> HIDE DEF when, what
<1>11. ASSUME NEW c, NEW i PROVE Added(c, i) = AG!Add(c, what(i), when(i))
  BY DEF Added, when, what
<1> DEFINE Good(i) ==
      /\ Ring(fill[i])
      /\ Len(fill[i].at) > 0 => fill[i].at[Len(fill[i].at)] = when(i)
      /\ i > 0 => fill[i].sum = AG!SumOf(fill[i].values) /\ Len(fill[i].at) > 0
<1>12. Good(0)
  BY <1>7, <1>10
<1>13. ASSUME NEW i \in 1..m, Good(i-1) PROVE Good(i)
  <2> DEFINE c == fill[i-1]
             e == AG!Add(c, what(i), when(i))
  <2>1. fill[i] = e
    BY <1>7, <1>11
  <2>2. Ring(c) /\ (Len(c.at) > 0 => c.at[Len(c.at)] = when(i-1))
    BY <1>13
  <2>3. when(i) \in Int /\ what(i) \in Int /\ when(i-1) \in Int
    BY <1>1, <1>8
  <2>4. Len(c.at) > 0 => c.at[Len(c.at)] <= when(i) /\ when(i) - c.at[Len(c.at)] < 2 * PollInterval
    BY <1>9, <2>2, <2>3
  <2> HIDE DEF c
  <2>5. Ring(e) /\ e.sum = AG!SumOf(e.values) /\ Len(e.at) > 0 /\ e.at[Len(e.at)] = when(i)
    BY <2>2, <2>3, <2>4, AddKeepsRing
  <2> HIDE DEF e
  <2>6. QED
    BY <2>1, <2>5
<1> HIDE DEF Good
<1>14. Good(m)
  <2> DEFINE P == {n \in Nat : n <= m => Good(n)}
  <2>1. 0 \in P
    BY <1>12
  <2>2. ASSUME NEW n \in Nat, n \in P PROVE n + 1 \in P
    <3>1. CASE n + 1 <= m
      <4>1. n + 1 \in 1..m /\ (n + 1) - 1 = n /\ n <= m
        BY <1>1, <3>1
      <4>2. Good((n + 1) - 1)
        BY <2>2, <4>1
      <4>3. Good(n + 1)
        BY <1>13, <4>1, <4>2
      <4>4. QED
        BY <4>3
    <3>2. CASE ~(n + 1 <= m)
      BY <3>2
    <3>3. QED
      BY <3>1, <3>2
  <2> HIDE DEF P
  <2>3. m \in P
    BY <1>1, <2>1, <2>2, Induction
  <2>4. QED
    BY <1>1, <2>3 DEF P
<1>15. /\ Ring(fill[m]) /\ (Len(fill[m].at) > 0 => fill[m].at[Len(fill[m].at)] = when(m))
       /\ fill[m].sum = AG!SumOf(fill[m].values) /\ Len(fill[m].at) > 0
  BY <1>1, <1>14 DEF Good
<1>16. QED
  BY <1>3, <1>10, <1>15, Zenon

\* Every collection has a value of the last poll, and there is none before the first.
RingsInv ==
    /\ stamp <= now
    /\ stamp = 0 => DOMAIN buckets = {}
    /\ \A n \in DOMAIN buckets :
         LET b == buckets[n]
         IN Ring(b) /\ b.sum = AG!SumOf(b.values) /\ Len(b.at) > 0 /\ b.at[Len(b.at)] = stamp

LEMMA EmptyRing ==
    ASSUME AG!AGAssumption
    PROVE  Ring(AG!Empty) /\ Len(AG!Empty.at) = 0
  BY DEF AG!Empty, Ring, AG!AGAssumption

LEMMA RingsStepInv ==
    ASSUME AG!AGAssumption, PollInv, RingsInv, [AG!Next \/ AG!Reset]_agVars
    PROVE  RingsInv'
<1>1. now \in Nat /\ now > 0 /\ stamp \in Nat /\ stamp <= now
  BY DEF PollInv, AG!AGTypeOK, AG!AGAssumption, RingsInv
<1>2. CASE AG!Poll
  <2> DEFINE delta == IF stamp = 0 THEN 0 ELSE now - stamp
             old(n) == IF n \in DOMAIN buckets THEN buckets[n] ELSE AG!Empty
  <2>1. PICK v \in Values : buckets' = [n \in asked \cup {Own} |-> AG!Filled(old(n), v, delta)]
    BY <1>2 DEF AG!Poll
  <2>2. stamp' = now /\ now' = now
    BY <1>2 DEF AG!Poll
  <2>3. v \in Int /\ delta \in Nat /\ now \in Int
    BY <1>1 DEF AG!AGAssumption
  <2>4. ASSUME NEW n
        PROVE  Ring(old(n)) /\ (Len(old(n).at) > 0 => old(n).at[Len(old(n).at)] = now - delta)
    <3>1. CASE n \in DOMAIN buckets
      <4>1. /\ Ring(buckets[n]) /\ buckets[n].at[Len(buckets[n].at)] = stamp /\ stamp # 0
        BY <3>1 DEF RingsInv
      <4>2. now - delta = stamp
        BY <1>1, <4>1
      <4>3. QED
        BY <3>1, <4>1, <4>2
    <3>2. CASE n \notin DOMAIN buckets
      BY <3>2, EmptyRing
    <3>3. QED
      BY <3>1, <3>2
  <2> HIDE DEF old, delta
  <2>5. ASSUME NEW n \in DOMAIN buckets'
        PROVE  LET b == buckets'[n]
               IN Ring(b) /\ b.sum = AG!SumOf(b.values) /\ Len(b.at) > 0 /\ b.at[Len(b.at)] = now
    <3>1. buckets'[n] = AG!Filled(old(n), v, delta)
      BY <2>1
    <3>2. QED
      BY <2>3, <2>4, <3>1, FilledIsRing
  <2>6. QED
    BY <1>1, <2>2, <2>5 DEF RingsInv
<1>3. CASE AG!Tick
  BY <1>1, <1>3 DEF AG!Tick, RingsInv
<1>4. CASE AG!Reset
  BY <1>4 DEF AG!Reset, RingsInv
<1>5. CASE UNCHANGED <<now, stamp, buckets>>
  BY <1>5 DEF RingsInv
<1>6. QED
  BY <1>2, <1>3, <1>4, <1>5 DEF AG!Next, AG!Start, AG!Stop, AG!Fire, AG!PollFails,
                                AG!SetCollectors, agVars

-------------------------------------------------------------------------------
(* The composition *)

\* A step of the daemon is a step of each of its systems, or none of its business.
LEMMA StepsOfSystems ==
    ASSUME DMAssumption, [Next]_vars
    PROVE  /\ [TM!Next]_tmVars /\ [CS!Next]_csVars /\ [SM!Next]_smVars
           /\ [AG!Next \/ AG!Reset]_agVars
<1> DEFINE Others(p) ==
      \/ Start(p) \/ IsRunning(p) \/ WritePid(p) \/ WatchPid(p) \/ InitManagers(p) \/ Listen(p)
      \/ Started(p) \/ StopOthers(p) \/ StopListening(p) \/ RemovePid(p) \/ PidDeleted(p)
      \/ StopWatchManager \/ StopPlugins
<1>1. ASSUME NEW p \in Procs, Others(p)
      PROVE  UNCHANGED <<tmVars, csVars, smVars, agVars>>
  BY <1>1 DEF Start, IsRunning, WritePid, WatchPid, InitManagers, Listen, Started, StopOthers,
              StopListening, RemovePid, PidDeleted, StopWatchManager, StopPlugins
<1>2. CASE DeletePidFile \/ Connect \/ HangUp \/ UNCHANGED vars
  BY <1>2 DEF DeletePidFile, Connect, HangUp, vars
<1>3. CASE Restart
  BY <1>3 DEF Restart
<1>4. ASSUME NEW p \in Procs, InitTelemetry(p) \/ StartMonitor(p) \/ Crash(p) \/ Shutdown(p)
      PROVE  /\ [TM!Next]_tmVars /\ UNCHANGED <<csVars, smVars>>
             /\ [AG!Next \/ AG!Reset]_agVars
  <2>1. CASE InitTelemetry(p)
    BY <2>1 DEF InitTelemetry, TM!Next
  <2>2. CASE StartMonitor(p)
    BY <2>2 DEF StartMonitor, AG!Next
  <2>3. CASE Crash(p)
    BY <2>3 DEF Crash, TM!Next
  <2>4. CASE Shutdown(p)
    BY <2>4, DMAssumption DEF Shutdown, TM!Next, TM!Calls, DMAssumption
  <2>5. QED
    BY <1>4, <2>1, <2>2, <2>3, <2>4
<1>5. CASE StopTelemetry
  BY <1>5 DEF StopTelemetry, TM!Next
<1>6. CASE StopConfig
  BY <1>6 DEF StopConfig, CS!Next
<1>7. CASE StopMonitor
  BY <1>7 DEF StopMonitor, AG!Next
<1>8. CASE StopSubprocesses
  BY <1>8 DEF StopSubprocesses, SM!Next
<1>9. CASE TelemetryStep
  BY <1>9 DEF TelemetryStep, OfTelemetry, TelemetryCalls, TelemetryWorks, TM!Next
<1>10. CASE ConfigStep
  BY <1>10 DEF ConfigStep, ConfigMoves, CS!Next
<1>11. CASE AgentStep
  BY <1>11 DEF AgentStep, OfAgent, AgentMoves, AgentPolls, AG!Next
<1>12. CASE SpawnStep
  BY <1>12 DEF SpawnStep, OfSpawns, Spawning, SpawnWorks, Exiting, SM!Next
<1> HIDE DEF Others
<1>13. QED
  <2>1. \/ \E p \in Procs : Others(p) \/ InitTelemetry(p) \/ StartMonitor(p) \/ Crash(p) \/ Shutdown(p)
        \/ DeletePidFile \/ Connect \/ HangUp \/ UNCHANGED vars \/ Restart
        \/ StopTelemetry \/ StopConfig \/ StopMonitor \/ StopSubprocesses
        \/ TelemetryStep \/ ConfigStep \/ AgentStep \/ SpawnStep
    BY DEF Next, StartStep, StopStep, Others
  <2>2. QED
    BY <1>1, <1>2, <1>3, <1>4, <1>5, <1>6, <1>7, <1>8, <1>9, <1>10, <1>11, <1>12, <2>1

\* The daemon uses telemetry, the config service and the subprocess manager as their own
\* specifications say: each start, shutdown and call comes at a time when it may.
THEOREM SystemsAreUsedAsSpecified ==
    ASSUME DMAssumption
    PROVE  Spec => TM!Spec /\ CS!Spec /\ SM!Spec
<1>1. Init => TM!Init /\ CS!Init /\ SM!Init
  BY DEF Init
<1>2. [Next]_vars => [TM!Next]_tmVars /\ [CS!Next]_csVars /\ [SM!Next]_smVars
  BY StepsOfSystems
<1>3. QED
  BY <1>1, <1>2, PTL DEF Spec, TM!Spec, CS!Spec, SM!Spec, TM!tmVars, tmVars, CS!csVars, csVars,
                         SM!smVars, smVars

\* One loop sends the events of the daemon, or waits for its timer, until shutdown()
\* has sent what it owed: whenever it was killed, and started again.
THEOREM DaemonSendsEvents ==
    ASSUME DMAssumption
    PROVE  Spec => []EventsAreSent
  BY TelemetrySends, SystemsAreUsedAsSpecified, PTL DEF DMAssumption, EventsAreSent

\* No run of the daemon deletes an event that the server has not taken, and that could
\* be read.
THEOREM DaemonLosesNoEvent ==
    ASSUME DMAssumption
    PROVE  Spec => NothingLost
  BY NoEventIsLost, SystemsAreUsedAsSpecified, PTL DEF DMAssumption, NothingLost

\* The list of subprocesses is true, and shutdown() reaches all that are on it.
THEOREM DaemonListsSpawns ==
    ASSUME DMAssumption
    PROVE  Spec => []SpawnsAreListed
  BY ListIsTrue, SystemsAreUsedAsSpecified, PTL DEF DMAssumption, SpawnsAreListed

\* The layers of the configuration follow their files, by watchers that none forgets.
THEOREM DaemonWatchesLayers ==
    ASSUME DMAssumption
    PROVE  Spec => []LayersAreWatched
  BY LayersFollow, SystemsAreUsedAsSpecified, PTL DEF DMAssumption, LayersAreWatched

\* While the daemon runs the pid file names it, or it has been told that the file was
\* deleted, but for a race with a second process that starts at the same time.
THEOREM PidFileNamesDaemon ==
    ASSUME DMAssumption
    PROVE  Spec => []PidFileTrue
<1> USE DMAssumption
<1>1. Init => ServerInv
  <2> SUFFICES ASSUME Init PROVE ServerInv
    OBVIOUS
  <2>1. DMTypeOK
    <3>1. step = [p \in Procs |-> 1] /\ Len(StartSteps) = 8
      BY Places DEF Init
    <3>2. troubles = 0 /\ MaxTroubles \in Nat
      BY DEF Init, DMAssumption
    <3>3. step \in [Procs -> 1..Len(StartSteps)] /\ troubles \in 0..MaxTroubles
      BY <3>1, <3>2
    <3>4. QED
      BY <3>3 DEF Init, DMTypeOK
  <2>2. WatchInv /\ PidInv
    BY DEF Init, WatchInv, PidInv, Past, Alive, DMAssumption
  <2>3. QED
    BY <2>1, <2>2 DEF ServerInv
<1>2. ServerInv /\ [Next]_vars => ServerInv'
  BY ServerStepInv
<1>3. Init => PollInv
  BY DEF Init, AG!Init, PollInv, AG!AGTypeOK, AG!PollsUntilStopped, DMAssumption,
         AG!AGAssumption
<1>4. PollInv /\ [Next]_vars => PollInv'
  BY StepsOfSystems, PollStepInv DEF DMAssumption
<1>5. Init => ConfigInv /\ SpawnsInv
  BY ConfigBegins, SpawnsBegin DEF Init, DMAssumption
<1>6. ConfigInv /\ SpawnsInv /\ [Next]_vars => ConfigInv' /\ SpawnsInv'
  BY StepsOfSystems, ConfigStepInv, NextInv DEF DMAssumption
<1>7. ServerInv /\ PollInv /\ ConfigInv /\ SpawnsInv /\ TelemetryInv => PidFileTrue
  <2> SUFFICES ASSUME ServerInv, PollInv, ConfigInv, SpawnsInv, TelemetryInv
               PROVE  PidFileTrue
    OBVIOUS
  <2>1. TypeOK
    BY DEF TypeOK, ServerInv, PollInv, ConfigInv, SpawnsInv, TelemetryInv
  <2>2. ASSUME state[Main] = "started" PROVE Past(Main) /\ ~At(Main, "pid")
    BY <2>2 DEF Past, Alive, At
  <2>3. QED
    BY <2>1, <2>2 DEF PidFileTrue, ServerInv, PidInv, DMAssumption
<1>8. Spec => []TelemetryInv
  BY TelemetryInvariant, SystemsAreUsedAsSpecified, PTL DEF DMAssumption
<1>9. QED
  BY <1>1, <1>2, <1>3, <1>4, <1>5, <1>6, <1>7, <1>8, PTL DEF Spec

\* The samples of the agent: no collection outgrows its ring; its sum is that of the values
\* in the ring, none of which is outside its min and max; two successive values are less
\* than two intervals apart, however late the timers are; and once started the agent has
\* a timer or a poll under way until it is stopped or a collector throws.
THEOREM AgentSamplesAreTrue ==
    ASSUME DMAssumption
    PROVE  Spec => []AgentIsTrue
<1> DEFINE Inv == PollInv /\ RingsInv
<1>1. Init => Inv
  BY DMAssumption DEF Init, AG!Init, PollInv, RingsInv, AG!AGTypeOK, AG!PollsUntilStopped,
                      DMAssumption, AG!AGAssumption
<1>2. Inv /\ [Next]_vars => Inv'
  BY DMAssumption, StepsOfSystems, PollStepInv, RingsStepInv DEF DMAssumption
<1>3. Inv => AgentIsTrue
  <2> SUFFICES ASSUME PollInv, RingsInv PROVE AgentIsTrue
    OBVIOUS
  <2>1. AG!CollectionsTrue
    BY DEF AG!CollectionsTrue, RingsInv, Ring
  <2>2. AG!NoGaps
    BY DEF AG!NoGaps, RingsInv, Ring
  <2>3. QED
    BY <2>1, <2>2 DEF AgentIsTrue, PollInv
<1>4. QED
  BY <1>1, <1>2, <1>3, PTL DEF Spec

===================================================================================
