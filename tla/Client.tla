--------------------------------- MODULE Client ---------------------------------
(***************************************************************************)
(* The client of the daemon: Client (packages/appcd-client/src/client.js). *)
(* Its requests share a socket, which the first of them opens; connect()   *)
(* may start the daemon.  up and down are what the sockets carry.          *)
(***************************************************************************)
EXTENDS Integers, FiniteSets, Sequences, SequencesExt

CONSTANTS
    Requests, Sockets,
    StartsDaemon, \* the requests that ask for startDaemon
    MaxStarts     \* bound: how often the daemon is started

CLAssumption ==
    /\ Sockets \subseteq Nat \ {0}
    /\ StartsDaemon \subseteq Requests /\ MaxStarts \in Nat

VARIABLES
    phase,   \* request -> how far request() and its connect() are
    socket,  \* this.socket, or 0
    link,    \* socket -> the client's end; "cut" until its 'close' event
    opener,  \* socket -> the request whose connect() opened it, or 0
    sentOn,  \* request -> the socket it was sent on, or 0
    handler, \* request -> this.requests[id]: "none", or the status of the first response
    heard,   \* request -> what its emitter has emitted
    latest,  \* request -> the value it was last told
    appcd,   \* this.appcd, and whether its configuration was fetched
    daemon,  \* "up" or "down"
    starts,
    up, down

clVars == <<phase, socket, link, opener, sentOn, handler, heard, latest, appcd, daemon, starts>>

CLTypeOK ==
    /\ phase \in [Requests -> {"none", "connect", "locale", "opening", "locating", "sent", "unsent", "failed"}]
    /\ socket \in Sockets \cup {0}
    /\ link \in [Sockets -> {"none", "connecting", "open", "cut", "closed"}]
    /\ opener \in [Sockets -> Requests \cup {0}] /\ sentOn \in [Requests -> Sockets \cup {0}]
    /\ handler \in [Requests -> {"none", "new", "ok", "failed"}]
    /\ \A r \in Requests : Range(heard[r]) \subseteq {"response", "finish", "error", "close"}
    /\ appcd \in {"unknown", "missing", "found", "fetched"} /\ daemon \in {"up", "down"}
    /\ starts \in 0..MaxStarts

New ==
    /\ phase = [r \in Requests |-> "none"] /\ socket = 0
    /\ link = [s \in Sockets |-> "none"] /\ opener = [s \in Sockets |-> 0]
    /\ sentOn = [r \in Requests |-> 0] /\ handler = [r \in Requests |-> "none"]
    /\ heard = [r \in Requests |-> <<>>] /\ latest = [r \in Requests |-> 0]
    /\ appcd = "unknown" /\ starts = 0
-------------------------------------------------------------------------------
\* request(path)
Request(r) ==
    /\ phase[r] = "none"
    /\ phase' = [phase EXCEPT ![r] = "connect"]
    /\ UNCHANGED <<socket, link, opener, sentOn, handler, heard, latest, appcd, daemon, starts, up, down>>

\* The 'connected' listener: send() throws while the socket connects or when there is
\* none, and loses what is sent on a socket that is not open any more.
Send(r, links) ==
    /\ handler' = [handler EXCEPT ![r] = "new"]
    /\ IF socket = 0
         THEN phase' = [phase EXCEPT ![r] = "unsent"] /\ UNCHANGED <<sentOn, up>>
         ELSE IF links[socket] = "connecting"
         THEN phase' = [phase EXCEPT ![r] = "unsent"] /\ UNCHANGED <<sentOn, up>>
         ELSE /\ phase' = [phase EXCEPT ![r] = "sent"]
              /\ sentOn' = [sentOn EXCEPT ![r] = socket]
              /\ up' = IF links[socket] = "open" THEN [up EXCEPT ![socket] = Append(@, r)] ELSE up

\* tryConnect(): whatever state the socket is in, it counts as connected.
TryConnect(r) ==
    /\ phase[r] = "connect"
    /\ IF socket # 0 THEN Send(r, link)
       ELSE phase' = [phase EXCEPT ![r] = "locale"] /\ UNCHANGED <<sentOn, handler, up>>
    /\ UNCHANGED <<socket, link, opener, heard, latest, appcd, daemon, starts, down>>

\* After await locale(): another request may have done the same meanwhile.
OpenSocket(r, s) ==
    /\ phase[r] = "locale" /\ link[s] = "none"
    /\ socket' = s
    /\ link' = [link EXCEPT ![s] = "connecting"]
    /\ opener' = [opener EXCEPT ![s] = r]
    /\ phase' = [phase EXCEPT ![r] = "opening"]
    /\ UNCHANGED <<sentOn, handler, heard, latest, appcd, daemon, starts, up, down>>

\* 'open'
Opened(s) ==
    /\ link[s] = "connecting" /\ daemon = "up"
    /\ link' = [link EXCEPT ![s] = "open"]
    /\ Send(opener[s], link')
    /\ UNCHANGED <<socket, opener, heard, latest, appcd, daemon, starts, down>>

Emit(r, e) == heard' = [heard EXCEPT ![r] = IF e = "close" /\ e \in Range(@) THEN @ ELSE Append(@, e)]

\* 'error': the client drops its socket, even if it is another one.
Dropped(s) ==
    /\ link' = [link EXCEPT ![s] = "cut"] /\ socket' = 0
    /\ down' = [down EXCEPT ![s] = <<>>] /\ up' = [up EXCEPT ![s] = <<>>]

\* ECONNREFUSED, or some other error: only the first leads to a start of the daemon.
Fails(s, refused) ==
    LET r == opener[s]
        locates == refused /\ r \in StartsDaemon
    IN /\ link[s] \in {"connecting", "open"} /\ Dropped(s)
       /\ refused => link[s] = "connecting" /\ daemon = "down"
       /\ IF locates THEN UNCHANGED <<heard, handler>>
          ELSE Emit(r, "error") /\ handler' = [handler EXCEPT ![r] = "none"]
       /\ phase' = [phase EXCEPT ![r] = IF locates THEN "locating"
                                        ELSE IF link[s] = "connecting" THEN "failed" ELSE @]
       /\ UNCHANGED <<opener, sentOn, latest, appcd, daemon, starts>>

GivesUp(r) ==
    /\ Emit(r, "error") /\ handler' = [handler EXCEPT ![r] = "none"]
    /\ phase' = [phase EXCEPT ![r] = "failed"]

\* await find('appcd'), whose result is kept; else the Axway CLI may know of one, but
\* that one is only used by the next request: a misspelt name makes this one fail.
FindAppcd(r, found) ==
    /\ phase[r] = "locating" /\ appcd \in {"unknown", "missing"}
    /\ IF appcd = "unknown" /\ found
         THEN appcd' = "found" /\ UNCHANGED <<phase, handler, heard>>
         ELSE appcd' = (IF found THEN "found" ELSE "missing") /\ GivesUp(r)
    /\ UNCHANGED <<socket, link, opener, sentOn, latest, daemon, starts, up, down>>

\* The command has succeeded; the daemon may yet not be there.
Starts(works) ==
    /\ starts < MaxStarts /\ starts' = starts + 1
    /\ daemon' = IF works \/ starts' = MaxStarts THEN "up" ELSE daemon

\* 'config get server': the daemon is started if it is to be found elsewhere, or if
\* that command fails.
FetchConfig(r, elsewhere, works) ==
    /\ phase[r] = "locating" /\ appcd = "found"
    /\ appcd' = "fetched" /\ phase' = [phase EXCEPT ![r] = "connect"]
    /\ IF elsewhere THEN Starts(works) ELSE UNCHANGED <<daemon, starts>>
    /\ UNCHANGED <<socket, link, opener, sentOn, handler, heard, latest, up, down>>

\* run(appcd, 'start') throws when the command exits with an error: the request gives up.
StartFails(r) ==
    /\ phase[r] = "locating" /\ appcd \in {"found", "fetched"}
    /\ appcd' = "fetched" /\ GivesUp(r)
    /\ UNCHANGED <<socket, link, opener, sentOn, latest, daemon, starts, up, down>>

\* Once the configuration is known: 'start', as often as it takes.
StartDaemon(r, works) ==
    /\ phase[r] = "locating" /\ appcd = "fetched"
    /\ phase' = [phase EXCEPT ![r] = "connect"]
    /\ Starts(works)
    /\ UNCHANGED <<socket, link, opener, sentOn, handler, heard, latest, appcd, up, down>>

\* 'close', once the connection has ended: only the request that opened it is told.
Close(s) ==
    LET r == opener[s]
        hears == "close" \notin Range(heard[r])
    IN /\ link[s] = "cut"
       /\ link' = [link EXCEPT ![s] = "closed"]
       /\ Emit(r, "close")
       /\ handler' = IF hears THEN [handler EXCEPT ![r] = "none"] ELSE handler
       /\ UNCHANGED <<phase, socket, opener, sentOn, latest, appcd, daemon, starts, up, down>>

\* Mutant of Handled: each response is taken for the last.
HandledAtOnce(r, m) ==
    heard' = [heard EXCEPT ![r] = @ \o (IF m.status = 500 THEN <<"error">> ELSE <<"response", "finish">>)]

\* The handler of a request.  The status of the first response stands for all: an
\* error that comes later is emitted as a response.
Handled(r, m) ==
    LET failed == IF handler[r] = "new" THEN m.status # 200 ELSE handler[r] = "failed"
    IN heard' = [heard EXCEPT ![r] = @ \o
         (IF failed THEN <<"error">>
          ELSE (IF m.type = "finish" THEN <<>> ELSE <<"response">>) \o
               (IF m.fin THEN <<"finish">> ELSE <<>>))]

\* 'message': what has no handler is a warning.
Message(s) ==
    LET m == Head(down[s])
        r == m.id
    IN /\ link[s] = "open" /\ down[s] # <<>>
       /\ down' = [down EXCEPT ![s] = Tail(@)]
       /\ IF handler[r] = "none" THEN UNCHANGED <<handler, heard, latest>>
          ELSE /\ Handled(r, m)
               /\ handler' = [handler EXCEPT ![r] =
                    IF @ = "new" THEN (IF m.status = 200 THEN "ok" ELSE "failed") ELSE @]
               /\ latest' = [latest EXCEPT ![r] = IF m.type \in {"value", "event"} THEN m.v ELSE @]
       /\ UNCHANGED <<phase, socket, link, opener, sentOn, appcd, daemon, starts, up>>

\* disconnect()
Disconnect ==
    /\ socket # 0 /\ link[socket] = "open" /\ Dropped(socket)
    /\ UNCHANGED <<phase, opener, sentOn, handler, heard, latest, appcd, daemon, starts>>

\* The other end is gone: the daemon has ended, or closes its websockets.
Cut(s) ==
    /\ link[s] = "open" /\ link' = [link EXCEPT ![s] = "cut"]
    /\ down' = [down EXCEPT ![s] = <<>>] /\ up' = [up EXCEPT ![s] = <<>>]
    /\ UNCHANGED <<phase, socket, opener, sentOn, handler, heard, latest, appcd, daemon, starts>>
-------------------------------------------------------------------------------
Answered(r) == \E e \in {"finish", "error", "close"} : e \in Range(heard[r])

\* A requester hears one end of its answer, and no response after it: the last word
\* but for the end of its connection.  An error of the connection may follow.
OneEnd ==
    \A r \in Requests :
      LET h == heard[r]
          ends == {i \in 1..Len(h) : h[i] = "finish"}
      IN /\ \A i, j \in ends : i = j
         /\ \A i \in ends, j \in 1..Len(h) : j > i => h[j] # "response"
=============================================================================
