--------------------------- MODULE LocalJsonRpc ---------------------------
(***************************************************************************)
(* The connection of the UI to the printer service (kaiten), as kept by    *)
(* LocalJsonRpc over a unix-domain socket: a file-system watcher waits for *)
(* the socket file, checkConnect() connects once the file exists, a retry  *)
(* timer follows every disconnection, and a 30 s timer reports that the    *)
(* first connection never came.  The handlers KaitenBotModel connects to   *)
(* the signals run inside the emission and are part of the actions.        *)
(*                                                                         *)
(* The service and the file system act between any two steps of the UI     *)
(* thread, also in the middle of checkConnect(), which is why `pc' keeps   *)
(* the place checkConnect() has reached.                                   *)
(***************************************************************************)
EXTENDS Naturals

CONSTANT MaxBinds   \* how often the service starts in a behaviour

ASSUME BindsAssumption == MaxBinds \in Nat

VARIABLES
    server,        \* the service's end: "down", "bound" (file made), "listening"
    file,          \* the socket file is on disk
    peer,          \* the service still holds its end of the accepted connection
    binds,         \* starts of the service so far (bounds the model)
    seen,          \* m_socketPath has cached that the file exists
    watched,       \* m_watcher watches the directory
    dirEvent,      \* a change of the watched directory is not yet delivered
    pc,            \* where checkConnect() is
    sock,          \* m_socket->state()
    initialCheck,  \* the 0 ms timer of the constructor is pending
    retries,       \* pending 500 ms timers
    initialTimer,  \* the 30 s timer is pending
    doTimeout,     \* m_doTimeout
    output,        \* the stream jsonrpc writes to
    state          \* KaitenBotModel::state

serverVars == <<server, file, peer, binds>>
timerVars  == <<initialCheck, retries, initialTimer>>
vars == <<serverVars, seen, watched, dirEvent, pc, sock, timerVars,
          doTimeout, output, state>>

ModesOK ==
    /\ server \in {"down", "bound", "listening"}
    /\ pc \in {"idle", "addPath", "recheck", "connect"}
    /\ sock \in {"Unconnected", "Connecting", "Connected"}
    /\ output \in {"none", "socket", "dummy"}
    /\ state \in {"Connecting", "Connected", "Disconnected", "TimedOut"}
    /\ binds \in 0 .. MaxBinds
    /\ retries \in Nat

FlagsOK ==
    /\ file \in BOOLEAN /\ peer \in BOOLEAN /\ seen \in BOOLEAN
    /\ watched \in BOOLEAN /\ dirEvent \in BOOLEAN
    /\ initialCheck \in BOOLEAN /\ initialTimer \in BOOLEAN /\ doTimeout \in BOOLEAN

TypeOK == ModesOK /\ FlagsOK

Init ==
    /\ server = "down" /\ file \in BOOLEAN /\ peer = FALSE /\ binds = 0
    /\ seen = FALSE /\ watched = FALSE /\ dirEvent = FALSE
    /\ pc = "idle" /\ sock = "Unconnected"
    /\ initialCheck = TRUE /\ retries = 0 /\ initialTimer = TRUE
    /\ doTimeout = TRUE /\ output = "none" /\ state = "Connecting"

-----------------------------------------------------------------------------
(* checkConnect(), from the event that calls it to its return.             *)

\* QFileInfo answers from its cache once it has seen the file, and asks the
\* file system again as long as it has not.
Exists == seen \/ file

\* A checkConnect() that returns early, the directory not being watched.
Enter_NoWatch ==
    \/ /\ Exists
       /\ seen' = TRUE /\ watched' = FALSE /\ pc' = "connect"
    \/ /\ ~Exists
       /\ pc' = "idle"
       /\ UNCHANGED <<seen, watched>>

\* The first exists() of checkConnect().
Enter ==
    \/ /\ Exists
       /\ seen' = TRUE /\ watched' = FALSE /\ pc' = "connect"
    \/ /\ ~Exists /\ watched
       /\ pc' = "idle"
       /\ UNCHANGED <<seen, watched>>
    \/ /\ ~Exists /\ ~watched
       /\ pc' = "addPath"
       /\ UNCHANGED <<seen, watched>>

InitialCheck ==
    /\ pc = "idle" /\ initialCheck
    /\ initialCheck' = FALSE
    /\ Enter
    /\ dirEvent' = (dirEvent /\ watched')
    /\ UNCHANGED <<serverVars, sock, retries, initialTimer, doTimeout, output, state>>

RetryTimer ==
    /\ pc = "idle" /\ retries > 0
    /\ retries' = retries - 1
    /\ Enter
    /\ dirEvent' = (dirEvent /\ watched')
    /\ UNCHANGED <<serverVars, sock, initialCheck, initialTimer, doTimeout, output, state>>

\* QFileSystemWatcher drops the events of a directory that was removed, so an
\* event is pending only while the directory is watched.
DirectoryChanged ==
    /\ pc = "idle" /\ dirEvent
    /\ dirEvent' = FALSE
    /\ Enter
    /\ UNCHANGED <<serverVars, sock, timerVars, doTimeout, output, state>>

AddPath ==
    /\ pc = "addPath"
    /\ watched' = TRUE
    /\ pc' = "recheck"
    /\ UNCHANGED <<serverVars, seen, dirEvent, sock, timerVars, doTimeout, output, state>>

\* addPath() trusted to report what happened before it.
Recheck_Omitted ==
    /\ pc = "recheck"
    /\ pc' = "idle"
    /\ UNCHANGED <<serverVars, seen, watched, dirEvent, sock, timerVars, doTimeout, output, state>>

\* The second exists(): a file made before addPath() raises no event.
Recheck ==
    /\ pc = "recheck"
    /\ seen' = Exists
    /\ watched' = ~Exists
    /\ dirEvent' = (dirEvent /\ ~Exists)
    /\ pc' = IF Exists THEN "connect" ELSE "idle"
    /\ UNCHANGED <<serverVars, sock, timerVars, doTimeout, output, state>>

-----------------------------------------------------------------------------
(* The socket.  QLocalSocket signals its state changes synchronously, from *)
(* connectToServer() too.                                                  *)

\* sockConnected() and KaitenBotModel::connected()
SockConnected ==
    /\ sock' = "Connected" /\ peer' = TRUE
    /\ output' = "socket"
    /\ doTimeout' = FALSE
    /\ state' = "Connected"

\* stateChanged() on the way to UnconnectedState
StateUnconnected ==
    /\ sock' = "Unconnected"
    /\ retries' = retries + 1

Connect ==
    /\ pc = "connect"
    /\ pc' = "idle"
    /\ \/ /\ sock # "Unconnected"
          /\ UNCHANGED <<peer, sock, retries, doTimeout, output, state>>
       \/ /\ sock = "Unconnected" /\ server = "listening"
          /\ SockConnected
          /\ UNCHANGED retries
       \/ /\ sock = "Unconnected" /\ server = "listening"  \* backlog full
          /\ sock' = "Connecting"
          /\ UNCHANGED <<peer, retries, doTimeout, output, state>>
       \/ /\ sock = "Unconnected" /\ server # "listening"
          /\ StateUnconnected
          /\ UNCHANGED <<peer, doTimeout, output, state>>
    /\ UNCHANGED <<server, file, binds, seen, watched, dirEvent, initialCheck, initialTimer>>

\* The outcome of a connection attempt that connectToServer() left pending.
PendingConnected ==
    /\ pc = "idle" /\ sock = "Connecting" /\ server = "listening"
    /\ SockConnected
    /\ UNCHANGED <<server, file, binds, seen, watched, dirEvent, pc, timerVars>>

PendingFailed ==
    /\ pc = "idle" /\ sock = "Connecting" /\ server # "listening"
    /\ StateUnconnected
    /\ UNCHANGED <<serverVars, seen, watched, dirEvent, pc, initialCheck,
                   initialTimer, doTimeout, output, state>>

\* stateChanged(), then sockDisconnected() and KaitenBotModel::disconnected()
SockDisconnected ==
    /\ pc = "idle" /\ sock = "Connected" /\ ~peer
    /\ StateUnconnected
    /\ output' = "dummy"
    /\ state' = "Disconnected"
    /\ UNCHANGED <<serverVars, seen, watched, dirEvent, pc, initialCheck,
                   initialTimer, doTimeout>>

\* The timeout reported unconditionally.
InitialTimeout_Always ==
    /\ pc = "idle" /\ initialTimer
    /\ initialTimer' = FALSE
    /\ state' = "TimedOut"
    /\ UNCHANGED <<serverVars, seen, watched, dirEvent, pc, sock,
                   initialCheck, retries, doTimeout, output>>

\* The 30 s timer; KaitenBotModel::timeout() when it emits.
InitialTimeout ==
    /\ pc = "idle" /\ initialTimer
    /\ initialTimer' = FALSE
    /\ state' = IF doTimeout THEN "TimedOut" ELSE state
    /\ UNCHANGED <<serverVars, seen, watched, dirEvent, pc, sock,
                   initialCheck, retries, doTimeout, output>>

-----------------------------------------------------------------------------
(* The service, outside src/: it replaces a stale file, binds, listens,    *)
(* and stops with or without removing the file.                            *)

Unchanged_UI == UNCHANGED <<seen, watched, pc, sock, timerVars, doTimeout, output, state>>

ServerBind ==
    /\ server = "down" /\ binds < MaxBinds
    /\ server' = "bound" /\ file' = TRUE /\ binds' = binds + 1
    /\ dirEvent' = watched
    /\ UNCHANGED peer
    /\ Unchanged_UI

ServerListen ==
    /\ server = "bound"
    /\ server' = "listening"
    /\ UNCHANGED <<file, peer, binds, dirEvent>>
    /\ Unchanged_UI

ServerStop ==
    /\ server # "down"
    /\ server' = "down" /\ peer' = FALSE
    /\ file' \in {TRUE, FALSE}
    /\ dirEvent' = (dirEvent \/ (watched /\ ~file'))
    /\ UNCHANGED binds
    /\ Unchanged_UI

\* Another program makes or removes a file in the watched directory.
OtherFile ==
    /\ watched /\ ~dirEvent
    /\ dirEvent' = TRUE
    /\ UNCHANGED serverVars
    /\ Unchanged_UI

-----------------------------------------------------------------------------

Service == ServerBind \/ ServerListen \/ ServerStop \/ OtherFile

UI ==
    \/ InitialCheck \/ RetryTimer \/ DirectoryChanged
    \/ AddPath \/ Recheck \/ Connect
    \/ PendingConnected \/ PendingFailed \/ SockDisconnected
    \/ InitialTimeout

Next == UI \/ Service

\* The event loop delivers every pending timer, event and socket notification;
\* checkConnect() runs to its end.  A retry that is due again and again cannot
\* hold back the 30 s timer (each turn of the loop fires every timer that is
\* due), hence the strong fairness.  Nothing is assumed of the service.
Fairness ==
    /\ WF_vars(InitialCheck) /\ WF_vars(RetryTimer) /\ WF_vars(DirectoryChanged)
    /\ WF_vars(AddPath) /\ WF_vars(Recheck) /\ WF_vars(Connect)
    /\ WF_vars(PendingConnected) /\ WF_vars(PendingFailed)
    /\ WF_vars(SockDisconnected) /\ SF_vars(InitialTimeout)

Spec == Init /\ [][Next]_vars /\ Fairness

-----------------------------------------------------------------------------
(* Properties.                                                             *)

\* What will make the UI thread run checkConnect() again, or end it.
Drivers ==
    (IF initialCheck THEN 1 ELSE 0) + retries
    + (IF watched /\ pc = "idle" THEN 1 ELSE 0)
    + (IF pc # "idle" THEN 1 ELSE 0)
    + (IF sock # "Unconnected" THEN 1 ELSE 0)

\* At any time exactly one thing drives the connection: the first check, a
\* retry timer, the watched directory, a running checkConnect() or a socket
\* that is connecting or connected.  None would strand the UI for ever ("be
\* absolutely sure that we cannot return early here when we are not watching
\* the directory", local_jsonrpc.cpp:64); two would be retry chains that never
\* merge, since every failed attempt starts a timer of its own.
OneDriver == Drivers = 1

\* While the UI is shown as connected the requests of KaitenBotModel reach the
\* socket, and once a connection was lost they are dropped, not written to the
\* dead socket; the 30 s timer never overwrites either state.
StateAgrees ==
    /\ state = "Connected" <=> sock = "Connected"
    /\ state = "Connected" <=> output = "socket"
    /\ state = "Disconnected" <=> output = "dummy"

\* BotModel::state follows the abstract connection (a late first connection
\* is reported only before the first connection, and someone always hears).
Abstract == INSTANCE BotConnection
ConnectionSpec == Abstract!Spec

\* What makes OneDriver and StateAgrees inductive.  The watch is added and
\* removed at fixed places of checkConnect(), and the first connection clears
\* m_doTimeout for good.
Inv ==
    /\ TypeOK /\ OneDriver /\ StateAgrees
    /\ pc \in {"addPath", "connect"} => ~watched
    /\ pc = "recheck" => watched
    /\ dirEvent => watched
    /\ doTimeout <=> state \in {"Connecting", "TimedOut"}
    /\ initialTimer => state # "TimedOut"

\* A service that keeps listening is found, whatever files it left before,
\* whenever it starts, and however its starts fall between the steps of
\* checkConnect().
EventuallyConnected ==
    <>[](server = "listening") => <>[](state = "Connected")

=============================================================================
