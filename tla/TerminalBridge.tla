--------------------------- MODULE TerminalBridge ---------------------------
(***************************************************************************)
(* startBridgeServer (src/server/bridge-server.ts): the WebSockets through *)
(* which terminal views reach their session, on top of SessionManager.     *)
(*                                                                         *)
(* Event handlers of the bridge run in one turn each.  A socket whose      *)
(* server side has called close() still delivers messages until its close  *)
(* event (the ws library emits them while CLOSING), so a replaced or       *)
(* rejected socket keeps talking for a while.                              *)
(***************************************************************************)
EXTENDS SessionManager

CONSTANTS
    Socks,          \* WebSockets clients may open, each once
    NoSock,         \* no entry in activeConnections
    NoId,           \* a socket's session variable is undefined
    MaxPendingAuth  \* MAX_PENDING_AUTH_CONNECTIONS

ASSUME BridgeAssumption ==
    /\ NoSock \notin Socks
    /\ NoId \notin Ids
    /\ IsFiniteSet(Socks)
    /\ MaxPendingAuth \in Nat \ {0}

VARIABLES
    sock,        \* every socket, with the closure variables of its handlers
    conn,        \* activeConnections
    pendingAuth, \* pendingAuthConnections
    wrote        \* history: the socket and session of the PTY write or resize
                 \* the last step attempted, if any

bridgeVars == <<sock, conn, pendingAuth, wrote>>
allVars == <<session, proc, killFaults, phase, awaited, bridgeVars>>

\* state: readyState, with "gone" once the close event has fired.
\* url: pendingSessionId; bound: session; forwards: connectionDisposables
\* holds the listeners that forward PTY output.
Socket == [state       : {"unused", "open", "closing", "gone"},
           url         : Ids \union {NoId},
           authPending : BOOLEAN,
           bound       : Ids \union {NoId},
           forwards    : BOOLEAN]

UnusedSocket == [state |-> "unused", url |-> NoId, authPending |-> FALSE,
                 bound |-> NoId, forwards |-> FALSE]

NoWrite == [by |-> NoSock, to |-> NoId]

BridgeInit ==
    /\ Init
    /\ sock = [k \in Socks |-> UnusedSocket]
    /\ conn = [s \in Ids |-> NoSock]
    /\ pendingAuth = 0
    /\ wrote = NoWrite

Connected(k) == sock[k].state \in {"open", "closing"}

\* isCurrent() of the socket's handlers.
IsCurrent(k) == sock[k].bound # NoId /\ conn[sock[k].bound] = k

-----------------------------------------------------------------------------
(* The operations on one socket *)

\* closeSocket: close() on an open socket; nothing on one already closing.
Closing(r) == IF r.state = "open" THEN [r EXCEPT !.state = "closing"] ELSE r

\* Mutant: settleAuth forgets to clear authPending.
SettledAgain(r) == r

\* settleAuth, and disposeConnection.
Settled(r) == [r EXCEPT !.authPending = FALSE]
Disposed(r) == [r EXCEPT !.forwards = FALSE]

\* The counter after settleAuth of k: only the first settle counts.
SettledCount(k) ==
    IF sock[k].authPending /\ pendingAuth > 0 THEN pendingAuth - 1 ELSE pendingAuth

\* settleAuth and closeWithPolicy, the end of every rejected connection.
Reject(k) ==
    /\ sock' = [sock EXCEPT ![k] = Closing(Settled(@))]
    /\ pendingAuth' = SettledCount(k)
    /\ UNCHANGED conn

\* The sessions this step removes from the manager's map, as the bridge's
\* onSessionClosed listener hears of them; bridge.close() unsubscribes it.
Ended == {s \in Open : session'[s].life = "closed" /\ phase # "down"}

\* Mutant: the listener closes the socket and keeps its entry.
CloseListenerKeepsEntry(k) ==
    /\ sock' = [j \in Socks |->
                  IF \E s \in Ended : conn[s] = j THEN Closing(Disposed(sock[j]))
                  ELSE IF j = k THEN Closing(sock[j]) ELSE sock[j]]
    /\ UNCHANGED conn

\* The listener runs inside the step that removed the session, on whatever
\* socket is current then; k is closed by the step's own handler as well.
CloseListener(k) ==
    /\ sock' = [j \in Socks |->
                  IF \E s \in Ended : conn[s] = j THEN Closing(Disposed(sock[j]))
                  ELSE IF j = k THEN Closing(sock[j]) ELSE sock[j]]
    /\ conn' = [s \in Ids |-> IF s \in Ended THEN NoSock ELSE conn[s]]

\* bridge.close(), right after closeAllAndDrain.
CloseBridge ==
    /\ sock' = [k \in Socks |-> IF \E s \in Ids : conn[s] = k
                                THEN Closing(Disposed(sock[k])) ELSE sock[k]]
    /\ UNCHANGED conn

-----------------------------------------------------------------------------
(* Actions *)

\* An upgrade that passes every check; the rejected ones change nothing.
Upgrade(k, s) ==
    /\ phase # "down"
    /\ sock[k].state = "unused"
    /\ s \in Open
    /\ pendingAuth < MaxPendingAuth
    /\ sock' = [sock EXCEPT ![k].state = "open", ![k].url = s, ![k].authPending = TRUE]
    /\ pendingAuth' = pendingAuth + 1
    /\ wrote' = NoWrite
    /\ UNCHANGED <<vars, conn>>

\* Mutant: the timer reports the timeout and leaves the socket pending.
AuthTimeoutOnlyReports(k) ==
    /\ sock[k].authPending
    /\ wrote' = NoWrite
    /\ UNCHANGED <<vars, sock, conn, pendingAuth>>

\* The authentication timer; settleAuth has cleared it for everyone else.
AuthTimeout(k) ==
    /\ sock[k].authPending
    /\ Reject(k)
    /\ wrote' = NoWrite
    /\ UNCHANGED vars

\* Invalid JSON or an invalid schema, before or after authentication.
BadMessage(k) ==
    /\ Connected(k)
    /\ Reject(k)
    /\ wrote' = NoWrite
    /\ UNCHANGED vars

\* A well-formed message other than authenticate from a socket that never
\* authenticated, or that another view has replaced.
UnauthenticatedMessage(k) ==
    /\ Connected(k)
    /\ ~IsCurrent(k)
    /\ Reject(k)
    /\ wrote' = NoWrite
    /\ UNCHANGED vars

\* An authenticate message is looked at while authPending only; afterwards it
\* is answered with an error and changes nothing.
Authenticates(k) == Connected(k) /\ sock[k].authPending /\ sock[k].bound = NoId

\* The token is wrong or the session is gone.
AuthRejected(k) ==
    /\ Authenticates(k)
    /\ Reject(k)
    /\ wrote' = NoWrite
    /\ UNCHANGED vars

\* The token is right but startSession returns undefined for a closing
\* session, or throws; the session stays, its activity is recorded.
AuthStartRefused(k) ==
    LET s == sock[k].url
    IN  /\ Authenticates(k)
        /\ s \in Open
        /\ \/ s \notin Usable /\ Touch(s)
           \/ CanSpawn(s) /\ Touch(s)
           \/ \E p \in Pids, killed \in BOOLEAN : BridgeStartFails(s, p, killed)
        /\ Reject(k)
        /\ wrote' = NoWrite

\* Mutant: the socket that had the session before is not closed.
TakeOverSilently(k, s) ==
    /\ sock' = [sock EXCEPT ![k] = [Settled(@) EXCEPT !.bound = s, !.forwards = TRUE]]
    /\ conn' = [conn EXCEPT ![s] = k]
    /\ pendingAuth' = SettledCount(k)

\* The new socket takes the session over from the one that has it.
TakeOver(k, s) ==
    /\ sock' = [j \in Socks |->
                  IF j = k THEN [Settled(sock[k]) EXCEPT !.bound = s, !.forwards = TRUE]
                  ELSE IF conn[s] = j THEN Closing(Disposed(sock[j])) ELSE sock[j]]
    /\ conn' = [conn EXCEPT ![s] = k]
    /\ pendingAuth' = SettledCount(k)

\* The token is right and the session starts, or had started before.
Authenticated(k) ==
    LET s == sock[k].url
    IN  /\ Authenticates(k)
        /\ \/ \E p \in Pids : StartSession(s, p)
           \/ s \in Usable /\ session[s].pty # NoPid /\ Touch(s)
        /\ TakeOver(k, s)
        /\ wrote' = NoWrite

\* recordActivity: nothing for a session that has left the map.  The handler
\* ignores its result and goes on with the session object it captured.
RecordActivity(s) == Touch(s) \/ (s \notin Open /\ UNCHANGED vars)

\* The PTY I/O of writeToPty, dropped only when the session has exited.
Attempt(k) ==
    IF session[sock[k].bound].exited THEN NoWrite ELSE [by |-> k, to |-> sock[k].bound]

\* input or resize from the current socket, when the I/O works or is dropped.
\* Without a pty, which a session that left the map has lost, it throws.
PtyWrite(k) ==
    /\ Connected(k)
    /\ IsCurrent(k)
    /\ session[sock[k].bound].pty = NoPid => Attempt(k) = NoWrite
    /\ RecordActivity(sock[k].bound)
    /\ wrote' = Attempt(k)
    /\ UNCHANGED <<sock, conn, pendingAuth>>

\* The client asks to close, or the I/O throws: the session is closed, if it
\* is still in the map, and so is the socket, whether or not the kill works.
\* The activity recorded before shows only when the kill fails, and then as
\* after a ping.
CloseBySocket(k) ==
    LET s == sock[k].bound
    IN  /\ Connected(k)
        /\ IsCurrent(k)
        /\ \/ \E failed \in SUBSET {s} : CloseSession(s, failed)
           \/ (s \notin Open /\ UNCHANGED vars)
        /\ CloseListener(k)
        /\ wrote' \in {NoWrite, Attempt(k)}
        /\ UNCHANGED pendingAuth

\* output_confirmed and ping.
OtherMessage(k) ==
    /\ Connected(k)
    /\ IsCurrent(k)
    /\ RecordActivity(sock[k].bound)
    /\ wrote' = NoWrite
    /\ UNCHANGED <<sock, conn, pendingAuth>>

\* The forwarding listener finds the client too slow.
Backpressure(k) ==
    /\ sock[k].forwards
    /\ IsCurrent(k)
    /\ sock' = [sock EXCEPT ![k] = Closing(@)]
    /\ wrote' = NoWrite
    /\ UNCHANGED <<vars, conn, pendingAuth>>

\* The close event, after a close from either side or a lost connection.
SocketClosed(k) ==
    /\ Connected(k)
    /\ sock' = [sock EXCEPT ![k] = [Disposed(Settled(@)) EXCEPT !.state = "gone"]]
    /\ pendingAuth' = SettledCount(k)
    /\ conn' = [s \in Ids |-> IF s = sock[k].bound /\ conn[s] = k THEN NoSock ELSE conn[s]]
    /\ wrote' = NoWrite
    /\ UNCHANGED vars

\* Tools, timers, processes and files move on without the bridge; a session
\* they remove takes its socket with it.
ManagerTurn ==
    /\ BackgroundStep \/ \E s \in Ids : AppStep(s)
    /\ IF phase' = "down" /\ phase # "down" THEN CloseBridge ELSE CloseListener(NoSock)
    /\ wrote' = NoWrite
    /\ UNCHANGED pendingAuth

SocketStep(k) ==
    \/ \E s \in Ids : Upgrade(k, s)
    \/ AuthTimeout(k)
    \/ BadMessage(k)
    \/ UnauthenticatedMessage(k)
    \/ AuthRejected(k)
    \/ AuthStartRefused(k)
    \/ Authenticated(k)
    \/ PtyWrite(k)
    \/ CloseBySocket(k)
    \/ OtherMessage(k)
    \/ Backpressure(k)
    \/ SocketClosed(k)

BridgeNext == ManagerTurn \/ \E k \in Socks : SocketStep(k)

BridgeSpec == BridgeInit /\ [][BridgeNext]_allVars


\* The 5 s timer of an unauthenticated socket fires; the ws library ends a
\* closing handshake by force.
BridgeFairness ==
    \A k \in Socks : /\ WF_allVars(AuthTimeout(k))
                     /\ WF_allVars(sock[k].state = "closing" /\ SocketClosed(k))

FairBridgeSpec == BridgeSpec /\ BridgeFairness

-----------------------------------------------------------------------------
(* Properties *)

\* pendingAuthConnections is exactly the number of sockets that still owe an
\* authentication: no path settles twice, and none leaves without settling,
\* which would lock every later view out with 503.
PendingAuthExact ==
    pendingAuth = Cardinality({k \in Socks : sock[k].authPending})

\* A session has one active view: every other socket that ever authenticated
\* for it forwards nothing and has been told to close, be it replaced or be
\* its session removed by a tool, the sweep or the shutdown.
OneActiveView ==
    \A k \in Socks : sock[k].bound # NoId /\ ~IsCurrent(k) =>
        ~sock[k].forwards /\ sock[k].state # "open"

\* Whatever a replaced or rejected socket still sends, PTY I/O is attempted
\* only for the one view the session's output goes to, and only while the
\* session the handler captured is in the map.  Nothing in the handler looks
\* there again: it holds because whatever removes a session unbinds its socket
\* in the same turn, as long as the bridge listens.
OnlyActiveViewWrites ==
    [][wrote' # NoWrite =>
          /\ phase # "down" => wrote'.to \in Open
          /\ \A j \in Socks \ {wrote'.by} : sock[j].bound = wrote'.to =>
                ~sock[j].forwards /\ sock[j].state # "open"]_allVars

\* No socket occupies an authentication slot for ever.
AuthSlotsRecovered == \A k \in Socks : sock[k].authPending ~> ~sock[k].authPending

=============================================================================
