------------------------------ MODULE Runtime -------------------------------
(***************************************************************************)
(* The life of the process (src/server/main.ts): prepareRuntime binds the  *)
(* bridge's port, retrying while a draining predecessor holds it, and      *)
(* records the start; runHttp adds the HTTP MCP server; a signal or the    *)
(* end of stdin closes everything in order and exits.  The bridge's        *)
(* rejection records (AuditRateLimiter) and the accounting of what the     *)
(* sink lost (AuditAccounting) run inside it, and every record of the      *)
(* runtime goes through them.                                              *)
(***************************************************************************)
EXTENDS AuditRateLimiter, AuditAccounting

CONSTANTS
    BindWindow,    \* bindRetry.windowMs, in ticks
    BindInterval   \* bindRetry.intervalMs, in ticks

ASSUME BindAssumption ==
    /\ BindWindow \in Nat \ {0}
    /\ BindInterval \in Nat \ {0}

Signals == {"SIGINT", "SIGTERM"}
Starting == {"binding", "retrying", "recording", "undoing", "listening"}
Closing == {"stoppingHttp", "awaitingHttp", "closingServer", "drainingSessions",
            "closingBridge", "awaitingBridge", "flushing"}
Ended == {"exited", "failed", "killed"}

VARIABLES
    stage,       \* where prepareRuntime, runStdio or runHttp, or close is
    httpMode,    \* main was called with --http
    portHeld,    \* config.bridgePort is not 0 and another process listens on it
    waited,      \* ticks since listenWithBindRetry began, saturated at BindWindow,
                 \* and 0 once it has returned
    retryTimer,  \* ticks until the next attempt
    bridge,      \* the bridge's server: "none", "listening", "stopping", "closed"
    transfer,    \* a file request keeps a connection to the stopped bridge open
    mcp,         \* the HTTP MCP server, likewise
    request,     \* an MCP request: "none", "incoming" until its body has
                 \* arrived, "handling" until its answer has been sent
    session,     \* a session is open
    killFailed,  \* history: the kill of a session threw in closeAllAndDrain
    rejected,    \* history: the servers whose close() rejected
    aborted,     \* startup failed: the process ends with exit code 1
    signalled,   \* the signals that arrived after registerSignalCleanup
    due          \* records the current turn has still to write

starting == <<httpMode, portHeld, waited, retryTimer>>
serving == <<bridge, transfer, mcp, request, session, killFailed, rejected>>
ending == <<aborted, signalled>>
vars == <<stage, starting, serving, ending, due, limiterVars, accountingVars>>

Init ==
    /\ stage = "binding"
    /\ httpMode \in BOOLEAN /\ portHeld \in BOOLEAN
    /\ waited = 0 /\ retryTimer = NoTimer
    /\ bridge = "none" /\ transfer = FALSE
    /\ mcp = "none" /\ request = "none"
    /\ session = FALSE /\ killFailed = FALSE /\ rejected = {}
    /\ aborted = FALSE /\ signalled = {} /\ due = 0
    /\ LimiterInit
    /\ AccountingInit

\* A turn of the event loop may begin: the process lives, and the turn before
\* has made all of its synchronous writes.
Turn == stage \notin Ended /\ due = 0

\* Room in MaxRecords for n records now, a summary and runtime_closed later.
Room(n) == records + n + 2 <= MaxRecords

audit == <<limiterVars, accountingVars>>

\* One recordAuditEventSafe.
WriteRecord ==
    /\ due > 0
    /\ due' = due - 1
    /\ AccountingNext
    /\ UNCHANGED <<stage, starting, serving, ending, limiterVars>>

-----------------------------------------------------------------------------
(* Starting *)

PortReleased ==
    /\ Turn /\ portHeld
    /\ portHeld' = FALSE
    /\ UNCHANGED <<stage, httpMode, waited, retryTimer, serving, ending, due, audit>>

BridgeListens ==
    /\ Turn /\ stage = "binding" /\ ~portHeld
    /\ bridge' = "listening"
    /\ waited' = 0
    /\ stage' = "recording"
    /\ UNCHANGED <<httpMode, portHeld, retryTimer, transfer, mcp, request, session, killFailed, rejected,
                   ending, due, audit>>


\* EADDRINUSE inside the window: bridge_bind_retry, then another attempt.
BindRetried ==
    /\ Turn /\ stage = "binding" /\ portHeld
    /\ waited < BindWindow
    /\ due' = 1
    /\ retryTimer' = BindInterval
    /\ stage' = "retrying"
    /\ UNCHANGED <<httpMode, portHeld, waited, serving, ending, audit>>

RetryTimer ==
    /\ Turn /\ stage = "retrying" /\ retryTimer = 0
    /\ retryTimer' = NoTimer
    /\ stage' = "binding"
    /\ UNCHANGED <<httpMode, portHeld, waited, serving, ending, due, audit>>

\* EADDRINUSE after the window, or any other error of listen().
BindFails ==
    /\ Turn /\ stage = "binding"
    /\ portHeld => waited = BindWindow
    /\ aborted' = TRUE
    /\ stage' = "failed"
    /\ UNCHANGED <<starting, serving, signalled, due, audit>>

\* runtime_started and bridge_listening are written; the rest of
\* prepareRuntime and, in stdio mode, registerSignalCleanup follow at once.
StartRecorded ==
    /\ Turn /\ stage = "recording"
    /\ stage' = IF httpMode THEN "listening" ELSE "serving"
    /\ UNCHANGED <<starting, serving, ending, due, audit>>

\* The sink throws on one of the two, which no accounting catches.
StartNotRecorded ==
    /\ Turn /\ stage = "recording"
    /\ aborted' = TRUE
    /\ stage' = "undoing"
    /\ UNCHANGED <<starting, serving, signalled, due, audit>>

\* bridge.close() before the error is thrown again; its own error is logged.
StartUndone ==
    /\ Turn /\ stage = "undoing"
    /\ \/ bridge' = "closed" /\ UNCHANGED rejected
       \/ rejected' = rejected \union {"bridge"} /\ UNCHANGED bridge
    /\ stage' = "failed"
    /\ UNCHANGED <<starting, transfer, mcp, request, session, killFailed, ending, due, audit>>

\* startHttpMcpServer resolves; runHttp registers the signal handlers.
HttpListens ==
    /\ Turn /\ stage = "listening"
    /\ mcp' = "listening"
    /\ stage' = "serving"
    /\ UNCHANGED <<starting, bridge, transfer, request, session, killFailed, rejected,
                   ending, due, audit>>

\* startHttpMcpServer rejects, the port or the token is unusable: runHttp
\* closes the runtime and throws.
HttpFails ==
    /\ Turn /\ stage = "listening"
    /\ aborted' = TRUE
    /\ stage' = "closingServer"
    /\ UNCHANGED <<starting, serving, signalled, due, audit>>

-----------------------------------------------------------------------------
(* Serving *)

\* The head of a request, on a new connection.
RequestArrives ==
    /\ Turn /\ mcp = "listening" /\ request = "none"
    /\ request' = "incoming"
    /\ UNCHANGED <<stage, starting, bridge, transfer, mcp, session, killFailed, rejected,
                   ending, due, audit>>

\* The body is complete: the handler registers its closer and runs the tool,
\* and open_connexin opens its session in the same turn.  This may be after
\* close() ran the closers, which knew nothing of the request.
BodyArrives(opens) ==
    /\ Turn /\ request = "incoming"
    /\ request' = "handling"
    /\ session' = (session \/ opens)
    /\ UNCHANGED <<stage, starting, bridge, transfer, mcp, killFailed, rejected,
                   ending, due, audit>>

\* The answer has been sent.  The connection is kept alive, and the next
\* request may follow on it at once, whether or not the server still listens.
RequestAnswered ==
    /\ Turn /\ request = "handling"
    /\ request' \in {"none", "incoming"}
    /\ UNCHANGED <<stage, starting, bridge, transfer, mcp, session, killFailed, rejected,
                   ending, due, audit>>

\* The client goes away; a handler that runs is closed by res.on("close").
RequestDropped ==
    /\ Turn /\ request # "none"
    /\ request' = "none"
    /\ UNCHANGED <<stage, starting, bridge, transfer, mcp, session, killFailed, rejected,
                   ending, due, audit>>

\* A tool call over stdio opens a session.
StdioCall ==
    /\ Turn /\ stage = "serving" /\ ~httpMode /\ ~session
    /\ session' = TRUE
    /\ UNCHANGED <<stage, starting, bridge, transfer, mcp, request, killFailed, rejected,
                   ending, due, audit>>

\* A tool, the sweep or the exit of ssh ends the session.
SessionEnds ==
    /\ Turn /\ session
    /\ session' = FALSE
    /\ UNCHANGED <<stage, starting, bridge, transfer, mcp, request, killFailed, rejected,
                   ending, due, audit>>

\* Between the listen and bridge_listening, and while a failed start is undone,
\* no event of the network is handled.
BridgeAccepts == bridge = "listening" /\ stage \notin {"recording", "undoing"}

\* An unauthenticated connection is rejected while the bridge listens.
ConnectionRejected ==
    /\ Turn /\ BridgeAccepts
    /\ \/ Room(1) /\ RecordDetailed /\ due' = 1
       \/ Room(1) /\ RecordSuppressed /\ due' = IF suppressedCount = 0 THEN 1 ELSE 0
       \/ Room(2) /\ RecordInNewWindow /\ due' = IF suppressedCount > 0 THEN 2 ELSE 1
    /\ UNCHANGED <<stage, starting, serving, ending, accountingVars>>

SummaryDue ==
    /\ Turn
    /\ SummaryTimer
    /\ due' = IF suppressedCount > 0 THEN 1 ELSE 0
    /\ UNCHANGED <<stage, starting, serving, ending, accountingVars>>

-----------------------------------------------------------------------------
(* Closing *)

FirstStep == IF httpMode THEN "stoppingHttp" ELSE "closingServer"

\* Before registerSignalCleanup, and for a signal that already had its one
\* listener, the default action ends the process at once.
Signal(g) ==
    /\ Turn
    /\ IF stage \in Starting \/ aborted \/ g \in signalled
       THEN stage' = "killed" /\ UNCHANGED signalled
       ELSE /\ signalled' = signalled \union {g}
            /\ stage' = IF stage = "serving" THEN FirstStep ELSE stage
    /\ UNCHANGED <<starting, serving, aborted, due, audit>>

StdinEnds ==
    /\ Turn /\ stage = "serving" /\ ~httpMode
    /\ stage' = "closingServer"
    /\ UNCHANGED <<starting, serving, ending, due, audit>>

\* httpServer.close(): the request closers run first and end what is being
\* handled without an answer; then no new connection is accepted.  A request
\* whose body has not arrived has no closer and stays.
StopHttp ==
    /\ Turn /\ stage = "stoppingHttp"
    /\ mcp' = "stopping"
    /\ request' \in IF request = "handling" THEN {"none", "incoming"} ELSE {request}
    /\ stage' = "awaitingHttp"
    /\ UNCHANGED <<starting, bridge, transfer, session, killFailed, rejected,
                   ending, due, audit>>

\* Every connection has ended.
HttpStopped ==
    /\ Turn /\ stage = "awaitingHttp" /\ request = "none"
    /\ mcp' = "closed"
    /\ stage' = "closingServer"
    /\ UNCHANGED <<starting, bridge, transfer, request, session, killFailed, rejected,
                   ending, due, audit>>

\* closeHttpServer rejects without having waited: the runtime closes anyway.
HttpStopRejects ==
    /\ Turn /\ stage = "awaitingHttp"
    /\ rejected' = rejected \union {"mcp"}
    /\ stage' = "closingServer"
    /\ UNCHANGED <<starting, bridge, transfer, mcp, request, session, killFailed,
                   ending, due, audit>>

\* Mutant: an error of server.close() ends the cleanup.
ServerCloseErrorIsThrown ==
    /\ Turn /\ stage = "closingServer"
    /\ stage' \in {"drainingSessions", IF aborted THEN "failed" ELSE "exited"}
    /\ UNCHANGED <<starting, serving, ending, due, audit>>

\* server.close(): an error is kept, and the next step follows regardless.
ServerCloses ==
    /\ Turn /\ stage = "closingServer"
    /\ stage' = "drainingSessions"
    /\ UNCHANGED <<starting, serving, ending, due, audit>>

\* closeAllAndDrain(): it resolves although a kill threw.
SessionsDrained(kills) ==
    /\ Turn /\ stage = "drainingSessions"
    /\ session' = (session /\ ~kills)
    /\ killFailed' = (killFailed \/ (session /\ ~kills))
    /\ stage' = "closingBridge"
    /\ UNCHANGED <<starting, bridge, transfer, mcp, request, rejected, ending, due, audit>>

\* bridge.close(): the WebSockets have closed, or were terminated after 250 ms,
\* and httpServer.close() accepts no connection; an upload or a download may
\* have one open.
BridgeStops ==
    /\ Turn /\ stage = "closingBridge"
    /\ bridge' = "stopping"
    /\ transfer' \in BOOLEAN
    /\ stage' = "awaitingBridge"
    /\ UNCHANGED <<starting, mcp, request, session, killFailed, rejected,
                   ending, due, audit>>

TransferEnds ==
    /\ Turn /\ transfer
    /\ transfer' = FALSE
    /\ UNCHANGED <<stage, starting, bridge, mcp, request, session, killFailed, rejected,
                   ending, due, audit>>

\* Its connections have ended; runtime_closed is written.
BridgeCloses ==
    /\ Turn /\ stage = "awaitingBridge" /\ ~transfer
    /\ bridge' = "closed"
    /\ due' = 1
    /\ stage' = "flushing"
    /\ UNCHANGED <<starting, transfer, mcp, request, session, killFailed, rejected,
                   ending, audit>>

\* bridge.close() rejects, with the error of wss.close or httpServer.close: it
\* is kept, and runtime_closed is written all the same.
BridgeCloseRejects ==
    /\ Turn /\ stage \in {"closingBridge", "awaitingBridge"}
    /\ rejected' = rejected \union {"bridge"}
    /\ due' = 1
    /\ stage' = "flushing"
    /\ UNCHANGED <<starting, bridge, transfer, mcp, request, session, killFailed,
                   ending, audit>>

\* audit.flush(), and process.exit.
Flushed ==
    /\ Turn /\ stage = "flushing"
    /\ stage' = IF aborted THEN "failed" ELSE "exited"
    /\ UNCHANGED <<starting, serving, ending, due, audit>>

-----------------------------------------------------------------------------

Tick ==
    /\ Turn
    /\ waited' = IF stage \in {"binding", "retrying"} /\ waited < BindWindow THEN waited + 1
                 ELSE waited
    /\ retryTimer' = IF retryTimer \in Nat \ {0} THEN retryTimer - 1 ELSE retryTimer
    /\ LimiterTick
    /\ UNCHANGED <<stage, httpMode, portHeld, serving, ending, due, accountingVars>>

StartStep ==
    \/ BridgeListens \/ BindRetried \/ RetryTimer \/ BindFails
    \/ StartRecorded \/ StartNotRecorded \/ StartUndone
    \/ HttpListens \/ HttpFails

CloseStep ==
    \/ StopHttp \/ HttpStopped
    \/ ServerCloses
    \/ \E kills \in BOOLEAN : SessionsDrained(kills)
    \/ BridgeStops \/ BridgeCloses
    \/ Flushed

CloseRejects == HttpStopRejects \/ BridgeCloseRejects

ClientStep ==
    \/ RequestArrives
    \/ \E opens \in BOOLEAN : BodyArrives(opens)
    \/ RequestAnswered \/ RequestDropped
    \/ TransferEnds
    \/ StdioCall

Next ==
    \/ StartStep
    \/ PortReleased
    \/ ClientStep
    \/ SessionEnds
    \/ ConnectionRejected
    \/ SummaryDue
    \/ \E g \in Signals : Signal(g)
    \/ StdinEnds
    \/ CloseStep
    \/ CloseRejects
    \/ WriteRecord
    \/ Tick

Spec == Init /\ [][Next]_vars

\* The event loop turns and the clock advances: each awaited step settles once
\* what it waits for has happened, a timer fires, a handler makes its writes,
\* and a tool that runs has a time limit.  Nothing is assumed of the
\* predecessor that holds the port, of signals, or of clients: none has to
\* finish what it sends, and no close() has to reject.
Fairness ==
    /\ WF_vars(StartStep)
    /\ WF_vars(CloseStep)
    /\ WF_vars(WriteRecord)
    /\ WF_vars(SummaryDue)
    /\ WF_vars(Tick)
    /\ WF_vars(RequestAnswered)

FairSpec == Spec /\ Fairness

-----------------------------------------------------------------------------
(* Properties *)

\* However the process ends by its own decision, whichever step of startup or
\* cleanup fails, and though requests that close() knows nothing of open
\* sessions while it waits: a server is left only if its close() rejected, and
\* a session only if its kill threw or the HTTP server was left to serve it.
NothingLeftBehind ==
    stage \in {"exited", "failed"} =>
        /\ bridge \in {"none", "closed"} \/ "bridge" \in rejected
        /\ mcp \in {"none", "closed"} \/ "mcp" \in rejected
        /\ session => killFailed \/ "mcp" \in rejected

\* A client holds the close: it never completes the request on its connection,
\* or follows each with another, or keeps a transfer of the bridge open.
HeldByClient ==
    \/ [](stage = "awaitingHttp") /\ []<>(request = "incoming")
    \/ [](stage = "awaitingBridge" /\ transfer)


\* Suppressed rejections are counted by a summary even if nothing is ever
\* rejected again, unless the process ends before.
SuppressionIsSummarised == unreported > 0 ~> unreported = 0 \/ stage \in Ended
=============================================================================
