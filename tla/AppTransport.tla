---------------------------- MODULE AppTransport ----------------------------
(***************************************************************************)
(* How the terminal view (src/app/mcp-app.ts) carries input to its session:*)
(* over a WebSocket that is opened again when it drops, or over app tools  *)
(* when no socket comes up.  Input typed meanwhile is kept.                *)
(*                                                                         *)
(* A function is cut where it awaits, and every timer and socket event is  *)
(* an action.  Callbacks keep the generation they were made for, so that   *)
(* those of an earlier session still run after the next one has started.   *)
(***************************************************************************)
EXTENDS Naturals, FiniteSets, Sequences, Functions

CONSTANTS
    MaxGenerations,  \* bound on the sessions shown one after the other
    Sockets,         \* WebSocket objects that exist at one time
    NoSocket,
    MaxInputs,       \* bound on the inputs typed into one session
    MaxPending,      \* MAX_PENDING_INPUT_BYTES, in inputs
    MaxChunks,       \* what a fallback queue holds, in inputs
    MaxCombined,     \* what one write_connexin_input call takes, in inputs
    RetryLimit       \* failed reconnects before the app tools take over

ASSUME TransportAssumption ==
    /\ MaxGenerations \in Nat \ {0}
    /\ NoSocket \notin Sockets
    /\ {MaxInputs, MaxPending, MaxChunks, MaxCombined, RetryLimit} \subseteq Nat \ {0}

Generations == 1..MaxGenerations
NoTimer == 0

VARIABLES
    activeGeneration,
    session,           \* whether session is set
    loading,           \* connectTerminal calls that await loadGhosttyRuntime
    socket,            \* the sockets, with the binding their listeners hold
    socketBinding,     \* ws and socketBinding
    fallbackTimer,     \* the socket whose startFallback it will run
    reconnectTimer,    \* the generation whose connectTerminal it will run
    reconnectAttempts,
    appToolTransport,
    fallback,          \* the startAppToolTransport call of each generation
    pendingInput,
    queue,             \* fallbackInputQueue
    typed, sent,       \* history: inputs typed, and handed to a transport
    refused, lost,     \* history: inputs dropped with and without a message
    overtook,          \* history: inputs queued while older ones were pending
    swallowed          \* history: a reconnect left to another session's timer

transport == <<socket, socketBinding, fallbackTimer, appToolTransport, fallback, queue>>
timers == <<reconnectTimer, reconnectAttempts>>
history == <<typed, sent, refused, lost, overtook, swallowed>>
vars == <<activeGeneration, session, loading, timers, transport, pendingInput, history>>

Socket == [state : {"connecting", "open", "closing", "closed"},
           generation : Generations,
           ready : BOOLEAN]

\* by says who handles a failure of the call.
Fallback == [stage : {"none", "attaching", "polling", "on", "failed"},
             by : {"connect", "reconnect", "detached"}]

NoFallback == [stage |-> "none", by |-> "detached"]
NoQueue == [inFlight |-> 0, waiting |-> <<>>]

Init ==
    /\ activeGeneration = 1
    /\ session = FALSE
    /\ loading = {}
    /\ socket = [s \in Sockets |-> [state |-> "closed", generation |-> 1, ready |-> FALSE]]
    /\ socketBinding = NoSocket
    /\ fallbackTimer = NoSocket
    /\ reconnectTimer = NoTimer
    /\ reconnectAttempts = 0
    /\ appToolTransport = FALSE
    /\ fallback = [g \in Generations |-> NoFallback]
    /\ pendingInput = <<>>
    /\ queue = NoQueue
    /\ typed = 0 /\ sent = <<>>
    /\ refused = {} /\ lost = {} /\ overtook = {}
    /\ swallowed = FALSE

IsCurrentGeneration(g) == g = activeGeneration /\ session

IsCurrentSocketBinding(s) == socketBinding = s /\ IsCurrentGeneration(socket[s].generation)

-----------------------------------------------------------------------------
(* Input *)

\* The chunks no call has been made for.  Those of the call in flight, which
\* queue.chunks holds before them until it returns, are the last ones of sent.
Waiting == Range(queue.waiting)

\* enqueueFallbackInput for each of inputs, in order: as many as the queue has
\* room for go in, and the first chunk of an idle queue is sent at once.
EnqueueAll(inputs) ==
    LET room == MaxChunks - (queue.inFlight + Len(queue.waiting))
        fits == IF Len(inputs) < room THEN Len(inputs) ELSE room
        first == IF queue.inFlight = 0 /\ fits > 0 THEN 1 ELSE 0
    IN /\ queue' = [inFlight |-> queue.inFlight + first,
                    waiting |-> queue.waiting \o SubSeq(inputs, first + 1, fits)]
       /\ sent' = sent \o SubSeq(inputs, 1, first)
       /\ refused' = refused \union Range(SubSeq(inputs, fits + 1, Len(inputs)))

\* sendTerminalInput of the next input.
SendTerminalInput ==
    /\ session
    /\ typed < MaxInputs
    /\ typed' = typed + 1
    /\ \/ /\ appToolTransport
          /\ EnqueueAll(<<typed + 1>>)
          /\ overtook' = IF pendingInput # <<>> THEN overtook \union {typed + 1} ELSE overtook
          /\ UNCHANGED pendingInput
       \/ /\ ~appToolTransport
          /\ IF socketBinding # NoSocket /\ socket[socketBinding].ready
                /\ IsCurrentSocketBinding(socketBinding) /\ socket[socketBinding].state = "open"
             THEN sent' = Append(sent, typed + 1) /\ UNCHANGED <<pendingInput, refused>>
             ELSE IF Len(pendingInput) >= MaxPending
             THEN refused' = refused \union {typed + 1} /\ UNCHANGED <<pendingInput, sent>>
             ELSE pendingInput' = Append(pendingInput, typed + 1) /\ UNCHANGED <<sent, refused>>
          /\ UNCHANGED <<queue, overtook>>
    /\ UNCHANGED <<activeGeneration, session, loading, timers, lost, swallowed, socket,
                   socketBinding, fallbackTimer, appToolTransport, fallback>>

\* Mutant: a failed call is retried.
WriteFailsAndRetries ==
    /\ queue.inFlight > 0
    /\ Len(sent) < 2 * MaxInputs
    /\ sent' = sent \o SubSeq(sent, Len(sent) + 1 - queue.inFlight, Len(sent))
    /\ UNCHANGED <<activeGeneration, session, loading, timers, transport, pendingInput,
                   typed, refused, lost, overtook, swallowed>>

\* write_connexin_input returns an error: drainFallbackInputQueue reports it and
\* drops the queue.
WriteFails ==
    /\ queue.inFlight > 0
    /\ refused' = refused \union Waiting
    /\ queue' = NoQueue
    /\ UNCHANGED <<activeGeneration, session, loading, timers, socket, socketBinding,
                   fallbackTimer, appToolTransport, fallback, pendingInput, typed, sent,
                   lost, overtook, swallowed>>

\* write_connexin_input succeeds: the next chunks go out together.
WriteSucceeds ==
    /\ queue.inFlight > 0
    /\ LET rest == queue.waiting
           next == IF Len(rest) < MaxCombined THEN Len(rest) ELSE MaxCombined
       IN /\ queue' = [inFlight |-> next, waiting |-> SubSeq(rest, next + 1, Len(rest))]
          /\ sent' = sent \o SubSeq(rest, 1, next)
    /\ UNCHANGED <<activeGeneration, session, loading, timers, socket, socketBinding,
                   fallbackTimer, appToolTransport, fallback, pendingInput, typed, refused,
                   lost, overtook, swallowed>>

-----------------------------------------------------------------------------
(* Effects several handlers share *)

Close(s) == IF s = NoSocket THEN socket
            ELSE [socket EXCEPT ![s].state = IF @ = "closed" THEN @ ELSE "closing"]

\* Mutant: the socket is forgotten without being closed.
DisposeWithoutClose(retained, calls) ==
    /\ socketBinding' = NoSocket
    /\ fallbackTimer' = NoSocket
    /\ appToolTransport' = FALSE
    /\ fallback' = [calls EXCEPT ![activeGeneration].stage = IF @ = "on" THEN "none" ELSE @]
    /\ pendingInput' = retained
    /\ queue' = NoQueue
    /\ UNCHANGED socket

\* disposeTerminal.  reconnectTimer is not among what it clears.
DisposeTerminal(retained, calls) ==
    /\ socket' = Close(socketBinding)
    /\ socketBinding' = NoSocket
    /\ fallbackTimer' = NoSocket
    /\ appToolTransport' = FALSE
    /\ fallback' = [calls EXCEPT ![activeGeneration].stage = IF @ = "on" THEN "none" ELSE @]
    /\ pendingInput' = retained
    /\ queue' = NoQueue

\* connectTerminal up to its await.
ConnectTerminal(first) ==
    /\ DisposeTerminal(pendingInput, fallback)
    /\ lost' = lost \union Waiting
    /\ loading' = loading \union {[generation |-> activeGeneration, first |-> first]}
    /\ UNCHANGED <<typed, sent, refused, overtook, swallowed>>

\* The session is shown no longer, and what was typed into it is over.
EndSession(calls) ==
    /\ DisposeTerminal(<<>>, calls)
    /\ session' = FALSE
    /\ typed' = 0 /\ sent' = <<>>
    /\ refused' = {} /\ lost' = {} /\ overtook' = {}
    /\ swallowed' = FALSE

\* startAppToolTransport up to its first await.
StartAppToolTransport(by, sockets) ==
    /\ appToolTransport' = TRUE
    /\ socket' = sockets
    /\ socketBinding' = NoSocket
    /\ fallbackTimer' = NoSocket
    /\ reconnectTimer' = NoTimer
    /\ queue' = NoQueue
    /\ lost' = lost \union Waiting
    /\ fallback' = [fallback EXCEPT ![activeGeneration] = [stage |-> "attaching", by |-> by]]
    /\ UNCHANGED <<reconnectAttempts, pendingInput, typed, sent, refused, overtook, swallowed>>

\* scheduleTerminalReconnect: nothing when a timer is set, whoever set it.
ScheduleTerminalReconnect(g) ==
    IF reconnectTimer # NoTimer
    THEN /\ swallowed' = (swallowed \/ reconnectTimer # g)
         /\ UNCHANGED timers
    ELSE /\ reconnectTimer' = g
         /\ reconnectAttempts' = IF reconnectAttempts = RetryLimit THEN RetryLimit
                               ELSE reconnectAttempts + 1
         /\ UNCHANGED swallowed

-----------------------------------------------------------------------------
(* Connecting *)

\* connectTerminal rejects.  The first one ends in connectPendingSession, the
\* others in the callback of reconnectTimer.
ConnectFails(g, first, calls) ==
    \/ /\ ~IsCurrentGeneration(g)
       /\ fallback' = calls
       /\ UNCHANGED <<session, timers, socket, socketBinding, fallbackTimer,
                      appToolTransport, queue, pendingInput, history>>
    \/ /\ IsCurrentGeneration(g) /\ first
       /\ EndSession(calls)
       /\ UNCHANGED timers
    \/ /\ IsCurrentGeneration(g) /\ ~first /\ reconnectAttempts = RetryLimit
       /\ StartAppToolTransport("detached", socket)
       /\ UNCHANGED session
    \/ /\ IsCurrentGeneration(g) /\ ~first /\ reconnectAttempts < RetryLimit
       /\ ScheduleTerminalReconnect(g)
       /\ fallback' = calls
       /\ UNCHANGED <<session, socket, socketBinding, fallbackTimer, appToolTransport,
                      queue, pendingInput, typed, sent, refused, lost, overtook>>

\* connectPendingSession sets session and calls connectTerminal.
ConnectPendingSession ==
    /\ ~session
    /\ [generation |-> activeGeneration, first |-> TRUE] \notin loading
    /\ session' = TRUE
    /\ ConnectTerminal(TRUE)
    /\ UNCHANGED <<activeGeneration, timers>>

\* loadGhosttyRuntime, or creating the terminal, fails.
LoadFails(call) ==
    /\ loading' = loading \ {call}
    /\ ConnectFails(call.generation, call.first, fallback)
    /\ UNCHANGED activeGeneration

\* The rest of connectTerminal, with the socket it opens.
LoadSucceeds(call) ==
    /\ loading' = loading \ {call}
    /\ \/ /\ ~IsCurrentGeneration(call.generation)
          /\ UNCHANGED <<timers, transport, pendingInput, history>>
       \/ /\ IsCurrentGeneration(call.generation)
          /\ \E s \in Sockets :
                /\ socket[s].state = "closed"
                /\ socket' = [socket EXCEPT ![s] = [state |-> "connecting", ready |-> FALSE,
                                                    generation |-> call.generation]]
                /\ socketBinding' = s
                /\ fallbackTimer' = s
          /\ UNCHANGED <<timers, appToolTransport, fallback, queue, pendingInput, history>>
       \/ \* The WebSocket constructor throws.
          /\ IsCurrentGeneration(call.generation)
          /\ StartAppToolTransport(IF call.first THEN "connect" ELSE "reconnect", socket)
    /\ UNCHANGED <<activeGeneration, session>>

\* The callback of reconnectTimer.
ReconnectTimer ==
    /\ reconnectTimer # NoTimer
    /\ reconnectTimer' = NoTimer
    /\ IF IsCurrentGeneration(reconnectTimer)
       THEN ConnectTerminal(FALSE)
       ELSE UNCHANGED <<loading, transport, pendingInput, history>>
    /\ UNCHANGED <<activeGeneration, session, reconnectAttempts>>

\* cleanup: the session is closed or replaced by the next one.
Cleanup ==
    /\ session
    /\ activeGeneration < MaxGenerations
    /\ activeGeneration' = activeGeneration + 1
    /\ reconnectAttempts' = 0
    /\ EndSession(fallback)
    /\ UNCHANGED <<loading, reconnectTimer>>

-----------------------------------------------------------------------------
(* Events of a socket *)

StartFallback(s) == StartAppToolTransport("detached", Close(s))

SocketOpens(s) ==
    /\ socket[s].state = "connecting"
    /\ socket' = [socket EXCEPT ![s].state = "open"]
    /\ UNCHANGED <<activeGeneration, session, loading, timers, socketBinding, fallbackTimer,
                   appToolTransport, fallback, queue, pendingInput, history>>

\* Mutant: what was typed before the socket was ready stays behind.
SocketReadyWithoutFlush(s) ==
    /\ socket[s].state = "open" /\ ~socket[s].ready
    /\ IsCurrentSocketBinding(s)
    /\ socket' = [socket EXCEPT ![s].ready = TRUE]
    /\ reconnectAttempts' = 0
    /\ fallbackTimer' = NoSocket
    /\ UNCHANGED <<activeGeneration, session, loading, reconnectTimer, socketBinding,
                   appToolTransport, fallback, queue, pendingInput, history>>

\* The bridge answers "ready" to the authentication: pendingInput is flushed.
SocketReady(s) ==
    /\ socket[s].state = "open" /\ ~socket[s].ready
    /\ IsCurrentSocketBinding(s)
    /\ socket' = [socket EXCEPT ![s].ready = TRUE]
    /\ sent' = sent \o pendingInput
    /\ pendingInput' = <<>>
    /\ reconnectAttempts' = 0
    /\ fallbackTimer' = NoSocket
    /\ UNCHANGED <<activeGeneration, session, loading, reconnectTimer, socketBinding,
                   appToolTransport, fallback, queue, typed, refused, lost, overtook, swallowed>>

\* The other side closes: readyState is CLOSING until the close event.
SocketCloses(s) ==
    /\ socket[s].state = "open"
    /\ socket' = [socket EXCEPT ![s].state = "closing"]
    /\ UNCHANGED <<activeGeneration, session, loading, timers, socketBinding, fallbackTimer,
                   appToolTransport, fallback, queue, pendingInput, history>>

\* The close event, with the error event that precedes it when the connection
\* failed.  The error listener resets ready, so the close listener of a
\* failed socket starts the fallback even if the socket had been ready.
SocketClosed(s, failed) ==
    /\ socket[s].state # "closed"
    /\ LET wasReady == socket[s].ready /\ ~failed
           closed == [socket EXCEPT ![s] = [state |-> "closed", ready |-> FALSE,
                                           generation |-> @.generation]]
       IN \/ /\ ~IsCurrentSocketBinding(s)
             /\ socket' = closed
             /\ UNCHANGED <<timers, socketBinding, fallbackTimer, appToolTransport, fallback,
                            queue, pendingInput, history>>
          \/ /\ IsCurrentSocketBinding(s) /\ ~wasReady
             /\ StartAppToolTransport("detached", closed)
          \/ /\ IsCurrentSocketBinding(s) /\ wasReady
             /\ socket' = closed
             /\ fallbackTimer' = NoSocket
             /\ ScheduleTerminalReconnect(socket[s].generation)
             /\ UNCHANGED <<socketBinding, appToolTransport, fallback, queue, pendingInput,
                            typed, sent, refused, lost, overtook>>
    /\ UNCHANGED <<activeGeneration, session, loading>>

\* Mutant: a socket that does not come up is given up only when it closes.
FallbackTimerOnlyClears ==
    /\ fallbackTimer # NoSocket
    /\ fallbackTimer' = NoSocket
    /\ UNCHANGED <<activeGeneration, session, loading, timers, socket, socketBinding,
                   appToolTransport, fallback, queue, pendingInput, history>>

\* startFallback, FALLBACK_CONNECT_TIMEOUT_MS after the socket was opened.
FallbackTimer ==
    /\ fallbackTimer # NoSocket
    /\ IF ~socket[fallbackTimer].ready /\ IsCurrentSocketBinding(fallbackTimer)
       THEN StartFallback(fallbackTimer)
       ELSE /\ fallbackTimer' = NoSocket
            /\ UNCHANGED <<timers, socket, socketBinding, appToolTransport, fallback, queue,
                           pendingInput, history>>
    /\ UNCHANGED <<activeGeneration, session, loading>>

-----------------------------------------------------------------------------
(* The app tools *)

\* get_connexin_session answers: pendingInput is flushed, and a poll is sent.
\* The server answers with the session it was asked for, so the return for an
\* answer about another one is never taken.
Attached(g) ==
    /\ fallback[g].stage = "attaching"
    /\ IF IsCurrentGeneration(g)
       THEN /\ fallback' = [fallback EXCEPT ![g].stage = "polling"]
            /\ EnqueueAll(pendingInput)
            /\ pendingInput' = <<>>
       ELSE /\ fallback' = [fallback EXCEPT ![g] = NoFallback]
            /\ UNCHANGED <<queue, sent, refused, pendingInput>>
    /\ UNCHANGED <<activeGeneration, session, loading, timers, socket, socketBinding,
                   fallbackTimer, appToolTransport, typed, lost, overtook, swallowed>>

\* The first poll answers: pollTimer repeats it.
Polled(g) ==
    /\ fallback[g].stage = "polling"
    /\ fallback' = [fallback EXCEPT ![g].stage = IF IsCurrentGeneration(g) THEN "on" ELSE "none"]
    /\ UNCHANGED <<activeGeneration, session, loading, timers, socket, socketBinding,
                   fallbackTimer, appToolTransport, queue, pendingInput, history>>

\* get_connexin_session or the first poll fails.  handleConnectFailure of a
\* detached call reports it and leaves the rest as it is.
AttachFails(g) ==
    /\ fallback[g].stage \in {"attaching", "polling"}
    /\ IF fallback[g].by = "detached"
       THEN /\ fallback' = [fallback EXCEPT ![g].stage =
                               IF IsCurrentGeneration(g) THEN "failed" ELSE "none"]
            /\ UNCHANGED <<session, timers, socket, socketBinding, fallbackTimer,
                           appToolTransport, queue, pendingInput, history>>
       ELSE ConnectFails(g, fallback[g].by = "connect", [fallback EXCEPT ![g] = NoFallback])
    /\ UNCHANGED <<activeGeneration, loading>>

-----------------------------------------------------------------------------
Next ==
    \/ SendTerminalInput
    \/ WriteFails
    \/ WriteSucceeds
    \/ ConnectPendingSession
    \/ \E call \in loading : LoadFails(call) \/ LoadSucceeds(call)
    \/ ReconnectTimer
    \/ Cleanup
    \/ \E s \in Sockets :
          \/ SocketOpens(s)
          \/ SocketReady(s)
          \/ SocketCloses(s)
          \/ \E failed \in BOOLEAN : SocketClosed(s, failed)
    \/ FallbackTimer
    \/ \E g \in Generations : Attached(g) \/ Polled(g) \/ AttachFails(g)

Spec == Init /\ [][Next]_vars

\* Timers fire, awaited calls return, and a socket that is closing is closed
\* in the end.  Nothing is assumed of the user, and no connection has to
\* succeed.
FairSpec ==
    /\ Spec
    /\ WF_vars(\E call \in loading : LoadFails(call) \/ LoadSucceeds(call))
    /\ WF_vars(ReconnectTimer)
    /\ WF_vars(FallbackTimer)
    /\ \A s \in Sockets :
          WF_vars(socket[s].state = "closing" /\ \E failed \in BOOLEAN : SocketClosed(s, failed))
    /\ \A g \in Generations : WF_vars(Attached(g) \/ Polled(g) \/ AttachFails(g))

-----------------------------------------------------------------------------
(* Properties *)

TypeOK ==
    /\ activeGeneration \in Generations
    /\ loading \subseteq [generation : Generations, first : BOOLEAN]
    /\ socket \in [Sockets -> Socket]
    /\ reconnectTimer \in Generations \union {NoTimer}
    /\ reconnectAttempts \in 0..RetryLimit
    /\ fallback \in [Generations -> Fallback]
    /\ queue.inFlight \in Nat

\* At most one transport carries input: no socket, timer or loading terminal
\* of the session beside the app tools, no socket open that is not the bound
\* one, nothing bound or polled for an earlier session.
SingleTransport ==
    /\ TypeOK
    /\ appToolTransport => /\ session
                           /\ socketBinding = NoSocket
                           /\ \A call \in loading : ~IsCurrentGeneration(call.generation)
    /\ queue # NoQueue => appToolTransport
    /\ fallbackTimer \in {NoSocket, socketBinding}
    /\ \A s \in Sockets :
          socket[s].state \in {"connecting", "open"} => IsCurrentSocketBinding(s)
    /\ socketBinding # NoSocket => IsCurrentSocketBinding(socketBinding)
    /\ \A g \in Generations \ {activeGeneration} : fallback[g].stage # "on"

InputTyped == 1..typed

\* Every input of the session is handed to a transport once or kept for one,
\* unless a message told the user that it was refused.  Only a reconnect
\* after a failed attach drops input without a message.
InputAccounted ==
    /\ IsInjective(sent)
    /\ LET kept == Range(pendingInput) \union Waiting
       IN /\ InputTyped = Range(sent) \union kept \union refused \union lost
          /\ kept \intersect (Range(sent) \union refused \union lost) = {}
          /\ Range(sent) \intersect (refused \union lost) = {}

\* Older input is overtaken only by input typed while the app tools attach.
OrderKeptOutsideHandoff ==
    \A i, j \in DOMAIN sent : i < j /\ sent[i] > sent[j] => sent[i] \in overtook

\* "preserves FIFO input order across WebSocket fallback handoff": input
\* reaches a transport in the order it was typed in.
InputOrderKept == \A i, j \in DOMAIN sent : i < j => sent[i] < sent[j]

Connected ==
    \/ socketBinding # NoSocket /\ socket[socketBinding].ready
    \/ fallback[activeGeneration].stage = "on"

ReportedFailure == fallback[activeGeneration].stage = "failed"

\* Whatever drops, a session is connected again, or the user has been told
\* that the app tools were refused, except when the reconnect was left to
\* the timer of an earlier session.
ViewComesBack == session ~> Connected \/ ReportedFailure \/ ~session \/ swallowed

\* "reconnects the WebSocket after an authenticated connection closes", or
\* falls back to the app tools: no session waits for ever.
ViewReconnects == session ~> Connected \/ ReportedFailure \/ ~session
=============================================================================
