----------------------------- MODULE AppSessions -----------------------------
(***************************************************************************)
(* Which session the terminal view (src/app/mcp-app.ts) shows: tool        *)
(* results arrive faster than they can be handled, the sessions they bring *)
(* replace each other, and calls made for an earlier one return late.      *)
(* The socket is reduced to what closing and confirming look at;           *)
(* AppTransport has the rest of it.                                        *)
(*                                                                         *)
(* Tool result i brings session i.  Handlers are cut where they await; an  *)
(* await of a resolved promise lets no event in and is no cut.             *)
(***************************************************************************)
EXTENDS Naturals, FiniteSets, Sequences

CONSTANTS
    MaxResults,  \* bound on the tool results of one behaviour
    MaxCloses,   \* bound on the clicks on Close
    MaxSends     \* bound on the outputs the user confirms

ASSUME SessionsAssumption == {MaxResults, MaxCloses, MaxSends} \subseteq Nat

Results == 1..MaxResults
NoSession == 0
NoGeneration == 0

VARIABLES
    results,              \* the tool results received so far
    handled,              \* how many of them toolResultQueue is done with
    handling,             \* what handleToolResult awaits
    activeGeneration,
    sessionCapability,
    session,
    connecting, connectingGeneration,
    connectionFailed,     \* shows the Reconnect button
    calls,                \* connectPendingSession calls under way
    socket,               \* the socket of socketBinding
    send,                 \* the confirmSend under way
    closed,               \* history: sessions a close was sent for
    closes, sends,        \* history: clicks on Close, and confirmations
    rolledBack,           \* history: sessions whose terminal failed to start
    unrecorded, misrecorded  \* history: sessions of accepted outputs whose record
                             \* is missing, or went to another session

flags == <<connecting, connectingGeneration, connectionFailed>>
history == <<closed, closes, sends, rolledBack, unrecorded, misrecorded>>
vars == <<results, handled, handling, activeGeneration, sessionCapability, session, flags,
          calls, socket, send, history>>

Call == [generation : Nat, session : Results, stage : {"details", "terminal"}]
Send == [stage : {"none", "sending", "recording"}, generation : Nat,
         session : Results \union {NoSession}, sameSocket : BOOLEAN]

NoSend == [stage |-> "none", generation |-> 0, session |-> NoSession, sameSocket |-> FALSE]

Init ==
    /\ results = <<>> /\ handled = 0
    /\ handling = "idle"
    /\ activeGeneration = 0
    /\ sessionCapability = NoSession /\ session = NoSession
    /\ connecting = FALSE /\ connectingGeneration = NoGeneration /\ connectionFailed = FALSE
    /\ calls = {}
    /\ socket = "none"
    /\ send = NoSend
    /\ closed = {} /\ closes = 0 /\ sends = 0
    /\ rolledBack = {} /\ unrecorded = {} /\ misrecorded = {}

Received == Len(results)

-----------------------------------------------------------------------------
(* Connecting *)

\* The binding that send captured is gone.
Forgotten == [send EXCEPT !.sameSocket = FALSE]

\* connectPendingSession up to its await, for a session that has just become
\* current.
ConnectPendingSession(i, generation) ==
    /\ connecting' = TRUE
    /\ connectingGeneration' = generation
    /\ connectionFailed' = FALSE
    /\ IF results[i] = "details"
       THEN /\ session' = i
            /\ calls' = calls \union {[generation |-> generation, session |-> i, stage |-> "terminal"]}
       ELSE /\ session' = NoSession
            /\ calls' = calls \union {[generation |-> generation, session |-> i, stage |-> "details"]}

\* The Reconnect button, after a connection failed.
Reconnect ==
    /\ connectionFailed /\ ~connecting /\ session = NoSession
    /\ sessionCapability # NoSession
    /\ ConnectPendingSession(sessionCapability, activeGeneration)
    /\ UNCHANGED <<results, handled, handling, activeGeneration, sessionCapability, socket,
                   send, history>>

\* finally of connectPendingSession: only the call of the generation that is
\* connecting resets the flags.  The return there also drops the exception of
\* any other call.
Settled(call, failed) ==
    IF connectingGeneration = call.generation
    THEN /\ connecting' = FALSE
         /\ connectingGeneration' = NoGeneration
         /\ connectionFailed' = (connectionFailed \/ failed)
    ELSE UNCHANGED flags

IsCurrentCall(call) ==
    call.generation = activeGeneration /\ sessionCapability = call.session

\* Mutant: the details are taken for the current session's.
DetailsArriveUnchecked(call) ==
    /\ call.stage = "details"
    /\ calls' = (calls \ {call}) \union {[call EXCEPT !.stage = "terminal"]}
    /\ session' = call.session
    /\ UNCHANGED <<results, handled, handling, activeGeneration, sessionCapability, flags,
                   socket, send, history>>

\* get_connexin_session answers.
DetailsArrive(call) ==
    /\ call.stage = "details"
    /\ IF IsCurrentCall(call)
       THEN /\ calls' = (calls \ {call}) \union {[call EXCEPT !.stage = "terminal"]}
            /\ session' = call.session
            /\ UNCHANGED flags
       ELSE /\ calls' = calls \ {call}
            /\ Settled(call, FALSE)
            /\ UNCHANGED session
    /\ UNCHANGED <<results, handled, handling, activeGeneration, sessionCapability, socket,
                   send, history>>

\* get_connexin_session fails: handleConnectFailure if the call is current.
DetailsFail(call) ==
    /\ call.stage = "details"
    /\ calls' = calls \ {call}
    /\ Settled(call, IsCurrentCall(call))
    /\ UNCHANGED <<results, handled, handling, activeGeneration, sessionCapability, session,
                   socket, send, history>>

IsCurrentTerminal(call) == call.generation = activeGeneration /\ session = call.session

\* connectTerminal returns with a socket it has opened, if it still should.
TerminalOpens(call) ==
    /\ call.stage = "terminal"
    /\ calls' = calls \ {call}
    /\ Settled(call, FALSE)
    /\ socket' = IF IsCurrentTerminal(call) THEN "connecting" ELSE socket
    /\ UNCHANGED <<results, handled, handling, activeGeneration, sessionCapability, session,
                   send, history>>

\* connectTerminal throws: the session is rolled back.
TerminalFails(call) ==
    /\ call.stage = "terminal"
    /\ calls' = calls \ {call}
    /\ Settled(call, IsCurrentTerminal(call))
    /\ IF IsCurrentTerminal(call)
       THEN /\ session' = NoSession /\ socket' = "none" /\ send' = Forgotten
            /\ rolledBack' = rolledBack \union {call.session}
       ELSE UNCHANGED <<session, socket, send, rolledBack>>
    /\ UNCHANGED <<results, handled, handling, activeGeneration, sessionCapability, closed,
                   closes, sends, unrecorded, misrecorded>>

\* The socket becomes ready, its connection starts to close, or it is replaced
\* by a new one or by the app tools.
SocketChanges ==
    /\ \/ socket = "connecting" /\ socket' = "ready" /\ UNCHANGED send
       \/ socket = "ready" /\ socket' = "closing" /\ UNCHANGED send
       \/ socket = "closing" /\ socket' \in {"connecting", "none"} /\ send' = Forgotten
    /\ UNCHANGED <<results, handled, handling, activeGeneration, sessionCapability, session,
                   flags, calls, history>>

-----------------------------------------------------------------------------
(* Tool results *)

\* ontoolresult: only its place in the queue is taken at once.
ToolResult(kind) ==
    /\ Received < MaxResults
    /\ results' = Append(results, kind)
    /\ UNCHANGED <<handled, handling, activeGeneration, sessionCapability, session, flags,
                   calls, socket, send, history>>

\* The close message of cleanup reaches the bridge.
ClosesViaBridge == socket = "ready"

\* Mutant: a ready socket that is closing counts as having taken the message.
CloseSentIfReady ==
    IF socket = "closing" THEN closed ELSE closed \union ({sessionCapability} \ {NoSession})

\* The sessions a close was sent for, once cleanup(true) has sent its own over
\* the bridge or with close_connexin_session.
CloseSent == closed \union ({sessionCapability} \ {NoSession})

\* cleanup(true) up to its await.
Cleanup ==
    /\ connectionFailed' = FALSE
    /\ closed' = CloseSent
    /\ activeGeneration' = activeGeneration + 1
    /\ sessionCapability' = NoSession
    /\ session' = NoSession
    /\ socket' = "none"
    /\ send' = Forgotten

\* The end of handleToolResult for the newest result.
TakeOver(i) ==
    /\ handled' = i
    /\ handling' = "idle"
    /\ activeGeneration' = activeGeneration + 1
    /\ sessionCapability' = i
    /\ socket' = "none"
    /\ send' = Forgotten
    /\ ConnectPendingSession(i, activeGeneration + 1)

BringsSession(i) == results[i] \in {"capability", "details"}

\* Mutant: the rejection of one result breaks the chain of the queue.
HandleErrorResultOnly ==
    /\ handling = "idle" /\ handled < Received
    /\ results[handled + 1] = "error"
    /\ handled' = handled + 1
    /\ UNCHANGED <<results, handling, activeGeneration, sessionCapability, session, flags,
                   calls, socket, send, history>>

\* An error result only shows its text.  One without a capability throws, after
\* the flags have been reset.
HandleUselessResult ==
    /\ handling = "idle" /\ handled < Received
    /\ ~BringsSession(handled + 1)
    /\ handled' = handled + 1
    /\ IF results[handled + 1] = "error"
       THEN UNCHANGED <<connecting, connectingGeneration>>
       ELSE connecting' = FALSE /\ connectingGeneration' = NoGeneration
    /\ UNCHANGED <<results, handling, activeGeneration, sessionCapability, session,
                   connectionFailed, calls, socket, send, history>>

\* A newer result has arrived: this one's session is closed unused.
HandleStaleResult ==
    /\ handling = "idle" /\ handled + 1 < Received
    /\ BringsSession(handled + 1)
    /\ connecting' = FALSE /\ connectingGeneration' = NoGeneration
    /\ closed' = closed \union {handled + 1}
    /\ handling' = "closing"
    /\ UNCHANGED <<results, handled, activeGeneration, sessionCapability, session,
                   connectionFailed, calls, socket, send, closes, sends, rolledBack, unrecorded, misrecorded>>

\* The newest result: cleanup(true) of the session before it.
HandleNewestResult ==
    /\ handling = "idle" /\ handled + 1 = Received
    /\ BringsSession(handled + 1)
    /\ IF sessionCapability = NoSession \/ ClosesViaBridge
       THEN /\ TakeOver(handled + 1)
            /\ closed' = CloseSent
       ELSE /\ Cleanup
            /\ connecting' = FALSE /\ connectingGeneration' = NoGeneration
            /\ handling' = "cleaning"
            /\ UNCHANGED <<handled, calls>>
    /\ UNCHANGED <<results, closes, sends, rolledBack, unrecorded, misrecorded>>

\* cleanup returns: the close was answered, or REMOTE_CLOSE_TIMEOUT_MS passed.
Cleaned ==
    /\ handling = "cleaning"
    /\ IF handled + 1 = Received
       THEN TakeOver(handled + 1) /\ UNCHANGED closed
       ELSE /\ handling' = "closing"
            /\ closed' = closed \union {handled + 1}
            /\ UNCHANGED <<handled, activeGeneration, sessionCapability, session, flags, calls,
                           socket, send>>
    /\ UNCHANGED <<results, closes, sends, rolledBack, unrecorded, misrecorded>>

\* closeUnusedSession returns, within REMOTE_CLOSE_TIMEOUT_MS too.
ClosedUnused ==
    /\ handling = "closing"
    /\ handling' = "idle"
    /\ handled' = handled + 1
    /\ UNCHANGED <<results, activeGeneration, sessionCapability, session, flags, calls, socket,
                   send, history>>

\* The Close button, or the host's teardown.
CloseClicked ==
    /\ closes < MaxCloses
    /\ closes' = closes + 1
    /\ Cleanup
    /\ UNCHANGED <<results, handled, handling, connecting, connectingGeneration, calls, sends,
                   rolledBack, unrecorded, misrecorded>>

-----------------------------------------------------------------------------
(* Confirming output *)

IsCurrentSend ==
    /\ activeGeneration = send.generation
    /\ session = send.session
    /\ sessionCapability = send.session

\* confirmSend up to its await.
ConfirmSend ==
    /\ session # NoSession
    /\ send.stage = "none"
    /\ sends < MaxSends
    /\ sends' = sends + 1
    /\ send' = [stage |-> "sending", generation |-> activeGeneration, session |-> session,
                sameSocket |-> socket # "none"]
    /\ UNCHANGED <<results, handled, handling, activeGeneration, sessionCapability, session,
                   flags, calls, socket, closed, closes, rolledBack, unrecorded, misrecorded>>

\* app.sendMessage fails, or the host refuses the message.
SendFails ==
    /\ send.stage = "sending"
    /\ send' = NoSend
    /\ UNCHANGED <<results, handled, handling, activeGeneration, sessionCapability, session,
                   flags, calls, socket, history>>

\* Mutant: the record goes to whatever session is shown now.
SendSucceedsForAnySession ==
    /\ send.stage = "sending" /\ sessionCapability # NoSession
    /\ send' = IF socket = "ready" THEN NoSend ELSE [send EXCEPT !.stage = "recording"]
    /\ misrecorded' = IF sessionCapability = send.session THEN misrecorded
                      ELSE misrecorded \union {send.session}
    /\ UNCHANGED <<results, handled, handling, activeGeneration, sessionCapability, session,
                   flags, calls, socket, closed, closes, sends, rolledBack, unrecorded>>

\* The host takes the message: the confirmation is recorded over the captured
\* socket or with record_connexin_output_confirmed, if the send is current.
SendSucceeds ==
    /\ send.stage = "sending"
    /\ IF IsCurrentSend
       THEN /\ send' = IF send.sameSocket /\ socket = "ready" THEN NoSend
                       ELSE [send EXCEPT !.stage = "recording"]
            /\ misrecorded' = IF sessionCapability = send.session THEN misrecorded
                              ELSE misrecorded \union {send.session}
            /\ UNCHANGED unrecorded
       ELSE /\ send' = NoSend
            /\ unrecorded' = unrecorded \union {send.session}
            /\ UNCHANGED misrecorded
    /\ UNCHANGED <<results, handled, handling, activeGeneration, sessionCapability, session,
                   flags, calls, socket, closed, closes, sends, rolledBack>>

\* record_connexin_output_confirmed returns.
Recorded ==
    /\ send.stage = "recording"
    /\ send' = NoSend
    /\ UNCHANGED <<results, handled, handling, activeGeneration, sessionCapability, session,
                   flags, calls, socket, history>>

-----------------------------------------------------------------------------
Handle ==
    \/ HandleUselessResult
    \/ HandleStaleResult
    \/ HandleNewestResult
    \/ Cleaned
    \/ ClosedUnused

Next ==
    \/ \E kind \in {"capability", "details", "error", "malformed"} : ToolResult(kind)
    \/ Handle
    \/ CloseClicked
    \/ Reconnect
    \/ \E call \in calls :
          \/ DetailsArrive(call) \/ DetailsFail(call)
          \/ TerminalOpens(call) \/ TerminalFails(call)
    \/ SocketChanges
    \/ ConfirmSend \/ SendFails \/ SendSucceeds \/ Recorded

Spec == Init /\ [][Next]_vars

\* The queue goes on, since a remote close is given up after a second.  Calls
\* to the host need never return.
FairSpec == Spec /\ WF_vars(Handle)

-----------------------------------------------------------------------------
(* Properties *)

\* No session is left behind: one that a result has brought is waiting in the
\* queue, is the current one, or a close was sent for it.
NoSessionAbandoned ==
    \A i \in 1..handled :
        BringsSession(i) => i = sessionCapability \/ i \in closed

\* Whatever returns late, the session shown, the socket and the calls that set
\* them belong to the current capability and generation.
ShownSessionIsCurrent ==
    /\ session \in {NoSession, sessionCapability}
    /\ socket # "none" => session # NoSession
    /\ connecting => \E call \in calls : call.generation = connectingGeneration
    /\ calls \subseteq Call /\ send \in Send

\* An output the host took is recorded for the session it came from.  Only one
\* whose session was closed or rolled back meanwhile has no record.
ConfirmationBoundToSession ==
    /\ misrecorded = {}
    /\ unrecorded \subseteq closed \union rolledBack

\* The handling of results never stops, even if the host answers no close.
ResultsHandled == \A n \in Results : Received >= n ~> handled >= n
=============================================================================
