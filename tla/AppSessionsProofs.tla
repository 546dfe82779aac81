-------------------------- MODULE AppSessionsProofs --------------------------
(***************************************************************************)
(* No session is left behind by the queue of tool results, an output the   *)
(* user confirmed is recorded for the session it came from, and the        *)
(* session shown is the current one, for any number of results, clicks on  *)
(* Close and confirmations (AppSessions).                                  *)
(***************************************************************************)
EXTENDS AppSessions, TLAPS

Kinds == {"capability", "details", "error", "malformed"}

SessionsTyped ==
    /\ results \in Seq(Kinds)
    /\ handled \in Nat /\ handled <= Len(results)
    /\ sessionCapability \in Nat /\ sessionCapability <= handled

\* The result at the head of the queue while its handler awaits: the session
\* before it is gone already, or its own has been closed.
HeadOfQueue ==
    /\ handling \in {"idle", "cleaning", "closing"}
    /\ handling # "idle" => handled < Len(results)
    /\ handling = "cleaning" => sessionCapability = NoSession
    /\ handling = "closing" => handled + 1 \in closed

ShowsCurrent == session \in {NoSession, sessionCapability}

\* A confirmation under way is current until its session is closed or rolled
\* back.
SendExplained ==
    send.stage = "sending" =>
        /\ send.session # NoSession
        /\ IsCurrentSend \/ send.session \in closed \union rolledBack

-----------------------------------------------------------------------------
(* The queue *)

QueueInv == SessionsTyped /\ HeadOfQueue /\ NoSessionAbandoned

\* What the queue does not look at leaves its invariant alone.
LEMMA QueueIdle ==
    ASSUME QueueInv,
           UNCHANGED <<results, handled, handling, sessionCapability, closed>>
    PROVE  QueueInv'
BY DEF QueueInv, SessionsTyped, HeadOfQueue, NoSessionAbandoned, BringsSession

\* A new result does not change what the earlier ones brought.
LEMMA QueueGrows ==
    ASSUME QueueInv, NEW kind \in Kinds, ToolResult(kind)
    PROVE  QueueInv'
<1>1. /\ results' \in Seq(Kinds) /\ Len(results') = Len(results) + 1
      /\ \A i \in 1..Len(results) : results'[i] = results[i]
  BY DEF QueueInv, SessionsTyped, ToolResult
<1>2. \A i \in 1..handled : BringsSession(i)' = BringsSession(i)
  BY <1>1 DEF QueueInv, SessionsTyped, BringsSession
<1>3. NoSessionAbandoned'
  BY <1>2 DEF QueueInv, NoSessionAbandoned, ToolResult, history
<1>4. SessionsTyped' /\ HeadOfQueue'
  BY <1>1 DEF QueueInv, SessionsTyped, HeadOfQueue, ToolResult, history
<1> QED BY <1>3, <1>4 DEF QueueInv

\* The newest result takes over once the session before it was closed.
LEMMA QueueTakesOver ==
    ASSUME QueueInv, handled + 1 = Received, results' = results,
           TakeOver(handled + 1), closed \subseteq closed',
           sessionCapability = NoSession \/ sessionCapability \in closed'
    PROVE  QueueInv'
<1>1. handled' = handled + 1 /\ handling' = "idle" /\ sessionCapability' = handled + 1
  BY DEF TakeOver
<1>2. SessionsTyped' /\ HeadOfQueue'
  BY <1>1 DEF QueueInv, SessionsTyped, HeadOfQueue, Received
<1>3. ASSUME NEW i \in 1..handled', BringsSession(i)'
      PROVE  i = sessionCapability' \/ i \in closed'
  <2>1. CASE i = handled + 1
    BY <1>1, <2>1
  <2>2. CASE i \in 1..handled
    BY <1>1, <1>3, <2>2 DEF QueueInv, NoSessionAbandoned, BringsSession, NoSession
  <2> QED BY <1>1, <2>1, <2>2 DEF QueueInv, SessionsTyped
<1> QED BY <1>2, <1>3 DEF QueueInv, NoSessionAbandoned

\* cleanup(true) closes the session it drops.
LEMMA QueueCleansUp ==
    ASSUME QueueInv, Cleanup, UNCHANGED <<results, handled>>,
           \/ handling' = handling
           \/ handling' = "cleaning" /\ handled < Len(results)
    PROVE  QueueInv'
<1>1. sessionCapability' = NoSession /\ closed' = CloseSent
  BY DEF Cleanup
<1>2. SessionsTyped' /\ HeadOfQueue'
  BY <1>1 DEF QueueInv, SessionsTyped, HeadOfQueue, NoSession, CloseSent
<1>3. NoSessionAbandoned'
  BY <1>1 DEF QueueInv, SessionsTyped, NoSessionAbandoned, BringsSession, NoSession, CloseSent
<1> QED BY <1>2, <1>3 DEF QueueInv

LEMMA QueueMoves ==
    ASSUME QueueInv, Handle
    PROVE  QueueInv'
<1>1. CASE HandleUselessResult
  <2>1. SessionsTyped' /\ HeadOfQueue'
    BY <1>1 DEF HandleUselessResult, QueueInv, SessionsTyped, HeadOfQueue, Received, history
  <2>2. NoSessionAbandoned'
    BY <1>1 DEF HandleUselessResult, QueueInv, SessionsTyped, NoSessionAbandoned,
                BringsSession, history
  <2> QED BY <2>1, <2>2 DEF QueueInv
<1>2. CASE HandleStaleResult
  BY <1>2 DEF HandleStaleResult, QueueInv, SessionsTyped, HeadOfQueue, NoSessionAbandoned,
              BringsSession, Received
<1>3. CASE HandleNewestResult
  <2>1. CASE sessionCapability = NoSession \/ ClosesViaBridge
    BY <1>3, <2>1, QueueTakesOver DEF HandleNewestResult, CloseSent
  <2>2. CASE ~(sessionCapability = NoSession \/ ClosesViaBridge)
    BY <1>3, <2>2, QueueCleansUp
    DEF HandleNewestResult, QueueInv, SessionsTyped, Received
  <2> QED BY <2>1, <2>2
<1>4. CASE Cleaned
  <2>1. CASE handled + 1 = Received
    BY <1>4, <2>1, QueueTakesOver DEF Cleaned, QueueInv, HeadOfQueue
  <2>2. CASE handled + 1 # Received
    BY <1>4, <2>2 DEF Cleaned, QueueInv, SessionsTyped, HeadOfQueue, NoSessionAbandoned,
                      BringsSession
  <2> QED BY <2>1, <2>2
<1>5. CASE ClosedUnused
  <2>1. SessionsTyped' /\ HeadOfQueue'
    BY <1>5 DEF ClosedUnused, QueueInv, SessionsTyped, HeadOfQueue, history
  <2>2. NoSessionAbandoned'
    BY <1>5 DEF ClosedUnused, QueueInv, SessionsTyped, HeadOfQueue, NoSessionAbandoned,
                BringsSession, history
  <2> QED BY <2>1, <2>2 DEF QueueInv
<1> QED BY <1>1, <1>2, <1>3, <1>4, <1>5 DEF Handle

LEMMA QueueStep ==
    ASSUME QueueInv, [Next]_vars
    PROVE  QueueInv'
<1>1. CASE UNCHANGED vars
  BY <1>1, QueueIdle DEF vars, history
<1>2. ASSUME NEW kind \in Kinds, ToolResult(kind) PROVE QueueInv'
  BY <1>2, QueueGrows
<1>3. CASE Handle
  BY <1>3, QueueMoves
<1>4. CASE CloseClicked
  BY <1>4, QueueCleansUp DEF CloseClicked
<1>5. CASE Reconnect
  BY <1>5, QueueIdle DEF Reconnect, history
<1>6. ASSUME NEW call \in calls,
             DetailsArrive(call) \/ DetailsFail(call) \/ TerminalOpens(call) \/ TerminalFails(call)
      PROVE  QueueInv'
  BY <1>6, QueueIdle DEF DetailsArrive, DetailsFail, TerminalOpens, TerminalFails, history
<1>7. CASE SocketChanges \/ ConfirmSend \/ SendFails \/ SendSucceeds \/ Recorded
  BY <1>7, QueueIdle
  DEF SocketChanges, ConfirmSend, SendFails, SendSucceeds, Recorded, history
<1> QED BY <1>1, <1>2, <1>3, <1>4, <1>5, <1>6, <1>7 DEF Next, Kinds

-----------------------------------------------------------------------------
(* Confirmations *)

SendTyped ==
    /\ activeGeneration \in Nat
    /\ send \in [stage : {"none", "sending", "recording"}, generation : Nat, session : Nat,
                 sameSocket : BOOLEAN]

SendInv == SendTyped /\ ShowsCurrent /\ SendExplained /\ ConfirmationBoundToSession

\* Forgetting the socket changes nothing else of a confirmation.
LEMMA ForgottenFields ==
    ASSUME SendInv
    PROVE  /\ Forgotten \in [stage : {"none", "sending", "recording"}, generation : Nat,
                             session : Nat, sameSocket : BOOLEAN]
           /\ Forgotten.stage = send.stage /\ Forgotten.session = send.session
           /\ Forgotten.generation = send.generation
BY DEF SendInv, SendTyped, Forgotten

\* What is not about the session shown or a confirmation leaves them alone.
LEMMA SendIdle ==
    ASSUME SendInv, send' \in {send, Forgotten}, closed \subseteq closed',
           UNCHANGED <<activeGeneration, sessionCapability, session, rolledBack, unrecorded,
                       misrecorded>>
    PROVE  SendInv'
BY ForgottenFields
DEF SendInv, SendTyped, ShowsCurrent, SendExplained, ConfirmationBoundToSession, IsCurrentSend

\* The view leaves its session: it was closed, if there was one.
LEMMA SendLeft ==
    ASSUME SendInv, send' = Forgotten, activeGeneration' = activeGeneration + 1,
           closed \subseteq closed',
           sessionCapability = NoSession \/ sessionCapability \in closed',
           session' \in {NoSession, sessionCapability'},
           UNCHANGED <<rolledBack, unrecorded, misrecorded>>
    PROVE  SendInv'
BY ForgottenFields
DEF SendInv, SendTyped, ShowsCurrent, SendExplained, ConfirmationBoundToSession, IsCurrentSend

LEMMA Records ==
    ASSUME SendInv
    PROVE  \A r \in {NoSend, [send EXCEPT !.stage = "recording"]} :
             /\ r \in [stage : {"none", "sending", "recording"}, generation : Nat, session : Nat,
                       sameSocket : BOOLEAN]
             /\ r.stage # "sending"
<1> DEFINE R == [stage : {"none", "sending", "recording"}, generation : Nat, session : Nat,
                 sameSocket : BOOLEAN]
           recording == [send EXCEPT !.stage = "recording"]
<1>1. NoSend \in R /\ NoSend.stage # "sending"
  BY DEF NoSend, NoSession
<1>2. recording \in R /\ recording.stage # "sending"
  BY DEF SendInv, SendTyped
<1> HIDE DEF R, recording
<1>3. \A r \in {NoSend, recording} : r \in R /\ r.stage # "sending"
  BY <1>1, <1>2
<1> QED BY <1>3 DEF R, recording

\* A confirmation leaves its first await.
LEMMA SendOver ==
    ASSUME SendInv, SendTyped', send'.stage # "sending", ConfirmationBoundToSession',
           UNCHANGED <<sessionCapability, session>>
    PROVE  SendInv'
BY DEF SendInv, ShowsCurrent, SendExplained

LEMMA SendStep ==
    ASSUME QueueInv, SendInv, [Next]_vars
    PROVE  SendInv'
<1>1. CASE UNCHANGED vars
  BY <1>1, SendIdle DEF vars, history
<1>2. ASSUME NEW kind \in Kinds, ToolResult(kind) PROVE SendInv'
  BY <1>2, SendIdle DEF ToolResult, history
<1>3. CASE HandleUselessResult \/ HandleStaleResult \/ ClosedUnused
  BY <1>3, SendIdle DEF HandleUselessResult, HandleStaleResult, ClosedUnused, history
<1>4. CASE HandleNewestResult
  <2>1. CASE sessionCapability = NoSession \/ ClosesViaBridge
    <3>1. session' \in {NoSession, sessionCapability'}
      BY <1>4, <2>1 DEF HandleNewestResult, TakeOver, ConnectPendingSession
    <3> QED BY <1>4, <2>1, <3>1, SendLeft
            DEF HandleNewestResult, TakeOver, ConnectPendingSession, CloseSent
  <2>2. CASE ~(sessionCapability = NoSession \/ ClosesViaBridge)
    BY <1>4, <2>2, SendLeft DEF HandleNewestResult, Cleanup, CloseSent
  <2> QED BY <2>1, <2>2
<1>5. CASE Cleaned
  <2>1. CASE handled + 1 = Received
    <3>1. session' \in {NoSession, sessionCapability'}
      BY <1>5, <2>1 DEF Cleaned, TakeOver, ConnectPendingSession
    <3> QED BY <1>5, <2>1, <3>1, SendLeft
            DEF Cleaned, TakeOver, QueueInv, HeadOfQueue
  <2>2. CASE handled + 1 # Received
    BY <1>5, <2>2, SendIdle DEF Cleaned
  <2> QED BY <2>1, <2>2
<1>6. CASE CloseClicked
  BY <1>6, SendLeft DEF CloseClicked, Cleanup, CloseSent
<1>7. CASE Reconnect
  \* No confirmation is current while no session is shown.
  BY <1>7 DEF Reconnect, ConnectPendingSession, history, SendInv, SendTyped, ShowsCurrent, SendExplained,
              ConfirmationBoundToSession, IsCurrentSend
<1>8. ASSUME NEW call \in calls, DetailsArrive(call) PROVE SendInv'
  <2>1. CASE IsCurrentCall(call)
    BY <1>8, <2>1 DEF DetailsArrive, IsCurrentCall, history, SendInv, SendTyped, ShowsCurrent,
                      SendExplained, ConfirmationBoundToSession, IsCurrentSend
  <2>2. CASE ~IsCurrentCall(call)
    BY <1>8, <2>2, SendIdle DEF DetailsArrive, history
  <2> QED BY <2>1, <2>2
<1>9. ASSUME NEW call \in calls, DetailsFail(call) \/ TerminalOpens(call) PROVE SendInv'
  BY <1>9, SendIdle DEF DetailsFail, TerminalOpens, history
<1>10. ASSUME NEW call \in calls, TerminalFails(call) PROVE SendInv'
  <2>1. CASE IsCurrentTerminal(call)
    BY <1>10, <2>1, ForgottenFields DEF TerminalFails, IsCurrentTerminal, SendInv, SendTyped, ShowsCurrent,
                       SendExplained, ConfirmationBoundToSession, IsCurrentSend
  <2>2. CASE ~IsCurrentTerminal(call)
    BY <1>10, <2>2, SendIdle DEF TerminalFails
  <2> QED BY <2>1, <2>2
<1>11. CASE SocketChanges
  BY <1>11, SendIdle DEF SocketChanges, history
<1>12. CASE ConfirmSend
  BY <1>12 DEF ConfirmSend, SendInv, SendTyped, ShowsCurrent, SendExplained,
               ConfirmationBoundToSession, IsCurrentSend, QueueInv, SessionsTyped, NoSession
<1>13. CASE SendFails \/ Recorded
  <2>0. send' = NoSend /\ activeGeneration' = activeGeneration
    BY <1>13 DEF SendFails, Recorded
  <2>1. SendTyped' /\ send'.stage # "sending"
    BY <2>0, Records DEF SendInv, SendTyped
  <2>2. ConfirmationBoundToSession'
    BY <1>13 DEF SendFails, Recorded, history, SendInv, ConfirmationBoundToSession
  <2> QED BY <1>13, <2>1, <2>2, SendOver DEF SendFails, Recorded
<1>14. CASE SendSucceeds
  <2>1. /\ send' \in {NoSend, [send EXCEPT !.stage = "recording"]}
        /\ activeGeneration' = activeGeneration
    BY <1>14 DEF SendSucceeds
  <2>2. SendTyped' /\ send'.stage # "sending"
    BY <2>1, Records DEF SendInv, SendTyped
  <2>3. ConfirmationBoundToSession'
    BY <1>14 DEF SendSucceeds, IsCurrentSend, SendInv, SendExplained,
                 ConfirmationBoundToSession
  <2> QED BY <1>14, <2>2, <2>3, SendOver DEF SendSucceeds
<1> QED BY <1>1, <1>2, <1>3, <1>4, <1>5, <1>6, <1>7, <1>8, <1>9, <1>10, <1>11, <1>12, <1>13,
           <1>14 DEF Next, Handle, Kinds

-----------------------------------------------------------------------------
(* The session shown *)

\* A socket or a call that has not settled belongs to a session and a generation.
ViewInv ==
    /\ Len(results) <= MaxResults
    /\ socket # "none" => session # NoSession
    /\ connecting => \E call \in calls : call.generation = connectingGeneration
    /\ calls \subseteq Call /\ send \in Send

\* Forgetting the socket, or the end of an await, leaves a confirmation well typed.
LEMMA SendRecords ==
    ASSUME ViewInv
    PROVE  Forgotten \in Send /\ NoSend \in Send /\ [send EXCEPT !.stage = "recording"] \in Send
BY DEF ViewInv, Send, Forgotten, NoSend, NoSession

\* What leaves calls, socket and flags alone keeps the invariant of the view.
LEMMA ViewIdle ==
    ASSUME ViewInv, send' \in Send,
           UNCHANGED <<results, session, connecting, connectingGeneration, calls, socket>>
    PROVE  ViewInv'
BY DEF ViewInv

\* A handler that gives up what was connecting, or leaves it.
LEMMA ViewResets ==
    ASSUME ViewInv, send' \in Send, socket' \in {socket, "none"},
           UNCHANGED <<results, calls>>,
           session' = session \/ socket' = "none",
           connecting' = FALSE \/ UNCHANGED <<connecting, connectingGeneration>>
    PROVE  ViewInv'
BY DEF ViewInv

\* A session that has become current connects with a call of its own.
LEMMA ViewConnects ==
    ASSUME ViewInv, NEW i \in Results, NEW generation \in Nat,
           ConnectPendingSession(i, generation),
           socket' = "none", send' \in Send, results' = results
    PROVE  ViewInv'
<1> DEFINE call(stage) == [generation |-> generation, session |-> i, stage |-> stage]
<1>1. PICK stage \in {"details", "terminal"} : calls' = calls \union {call(stage)}
  BY DEF ConnectPendingSession
<1>2. call(stage) \in Call /\ call(stage).generation = generation
  BY DEF Call
<1> HIDE DEF call
<1>3. connecting' = TRUE /\ connectingGeneration' = generation
  BY DEF ConnectPendingSession
<1> QED BY <1>1, <1>2, <1>3 DEF ViewInv

\* A call that is over was not the one that connects, or has reset the flags.
LEMMA CallSettles ==
    ASSUME ViewInv, NEW call \in calls, NEW failed, Settled(call, failed),
           calls' = calls \ {call}
    PROVE  /\ calls' \subseteq Call
           /\ connecting' => \E c \in calls' : c.generation = connectingGeneration'
BY DEF ViewInv, Settled, flags

LEMMA ViewCalls ==
    ASSUME ViewInv, NEW call \in calls,
           DetailsArrive(call) \/ DetailsFail(call) \/ TerminalOpens(call) \/ TerminalFails(call)
    PROVE  ViewInv'
<1>1. call \in Call /\ call.session # NoSession /\ Forgotten \in Send
  BY SendRecords DEF ViewInv, Call, Results, NoSession
<1>2. CASE DetailsArrive(call) /\ IsCurrentCall(call)
  <2> DEFINE next == [call EXCEPT !.stage = "terminal"]
  <2>1. next \in Call /\ next.generation = call.generation
    BY <1>1 DEF Call
  <2>2. /\ calls' = (calls \ {call}) \union {next} /\ session' = call.session
        /\ UNCHANGED <<results, connecting, connectingGeneration, socket, send>>
    BY <1>2 DEF DetailsArrive, flags
  <2> HIDE DEF next
  <2> QED BY <1>1, <2>1, <2>2 DEF ViewInv
<1>3. CASE DetailsArrive(call) /\ ~IsCurrentCall(call)
  <2>1. /\ calls' = calls \ {call} /\ Settled(call, FALSE)
        /\ UNCHANGED <<results, session, socket, send>>
    BY <1>3 DEF DetailsArrive
  <2> QED BY <2>1, CallSettles DEF ViewInv
<1>4. CASE DetailsFail(call)
  <2>1. /\ calls' = calls \ {call} /\ Settled(call, IsCurrentCall(call))
        /\ UNCHANGED <<results, session, socket, send>>
    BY <1>4 DEF DetailsFail
  <2> QED BY <2>1, CallSettles DEF ViewInv
<1>5. CASE TerminalOpens(call)
  <2>1. /\ calls' = calls \ {call} /\ Settled(call, FALSE)
        /\ UNCHANGED <<results, session, send>>
        /\ socket' = socket \/ session = call.session
    BY <1>5 DEF TerminalOpens, IsCurrentTerminal
  <2> QED BY <1>1, <2>1, CallSettles DEF ViewInv
<1>6. CASE TerminalFails(call)
  <2>1. /\ calls' = calls \ {call} /\ Settled(call, IsCurrentTerminal(call))
        /\ results' = results /\ send' \in {send, Forgotten}
        /\ \/ UNCHANGED <<session, socket>>
           \/ socket' = "none"
    BY <1>6 DEF TerminalFails
  <2> QED BY <1>1, <2>1, CallSettles DEF ViewInv
<1> QED BY <1>2, <1>3, <1>4, <1>5, <1>6

\* The newest result becomes the session shown.
LEMMA ViewTakesOver ==
    ASSUME ViewInv, QueueInv, SendInv, handled + 1 = Received, results' = results,
           TakeOver(handled + 1)
    PROVE  ViewInv'
<1> USE SessionsAssumption
<1>1. handled + 1 \in Results
  BY DEF ViewInv, QueueInv, SessionsTyped, Received, Results
<1>2. activeGeneration + 1 \in Nat
  BY DEF SendInv, SendTyped
<1>3. socket' = "none" /\ send' \in Send
  BY SendRecords DEF TakeOver
<1> QED BY <1>1, <1>2, <1>3, ViewConnects DEF TakeOver

LEMMA ViewStep ==
    ASSUME ViewInv, QueueInv, SendInv, [Next]_vars
    PROVE  ViewInv'
<1> USE SessionsAssumption
<1>0. send \in Send /\ Forgotten \in Send /\ NoSend \in Send
      /\ [send EXCEPT !.stage = "recording"] \in Send
  BY SendRecords DEF ViewInv
<1>1. CASE UNCHANGED vars
  BY <1>0, <1>1, ViewIdle DEF vars, flags
<1>2. ASSUME NEW kind \in Kinds, ToolResult(kind) PROVE ViewInv'
  <2>1. Len(results') <= MaxResults
    BY <1>2 DEF ToolResult, Received, QueueInv, SessionsTyped
  <2> QED BY <1>2, <2>1 DEF ToolResult, ViewInv, flags
<1>3. CASE HandleUselessResult
  BY <1>0, <1>3, ViewResets DEF HandleUselessResult
<1>4. CASE HandleStaleResult \/ ClosedUnused
  BY <1>0, <1>4, ViewResets DEF HandleStaleResult, ClosedUnused, flags
<1>5. CASE HandleNewestResult
  <2>1. CASE sessionCapability = NoSession \/ ClosesViaBridge
    BY <1>5, <2>1, ViewTakesOver DEF HandleNewestResult
  <2>2. CASE ~(sessionCapability = NoSession \/ ClosesViaBridge)
    BY <1>0, <1>5, <2>2, ViewResets DEF HandleNewestResult, Cleanup
  <2> QED BY <2>1, <2>2
<1>6. CASE Cleaned
  <2>1. CASE handled + 1 = Received
    BY <1>6, <2>1, ViewTakesOver DEF Cleaned
  <2>2. CASE handled + 1 # Received
    BY <1>0, <1>6, <2>2, ViewIdle DEF Cleaned, flags
  <2> QED BY <2>1, <2>2
<1>7. CASE CloseClicked
  BY <1>0, <1>7, ViewResets DEF CloseClicked, Cleanup
<1>8. CASE Reconnect
  <2>1. sessionCapability \in Results /\ activeGeneration \in Nat /\ socket = "none"
    BY <1>8 DEF Reconnect, ViewInv, QueueInv, SessionsTyped, SendInv, SendTyped, Results, NoSession
  <2> QED BY <1>0, <1>8, <2>1, ViewConnects DEF Reconnect
<1>9. ASSUME NEW call \in calls,
             DetailsArrive(call) \/ DetailsFail(call) \/ TerminalOpens(call) \/ TerminalFails(call)
      PROVE  ViewInv'
  BY <1>9, ViewCalls
<1>10. CASE SocketChanges
  BY <1>0, <1>10 DEF SocketChanges, ViewInv, flags
<1>11. CASE ConfirmSend
  <2>1. session \in Results /\ activeGeneration \in Nat
    BY <1>11 DEF ConfirmSend, ViewInv, QueueInv, SessionsTyped, SendInv, SendTyped, ShowsCurrent,
                 Results, NoSession
  <2>2. send' \in Send
    BY <1>11, <2>1 DEF ConfirmSend, Send
  <2> QED BY <1>11, <2>2, ViewIdle DEF ConfirmSend, flags
<1>12. CASE SendFails \/ SendSucceeds \/ Recorded
  BY <1>0, <1>12, ViewIdle DEF SendFails, SendSucceeds, Recorded, flags
<1> QED BY <1>1, <1>2, <1>3, <1>4, <1>5, <1>6, <1>7, <1>8, <1>9, <1>10, <1>11, <1>12
        DEF Next, Handle, Kinds

-----------------------------------------------------------------------------
LEMMA QueueHolds == Spec => []QueueInv
<1>1. Init => QueueInv
  BY DEF Init, QueueInv, SessionsTyped, HeadOfQueue, NoSessionAbandoned, NoSession
<1> QED BY <1>1, QueueStep, PTL DEF Spec

LEMMA SendHolds == Spec => []SendInv
<1>1. Init => SendInv
  BY DEF Init, NoSend, NoSession, SendInv, SendTyped, ShowsCurrent, SendExplained, ConfirmationBoundToSession
<1> QED BY <1>1, QueueHolds, SendStep, PTL DEF Spec

\* Every session a tool result has brought is waiting in the queue, is the
\* current one, or a close was sent for it (handleToolResult, cleanup and
\* closeUnusedSession of src/app/mcp-app.ts), for any number of results.
THEOREM NothingAbandoned == Spec => []NoSessionAbandoned
<1>1. QueueInv => NoSessionAbandoned
  BY DEF QueueInv
<1> QED BY <1>1, QueueHolds, PTL

\* confirmSend records an output the host took for the session it came from,
\* and leaves it out only when that session was closed or rolled back while the
\* host was asked, for any number of sessions and confirmations.
THEOREM ConfirmationsBound == Spec => []ConfirmationBoundToSession
<1>1. SendInv => ConfirmationBoundToSession
  BY DEF SendInv
<1> QED BY <1>1, SendHolds, PTL

\* Whatever call returns late, the session shown is the current one, a socket has
\* a session, and what is connecting has a call that will end it
\* (connectPendingSession, connectTerminal and cleanup), for any number of
\* results, reconnects and clicks on Close.
THEOREM ShownCurrent == Spec => []ShownSessionIsCurrent
<1>1. Init => ViewInv
  BY SessionsAssumption DEF Init, ViewInv, Send, NoSend, NoSession
<1>2. SendInv /\ ViewInv => ShownSessionIsCurrent
  BY DEF SendInv, ViewInv, ShowsCurrent, ShownSessionIsCurrent
<1> QED BY <1>1, <1>2, QueueHolds, SendHolds, ViewStep, PTL DEF Spec
=============================================================================
