------------------------- MODULE AppTransportProofs -------------------------
(***************************************************************************)
(* Proofs about AppTransport, for any number of sessions, sockets and      *)
(* inputs: one transport at a time, no input handed over twice or dropped  *)
(* without a message, and none overtaken outside the hand-off.             *)
(***************************************************************************)
EXTENDS AppTransport, SequenceTheorems, TLAPS

-----------------------------------------------------------------------------
(* The inductive invariant *)

ConnectTypeOK ==
    /\ session \in BOOLEAN /\ appToolTransport \in BOOLEAN
    /\ socketBinding \in Sockets \union {NoSocket}
    /\ fallbackTimer \in Sockets \union {NoSocket}

\* Handlers of generation g that have not come to their end.
Loading(g) == {call \in loading : call.generation = g}
Attaching(g) == fallback[g].stage \in {"attaching", "polling", "on"}

\* The session shown is being connected in one way at a time, and a later
\* generation has nothing yet.
OneConnect ==
    /\ \A call \in loading : call.generation <= activeGeneration
    /\ reconnectTimer <= activeGeneration
    /\ \A g \in Generations : g > activeGeneration => fallback[g] = NoFallback
    /\ \A c, d \in Loading(activeGeneration) : c = d
    /\ Loading(activeGeneration) # {} =>
          session /\ ~appToolTransport /\ socketBinding = NoSocket /\ reconnectTimer # activeGeneration
    /\ reconnectTimer = activeGeneration => session /\ ~Attaching(activeGeneration)
    /\ Attaching(activeGeneration) => appToolTransport

ConnectInv == ConnectTypeOK /\ SingleTransport /\ OneConnect

InputTypeOK ==
    /\ typed \in Nat
    /\ queue.inFlight = 0 => queue.waiting = <<>>
    /\ queue.inFlight + Len(queue.waiting) <= MaxChunks
    /\ sent \in Seq(InputTyped) /\ pendingInput \in Seq(InputTyped)
    /\ queue \in [inFlight : Nat, waiting : Seq(InputTyped)]
    /\ refused \subseteq InputTyped /\ lost \subseteq InputTyped /\ overtook \subseteq InputTyped

\* Input a may stand before input b.
Precedes(a, b, late) == a # b /\ (b < a => a \in late)

Ahead(S, T, late) == \A a \in S, b \in T : Precedes(a, b, late)

InOrder(s, late) == \A i, j \in DOMAIN s : i < j => Precedes(s[i], s[j], late)

\* What was sent, what the queue holds and what is pending stand in one line.
InLine ==
    /\ InOrder(sent, overtook) /\ InOrder(queue.waiting, overtook) /\ InOrder(pendingInput, overtook)
    /\ Ahead(Range(sent), Waiting, overtook)
    /\ Ahead(Range(sent), Range(pendingInput), overtook)
    /\ Ahead(Waiting, Range(pendingInput), overtook)

Line == Range(sent) \union Waiting \union Range(pendingInput)
Dropped == refused \union lost

NothingMissing == InputTyped = Line \union Dropped /\ Line \intersect Dropped = {}

\* A socket that may carry input has nothing pending behind it.
FlushedSocket ==
    \A s \in Sockets : socket[s].ready =>
        /\ socket[s].state # "connecting"
        /\ socket[s].state = "open" => pendingInput = <<>>

InputInv == InputTypeOK /\ InLine /\ NothingMissing /\ FlushedSocket

TransportInv == ConnectInv /\ InputInv

-----------------------------------------------------------------------------
(* One transport *)

LEMMA GenerationType ==
    ASSUME ConnectInv
    PROVE  /\ activeGeneration \in Generations /\ Generations \subseteq Nat \ {0} /\ NoTimer \notin Generations
           /\ NoSocket \notin Sockets
BY TransportAssumption DEF ConnectInv, SingleTransport, TypeOK, Generations, NoTimer

\* A step that connects nothing new keeps the invariant: sockets only close,
\* calls only end, and a timer is set only when nothing else connects.
LEMMA QuietStep ==
    ASSUME ConnectInv,
           UNCHANGED <<activeGeneration, session, socketBinding, appToolTransport>>,
           loading' \subseteq loading,
           socket' \in [Sockets -> Socket],
           \A s \in Sockets : socket'[s].generation = socket[s].generation,
           \A s \in Sockets : socket'[s].state \in {"connecting", "open"} =>
                                 socket[s].state \in {"connecting", "open"},
           fallbackTimer' \in {NoSocket, fallbackTimer},
           queue'.inFlight \in Nat, queue' # NoQueue => appToolTransport,
           fallback' \in [Generations -> Fallback],
           \A g \in Generations : g > activeGeneration => fallback'[g] = NoFallback,
           \A g \in Generations \ {activeGeneration} : fallback'[g].stage # "on",
           Attaching(activeGeneration)' => Attaching(activeGeneration),
           \/ reconnectTimer' \in {reconnectTimer, NoTimer}
           \/ /\ reconnectTimer' = activeGeneration /\ session
              /\ ~Attaching(activeGeneration)' /\ Loading(activeGeneration)' = {},
           reconnectAttempts' \in 0..RetryLimit
    PROVE  ConnectInv'
<1>1. ConnectTypeOK'
  BY DEF ConnectInv, ConnectTypeOK
<1>2. TypeOK'
  BY GenerationType DEF ConnectInv, SingleTransport, TypeOK
<1>3. \A s \in Sockets : IsCurrentSocketBinding(s)' <=> IsCurrentSocketBinding(s)
  BY DEF IsCurrentSocketBinding, IsCurrentGeneration
<1>4. SingleTransport'
  <2>1. appToolTransport' => /\ session' /\ socketBinding' = NoSocket
                             /\ \A call \in loading' : ~IsCurrentGeneration(call.generation)'
    BY DEF ConnectInv, SingleTransport, IsCurrentGeneration
  <2>2. \A s \in Sockets : socket'[s].state \in {"connecting", "open"} => IsCurrentSocketBinding(s)'
    BY <1>3 DEF ConnectInv, SingleTransport
  <2>3. socketBinding' # NoSocket => IsCurrentSocketBinding(socketBinding)'
    BY <1>3 DEF ConnectInv, SingleTransport, ConnectTypeOK
  <2>4. fallbackTimer' \in {NoSocket, socketBinding'}
    BY DEF ConnectInv, SingleTransport
  <2> QED
    BY <1>2, <2>1, <2>2, <2>3, <2>4 DEF SingleTransport
<1>5. OneConnect'
  <2>1. Loading(activeGeneration)' \subseteq Loading(activeGeneration)
    BY DEF Loading
  <2>2. /\ \A call \in loading' : call.generation <= activeGeneration'
        /\ \A c, d \in Loading(activeGeneration)' : c = d
        /\ Attaching(activeGeneration)' => appToolTransport'
    BY <2>1 DEF ConnectInv, OneConnect
  <2>3. /\ reconnectTimer' <= activeGeneration'
        /\ reconnectTimer' = activeGeneration' => session' /\ ~Attaching(activeGeneration)'
        /\ Loading(activeGeneration)' # {} => session' /\ ~appToolTransport' /\ socketBinding' = NoSocket
                                              /\ reconnectTimer' # activeGeneration'
    BY <2>1, GenerationType DEF ConnectInv, OneConnect, NoTimer
  <2> QED
    BY <2>2, <2>3 DEF OneConnect
<1> QED
  BY <1>1, <1>4, <1>5 DEF ConnectInv

LEMMA EnqueueType ==
    ASSUME ConnectInv, NEW inputs, EnqueueAll(inputs) PROVE queue'.inFlight \in Nat
BY DEF EnqueueAll, ConnectInv, SingleTransport, TypeOK

\* Nothing but input, and the queue it goes through.
LEMMA InputStep ==
    ASSUME ConnectInv, SendTerminalInput \/ WriteFails \/ WriteSucceeds PROVE ConnectInv'
<1>1. UNCHANGED <<activeGeneration, session, loading, timers, socket, socketBinding, fallbackTimer,
                  appToolTransport, fallback>>
  BY DEF SendTerminalInput, WriteFails, WriteSucceeds
<1>2. queue'.inFlight \in Nat
  <2>1. CASE SendTerminalInput
    <3>1. EnqueueAll(<<typed + 1>>) \/ queue' = queue
        BY <2>1 DEF SendTerminalInput
    <3> QED
        BY <3>1, EnqueueType DEF ConnectInv, SingleTransport, TypeOK
  <2>2. CASE WriteFails
    BY <2>2 DEF WriteFails, NoQueue
  <2>3. CASE WriteSucceeds
    BY <2>3, TransportAssumption DEF WriteSucceeds
  <2> QED
    BY <2>1, <2>2, <2>3
<1>3. queue' # NoQueue => appToolTransport
  BY DEF SendTerminalInput, WriteFails, WriteSucceeds, ConnectInv, SingleTransport, NoQueue
<1> QED
  BY <1>1, <1>2, <1>3, QuietStep DEF ConnectInv, OneConnect, SingleTransport, TypeOK, Attaching, timers

LEMMA SocketStep ==
    ASSUME ConnectInv, NEW s \in Sockets, SocketOpens(s) \/ SocketReady(s) \/ SocketCloses(s) PROVE ConnectInv'
<1>1. UNCHANGED <<activeGeneration, session, loading, reconnectTimer, socketBinding,
                  appToolTransport, fallback, queue>>
  BY DEF SocketOpens, SocketReady, SocketCloses, timers
<1>2. /\ reconnectAttempts' \in {0, reconnectAttempts}
      /\ fallbackTimer' \in {NoSocket, fallbackTimer}
      /\ reconnectAttempts' \in 0..RetryLimit
  BY TransportAssumption DEF SocketOpens, SocketReady, SocketCloses, timers, ConnectInv, SingleTransport, TypeOK
<1>3. /\ socket' \in [Sockets -> Socket]
      /\ \A t \in Sockets : socket'[t].generation = socket[t].generation
      /\ \A t \in Sockets : socket'[t].state \in {"connecting", "open"} => socket[t].state \in {"connecting", "open"}
  <2>1. socket \in [Sockets -> Socket]
    BY DEF ConnectInv, SingleTransport, TypeOK
  <2>2. CASE SocketOpens(s)
    BY <2>1, <2>2 DEF SocketOpens, Socket
  <2>3. CASE SocketReady(s)
    BY <2>1, <2>3 DEF SocketReady, Socket
  <2>4. CASE SocketCloses(s)
    BY <2>1, <2>4 DEF SocketCloses, Socket
  <2> QED
    BY <2>2, <2>3, <2>4
<1> QED
  BY <1>1, <1>2, <1>3, QuietStep DEF ConnectInv, OneConnect, SingleTransport, TypeOK, Attaching

\* What disposeTerminal leaves: no transport at all.
LEMMA Disposed ==
    ASSUME ConnectInv, NEW retained, NEW calls \in [Generations -> Fallback],
           DisposeTerminal(retained, calls)
    PROVE  /\ socket' \in [Sockets -> Socket]
           /\ \A s \in Sockets : socket'[s].state \notin {"connecting", "open"}
           /\ \A s \in Sockets : socket'[s].ready => socket[s].ready
           /\ socketBinding' = NoSocket /\ fallbackTimer' = NoSocket
           /\ appToolTransport' = FALSE /\ queue' = NoQueue
           /\ fallback' \in [Generations -> Fallback]
           /\ \A g \in Generations : g # activeGeneration => fallback'[g] = calls[g]
           /\ fallback'[activeGeneration].stage # "on"
           /\ fallback'[activeGeneration].stage \in {calls[activeGeneration].stage, "none"}
<1>1. /\ socketBinding \in Sockets \union {NoSocket} /\ NoSocket \notin Sockets
      /\ \A s \in Sockets : socket[s].state \in {"connecting", "open"} => s = socketBinding
      /\ socket \in [Sockets -> Socket]
      /\ activeGeneration \in Generations
  BY TransportAssumption DEF ConnectInv, ConnectTypeOK, SingleTransport, TypeOK, IsCurrentSocketBinding
<1>2. socket' = Close(socketBinding)
  BY DEF DisposeTerminal
<1>3. /\ socket' \in [Sockets -> Socket]
      /\ \A s \in Sockets : socket'[s].state \notin {"connecting", "open"}
      /\ \A s \in Sockets : socket'[s].ready => socket[s].ready
  <2>1. CASE socketBinding = NoSocket
    BY <1>1, <1>2, <2>1 DEF Close, Socket
  <2>2. CASE socketBinding \in Sockets
    BY <1>1, <1>2, <2>2 DEF Close, Socket
  <2> QED
    BY <1>1, <2>1, <2>2
<1>4. fallback' = [calls EXCEPT ![activeGeneration].stage = IF @ = "on" THEN "none" ELSE @]
  BY DEF DisposeTerminal
<1>5. /\ fallback' \in [Generations -> Fallback]
      /\ \A g \in Generations : g # activeGeneration => fallback'[g] = calls[g]
      /\ fallback'[activeGeneration].stage # "on"
      /\ fallback'[activeGeneration].stage \in {calls[activeGeneration].stage, "none"}
  BY <1>1, <1>4 DEF Fallback
<1> QED
  BY <1>3, <1>5 DEF DisposeTerminal

\* The same for the rest of it: no call loads, and no timer of this generation runs.
LEMMA DisposedInv ==
    ASSUME ConnectInv, NEW retained, NEW calls \in [Generations -> Fallback],
           DisposeTerminal(retained, calls),
           \A g \in Generations : g # activeGeneration => calls[g] = fallback[g],
           activeGeneration' = activeGeneration => calls[activeGeneration].stage \notin {"attaching", "polling"},
           activeGeneration' \in {activeGeneration, activeGeneration + 1} \intersect Generations,
           session' \in BOOLEAN, activeGeneration' # activeGeneration => ~session',
           loading' \subseteq [generation : Generations, first : BOOLEAN],
           \A call \in loading' : call \in loading \/ call.generation = activeGeneration',
           \A c, d \in Loading(activeGeneration)' : c = d,
           Loading(activeGeneration)' # {} => session' /\ reconnectTimer' # activeGeneration',
           reconnectTimer' \in {reconnectTimer, NoTimer},
           reconnectTimer' = activeGeneration' => session',
           reconnectAttempts' \in 0..RetryLimit
    PROVE  ConnectInv'
<1>1. /\ socket' \in [Sockets -> Socket]
      /\ \A s \in Sockets : socket'[s].state \notin {"connecting", "open"}
      /\ socketBinding' = NoSocket /\ fallbackTimer' = NoSocket
      /\ appToolTransport' = FALSE /\ queue' = NoQueue
      /\ fallback' \in [Generations -> Fallback]
      /\ \A g \in Generations : g # activeGeneration => fallback'[g] = fallback[g]
      /\ fallback'[activeGeneration].stage # "on"
      /\ activeGeneration' = activeGeneration => fallback'[activeGeneration].stage \notin {"attaching", "polling"}
  BY Disposed DEF ConnectInv, SingleTransport, TypeOK
<1>2. /\ activeGeneration \in Nat /\ activeGeneration' \in Nat
      /\ activeGeneration \in Generations /\ activeGeneration' \in Generations
      /\ activeGeneration' >= activeGeneration /\ Generations \subseteq Nat
  BY TransportAssumption DEF ConnectInv, SingleTransport, TypeOK, Generations
<1>3. ConnectTypeOK'
  BY <1>1 DEF ConnectTypeOK
<1>4. TypeOK'
  BY <1>1, <1>2 DEF TypeOK, NoQueue, ConnectInv, SingleTransport
<1>5. \A g \in Generations : g # activeGeneration' => fallback'[g].stage # "on"
  BY <1>1, <1>2 DEF ConnectInv, SingleTransport
<1>6. SingleTransport'
  BY <1>1, <1>4, <1>5 DEF SingleTransport
<1>7. \A g \in Generations : g > activeGeneration' => fallback'[g] = NoFallback
  <2>1. \A g \in Generations : g > activeGeneration' => g > activeGeneration 
    <3> SUFFICES ASSUME NEW g \in Generations, g > activeGeneration' PROVE g > activeGeneration
        BY <1>2
    <3>1. g \in Nat
        BY <1>2
    <3> QED
        BY <1>2, <3>1
  <2> QED
    BY <1>1, <1>2, <2>1 DEF ConnectInv, OneConnect
<1>8. ~Attaching(activeGeneration)'
  <2>1. activeGeneration' # activeGeneration => fallback'[activeGeneration'].stage = "none"
    BY <1>1, <1>2 DEF ConnectInv, OneConnect, NoFallback
  <2> QED
    BY <1>1, <2>1 DEF Attaching
<1>9. \A call \in loading' : call.generation <= activeGeneration'
  <2> SUFFICES ASSUME NEW call \in loading' PROVE call.generation <= activeGeneration'
    OBVIOUS
  <2>1. CASE call \in loading
    <3>1. call.generation \in Nat /\ call.generation <= activeGeneration
        BY <1>2, <2>1 DEF ConnectInv, OneConnect, SingleTransport, TypeOK
    <3> QED
        BY <1>2, <3>1
  <2> QED
    BY <1>2, <2>1
<1>10. reconnectTimer' <= activeGeneration'
  BY <1>2 DEF ConnectInv, OneConnect, SingleTransport, TypeOK, NoTimer
<1>11. OneConnect'
  BY <1>1, <1>7, <1>8, <1>9, <1>10 DEF OneConnect
<1> QED
  BY <1>3, <1>6, <1>11 DEF ConnectInv

\* connectTerminal up to its await, by the first call or by the timer.
LEMMA ConnectStep ==
    ASSUME ConnectInv, NEW first \in BOOLEAN, ConnectTerminal(first), session',
           Loading(activeGeneration) = {}, ~Attaching(activeGeneration),
           UNCHANGED <<activeGeneration, reconnectAttempts>>,
           reconnectTimer' \in {reconnectTimer, NoTimer}, reconnectTimer' # activeGeneration
    PROVE  ConnectInv'
<1> DEFINE call == [generation |-> activeGeneration, first |-> first]
<1>1. loading' = loading \union {call} /\ DisposeTerminal(pendingInput, fallback)
  BY DEF ConnectTerminal
<1>2. loading' \subseteq [generation : Generations, first : BOOLEAN]
  BY <1>1, GenerationType DEF ConnectInv, SingleTransport, TypeOK
<1>3. Loading(activeGeneration)' = {call}
  BY <1>1 DEF Loading
<1> QED
  BY <1>1, <1>2, <1>3, DisposedInv, GenerationType DEF ConnectInv, SingleTransport, TypeOK, Attaching

LEMMA ConnectPendingStep ==
    ASSUME ConnectInv, ConnectPendingSession PROVE ConnectInv'
<1>1. ~session /\ session' /\ UNCHANGED <<activeGeneration, timers>> /\ ConnectTerminal(TRUE)
  BY DEF ConnectPendingSession
<1>2. Loading(activeGeneration) = {} /\ reconnectTimer # activeGeneration /\ ~Attaching(activeGeneration)
  BY <1>1 DEF ConnectInv, OneConnect, SingleTransport
<1> QED
  BY <1>1, <1>2, ConnectStep DEF timers

LEMMA ReconnectStep ==
    ASSUME ConnectInv, ReconnectTimer PROVE ConnectInv'
<1>1. reconnectTimer # NoTimer /\ reconnectTimer' = NoTimer
      /\ UNCHANGED <<activeGeneration, session, reconnectAttempts>>
  BY DEF ReconnectTimer
<1>2. CASE IsCurrentGeneration(reconnectTimer)
  <2>1. reconnectTimer = activeGeneration /\ session /\ ConnectTerminal(FALSE)
    BY <1>2 DEF ReconnectTimer, IsCurrentGeneration
  <2>2. Loading(activeGeneration) = {} /\ ~Attaching(activeGeneration)
    BY <2>1 DEF ConnectInv, OneConnect
  <2> QED
    BY <1>1, <2>1, <2>2, ConnectStep, GenerationType
<1>3. CASE ~IsCurrentGeneration(reconnectTimer)
  <2>1. UNCHANGED <<loading, transport>>
    BY <1>3 DEF ReconnectTimer
  <2> QED
    BY <1>1, <2>1, QuietStep DEF ConnectInv, OneConnect, SingleTransport, TypeOK, Attaching, transport
<1> QED
  BY <1>2, <1>3

LEMMA CleanupStep ==
    ASSUME ConnectInv, Cleanup PROVE ConnectInv'
<1>1. /\ activeGeneration' = activeGeneration + 1 /\ activeGeneration' \in Generations
      /\ session' = FALSE /\ DisposeTerminal(<<>>, fallback)
      /\ UNCHANGED <<loading, reconnectTimer>> /\ reconnectAttempts' = 0
  BY GenerationType, TransportAssumption DEF Cleanup, EndSession, Generations
<1>2. \A call \in loading : call.generation # activeGeneration'
  BY <1>1, GenerationType DEF ConnectInv, OneConnect, SingleTransport, TypeOK
<1>3. reconnectTimer' # activeGeneration'
  BY <1>1, GenerationType DEF ConnectInv, OneConnect, SingleTransport, TypeOK, NoTimer
<1>4. Loading(activeGeneration)' = {}
  BY <1>1, <1>2 DEF Loading
<1>5. fallback \in [Generations -> Fallback] /\ loading \subseteq [generation : Generations, first : BOOLEAN]
      /\ activeGeneration' # activeGeneration /\ reconnectAttempts' \in 0..RetryLimit
  BY <1>1, GenerationType, TransportAssumption DEF ConnectInv, SingleTransport, TypeOK
<1> QED
  BY <1>1, <1>3, <1>4, <1>5, DisposedInv

\* startAppToolTransport takes over from whatever was there.
LEMMA StartStep ==
    ASSUME ConnectInv, NEW by \in {"connect", "reconnect", "detached"}, NEW sockets \in [Sockets -> Socket],
           StartAppToolTransport(by, sockets),
           \A s \in Sockets : sockets[s].state \notin {"connecting", "open"},
           session, UNCHANGED <<activeGeneration, session>>,
           loading' \subseteq loading, Loading(activeGeneration)' = {}
    PROVE  ConnectInv'
<1>1. /\ appToolTransport' = TRUE /\ socket' = sockets
      /\ socketBinding' = NoSocket /\ fallbackTimer' = NoSocket /\ reconnectTimer' = NoTimer
      /\ queue' = NoQueue /\ UNCHANGED reconnectAttempts
  BY DEF StartAppToolTransport
<1>2. /\ fallback' \in [Generations -> Fallback]
      /\ \A g \in Generations : g # activeGeneration => fallback'[g] = fallback[g]
  BY GenerationType DEF StartAppToolTransport, ConnectInv, SingleTransport, TypeOK, Fallback
<1>3. ConnectTypeOK'
  BY <1>1 DEF ConnectInv, ConnectTypeOK
<1>4. TypeOK'
  BY <1>1, <1>2 DEF ConnectInv, SingleTransport, TypeOK, NoQueue
<1>5. \A call \in loading' : ~IsCurrentGeneration(call.generation)'
  BY DEF Loading, IsCurrentGeneration
<1>6. SingleTransport'
  BY <1>1, <1>2, <1>4, <1>5 DEF ConnectInv, SingleTransport
<1>7. OneConnect'
  <2>1. \A g \in Generations : g > activeGeneration' => fallback'[g] = NoFallback
    BY <1>2, GenerationType DEF ConnectInv, OneConnect
  <2>2. reconnectTimer' <= activeGeneration' /\ reconnectTimer' # activeGeneration'
    BY <1>1, GenerationType DEF NoTimer
  <2>3. \A call \in loading' : call.generation <= activeGeneration'
    BY DEF ConnectInv, OneConnect
  <2> QED
    BY <1>1, <2>1, <2>2, <2>3 DEF OneConnect
<1> QED
  BY <1>3, <1>6, <1>7 DEF ConnectInv

\* connectTerminal rejects, when the call or the fallback it waited for is over.
LEMMA ConnectFailsStep ==
    ASSUME ConnectInv, NEW g \in Generations, NEW first \in BOOLEAN, NEW calls \in [Generations -> Fallback],
           ConnectFails(g, first, calls),
           UNCHANGED activeGeneration, loading' \subseteq loading,
           \A h \in Generations : calls[h] \in {fallback[h], NoFallback},
           IsCurrentGeneration(g) => /\ Loading(activeGeneration)' = {} /\ socketBinding = NoSocket
                                     /\ reconnectTimer # activeGeneration
                                     /\ \A h \in Generations : h # activeGeneration => calls[h] = fallback[h]
                                     /\ calls[activeGeneration].stage \notin {"attaching", "polling", "on"}
    PROVE  ConnectInv'
<1>1. /\ reconnectAttempts \in 0..RetryLimit /\ RetryLimit \in Nat /\ socket \in [Sockets -> Socket]
      /\ queue.inFlight \in Nat /\ (queue # NoQueue => appToolTransport)
      /\ reconnectTimer \in Generations \union {NoTimer}
      /\ loading' \subseteq [generation : Generations, first : BOOLEAN]
  BY TransportAssumption DEF ConnectInv, SingleTransport, TypeOK
<1>2. /\ \A h \in Generations : h > activeGeneration => calls[h] = NoFallback
      /\ \A h \in Generations \ {activeGeneration} : calls[h].stage # "on"
      /\ calls[activeGeneration].stage \in {"attaching", "polling", "on"} => Attaching(activeGeneration)
  BY GenerationType DEF ConnectInv, SingleTransport, OneConnect, NoFallback, Attaching
<1>3. CASE ~IsCurrentGeneration(g)
  <2>1. /\ fallback' = calls
        /\ UNCHANGED <<session, timers, socket, socketBinding, fallbackTimer, appToolTransport, queue>>
    BY <1>3 DEF ConnectFails
  <2> QED
    BY <1>1, <1>2, <2>1, QuietStep DEF timers, Attaching
<1>4. CASE IsCurrentGeneration(g) /\ first
  <2>1. DisposeTerminal(<<>>, calls) /\ session' = FALSE /\ UNCHANGED timers
    BY <1>4 DEF ConnectFails, EndSession
  <2>2. UNCHANGED <<reconnectTimer, reconnectAttempts>>
    BY <2>1 DEF timers
  <2> QED
    BY <1>1, <1>4, <2>1, <2>2, DisposedInv, GenerationType DEF IsCurrentGeneration
<1>5. CASE IsCurrentGeneration(g) /\ ~first /\ reconnectAttempts = RetryLimit
  <2>1. StartAppToolTransport("detached", socket) /\ UNCHANGED session /\ session
    <3>1. StartAppToolTransport("detached", socket) /\ UNCHANGED session
        BY <1>1, <1>5 DEF ConnectFails
    <3> QED
        BY <1>5, <3>1 DEF IsCurrentGeneration
  <2>2. \A s \in Sockets : socket[s].state \notin {"connecting", "open"}
    BY <1>5, GenerationType DEF ConnectInv, SingleTransport, IsCurrentSocketBinding
  <2> QED
    BY <1>1, <1>5, <2>1, <2>2, StartStep
<1>6. CASE IsCurrentGeneration(g) /\ ~first /\ reconnectAttempts < RetryLimit
  <2>1. /\ fallback' = calls /\ ScheduleTerminalReconnect(g) /\ g = activeGeneration /\ session
        /\ UNCHANGED <<session, socket, socketBinding, fallbackTimer, appToolTransport, queue>>
    <3>1. /\ fallback' = calls /\ ScheduleTerminalReconnect(g)
          /\ UNCHANGED <<session, socket, socketBinding, fallbackTimer, appToolTransport, queue>>
        BY <1>1, <1>6 DEF ConnectFails
    <3> QED
        BY <1>6, <3>1 DEF IsCurrentGeneration
  <2>2. reconnectTimer' \in {reconnectTimer, activeGeneration} /\ reconnectAttempts' \in 0..RetryLimit
    BY <1>1, <2>1 DEF ScheduleTerminalReconnect, timers
  <2>3. ~Attaching(activeGeneration)' /\ (Attaching(activeGeneration)' => Attaching(activeGeneration))
    BY <1>6, <2>1 DEF Attaching
  <2> QED
    BY <1>1, <1>2, <1>6, <2>1, <2>2, <2>3, QuietStep
<1> QED
  BY <1>3, <1>4, <1>5, <1>6 DEF ConnectFails

LEMMA LoadFailsStep ==
    ASSUME ConnectInv, NEW call \in loading, LoadFails(call) PROVE ConnectInv'
<1>1. /\ call \in [generation : Generations, first : BOOLEAN]
      /\ fallback \in [Generations -> Fallback]
      /\ loading' = loading \ {call} /\ UNCHANGED activeGeneration
      /\ ConnectFails(call.generation, call.first, fallback)
  BY DEF LoadFails, ConnectInv, SingleTransport, TypeOK
<1>2. ASSUME IsCurrentGeneration(call.generation)
      PROVE  /\ Loading(activeGeneration)' = {} /\ socketBinding = NoSocket
             /\ reconnectTimer # activeGeneration
             /\ fallback[activeGeneration].stage \notin {"attaching", "polling", "on"}
  <2>1. call \in Loading(activeGeneration)
    BY <1>2 DEF Loading, IsCurrentGeneration
  <2> QED
    BY <1>1, <2>1 DEF ConnectInv, OneConnect, Attaching, Loading
<1> QED
  BY <1>1, <1>2, ConnectFailsStep

LEMMA LoadSucceedsStep ==
    ASSUME ConnectInv, NEW call \in loading, LoadSucceeds(call) PROVE ConnectInv'
<1>1. /\ call \in [generation : Generations, first : BOOLEAN]
      /\ fallback \in [Generations -> Fallback]
      /\ loading' = loading \ {call} /\ UNCHANGED <<activeGeneration, session>>
      /\ loading' \subseteq [generation : Generations, first : BOOLEAN]
      /\ socket \in [Sockets -> Socket] /\ reconnectAttempts \in 0..RetryLimit /\ queue.inFlight \in Nat
  BY DEF LoadSucceeds, ConnectInv, SingleTransport, TypeOK
<1>2. CASE ~IsCurrentGeneration(call.generation)
  <2>1. UNCHANGED <<timers, transport>>
    BY <1>2 DEF LoadSucceeds
  <2> QED
    BY <1>1, <2>1, QuietStep DEF timers, transport, ConnectInv, SingleTransport, OneConnect, Attaching
<1>3. ASSUME IsCurrentGeneration(call.generation)
      PROVE  /\ Loading(activeGeneration)' = {} /\ socketBinding = NoSocket /\ session
             /\ ~appToolTransport /\ reconnectTimer # activeGeneration /\ call.generation = activeGeneration
             /\ ~Attaching(activeGeneration)
             /\ \A s \in Sockets : socket[s].state \notin {"connecting", "open"}
  <2>1. call \in Loading(activeGeneration)
    BY <1>3 DEF Loading, IsCurrentGeneration
  <2>2. /\ Loading(activeGeneration)' = {} /\ socketBinding = NoSocket /\ session
        /\ ~appToolTransport /\ reconnectTimer # activeGeneration
    BY <1>1, <2>1 DEF ConnectInv, OneConnect, Loading
  <2> QED
    BY <1>3, <2>2, GenerationType DEF ConnectInv, OneConnect, SingleTransport, IsCurrentSocketBinding,
                                      IsCurrentGeneration
<1>4. CASE /\ IsCurrentGeneration(call.generation)
           /\ \E by \in {"connect", "reconnect", "detached"} : StartAppToolTransport(by, socket)
  BY <1>1, <1>3, <1>4, StartStep
<1>5. CASE /\ IsCurrentGeneration(call.generation)
           /\ \E s \in Sockets :
                /\ socket[s].state = "closed"
                /\ socket' = [socket EXCEPT ![s] = [state |-> "connecting", ready |-> FALSE,
                                                    generation |-> call.generation]]
                /\ socketBinding' = s
                /\ fallbackTimer' = s
           /\ UNCHANGED <<timers, appToolTransport, fallback, queue>>
  <2> PICK s \in Sockets : /\ socket' = [socket EXCEPT ![s] = [state |-> "connecting", ready |-> FALSE,
                                                               generation |-> call.generation]]
                           /\ socketBinding' = s /\ fallbackTimer' = s
    BY <1>5
  <2>1. socket' \in [Sockets -> Socket]
    BY <1>1 DEF Socket
  <2>2. /\ \A t \in Sockets : socket'[t].state \in {"connecting", "open"} => t = s
        /\ socket'[s].generation = activeGeneration
    BY <1>1, <1>3, <1>5
  <2>3. ConnectTypeOK'
    BY <1>1, <1>5 DEF ConnectInv, ConnectTypeOK
  <2>4. TypeOK'
    BY <1>1, <1>5, <2>1 DEF ConnectInv, SingleTransport, TypeOK, timers
  <2>5. SingleTransport'
    BY <1>1, <1>3, <1>5, <2>2, <2>4 DEF ConnectInv, SingleTransport, IsCurrentSocketBinding, IsCurrentGeneration
  <2>6. OneConnect'
    BY <1>1, <1>3, <1>5 DEF ConnectInv, OneConnect, Attaching, timers
  <2> QED
    BY <2>3, <2>5, <2>6 DEF ConnectInv
<1> QED
  BY <1>2, <1>4, <1>5 DEF LoadSucceeds

LEMMA SocketClosedStep ==
    ASSUME ConnectInv, NEW s \in Sockets, NEW failed \in BOOLEAN, SocketClosed(s, failed) PROVE ConnectInv'
<1> DEFINE closed == [socket EXCEPT ![s] = [state |-> "closed", ready |-> FALSE, generation |-> @.generation]]
<1>1. /\ socket \in [Sockets -> Socket] /\ closed \in [Sockets -> Socket]
      /\ \A t \in Sockets : /\ closed[t].generation = socket[t].generation
                            /\ closed[t].state \in {"connecting", "open"} =>
                                  socket[t].state \in {"connecting", "open"}
      /\ closed[s].state = "closed"
      /\ reconnectAttempts \in 0..RetryLimit /\ RetryLimit \in Nat /\ queue.inFlight \in Nat
      /\ fallback \in [Generations -> Fallback]
  BY TransportAssumption DEF ConnectInv, SingleTransport, TypeOK, Socket
<1>2. UNCHANGED <<activeGeneration, session, loading>>
  BY DEF SocketClosed
<1>3. ASSUME IsCurrentSocketBinding(s)
      PROVE  /\ session /\ socketBinding = s /\ socket[s].generation = activeGeneration
             /\ Loading(activeGeneration) = {} /\ ~appToolTransport /\ ~Attaching(activeGeneration)
             /\ \A t \in Sockets : closed[t].state \notin {"connecting", "open"}
  <2>1. session /\ socketBinding = s /\ socket[s].generation = activeGeneration /\ s # NoSocket
    BY <1>3, GenerationType DEF IsCurrentSocketBinding, IsCurrentGeneration
  <2>2. Loading(activeGeneration) = {} /\ ~appToolTransport /\ ~Attaching(activeGeneration)
    BY <2>1 DEF ConnectInv, SingleTransport, OneConnect
  <2>3. \A t \in Sockets : closed[t].state \in {"connecting", "open"} => t = s
    BY <1>1, <2>1 DEF ConnectInv, SingleTransport, IsCurrentSocketBinding
  <2> QED
    BY <1>1, <2>1, <2>2, <2>3
<1>4. CASE /\ socket' = closed
           /\ UNCHANGED <<timers, socketBinding, fallbackTimer, appToolTransport, fallback, queue>>
  BY <1>1, <1>2, <1>4, QuietStep DEF timers, ConnectInv, SingleTransport, OneConnect, Attaching
<1>5. CASE IsCurrentSocketBinding(s) /\ StartAppToolTransport("detached", closed)
  <2>1. Loading(activeGeneration)' = {} /\ session
    BY <1>2, <1>3, <1>5 DEF Loading
  <2>2. \A t \in Sockets : closed[t].state \notin {"connecting", "open"}
    BY <1>3, <1>5
  <2> HIDE DEF closed
  <2> QED
    BY <1>1, <1>2, <1>5, <2>1, <2>2, StartStep
<1>6. CASE /\ IsCurrentSocketBinding(s)
           /\ socket' = closed /\ fallbackTimer' = NoSocket
           /\ ScheduleTerminalReconnect(socket[s].generation)
           /\ UNCHANGED <<socketBinding, appToolTransport, fallback, queue>>
  <2>1. reconnectTimer' \in {reconnectTimer, activeGeneration} /\ reconnectAttempts' \in 0..RetryLimit
    BY <1>1, <1>3, <1>6 DEF ScheduleTerminalReconnect, timers
  <2>2. Loading(activeGeneration)' = {} /\ ~Attaching(activeGeneration)'
    BY <1>2, <1>3, <1>6 DEF Loading, Attaching
  <2> QED
    BY <1>1, <1>2, <1>3, <1>6, <2>1, <2>2, QuietStep DEF ConnectInv, SingleTransport, OneConnect
<1> QED
  BY <1>4, <1>5, <1>6 DEF SocketClosed

LEMMA FallbackTimerStep ==
    ASSUME ConnectInv, FallbackTimer PROVE ConnectInv'
<1>1. /\ socket \in [Sockets -> Socket] /\ fallbackTimer \in Sockets
      /\ reconnectAttempts \in 0..RetryLimit /\ queue.inFlight \in Nat
      /\ fallback \in [Generations -> Fallback]
      /\ UNCHANGED <<activeGeneration, session, loading>>
  BY DEF FallbackTimer, ConnectInv, ConnectTypeOK, SingleTransport, TypeOK
<1>2. CASE ~socket[fallbackTimer].ready /\ IsCurrentSocketBinding(fallbackTimer)
  <2>1. StartAppToolTransport("detached", Close(fallbackTimer))
    BY <1>2 DEF FallbackTimer, StartFallback
  <2>2. session /\ socketBinding = fallbackTimer /\ fallbackTimer # NoSocket
    BY <1>1, <1>2, GenerationType DEF IsCurrentSocketBinding, IsCurrentGeneration
  <2>3. Loading(activeGeneration)' = {}
    BY <1>1, <2>2 DEF ConnectInv, OneConnect, Loading
  <2>4. Close(fallbackTimer) \in [Sockets -> Socket]
    BY <1>1, <2>2 DEF Close, Socket
  <2>5. \A s \in Sockets : Close(fallbackTimer)[s].state \notin {"connecting", "open"}
    <3>1. \A s \in Sockets : socket[s].state \in {"connecting", "open"} => s = fallbackTimer
        BY <2>2 DEF ConnectInv, SingleTransport, IsCurrentSocketBinding
    <3> QED
        BY <1>1, <2>2, <3>1 DEF Close, Socket
  <2> QED
    BY <1>1, <2>1, <2>2, <2>3, <2>4, <2>5, StartStep
<1>3. CASE ~(~socket[fallbackTimer].ready /\ IsCurrentSocketBinding(fallbackTimer))
  <2>1. /\ fallbackTimer' = NoSocket
        /\ UNCHANGED <<timers, socket, socketBinding, appToolTransport, fallback, queue>>
    BY <1>3 DEF FallbackTimer
  <2> QED
    BY <1>1, <2>1, QuietStep DEF timers, ConnectInv, SingleTransport, OneConnect, Attaching
<1> QED
  BY <1>2, <1>3

LEMMA ToolsStep ==
    ASSUME ConnectInv, NEW g \in Generations, Attached(g) \/ Polled(g) PROVE ConnectInv'
<1>1. /\ fallback \in [Generations -> Fallback] /\ socket \in [Sockets -> Socket]
      /\ reconnectAttempts \in 0..RetryLimit /\ queue.inFlight \in Nat
      /\ UNCHANGED <<activeGeneration, session, loading, timers, socket, socketBinding, fallbackTimer,
                     appToolTransport>>
  BY DEF Attached, Polled, ConnectInv, SingleTransport, TypeOK
<1>2. fallback[g].stage \in {"attaching", "polling"}
  BY DEF Attached, Polled
<1>3. /\ fallback' \in [Generations -> Fallback]
      /\ \A h \in Generations : h # g => fallback'[h] = fallback[h]
      /\ fallback'[g].stage = "on" => IsCurrentGeneration(g)
  BY <1>1 DEF Attached, Polled, Fallback, NoFallback
<1>4. g <= activeGeneration
  BY <1>2, GenerationType DEF ConnectInv, OneConnect, NoFallback
<1>5. /\ \A h \in Generations : h > activeGeneration => fallback'[h] = NoFallback
      /\ \A h \in Generations \ {activeGeneration} : fallback'[h].stage # "on"
      /\ Attaching(activeGeneration)' => Attaching(activeGeneration)
  BY <1>1, <1>2, <1>3, <1>4, GenerationType DEF ConnectInv, OneConnect, SingleTransport, Attaching, IsCurrentGeneration
<1>6. queue'.inFlight \in Nat /\ (queue' # NoQueue => appToolTransport)
  <2>1. CASE Attached(g) /\ IsCurrentGeneration(g)
    <3>1. EnqueueAll(pendingInput) /\ appToolTransport
        BY <1>2, <2>1 DEF Attached, ConnectInv, OneConnect, Attaching, IsCurrentGeneration
    <3> QED
        BY <3>1, EnqueueType
  <2>2. CASE queue' = queue
    BY <1>1, <2>2 DEF ConnectInv, SingleTransport
  <2> QED
    BY <2>1, <2>2 DEF Attached, Polled
<1> QED
  BY <1>1, <1>3, <1>5, <1>6, QuietStep DEF timers, ConnectInv, SingleTransport, OneConnect

LEMMA AttachFailsStep ==
    ASSUME ConnectInv, NEW g \in Generations, AttachFails(g) PROVE ConnectInv'
<1>1. /\ fallback \in [Generations -> Fallback] /\ socket \in [Sockets -> Socket]
      /\ reconnectAttempts \in 0..RetryLimit /\ queue.inFlight \in Nat
      /\ UNCHANGED <<activeGeneration, loading>>
      /\ fallback[g].stage \in {"attaching", "polling"}
  BY DEF AttachFails, ConnectInv, SingleTransport, TypeOK
<1>2. g <= activeGeneration
  BY <1>1, GenerationType DEF ConnectInv, OneConnect, NoFallback
<1>3. CASE fallback[g].by = "detached"
  <2>1. /\ fallback' = [fallback EXCEPT ![g].stage = IF IsCurrentGeneration(g) THEN "failed" ELSE "none"]
        /\ UNCHANGED <<session, timers, socket, socketBinding, fallbackTimer, appToolTransport, queue>>
    BY <1>3 DEF AttachFails
  <2>2. /\ fallback' \in [Generations -> Fallback]
        /\ \A h \in Generations : h # g => fallback'[h] = fallback[h]
        /\ fallback'[g].stage \in {"failed", "none"}
    BY <1>1, <2>1 DEF Fallback
  <2>3. /\ \A h \in Generations : h > activeGeneration => fallback'[h] = NoFallback
        /\ \A h \in Generations \ {activeGeneration} : fallback'[h].stage # "on"
        /\ Attaching(activeGeneration)' => Attaching(activeGeneration)
    BY <1>1, <1>2, <2>2, GenerationType DEF ConnectInv, OneConnect, SingleTransport, Attaching
  <2> QED
    BY <1>1, <2>1, <2>2, <2>3, QuietStep DEF timers, ConnectInv, SingleTransport, OneConnect
<1>4. CASE fallback[g].by # "detached"
  <2> DEFINE calls == [fallback EXCEPT ![g] = NoFallback]
  <2>1. ConnectFails(g, fallback[g].by = "connect", calls)
    BY <1>4 DEF AttachFails
  <2>2. /\ calls \in [Generations -> Fallback]
        /\ \A h \in Generations : calls[h] \in {fallback[h], NoFallback}
        /\ \A h \in Generations : h # g => calls[h] = fallback[h]
        /\ calls[g].stage = "none"
    BY <1>1 DEF Fallback, NoFallback
  <2>3. ASSUME IsCurrentGeneration(g)
        PROVE  g = activeGeneration /\ Loading(activeGeneration)' = {} /\ socketBinding = NoSocket
               /\ reconnectTimer # activeGeneration
    BY <1>1, <2>3 DEF ConnectInv, OneConnect, SingleTransport, Attaching, Loading, IsCurrentGeneration
  <2> QED
    BY <1>1, <2>1, <2>2, <2>3, ConnectFailsStep
<1> QED
  BY <1>3, <1>4

LEMMA ConnectInit == Init => ConnectInv
<1> SUFFICES ASSUME Init PROVE ConnectInv
  OBVIOUS
<1>1. ConnectTypeOK
  BY DEF Init, ConnectTypeOK
<1>2. TypeOK
  BY TransportAssumption DEF Init, TypeOK, Generations, Socket, Fallback, NoFallback, NoQueue, NoTimer
<1>3. SingleTransport
  BY <1>2 DEF Init, SingleTransport, NoFallback
<1>4. OneConnect
  BY TransportAssumption DEF Init, OneConnect, Loading, Attaching, Generations, NoFallback, NoTimer
<1> QED
  BY <1>1, <1>3, <1>4 DEF ConnectInv

LEMMA ConnectNext == ConnectInv /\ [Next]_vars => ConnectInv'
<1> SUFFICES ASSUME ConnectInv, [Next]_vars PROVE ConnectInv'
  OBVIOUS
<1>1. CASE UNCHANGED vars
  BY <1>1, QuietStep DEF vars, timers, transport, ConnectInv, SingleTransport, TypeOK, OneConnect, Attaching
<1>2. CASE Next
  BY <1>2, InputStep, SocketStep, ConnectPendingStep, ReconnectStep, CleanupStep, LoadFailsStep, LoadSucceedsStep,
     SocketClosedStep, FallbackTimerStep, ToolsStep, AttachFailsStep DEF Next
<1> QED
  BY <1>1, <1>2

-----------------------------------------------------------------------------
(* Sequences of inputs *)

LEMMA RangeOf ==
    ASSUME NEW S, NEW s \in Seq(S)
    PROVE  /\ Range(s) \subseteq S
           /\ \A i \in DOMAIN s : s[i] \in Range(s)
           /\ \A a \in Range(s) : \E i \in DOMAIN s : s[i] = a
           /\ s = <<>> <=> Range(s) = {}
<1>1. DOMAIN s = 1..Len(s) /\ Len(s) \in Nat /\ \A i \in DOMAIN s : s[i] \in S
  BY LenProperties, ElementOfSeq
<1>2. s # <<>> => 1 \in DOMAIN s
  BY <1>1, EmptySeq
<1>3. s = <<>> => DOMAIN s = {}
  BY <1>1, EmptySeq
<1>4. /\ Range(s) \subseteq S
      /\ \A i \in DOMAIN s : s[i] \in Range(s)
      /\ \A a \in Range(s) : \E i \in DOMAIN s : s[i] = a
  BY <1>1 DEF Range
<1> QED
  BY <1>2, <1>3, <1>4

\* What a concatenation holds, and when it is in order.
LEMMA ConcatInOrder ==
    ASSUME NEW S, NEW s \in Seq(S), NEW t \in Seq(S), NEW late
    PROVE  /\ s \o t \in Seq(S)
           /\ Range(s \o t) = Range(s) \union Range(t)
           /\ InOrder(s \o t, late) <=> /\ InOrder(s, late) /\ InOrder(t, late)
                                        /\ Ahead(Range(s), Range(t), late)
<1> DEFINE m == Len(s)
           n == Len(t)
           u == s \o t
<1>1. /\ u \in Seq(S) /\ m \in Nat /\ n \in Nat
      /\ DOMAIN s = 1..m /\ DOMAIN t = 1..n /\ DOMAIN u = 1..(m + n)
      /\ \A i \in 1..(m + n) : u[i] = IF i <= m THEN s[i] ELSE t[i - m]
  BY ConcatProperties, LenProperties
<1>2. /\ \A i \in 1..m : i \in 1..(m + n) /\ u[i] = s[i]
      /\ \A j \in 1..n : m + j \in 1..(m + n) /\ u[m + j] = t[j]
      /\ \A i \in 1..(m + n) : i \in 1..m \/ (i - m \in 1..n /\ i = m + (i - m))
  BY <1>1
<1>3. Range(u) = Range(s) \union Range(t)
  BY RangeConcatenation
<1> HIDE DEF u, m, n
<1>4. ASSUME InOrder(u, late) PROVE InOrder(s, late) /\ InOrder(t, late) /\ Ahead(Range(s), Range(t), late)
  <2>1. InOrder(s, late)
    BY <1>1, <1>2, <1>4 DEF InOrder
  <2>2. InOrder(t, late)
    <3> SUFFICES ASSUME NEW i \in 1..n, NEW j \in 1..n, i < j PROVE Precedes(t[i], t[j], late)
        BY <1>1 DEF InOrder
    <3>1. m + i < m + j /\ m + i \in DOMAIN u /\ m + j \in DOMAIN u /\ u[m + i] = t[i] /\ u[m + j] = t[j]
        BY <1>1, <1>2
    <3> QED
        BY <1>4, <3>1 DEF InOrder
  <2>3. Ahead(Range(s), Range(t), late)
    <3> SUFFICES ASSUME NEW i \in 1..m, NEW j \in 1..n PROVE Precedes(s[i], t[j], late)
        BY <1>1 DEF Ahead, Range
    <3>1. i < m + j /\ i \in DOMAIN u /\ m + j \in DOMAIN u /\ u[i] = s[i] /\ u[m + j] = t[j]
        BY <1>1, <1>2
    <3> QED
        BY <1>4, <3>1 DEF InOrder
  <2> QED
    BY <2>1, <2>2, <2>3
<1>5. ASSUME InOrder(s, late), InOrder(t, late), Ahead(Range(s), Range(t), late) PROVE InOrder(u, late)
  <2> SUFFICES ASSUME NEW i \in 1..(m + n), NEW j \in 1..(m + n), i < j PROVE Precedes(u[i], u[j], late)
    BY <1>1 DEF InOrder
  <2>1. CASE i \in 1..m /\ j \in 1..m
    BY <1>1, <1>2, <1>5, <2>1 DEF InOrder
  <2>2. CASE i \in 1..m /\ j - m \in 1..n /\ j = m + (j - m)
    <3>1. u[i] \in Range(s) /\ u[j] \in Range(t)
        BY <1>1, <1>2, <2>2 DEF Range
    <3> QED
        BY <1>5, <3>1 DEF Ahead
  <2>3. CASE i - m \in 1..n /\ j - m \in 1..n
    <3>1. u[i] = t[i - m] /\ u[j] = t[j - m] /\ i - m < j - m
        BY <1>1, <2>3
    <3> QED
        BY <1>1, <1>5, <2>3, <3>1 DEF InOrder
  <2>4. ~(i - m \in 1..n /\ j \in 1..m)
    BY <1>1
  <2> QED
    BY <1>2, <2>1, <2>2, <2>3, <2>4
<1> QED
  BY <1>1, <1>3, <1>4, <1>5 DEF u

\* A sequence cut in two.
LEMMA CutInOrder ==
    ASSUME NEW S, NEW s \in Seq(S), NEW k \in 0..Len(s), NEW late, InOrder(s, late)
    PROVE  /\ SubSeq(s, 1, k) \in Seq(S) /\ SubSeq(s, k + 1, Len(s)) \in Seq(S)
           /\ Len(SubSeq(s, 1, k)) = k /\ Len(SubSeq(s, k + 1, Len(s))) = Len(s) - k
           /\ InOrder(SubSeq(s, 1, k), late) /\ InOrder(SubSeq(s, k + 1, Len(s)), late)
           /\ Ahead(Range(SubSeq(s, 1, k)), Range(SubSeq(s, k + 1, Len(s))), late)
           /\ Range(s) = Range(SubSeq(s, 1, k)) \union Range(SubSeq(s, k + 1, Len(s)))
<1> DEFINE p == SubSeq(s, 1, k)
           q == SubSeq(s, k + 1, Len(s))
<1>1. Len(s) \in Nat
  BY LenProperties
<1>2. /\ p \in Seq(S) /\ q \in Seq(S)
      /\ Len(p) = k /\ Len(q) = Len(s) - k
  BY <1>1, SubSeqProperties
<1>3. p \o q = SubSeq(s, 1, Len(s)) /\ SubSeq(s, 1, Len(s)) = s
  <2>1. 1 \in 1..Len(s) + 1 /\ k \in (1 - 1)..Len(s) /\ Len(s) \in k..Len(s)
    BY <1>1
  <2>2. SubSeq(s, 1, k) \o SubSeq(s, k + 1, Len(s)) = SubSeq(s, 1, Len(s))
    BY ONLY <2>1, s \in Seq(S), ConcatAdjacentSubSeq
  <2> QED
    BY <2>2, SubSeqFull
<1> HIDE DEF p, q
<1>4. Range(s) = Range(p) \union Range(q)
      /\ InOrder(p, late) /\ InOrder(q, late) /\ Ahead(Range(p), Range(q), late)
  <2>1. InOrder(p \o q, late) /\ Range(p \o q) = Range(s)
    BY <1>3
  <2> QED
    BY <1>2, <2>1, ConcatInOrder
<1> QED
  BY <1>2, <1>4 DEF p, q

LEMMA AheadPart ==
    ASSUME NEW A, NEW B, NEW C, NEW D, NEW late, Ahead(A, B, late), C \subseteq A, D \subseteq B
    PROVE  Ahead(C, D, late)
BY DEF Ahead

LEMMA AheadApart ==
    ASSUME NEW A, NEW B, NEW late, Ahead(A, B, late) PROVE A \intersect B = {}
BY DEF Ahead, Precedes

LEMMA ConcatLen ==
    ASSUME NEW S, NEW s \in Seq(S), NEW t \in Seq(S) PROVE Len(s \o t) = Len(s) + Len(t)
BY ConcatProperties

\* More latecomers allow more.
LEMMA LaterAllowed ==
    ASSUME NEW late, NEW more, late \subseteq more, NEW A, NEW B, NEW s
    PROVE  /\ Ahead(A, B, late) => Ahead(A, B, more)
           /\ InOrder(s, late) => InOrder(s, more)
BY DEF Ahead, InOrder, Precedes

\* The queue takes as many inputs as it has room for, behind those it has, and
\* refuses the rest.
LEMMA EnqueueInOrder ==
    ASSUME NEW S, NEW inputs \in Seq(S), NEW late, EnqueueAll(inputs),
           sent \in Seq(S), queue \in [inFlight : Nat, waiting : Seq(S)],
           queue.inFlight = 0 => queue.waiting = <<>>,
           queue.inFlight + Len(queue.waiting) <= MaxChunks,
           InOrder(sent, late), InOrder(queue.waiting, late), InOrder(inputs, late),
           Ahead(Range(sent), Waiting, late), Ahead(Range(sent), Range(inputs), late),
           Ahead(Waiting, Range(inputs), late)
    PROVE  /\ sent' \in Seq(S) /\ queue' \in [inFlight : Nat, waiting : Seq(S)]
           /\ queue'.inFlight = 0 => queue'.waiting = <<>>
           /\ queue'.inFlight + Len(queue'.waiting) <= MaxChunks
           /\ InOrder(sent', late) /\ InOrder(queue'.waiting, late)
           /\ Ahead(Range(sent'), Waiting', late)
           /\ Range(sent') \union Waiting' \subseteq Range(sent) \union Waiting \union Range(inputs)
           /\ \E rest \in SUBSET Range(inputs) :
                 /\ refused' = refused \union rest
                 /\ Range(sent') \union Waiting' \union rest = Range(sent) \union Waiting \union Range(inputs)
                 /\ (Range(sent') \union Waiting') \intersect rest = {}
<1> DEFINE n == Len(inputs)
           room == MaxChunks - (queue.inFlight + Len(queue.waiting))
           fits == IF n < room THEN n ELSE room
           first == IF queue.inFlight = 0 /\ fits > 0 THEN 1 ELSE 0
           d == SubSeq(inputs, first + 1, n)
           a == SubSeq(inputs, 1, first)
           b == SubSeq(inputs, first + 1, fits)
           c == SubSeq(inputs, fits + 1, n)
<1>1. /\ MaxChunks \in Nat /\ n \in Nat /\ queue.inFlight \in Nat /\ Len(queue.waiting) \in Nat
      /\ queue.waiting \in Seq(S)
  BY TransportAssumption, LenProperties
<1>2. fits \in 0..n /\ first \in 0..fits /\ room \in Nat /\ fits <= room
  <2>1. room \in Nat
    BY <1>1
  <2>2. fits \in 0..n /\ fits <= room
    BY <1>1, <2>1
  <2> HIDE DEF fits, room
  <2> QED
    BY <1>1, <2>1, <2>2
<1>3. /\ queue' = [inFlight |-> queue.inFlight + first, waiting |-> queue.waiting \o b]
      /\ sent' = sent \o a /\ refused' = refused \union Range(c)
  BY DEF EnqueueAll
<1>4. first = 0 \/ (queue.inFlight = 0 /\ queue.waiting = <<>>)
  OBVIOUS
<1>5. queue.inFlight = 0 /\ first = 0 => fits = 0
  BY <1>1, <1>2
<1> HIDE DEF n, room, fits, first
<1>6. /\ a \in Seq(S) /\ d \in Seq(S) /\ Len(a) = first
      /\ InOrder(a, late) /\ InOrder(d, late)
      /\ Ahead(Range(a), Range(d), late) /\ Range(inputs) = Range(a) \union Range(d)
  <2>1. first \in 0..Len(inputs)
    BY <1>1, <1>2 DEF n
  <2> QED
    BY <2>1, CutInOrder DEF n
<1>7. b \in Seq(S) /\ c \in Seq(S) /\ Len(b) = fits - first
  <2>1. \A i \in 1..n : inputs[i] \in S
    BY ElementOfSeq DEF n
  <2>2. fits \in Int /\ first \in Int /\ n \in Int /\ first + 1 \in Int /\ fits + 1 \in Int
    BY <1>1, <1>2
  <2>3. \A i \in (first + 1)..fits : inputs[i] \in S
    BY <1>1, <1>2, <2>1
  <2>4. \A i \in (fits + 1)..n : inputs[i] \in S
    BY <1>1, <1>2, <2>1
  <2>5. b \in Seq(S) /\ Len(b) = IF first + 1 <= fits THEN fits - (first + 1) + 1 ELSE 0
    BY ONLY <2>2, <2>3, SubSeqProperties
  <2>6. c \in Seq(S)
    BY ONLY <2>2, <2>4, SubSeqProperties
  <2> QED
    BY <1>1, <1>2, <2>5, <2>6
<1>8. b \o c = d
  <2> DEFINE m == first + 1
  <2>1. m \in 1..(Len(inputs) + 1) /\ fits \in (m - 1)..Len(inputs) /\ Len(inputs) \in fits..Len(inputs)
    BY <1>1, <1>2 DEF n
  <2> HIDE DEF m
  <2>2. SubSeq(inputs, m, fits) \o SubSeq(inputs, fits + 1, Len(inputs)) = SubSeq(inputs, m, Len(inputs))
    BY ONLY <2>1, inputs \in Seq(S), ConcatAdjacentSubSeq
  <2> QED
    BY <2>2 DEF m, n
<1>9. a = <<>> \/ queue.waiting = <<>>
  <2>1. first = 0 => a = <<>>
    BY <1>6, EmptySeq
  <2> QED
    BY <1>4, <2>1
<1>10. Range(<<>>) = {}
  BY EmptySeq, RangeOf
<1> HIDE DEF a, b, c, d
<1>11. /\ InOrder(b, late) /\ InOrder(c, late) /\ Ahead(Range(b), Range(c), late)
       /\ Range(d) = Range(b) \union Range(c)
  <2>1. InOrder(b \o c, late) /\ Range(b \o c) = Range(d)
    BY <1>6, <1>8
  <2> QED
    BY <1>7, <2>1, ConcatInOrder
<1> DEFINE W == queue.waiting
<1>12. /\ sent' \in Seq(S) /\ Range(sent') = Range(sent) \union Range(a)
       /\ InOrder(sent', late)
  <2>1. Ahead(Range(sent), Range(a), late)
    BY <1>6, AheadPart
  <2> QED
    BY <1>3, <1>6, <2>1, ConcatInOrder
<1>13. /\ W \o b \in Seq(S) /\ Range(W \o b) = Range(W) \union Range(b)
       /\ InOrder(W \o b, late) /\ Len(W \o b) = Len(W) + Len(b)
  <2>1. Ahead(Range(W), Range(b), late)
    BY <1>6, <1>11, AheadPart DEF Waiting
  <2> QED
    <3>1. W \in Seq(S) /\ InOrder(W, late)
        BY <1>1
    <3>2. Len(W \o b) = Len(W) + Len(b)
        BY ONLY <1>7, <3>1, ConcatLen
    <3> HIDE DEF W
    <3>3. W \o b \in Seq(S) /\ Range(W \o b) = Range(W) \union Range(b) /\ InOrder(W \o b, late)
        BY ONLY <1>7, <1>11, <2>1, <3>1, ConcatInOrder
    <3> QED
        BY <3>2, <3>3
<1>14. queue' \in [inFlight : Nat, waiting : Seq(S)] /\ queue'.waiting = W \o b
       /\ queue'.inFlight = queue.inFlight + first /\ Waiting' = Range(W) \union Range(b)
  BY <1>1, <1>2, <1>3, <1>13 DEF Waiting
<1>15. queue'.inFlight = 0 => queue'.waiting = <<>>
  <2> SUFFICES ASSUME queue'.inFlight = 0 PROVE W \o b = <<>>
    BY <1>14
  <2>1. queue.inFlight = 0 /\ first = 0
    BY <1>1, <1>2, <1>14
  <2>2. Len(W) = 0 /\ Len(b) = 0
    BY <1>5, <1>7, <2>1, EmptySeq
  <2>3. Len(W \o b) = 0
    BY <1>13, <2>2
  <2> QED
    BY <1>13, <2>3, EmptySeq
<1>16. queue'.inFlight + Len(queue'.waiting) <= MaxChunks
  <2>1. queue'.inFlight + Len(queue'.waiting) = (queue.inFlight + first) + (Len(W) + (fits - first))
    BY <1>7, <1>13, <1>14
  <2>2. fits <= MaxChunks - (queue.inFlight + Len(W))
    BY <1>2 DEF room
  <2> HIDE DEF W
  <2>3. Len(W) \in Nat
    BY <1>1 DEF W
  <2> QED
    BY <1>1, <1>2, <2>1, <2>2, <2>3
<1>17. Ahead(Range(sent'), Waiting', late)
  <2>1. Ahead(Range(sent), Range(W), late) /\ Ahead(Range(sent), Range(b), late)
    BY <1>6, <1>11, AheadPart DEF Waiting
  <2>2. Ahead(Range(a), Range(W), late)
    BY <1>9, <1>10 DEF Ahead
  <2>3. Ahead(Range(a), Range(b), late)
    BY <1>6, <1>11, AheadPart
  <2> QED
    BY <1>12, <1>14, <2>1, <2>2, <2>3 DEF Ahead
<1>18. (Range(sent') \union Waiting') \intersect Range(c) = {}
  <2>1. Ahead(Range(sent), Range(c), late) /\ Ahead(Range(W), Range(c), late)
    BY <1>6, <1>11, AheadPart DEF Waiting
  <2>2. Ahead(Range(a), Range(c), late) /\ Ahead(Range(b), Range(c), late)
    BY <1>6, <1>11, AheadPart
  <2>3. /\ Range(sent) \intersect Range(c) = {} /\ Range(W) \intersect Range(c) = {}
        /\ Range(a) \intersect Range(c) = {} /\ Range(b) \intersect Range(c) = {}
    BY <2>1, <2>2, AheadApart
  <2> QED
    BY <1>12, <1>14, <2>3
<1>19. /\ Range(c) \subseteq Range(inputs) /\ refused' = refused \union Range(c)
       /\ Range(sent') \union Waiting' \union Range(c) = Range(sent) \union Waiting \union Range(inputs)
  BY <1>3, <1>6, <1>11, <1>12, <1>14 DEF Waiting
<1> QED
  BY <1>12, <1>13, <1>14, <1>15, <1>16, <1>17, <1>18, <1>19

-----------------------------------------------------------------------------
(* No input missing, none out of order *)

LEMMA NoInputs ==
    ASSUME NEW S, NEW late
    PROVE  <<>> \in Seq(S) /\ Len(<<>>) = 0 /\ Range(<<>>) = {} /\ InOrder(<<>>, late)
<1>1. <<>> \in Seq(S) /\ Len(<<>>) = 0 /\ Range(<<>>) = {} /\ DOMAIN <<>> = {}
  BY EmptySeq, RangeOf, LenProperties
<1> QED
  BY <1>1 DEF InOrder

LEMMA InputTypes ==
    ASSUME InputInv
    PROVE  /\ typed \in Nat
           /\ sent \in Seq(InputTyped) /\ pendingInput \in Seq(InputTyped) /\ queue.waiting \in Seq(InputTyped)
           /\ Range(sent) \subseteq InputTyped /\ Range(pendingInput) \subseteq InputTyped
           /\ Waiting \subseteq InputTyped
           /\ queue.inFlight \in Nat /\ queue = [inFlight |-> queue.inFlight, waiting |-> queue.waiting]
BY RangeOf DEF InputInv, InputTypeOK, Waiting

\* Without the app tools the queue is empty.
LEMMA NothingQueued ==
    ASSUME ConnectInv, ~appToolTransport PROVE queue = NoQueue /\ queue.waiting = <<>> /\ Waiting = {}
<1>1. queue = NoQueue
  BY DEF ConnectInv, SingleTransport
<1> QED
  BY <1>1, NoInputs DEF NoQueue, Waiting

LEMMA NoQueueType ==
    ASSUME NEW S, NEW late
    PROVE  /\ NoQueue \in [inFlight : Nat, waiting : Seq(S)]
           /\ NoQueue.waiting = <<>> /\ NoQueue.inFlight + Len(NoQueue.waiting) <= MaxChunks
           /\ Range(NoQueue.waiting) = {} /\ InOrder(NoQueue.waiting, late)
BY NoInputs, TransportAssumption DEF NoQueue

\* Nothing is said of input.
LEMMA SameInput ==
    ASSUME InputInv, UNCHANGED <<typed, sent, refused, lost, overtook, queue, pendingInput>>, FlushedSocket'
    PROVE  InputInv'
BY DEF InputInv, InputTypeOK, InLine, NothingMissing, Line, Dropped, Waiting, InputTyped

LEMMA FlushedSame ==
    ASSUME InputInv, UNCHANGED <<socket, pendingInput>> PROVE FlushedSocket'
BY DEF InputInv, FlushedSocket

\* The queue goes, and what waited in it is refused or lost.
LEMMA QueueDropped ==
    ASSUME InputInv, UNCHANGED <<typed, sent, overtook, pendingInput>>, queue' = NoQueue,
           \/ refused' = refused \union Waiting /\ lost' = lost
           \/ refused' = refused /\ lost' = lost \union Waiting,
           FlushedSocket'
    PROVE  InputInv'
<1>1. Waiting' = {} /\ Range(queue'.waiting) = {}
  BY NoQueueType DEF Waiting
<1>2. InputTypeOK'
  BY NoQueueType, InputTypes DEF InputInv, InputTypeOK, InputTyped
<1>3. InLine'
  BY <1>1, NoQueueType DEF InputInv, InLine, Ahead
<1>4. NothingMissing'
  <2>1. Waiting \intersect Range(sent) = {} /\ Waiting \intersect Range(pendingInput) = {}
    BY AheadApart DEF InputInv, InLine
  <2>2. Line' = Range(sent) \union Range(pendingInput) /\ Dropped' = Dropped \union Waiting
    BY <1>1 DEF Line, Dropped
  <2> QED
    BY <2>1, <2>2 DEF InputInv, NothingMissing, Line, InputTyped
<1> QED
  BY <1>2, <1>3, <1>4 DEF InputInv

\* Everything starts again.
LEMMA InputReset ==
    ASSUME typed' = 0, sent' = <<>>, pendingInput' = <<>>, queue' = NoQueue,
           refused' = {}, lost' = {}, overtook' = {}, FlushedSocket'
    PROVE  InputInv'
<1>1. InputTyped' = {}
  BY DEF InputTyped
<1>2. InputTypeOK'
  BY <1>1, NoQueueType, NoInputs DEF InputTypeOK
<1>3. InLine'
  BY NoQueueType, NoInputs DEF InLine, Ahead, Waiting
<1>4. NothingMissing'
  BY <1>1, NoQueueType, NoInputs DEF NothingMissing, Line, Dropped, Waiting
<1> QED
  BY <1>2, <1>3, <1>4 DEF InputInv

\* The next input comes after all others.
LEMMA NextInput ==
    ASSUME InputInv, NEW late
    PROVE  LET x == typed + 1
           IN  /\ x \in Nat /\ 1..x = InputTyped \union {x} /\ InputTyped \subseteq 1..x
               /\ x \notin Line /\ x \notin Dropped
               /\ <<x>> \in Seq(1..x) /\ Range(<<x>>) = {x} /\ InOrder(<<x>>, late)
               /\ Ahead(Line, {x}, late)
               /\ sent \in Seq(1..x) /\ pendingInput \in Seq(1..x)
               /\ queue \in [inFlight : Nat, waiting : Seq(1..x)]
<1> DEFINE x == typed + 1
<1>1. typed \in Nat /\ x \in Nat /\ x \in 1..x
  BY InputTypes
<1>2. 1..x = InputTyped \union {x} /\ InputTyped \subseteq 1..x /\ x \notin InputTyped
  BY <1>1 DEF InputTyped
<1>3. Line \subseteq InputTyped /\ Dropped \subseteq InputTyped
  BY DEF InputInv, NothingMissing
<1>4. <<x>> \in Seq(1..x) /\ Range(<<x>>) = {x} /\ InOrder(<<x>>, late)
  BY <1>1 DEF Range, InOrder
<1>5. Ahead(Line, {x}, late)
  <2>1. \A a \in InputTyped : a # x /\ ~(x < a)
    BY <1>1 DEF InputTyped
  <2> QED
    BY <1>3, <2>1 DEF Ahead, Precedes
<1>6. \A s \in Seq(InputTyped) : s \in Seq(1..x)
  BY <1>2, SeqMonotonic
<1>7. /\ sent \in Seq(1..x) /\ pendingInput \in Seq(1..x)
      /\ queue \in [inFlight : Nat, waiting : Seq(1..x)]
  <2>1. queue.waiting \in Seq(1..x) /\ queue.inFlight \in Nat
        /\ queue = [inFlight |-> queue.inFlight, waiting |-> queue.waiting]
    BY <1>6, InputTypes
  <2> QED
    BY <1>6, <2>1, InputTypes
<1> QED
  BY <1>1, <1>2, <1>3, <1>4, <1>5, <1>7

LEMMA SendInput ==
    ASSUME ConnectInv, InputInv, SendTerminalInput PROVE InputInv'
<1> DEFINE x == typed + 1
           t == <<x>>
<1>1. /\ typed' = x /\ UNCHANGED <<socket, lost>>
      /\ x \in Nat /\ InputTyped' = 1..x /\ 1..x = InputTyped \union {x} /\ InputTyped \subseteq 1..x
      /\ x \notin Line /\ x \notin Dropped
      /\ t \in Seq(1..x) /\ Range(t) = {x}
      /\ sent \in Seq(1..x) /\ pendingInput \in Seq(1..x)
      /\ queue \in [inFlight : Nat, waiting : Seq(1..x)]
      /\ queue.waiting \in Seq(1..x) /\ x \in 1..x
  <2>1. typed' = x /\ UNCHANGED <<socket, lost>>
    BY DEF SendTerminalInput
  <2> QED
    BY <2>1, NextInput DEF InputTyped
<1>2. \A late : /\ InOrder(t, late)
                /\ Ahead(Range(sent), {x}, late) /\ Ahead(Waiting, {x}, late)
                /\ Ahead(Range(pendingInput), {x}, late)
  <2> SUFFICES ASSUME NEW late
               PROVE  /\ InOrder(t, late)
                      /\ Ahead(Range(sent), {x}, late) /\ Ahead(Waiting, {x}, late)
                      /\ Ahead(Range(pendingInput), {x}, late)
    OBVIOUS
  <2>1. InOrder(t, late) /\ Ahead(Line, {x}, late)
    BY NextInput
  <2> QED
    BY <2>1 DEF Ahead, Line
<1> HIDE DEF x, t
<1>3. /\ refused \subseteq 1..x /\ lost \subseteq 1..x /\ overtook \subseteq 1..x
      /\ queue.inFlight = 0 => queue.waiting = <<>>
      /\ queue.inFlight + Len(queue.waiting) <= MaxChunks
  BY <1>1 DEF InputInv, InputTypeOK
<1>4. CASE /\ EnqueueAll(t)
           /\ overtook' = IF pendingInput # <<>> THEN overtook \union {x} ELSE overtook
           /\ UNCHANGED pendingInput
  <2>1. overtook \subseteq overtook' /\ overtook' \subseteq 1..x
    BY <1>1, <1>3, <1>4
  <2>2. /\ InOrder(sent, overtook') /\ InOrder(queue.waiting, overtook') /\ InOrder(pendingInput, overtook')
        /\ Ahead(Range(sent), Waiting, overtook')
        /\ Ahead(Range(sent), Range(pendingInput), overtook')
        /\ Ahead(Waiting, Range(pendingInput), overtook')
    BY <2>1, LaterAllowed DEF InputInv, InLine
  <2>3. /\ sent' \in Seq(1..x) /\ queue' \in [inFlight : Nat, waiting : Seq(1..x)]
        /\ queue'.inFlight = 0 => queue'.waiting = <<>>
        /\ queue'.inFlight + Len(queue'.waiting) <= MaxChunks
        /\ InOrder(sent', overtook') /\ InOrder(queue'.waiting, overtook')
        /\ Ahead(Range(sent'), Waiting', overtook')
        /\ Range(sent') \union Waiting' \subseteq Range(sent) \union Waiting \union {x}
        /\ \E rest \in SUBSET {x} :
              /\ refused' = refused \union rest
              /\ Range(sent') \union Waiting' \union rest = Range(sent) \union Waiting \union {x}
              /\ (Range(sent') \union Waiting') \intersect rest = {}
    <3>1. /\ Ahead(Range(sent), Range(t), overtook') /\ Ahead(Waiting, Range(t), overtook')
          /\ InOrder(t, overtook')
        BY <1>1, <1>2
    <3> QED
        BY <1>1, <1>3, <1>4, <2>2, <3>1, EnqueueInOrder
  <2>4. Ahead({x}, Range(pendingInput), overtook')
    <3>1. CASE pendingInput = <<>>
        BY <3>1, NoInputs DEF Ahead
    <3>2. CASE pendingInput # <<>>
        BY <1>1, <1>4, <3>2 DEF Ahead, Precedes, Line
    <3> QED
        BY <3>1, <3>2
  <2>5. Ahead(Range(sent'), Range(pendingInput), overtook') /\ Ahead(Waiting', Range(pendingInput), overtook')
    BY <2>2, <2>3, <2>4 DEF Ahead
  <2>6. InLine'
    BY <1>4, <2>2, <2>3, <2>5 DEF InLine
  <2>7. NothingMissing'
    <3> DEFINE L == Range(sent) \union Waiting
               K == Range(sent') \union Waiting'
               P == Range(pendingInput)
    <3>1. PICK rest \in SUBSET {x} :
              refused' = refused \union rest /\ K \union rest = L \union {x} /\ K \intersect rest = {}
      BY <2>3
    <3>2. /\ InputTyped = L \union P \union refused \union lost
          /\ (L \union P) \intersect (refused \union lost) = {}
          /\ x \notin L \union P /\ x \notin refused \union lost
      BY <1>1 DEF InputInv, NothingMissing, Line, Dropped
    <3>3. /\ Line' = K \union P /\ Dropped' = refused \union rest \union lost
          /\ InputTyped' = InputTyped \union {x}
      BY <1>1, <1>4, <3>1 DEF Line, Dropped
    <3> HIDE DEF L, K, P
    <3>4. /\ InputTyped \union {x} = (K \union P) \union (refused \union rest \union lost)
          /\ (K \union P) \intersect (refused \union rest \union lost) = {}
      BY <3>1, <3>2
    <3> QED
      BY <3>3, <3>4 DEF NothingMissing
  <2>8. InputTypeOK'
    BY <1>1, <1>3, <1>4, <2>1, <2>3 DEF InputTypeOK
  <2>9. FlushedSocket'
    BY <1>1, <1>4 DEF InputInv, FlushedSocket
  <2> QED
    BY <2>6, <2>7, <2>8, <2>9 DEF InputInv
<1>5. CASE /\ ~appToolTransport /\ sent' = Append(sent, x)
           /\ socketBinding # NoSocket /\ socket[socketBinding].ready /\ socket[socketBinding].state = "open"
           /\ UNCHANGED <<pendingInput, refused, queue, overtook>>
  <2>1. pendingInput = <<>> /\ Range(pendingInput) = {}
    BY <1>5, NoInputs DEF InputInv, FlushedSocket, ConnectInv, ConnectTypeOK
  <2>2. queue = NoQueue /\ queue.waiting = <<>> /\ Waiting = {}
    BY <1>5, NothingQueued
  <2>3. sent' = sent \o t
    BY <1>1, <1>5, AppendIsConcat DEF t
  <2>4. sent' \in Seq(1..x) /\ Range(sent') = Range(sent) \union {x} /\ InOrder(sent', overtook)
    <3>1. InOrder(sent, overtook)
        BY DEF InputInv, InLine
    <3>2. InOrder(t, overtook) /\ Ahead(Range(sent), Range(t), overtook)
        BY <1>1, <1>2 DEF Ahead
    <3>3. sent \in Seq(1..x) /\ t \in Seq(1..x)
        BY <1>1
    <3>4. /\ sent \o t \in Seq(1..x) /\ Range(sent \o t) = Range(sent) \union Range(t)
          /\ InOrder(sent \o t, overtook)
        BY ONLY <3>1, <3>2, <3>3, ConcatInOrder
    <3> QED
        BY <1>1, <2>3, <3>4
  <2>5. InLine'
    BY <1>5, <2>1, <2>2, <2>4 DEF InputInv, InLine, Ahead, Waiting
  <2>6. NothingMissing'
    BY <1>1, <1>5, <2>4 DEF InputInv, NothingMissing, Line, Dropped, Waiting
  <2>7. InputTypeOK'
    BY <1>1, <1>3, <1>5, <2>4 DEF InputTypeOK
  <2>8. FlushedSocket'
    BY <1>1, <1>5 DEF InputInv, FlushedSocket
  <2> QED
    BY <2>5, <2>6, <2>7, <2>8 DEF InputInv
<1>6. CASE refused' = refused \union {x} /\ UNCHANGED <<pendingInput, sent, queue, overtook>>
  <2>1. InLine'
    BY <1>6 DEF InputInv, InLine, Waiting
  <2>2. NothingMissing'
    BY <1>1, <1>6 DEF InputInv, NothingMissing, Line, Dropped, Waiting
  <2>3. InputTypeOK'
    BY <1>1, <1>3, <1>6 DEF InputTypeOK
  <2>4. FlushedSocket'
    BY <1>1, <1>6 DEF InputInv, FlushedSocket
  <2> QED
    BY <2>1, <2>2, <2>3, <2>4 DEF InputInv
<1>7. CASE /\ pendingInput' = Append(pendingInput, x) /\ UNCHANGED <<sent, refused, queue, overtook>>
           /\ ~(socketBinding # NoSocket /\ socket[socketBinding].ready
                /\ IsCurrentSocketBinding(socketBinding) /\ socket[socketBinding].state = "open")
  <2>1. pendingInput' = pendingInput \o t
    BY <1>1, <1>7, AppendIsConcat DEF t
  <2>2. /\ pendingInput' \in Seq(1..x) /\ Range(pendingInput') = Range(pendingInput) \union {x}
        /\ InOrder(pendingInput', overtook)
    <3>1. InOrder(pendingInput, overtook)
        BY DEF InputInv, InLine
    <3>2. InOrder(t, overtook) /\ Ahead(Range(pendingInput), Range(t), overtook)
        BY <1>1, <1>2 DEF Ahead
    <3>3. pendingInput \in Seq(1..x) /\ t \in Seq(1..x)
        BY <1>1
    <3>4. /\ pendingInput \o t \in Seq(1..x)
          /\ Range(pendingInput \o t) = Range(pendingInput) \union Range(t)
          /\ InOrder(pendingInput \o t, overtook)
        BY ONLY <3>1, <3>2, <3>3, ConcatInOrder
    <3> QED
        BY <1>1, <2>1, <3>4
  <2>3. Ahead(Range(sent), {x}, overtook) /\ Ahead(Waiting, {x}, overtook)
    BY <1>2
  <2>4. InLine'
    BY <1>7, <2>2, <2>3 DEF InputInv, InLine, Ahead, Waiting
  <2>5. NothingMissing'
    BY <1>1, <1>7, <2>2 DEF InputInv, NothingMissing, Line, Dropped, Waiting
  <2>6. InputTypeOK'
    BY <1>1, <1>3, <1>7, <2>2 DEF InputTypeOK
  <2>7. \A s \in Sockets : ~(socket[s].ready /\ socket[s].state = "open")
    <3> SUFFICES ASSUME NEW s \in Sockets, socket[s].ready, socket[s].state = "open" PROVE FALSE
        OBVIOUS
    <3>1. IsCurrentSocketBinding(s) /\ socketBinding = s /\ s # NoSocket
        BY GenerationType DEF ConnectInv, SingleTransport, IsCurrentSocketBinding
    <3> QED
        BY <1>7, <3>1
  <2>8. FlushedSocket'
    BY <1>1, <2>7 DEF InputInv, FlushedSocket
  <2> QED
    BY <2>4, <2>5, <2>6, <2>8 DEF InputInv
<1> QED
  BY <1>4, <1>5, <1>6, <1>7 DEF SendTerminalInput, x, t

LEMMA WriteStep ==
    ASSUME InputInv, WriteFails \/ WriteSucceeds PROVE InputInv'
<1>1. UNCHANGED <<socket, pendingInput>>
  BY DEF WriteFails, WriteSucceeds
<1>2. FlushedSocket'
  BY <1>1 DEF InputInv, FlushedSocket
<1>3. CASE WriteFails
  BY <1>2, <1>3, QueueDropped DEF WriteFails
<1>4. CASE WriteSucceeds
  <2> DEFINE rest == queue.waiting
             next == IF Len(rest) < MaxCombined THEN Len(rest) ELSE MaxCombined
             p == SubSeq(rest, 1, next)
             q == SubSeq(rest, next + 1, Len(rest))
  <2>1. /\ queue' = [inFlight |-> next, waiting |-> q] /\ sent' = sent \o p
        /\ UNCHANGED <<typed, refused, lost, overtook, pendingInput>>
    BY <1>4 DEF WriteSucceeds
  <2>2. /\ rest \in Seq(InputTyped) /\ Len(rest) \in Nat /\ InOrder(rest, overtook)
        /\ sent \in Seq(InputTyped) /\ InOrder(sent, overtook)
        /\ Len(rest) <= MaxChunks
    BY InputTypes, LenProperties, TransportAssumption DEF InputInv, InputTypeOK, InLine
  <2>3. next \in 0..Len(rest) /\ next \in Nat /\ (next = 0 => Len(rest) = 0)
    BY <2>2, TransportAssumption
  <2> HIDE DEF next
  <2>4. /\ p \in Seq(InputTyped) /\ q \in Seq(InputTyped)
        /\ Len(q) = Len(rest) - next
        /\ InOrder(p, overtook) /\ InOrder(q, overtook) /\ Ahead(Range(p), Range(q), overtook)
        /\ Range(rest) = Range(p) \union Range(q)
    BY <2>2, <2>3, CutInOrder
  <2> HIDE DEF p, q
  <2>5. sent' \in Seq(InputTyped) /\ Range(sent') = Range(sent) \union Range(p) /\ InOrder(sent', overtook)
    <3>1. Ahead(Range(sent), Range(p), overtook)
        BY <2>4 DEF InputInv, InLine, Waiting, Ahead
    <3> QED
        BY <2>1, <2>2, <2>4, <3>1, ConcatInOrder
  <2>6. Waiting' = Range(q) /\ Waiting = Range(p) \union Range(q) /\ queue'.waiting = q /\ queue'.inFlight = next
    BY <2>1, <2>4 DEF Waiting
  <2>7. InLine'
    BY <2>1, <2>4, <2>5, <2>6 DEF InputInv, InLine, Ahead
  <2>8. NothingMissing'
    <3>1. Line' = Line /\ Dropped' = Dropped /\ InputTyped' = InputTyped
        BY <2>1, <2>5, <2>6 DEF Line, Dropped, InputTyped
    <3> QED
        BY <3>1 DEF InputInv, NothingMissing
  <2>9. InputTypeOK'
    <3>1. queue' \in [inFlight : Nat, waiting : Seq(InputTyped)]
        BY <2>1, <2>3, <2>4
    <3>2. next = 0 => q = <<>>
        BY <2>2, <2>3, <2>4, EmptySeq
    <3>3. next + Len(q) <= MaxChunks
        BY <2>2, <2>3, <2>4
    <3> QED
        BY <2>1, <2>5, <2>6, <3>1, <3>2, <3>3 DEF InputInv, InputTypeOK, InputTyped
  <2> QED
    BY <1>2, <2>7, <2>8, <2>9 DEF InputInv
<1> QED
  BY <1>3, <1>4

LEMMA SocketInput ==
    ASSUME ConnectInv, InputInv, NEW s \in Sockets, SocketOpens(s) \/ SocketReady(s) \/ SocketCloses(s)
    PROVE  InputInv'
<1>1. socket \in [Sockets -> Socket]
  BY DEF ConnectInv, SingleTransport, TypeOK
<1>2. CASE SocketOpens(s)
  <2>1. UNCHANGED <<typed, sent, refused, lost, overtook, queue, pendingInput>> /\ socket[s].state = "connecting"
        /\ socket' = [socket EXCEPT ![s].state = "open"]
    BY <1>2 DEF SocketOpens, history
  <2>2. ~socket[s].ready
    <3>1. socket[s].ready => socket[s].state # "connecting"
        BY <1>1 DEF InputInv, FlushedSocket, Socket
    <3> QED
        BY <2>1, <3>1
  <2>3. \A t \in Sockets : socket'[t].ready => t # s /\ socket[t].ready /\ socket'[t].state = socket[t].state
    BY <1>1, <2>1, <2>2 DEF Socket
  <2>4. FlushedSocket'
    BY <2>1, <2>3 DEF InputInv, FlushedSocket
  <2> QED
    BY <2>1, <2>4, SameInput
<1>3. CASE SocketCloses(s)
  <2>1. UNCHANGED <<typed, sent, refused, lost, overtook, queue, pendingInput>>
        /\ socket' = [socket EXCEPT ![s].state = "closing"]
    BY <1>3 DEF SocketCloses, history
  <2>2. FlushedSocket'
    BY <1>1, <2>1 DEF InputInv, FlushedSocket
  <2> QED
    BY <2>1, <2>2, SameInput
<1>4. CASE SocketReady(s)
  <2>1. /\ sent' = sent \o pendingInput /\ pendingInput' = <<>> /\ socket[s].state = "open"
        /\ socket' = [socket EXCEPT ![s].ready = TRUE]
        /\ UNCHANGED <<queue, typed, refused, lost, overtook>>
    BY <1>4 DEF SocketReady
  <2>2. queue.waiting = <<>> /\ Waiting = {}
    <3>1. IsCurrentSocketBinding(s) /\ socketBinding # NoSocket
        BY <1>4, GenerationType DEF SocketReady, IsCurrentSocketBinding
    <3>2. ~appToolTransport
        BY <3>1 DEF ConnectInv, SingleTransport
    <3> QED
        BY <3>2, NothingQueued
  <2>3. /\ sent' \in Seq(InputTyped) /\ Range(sent') = Range(sent) \union Range(pendingInput)
        /\ InOrder(sent', overtook)
    <3>1. InOrder(sent, overtook) /\ InOrder(pendingInput, overtook)
          /\ Ahead(Range(sent), Range(pendingInput), overtook)
        BY DEF InputInv, InLine
    <3>2. sent \in Seq(InputTyped) /\ pendingInput \in Seq(InputTyped)
        BY InputTypes
    <3>3. /\ sent \o pendingInput \in Seq(InputTyped)
          /\ Range(sent \o pendingInput) = Range(sent) \union Range(pendingInput)
          /\ InOrder(sent \o pendingInput, overtook)
        BY ONLY <3>1, <3>2, ConcatInOrder
    <3> QED
        BY <2>1, <3>3
  <2>4. /\ pendingInput' \in Seq(InputTyped) /\ Range(pendingInput') = {}
        /\ InOrder(pendingInput', overtook)
    BY <2>1, NoInputs
  <2>5. InLine'
    BY <2>1, <2>2, <2>3, <2>4 DEF InputInv, InLine, Ahead, Waiting
  <2>6. NothingMissing'
    BY <2>1, <2>2, <2>3, <2>4 DEF InputInv, NothingMissing, Line, Dropped, Waiting, InputTyped
  <2>7. InputTypeOK'
    BY <2>1, <2>3, <2>4 DEF InputInv, InputTypeOK, InputTyped
  <2>8. FlushedSocket'
    BY <1>1, <2>1 DEF InputInv, FlushedSocket
  <2> QED
    BY <2>5, <2>6, <2>7, <2>8 DEF InputInv
<1> QED
  BY <1>2, <1>3, <1>4

\* No socket is open once the terminal is disposed, so nothing has to be flushed.
LEMMA DisposedFlushed ==
    ASSUME ConnectInv, InputInv, NEW retained, NEW calls \in [Generations -> Fallback],
           DisposeTerminal(retained, calls)
    PROVE  FlushedSocket' /\ queue' = NoQueue /\ pendingInput' = retained
BY Disposed DEF DisposeTerminal, FlushedSocket

LEMMA SocketlessFlushed ==
    ASSUME \A s \in Sockets : socket'[s].state \notin {"connecting", "open"} PROVE FlushedSocket'
BY DEF FlushedSocket

LEMMA ConnectInput ==
    ASSUME ConnectInv, InputInv, NEW first, ConnectTerminal(first) PROVE InputInv'
<1>1. fallback \in [Generations -> Fallback]
  BY DEF ConnectInv, SingleTransport, TypeOK
<1>2. /\ DisposeTerminal(pendingInput, fallback) /\ lost' = lost \union Waiting
      /\ UNCHANGED <<typed, sent, refused, overtook>>
  BY DEF ConnectTerminal
<1>3. FlushedSocket' /\ queue' = NoQueue /\ pendingInput' = pendingInput
  BY <1>1, <1>2, DisposedFlushed
<1> QED
  BY <1>2, <1>3, QueueDropped

LEMMA StartInput ==
    ASSUME InputInv, NEW by, NEW sockets, StartAppToolTransport(by, sockets),
           \A s \in Sockets : sockets[s].state \notin {"connecting", "open"}
    PROVE  InputInv'
<1>1. /\ socket' = sockets /\ queue' = NoQueue /\ lost' = lost \union Waiting
      /\ UNCHANGED <<typed, sent, refused, overtook, pendingInput>>
  BY DEF StartAppToolTransport
<1> QED
  BY <1>1, SocketlessFlushed, QueueDropped

LEMMA EndInput ==
    ASSUME ConnectInv, InputInv, NEW calls \in [Generations -> Fallback], EndSession(calls) PROVE InputInv'
<1>1. FlushedSocket' /\ queue' = NoQueue /\ pendingInput' = <<>>
  BY DisposedFlushed DEF EndSession
<1> QED
  BY <1>1, InputReset DEF EndSession

LEMMA ConnectFailsInput ==
    ASSUME ConnectInv, InputInv, NEW g \in Generations, NEW first \in BOOLEAN,
           NEW calls \in [Generations -> Fallback], ConnectFails(g, first, calls),
           IsCurrentGeneration(g) => socketBinding = NoSocket
    PROVE  InputInv'
<1>1. CASE EndSession(calls)
  BY <1>1, EndInput
<1>2. CASE IsCurrentGeneration(g) /\ StartAppToolTransport("detached", socket)
  <2>1. \A s \in Sockets : socket[s].state \notin {"connecting", "open"}
    BY <1>2, GenerationType DEF ConnectInv, SingleTransport, IsCurrentSocketBinding
  <2> QED
    BY <1>2, <2>1, StartInput
<1>3. CASE UNCHANGED <<typed, sent, refused, lost, overtook, queue, pendingInput, socket>>
  BY <1>3, FlushedSame, SameInput
<1> QED
  BY <1>1, <1>2, <1>3 DEF ConnectFails, history

LEMMA LoadInput ==
    ASSUME ConnectInv, InputInv, NEW call \in loading, LoadFails(call) \/ LoadSucceeds(call) PROVE InputInv'
<1>1. /\ call \in [generation : Generations, first : BOOLEAN] /\ fallback \in [Generations -> Fallback]
      /\ socket \in [Sockets -> Socket]
  BY DEF ConnectInv, SingleTransport, TypeOK
<1>2. ASSUME IsCurrentGeneration(call.generation)
      PROVE  /\ socketBinding = NoSocket
             /\ \A s \in Sockets : socket[s].state \notin {"connecting", "open"}
  <2>1. call \in Loading(activeGeneration)
    BY <1>2 DEF Loading, IsCurrentGeneration
  <2> QED
    BY <2>1, GenerationType DEF ConnectInv, OneConnect, SingleTransport, IsCurrentSocketBinding
<1>3. CASE LoadFails(call)
  <2>1. ConnectFails(call.generation, call.first, fallback)
    BY <1>3 DEF LoadFails
  <2> QED
    BY <1>1, <1>2, <2>1, ConnectFailsInput
<1>4. CASE ~IsCurrentGeneration(call.generation) /\ UNCHANGED <<transport, pendingInput, history>>
  BY <1>4, FlushedSame, SameInput DEF transport, history
<1>5. CASE IsCurrentGeneration(call.generation) /\ \E by : StartAppToolTransport(by, socket)
  BY <1>2, <1>5, StartInput
<1>6. CASE /\ \E s \in Sockets : socket' = [socket EXCEPT ![s] = [state |-> "connecting", ready |-> FALSE,
                                                                generation |-> call.generation]]
           /\ UNCHANGED <<queue, pendingInput, history>>
  <2> PICK s \in Sockets : socket' = [socket EXCEPT ![s] = [state |-> "connecting", ready |-> FALSE,
                                                            generation |-> call.generation]]
    BY <1>6
  <2>1. \A t \in Sockets : socket'[t].ready => socket'[t] = socket[t]
    BY <1>1
  <2>2. FlushedSocket'
    BY <1>6, <2>1 DEF InputInv, FlushedSocket
  <2> QED
    BY <1>6, <2>2, SameInput DEF history
<1> QED
  BY <1>3, <1>4, <1>5, <1>6 DEF LoadSucceeds

LEMMA SocketClosedInput ==
    ASSUME ConnectInv, InputInv, NEW s \in Sockets, NEW failed \in BOOLEAN, SocketClosed(s, failed)
    PROVE  InputInv'
<1> DEFINE closed == [socket EXCEPT ![s] = [state |-> "closed", ready |-> FALSE, generation |-> @.generation]]
<1>1. /\ \A t \in Sockets : closed[t].ready => closed[t] = socket[t]
      /\ \A t \in Sockets : t # s => closed[t] = socket[t]
      /\ closed[s].state = "closed"
  BY DEF ConnectInv, SingleTransport, TypeOK
<1>2. CASE socket' = closed /\ UNCHANGED <<typed, sent, refused, lost, overtook, queue, pendingInput>>
  <2>1. FlushedSocket'
    BY <1>1, <1>2 DEF InputInv, FlushedSocket
  <2> QED
    BY <1>2, <2>1, SameInput
<1>3. CASE IsCurrentSocketBinding(s) /\ StartAppToolTransport("detached", closed)
  <2>1. \A t \in Sockets : closed[t].state \notin {"connecting", "open"}
    BY <1>1, <1>3 DEF ConnectInv, SingleTransport, IsCurrentSocketBinding
  <2> HIDE DEF closed
  <2> QED
    BY <1>3, <2>1, StartInput
<1> QED
  BY <1>2, <1>3 DEF SocketClosed, history

LEMMA FallbackTimerInput ==
    ASSUME ConnectInv, InputInv, FallbackTimer PROVE InputInv'
<1>1. CASE UNCHANGED <<socket, queue, pendingInput, history>>
  BY <1>1, FlushedSame, SameInput DEF history
<1>2. CASE IsCurrentSocketBinding(fallbackTimer) /\ StartFallback(fallbackTimer)
  <2>1. socket \in [Sockets -> Socket] /\ fallbackTimer \in Sockets /\ fallbackTimer # NoSocket
    BY <1>2, GenerationType DEF FallbackTimer, ConnectInv, ConnectTypeOK, SingleTransport, TypeOK
  <2>2. \A t \in Sockets : Close(fallbackTimer)[t].state \notin {"connecting", "open"}
    <3>1. \A t \in Sockets : socket[t].state \in {"connecting", "open"} => t = fallbackTimer
        BY <1>2 DEF ConnectInv, SingleTransport, IsCurrentSocketBinding
    <3> QED
        BY <2>1, <3>1 DEF Close, Socket
  <2> QED
    BY <1>2, <2>2, StartInput DEF StartFallback
<1> QED
  BY <1>1, <1>2 DEF FallbackTimer

LEMMA AttachedInput ==
    ASSUME ConnectInv, InputInv, NEW g \in Generations, Attached(g) PROVE InputInv'
<1>1. CASE UNCHANGED <<queue, sent, refused, pendingInput>>
  BY <1>1, FlushedSame, SameInput DEF Attached
<1>2. CASE EnqueueAll(pendingInput) /\ pendingInput' = <<>>
  <2>1. UNCHANGED <<typed, lost, overtook, socket>>
    BY DEF Attached
  <2>2. /\ sent \in Seq(InputTyped) /\ pendingInput \in Seq(InputTyped)
        /\ queue \in [inFlight : Nat, waiting : Seq(InputTyped)]
        /\ queue.inFlight = 0 => queue.waiting = <<>>
        /\ queue.inFlight + Len(queue.waiting) <= MaxChunks
        /\ InOrder(sent, overtook) /\ InOrder(queue.waiting, overtook) /\ InOrder(pendingInput, overtook)
        /\ Ahead(Range(sent), Waiting, overtook)
        /\ Ahead(Range(sent), Range(pendingInput), overtook)
        /\ Ahead(Waiting, Range(pendingInput), overtook)
        /\ Range(pendingInput) \subseteq InputTyped
    BY InputTypes DEF InputInv, InputTypeOK, InLine
  <2>3. /\ sent' \in Seq(InputTyped) /\ queue' \in [inFlight : Nat, waiting : Seq(InputTyped)]
        /\ queue'.inFlight = 0 => queue'.waiting = <<>>
        /\ queue'.inFlight + Len(queue'.waiting) <= MaxChunks
        /\ InOrder(sent', overtook) /\ InOrder(queue'.waiting, overtook)
        /\ Ahead(Range(sent'), Waiting', overtook)
        /\ \E rest \in SUBSET Range(pendingInput) :
              /\ refused' = refused \union rest
              /\ Range(sent') \union Waiting' \union rest = Range(sent) \union Waiting \union Range(pendingInput)
              /\ (Range(sent') \union Waiting') \intersect rest = {}
    BY ONLY <1>2, <2>2, EnqueueInOrder
  <2>4. /\ pendingInput' \in Seq(InputTyped) /\ Range(pendingInput') = {}
        /\ InOrder(pendingInput', overtook)
    BY <1>2, NoInputs
  <2>5. InLine'
    BY <2>1, <2>3, <2>4 DEF InLine, Ahead
  <2>6. NothingMissing'
    <3> PICK rest \in SUBSET Range(pendingInput) :
              /\ refused' = refused \union rest
              /\ Range(sent') \union Waiting' \union rest = Range(sent) \union Waiting \union Range(pendingInput)
              /\ (Range(sent') \union Waiting') \intersect rest = {}
        BY <2>3
    <3>1. InputTyped' = InputTyped /\ Line' = Range(sent') \union Waiting' /\ Dropped' = Dropped \union rest
          /\ Line' \union rest = Line /\ Line' \intersect rest = {}
        BY <2>1, <2>4 DEF InputTyped, Line, Dropped
    <3> QED
        BY <3>1 DEF InputInv, NothingMissing
  <2>7. InputTypeOK'
    BY <2>1, <2>2, <2>3, <2>4 DEF InputInv, InputTypeOK, InputTyped
  <2>8. FlushedSocket'
    BY <1>2, <2>1 DEF InputInv, FlushedSocket
  <2> QED
    BY <2>5, <2>6, <2>7, <2>8 DEF InputInv
<1> QED
  BY <1>1, <1>2 DEF Attached

LEMMA AttachFailsInput ==
    ASSUME ConnectInv, InputInv, NEW g \in Generations, AttachFails(g) PROVE InputInv'
<1>1. CASE UNCHANGED <<socket, queue, pendingInput, history>>
  BY <1>1, FlushedSame, SameInput DEF history
<1>2. CASE ConnectFails(g, fallback[g].by = "connect", [fallback EXCEPT ![g] = NoFallback])
  <2>1. [fallback EXCEPT ![g] = NoFallback] \in [Generations -> Fallback]
    BY DEF ConnectInv, SingleTransport, TypeOK, Fallback, NoFallback
  <2>2. IsCurrentGeneration(g) => socketBinding = NoSocket
    BY DEF AttachFails, ConnectInv, OneConnect, SingleTransport, Attaching, IsCurrentGeneration
  <2> QED
    BY <1>2, <2>1, <2>2, ConnectFailsInput
<1> QED
  BY <1>1, <1>2 DEF AttachFails

LEMMA InputInit == Init => InputInv
<1> SUFFICES ASSUME Init PROVE InputInv
  OBVIOUS
<1>1. InputTyped = {}
  BY DEF Init, InputTyped
<1>2. InputTypeOK
  BY <1>1, NoInputs, NoQueueType DEF Init, InputTypeOK
<1>3. InLine
  BY NoInputs, NoQueueType DEF Init, InLine, Ahead, Waiting
<1>4. NothingMissing
  BY <1>1, NoInputs, NoQueueType DEF Init, NothingMissing, Line, Dropped, Waiting
<1>5. FlushedSocket
  BY DEF Init, FlushedSocket
<1> QED
  BY <1>2, <1>3, <1>4, <1>5 DEF InputInv

LEMMA InputNext == ConnectInv /\ InputInv /\ [Next]_vars => InputInv'
<1> SUFFICES ASSUME ConnectInv, InputInv, [Next]_vars PROVE InputInv'
  OBVIOUS
<1>1. CASE UNCHANGED vars
  BY <1>1, FlushedSame, SameInput DEF vars, transport, history
<1>2. CASE ConnectPendingSession \/ ReconnectTimer
  <2>1. CASE UNCHANGED <<transport, pendingInput, history>>
    BY <2>1, FlushedSame, SameInput DEF transport, history
  <2>2. CASE \E first : ConnectTerminal(first)
    BY <2>2, ConnectInput
  <2> QED
    BY <1>2, <2>1, <2>2 DEF ConnectPendingSession, ReconnectTimer
<1>3. CASE Cleanup
  <2>1. EndSession(fallback) /\ fallback \in [Generations -> Fallback]
    BY <1>3 DEF Cleanup, ConnectInv, SingleTransport, TypeOK
  <2> QED
    BY <2>1, EndInput
<1>4. CASE \E g \in Generations : Polled(g)
  BY <1>4, FlushedSame, SameInput DEF Polled, history
<1>5. CASE Next
  BY <1>2, <1>3, <1>4, <1>5, SendInput, WriteStep, SocketInput, LoadInput, SocketClosedInput, FallbackTimerInput,
     AttachedInput, AttachFailsInput DEF Next
<1> QED
  BY <1>1, <1>5

-----------------------------------------------------------------------------

LEMMA TransportInit == Init => TransportInv
BY ConnectInit, InputInit DEF TransportInv

LEMMA TransportStep == TransportInv /\ [Next]_vars => TransportInv'
BY ConnectNext, InputNext DEF TransportInv

\* The inductive invariant: the session shown connects in one way at a time, and
\* its inputs stand in one line.
THEOREM TransportInvariant == Spec => []TransportInv
BY TransportInit, TransportStep, PTL DEF Spec

\* At most one transport carries input, whatever closes, fails or fires late.
THEOREM OneTransport == Spec => []SingleTransport
<1>1. TransportInv => SingleTransport
  BY DEF TransportInv, ConnectInv
<1> QED
  BY <1>1, TransportInvariant, PTL

\* No input is handed over twice, and none is dropped without a message but by a
\* reconnect after a failed attach.
THEOREM AllInputAccounted == Spec => []InputAccounted
<1>1. TransportInv => InputAccounted
  <2> SUFFICES ASSUME TransportInv PROVE InputAccounted
    OBVIOUS
  <2>1. sent \in Seq(InputTyped) /\ DOMAIN sent = 1..Len(sent) /\ Len(sent) \in Nat
    BY InputTypes, LenProperties DEF TransportInv
  <2>2. \A i, j \in DOMAIN sent : i < j => sent[i] # sent[j]
    BY DEF TransportInv, InputInv, InLine, InOrder, Precedes
  <2>3. IsInjective(sent)
    BY <2>1, <2>2 DEF IsInjective
  <2>4. Range(sent) \intersect Waiting = {} /\ Range(sent) \intersect Range(pendingInput) = {}
    BY AheadApart DEF TransportInv, InputInv, InLine
  <2> QED
    BY <2>3, <2>4 DEF TransportInv, InputInv, NothingMissing, Line, Dropped, InputAccounted
<1> QED
  BY <1>1, TransportInvariant, PTL

\* An input is overtaken only by one typed while the app tools attach.
THEOREM OrderIsKept == Spec => []OrderKeptOutsideHandoff
<1>1. TransportInv => OrderKeptOutsideHandoff
  BY DEF TransportInv, InputInv, InLine, InOrder, Precedes, OrderKeptOutsideHandoff
<1> QED
  BY <1>1, TransportInvariant, PTL
=============================================================================
