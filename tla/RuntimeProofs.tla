--------------------------- MODULE RuntimeProofs ----------------------------
(***************************************************************************)
(* What the process promises for every limit, window and number of         *)
(* records: the accounting of audit records survives inside the runtime,   *)
(* suppressed rejections are announced, and a process that ends by its own *)
(* decision leaves nothing behind.                                         *)
(***************************************************************************)
EXTENDS Runtime, TLAPS

-----------------------------------------------------------------------------
(* The accounting by itself, for every pattern of sink failures *)

\* The error is kept exactly as long as the count is not zero.
IInv ==
    /\ AccountingTypeOK
    /\ EveryRecordAccounted
    /\ lastAuditError <=> droppedAuditRecords > 0

LEMMA InvInit == AccountingInit => IInv
<1> SUFFICES ASSUME AccountingInit PROVE IInv
  OBVIOUS
<1>1. AccountingTypeOK
  <2>1. lastAuditError \in BOOLEAN
    BY Zenon DEF AccountingInit
  <2>2. /\ droppedAuditRecords \in Nat /\ records \in 0..MaxRecords
        /\ kept \in Nat /\ recovered \in Nat
    BY MaxRecordsAssumption DEF MaxRecordsAssumption, AccountingInit
  <2> QED BY <2>1, <2>2 DEF AccountingTypeOK
<1>2. EveryRecordAccounted
  BY DEF AccountingInit, EveryRecordAccounted
<1>3. ~lastAuditError /\ ~(droppedAuditRecords > 0)
  <2>1. ~lastAuditError
    BY Zenon DEF AccountingInit
  <2>2. ~(droppedAuditRecords > 0)
    BY DEF AccountingInit
  <2> QED BY <2>1, <2>2
<1> QED BY <1>1, <1>2, <1>3 DEF IInv

LEMMA InvStep == IInv /\ [AccountingNext]_accountingVars => IInv'
<1> SUFFICES ASSUME IInv, [AccountingNext]_accountingVars
             PROVE  IInv'
  OBVIOUS
<1> USE MaxRecordsAssumption
    DEF MaxRecordsAssumption, IInv, AccountingTypeOK, EveryRecordAccounted, Request
<1>1. CASE RecordDropped
  BY <1>1 DEF RecordDropped
<1>2. CASE RecordKept
  BY <1>2 DEF RecordKept
<1>3. CASE RecordKeptAndRecovered
  <2>1. ~lastAuditError' /\ lastAuditError' \in BOOLEAN
    BY <1>3, Zenon DEF RecordKeptAndRecovered
  <2>2. droppedAuditRecords' = 0
    BY <1>3 DEF RecordKeptAndRecovered
  <2>3. /\ EveryRecordAccounted' /\ records' \in 0..MaxRecords
        /\ kept' \in Nat /\ recovered' \in Nat
    BY <1>3 DEF RecordKeptAndRecovered
  <2>4. ~(droppedAuditRecords' > 0) /\ droppedAuditRecords' \in Nat
    BY <2>2
  <2> QED BY <2>1, <2>3, <2>4, Zenon
<1>4. CASE RecordKeptMarkerDropped
  BY <1>4 DEF RecordKeptMarkerDropped
<1>5. CASE UNCHANGED accountingVars
  BY <1>5 DEF accountingVars
<1> QED BY <1>1, <1>2, <1>3, <1>4, <1>5 DEF AccountingNext

\* Every event is in the log, counted by a marker in the log, or counted by
\* auditHealth().
THEOREM Accounted == AccountingSpec => []EveryRecordAccounted
<1>1. IInv => EveryRecordAccounted
  BY DEF IInv
<1> QED BY <1>1, InvInit, InvStep, PTL DEF AccountingSpec

\* auditHealth() is healthy exactly when the log explains all of its gaps.
THEOREM HonestHealth == AccountingSpec => []HealthIsHonest
<1>1. IInv => HealthIsHonest
  BY DEF IInv, AccountingTypeOK, EveryRecordAccounted, HealthIsHonest, Healthy
<1> QED BY <1>1, InvInit, InvStep, PTL DEF AccountingSpec

-----------------------------------------------------------------------------
(* The accounting of audit records *)

LEMMA AccountingInitially == Init => AccountingInit
BY DEF Init

LEMMA AccountingStep == [Next]_vars => [AccountingNext]_accountingVars
<1> SUFFICES ASSUME [Next]_vars PROVE [AccountingNext]_accountingVars
  OBVIOUS
<1>1. CASE StartStep
  BY <1>1 DEF StartStep, BridgeListens, BindRetried, RetryTimer, BindFails, StartRecorded,
              StartNotRecorded, StartUndone, HttpListens, HttpFails, audit
<1>2. CASE PortReleased \/ SessionEnds \/ StdinEnds
  BY <1>2 DEF PortReleased, SessionEnds, StdinEnds, audit
<1>3. CASE ClientStep
  BY <1>3 DEF ClientStep, RequestArrives, BodyArrives, RequestAnswered, RequestDropped,
              TransferEnds, StdioCall, audit
<1>4. CASE ConnectionRejected \/ SummaryDue \/ Tick
  BY <1>4 DEF ConnectionRejected, SummaryDue, Tick
<1>5. CASE \E g \in Signals : Signal(g)
  BY <1>5 DEF Signal, audit
<1>6. CASE CloseStep \/ CloseRejects
  BY <1>6 DEF CloseStep, StopHttp, HttpStopped, ServerCloses, SessionsDrained, BridgeStops,
              BridgeCloses, Flushed, CloseRejects, HttpStopRejects, BridgeCloseRejects, audit
<1>7. CASE WriteRecord
  BY <1>7 DEF WriteRecord
<1>8. CASE UNCHANGED vars
  BY <1>8 DEF vars
<1> QED BY <1>1, <1>2, <1>3, <1>4, <1>5, <1>6, <1>7, <1>8 DEF Next

\* The runtime implements the accounting: it writes records only through
\* recordAuditEventSafe, and no other step touches the counts.
THEOREM ImplementsAccounting == Spec => AccountingSpec
BY AccountingInitially, AccountingStep, PTL DEF Spec, AccountingSpec

\* No audit record of a runtime is lost without being counted.
THEOREM RuntimeAccounted == Spec => []EveryRecordAccounted
BY ImplementsAccounting, Accounted, PTL

-----------------------------------------------------------------------------
(* The rejection rate limiter *)

\* A summary timer that runs is due exactly at the end of the window, and it
\* runs while the window has suppressed something or a summary is owed.
LimiterInv ==
    /\ elapsed \in 0..Window
    /\ suppressedCount \in Nat
    /\ unreported \in Nat
    /\ timer \in Nat \union {NoTimer}
    /\ timer # NoTimer => timer = Window - elapsed
    /\ suppressedCount > 0 /\ elapsed < Window => timer # NoTimer /\ announced = TRUE
    /\ unreported > 0 => timer # NoTimer /\ announced = TRUE

LEMMA LimiterInitially == Init => LimiterInv
BY LimiterAssumption DEF LimiterAssumption, Init, LimiterInit, LimiterInv

\* record() keeps it, in a window with room, at the limit, and in a new one.
LEMMA LimiterRecord ==
    LimiterInv /\ (RecordDetailed \/ RecordSuppressed \/ RecordInNewWindow) => LimiterInv'
<1> SUFFICES ASSUME LimiterInv, RecordDetailed \/ RecordSuppressed \/ RecordInNewWindow
             PROVE  LimiterInv'
  OBVIOUS
<1> USE LimiterAssumption DEF LimiterAssumption, LimiterInv
<1>1. CASE RecordDetailed
  BY <1>1 DEF RecordDetailed
<1>2. CASE RecordSuppressed /\ suppressedCount = 0
  BY <1>2 DEF RecordSuppressed, Remaining
<1>3. CASE RecordSuppressed /\ suppressedCount # 0
  BY <1>3 DEF RecordSuppressed
<1>4. CASE RecordInNewWindow
  BY <1>4 DEF RecordInNewWindow
<1> QED BY <1>1, <1>2, <1>3, <1>4

\* The timer keeps it: it is due when the window is over.
LEMMA LimiterSummary == LimiterInv /\ SummaryTimer => LimiterInv'
BY LimiterAssumption DEF LimiterAssumption, LimiterInv, SummaryTimer

LEMMA LimiterTicks == LimiterInv /\ LimiterTick => LimiterInv'
BY LimiterAssumption DEF LimiterAssumption, LimiterInv, LimiterTick

LEMMA LimiterStep == LimiterInv /\ [Next]_vars => LimiterInv'
<1> SUFFICES ASSUME LimiterInv, [Next]_vars PROVE LimiterInv'
  OBVIOUS
<1>1. CASE ConnectionRejected
  BY <1>1, LimiterRecord DEF ConnectionRejected
<1>2. CASE SummaryDue
  BY <1>2, LimiterSummary DEF SummaryDue
<1>3. CASE Tick
  BY <1>3, LimiterTicks DEF Tick
<1>4. CASE UNCHANGED limiterVars
  BY <1>4 DEF LimiterInv, limiterVars
<1>5. ConnectionRejected \/ SummaryDue \/ Tick \/ UNCHANGED limiterVars
  <2>1. CASE StartStep
    BY <2>1 DEF StartStep, BridgeListens, BindRetried, RetryTimer, BindFails, StartRecorded,
                StartNotRecorded, StartUndone, HttpListens, HttpFails, audit
  <2>2. CASE PortReleased \/ SessionEnds \/ StdinEnds
    BY <2>2 DEF PortReleased, SessionEnds, StdinEnds, audit
  <2>3. CASE ClientStep
    BY <2>3 DEF ClientStep, RequestArrives, BodyArrives, RequestAnswered, RequestDropped,
                TransferEnds, StdioCall, audit
  <2>4. CASE \E g \in Signals : Signal(g)
    BY <2>4 DEF Signal, audit
  <2>5. CASE CloseStep \/ CloseRejects
    BY <2>5 DEF CloseStep, StopHttp, HttpStopped, ServerCloses, SessionsDrained, BridgeStops,
                BridgeCloses, Flushed, CloseRejects, HttpStopRejects, BridgeCloseRejects, audit
  <2>6. CASE WriteRecord
    BY <2>6 DEF WriteRecord
  <2>7. CASE UNCHANGED vars
    BY <2>7 DEF vars
  <2> QED BY <2>1, <2>2, <2>3, <2>4, <2>5, <2>6, <2>7 DEF Next
<1> QED BY <1>1, <1>2, <1>3, <1>4, <1>5

\* While a suppressed rejection is in no summary, a summary timer runs that
\* fires at the end of its window at the latest.
THEOREM RuntimeAnnounces == Spec => []SuppressionIsAnnounced
<1>1. LimiterInv => SuppressionIsAnnounced
  BY LimiterAssumption DEF LimiterAssumption, LimiterInv, SuppressionIsAnnounced
<1> QED BY <1>1, LimiterInitially, LimiterStep, PTL DEF Spec


-----------------------------------------------------------------------------
(* Nothing left behind *)

Stages == Starting \union {"serving"} \union Closing \union Ended

\* The stages in which the HTTP server has never listened, is closed, or was
\* left because its close() rejected.
HttpOver == {"closingServer", "drainingSessions", "closingBridge", "awaitingBridge",
             "flushing", "exited", "failed"}

ServerState == {"none", "listening", "stopping", "closed"}

RuntimeTypeOK ==
    /\ stage \in Stages
    /\ httpMode \in BOOLEAN
    /\ bridge \in ServerState
    /\ mcp \in ServerState
    /\ request \in {"none", "incoming", "handling"}
    /\ session \in BOOLEAN
    /\ killFailed \in BOOLEAN
    /\ rejected \subseteq {"bridge", "mcp"}

\* Which stages each server can be up in: what a step that reaches an end
\* finds already closed, and that only a server that is up has requests.
ServersInv ==
    /\ stage \in {"listening", "stoppingHttp", "awaitingHttp"} => httpMode
    /\ ~httpMode \/ stage \in Starting => mcp = "none"
    /\ stage \in HttpOver => mcp \in {"none", "closed"} \/ "mcp" \in rejected
    /\ mcp \in {"none", "closed"} => request = "none"
    /\ stage \in {"binding", "retrying"} => bridge = "none"
    /\ stage \in {"flushing", "exited", "failed"} =>
          bridge \in {"none", "closed"} \/ "bridge" \in rejected

\* A session needs a client, so there is none before the end of startup; and
\* none outlives the drain unless its kill threw or a request could still be
\* served.
SessionInv ==
    /\ stage \in Starting => ~session
    /\ stage \in {"closingBridge", "awaitingBridge", "flushing", "exited", "failed"} =>
          (session => killFailed \/ "mcp" \in rejected)

RuntimeInv ==
    /\ RuntimeTypeOK
    /\ ServersInv
    /\ SessionInv

LEMMA RuntimeInitially == Init => RuntimeInv
<1> SUFFICES ASSUME Init PROVE RuntimeInv
  OBVIOUS
<1>1. ~session /\ {httpMode, session, killFailed} \subseteq BOOLEAN
  BY Zenon DEF Init
<1>2. /\ stage = "binding" /\ mcp = "none" /\ bridge = "none" /\ request = "none"
      /\ rejected = {}
  BY DEF Init
<1>3. RuntimeTypeOK
  <2>1. /\ stage \in Stages /\ mcp \in ServerState /\ bridge \in ServerState
        /\ request \in {"none", "incoming", "handling"} /\ rejected \subseteq {"bridge", "mcp"}
    BY <1>2 DEF Stages, Starting, ServerState
  <2> QED BY <1>1, <2>1, Zenon DEF RuntimeTypeOK
<1>4. ServersInv
  BY <1>2 DEF ServersInv, HttpOver
<1>5. SessionInv
  BY <1>1, <1>2 DEF SessionInv
<1> QED BY <1>3, <1>4, <1>5 DEF RuntimeInv

LEMMA RuntimeStep == RuntimeInv /\ [Next]_vars => RuntimeInv'
<1> SUFFICES ASSUME RuntimeInv, [Next]_vars PROVE RuntimeInv'
  OBVIOUS
<1> USE DEF RuntimeInv, RuntimeTypeOK, ServersInv, SessionInv, Stages, Starting, Closing,
            Ended, HttpOver, ServerState, Turn, starting, serving, ending
<1>1. CASE BridgeListens
  BY <1>1 DEF BridgeListens
<1>2. CASE BindRetried
  BY <1>2 DEF BindRetried
<1>3. CASE RetryTimer
  BY <1>3 DEF RetryTimer
<1>4. CASE BindFails
  BY <1>4 DEF BindFails
<1>5. CASE StartRecorded
  BY <1>5 DEF StartRecorded
<1>6. CASE StartNotRecorded
  BY <1>6 DEF StartNotRecorded
<1>7. CASE StartUndone
  BY <1>7 DEF StartUndone
<1>8. CASE HttpListens
  BY <1>8 DEF HttpListens
<1>9. CASE HttpFails
  BY <1>9 DEF HttpFails
<1>10. CASE PortReleased
  BY <1>10 DEF PortReleased
<1>11. CASE RequestArrives
  BY <1>11 DEF RequestArrives
<1>12. ASSUME NEW opens \in BOOLEAN, BodyArrives(opens) PROVE RuntimeInv'
  BY <1>12 DEF BodyArrives
<1>13. CASE RequestAnswered
  BY <1>13 DEF RequestAnswered
<1>14. CASE RequestDropped
  BY <1>14 DEF RequestDropped
<1>15. CASE TransferEnds
  BY <1>15 DEF TransferEnds
<1>16. CASE StdioCall
  BY <1>16 DEF StdioCall
<1>17. CASE SessionEnds
  <2>1. /\ session' = FALSE
        /\ UNCHANGED <<stage, httpMode, bridge, mcp, request, killFailed, rejected>>
    BY <1>17 DEF SessionEnds
  <2>2. RuntimeTypeOK'
    BY <2>1
  <2>3. ServersInv'
    BY <2>1
  <2>4. SessionInv'
    BY <2>1
  <2> QED BY <2>2, <2>3, <2>4
<1>18. CASE ConnectionRejected
  BY <1>18 DEF ConnectionRejected
<1>19. CASE SummaryDue
  BY <1>19 DEF SummaryDue
<1>20. ASSUME NEW g \in Signals, Signal(g) PROVE RuntimeInv'
  BY <1>20 DEF Signal, FirstStep
<1>21. CASE StdinEnds
  BY <1>21 DEF StdinEnds
<1>22. CASE StopHttp
  BY <1>22 DEF StopHttp
<1>23. CASE HttpStopped
  BY <1>23 DEF HttpStopped
<1>24. CASE HttpStopRejects
  BY <1>24 DEF HttpStopRejects
<1>25. CASE ServerCloses
  BY <1>25 DEF ServerCloses
<1>26. ASSUME NEW kills \in BOOLEAN, SessionsDrained(kills) PROVE RuntimeInv'
  BY <1>26 DEF SessionsDrained
<1>27. CASE BridgeStops
  BY <1>27 DEF BridgeStops
<1>28. CASE BridgeCloses
  BY <1>28 DEF BridgeCloses
<1>29. CASE BridgeCloseRejects
  BY <1>29 DEF BridgeCloseRejects
<1>30. CASE Flushed
  BY <1>30 DEF Flushed
<1>31. CASE WriteRecord
  BY <1>31 DEF WriteRecord
<1>32. CASE Tick
  BY <1>32 DEF Tick
<1>33. CASE UNCHANGED vars
  BY <1>33 DEF vars
<1> QED
  BY <1>1, <1>2, <1>3, <1>4, <1>5, <1>6, <1>7, <1>8, <1>9, <1>10, <1>11, <1>12, <1>13, <1>14,
     <1>15, <1>16, <1>17, <1>18, <1>19, <1>20, <1>21, <1>22, <1>23, <1>24, <1>25, <1>26, <1>27,
     <1>28, <1>29, <1>30, <1>31, <1>32, <1>33, Zenon DEF Next, StartStep, ClientStep,
     CloseStep, CloseRejects

\* A process that ends by its own decision has closed its servers, except one
\* whose close() rejected, and left no session, except one whose kill threw or
\* that the HTTP server it could not close has opened since.
THEOREM RuntimeClean == Spec => []NothingLeftBehind
<1>1. RuntimeInv => NothingLeftBehind
  BY DEF RuntimeInv, ServersInv, SessionInv, HttpOver, NothingLeftBehind
<1> QED BY <1>1, RuntimeInitially, RuntimeStep, PTL DEF Spec
=============================================================================
